---------------------------- MODULE VisitLedger ----------------------------
(***************************************************************************)
(* What the visit endpoints promise, without handlers, requests or stops:  *)
(* a start is tied to one visit for good, a visit closes by the allowed    *)
(* transitions only, and a report is written once per confirm.             *)
(***************************************************************************)
EXTENDS Naturals

CONSTANTS CId, Vid, Token, None, NoReport

VARIABLES
    visitOf,    \* the visit each start is tied to, or None
    status,     \* "none", "open", "completed", "cancelled"
    report,     \* the confirm each visit's report was written by, or NoReport
    revision    \* alternates with every write of the report

vars == <<visitOf, status, report, revision>>

Init ==
    /\ visitOf = [c \in CId |-> None]
    /\ status = [v \in Vid |-> "none"]
    /\ report = [v \in Vid |-> NoReport]
    /\ revision = [v \in Vid |-> 0]

\* A start opens a visit of its own.
Open(c, v) ==
    /\ visitOf[c] = None
    /\ status[v] = "none"
    /\ visitOf' = [visitOf EXCEPT ![c] = v]
    /\ status' = [status EXCEPT ![v] = "open"]
    /\ UNCHANGED <<report, revision>>

\* A start is work on a visit that is already open.
Adopt(c, v) ==
    /\ visitOf[c] = None
    /\ status[v] = "open"
    /\ visitOf' = [visitOf EXCEPT ![c] = v]
    /\ UNCHANGED <<status, report, revision>>

\* A visit that is not cancelled is completed or reopened, with no report.
Update(v, s) ==
    /\ status[v] \in {"open", "completed"}
    /\ s \in {"open", "completed"}
    /\ status' = [status EXCEPT ![v] = s]
    /\ UNCHANGED <<visitOf, report, revision>>

Cancel(v) ==
    /\ status[v] = "open"
    /\ status' = [status EXCEPT ![v] = "cancelled"]
    /\ UNCHANGED <<visitOf, report, revision>>

\* A confirm writes the report unless the report is already its own, and
\* completes the visit.
Write(v, t) ==
    /\ status[v] \in {"open", "completed"}
    /\ \A w \in Vid : report[w] # t
    /\ report' = [report EXCEPT ![v] = t]
    /\ revision' = [revision EXCEPT ![v] = 1 - @]
    /\ status' = [status EXCEPT ![v] = "completed"]
    /\ UNCHANGED visitOf

Next ==
    \E v \in Vid :
        \/ \E c \in CId : Open(c, v) \/ Adopt(c, v)
        \/ \E s \in {"open", "completed"} : Update(v, s)
        \/ Cancel(v)
        \/ \E t \in Token : Write(v, t)

Spec == Init /\ [][Next]_vars
=============================================================================
