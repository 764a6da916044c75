---------------------------- MODULE VisitServer ----------------------------
(***************************************************************************)
(* The visit endpoints of the API (visits.service.ts) and the two route    *)
(* endpoints that share their rows (routes.service.ts).                    *)
(*                                                                         *)
(* A handler is not atomic: it reads rows, awaits, and only then opens the *)
(* transaction that writes.  Every request therefore occupies a slot of    *)
(* req, whose pc names the next database round trip and whose other fields *)
(* are the handler's local variables: what it read, possibly long ago.     *)
(* Each action below is one round trip, and the rows are the columns the   *)
(* handlers decide on.                                                     *)
(***************************************************************************)
EXTENDS Naturals, FiniteSets

CONSTANTS
    CId,        \* ids minted by devices for deferred starts (clientVisitId)
    Vid,        \* ids the database gives to visit rows
    Item,       \* route items: stops of a planned route
    Token,      \* clientRequestId of a confirm, minted per press of save
    Req,        \* requests the API serves at the same time
    None,       \* SQL NULL, and "no such row"
    StartItem,  \* the stop a deferred start names, or None for an ad hoc visit
    TokenFor    \* the start whose report a token confirms

ASSUME NoneAssumption ==
    /\ None \notin CId /\ None \notin Vid /\ None \notin Item /\ None \notin Token
    /\ CId \cap Vid = {}

ASSUME ConstantFunctionsAssumption ==
    /\ StartItem \in [CId -> Item \cup {None}]
    /\ TokenFor \in [Token -> CId]

VARIABLES
    visitStatus,    \* Visit.status; "none" when the row does not exist
    routeItemId,    \* Visit.routeItemId, unique
    clientVisitId,  \* Visit.clientVisitId, unique
    alias,          \* VisitClientAlias: client id -> visit id
    reportToken,    \* Report.clientRequestId by visit; "none" without a report
    reportRev,      \* which write the report's confirmedAt and tasks come from
    itemStatus,     \* RouteItem.status; "removed" when the row is gone
    invalid,        \* starts whose location or representative no longer validates
    late,           \* tokens whose visitDate fell out of the accepted window
    req,            \* the handlers in progress
    answers         \* history: the visits each client id was answered with

rowVars == <<visitStatus, routeItemId, clientVisitId, alias, reportToken,
             reportRev, itemStatus>>
envVars == <<invalid, late>>
vars == <<rowVars, envVars, req, answers>>

VisitStatus == {"none", "open", "completed", "cancelled"}
ItemStatus == {"planned", "visited", "skipped", "removed"}
Key == CId \cup Vid

\* The report column of a visit that has no report, as distinct from a report
\* whose token is NULL.
NoReport == "none"

ASSUME NoReportAssumption == NoReport \notin Token

Idle == [pc |-> "idle", cid |-> None, vid |-> None, item |-> None,
         token |-> None, to |-> "none"]

HandlerPc == {"idle", "lookup", "slot", "adopt", "insert", "confirm",
              "cancel", "update", "remove", "sent", "queue", "rejected"}

\* A handler that has an answer to give back.
Answered(r) == req[r].pc \in {"sent", "queue", "rejected"}

TypeOK ==
    /\ visitStatus \in [Vid -> VisitStatus]
    /\ routeItemId \in [Vid -> Item \cup {None}]
    /\ clientVisitId \in [Vid -> CId \cup {None}]
    /\ alias \in [CId -> Vid \cup {None}]
    /\ reportToken \in [Vid -> Token \cup {None, NoReport}]
    /\ reportRev \in [Vid -> {0, 1}]
    /\ itemStatus \in [Item -> ItemStatus]
    /\ invalid \subseteq CId
    /\ late \subseteq Token
    /\ req \in [Req -> [pc : HandlerPc, cid : CId \cup {None},
                        vid : Vid \cup {None}, item : Item \cup {None},
                        token : Token \cup {None}, to : VisitStatus]]
    /\ answers \in [CId -> SUBSET Vid]

Init ==
    /\ visitStatus = [v \in Vid |-> "none"]
    /\ routeItemId = [v \in Vid |-> None]
    /\ clientVisitId = [v \in Vid |-> None]
    /\ alias = [c \in CId |-> None]
    /\ reportToken = [v \in Vid |-> NoReport]
    /\ reportRev = [v \in Vid |-> 0]
    /\ itemStatus = [i \in Item |-> "planned"]
    /\ invalid = {}
    /\ late = {}
    /\ req = [r \in Req |-> Idle]
    /\ answers = [c \in CId |-> {}]

-----------------------------------------------------------------------------
(* Rows as the handlers see them.                                          *)

Exists(v) == visitStatus[v] # "none"

ColumnVisits(c) == {v \in Vid : Exists(v) /\ clientVisitId[v] = c}

\* Mutant of Resolve: adopted ids are recorded but never looked up.
ResolveColumnOnly(c) ==
    IF ColumnVisits(c) # {} THEN CHOOSE v \in Vid : v \in ColumnVisits(c)
                            ELSE None

\* The visit a client id resolves to: the column a create wrote, then the
\* alias an adopt recorded.
Resolve(c) ==
    IF ColumnVisits(c) # {} THEN CHOOSE v \in Vid : v \in ColumnVisits(c)
                            ELSE alias[c]

\* The visit any id in a URL resolves to: the server id is tried first.
ResolveKey(k) ==
    IF k \in Vid THEN IF Exists(k) THEN k ELSE None ELSE Resolve(k)

\* Visit.routeItemId is unique, so this set has at most one member.
SlotVisits(i) == {v \in Vid : Exists(v) /\ routeItemId[v] = i}

StopExists(i) == itemStatus[i] # "removed"

\* Mutant of Answer: an error is taken for an answer to the start.
AnswerErrors(r, outcome, v) ==
    /\ req' = [req EXCEPT ![r].pc = outcome, ![r].vid = v]
    /\ answers' = IF req[r].cid # None
                  THEN [answers EXCEPT ![req[r].cid] = @ \cup {v}]
                  ELSE answers

\* The handler r answers the device; v is the visit in the answer.
Answer(r, outcome, v) ==
    /\ req' = [req EXCEPT ![r].pc = outcome, ![r].vid = v]
    /\ answers' = IF outcome = "sent" /\ req[r].cid # None
                  THEN [answers EXCEPT ![req[r].cid] = @ \cup {v}]
                  ELSE answers

\* The handler r goes on to its next round trip.
Continue(r, pc) ==
    /\ req' = [req EXCEPT ![r].pc = pc]
    /\ UNCHANGED answers
-----------------------------------------------------------------------------
(* POST /visits                                                            *)

\* What createVisit validates before it looks for a replay.
StartValid(c) ==
    /\ c \notin invalid
    /\ StartItem[c] # None => StopExists(StartItem[c])

CreateBegin(r, c) ==
    /\ req[r].pc = "idle"
    /\ req' = [req EXCEPT ![r] = [Idle EXCEPT
                   !.pc = IF StartValid(c) THEN "lookup" ELSE "rejected",
                   !.cid = c]]
    /\ UNCHANGED <<rowVars, envVars, answers>>

\* Mutant of CreateLookup: a start is never taken for a replay.
CreateLookupNoReplay(r) ==
    /\ req[r].pc = "lookup"
    /\ Continue(r, IF StartItem[req[r].cid] = None THEN "insert" ELSE "slot")
    /\ UNCHANGED <<rowVars, envVars>>

\* findVisitByClientVisitId: a replay is answered with the visit as it stands.
CreateLookup(r) ==
    LET c == req[r].cid IN
    /\ req[r].pc = "lookup"
    /\ IF Resolve(c) # None
       THEN Answer(r, "sent", Resolve(c))
       ELSE Continue(r, IF StartItem[c] = None THEN "insert" ELSE "slot")
    /\ UNCHANGED <<rowVars, envVars>>

\* resolveRouteItemLink: link a free slot, adopt an open visit that holds it,
\* and leave the new visit unlinked when the slot's visit is closed.
CreateSlot(r) ==
    LET i == StartItem[req[r].cid] IN
    /\ req[r].pc = "slot"
    /\ \/ /\ SlotVisits(i) = {}
          /\ req' = [req EXCEPT ![r].pc = "insert", ![r].item = i]
       \/ \E v \in SlotVisits(i) :
             req' = IF visitStatus[v] = "open"
                    THEN [req EXCEPT ![r].pc = "adopt", ![r].vid = v]
                    ELSE [req EXCEPT ![r].pc = "insert"]
    /\ UNCHANGED <<rowVars, envVars, answers>>

\* recordVisitClientAlias (skipDuplicates) and the adopted visit as the answer.
CreateAdopt(r) ==
    LET c == req[r].cid IN
    /\ req[r].pc = "adopt"
    /\ alias' = [alias EXCEPT ![c] = IF @ = None THEN req[r].vid ELSE @]
    /\ Answer(r, "sent", req[r].vid)
    /\ UNCHANGED <<visitStatus, routeItemId, clientVisitId, reportToken,
                   reportRev, itemStatus, envVars>>

\* visit.create can break a unique index or the foreign key of the stop.
InsertConflicts(r) ==
    \/ ColumnVisits(req[r].cid) # {}
    \/ /\ req[r].item # None
       /\ SlotVisits(req[r].item) # {} \/ ~StopExists(req[r].item)

CreateInsert(r) ==
    LET c == req[r].cid IN
    /\ req[r].pc = "insert"
    /\ ~InsertConflicts(r)
    /\ \E v \in Vid :
          /\ ~Exists(v)
          /\ visitStatus' = [visitStatus EXCEPT ![v] = "open"]
          /\ routeItemId' = [routeItemId EXCEPT ![v] = req[r].item]
          /\ clientVisitId' = [clientVisitId EXCEPT ![v] = c]
          /\ Answer(r, "sent", v)
    /\ UNCHANGED <<alias, reportToken, reportRev, itemStatus, envVars>>

\* On P2002 the loser is handed the winner's visit, looked up by the column
\* alone; when that finds nothing the error goes out and the device retries.
CreateInsertConflict(r) ==
    /\ req[r].pc = "insert"
    /\ InsertConflicts(r)
    /\ \/ \E v \in ColumnVisits(req[r].cid) : Answer(r, "sent", v)
       \/ ColumnVisits(req[r].cid) = {} /\ Answer(r, "queue", None)
    /\ UNCHANGED <<rowVars, envVars>>
-----------------------------------------------------------------------------
(* POST /visits/:id/report                                                 *)

ReportsWith(t) == {v \in Vid : reportToken[v] = t}

\* findTenantVisit, the cancelled check, the replay lookup and the visit-date
\* window.  The handler keeps the visit as it was read here.
ConfirmBegin(r, k, t) ==
    LET v == ResolveKey(k)
        outcome ==
            CASE v = None -> "queue"                  \* VISIT_NOT_FOUND
              [] v # None /\ visitStatus[v] = "cancelled" -> "rejected"
              [] v # None /\ visitStatus[v] # "cancelled" /\ ReportsWith(t) # {} ->
                    IF v \in ReportsWith(t) THEN "sent" ELSE "rejected"
              [] OTHER -> IF t \in late THEN "rejected" ELSE "confirm"
    IN /\ req[r].pc = "idle"
       /\ req' = [req EXCEPT ![r] = [Idle EXCEPT
                      !.pc = outcome, !.vid = v, !.token = t,
                      !.item = IF v = None THEN None ELSE routeItemId[v]]]
       /\ UNCHANGED <<rowVars, envVars, answers>>

\* confirmOnce.  The stop is the one read with the visit: if it is gone since,
\* routeItem.update fails and the whole transaction rolls back.
ConfirmTx(r) ==
    LET v == req[r].vid
        i == req[r].item
        t == req[r].token
    IN /\ req[r].pc = "confirm"
       /\ i # None => StopExists(i)
       /\ ReportsWith(t) \subseteq {v}
       /\ reportToken' = [reportToken EXCEPT ![v] = t]
       /\ reportRev' = [reportRev EXCEPT ![v] = 1 - @]
       /\ visitStatus' = [visitStatus EXCEPT ![v] = "completed"]
       /\ itemStatus' = IF i = None THEN itemStatus
                        ELSE [itemStatus EXCEPT ![i] = "visited"]
       /\ Answer(r, "sent", v)
       /\ UNCHANGED <<routeItemId, clientVisitId, alias, envVars>>

\* The transaction fails: the stop is gone (500), or another visit's report
\* holds the token (P2002, then REPORT_REQUEST_ID_REUSED).
ConfirmTxFails(r) ==
    LET i == req[r].item
        t == req[r].token
    IN /\ req[r].pc = "confirm"
       /\ \/ i # None /\ ~StopExists(i) /\ Answer(r, "queue", None)
          \/ /\ i # None => StopExists(i)
             /\ ~(ReportsWith(t) \subseteq {req[r].vid})
             /\ Answer(r, "rejected", None)
       /\ UNCHANGED <<rowVars, envVars>>
\* The upsert can also lose the insert to a confirm with the same token that
\* committed first: P2002, and the loser answers with the winner's report.
ConfirmRaced(r) ==
    /\ req[r].pc = "confirm"
    /\ ReportsWith(req[r].token) = {req[r].vid}
    /\ Answer(r, "sent", req[r].vid)
    /\ UNCHANGED <<rowVars, envVars>>
-----------------------------------------------------------------------------
(* POST /visits/:id/cancel and PATCH /visits/:id                           *)

\* Mutant of CancelBegin: a completed visit can be cancelled.
CancelBeginAny(r, v) ==
    /\ req[r].pc = "idle"
    /\ Exists(v)
    /\ req' = [req EXCEPT ![r] = [Idle EXCEPT !.pc = "cancel", !.vid = v]]
    /\ UNCHANGED <<rowVars, envVars, answers>>

CancelBegin(r, v) ==
    /\ req[r].pc = "idle"
    /\ visitStatus[v] = "open"
    /\ req' = [req EXCEPT ![r] = [Idle EXCEPT !.pc = "cancel", !.vid = v]]
    /\ UNCHANGED <<rowVars, envVars, answers>>

\* Mutant of CancelTx: the stop is left as it was.
CancelTxAlone(r) ==
    LET v == req[r].vid IN
    /\ req[r].pc = "cancel"
    /\ visitStatus' = [visitStatus EXCEPT ![v] = "cancelled"]
    /\ req' = [req EXCEPT ![r] = Idle]
    /\ UNCHANGED <<routeItemId, clientVisitId, alias, reportToken, reportRev,
                   itemStatus, envVars, answers>>

CancelTx(r) ==
    LET v == req[r].vid IN
    /\ req[r].pc = "cancel"
    /\ visitStatus' = [visitStatus EXCEPT ![v] = "cancelled"]
    /\ itemStatus' = IF routeItemId[v] = None THEN itemStatus
                     ELSE [itemStatus EXCEPT ![routeItemId[v]] = "skipped"]
    /\ req' = [req EXCEPT ![r] = Idle]
    /\ UNCHANGED <<routeItemId, clientVisitId, alias, reportToken, reportRev,
                   envVars, answers>>

UpdateBegin(r, v, status) ==
    /\ req[r].pc = "idle"
    /\ visitStatus[v] \in {"open", "completed"}
    /\ status \in {"open", "completed"}
    /\ req' = [req EXCEPT ![r] = [Idle EXCEPT !.pc = "update", !.vid = v,
                                              !.to = status]]
    /\ UNCHANGED <<rowVars, envVars, answers>>

UpdateTx(r) ==
    LET v == req[r].vid IN
    /\ req[r].pc = "update"
    /\ visitStatus' = [visitStatus EXCEPT ![v] = req[r].to]
    /\ itemStatus' = IF routeItemId[v] # None /\ req[r].to = "completed"
                     THEN [itemStatus EXCEPT ![routeItemId[v]] = "visited"]
                     ELSE itemStatus
    /\ req' = [req EXCEPT ![r] = Idle]
    /\ UNCHANGED <<routeItemId, clientVisitId, alias, reportToken, reportRev,
                   envVars, answers>>
-----------------------------------------------------------------------------
(* DELETE and PATCH /route-plans/:id/items/:itemId                         *)

RemoveBegin(r, i) ==
    /\ req[r].pc = "idle"
    /\ itemStatus[i] \in {"planned", "skipped"}
    /\ req' = [req EXCEPT ![r] = [Idle EXCEPT !.pc = "remove", !.item = i]]
    /\ UNCHANGED <<rowVars, envVars, answers>>

\* The visit's foreign key is ON DELETE SET NULL.
RemoveTx(r) ==
    LET i == req[r].item IN
    /\ req[r].pc = "remove"
    /\ itemStatus' = [itemStatus EXCEPT ![i] = "removed"]
    /\ routeItemId' = [v \in Vid |-> IF routeItemId[v] = i THEN None
                                                           ELSE routeItemId[v]]
    /\ req' = [req EXCEPT ![r] = Idle]
    /\ UNCHANGED <<visitStatus, clientVisitId, alias, reportToken, reportRev,
                   envVars, answers>>

\* updateRouteItem accepts any status from a route manager.  Its read and its
\* write are one step here: it decides on nothing but the row's existence.
EditItem(r, i, status) ==
    /\ req[r].pc = "idle"
    /\ StopExists(i)
    /\ status \in {"planned", "visited", "skipped"} \ {itemStatus[i]}
    /\ itemStatus' = [itemStatus EXCEPT ![i] = status]
    /\ UNCHANGED <<visitStatus, routeItemId, clientVisitId, alias, reportToken,
                   reportRev, envVars, req, answers>>
-----------------------------------------------------------------------------
(* What the handlers' surroundings do.                                     *)

\* The location is soft-deleted or the representative deactivated.
Invalidate(c) ==
    /\ c \notin invalid
    /\ invalid' = invalid \cup {c}
    /\ UNCHANGED <<rowVars, late, req, answers>>

\* Time passes beyond the visit date a report carries.
WindowCloses(t) ==
    /\ t \notin late
    /\ late' = late \cup {t}
    /\ UNCHANGED <<rowVars, invalid, req, answers>>

\* A database error or a timeout before the write commits: a 5xx.
HandlerFails(r) ==
    /\ req[r].pc \in {"lookup", "slot", "adopt", "insert", "confirm", "cancel",
                      "update", "remove"}
    /\ req' = [req EXCEPT ![r] = [Idle EXCEPT !.pc = "queue"]]
    /\ UNCHANGED <<rowVars, envVars, answers>>

\* The answer reaches its caller, or is lost on the way.
Release(r) ==
    /\ Answered(r)
    /\ req' = [req EXCEPT ![r] = Idle]
    /\ UNCHANGED <<rowVars, envVars, answers>>

HandlerStep(r) ==
    \/ CreateLookup(r) \/ CreateSlot(r) \/ CreateAdopt(r)
    \/ CreateInsert(r) \/ CreateInsertConflict(r)
    \/ ConfirmTx(r) \/ ConfirmTxFails(r) \/ ConfirmRaced(r)
    \/ CancelTx(r) \/ UpdateTx(r) \/ RemoveTx(r) \/ HandlerFails(r)

\* Requests nobody on the device's side waits for: route and visit management.
ManagerStep ==
    \E r \in Req :
          \/ \E v \in Vid : CancelBegin(r, v)
          \/ \E v \in Vid, s \in VisitStatus : UpdateBegin(r, v, s)
          \/ \E i \in Item : RemoveBegin(r, i)
          \/ \E i \in Item, s \in ItemStatus : EditItem(r, i, s)

Environment ==
    \/ \E c \in CId : Invalidate(c)
    \/ \E t \in Token : WindowCloses(t)

Next ==
    \/ \E r \in Req :
          \/ \E c \in CId : CreateBegin(r, c)
          \/ \E t \in Token : \E k \in {TokenFor[t]} \cup answers[TokenFor[t]] :
                ConfirmBegin(r, k, t)
          \/ HandlerStep(r)
          \/ Release(r)
    \/ ManagerStep
    \/ Environment

Spec == Init /\ [][Next]_vars

\* A handler between two of its round trips.
Running(r) == ~Answered(r) /\ req[r].pc # "idle"

\* Handlers do not overlap: while one waits, no row is written and no other
\* handler gets under way; time, answers and immediate refusals go on.
Serial ==
    \A r \in Req : Running(r) /\ req'[r] = req[r] =>
        /\ UNCHANGED rowVars
        /\ \A q \in Req \ {r} : ~Running(q)'

SerialNext == Next /\ Serial

SerialSpec == Init /\ [][SerialNext]_vars

\* Handlers that do not overlap keep the ledger's promises.
Ledger == INSTANCE VisitLedger WITH
              visitOf <- [c \in CId |-> Resolve(c)], status <- visitStatus,
              report <- reportToken, revision <- reportRev
LedgerSpec == Ledger!Spec
-----------------------------------------------------------------------------
(* Properties.                                                             *)

\* Once a start has been answered with a visit, its client id resolves to a
\* visit for ever after, whether the answer was a fresh row or an adopted one
\* (visits.service.ts:427-445): the alias is written before the answer leaves.
AnsweredStartResolves ==
    \A c \in CId : answers[c] # {} => Resolve(c) # None

\* All the answers given to one client id name one visit, and it is the visit
\* that id resolves to: the retry of a start never ends up on a second visit.
OneVisitPerStart ==
    \A c \in CId : answers[c] \subseteq {Resolve(c)}

\* "a client id maps to one visit for good" (schema.prisma:1000). Two attempts
\* of one start, of which one adopts the slot's visit and the other finds it
\* cancelled and inserts, give the id two.
ClientIdForGood ==
    [][\A c \in CId : Resolve(c) # None => Resolve(c)' = Resolve(c)]_vars

\* "Cancelled is terminal" (visits.service.ts:620): no step reopens or completes
\* a cancelled visit. A confirm or an update that read the visit before does.
CancelledIsTerminal ==
    [][\A v \in Vid : visitStatus[v] = "cancelled"
                         => visitStatus'[v] = "cancelled"]_vars

\* A report is rewritten only by a confirm that carries another token: a replay
\* returns it "exactly as the first attempt left it" (visits.service.ts:1008).
ReplayLeavesReport ==
    [][\A v \in Vid :
          reportToken[v] # NoReport /\ reportRev'[v] # reportRev[v]
             => reportToken'[v] # reportToken[v]]_vars

\* "A visited stop can't be removed from the route" (routes.service.ts:418): one
\* whose visit is completed after deleteRouteItem read its status is removed.
VisitedStopStays ==
    [][\A i \in Item : itemStatus[i] = "visited"
                          => itemStatus'[i] # "removed"]_vars

\* A visit and the stop it holds close together: the step that completes a
\* visit marks its stop visited, the step that cancels it marks it skipped,
\* and no failing handler leaves one without the other.
StopFollowsVisit ==
    [][\A v \in Vid :
          visitStatus'[v] # visitStatus[v] /\ routeItemId'[v] # None
          => /\ visitStatus'[v] = "completed" => itemStatus'[routeItemId'[v]] = "visited"
             /\ visitStatus'[v] = "cancelled" => itemStatus'[routeItemId'[v]] = "skipped"]_vars
=============================================================================
