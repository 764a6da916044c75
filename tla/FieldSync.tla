----------------------------- MODULE FieldSync -----------------------------
(***************************************************************************)
(* One field representative's device and the visit endpoints it talks to.  *)
(*                                                                         *)
(* The device keeps two queues in IndexedDB: the visits started without    *)
(* signal (visit-start-outbox.ts) and the confirmed reports not yet on the *)
(* server (report-outbox.ts, one entry per visit id).  Queue entries are   *)
(* durable; the code that sends them is not.  A flow is one such piece of  *)
(* running code: the handler of a button or one entry of a background      *)
(* flush.  Several run at once (other tabs, the "online" event, the 15s    *)
(* poll of pending-visit-report.tsx), each on the copy of the entry it     *)
(* read, and any of them can stop anywhere: the send fails, or the phone   *)
(* kills the tab; storage may not answer, and some of them go on anyway.   *)
(*                                                                         *)
(* The server is VisitServer; a flow's request is one of its handlers.     *)
(***************************************************************************)
EXTENDS VisitServer

CONSTANTS
    Flow,       \* pieces of device code running at the same time
    Mine        \* the starts this device makes; the rest are another device's

ASSUME MineAssumption == Mine \subseteq CId
ASSUME RequestAssumption == None \notin Req

VARIABLES
    queued,         \* starts the device has an outbox entry for
    refused,        \* ... of which rejectedAt is set
    remoteVisitId,  \* ... the server's answer, recorded before any rekey
    resolvedVisitId,\* ... the server's answer, once every rekey has landed
    outbox,         \* the queued confirm of each visit id, by its token
    outboxRefused,  \* ... of which rejectedAt is set
    flow,           \* the device code in progress
    tapped,         \* history: starts the rep made
    pressed,        \* history: confirms the rep signed off
    latest,         \* history: the last confirm signed off for each start
    accepted,       \* history: confirms a report was written from
    told            \* history: confirms refused to the rep, or discarded by them

startVars == <<queued, refused, remoteVisitId, resolvedVisitId>>
outboxVars == <<outbox, outboxRefused>>
historyVars == <<tapped, pressed, latest, told>>
serverVars == <<vars, accepted>>
deviceVars == <<startVars, outboxVars, flow, historyVars>>
syncVars == <<serverVars, deviceVars>>

NoFlow == [pc |-> "idle", cid |-> None, key |-> None, token |-> None,
           vid |-> None, slot |-> None, eager |-> FALSE]

FlowPc == {"idle", "create", "creating", "record", "rekey", "resolve",
           "refuseConfirm", "refuseStart", "forgetStart",
           "confirm", "confirming", "forgetConfirm", "refuseEntry",
           "dropStart", "dropConfirm"}

FieldTypeOK ==
    /\ TypeOK
    /\ queued \subseteq CId
    /\ refused \subseteq queued
    /\ remoteVisitId \in [CId -> Vid \cup {None}]
    /\ resolvedVisitId \in [CId -> Vid \cup {None}]
    /\ outbox \in [Key -> Token \cup {None}]
    /\ outboxRefused \subseteq {k \in Key : outbox[k] # None}
    /\ flow \in [Flow -> [pc : FlowPc, cid : CId \cup {None},
                          key : Key \cup {None}, token : Token \cup {None},
                          vid : Vid \cup {None}, slot : Req \cup {None},
                          eager : BOOLEAN]]
    /\ tapped \subseteq CId
    /\ pressed \subseteq Token
    /\ latest \in [CId -> Token \cup {None}]
    /\ accepted \subseteq Token
    /\ told \subseteq Token

FieldInit ==
    /\ Init
    /\ queued = {}
    /\ refused = {}
    /\ remoteVisitId = [c \in CId |-> None]
    /\ resolvedVisitId = [c \in CId |-> None]
    /\ outbox = [k \in Key |-> None]
    /\ outboxRefused = {}
    /\ flow = [f \in Flow |-> NoFlow]
    /\ tapped = {}
    /\ pressed = {}
    /\ latest = [c \in CId |-> None]
    /\ accepted = {}
    /\ told = {}

-----------------------------------------------------------------------------
(* The requests a flow makes.                                              *)

Goto(f, pc) == flow' = [flow EXCEPT ![f].pc = pc]
Finish(f) == flow' = [flow EXCEPT ![f] = NoFlow]

\* What the flow's request was answered: "sent", "queue" or "rejected", the
\* classes of classifyReportSendResult.
Outcome(f) == req[flow[f].slot].pc

Heard(f) == /\ flow[f].slot # None
            /\ Answered(flow[f].slot)
            /\ Release(flow[f].slot)

\* A request whose caller stopped waiting ends without anyone hearing it.
ReleaseUnheard(r) ==
    /\ Release(r)
    /\ \A f \in Flow : flow[f].slot # r
    /\ UNCHANGED <<accepted, deviceVars>>

\* A round trip of some handler; a confirm that commits is accepted.
ServerStep(r) ==
    /\ HandlerStep(r)
    /\ accepted' = accepted \cup {t \in Token : \E v \in Vid : reportToken'[v] = t}
    /\ UNCHANGED deviceVars

\* What others do to the same rows: managers, and the rep's other device.
OthersStep ==
    /\ \/ ManagerStep
       \/ Environment
       \/ \E r \in Req, c \in CId \ Mine : CreateBegin(r, c)
    /\ UNCHANGED <<accepted, deviceVars>>

\* The send throws, times out or is answered 401; the tab is killed; storage
\* gives up on the last write of a flow or on a rekey.  Only the in-memory copies
\* go, and a request already made runs on.
Stop(f) ==
    /\ flow[f].pc # "idle"
    /\ Finish(f)
    /\ UNCHANGED <<serverVars, startVars, outboxVars, historyVars>>

\* Storage does not answer in time and runOnFieldDatabase resolves with its
\* fallback: these writers do not look at it and go on without their write.
StorageFails(f) ==
    /\ \/ flow[f].pc = "record" /\ Goto(f, "rekey")
       \/ flow[f].pc = "refuseConfirm" /\ Goto(f, "refuseStart")
       \/ flow[f].pc = "dropStart" /\ Goto(f, "dropConfirm")
    /\ UNCHANGED <<serverVars, startVars, outboxVars, historyVars>>
-----------------------------------------------------------------------------
(* Starting a visit: start-visit-control.tsx, visit-start-outbox-flush.ts  *)

SameStop(c, d) == c = d \/ (StartItem[c] # None /\ StartItem[c] = StartItem[d])

\* findPendingVisitStartForLocation finds nothing waiting for this stop, so the
\* button offers a start.  It is sent even if the device would not keep it.
TapStart(f, c) ==
    /\ flow[f].pc = "idle"
    /\ c \in Mine \ tapped
    /\ \A d \in queued : SameStop(c, d) => d \in refused \/ resolvedVisitId[d] # None
    /\ queued' \in {queued, queued \cup {c}}
    /\ tapped' = tapped \cup {c}
    /\ flow' = [flow EXCEPT ![f] = [NoFlow EXCEPT !.pc = "create", !.cid = c,
                                                  !.eager = TRUE]]
    /\ UNCHANGED <<serverVars, refused, remoteVisitId, resolvedVisitId,
                   outboxVars, pressed, latest, told>>

\* Mutant of PickStart: an answered start counts as done.
PickStartUnanswered(f, c, includeRejected) ==
    /\ flow[f].pc = "idle"
    /\ c \in queued
    /\ resolvedVisitId[c] = None /\ remoteVisitId[c] = None
    /\ c \in refused => includeRejected
    /\ flow' = [flow EXCEPT ![f] = [NoFlow EXCEPT
                    !.pc = "create",
                    !.cid = c]]
    /\ UNCHANGED <<serverVars, startVars, outboxVars, historyVars>>

\* decideVisitStartFlushAction on the entry as the flush listed it.
PickStart(f, c, includeRejected) ==
    /\ flow[f].pc = "idle"
    /\ c \in queued
    /\ resolvedVisitId[c] = None
    /\ c \in refused => includeRejected
    /\ flow' = [flow EXCEPT ![f] = [NoFlow EXCEPT
                    !.pc = IF remoteVisitId[c] # None THEN "rekey" ELSE "create",
                    !.cid = c, !.vid = remoteVisitId[c]]]
    /\ UNCHANGED <<serverVars, startVars, outboxVars, historyVars>>

SendCreate(f) ==
    /\ flow[f].pc = "create"
    /\ \E r \in Req :
          /\ CreateBegin(r, flow[f].cid)
          /\ flow' = [flow EXCEPT ![f].pc = "creating", ![f].slot = r]
    /\ UNCHANGED <<accepted, startVars, outboxVars, historyVars>>

\* The tap goes straight to the resolved mapping or forgets a refused start;
\* the flush records the answer first, and carries a refusal to the confirm.
HearCreate(f) ==
    /\ flow[f].pc = "creating"
    /\ Heard(f)
    /\ flow' = [flow EXCEPT ![f] =
           CASE Outcome(f) = "queue" -> NoFlow
             [] Outcome(f) = "sent" ->
                  [@ EXCEPT !.pc = IF flow[f].eager THEN "resolve" ELSE "record",
                            !.vid = req[flow[f].slot].vid, !.slot = None]
             [] Outcome(f) = "rejected" ->
                  [@ EXCEPT !.pc = IF flow[f].eager THEN "forgetStart"
                                                    ELSE "refuseConfirm",
                            !.slot = None]]
    /\ UNCHANGED <<accepted, startVars, outboxVars, historyVars>>

\* recordVisitStartOutboxRemoteVisitId patches an entry that still exists.
RecordRemote(f) ==
    LET c == flow[f].cid IN
    /\ flow[f].pc = "record"
    /\ remoteVisitId' = IF c \in queued
                        THEN [remoteVisitId EXCEPT ![c] = flow[f].vid]
                        ELSE remoteVisitId
    /\ Goto(f, "rekey")
    /\ UNCHANGED <<serverVars, queued, refused, resolvedVisitId, outboxVars,
                   historyVars>>

\* Mutant of Rekey: the put under the new id is lost.
RekeyDeletes(f) ==
    LET c == flow[f].cid
        v == flow[f].vid
    IN /\ flow[f].pc = "rekey"
       /\ IF outbox[c] # None
          THEN /\ outbox' = [outbox EXCEPT ![c] = None]
               /\ outboxRefused' = outboxRefused \ {c}
          ELSE UNCHANGED outboxVars
       /\ Goto(f, "resolve")
       /\ UNCHANGED <<serverVars, startVars, historyVars>>

\* rekeyReportOutboxEntry: the queued confirm moves to the server's id, over
\* whatever is queued there, and loses its rejection.
Rekey(f) ==
    LET c == flow[f].cid
        v == flow[f].vid
    IN /\ flow[f].pc = "rekey"
       /\ IF outbox[c] # None
          THEN /\ outbox' = [outbox EXCEPT ![v] = outbox[c], ![c] = None]
               /\ outboxRefused' = outboxRefused \ {c, v}
          ELSE UNCHANGED outboxVars
       /\ Goto(f, "resolve")
       /\ UNCHANGED <<serverVars, startVars, historyVars>>

\* markVisitStartOutboxResolved.
MarkResolved(f) ==
    LET c == flow[f].cid
        v == flow[f].vid
    IN /\ flow[f].pc = "resolve"
       /\ IF c \in queued
          THEN /\ resolvedVisitId' = [resolvedVisitId EXCEPT ![c] = v]
               /\ remoteVisitId' = [remoteVisitId EXCEPT ![c] =
                                       IF @ = None THEN v ELSE @]
               /\ refused' = refused \ {c}
          ELSE UNCHANGED <<resolvedVisitId, remoteVisitId, refused>>
       /\ Finish(f)
       /\ UNCHANGED <<serverVars, queued, outboxVars, historyVars>>

\* A refused start: its confirm is marked first, then the start itself.
RefuseConfirm(f) ==
    LET c == flow[f].cid IN
    /\ flow[f].pc = "refuseConfirm"
    /\ outboxRefused' = IF outbox[c] # None THEN outboxRefused \cup {c}
                                            ELSE outboxRefused
    /\ Goto(f, "refuseStart")
    /\ UNCHANGED <<serverVars, startVars, outbox, historyVars>>

RefuseStart(f) ==
    /\ flow[f].pc = "refuseStart"
    /\ refused' = refused \cup ({flow[f].cid} \cap queued)
    /\ Finish(f)
    /\ UNCHANGED <<serverVars, queued, remoteVisitId, resolvedVisitId,
                   outboxVars, historyVars>>

\* Mutant of DeleteStart: the refusal outlives its entry.
DeleteStartKeepsRefusal(c) ==
    /\ queued' = queued \ {c}
    /\ UNCHANGED refused
    /\ remoteVisitId' = [remoteVisitId EXCEPT ![c] = None]
    /\ resolvedVisitId' = [resolvedVisitId EXCEPT ![c] = None]

\* deleteVisitStartOutboxEntry, as an effect on the entry's fields.
DeleteStart(c) ==
    /\ queued' = queued \ {c}
    /\ refused' = refused \ {c}
    /\ remoteVisitId' = [remoteVisitId EXCEPT ![c] = None]
    /\ resolvedVisitId' = [resolvedVisitId EXCEPT ![c] = None]

ForgetStart(f) ==
    /\ flow[f].pc = "forgetStart"
    /\ DeleteStart(flow[f].cid)
    /\ Finish(f)
    /\ UNCHANGED <<serverVars, outboxVars, historyVars>>
-----------------------------------------------------------------------------
(* Confirming a report: field-visit-report-form.tsx, report-outbox-flush.ts *)

\* The ids the report form of a start can be mounted on: the device's own while
\* it has the entry, the server's once the start was answered.
FormKeys(c) == (IF c \in queued THEN {c} ELSE {}) \cup answers[c]

\* The rep saves: the confirm is queued, over the one it replaces, then sent.
\* The button is disabled while an earlier press is being sent.
PressSave(f, t) ==
    LET c == TokenFor[t] IN
    /\ flow[f].pc = "idle"
    /\ t \notin pressed
    /\ pressed' = pressed \cup {t}
    /\ \A g \in Flow : flow[g].eager /\ flow[g].token # None
                       => TokenFor[flow[g].token] # c
    /\ \E k \in FormKeys(c) :
          /\ outbox' = [outbox EXCEPT ![k] = t]
          /\ outboxRefused' = outboxRefused \ {k}
          /\ flow' = [flow EXCEPT ![f] = [NoFlow EXCEPT !.pc = "confirm",
                          !.key = k, !.token = t, !.eager = TRUE]]
    /\ latest' = [latest EXCEPT ![c] = t]
    /\ UNCHANGED <<serverVars, startVars, tapped, told>>

PickConfirm(f, k, includeRejected) ==
    /\ flow[f].pc = "idle"
    /\ outbox[k] # None
    /\ k \in outboxRefused => includeRejected
    /\ flow' = [flow EXCEPT ![f] = [NoFlow EXCEPT !.pc = "confirm", !.key = k,
                                                  !.token = outbox[k]]]
    /\ UNCHANGED <<serverVars, startVars, outboxVars, historyVars>>

SendConfirm(f) ==
    /\ flow[f].pc = "confirm"
    /\ \E r \in Req :
          /\ ConfirmBegin(r, flow[f].key, flow[f].token)
          /\ flow' = [flow EXCEPT ![f].pc = "confirming", ![f].slot = r]
    /\ UNCHANGED <<accepted, startVars, outboxVars, historyVars>>

\* A refusal of the press is shown to the rep, who is still on the screen.
HearConfirm(f) ==
    /\ flow[f].pc = "confirming"
    /\ Heard(f)
    /\ flow' = [flow EXCEPT ![f] =
           IF Outcome(f) = "queue" THEN NoFlow
           ELSE [@ EXCEPT !.slot = None,
                          !.pc = IF Outcome(f) = "sent" \/ flow[f].eager
                                 THEN "forgetConfirm" ELSE "refuseEntry"]]
    /\ told' = IF Outcome(f) = "rejected" /\ flow[f].eager
               THEN told \cup {flow[f].token} ELSE told
    /\ UNCHANGED <<accepted, startVars, outboxVars, tapped, pressed, latest>>

\* deleteReportOutboxEntry: by storage key, whatever is stored there by now.
ForgetConfirm(f) ==
    /\ flow[f].pc = "forgetConfirm"
    /\ outbox' = [outbox EXCEPT ![flow[f].key] = None]
    /\ outboxRefused' = outboxRefused \ {flow[f].key}
    /\ Finish(f)
    /\ UNCHANGED <<serverVars, startVars, historyVars>>

\* Mutant of RefuseEntry: the refusal is not recorded.
RefuseEntryForgotten(f) ==
    /\ flow[f].pc = "refuseEntry"
    /\ Finish(f)
    /\ UNCHANGED <<serverVars, startVars, outboxVars, historyVars>>

\* recordReportOutboxFailure(rejected): patches an entry that still exists.
RefuseEntry(f) ==
    LET k == flow[f].key IN
    /\ flow[f].pc = "refuseEntry"
    /\ outboxRefused' = IF outbox[k] # None THEN outboxRefused \cup {k}
                                            ELSE outboxRefused
    /\ Finish(f)
    /\ UNCHANGED <<serverVars, startVars, outbox, historyVars>>
-----------------------------------------------------------------------------
(* Abandoning a start the server never heard of: abandon-visit-start.ts    *)

\* decideAbandonVisitStart on the entry re-read at the tap.
Abandon(f, c) ==
    /\ flow[f].pc = "idle"
    /\ c \in queued
    /\ resolvedVisitId[c] = None /\ remoteVisitId[c] = None
    /\ flow' = [flow EXCEPT ![f] = [NoFlow EXCEPT !.pc = "dropStart", !.cid = c]]
    /\ UNCHANGED <<serverVars, startVars, outboxVars, historyVars>>

DropStart(f) ==
    /\ flow[f].pc = "dropStart"
    /\ DeleteStart(flow[f].cid)
    /\ Goto(f, "dropConfirm")
    /\ UNCHANGED <<serverVars, outboxVars, historyVars>>

DropConfirm(f) ==
    LET c == flow[f].cid IN
    /\ flow[f].pc = "dropConfirm"
    /\ told' = told \cup ({outbox[c]} \cap Token)
    /\ outbox' = [outbox EXCEPT ![c] = None]
    /\ outboxRefused' = outboxRefused \ {c}
    /\ Finish(f)
    /\ UNCHANGED <<serverVars, startVars, tapped, pressed, latest>>
-----------------------------------------------------------------------------

\* What a flow does once it is running.
FlowStep(f) ==
    \/ SendCreate(f) \/ HearCreate(f) \/ RecordRemote(f) \/ Rekey(f)
    \/ MarkResolved(f) \/ RefuseConfirm(f) \/ RefuseStart(f) \/ ForgetStart(f)
    \/ SendConfirm(f) \/ HearConfirm(f) \/ ForgetConfirm(f) \/ RefuseEntry(f)
    \/ DropStart(f) \/ DropConfirm(f)

RepStep(f) ==
    \/ \E c \in CId : TapStart(f, c) \/ Abandon(f, c) \/ PickStart(f, c, TRUE)
    \/ \E t \in Token : PressSave(f, t)
    \/ \E k \in Key : PickConfirm(f, k, TRUE)

FlushStep(f) ==
    \/ \E c \in CId : PickStart(f, c, FALSE)
    \/ \E k \in Key : PickConfirm(f, k, FALSE)

FieldNext ==
    \/ \E f \in Flow : RepStep(f) \/ FlushStep(f) \/ FlowStep(f)
                      \/ Stop(f) \/ StorageFails(f)
    \/ \E r \in Req : ServerStep(r) \/ ReleaseUnheard(r)
    \/ OthersStep

FieldSpec == FieldInit /\ [][FieldNext]_syncVars

\* The device with a server whose handlers do not overlap.
SerialFieldSpec == FieldInit /\ [][FieldNext /\ Serial]_syncVars

\* The flush runs again whenever the app opens, comes back or finds a network
\* and every 15 seconds on the pending visit's screen, so an entry it can send
\* is tried again and again; started work goes on unless it is interrupted,
\* the API does not turn a device away for ever, and from some moment on
\* signal, storage and database last long enough for what is started.
FieldFairness ==
    /\ \A f \in Flow :
          /\ \A c \in Mine : SF_syncVars(PickStart(f, c, FALSE))
          /\ \A k \in Key : SF_syncVars(PickConfirm(f, k, FALSE))
          /\ WF_syncVars(FlowStep(f))
          /\ SF_syncVars(SendCreate(f) \/ SendConfirm(f))
    /\ \A r \in Req :
          /\ WF_syncVars(ServerStep(r))
          /\ WF_syncVars(ReleaseUnheard(r))
    /\ <>[][\A f \in Flow : Stop(f) => FlowStep(f)]_syncVars
    /\ <>[][\A r \in Req : ~HandlerFails(r)]_syncVars

FairFieldSpec == FieldSpec /\ FieldFairness
-----------------------------------------------------------------------------
(* Properties.                                                             *)

\* The last report the rep signed off for a visit is never lost: it waits in
\* the outbox, or the server wrote it, or the rep was told it was refused or
\* threw it away ("work the rep has already finished and signed off, which ...
\* must never be swept", report-outbox.ts:12; "that second press is their
\* latest intent", report-outbox.ts:27).
LatestConfirmKept ==
    \A c \in CId :
        latest[c] \in {None} \cup accepted \cup told \cup {outbox[k] : k \in Key}

\* What the device recorded as the server's answer is the visit the server
\* resolves its id to, so a rekey moves work to the visit it belongs to
\* (visit-start-outbox.ts:255-261).
RemoteIsResolved ==
    \A c \in CId : remoteVisitId[c] \in {None, Resolve(c)}

\* A report is only ever written on the visit of the start it was made for.
ReportOnItsVisit ==
    \A v \in Vid, t \in Token :
        reportToken[v] = t => Resolve(TokenFor[t]) = v

\* A queued confirm waits under an id of its own visit.
QueuedUnderItsVisit ==
    \A k \in Key : outbox[k] # None =>
        LET c == TokenFor[outbox[k]] IN k = c \/ k = Resolve(c)

\* "A rejected entry counts as abandonable ...: the server refused the create,
\* so there is still no visit anywhere" (abandon-visit-start.ts:63-64).
RefusedStartHasNoVisit ==
    \A c \in refused : Resolve(c) = None

\* Every start the device keeps settles: it resolves to a visit or the server
\* refuses it for good (or the rep throws it away).
StartSettles ==
    \A c \in Mine :
        c \in queued ~> c \notin queued \/ c \in refused \/ resolvedVisitId[c] # None

\* A confirm whose visit the server has leaves the pending count: it is
\* written, or marked as refused.
ConfirmSettles ==
    \A k \in Key :
        outbox[k] # None /\ ResolveKey(k) # None
           ~> outbox[k] = None \/ k \in outboxRefused

\* A start's refusal is carried to its confirm so that no confirm stays "a
\* pending count that can never reach zero" (visit-start-outbox-flush.ts:218).
RefusalReachesConfirm ==
    \A c \in Mine :
        c \in refused /\ outbox[c] # None
           ~> c \notin refused \/ outbox[c] = None \/ c \in outboxRefused
=============================================================================
