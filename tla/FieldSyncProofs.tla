-------------------------- MODULE FieldSyncProofs --------------------------
(***************************************************************************)
(* Proofs about FieldSync, for any number of starts, visits, stops,        *)
(* confirms, flows and overlapping requests: the device only ever asks the *)
(* server for what VisitServer serves, and a signed-off confirm is kept.   *)
(***************************************************************************)
EXTENDS FieldSync, VisitServerProofs

\* The ids the work of a start may be filed under.
KeysOf(c) == {c} \cup answers[c]

\* The types of the device's own state.
OutboxesOK ==
    /\ queued \subseteq CId /\ refused \subseteq queued
    /\ remoteVisitId \in [CId -> Vid \cup {None}]
    /\ resolvedVisitId \in [CId -> Vid \cup {None}]
    /\ outbox \in [Key -> Token \cup {None}]
    /\ outboxRefused \subseteq {k \in Key : outbox[k] # None}

FlowType == [pc : FlowPc, cid : CId \cup {None}, key : Key \cup {None},
             token : Token \cup {None}, vid : Vid \cup {None},
             slot : Req \cup {None}, eager : BOOLEAN]

HistoryOK ==
    /\ tapped \subseteq CId /\ pressed \subseteq Token
    /\ latest \in [CId -> Token \cup {None}]
    /\ accepted \subseteq Token /\ told \subseteq Token

StartPc == {"create", "creating", "record", "rekey", "resolve", "refuseConfirm",
            "refuseStart", "forgetStart", "dropStart", "dropConfirm"}
ConfirmPc == {"confirm", "confirming", "forgetConfirm", "refuseEntry"}

\* What a flow still knows of the entry it read and of the answer it heard.
FlowKnows(f) ==
    /\ flow[f].pc \in StartPc => flow[f].cid \in CId
    /\ flow[f].pc \in {"record", "rekey", "resolve"}
          => flow[f].vid \in answers[flow[f].cid]
    /\ flow[f].pc \in ConfirmPc =>
          /\ flow[f].token \in Token
          /\ flow[f].key \in KeysOf(TokenFor[flow[f].token])
    /\ flow[f].pc \in {"creating", "confirming"} <=> flow[f].slot # None

\* The request a flow waits for is its own until it has heard the answer.
Creating(r, c) ==
    /\ req[r].pc \in {"lookup", "slot", "adopt", "insert", "sent", "queue", "rejected"}
    /\ req[r].pc # "queue" => req[r].cid = c
    /\ req[r].pc = "sent" => req[r].vid \in answers[c]

Confirming(r, t) ==
    /\ req[r].pc \in {"confirm", "sent", "queue", "rejected"}
    /\ req[r].pc # "queue" => req[r].token = t /\ req[r].cid = None

FlowWaits(f) ==
    /\ flow[f].pc = "creating" => Creating(flow[f].slot, flow[f].cid)
    /\ flow[f].pc = "confirming" => Confirming(flow[f].slot, flow[f].token)

FlowsOK ==
    /\ flow \in [Flow -> FlowType]
    /\ \A f \in Flow : FlowKnows(f) /\ FlowWaits(f)
    /\ \A f, g \in Flow :
          flow[f].slot = flow[g].slot /\ flow[f].slot # None => f = g

\* Queued confirms and recorded answers are filed under ids of their start.
Addressed ==
    /\ \A k \in Key : outbox[k] # None => k \in KeysOf(TokenFor[outbox[k]])
    /\ \A c \in CId : remoteVisitId[c] \in {None} \cup answers[c]

\* The inductive invariant: what a flow sends is addressed as the server
\* expects it, and the answer it hears is the answer to what it sent.
DeviceOK == OutboxesOK /\ HistoryOK /\ FlowsOK /\ Addressed

FieldInv == Inv /\ DeviceOK
-----------------------------------------------------------------------------
(* The confirm that is kept.                                               *)

\* No two confirms of reports for one stop: the case without a second press.
Separate == \A t, u \in Token : SameStop(TokenFor[t], TokenFor[u]) => t = u

\* What a row, a handler and an answer say of the stop a start was made for.
RowOfStop(v) == Exists(v) =>
    /\ clientVisitId[v] \in CId
    /\ routeItemId[v] \in {None, StartItem[clientVisitId[v]]}

HandlerOfStop(r) ==
    /\ req[r].pc = "slot" => StartItem[req[r].cid] # None
    /\ req[r].pc \in {"lookup", "slot", "insert"}
          => req[r].item \in {None, StartItem[req[r].cid]}
    /\ req[r].pc = "adopt" => SameStop(req[r].cid, clientVisitId[req[r].vid])

AnswersOfStop(c) ==
    \A v \in Vid : v = alias[c] \/ v \in answers[c]
                   => Exists(v) /\ SameStop(c, clientVisitId[v])

\* Starts that were ever given the same visit are starts of one stop.
OneStopPerVisit ==
    /\ \A v \in Vid : RowOfStop(v)
    /\ \A r \in Req : HandlerOfStop(r)
    /\ \A c \in CId : AnswersOfStop(c)

\* A confirm the server answered "sent" was written by it, and a flow forgets a
\* confirm that was written or refused to the rep.
WrittenIsAccepted == \A v \in Vid : reportToken[v] \in Token => reportToken[v] \in accepted

HeardIsAccepted(f) ==
    /\ flow[f].pc = "confirming" /\ Outcome(f) = "sent" => flow[f].token \in accepted
    /\ flow[f].pc = "forgetConfirm" => flow[f].token \in accepted \cup told

SentIsAccepted == WrittenIsAccepted /\ \A f \in Flow : HeardIsAccepted(f)

KeptInv == FieldInv /\ OneStopPerVisit /\ SentIsAccepted /\ LatestConfirmKept
-----------------------------------------------------------------------------
(* What the server does with a flow's request.                             *)

\* An answer, once given, stays given.
LEMMA AnswersGrow ==
    ASSUME TypeOK, [Next]_vars, NEW c \in CId
    PROVE  answers[c] \subseteq answers'[c]
  <1>1. ASSUME NEW r \in Req, NEW outcome, NEW v, Answer(r, outcome, v)
        PROVE  answers[c] \subseteq answers'[c]
    BY <1>1 DEF Answer, TypeOK
  <1>2. CASE UNCHANGED answers
    BY <1>2
  <1>3. QED
    BY <1>1, <1>2
    DEF Next, HandlerStep, ManagerStep, Environment, vars, rowVars, CreateBegin,
        ConfirmBegin, CreateLookup, CreateSlot, CreateAdopt, CreateInsert,
        CreateInsertConflict, ConfirmTx, ConfirmTxFails, ConfirmRaced,
        CancelTx, UpdateTx, RemoveTx, HandlerFails, Release, CancelBegin,
        UpdateBegin, RemoveBegin, EditItem, Invalidate, WindowCloses, Continue

\* A handler's round trip moves on its own request only.
LEMMA HandlerMoves ==
    ASSUME TypeOK, NEW r \in Req, HandlerStep(r)
    PROVE  /\ [Next]_vars
           /\ \A q \in Req \ {r} : req'[q] = req[q]
           /\ req[r].pc \notin {"idle", "sent", "queue", "rejected"}
  <1>1. [Next]_vars
    BY DEF Next
  <1>2. req'[r] # req[r] => \A q \in Req \ {r} : req'[q] = req[q]
    BY <1>1, Mover
  <1>3. \E s : req' = [req EXCEPT ![r] = s]
    BY Zenon
    DEF HandlerStep, CreateLookup, CreateSlot, CreateAdopt, CreateInsert,
        CreateInsertConflict, ConfirmTx, ConfirmTxFails, ConfirmRaced,
        CancelTx, UpdateTx, RemoveTx, HandlerFails, Answer, Continue
  <1>4. \A q \in Req \ {r} : req'[q] = req[q]
    BY <1>3 DEF TypeOK
  <1>5. req[r].pc \notin {"idle", "sent", "queue", "rejected"}
    BY DEF HandlerStep, CreateLookup, CreateSlot, CreateAdopt, CreateInsert,
           CreateInsertConflict, ConfirmTx, ConfirmTxFails, ConfirmRaced,
           CancelTx, UpdateTx, RemoveTx, HandlerFails
  <1>6. QED
    BY <1>1, <1>4, <1>5

\* A handler that answers answers its own start.
LEMMA AnswerOwn ==
    ASSUME TypeOK, NEW r \in Req, NEW c \in CId, req[r].cid = c,
           NEW outcome \in {"sent", "queue", "rejected"}, NEW v,
           Answer(r, outcome, v)
    PROVE  Creating(r, c)'
  <1>1. req'[r].pc = outcome /\ req'[r].cid = c /\ req'[r].vid = v
    BY DEF Answer, TypeOK
  <1>2. outcome = "sent" => v \in answers'[c]
    BY NoneAssumption DEF Answer, TypeOK
  <1>3. QED
    BY <1>1, <1>2 DEF Creating

\* The request of a start stays that start's until it is answered.
LEMMA CreatingMoves ==
    ASSUME Inv, NEW r \in Req, NEW c \in CId, Creating(r, c), HandlerStep(r)
    PROVE  Creating(r, c)'
  <1>0. TypeOK /\ HandlersKnow
    BY DEF Inv
  <1>1. CASE CreateLookup(r)
    <2>1. req[r].cid = c
      BY <1>1 DEF CreateLookup, Creating
    <2>2. CASE Resolve(c) # None
      BY <1>0, <1>1, <2>1, <2>2, AnswerOwn DEF CreateLookup
    <2>3. CASE Resolve(c) = None
      <3>1. req'[r].pc \in {"insert", "slot"} /\ req'[r].cid = c
        BY <1>0, <1>1, <2>1, <2>3 DEF CreateLookup, Continue, TypeOK
      <3>2. QED
        BY <3>1 DEF Creating
    <2>4. QED
      BY <2>2, <2>3
  <1>2. CASE CreateSlot(r)
    <2>1. req'[r].pc \in {"insert", "adopt"} /\ req'[r].cid = req[r].cid
      BY <1>0, <1>2 DEF CreateSlot, TypeOK
    <2>2. req[r].cid = c
      BY <1>2 DEF CreateSlot, Creating
    <2>3. QED
      BY <2>1, <2>2 DEF Creating
  <1>3. CASE CreateAdopt(r) \/ CreateInsert(r) \/ CreateInsertConflict(r)
    <2>1. req[r].cid = c
      BY <1>3 DEF CreateAdopt, CreateInsert, CreateInsertConflict, Creating
    <2>2. PICK outcome, v :
             outcome \in {"sent", "queue", "rejected"} /\ Answer(r, outcome, v)
      BY <1>3 DEF CreateAdopt, CreateInsert, CreateInsertConflict
    <2>3. QED
      BY <1>0, <2>1, <2>2, AnswerOwn
  <1>4. CASE HandlerFails(r)
    <2>1. req'[r].pc = "queue"
      BY <1>0, <1>4 DEF HandlerFails, TypeOK, Idle
    <2>2. QED
      BY <2>1 DEF Creating
  <1>5. QED
    BY <1>1, <1>2, <1>3, <1>4
    DEF HandlerStep, Creating, ConfirmTx, ConfirmTxFails, ConfirmRaced, CancelTx,
        UpdateTx, RemoveTx

\* ... and the request of a confirm that confirm's.
LEMMA ConfirmingMoves ==
    ASSUME Inv, NEW r \in Req, NEW t \in Token, Confirming(r, t), HandlerStep(r)
    PROVE  Confirming(r, t)'
  <1>0. TypeOK
    BY DEF Inv
  <1>1. CASE ConfirmTx(r) \/ ConfirmTxFails(r) \/ ConfirmRaced(r)
    <2>1. req[r].token = t /\ req[r].cid = None
      BY <1>1 DEF ConfirmTx, ConfirmTxFails, ConfirmRaced, Confirming
    <2>2. PICK outcome, v :
             outcome \in {"sent", "queue", "rejected"} /\ Answer(r, outcome, v)
      BY <1>1 DEF ConfirmTx, ConfirmTxFails, ConfirmRaced
    <2>3. req'[r].pc = outcome /\ req'[r].token = t /\ req'[r].cid = None
      BY <1>0, <2>1, <2>2 DEF Answer, TypeOK
    <2>4. QED
      BY <2>2, <2>3 DEF Confirming
  <1>2. CASE HandlerFails(r)
    <2>1. req'[r].pc = "queue"
      BY <1>0, <1>2 DEF HandlerFails, TypeOK, Idle
    <2>2. QED
      BY <2>1 DEF Confirming
  <1>3. QED
    BY <1>1, <1>2
    DEF HandlerStep, Confirming, CreateLookup, CreateSlot, CreateAdopt,
        CreateInsert, CreateInsertConflict, CancelTx, UpdateTx, RemoveTx
-----------------------------------------------------------------------------
(* The flows.                                                              *)

\* The keys a start's work may be filed under are ids.
LEMMA KeysAreIds ==
    ASSUME TypeOK, NEW c \in CId
    PROVE  KeysOf(c) \subseteq Key /\ answers[c] \subseteq Vid /\ c \in KeysOf(c)
  BY DEF KeysOf, Key, TypeOK

\* A flow that does nothing knows what it knew, since answers only grow, as long
\* as its request stayed or was moved by its handler.
LEMMA FlowRests ==
    ASSUME Inv, \A c \in CId : answers[c] \subseteq answers'[c],
           NEW f \in Flow, flow[f] \in FlowType, flow'[f] = flow[f],
           FlowKnows(f), FlowWaits(f),
           flow[f].slot # None =>
               req'[flow[f].slot] = req[flow[f].slot] \/ HandlerStep(flow[f].slot)
    PROVE  FlowKnows(f)' /\ FlowWaits(f)'
  <1>0. TypeOK
    BY DEF Inv
  <1>1. flow[f].token \in Token => TokenFor[flow[f].token] \in CId
    BY ConstantFunctionsAssumption
  <1>2. FlowKnows(f)'
    <2>1. flow[f].pc \in {"record", "rekey", "resolve"}
             => flow[f].vid \in answers'[flow[f].cid]
      BY DEF FlowKnows, StartPc
    <2>2. flow[f].pc \in ConfirmPc =>
             /\ flow[f].token \in Token
             /\ flow[f].key \in {TokenFor[flow[f].token]}
                                   \cup answers'[TokenFor[flow[f].token]]
      BY <1>1 DEF FlowKnows, KeysOf
    <2>3. QED
      BY <2>1, <2>2 DEF FlowKnows, KeysOf
  <1>3. FlowWaits(f)'
    <2> SUFFICES ASSUME flow[f].pc \in {"creating", "confirming"}
                 PROVE  FlowWaits(f)'
      BY DEF FlowWaits
    <2>1. PICK r \in Req : flow[f].slot = r
      BY DEF FlowKnows, FlowType
    <2>2. CASE flow[f].pc = "creating"
      <3>1. PICK c \in CId : flow[f].cid = c
        BY <2>2 DEF FlowKnows, StartPc
      <3>2. Creating(r, c)
        BY <2>1, <2>2, <3>1 DEF FlowWaits
      <3>3. req'[r] = req[r] => Creating(r, c)'
        BY <3>2 DEF Creating
      <3>4. HandlerStep(r) => Creating(r, c)'
        BY <3>2, CreatingMoves
      <3>5. Creating(r, c)'
        BY <2>1, <3>3, <3>4, RequestAssumption
      <3>6. QED
        BY <2>1, <2>2, <3>1, <3>5 DEF FlowWaits, Creating
    <2>3. CASE flow[f].pc = "confirming"
      <3>1. PICK t \in Token : flow[f].token = t
        BY <2>3 DEF FlowKnows, ConfirmPc
      <3>2. Confirming(r, t)
        BY <2>1, <2>3, <3>1 DEF FlowWaits
      <3>3. req'[r] = req[r] => Confirming(r, t)'
        BY <3>2 DEF Confirming
      <3>4. HandlerStep(r) => Confirming(r, t)'
        BY <3>2, ConfirmingMoves
      <3>5. Confirming(r, t)'
        BY <2>1, <3>3, <3>4, RequestAssumption
      <3>6. QED
        BY <2>1, <2>3, <3>1, <3>5 DEF FlowWaits, Confirming
    <2>4. QED
      BY <2>2, <2>3
  <1>4. QED
    BY <1>2, <1>3

\* One flow moves: the flows are sound if it is, and the others' requests stay.
LEMMA FlowMoves ==
    ASSUME Inv, FlowsOK, [Next]_vars, NEW f \in Flow, NEW s \in FlowType,
           flow' = [flow EXCEPT ![f] = s], FlowKnows(f)', FlowWaits(f)',
           \A g \in Flow \ {f} : flow[g].slot # None =>
               /\ flow[g].slot # s.slot
               /\ req'[flow[g].slot] = req[flow[g].slot]
    PROVE  FlowsOK'
  <1>1. flow' \in [Flow -> FlowType] /\ flow'[f] = s
    BY DEF FlowsOK
  <1>2. \A c \in CId : answers[c] \subseteq answers'[c]
    BY AnswersGrow DEF Inv
  <1>3. ASSUME NEW g \in Flow \ {f}
        PROVE  flow'[g] = flow[g] /\ FlowKnows(g)' /\ FlowWaits(g)'
    <2>1. flow'[g] = flow[g] /\ flow[g] \in FlowType
      BY DEF FlowsOK
    <2>2. QED
      BY <1>2, <2>1, FlowRests DEF FlowsOK
  <1>4. ASSUME NEW g \in Flow, NEW h \in Flow,
               flow'[g].slot = flow'[h].slot, flow'[g].slot # None
        PROVE  g = h
    <2>1. CASE g # f /\ h # f
      BY <1>3, <1>4, <2>1 DEF FlowsOK
    <2>2. CASE g # f /\ h = f
      BY <1>1, <1>3, <1>4, <2>2
    <2>3. CASE g = f /\ h # f
      BY <1>1, <1>3, <1>4, <2>3
    <2>4. QED
      BY <2>1, <2>2, <2>3
  <1>5. QED
    BY <1>1, <1>3, <1>4 DEF FlowsOK

\* ... and it is when it asks nothing of the server and knows its entry.
LEMMA FlowSet ==
    ASSUME Inv, FlowsOK, UNCHANGED vars, NEW f \in Flow, NEW s \in FlowType,
           flow' = [flow EXCEPT ![f] = s],
           s.slot = None, s.pc \notin {"creating", "confirming"},
           s.pc \in StartPc => s.cid \in CId,
           s.pc \in {"record", "rekey", "resolve"} => s.vid \in answers[s.cid],
           s.pc \in ConfirmPc => s.token \in Token /\ s.key \in KeysOf(TokenFor[s.token])
    PROVE  FlowsOK'
  <1>1. flow'[f] = s
    BY DEF FlowsOK
  <1>2. answers' = answers /\ req' = req
    BY DEF vars
  <1>3. FlowKnows(f)' /\ FlowWaits(f)'
    BY <1>1, <1>2 DEF FlowKnows, FlowWaits, KeysOf
  <1>4. QED
    BY <1>1, <1>2, <1>3, FlowMoves

\* A flow that stops leaves the others as they are.
LEMMA NoFlowType == NoFlow \in FlowType /\ NoFlow.pc = "idle" /\ NoFlow.slot = None
  BY DEF NoFlow, FlowType, FlowPc

LEMMA FinishKeeps ==
    ASSUME Inv, FlowsOK, UNCHANGED vars, NEW f \in Flow, Finish(f)
    PROVE  FlowsOK'
  <1>1. NoFlow.pc \notin StartPc \cup ConfirmPc
    BY NoFlowType DEF StartPc, ConfirmPc
  <1>2. NoFlow.pc \notin {"creating", "confirming", "record", "rekey", "resolve"}
    BY NoFlowType
  <1>3. QED
    BY <1>1, <1>2, NoFlowType, FlowSet DEF Finish

\* A flow goes on with the entry it has.
LEMMA GotoKeeps ==
    ASSUME Inv, FlowsOK, UNCHANGED vars, NEW f \in Flow, NEW pc \in FlowPc,
           Goto(f, pc), flow[f].slot = None, pc \notin {"creating", "confirming"},
           pc \in StartPc => flow[f].cid \in CId,
           pc \in {"record", "rekey", "resolve"} => flow[f].vid \in answers[flow[f].cid],
           pc \notin ConfirmPc
    PROVE  FlowsOK'
  <1> DEFINE s == [flow[f] EXCEPT !.pc = pc]
  <1>1. flow[f] \in FlowType
    BY DEF FlowsOK
  <1>2. /\ s \in FlowType /\ s.pc = pc /\ s.slot = None
        /\ s.cid = flow[f].cid /\ s.vid = flow[f].vid
    BY <1>1 DEF FlowType
  <1>3. flow' = [flow EXCEPT ![f] = s]
    BY DEF Goto
  <1> HIDE DEF s
  <1>4. QED
    BY <1>2, <1>3, FlowSet
-----------------------------------------------------------------------------
(* The device only asks for what the server serves.                        *)

\* Every step of the device, its server and the others is a step of VisitServer.
LEMMA FieldServes ==
    ASSUME FieldInv, [FieldNext]_syncVars
    PROVE  [Next]_vars
  <1> USE DEF serverVars
  <1>0. TypeOK /\ FlowsOK
    BY DEF FieldInv, Inv, DeviceOK
  <1>1. ASSUME NEW f \in Flow, SendCreate(f)
        PROVE  Next
    <2>1. flow[f].cid \in CId
      BY <1>0, <1>1 DEF SendCreate, FlowsOK, FlowKnows, StartPc
    <2>2. QED
      BY <1>1, <2>1 DEF SendCreate, Next
  <1>2. ASSUME NEW f \in Flow, SendConfirm(f)
        PROVE  Next
    <2>1. /\ flow[f].token \in Token
          /\ flow[f].key \in {TokenFor[flow[f].token]} \cup answers[TokenFor[flow[f].token]]
      BY <1>0, <1>2 DEF SendConfirm, FlowsOK, FlowKnows, ConfirmPc, KeysOf
    <2>2. PICK r \in Req : ConfirmBegin(r, flow[f].key, flow[f].token)
      BY <1>2 DEF SendConfirm
    <2>3. QED
      BY <2>1, <2>2 DEF Next
  <1>3. ASSUME NEW f \in Flow, HearCreate(f) \/ HearConfirm(f)
        PROVE  Next
    <2>1. flow[f].slot \in Req /\ Release(flow[f].slot)
      BY <1>0, <1>3 DEF HearCreate, HearConfirm, Heard, FlowsOK, FlowType
    <2>2. QED
      BY <2>1 DEF Next
  <1>4. ASSUME NEW f \in Flow,
               \/ RepStep(f) \/ FlushStep(f) \/ Stop(f) \/ StorageFails(f)
               \/ RecordRemote(f) \/ Rekey(f) \/ MarkResolved(f)
               \/ RefuseConfirm(f) \/ RefuseStart(f) \/ ForgetStart(f)
               \/ ForgetConfirm(f) \/ RefuseEntry(f) \/ DropStart(f) \/ DropConfirm(f)
        PROVE  UNCHANGED vars
    BY <1>4 DEF RepStep, FlushStep, Stop, StorageFails, RecordRemote, Rekey,
                MarkResolved, RefuseConfirm, RefuseStart, ForgetStart,
                ForgetConfirm, RefuseEntry, DropStart, DropConfirm, TapStart,
                Abandon, PickStart, PressSave, PickConfirm
  <1>5. ASSUME NEW r \in Req, ServerStep(r) \/ ReleaseUnheard(r)
        PROVE  Next
    BY <1>5 DEF ServerStep, ReleaseUnheard, Next
  <1>6. CASE OthersStep
    BY <1>6 DEF OthersStep, Next
  <1>7. CASE UNCHANGED syncVars
    BY <1>7 DEF syncVars
  <1>8. QED
    BY <1>1, <1>2, <1>3, <1>4, <1>5, <1>6, <1>7 DEF FieldNext, FlowStep

\* The outboxes keep what they hold, and more ids of their starts are known.
LEMMA OutboxesRest ==
    ASSUME FieldInv, [Next]_vars, UNCHANGED <<startVars, outboxVars>>
    PROVE  OutboxesOK' /\ Addressed'
  <1>1. \A c \in CId : answers[c] \subseteq answers'[c]
    BY AnswersGrow DEF FieldInv, Inv
  <1>2. OutboxesOK'
    BY DEF FieldInv, DeviceOK, OutboxesOK, startVars, outboxVars
  <1>3. \A t \in Token : TokenFor[t] \in CId
    BY ConstantFunctionsAssumption
  <1>4. Addressed'
    BY <1>1, <1>3 DEF FieldInv, DeviceOK, OutboxesOK, Addressed, KeysOf, startVars,
                      outboxVars
  <1>5. QED
    BY <1>2, <1>4

\* What a flow that is not waiting may assume.
LEMMA FlowFacts ==
    ASSUME FieldInv, NEW f \in Flow
    PROVE  /\ flow[f] \in FlowType
           /\ FlowKnows(f) /\ FlowWaits(f)
           /\ flow[f].pc \notin {"creating", "confirming"} => flow[f].slot = None
  BY DEF FieldInv, DeviceOK, FlowsOK, FlowKnows

\* Taps and flushes: a flow takes up an entry.
LEMMA StartsKeep ==
    ASSUME FieldInv, NEW f \in Flow, NEW c \in CId,
           \/ TapStart(f, c) \/ Abandon(f, c)
           \/ \E b \in BOOLEAN : PickStart(f, c, b)
    PROVE  DeviceOK'
  <1> USE DEF serverVars, startVars, outboxVars, historyVars
  <1>0. Inv /\ TypeOK /\ OutboxesOK /\ HistoryOK /\ FlowsOK /\ Addressed
    BY DEF FieldInv, Inv, DeviceOK
  <1>1. NoFlow \in FlowType /\ NoFlow.slot = None
    BY NoFlowType
  <1>2. UNCHANGED vars /\ UNCHANGED outboxVars
    BY DEF TapStart, Abandon, PickStart
  <1>3. CASE TapStart(f, c)
    <2> DEFINE s == [NoFlow EXCEPT !.pc = "create", !.cid = c, !.eager = TRUE]
    <2>1. /\ s \in FlowType /\ s.pc = "create" /\ s.cid = c /\ s.slot = None
          /\ flow' = [flow EXCEPT ![f] = s]
      BY <1>1, <1>3 DEF TapStart, FlowType, FlowPc
    <2> HIDE DEF s
    <2>2. FlowsOK'
      BY <1>0, <1>2, <2>1, FlowSet DEF ConfirmPc
    <2>3. OutboxesOK' /\ HistoryOK'
      BY <1>0, <1>3 DEF TapStart, OutboxesOK, HistoryOK
    <2>4. Addressed'
      BY <1>0, <1>2, <1>3 DEF TapStart, Addressed, KeysOf, vars
    <2>5. QED
      BY <2>2, <2>3, <2>4 DEF DeviceOK
  <1>4. CASE Abandon(f, c)
    <2> DEFINE s == [NoFlow EXCEPT !.pc = "dropStart", !.cid = c]
    <2>1. /\ s \in FlowType /\ s.pc = "dropStart" /\ s.cid = c /\ s.slot = None
          /\ flow' = [flow EXCEPT ![f] = s]
      BY <1>1, <1>4 DEF Abandon, FlowType, FlowPc
    <2> HIDE DEF s
    <2>2. FlowsOK'
      BY <1>0, <1>2, <2>1, FlowSet DEF ConfirmPc
    <2>3. OutboxesOK' /\ HistoryOK' /\ Addressed'
      BY <1>0, <1>2, <1>4 DEF Abandon, OutboxesOK, HistoryOK, Addressed, KeysOf, vars
    <2>4. QED
      BY <2>2, <2>3 DEF DeviceOK
  <1>5. ASSUME NEW b \in BOOLEAN, PickStart(f, c, b)
        PROVE  DeviceOK'
    <2>1. PICK pc \in {"rekey", "create"} :
             /\ flow' = [flow EXCEPT ![f] = [NoFlow EXCEPT
                            !.pc = pc, !.cid = c, !.vid = remoteVisitId[c]]]
             /\ pc = "rekey" => remoteVisitId[c] # None
      BY <1>5 DEF PickStart
    <2> DEFINE s == [NoFlow EXCEPT !.pc = pc, !.cid = c, !.vid = remoteVisitId[c]]
    <2>2. /\ s \in FlowType /\ s.pc = pc /\ s.cid = c /\ s.slot = None
          /\ s.vid = remoteVisitId[c] /\ flow' = [flow EXCEPT ![f] = s]
      BY <1>0, <1>1, <2>1 DEF FlowType, FlowPc, OutboxesOK
    <2>3. pc = "rekey" => remoteVisitId[c] \in answers[c]
      BY <1>0, <2>1 DEF Addressed
    <2> HIDE DEF s
    <2>4. FlowsOK'
      BY <1>0, <1>2, <2>1, <2>2, <2>3, FlowSet DEF ConfirmPc
    <2>5. OutboxesOK' /\ HistoryOK' /\ Addressed'
      BY <1>0, <1>2, <1>5 DEF PickStart, OutboxesOK, HistoryOK, Addressed, KeysOf, vars
    <2>6. QED
      BY <2>4, <2>5 DEF DeviceOK
  <1>6. QED
    BY <1>3, <1>4, <1>5

\* A press of save files the confirm under an id of its visit; a flush takes it
\* up under the id it found it at.
LEMMA ConfirmsKeep ==
    ASSUME FieldInv, NEW f \in Flow,
           \/ \E t \in Token : PressSave(f, t)
           \/ \E k \in Key, b \in BOOLEAN : PickConfirm(f, k, b)
    PROVE  DeviceOK'
  <1> USE DEF serverVars, startVars, outboxVars, historyVars
  <1>0. Inv /\ TypeOK /\ OutboxesOK /\ HistoryOK /\ FlowsOK /\ Addressed
    BY DEF FieldInv, Inv, DeviceOK
  <1>1. NoFlow \in FlowType /\ NoFlow.slot = None
    BY NoFlowType
  <1>2. UNCHANGED vars
    BY DEF PressSave, PickConfirm
  <1>3. ASSUME NEW t \in Token, PressSave(f, t)
        PROVE  DeviceOK'
    <2> DEFINE c == TokenFor[t]
    <2>1. c \in CId
      BY ConstantFunctionsAssumption
    <2>2. PICK k \in FormKeys(c) :
             /\ outbox' = [outbox EXCEPT ![k] = t]
             /\ outboxRefused' = outboxRefused \ {k}
             /\ flow' = [flow EXCEPT ![f] = [NoFlow EXCEPT !.pc = "confirm",
                            !.key = k, !.token = t, !.eager = TRUE]]
      BY <1>3 DEF PressSave
    <2>3. k \in KeysOf(c) /\ k \in Key
      BY <1>0, <2>1, <2>2, KeysAreIds DEF FormKeys, KeysOf
    <2> DEFINE s == [NoFlow EXCEPT !.pc = "confirm", !.key = k, !.token = t,
                                   !.eager = TRUE]
    <2>4. /\ s \in FlowType /\ s.pc = "confirm" /\ s.key = k /\ s.token = t
          /\ s.slot = None /\ flow' = [flow EXCEPT ![f] = s]
      BY <1>1, <2>2, <2>3 DEF FlowType, FlowPc
    <2> HIDE DEF s
    <2>5. FlowsOK'
      BY <1>0, <1>2, <2>3, <2>4, FlowSet DEF StartPc
    <2>6. OutboxesOK'
      BY <1>0, <1>3, <2>2, <2>3, NoneAssumption DEF PressSave, OutboxesOK
    <2>7. HistoryOK'
      BY <1>0, <1>3, <2>1 DEF PressSave, HistoryOK
    <2>8. Addressed'
      BY <1>0, <1>2, <1>3, <2>2, <2>3
      DEF PressSave, OutboxesOK, Addressed, KeysOf, vars
    <2>9. QED
      BY <2>5, <2>6, <2>7, <2>8 DEF DeviceOK
  <1>4. ASSUME NEW k \in Key, NEW b \in BOOLEAN, PickConfirm(f, k, b)
        PROVE  DeviceOK'
    <2> DEFINE s == [NoFlow EXCEPT !.pc = "confirm", !.key = k, !.token = outbox[k]]
    <2>1. outbox[k] \in Token /\ k \in KeysOf(TokenFor[outbox[k]])
      BY <1>0, <1>4 DEF PickConfirm, OutboxesOK, Addressed
    <2>2. /\ s \in FlowType /\ s.pc = "confirm" /\ s.key = k /\ s.token = outbox[k]
          /\ s.slot = None /\ flow' = [flow EXCEPT ![f] = s]
      BY <1>1, <1>4, <2>1 DEF PickConfirm, FlowType, FlowPc
    <2> HIDE DEF s
    <2>3. FlowsOK'
      BY <1>0, <1>2, <2>1, <2>2, FlowSet DEF StartPc
    <2>4. OutboxesOK' /\ HistoryOK' /\ Addressed'
      BY <1>0, <1>2, <1>4
      DEF PickConfirm, OutboxesOK, HistoryOK, Addressed, KeysOf, vars
    <2>5. QED
      BY <2>3, <2>4 DEF DeviceOK
  <1>5. QED
    BY <1>3, <1>4

\* What follows an answered start: it is recorded, the confirm moves to the
\* visit's id, and the start resolves.
LEMMA SettlingKeeps ==
    ASSUME FieldInv, NEW f \in Flow,
           RecordRemote(f) \/ Rekey(f) \/ MarkResolved(f)
    PROVE  DeviceOK'
  <1> USE DEF serverVars, startVars, outboxVars, historyVars
  <1>0. Inv /\ TypeOK /\ OutboxesOK /\ HistoryOK /\ FlowsOK /\ Addressed
    BY DEF FieldInv, Inv, DeviceOK
  <1>1. UNCHANGED vars /\ HistoryOK'
    BY <1>0 DEF RecordRemote, Rekey, MarkResolved, HistoryOK
  <1> DEFINE c == flow[f].cid
             v == flow[f].vid
  <1>2. flow[f].pc \in {"record", "rekey", "resolve"}
    BY DEF RecordRemote, Rekey, MarkResolved
  <1>3. c \in CId /\ v \in answers[c] /\ v \in Vid /\ v # None /\ flow[f].slot = None
    BY <1>0, <1>2, FlowFacts, KeysAreIds, NoneAssumption DEF FlowKnows, StartPc
  <1>4. c \in Key /\ v \in Key /\ c # v
    BY <1>3, NoneAssumption DEF Key
  <1>5. {"rekey", "resolve"} \subseteq FlowPc \ ConfirmPc
    BY DEF FlowPc, ConfirmPc
  <1>6. CASE RecordRemote(f)
    <2>1. Goto(f, "rekey")
      BY <1>6 DEF RecordRemote
    <2>2. FlowsOK'
      BY <1>0, <1>1, <1>3, <1>5, <2>1, GotoKeeps
    <2>3. OutboxesOK' /\ Addressed'
      BY <1>0, <1>1, <1>3, <1>6
      DEF RecordRemote, OutboxesOK, Addressed, KeysOf, vars
    <2>4. QED
      BY <1>1, <2>2, <2>3 DEF DeviceOK
  <1>7. CASE Rekey(f)
    <2>1. Goto(f, "resolve")
      BY <1>7 DEF Rekey
    <2>2. FlowsOK'
      BY <1>0, <1>1, <1>3, <1>5, <2>1, GotoKeeps
    <2>3. OutboxesOK'
      BY <1>0, <1>3, <1>4, <1>7 DEF Rekey, OutboxesOK
    <2>4. outbox[c] # None => c = TokenFor[outbox[c]]
      <3>1. outbox[c] # None => /\ outbox[c] \in Token
                                /\ c \in KeysOf(TokenFor[outbox[c]])
        BY <1>0, <1>4 DEF OutboxesOK, Addressed
      <3>2. \A d \in CId : c \notin answers[d]
        BY <1>0, <1>3, NoneAssumption DEF TypeOK
      <3>3. QED
        BY <3>1, <3>2, ConstantFunctionsAssumption DEF KeysOf
    <2>5. Addressed'
      <3>1. answers' = answers /\ remoteVisitId' = remoteVisitId
        BY <1>1, <1>7 DEF Rekey, vars
      <3>2. CASE outbox[c] = None
        BY <1>0, <1>7, <3>1, <3>2 DEF Rekey, Addressed, KeysOf
      <3>3. CASE outbox[c] # None
        <4>1. outbox' = [outbox EXCEPT ![v] = outbox[c], ![c] = None]
          BY <1>7, <3>3 DEF Rekey
        <4>2. v \in KeysOf(TokenFor[outbox[c]])
          BY <1>3, <2>4, <3>3 DEF KeysOf
        <4>3. QED
          BY <1>0, <1>4, <3>1, <4>1, <4>2 DEF Addressed, OutboxesOK, KeysOf
      <3>4. QED
        BY <3>2, <3>3
    <2>6. QED
      BY <1>1, <2>2, <2>3, <2>5 DEF DeviceOK
  <1>8. CASE MarkResolved(f)
    <2>1. FlowsOK'
      BY <1>0, <1>1, <1>8, FinishKeeps DEF MarkResolved
    <2>2. OutboxesOK' /\ Addressed'
      BY <1>0, <1>1, <1>3, <1>8
      DEF MarkResolved, OutboxesOK, Addressed, KeysOf, vars
    <2>3. QED
      BY <1>1, <2>1, <2>2 DEF DeviceOK
  <1>9. QED
    BY <1>6, <1>7, <1>8


\* A refused, forgotten or dropped start leaves nothing filed under a wrong id.
LEMMA StartsEnd ==
    ASSUME FieldInv, NEW f \in Flow,
           RefuseConfirm(f) \/ RefuseStart(f) \/ ForgetStart(f)
           \/ DropStart(f) \/ DropConfirm(f)
    PROVE  DeviceOK'
  <1> USE DEF serverVars, startVars, outboxVars, historyVars
  <1>0. Inv /\ OutboxesOK /\ HistoryOK /\ FlowsOK /\ Addressed
    BY DEF FieldInv, DeviceOK
  <1>1. UNCHANGED vars
    BY DEF RefuseConfirm, RefuseStart, ForgetStart, DropStart, DropConfirm
  <1> DEFINE c == flow[f].cid
  <1>2. /\ flow[f].pc \in {"refuseConfirm", "refuseStart", "forgetStart",
                           "dropStart", "dropConfirm"}
    BY DEF RefuseConfirm, RefuseStart, ForgetStart, DropStart, DropConfirm
  <1>3. c \in CId /\ flow[f].slot = None
    BY <1>2, FlowFacts DEF FlowKnows, StartPc
  <1>4. c \in Key
    BY <1>3 DEF Key
  <1>5. FlowsOK'
    <2>1. {"refuseStart", "dropConfirm"}
             \subseteq FlowPc \ (ConfirmPc \cup {"record", "rekey", "resolve"})
      BY DEF FlowPc, ConfirmPc
    <2>2. CASE \E pc \in {"refuseStart", "dropConfirm"} : Goto(f, pc)
      BY <1>0, <1>1, <1>3, <2>1, <2>2, GotoKeeps
    <2>3. CASE Finish(f)
      BY <1>0, <1>1, <2>3, FinishKeeps
    <2>4. QED
      BY <2>2, <2>3 DEF RefuseConfirm, RefuseStart, ForgetStart, DropStart, DropConfirm
  <1>6. HistoryOK'
    BY <1>0 DEF RefuseConfirm, RefuseStart, ForgetStart, DropStart, DropConfirm,
                HistoryOK
  <1>7. OutboxesOK' /\ Addressed'
    <2>1. answers' = answers
      BY <1>1 DEF vars
    <2>2. CASE RefuseConfirm(f)
      BY <1>0, <1>4, <2>1, <2>2 DEF RefuseConfirm, OutboxesOK, Addressed, KeysOf
    <2>3. CASE RefuseStart(f)
      BY <1>0, <2>1, <2>3 DEF RefuseStart, OutboxesOK, Addressed, KeysOf
    <2>4. CASE ForgetStart(f) \/ DropStart(f)
      BY <1>0, <1>3, <2>1, <2>4
      DEF ForgetStart, DropStart, DeleteStart, OutboxesOK, Addressed, KeysOf
    <2>5. CASE DropConfirm(f)
      BY <1>0, <1>4, <2>1, <2>5 DEF DropConfirm, OutboxesOK, Addressed, KeysOf
    <2>6. QED
      BY <2>2, <2>3, <2>4, <2>5
  <1>8. QED
    BY <1>5, <1>6, <1>7 DEF DeviceOK

\* ... nor does a confirm that was answered.
LEMMA ConfirmsEnd ==
    ASSUME FieldInv, NEW f \in Flow, ForgetConfirm(f) \/ RefuseEntry(f)
    PROVE  DeviceOK'
  <1> USE DEF serverVars, startVars, outboxVars, historyVars
  <1>0. Inv /\ TypeOK /\ OutboxesOK /\ HistoryOK /\ FlowsOK /\ Addressed
    BY DEF FieldInv, Inv, DeviceOK
  <1>1. UNCHANGED vars /\ Finish(f)
    BY DEF ForgetConfirm, RefuseEntry
  <1>2. flow[f].key \in Key
    <2>1. /\ flow[f].token \in Token
          /\ flow[f].key \in KeysOf(TokenFor[flow[f].token])
      BY FlowFacts DEF ForgetConfirm, RefuseEntry, FlowKnows, ConfirmPc
    <2>2. QED
      BY <1>0, <2>1, KeysAreIds, ConstantFunctionsAssumption
  <1>3. FlowsOK'
    BY <1>0, <1>1, FinishKeeps
  <1>4. HistoryOK'
    BY <1>0 DEF ForgetConfirm, RefuseEntry, HistoryOK
  <1>5. answers' = answers
    BY <1>1 DEF vars
  <1>6. OutboxesOK'
    BY <1>0, <1>2 DEF ForgetConfirm, RefuseEntry, OutboxesOK
  <1>7. Addressed'
    BY <1>0, <1>2, <1>5 DEF ForgetConfirm, RefuseEntry, OutboxesOK, Addressed, KeysOf
  <1>8. QED
    BY <1>3, <1>4, <1>6, <1>7 DEF DeviceOK

\* A flow that stops takes only its copies along, and one that misses a write
\* goes on with them.
LEMMA InterruptionsKeep ==
    ASSUME FieldInv, NEW f \in Flow, Stop(f) \/ StorageFails(f)
    PROVE  DeviceOK'
  <1> USE DEF serverVars
  <1>0. Inv /\ FlowsOK
    BY DEF FieldInv, DeviceOK
  <1>1. UNCHANGED vars /\ UNCHANGED <<startVars, outboxVars, historyVars>>
    BY DEF Stop, StorageFails
  <1>2. OutboxesOK' /\ Addressed' /\ HistoryOK'
    <2>1. HistoryOK'
      BY <1>1 DEF FieldInv, DeviceOK, HistoryOK, historyVars, Stop, StorageFails
    <2>2. QED
      BY <1>1, <2>1, OutboxesRest
  <1>3. CASE Stop(f)
    BY <1>0, <1>1, <1>2, <1>3, FinishKeeps DEF Stop, DeviceOK
  <1>4. CASE StorageFails(f)
    <2>1. PICK pc \in {"rekey", "refuseStart", "dropConfirm"} :
             /\ Goto(f, pc)
             /\ flow[f].pc \in {"record", "refuseConfirm", "dropStart"}
             /\ pc = "rekey" => flow[f].pc = "record"
      BY <1>4 DEF StorageFails
    <2>2. pc \in FlowPc \ ConfirmPc
      BY DEF FlowPc, ConfirmPc
    <2>3. /\ flow[f].slot = None /\ flow[f].cid \in CId
          /\ pc = "rekey" => flow[f].vid \in answers[flow[f].cid]
      BY <2>1, FlowFacts DEF FlowKnows, StartPc
    <2>4. FlowsOK'
      BY <1>0, <1>1, <2>1, <2>2, <2>3, GotoKeeps
    <2>5. QED
      BY <1>2, <2>4 DEF DeviceOK
  <1>5. QED
    BY <1>3, <1>4
-----------------------------------------------------------------------------
(* A flow and its request.                                                 *)

\* A request is made on a handler nobody waits for, and is the flow's own.
LEMMA SendsKeep ==
    ASSUME FieldInv, NEW f \in Flow, SendCreate(f) \/ SendConfirm(f)
    PROVE  DeviceOK'
  <1>0. Inv /\ TypeOK /\ FlowsOK /\ HistoryOK
    BY DEF FieldInv, Inv, DeviceOK
  <1>1. [Next]_vars
    BY FieldServes DEF FieldNext, FlowStep
  <1>2. OutboxesOK' /\ Addressed'
    BY <1>1, OutboxesRest DEF SendCreate, SendConfirm
  <1>3. HistoryOK'
    BY <1>0 DEF SendCreate, SendConfirm, HistoryOK, historyVars
  <1>4. ASSUME NEW g \in Flow \ {f}, NEW r \in Req, req[r].pc = "idle",
               flow[g].slot # None
        PROVE  flow[g].slot # r
    <2>1. flow[g].pc \in {"creating", "confirming"} /\ flow[g].slot \in Req
      BY <1>4, FlowFacts DEF FlowKnows, FlowType
    <2>2. req[flow[g].slot].pc # "idle"
      BY <2>1, FlowFacts DEF FlowWaits, Creating, Confirming
    <2>3. QED
      BY <1>4, <2>2
  <1>5. CASE SendCreate(f)
    <2>1. PICK r \in Req :
             /\ CreateBegin(r, flow[f].cid)
             /\ flow' = [flow EXCEPT ![f].pc = "creating", ![f].slot = r]
      BY <1>5 DEF SendCreate
    <2> DEFINE c == flow[f].cid
               s == [flow[f] EXCEPT !.pc = "creating", !.slot = r]
    <2>2. c \in CId /\ flow[f] \in FlowType
      BY <1>5, FlowFacts DEF SendCreate, FlowKnows, StartPc
    <2>3. flow' = [flow EXCEPT ![f] = s]
      BY <1>0, <2>1 DEF FlowsOK
    <2>4. s \in FlowType /\ s.pc = "creating" /\ s.cid = c /\ s.slot = r
      BY <2>2 DEF FlowType, FlowPc
    <2> HIDE DEF s
    <2>5. /\ req[r].pc = "idle"
          /\ req'[r].pc \in {"lookup", "rejected"} /\ req'[r].cid = c
          /\ \A q \in Req \ {r} : req'[q] = req[q]
      BY <1>0, <2>1 DEF CreateBegin, Idle, TypeOK
    <2>6. flow'[f] = s
      BY <1>0, <2>3 DEF FlowsOK
    <2>7. FlowKnows(f)' /\ FlowWaits(f)'
      BY <2>2, <2>4, <2>5, <2>6, RequestAssumption
      DEF FlowKnows, FlowWaits, Creating, ConfirmPc
    <2>8. \A g \in Flow \ {f} : flow[g].slot # None =>
             flow[g].slot # s.slot /\ req'[flow[g].slot] = req[flow[g].slot]
      <3> SUFFICES ASSUME NEW g \in Flow \ {f}, flow[g].slot # None
                   PROVE  flow[g].slot # s.slot /\ req'[flow[g].slot] = req[flow[g].slot]
        OBVIOUS
      <3>1. flow[g].slot \in Req
        BY FlowFacts DEF FlowType
      <3>2. flow[g].slot # r
        BY <1>4, <2>5
      <3>3. QED
        BY <2>4, <2>5, <3>1, <3>2
    <2>9. FlowsOK'
      BY <1>0, <1>1, <2>3, <2>4, <2>7, <2>8, FlowMoves
    <2>10. QED
      BY <1>2, <1>3, <2>9 DEF DeviceOK
  <1>6. CASE SendConfirm(f)
    <2>1. PICK r \in Req :
             /\ ConfirmBegin(r, flow[f].key, flow[f].token)
             /\ flow' = [flow EXCEPT ![f].pc = "confirming", ![f].slot = r]
      BY <1>6 DEF SendConfirm
    <2> DEFINE t == flow[f].token
               s == [flow[f] EXCEPT !.pc = "confirming", !.slot = r]
    <2>2. /\ t \in Token /\ flow[f].key \in KeysOf(TokenFor[t])
          /\ flow[f] \in FlowType
      BY <1>6, FlowFacts DEF SendConfirm, FlowKnows, ConfirmPc
    <2>3. flow' = [flow EXCEPT ![f] = s]
      BY <1>0, <2>1 DEF FlowsOK
    <2>4. /\ s \in FlowType /\ s.pc = "confirming" /\ s.token = t
          /\ s.key = flow[f].key /\ s.slot = r
      BY <2>2 DEF FlowType, FlowPc
    <2> HIDE DEF s
    <2>5. /\ req[r].pc = "idle"
          /\ req'[r].pc \in {"confirm", "sent", "queue", "rejected"}
          /\ req'[r].token = t /\ req'[r].cid = None
          /\ \A q \in Req \ {r} : req'[q] = req[q]
      <3>1. PICK pc \in {"confirm", "sent", "queue", "rejected"} :
               \E v, i : req' = [req EXCEPT ![r] = [Idle EXCEPT
                             !.pc = pc, !.vid = v, !.token = t, !.item = i]]
        BY <2>1 DEF ConfirmBegin
      <3>2. QED
        BY <1>0, <2>1, <3>1 DEF ConfirmBegin, Idle, TypeOK
    <2>6. flow'[f] = s /\ answers' = answers
      BY <1>0, <2>1, <2>3 DEF FlowsOK, ConfirmBegin
    <2>7. FlowKnows(f)' /\ FlowWaits(f)'
      BY <2>2, <2>4, <2>5, <2>6, RequestAssumption
      DEF FlowKnows, FlowWaits, Confirming, StartPc, KeysOf
    <2>8. \A g \in Flow \ {f} : flow[g].slot # None =>
             flow[g].slot # s.slot /\ req'[flow[g].slot] = req[flow[g].slot]
      <3> SUFFICES ASSUME NEW g \in Flow \ {f}, flow[g].slot # None
                   PROVE  flow[g].slot # s.slot /\ req'[flow[g].slot] = req[flow[g].slot]
        OBVIOUS
      <3>1. flow[g].slot \in Req
        BY FlowFacts DEF FlowType
      <3>2. flow[g].slot # r
        BY <1>4, <2>5
      <3>3. QED
        BY <2>4, <2>5, <3>1, <3>2
    <2>9. FlowsOK'
      BY <1>0, <1>1, <2>3, <2>4, <2>7, <2>8, FlowMoves
    <2>10. QED
      BY <1>2, <1>3, <2>9 DEF DeviceOK
  <1>7. QED
    BY <1>5, <1>6

\* The answer a flow hears is the answer to its request, which is then over.
LEMMA HearsKeep ==
    ASSUME FieldInv, NEW f \in Flow, HearCreate(f) \/ HearConfirm(f)
    PROVE  DeviceOK'
  <1>0. Inv /\ TypeOK /\ FlowsOK /\ HistoryOK
    BY DEF FieldInv, Inv, DeviceOK
  <1>1. [Next]_vars
    BY FieldServes DEF FieldNext, FlowStep
  <1>2. OutboxesOK' /\ Addressed'
    BY <1>1, OutboxesRest DEF HearCreate, HearConfirm
  <1>3. flow[f] \in FlowType /\ FlowKnows(f) /\ FlowWaits(f)
    BY FlowFacts
  <1>4. PICK r \in Req : r = flow[f].slot
    BY <1>3 DEF HearCreate, HearConfirm, Heard, FlowType
  <1>5. /\ req[r].pc \in {"sent", "queue", "rejected"}
        /\ \A q \in Req \ {r} : req'[q] = req[q]
        /\ answers' = answers
    BY <1>0, <1>4 DEF HearCreate, HearConfirm, Heard, Answered, Release, TypeOK
  <1>6. \A g \in Flow \ {f} : flow[g].slot # None =>
           flow[g].slot # r /\ req'[flow[g].slot] = req[flow[g].slot]
    <2> SUFFICES ASSUME NEW g \in Flow \ {f}, flow[g].slot # None
                 PROVE  flow[g].slot # r /\ req'[flow[g].slot] = req[flow[g].slot]
      OBVIOUS
    <2>1. flow[g].slot # r
      BY <1>0, <1>4 DEF FlowsOK
    <2>2. flow[g].slot \in Req
      BY FlowFacts DEF FlowType
    <2>3. QED
      BY <1>5, <2>1, <2>2
  <1>7. ASSUME NEW s \in FlowType, flow' = [flow EXCEPT ![f] = s], s.slot = None,
               s.pc \notin {"creating", "confirming"},
               s.pc \in StartPc => s.cid \in CId,
               s.pc \in {"record", "rekey", "resolve"} => s.vid \in answers[s.cid],
               s.pc \in ConfirmPc =>
                   s.token \in Token /\ s.key \in KeysOf(TokenFor[s.token])
        PROVE  FlowsOK'
    <2>1. flow'[f] = s
      BY <1>0, <1>7 DEF FlowsOK
    <2>2. FlowKnows(f)' /\ FlowWaits(f)'
      BY <1>5, <1>7, <2>1 DEF FlowKnows, FlowWaits, KeysOf
    <2>3. QED
      BY <1>0, <1>1, <1>6, <1>7, <2>2, FlowMoves
  <1>8. NoFlow.pc \notin StartPc \cup ConfirmPc \cup {"creating", "confirming",
                                                     "record", "rekey", "resolve"}
    BY NoFlowType DEF StartPc, ConfirmPc
  <1>9. CASE HearCreate(f)
    <2>1. flow[f].pc = "creating" /\ Outcome(f) = req[r].pc
      BY <1>4, <1>9 DEF HearCreate, Outcome
    <2>2. Creating(r, flow[f].cid) /\ flow[f].cid \in CId
      BY <1>3, <1>4, <2>1 DEF FlowKnows, FlowWaits, StartPc
    <2>3. HistoryOK'
      BY <1>0, <1>9 DEF HearCreate, HistoryOK, historyVars
    <2>4. CASE req[r].pc = "queue"
      <3>1. flow' = [flow EXCEPT ![f] = NoFlow]
        BY <1>9, <2>1, <2>4 DEF HearCreate
      <3>2. QED
        BY <1>2, <1>7, <1>8, <2>3, <3>1, NoFlowType DEF DeviceOK
    <2>5. CASE req[r].pc = "sent"
      <3>1. PICK pc \in {"resolve", "record"} :
               flow' = [flow EXCEPT ![f] =
                           [@ EXCEPT !.pc = pc, !.vid = req[r].vid, !.slot = None]]
        BY <1>4, <1>9, <2>1, <2>5 DEF HearCreate
      <3> DEFINE s == [flow[f] EXCEPT !.pc = pc, !.vid = req[r].vid, !.slot = None]
      <3>2. req[r].vid \in answers[flow[f].cid] /\ req[r].vid \in Vid
        BY <1>0, <2>2, <2>5 DEF Creating, TypeOK
      <3>3. /\ s \in FlowType /\ s.pc = pc /\ s.vid = req[r].vid /\ s.slot = None
            /\ s.cid = flow[f].cid /\ flow' = [flow EXCEPT ![f] = s]
        BY <1>0, <1>3, <3>1, <3>2 DEF FlowType, FlowPc, FlowsOK
      <3> HIDE DEF s
      <3>4. pc \notin ConfirmPc
        BY DEF ConfirmPc
      <3>5. QED
        BY <1>2, <1>7, <2>2, <2>3, <3>2, <3>3, <3>4 DEF DeviceOK
    <2>6. CASE req[r].pc = "rejected"
      <3>1. PICK pc \in {"forgetStart", "refuseConfirm"} :
               flow' = [flow EXCEPT ![f] = [@ EXCEPT !.pc = pc, !.slot = None]]
        BY <1>9, <2>1, <2>6 DEF HearCreate
      <3> DEFINE s == [flow[f] EXCEPT !.pc = pc, !.slot = None]
      <3>2. /\ s \in FlowType /\ s.pc = pc /\ s.slot = None
            /\ s.cid = flow[f].cid /\ flow' = [flow EXCEPT ![f] = s]
        BY <1>0, <1>3, <3>1 DEF FlowType, FlowPc, FlowsOK
      <3> HIDE DEF s
      <3>3. pc \notin ConfirmPc
        BY DEF ConfirmPc
      <3>4. QED
        BY <1>2, <1>7, <2>2, <2>3, <3>2, <3>3 DEF DeviceOK
    <2>7. QED
      BY <1>5, <2>4, <2>5, <2>6
  <1>10. CASE HearConfirm(f)
    <2>1. flow[f].pc = "confirming" /\ Outcome(f) = req[r].pc
      BY <1>4, <1>10 DEF HearConfirm, Outcome
    <2>2. flow[f].token \in Token /\ flow[f].key \in KeysOf(TokenFor[flow[f].token])
      BY <1>3, <2>1 DEF FlowKnows, ConfirmPc
    <2>3. HistoryOK'
      BY <1>0, <1>10, <2>2 DEF HearConfirm, HistoryOK
    <2>4. CASE req[r].pc = "queue"
      <3>1. flow' = [flow EXCEPT ![f] = NoFlow]
        BY <1>10, <2>1, <2>4 DEF HearConfirm
      <3>2. QED
        BY <1>2, <1>7, <1>8, <2>3, <3>1, NoFlowType DEF DeviceOK
    <2>5. CASE req[r].pc # "queue"
      <3>1. PICK pc \in {"forgetConfirm", "refuseEntry"} :
               flow' = [flow EXCEPT ![f] = [@ EXCEPT !.slot = None, !.pc = pc]]
        BY <1>10, <2>1, <2>5 DEF HearConfirm
      <3> DEFINE s == [flow[f] EXCEPT !.slot = None, !.pc = pc]
      <3>2. /\ s \in FlowType /\ s.pc = pc /\ s.slot = None
            /\ s.token = flow[f].token /\ s.key = flow[f].key
            /\ flow' = [flow EXCEPT ![f] = s]
        BY <1>0, <1>3, <3>1 DEF FlowType, FlowPc, FlowsOK
      <3> HIDE DEF s
      <3>3. pc \notin StartPc
        BY DEF StartPc
      <3>4. QED
        BY <1>2, <1>7, <2>2, <2>3, <3>2, <3>3 DEF DeviceOK
    <2>6. QED
      BY <2>4, <2>5
  <1>11. QED
    BY <1>9, <1>10

\* The server works on, and others come and go, on requests no flow waits for.
LEMMA ServersKeep ==
    ASSUME FieldInv,
           \/ \E r \in Req : ServerStep(r) \/ ReleaseUnheard(r)
           \/ OthersStep
    PROVE  DeviceOK'
  <1> USE DEF deviceVars
  <1>0. Inv /\ TypeOK /\ FlowsOK /\ HistoryOK
    BY DEF FieldInv, Inv, DeviceOK
  <1>1. [Next]_vars
    BY FieldServes DEF FieldNext
  <1>2. UNCHANGED <<startVars, outboxVars, flow, historyVars>>
    BY DEF ServerStep, ReleaseUnheard, OthersStep
  <1>3. OutboxesOK' /\ Addressed'
    BY <1>1, <1>2, OutboxesRest
  <1>4. accepted' \subseteq Token
    BY <1>0 DEF HistoryOK, ServerStep, ReleaseUnheard, OthersStep
  <1>5. HistoryOK'
    BY <1>0, <1>2, <1>4 DEF HistoryOK, historyVars
  <1>6. \A c \in CId : answers[c] \subseteq answers'[c]
    BY <1>0, <1>1, AnswersGrow
  <1>7. ASSUME NEW f \in Flow, flow[f].slot # None
        PROVE  req'[flow[f].slot] = req[flow[f].slot] \/ HandlerStep(flow[f].slot)
    <2>1. PICK q \in Req : q = flow[f].slot
      BY <1>7, FlowFacts DEF FlowType
    <2>2. req[q].pc # "idle" /\ req[q].pc \notin {"cancel", "update", "remove"}
      BY <1>7, <2>1, FlowFacts DEF FlowKnows, FlowWaits, Creating, Confirming
    <2>3. CASE \E r \in Req : ServerStep(r)
      BY <1>0, <2>1, <2>3, HandlerMoves DEF ServerStep
    <2>4. CASE \E r \in Req : ReleaseUnheard(r)
      BY <1>0, <2>1, <2>4 DEF ReleaseUnheard, Release, TypeOK
    <2>5. CASE OthersStep
      <3>1. CASE ManagerStep
        BY <1>0, <2>1, <2>2, <3>1
        DEF ManagerStep, CancelBegin, UpdateBegin, RemoveBegin, EditItem, TypeOK
      <3>2. CASE Environment
        BY <2>1, <3>2 DEF Environment, Invalidate, WindowCloses
      <3>3. CASE \E r \in Req, c \in CId \ Mine : CreateBegin(r, c)
        BY <1>0, <2>1, <2>2, <3>3 DEF CreateBegin, TypeOK
      <3>4. QED
        BY <2>5, <3>1, <3>2, <3>3 DEF OthersStep
    <2>6. QED
      BY <2>3, <2>4, <2>5
  <1>8. ASSUME NEW f \in Flow
        PROVE  FlowKnows(f)' /\ FlowWaits(f)'
    BY <1>0, <1>2, <1>6, <1>7, FlowRests DEF FlowsOK
  <1>9. FlowsOK'
    BY <1>0, <1>2, <1>8 DEF FlowsOK
  <1>10. QED
    BY <1>3, <1>5, <1>9 DEF DeviceOK
-----------------------------------------------------------------------------
(* What always holds of the device and its server.                         *)

\* At first the device has nothing and the server knows nothing.
LEMMA FieldInitInv == FieldInit => FieldInv
  <1> SUFFICES ASSUME FieldInit
               PROVE  FieldInv
    OBVIOUS
  <1>1. Inv
    BY InitInv DEF FieldInit
  <1>2. OutboxesOK /\ HistoryOK /\ Addressed
    BY DEF FieldInit, OutboxesOK, HistoryOK, Addressed
  <1>3. \A f \in Flow : flow[f] = NoFlow
    BY DEF FieldInit
  <1>4. NoFlow.pc \notin StartPc \cup ConfirmPc \cup {"creating", "confirming",
                                                     "record", "rekey", "resolve"}
    BY NoFlowType DEF StartPc, ConfirmPc
  <1>5. \A f \in Flow : FlowKnows(f) /\ FlowWaits(f)
    BY <1>3, <1>4, NoFlowType DEF FlowKnows, FlowWaits
  <1>6. FlowsOK
    <2>1. flow \in [Flow -> FlowType]
      BY NoFlowType DEF FieldInit
    <2>2. QED
      BY <1>3, <1>5, <2>1, NoFlowType DEF FlowsOK
  <1>7. QED
    BY <1>1, <1>2, <1>6 DEF FieldInv, DeviceOK

\* What the device relies on is kept by every step of the device, its server
\* and the others.
LEMMA FieldStep == FieldInv /\ [FieldNext]_syncVars => FieldInv'
  <1> SUFFICES ASSUME FieldInv, [FieldNext]_syncVars
               PROVE  FieldInv'
    OBVIOUS
  <1>1. Inv'
    BY FieldServes, StepInv DEF FieldInv
  <1>2. DeviceOK'
    <2>1. ASSUME NEW f \in Flow, RepStep(f)
          PROVE  DeviceOK'
      <3>1. \/ \E c \in CId : \/ TapStart(f, c) \/ Abandon(f, c)
                              \/ \E b \in BOOLEAN : PickStart(f, c, b)
            \/ \/ \E t \in Token : PressSave(f, t)
               \/ \E k \in Key, b \in BOOLEAN : PickConfirm(f, k, b)
        BY <2>1 DEF RepStep
      <3>2. QED
        BY <3>1, StartsKeep, ConfirmsKeep
    <2>2. ASSUME NEW f \in Flow, FlushStep(f)
          PROVE  DeviceOK'
      <3>1. \/ \E c \in CId : \E b \in BOOLEAN : PickStart(f, c, b)
            \/ \E k \in Key, b \in BOOLEAN : PickConfirm(f, k, b)
        BY <2>2 DEF FlushStep
      <3>2. QED
        BY <3>1, StartsKeep, ConfirmsKeep
    <2>3. ASSUME NEW f \in Flow, FlowStep(f)
          PROVE  DeviceOK'
      BY <2>3, SendsKeep, HearsKeep, SettlingKeeps, StartsEnd, ConfirmsEnd
      DEF FlowStep
    <2>4. ASSUME NEW f \in Flow, Stop(f) \/ StorageFails(f)
          PROVE  DeviceOK'
      BY <2>4, InterruptionsKeep
    <2>5. CASE (\E r \in Req : ServerStep(r) \/ ReleaseUnheard(r)) \/ OthersStep
      BY <2>5, ServersKeep
    <2>6. CASE UNCHANGED syncVars
      <3>1. OutboxesOK' /\ Addressed'
        BY <2>6, FieldServes, OutboxesRest DEF syncVars, deviceVars
      <3>2. HistoryOK'
        BY <2>6 DEF FieldInv, DeviceOK, HistoryOK, syncVars, serverVars,
                    deviceVars, historyVars
      <3>3. /\ Inv /\ flow \in [Flow -> FlowType] /\ flow' = flow
            /\ req' = req /\ answers' = answers
        BY <2>6 DEF FieldInv, DeviceOK, FlowsOK, syncVars, serverVars, vars, deviceVars
      <3>4. \A f \in Flow : FlowKnows(f)' /\ FlowWaits(f)'
        BY <3>3, FlowFacts, FlowRests
      <3>5. FlowsOK'
        BY <3>3, <3>4 DEF FieldInv, DeviceOK, FlowsOK
      <3>6. QED
        BY <3>1, <3>2, <3>5 DEF DeviceOK
    <2>7. QED
      BY <2>1, <2>2, <2>3, <2>4, <2>5, <2>6 DEF FieldNext
  <1>3. QED
    BY <1>1, <1>2 DEF FieldInv

LEMMA FieldInvAlways == FieldSpec => []FieldInv
  BY FieldInitInv, FieldStep, PTL DEF FieldSpec

\* Everything the device, its queues and the flows in progress hold has its
\* type, and no queue holds a refusal without its entry.
THEOREM FieldTypesAlways == FieldSpec => []FieldTypeOK
  <1>1. FieldInv => FieldTypeOK
    BY DEF FieldInv, Inv, DeviceOK, OutboxesOK, FlowsOK, FlowType, HistoryOK,
           FieldTypeOK
  <1>2. QED
    BY <1>1, FieldInvAlways, PTL

\* The composition: a device that stops, is killed or misses writes anywhere
\* sends the server nothing VisitServer does not serve, so what is proved of the
\* server for any callers is true of it with this device.
THEOREM DeviceKeepsServer == FieldSpec => Spec
  <1>1. FieldInit => Init
    BY DEF FieldInit
  <1>2. FieldInv /\ [FieldNext]_syncVars => [Next]_vars
    BY FieldServes
  <1>3. QED
    BY <1>1, <1>2, FieldInvAlways, PTL DEF FieldSpec, Spec

\* ... and when its handlers do not overlap, of SerialSpec.
LEMMA SerialDeviceKeepsServer == SerialFieldSpec => FieldSpec /\ SerialSpec
  <1>1. FieldInit => Init
    BY DEF FieldInit
  <1>2. [FieldNext /\ Serial]_syncVars => [FieldNext]_syncVars
    OBVIOUS
  <1>3. FieldInv /\ [FieldNext /\ Serial]_syncVars => [SerialNext]_vars
    <2>1. UNCHANGED syncVars => UNCHANGED vars
      BY DEF syncVars, serverVars
    <2>2. QED
      BY <2>1, FieldServes DEF SerialNext
  <1>4. QED
    BY <1>1, <1>2, <1>3, FieldInvAlways, PTL DEF SerialFieldSpec, FieldSpec, SerialSpec

\* With one request at a time handlers cannot overlap.
LEMMA OneRequestIsSerial ==
    ASSUME NEW r, Req = {r}
    PROVE  FieldSpec => SerialFieldSpec
  <1>1. ASSUME FieldInv, [FieldNext]_syncVars
        PROVE  [FieldNext /\ Serial]_syncVars
    <2>0. TypeOK /\ [Next]_vars
      BY <1>1, FieldServes DEF FieldInv, Inv
    <2>1. ASSUME Running(r), req'[r] = req[r]
          PROVE  UNCHANGED rowVars
      <3>1. CASE UNCHANGED vars
        BY <3>1 DEF vars
      <3>2. CASE HandlerStep(r)
        BY <2>0, <2>1, <3>2
        DEF HandlerStep, CreateLookup, CreateSlot, CreateAdopt, CreateInsert,
            CreateInsertConflict, ConfirmTx, ConfirmTxFails, ConfirmRaced,
            CancelTx, UpdateTx, RemoveTx, HandlerFails, Answer, Continue, Idle,
            TypeOK
      <3>3. QED
        BY <1>1, <2>0, <2>1, <3>1, <3>2
        DEF Next, Running, Answered, CreateBegin, ConfirmBegin, Release,
            ManagerStep, CancelBegin, UpdateBegin, RemoveBegin, EditItem,
            Environment, Invalidate, WindowCloses
    <2>2. Serial
      BY <2>1 DEF Serial
    <2>3. QED
      BY <1>1, <2>2
  <1>2. QED
    BY <1>1, FieldInvAlways, PTL DEF FieldSpec, SerialFieldSpec

\* While handlers do not overlap a report is only ever written on the visit of
\* the start it was made for, whatever id the device sent it under.
THEOREM ReportOnItsVisitWhenSerial == SerialFieldSpec => []ReportOnItsVisit
  <1>1. SerialInv => ReportOnItsVisit
    BY DEF SerialInv, ReportOnResolved, ReportOnItsVisit
  <1>2. QED
    BY <1>1, SerialDeviceKeepsServer, SerialInvAlways, PTL

\* ... and a confirm waits under the device's own id or the visit's, through
\* rekeys by several flows and flows that stop half-way.
THEOREM QueuedUnderItsVisitWhenSerial == SerialFieldSpec => []QueuedUnderItsVisit
  <1>1. ASSUME FieldInv, SerialInv
        PROVE  QueuedUnderItsVisit
    <2> SUFFICES ASSUME NEW k \in Key, outbox[k] # None
                 PROVE  \/ k = TokenFor[outbox[k]]
                        \/ k = Resolve(TokenFor[outbox[k]])
      BY DEF QueuedUnderItsVisit
    <2>1. outbox[k] \in Token /\ k \in KeysOf(TokenFor[outbox[k]])
      BY <1>1 DEF FieldInv, DeviceOK, OutboxesOK, Addressed
    <2>2. TokenFor[outbox[k]] \in CId
      BY <2>1, ConstantFunctionsAssumption
    <2>3. QED
      BY <1>1, <2>1, <2>2 DEF SerialInv, OneVisitPerStart, KeysOf
  <1>2. QED
    BY <1>1, SerialDeviceKeepsServer, SerialInvAlways, FieldInvAlways, PTL

\* ... and the answer a start's entry carries, which a rekey moves its confirm
\* to, is the visit the server resolves the start to
\* (visit-start-outbox.ts:255-261).
THEOREM RemoteIsResolvedWhenSerial == SerialFieldSpec => []RemoteIsResolved
  <1>1. ASSUME FieldInv, SerialInv
        PROVE  RemoteIsResolved
    BY <1>1 DEF FieldInv, DeviceOK, Addressed, SerialInv, OneVisitPerStart,
                RemoteIsResolved
  <1>2. QED
    BY <1>1, SerialDeviceKeepsServer, SerialInvAlways, FieldInvAlways, PTL

\* One request at a time, whoever makes it, is such a case.
THEOREM OneRequestKeepsReports ==
    ASSUME NEW r, Req = {r}
    PROVE  FieldSpec => [](ReportOnItsVisit /\ QueuedUnderItsVisit)
  BY OneRequestIsSerial, ReportOnItsVisitWhenSerial, QueuedUnderItsVisitWhenSerial,
     PTL
-----------------------------------------------------------------------------
(* One stop per visit.                                                     *)

\* Being starts of one stop is an equivalence.
LEMMA SameStopTies ==
    ASSUME NEW c, NEW d, NEW e, SameStop(c, e), SameStop(d, e)
    PROVE  SameStop(c, d)
  BY DEF SameStop

\* Rows stay rows of their stop.
LEMMA RowsStayOfStop ==
    ASSUME Inv, OneStopPerVisit, Persists, NEW v \in Vid, Exists(v)
    PROVE  /\ RowOfStop(v)'
           /\ \A c \in CId : SameStop(c, clientVisitId[v]) => SameStop(c, clientVisitId'[v])
  BY DEF OneStopPerVisit, RowOfStop, Persists

\* What a handler, a start and the answers say of a stop outlives other steps.
LEMMA StopsRest ==
    ASSUME Inv, OneStopPerVisit, Persists
    PROVE  /\ \A r \in Req : req'[r] = req[r] => HandlerOfStop(r)'
           /\ \A c \in CId : alias'[c] = alias[c] /\ answers'[c] = answers[c]
                             => AnswersOfStop(c)'
  <1>1. ASSUME NEW r \in Req, req'[r] = req[r]
        PROVE  HandlerOfStop(r)'
    <2>1. req[r].pc = "adopt" => /\ req[r].cid \in CId
                                 /\ req[r].vid \in Vid /\ Exists(req[r].vid)
      BY DEF Inv, HandlersKnow, HandlerKnows
    <2>2. req[r].pc = "adopt" => SameStop(req[r].cid, clientVisitId'[req[r].vid])
      BY <2>1, RowsStayOfStop DEF OneStopPerVisit, HandlerOfStop
    <2>3. QED
      BY <1>1, <2>2 DEF OneStopPerVisit, HandlerOfStop
  <1>2. ASSUME NEW c \in CId, alias'[c] = alias[c], answers'[c] = answers[c]
        PROVE  AnswersOfStop(c)'
    <2> SUFFICES ASSUME NEW v \in Vid, v = alias'[c] \/ v \in answers'[c]
                 PROVE  Exists(v)' /\ SameStop(c, clientVisitId'[v])
      BY DEF AnswersOfStop
    <2>1. Exists(v) /\ SameStop(c, clientVisitId[v])
      BY <1>2 DEF OneStopPerVisit, AnswersOfStop
    <2>2. QED
      BY <2>1, RowsStayOfStop DEF Persists
  <1>3. QED
    BY <1>1, <1>2

\* A handler that answers with a row of its own stop keeps the rows apart.
LEMMA AnswerOfStop ==
    ASSUME Inv, OneStopPerVisit, Persists, \A v \in Vid : RowOfStop(v)',
           NEW r \in Req, NEW outcome \in {"sent", "queue", "rejected"}, NEW w,
           Answer(r, outcome, w),
           \A c \in CId : alias'[c] # alias[c] => c = req[r].cid /\ alias'[c] = w,
           outcome = "sent" /\ req[r].cid # None =>
               /\ req[r].cid \in CId /\ w \in Vid /\ Exists(w)'
               /\ SameStop(req[r].cid, clientVisitId'[w]),
           outcome # "sent" => alias' = alias
    PROVE  OneStopPerVisit'
  <1>0. TypeOK
    BY DEF Inv
  <1>1. req'[r].pc = outcome /\ \A q \in Req \ {r} : req'[q] = req[q]
    BY <1>0 DEF Answer, TypeOK
  <1>2. ASSUME NEW q \in Req
        PROVE  HandlerOfStop(q)'
    <2>1. CASE q = r
      BY <1>1, <2>1 DEF HandlerOfStop
    <2>2. CASE q # r
      BY <1>1, <2>2, StopsRest
    <2>3. QED
      BY <2>1, <2>2
  <1>3. ASSUME NEW c \in CId
        PROVE  AnswersOfStop(c)'
    <2>1. c # None
      BY NoneAssumption
    <2>2. CASE outcome = "sent" /\ c = req[r].cid
      <3> SUFFICES ASSUME NEW v \in Vid, v = alias'[c] \/ v \in answers'[c]
                   PROVE  Exists(v)' /\ SameStop(c, clientVisitId'[v])
        BY DEF AnswersOfStop
      <3>1. v = w \/ v = alias[c] \/ v \in answers[c]
        BY <1>0, <2>2 DEF Answer, TypeOK
      <3>2. v = w => Exists(v)' /\ SameStop(c, clientVisitId'[v])
        BY <2>1, <2>2
      <3>3. v # w => Exists(v) /\ SameStop(c, clientVisitId[v])
        BY <3>1 DEF OneStopPerVisit, AnswersOfStop
      <3>4. QED
        BY <3>2, <3>3, RowsStayOfStop DEF Persists
    <2>3. CASE ~(outcome = "sent" /\ c = req[r].cid)
      <3>1. alias'[c] = alias[c] /\ answers'[c] = answers[c]
        BY <1>0, <2>3 DEF Answer, TypeOK
      <3>2. QED
        BY <3>1, StopsRest
    <2>4. QED
      BY <2>2, <2>3
  <1>4. QED
    BY <1>2, <1>3 DEF OneStopPerVisit

\* A handler that goes on keeps them apart too, if it knows its stop.
LEMMA ContinueOfStop ==
    ASSUME Inv, OneStopPerVisit, Persists, UNCHANGED <<alias, answers>>,
           \A v \in Vid : RowOfStop(v)',
           NEW r \in Req, \A q \in Req \ {r} : req'[q] = req[q], HandlerOfStop(r)'
    PROVE  OneStopPerVisit'
  <1>1. \A q \in Req : HandlerOfStop(q)'
    BY StopsRest
  <1>2. \A c \in CId : AnswersOfStop(c)'
    BY StopsRest
  <1>3. QED
    BY <1>1, <1>2 DEF OneStopPerVisit


\* Every step of the server keeps starts of different stops on different visits.
LEMMA StopsStep ==
    ASSUME Inv, OneStopPerVisit, [Next]_vars
    PROVE  OneStopPerVisit'
  <1>0. TypeOK /\ HandlersKnow /\ Persists
    BY StepPersists DEF Inv
  <1>1. ASSUME NEW r \in Req, CreateInsert(r)
        PROVE  OneStopPerVisit'
    <2>1. PICK v \in Vid :
             /\ ~Exists(v)
             /\ visitStatus' = [visitStatus EXCEPT ![v] = "open"]
             /\ routeItemId' = [routeItemId EXCEPT ![v] = req[r].item]
             /\ clientVisitId' = [clientVisitId EXCEPT ![v] = req[r].cid]
             /\ Answer(r, "sent", v)
      BY <1>1 DEF CreateInsert
    <2>2. req[r].cid \in CId /\ req[r].item \in {None, StartItem[req[r].cid]}
      BY <1>0, <1>1
      DEF CreateInsert, HandlersKnow, HandlerKnows, OneStopPerVisit, HandlerOfStop
    <2>3. /\ Exists(v)' /\ clientVisitId'[v] = req[r].cid
          /\ routeItemId'[v] = req[r].item
          /\ \A w \in Vid \ {v} : Exists(w)' => Exists(w)
      BY <1>0, <2>1 DEF Exists, TypeOK
    <2>4. \A w \in Vid : RowOfStop(w)'
      <3>1. RowOfStop(v)'
        BY <2>2, <2>3 DEF RowOfStop
      <3>2. ASSUME NEW w \in Vid \ {v}
            PROVE  RowOfStop(w)'
        BY <1>0, <2>3, RowsStayOfStop DEF RowOfStop
      <3>3. QED
        BY <3>1, <3>2
    <2>5. alias' = alias
      BY <1>1 DEF CreateInsert
    <2>6. SameStop(req[r].cid, clientVisitId'[v])
      BY <2>3 DEF SameStop
    <2>7. QED
      BY <1>0, <2>1, <2>2, <2>3, <2>4, <2>5, <2>6, AnswerOfStop
  <1>2. ASSUME ~\E r \in Req : CreateInsert(r)
        PROVE  \A v \in Vid : RowOfStop(v)'
    <2>1. \A v \in Vid : Exists(v)' => Exists(v)
      BY <1>0, <1>2, RowsAppear DEF Inv
    <2>2. QED
      BY <1>0, <2>1, RowsStayOfStop DEF RowOfStop
  <1>3. ASSUME NEW r \in Req, CreateLookup(r), \A v \in Vid : RowOfStop(v)'
        PROVE  OneStopPerVisit'
    <2>0. req[r].cid \in CId /\ alias' = alias
      BY <1>0, <1>3 DEF CreateLookup, HandlersKnow, HandlerKnows, rowVars
    <2> PICK c \in CId : c = req[r].cid
      BY <2>0
    <2>1. CASE Resolve(c) # None
      <3> PICK v \in Vid : v = Resolve(c)
        BY <1>0, <2>1, ResolveFound
      <3>1. Answer(r, "sent", v)
        BY <1>3, <2>1 DEF CreateLookup
      <3>2. Exists(v)
        <4>1. c \in Key /\ ResolveKey(c) = Resolve(c)
          BY NoneAssumption DEF Key, ResolveKey
        <4>2. QED
          BY <1>0, <2>1, <4>1, ResolvedExists DEF Inv
      <3>3. SameStop(c, clientVisitId[v])
        <4>1. CASE v \in ColumnVisits(c)
          BY <4>1 DEF ColumnVisits, SameStop
        <4>2. CASE v = alias[c]
          BY <4>2 DEF OneStopPerVisit, AnswersOfStop
        <4>3. QED
          BY <1>0, <4>1, <4>2, ResolveFound DEF Resolve
      <3>4. Exists(v)' /\ SameStop(c, clientVisitId'[v])
        BY <1>0, <3>2, <3>3, RowsStayOfStop DEF Persists
      <3>5. QED
        BY <1>0, <1>3, <2>0, <3>1, <3>2, <3>4, AnswerOfStop
    <2>2. CASE Resolve(c) = None
      <3>1. PICK pc \in {"insert", "slot"} :
               /\ Continue(r, pc)
               /\ pc = "slot" => StartItem[c] # None
        BY <1>3, <2>2 DEF CreateLookup
      <3>2. /\ req'[r].pc = pc /\ req'[r].cid = c /\ req'[r].item = req[r].item
            /\ \A q \in Req \ {r} : req'[q] = req[q]
            /\ answers' = answers
        BY <1>0, <3>1 DEF Continue, TypeOK
      <3>3. req[r].item \in {None, StartItem[c]}
        BY <1>3 DEF CreateLookup, OneStopPerVisit, HandlerOfStop
      <3>4. HandlerOfStop(r)'
        BY <3>1, <3>2, <3>3 DEF HandlerOfStop
      <3>5. QED
        BY <1>0, <1>3, <2>0, <3>2, <3>4, ContinueOfStop
    <2>3. QED
      BY <2>1, <2>2
  <1>4. ASSUME NEW r \in Req, CreateSlot(r), \A v \in Vid : RowOfStop(v)'
        PROVE  OneStopPerVisit'
    <2> DEFINE c == req[r].cid
               i == StartItem[c]
    <2>1. /\ c \in CId /\ i # None /\ req[r].item \in {None, i}
          /\ UNCHANGED <<alias, answers, clientVisitId>>
      BY <1>0, <1>4 DEF CreateSlot, HandlersKnow, HandlerKnows, OneStopPerVisit,
                        HandlerOfStop, rowVars
    <2>2. \A q \in Req \ {r} : req'[q] = req[q]
      BY <1>0, <1>4 DEF CreateSlot, TypeOK
    <2>3. CASE \E v \in SlotVisits(i) : req' = [req EXCEPT ![r].pc = "adopt", ![r].vid = v]
      <3>1. PICK v \in SlotVisits(i) : req' = [req EXCEPT ![r].pc = "adopt", ![r].vid = v]
        BY <2>3
      <3>2. req'[r].pc = "adopt" /\ req'[r].cid = c /\ req'[r].vid = v
        BY <1>0, <3>1 DEF TypeOK
      <3>3. v \in Vid /\ Exists(v) /\ routeItemId[v] = i
        BY <3>1 DEF SlotVisits
      <3>4. SameStop(c, clientVisitId[v])
        BY <2>1, <3>3 DEF OneStopPerVisit, RowOfStop, SameStop
      <3>5. HandlerOfStop(r)'
        BY <2>1, <3>2, <3>4 DEF HandlerOfStop
      <3>6. QED
        BY <1>0, <1>4, <2>1, <2>2, <3>5, ContinueOfStop
    <2>4. CASE \/ req' = [req EXCEPT ![r].pc = "insert", ![r].item = i]
               \/ req' = [req EXCEPT ![r].pc = "insert"]
      <3>1. /\ req'[r].pc = "insert" /\ req'[r].cid = c
            /\ req'[r].item \in {i, req[r].item}
        BY <1>0, <2>4 DEF TypeOK
      <3>2. HandlerOfStop(r)'
        BY <2>1, <3>1 DEF HandlerOfStop
      <3>3. QED
        BY <1>0, <1>4, <2>1, <2>2, <3>2, ContinueOfStop
    <2>5. QED
      BY <1>4, <2>3, <2>4 DEF CreateSlot
  <1>5. ASSUME NEW r \in Req, CreateAdopt(r), \A v \in Vid : RowOfStop(v)'
        PROVE  OneStopPerVisit'
    <2> PICK c \in CId, v \in Vid : c = req[r].cid /\ v = req[r].vid
      BY <1>0, <1>5 DEF CreateAdopt, HandlersKnow, HandlerKnows
    <2>1. Exists(v) /\ SameStop(c, clientVisitId[v])
      BY <1>0, <1>5 DEF CreateAdopt, HandlersKnow, HandlerKnows, OneStopPerVisit,
                        HandlerOfStop
    <2>2. /\ Answer(r, "sent", v)
          /\ alias' = [alias EXCEPT ![c] = IF @ = None THEN v ELSE @]
      BY <1>5 DEF CreateAdopt
    <2>3. \A d \in CId : alias'[d] # alias[d] => d = c /\ alias'[d] = v
      BY <1>0, <2>2 DEF TypeOK
    <2>4. Exists(v)' /\ SameStop(c, clientVisitId'[v])
      BY <1>0, <2>1, RowsStayOfStop DEF Persists
    <2>5. QED
      BY <1>0, <1>5, <2>1, <2>2, <2>3, <2>4, AnswerOfStop
  <1>6. ASSUME NEW r \in Req, CreateInsertConflict(r), \A v \in Vid : RowOfStop(v)'
        PROVE  OneStopPerVisit'
    <2>0. req[r].cid \in CId /\ alias' = alias
      BY <1>0, <1>6 DEF CreateInsertConflict, HandlersKnow, HandlerKnows, rowVars
    <2>1. CASE \E v \in ColumnVisits(req[r].cid) : Answer(r, "sent", v)
      <3>1. PICK v \in ColumnVisits(req[r].cid) : Answer(r, "sent", v)
        BY <2>1
      <3>2. v \in Vid /\ Exists(v) /\ SameStop(req[r].cid, clientVisitId[v])
        BY <3>1 DEF ColumnVisits, SameStop
      <3>3. Exists(v)' /\ SameStop(req[r].cid, clientVisitId'[v])
        BY <1>0, <2>0, <3>2, RowsStayOfStop DEF Persists
      <3>4. QED
        BY <1>0, <1>6, <2>0, <3>1, <3>2, <3>3, AnswerOfStop
    <2>2. CASE Answer(r, "queue", None)
      BY <1>0, <1>6, <2>0, <2>2, AnswerOfStop
    <2>3. QED
      BY <1>6, <2>1, <2>2 DEF CreateInsertConflict
  <1>7. ASSUME NEW r \in Req, ConfirmTx(r) \/ ConfirmTxFails(r) \/ ConfirmRaced(r),
               \A v \in Vid : RowOfStop(v)'
        PROVE  OneStopPerVisit'
    <2>1. req[r].cid = None /\ alias' = alias
      BY <1>0, <1>7 DEF ConfirmTx, ConfirmTxFails, ConfirmRaced, HandlersKnow,
                        HandlerKnows, rowVars
    <2>2. PICK outcome \in {"sent", "queue", "rejected"} : \E v : Answer(r, outcome, v)
      BY <1>7 DEF ConfirmTx, ConfirmTxFails, ConfirmRaced
    <2>3. QED
      BY <1>0, <1>7, <2>1, <2>2, AnswerOfStop
  <1>8. ASSUME NEW r \in Req, NEW s, req' = [req EXCEPT ![r] = s],
               s.pc \notin {"slot", "adopt", "insert"},
               s.pc = "lookup" => s.item = None,
               UNCHANGED <<alias, answers>>, \A v \in Vid : RowOfStop(v)'
        PROVE  OneStopPerVisit'
    <2>1. req'[r] = s /\ \A q \in Req \ {r} : req'[q] = req[q]
      BY <1>0, <1>8 DEF TypeOK
    <2>2. HandlerOfStop(r)'
      BY <1>8, <2>1 DEF HandlerOfStop
    <2>3. QED
      BY <1>0, <1>8, <2>1, <2>2, ContinueOfStop
  <1>9. ASSUME UNCHANGED <<req, alias, answers>>, \A v \in Vid : RowOfStop(v)'
        PROVE  OneStopPerVisit'
    BY <1>0, <1>9, StopsRest DEF OneStopPerVisit
  <1>10. ASSUME NEW r \in Req, NEW t \in Token, NEW k, ConfirmBegin(r, k, t),
                \A v \in Vid : RowOfStop(v)'
         PROVE  OneStopPerVisit'
    <2>1. PICK pc \in {"confirm", "sent", "queue", "rejected"} :
             \E v, i : req' = [req EXCEPT ![r] = [Idle EXCEPT
                           !.pc = pc, !.vid = v, !.token = t, !.item = i]]
      BY <1>10 DEF ConfirmBegin
    <2>2. UNCHANGED <<alias, answers>>
      BY <1>10 DEF ConfirmBegin, rowVars
    <2>3. PICK s : s.pc = pc /\ req' = [req EXCEPT ![r] = s]
      BY <2>1 DEF Idle
    <2>4. QED
      BY <1>8, <1>10, <2>1, <2>2, <2>3
  <1>11. ASSUME NEW r \in Req,
                \/ \E c \in CId : CreateBegin(r, c)
                \/ CancelTx(r) \/ UpdateTx(r) \/ RemoveTx(r) \/ HandlerFails(r)
                \/ Release(r)
                \/ \E v \in Vid : CancelBegin(r, v)
                \/ \E v \in Vid, s \in VisitStatus : UpdateBegin(r, v, s)
                \/ \E i \in Item : RemoveBegin(r, i),
                \A v \in Vid : RowOfStop(v)'
         PROVE  OneStopPerVisit'
    <2>1. UNCHANGED <<alias, answers>>
      BY <1>11 DEF CreateBegin, CancelTx, UpdateTx, RemoveTx, HandlerFails, Release,
                   CancelBegin, UpdateBegin, RemoveBegin, rowVars
    <2>2. CASE \E c \in CId : CreateBegin(r, c)
      <3>1. PICK pc \in {"lookup", "rejected"}, c \in CId :
               req' = [req EXCEPT ![r] = [Idle EXCEPT !.pc = pc, !.cid = c]]
        BY <2>2 DEF CreateBegin
      <3>2. [Idle EXCEPT !.pc = pc, !.cid = c].pc = pc
        BY DEF Idle
      <3>3. [Idle EXCEPT !.pc = pc, !.cid = c].item = None
        BY DEF Idle
      <3>4. QED
        BY <1>8, <1>11, <2>1, <3>1, <3>2, <3>3
    <2>3. CASE \/ CancelTx(r) \/ UpdateTx(r) \/ RemoveTx(r) \/ Release(r)
      <3>1. req' = [req EXCEPT ![r] = Idle] /\ Idle.pc = "idle"
        BY <2>3 DEF CancelTx, UpdateTx, RemoveTx, Release, Idle
      <3>2. QED
        BY <1>8, <1>11, <2>1, <3>1
    <2>4. CASE \/ \E v \in Vid : CancelBegin(r, v)
               \/ \E v \in Vid, s \in VisitStatus : UpdateBegin(r, v, s)
               \/ \E i \in Item : RemoveBegin(r, i)
               \/ HandlerFails(r)
      <3>1. PICK pc \in {"cancel", "update", "remove", "queue"} :
               \E s : s.pc = pc /\ req' = [req EXCEPT ![r] = s]
        BY <2>4 DEF CancelBegin, UpdateBegin, RemoveBegin, HandlerFails, Idle
      <3>2. QED
        BY <1>8, <1>11, <2>1, <3>1
    <2>5. QED
      BY <1>11, <2>2, <2>3, <2>4
  <1>12. ASSUME \A v \in Vid : RowOfStop(v)'
         PROVE  OneStopPerVisit'
    <2>1. CASE UNCHANGED vars
      BY <1>9, <1>12, <2>1 DEF vars, rowVars
    <2>2. CASE \E r \in Req, i \in Item, s \in ItemStatus : EditItem(r, i, s)
      BY <1>9, <1>12, <2>2 DEF EditItem
    <2>3. CASE Environment
      BY <1>9, <1>12, <2>3 DEF Environment, Invalidate, WindowCloses, rowVars
    <2>4. QED
      BY <1>1, <1>3, <1>4, <1>5, <1>6, <1>7, <1>10, <1>11, <1>12, <2>1, <2>2, <2>3
      DEF Next, HandlerStep, ManagerStep
  <1>13. QED
    BY <1>1, <1>2, <1>12
-----------------------------------------------------------------------------
(* The last confirm is kept.                                               *)

\* What was accepted or told stays so, and what is written is accepted.
LEMMA AcceptedGrows ==
    ASSUME FieldInv, WrittenIsAccepted, [FieldNext]_syncVars
    PROVE  accepted \subseteq accepted' /\ told \subseteq told' /\ WrittenIsAccepted'
  <1> USE DEF serverVars, deviceVars, historyVars
  <1>1. ASSUME NEW r \in Req, ServerStep(r)
        PROVE  accepted \subseteq accepted' /\ told \subseteq told' /\ WrittenIsAccepted'
    BY <1>1 DEF ServerStep, WrittenIsAccepted
  <1>2. ASSUME NEW r \in Req, ReleaseUnheard(r)
        PROVE  UNCHANGED <<reportToken, accepted, told>>
    BY <1>2 DEF ReleaseUnheard, Release, rowVars
  <1>3. CASE OthersStep
    <2>1. UNCHANGED <<accepted, told>>
      BY <1>3 DEF OthersStep
    <2>2. reportToken' = reportToken
      BY <1>3 DEF OthersStep, ManagerStep, CancelBegin, UpdateBegin, RemoveBegin,
                  EditItem, Environment, Invalidate, WindowCloses, CreateBegin, rowVars
    <2>3. QED
      BY <2>1, <2>2 DEF WrittenIsAccepted
  <1>4. ASSUME NEW f \in Flow, SendCreate(f) \/ HearCreate(f) \/ SendConfirm(f)
                               \/ HearConfirm(f)
        PROVE  UNCHANGED <<reportToken, accepted>> /\ told \subseteq told'
    BY <1>4 DEF SendCreate, HearCreate, SendConfirm, HearConfirm, Heard, Release,
                CreateBegin, ConfirmBegin, rowVars
  <1>5. ASSUME NEW f \in Flow,
               \/ RepStep(f) \/ FlushStep(f) \/ Stop(f) \/ StorageFails(f)
               \/ RecordRemote(f) \/ Rekey(f) \/ MarkResolved(f)
               \/ RefuseConfirm(f) \/ RefuseStart(f) \/ ForgetStart(f)
               \/ ForgetConfirm(f) \/ RefuseEntry(f) \/ DropStart(f) \/ DropConfirm(f)
        PROVE  UNCHANGED <<vars, accepted>> /\ told \subseteq told'
    BY <1>5 DEF RepStep, FlushStep, Stop, StorageFails, RecordRemote, Rekey,
                MarkResolved, RefuseConfirm, RefuseStart, ForgetStart,
                ForgetConfirm, RefuseEntry, DropStart, DropConfirm, TapStart,
                Abandon, PickStart, PressSave, PickConfirm
  <1>6. UNCHANGED vars => reportToken' = reportToken
    BY DEF vars, rowVars
  <1>7. CASE UNCHANGED syncVars
    BY <1>6, <1>7 DEF syncVars, WrittenIsAccepted
  <1>8. QED
    BY <1>1, <1>2, <1>3, <1>4, <1>5, <1>6, <1>7
    DEF FieldNext, FlowStep, WrittenIsAccepted

\* A flow's step leaves the other flows and their requests alone.
LEMMA OthersWait ==
    ASSUME FieldInv, NEW f \in Flow, NEW g \in Flow \ {f},
           RepStep(f) \/ FlushStep(f) \/ FlowStep(f) \/ Stop(f) \/ StorageFails(f)
    PROVE  /\ flow'[g] = flow[g]
           /\ flow[g].slot # None => req'[flow[g].slot] = req[flow[g].slot]
  <1> USE DEF serverVars
  <1>0. TypeOK /\ FlowsOK
    BY DEF FieldInv, Inv, DeviceOK
  <1>1. \E s : flow' = [flow EXCEPT ![f] = s]
    BY Zenon
    DEF RepStep, FlushStep, FlowStep, Stop, StorageFails, SendCreate, HearCreate,
        RecordRemote, Rekey, MarkResolved, RefuseConfirm, RefuseStart, ForgetStart,
        SendConfirm, HearConfirm, ForgetConfirm, RefuseEntry, DropStart, DropConfirm,
        TapStart, Abandon, PickStart, PressSave, PickConfirm, Goto, Finish
  <1>2. flow'[g] = flow[g]
    BY <1>0, <1>1 DEF FlowsOK
  <1>3. ASSUME flow[g].slot # None
        PROVE  req'[flow[g].slot] = req[flow[g].slot]
    <2>1. PICK q \in Req : q = flow[g].slot
      BY <1>3, FlowFacts DEF FlowType
    <2>2. req[q].pc # "idle"
      BY <1>3, <2>1, FlowFacts DEF FlowKnows, FlowWaits, Creating, Confirming
    <2>3. CASE SendCreate(f) \/ SendConfirm(f)
      <3>1. \E r \in Req : \E s : req[r].pc = "idle" /\ req' = [req EXCEPT ![r] = s]
        BY <2>3 DEF SendCreate, SendConfirm, CreateBegin, ConfirmBegin
      <3>2. QED
        BY <1>0, <2>1, <2>2, <3>1 DEF TypeOK
    <2>4. CASE HearCreate(f) \/ HearConfirm(f)
      <3>1. PICK r \in Req : r = flow[f].slot
        BY <2>4, FlowFacts DEF HearCreate, HearConfirm, Heard, FlowType
      <3>2. req' = [req EXCEPT ![r] = Idle]
        BY <2>4, <3>1 DEF HearCreate, HearConfirm, Heard, Release
      <3>3. q # r
        BY <1>0, <1>3, <2>1, <3>1 DEF FlowsOK
      <3>4. QED
        BY <1>0, <2>1, <3>2, <3>3 DEF TypeOK
    <2>5. CASE ~(SendCreate(f) \/ SendConfirm(f) \/ HearCreate(f) \/ HearConfirm(f))
      <3>1. UNCHANGED vars
        BY <2>5 DEF RepStep, FlushStep, FlowStep, Stop, StorageFails, RecordRemote,
                    Rekey, MarkResolved, RefuseConfirm, RefuseStart, ForgetStart,
                    ForgetConfirm, RefuseEntry, DropStart, DropConfirm, TapStart,
                    Abandon, PickStart, PressSave, PickConfirm
      <3>2. QED
        BY <3>1 DEF vars
    <2>6. QED
      BY <2>3, <2>4, <2>5
  <1>4. QED
    BY <1>2, <1>3

\* The server answers "sent" only to a confirm it has written.
LEMMA ServersSend ==
    ASSUME FieldInv, SentIsAccepted, NEW r \in Req, ServerStep(r), NEW f \in Flow
    PROVE  HeardIsAccepted(f)'
  <1> USE DEF deviceVars
  <1>0. TypeOK /\ HandlersKnow /\ HandlerStep(r) /\ flow' = flow /\ told' = told
    BY DEF FieldInv, Inv, ServerStep, historyVars
  <1>1. accepted \subseteq accepted'
    BY DEF ServerStep
  <1>2. CASE flow[f].pc = "confirming"
    <2>1. PICK t \in Token, q \in Req : t = flow[f].token /\ q = flow[f].slot
      BY <1>2, FlowFacts DEF FlowKnows, FlowType, ConfirmPc
    <2>2. CASE q # r
      <3>1. req'[q] = req[q]
        BY <1>0, <2>2, HandlerMoves
      <3>2. req[q].pc = "sent" => t \in accepted
        BY <1>2, <2>1 DEF SentIsAccepted, HeardIsAccepted, Outcome
      <3>3. QED
        BY <1>0, <1>1, <1>2, <2>1, <3>1, <3>2 DEF HeardIsAccepted, Outcome
    <2>3. CASE q = r
      <3>1. Confirming(r, t)
        BY <1>2, <2>1, <2>3, FlowFacts DEF FlowWaits
      <3>2. req[r].pc = "confirm" /\ req[r].token = t
        BY <1>0, <3>1, HandlerMoves DEF Confirming
      <3>3. req'[r].pc = "sent" => \E v \in Vid : reportToken'[v] = t
        <4>1. CASE ConfirmTx(r)
          <5>1. PICK v \in Vid : v = req[r].vid
            BY <1>0, <3>2 DEF HandlersKnow, HandlerKnows
          <5>2. reportToken' = [reportToken EXCEPT ![v] = t]
            BY <3>2, <4>1, <5>1 DEF ConfirmTx
          <5>3. QED
            BY <1>0, <5>2 DEF TypeOK
        <4>2. CASE ConfirmRaced(r)
          BY <3>2, <4>2 DEF ConfirmRaced, ReportsWith, rowVars
        <4>3. CASE ConfirmTxFails(r) \/ HandlerFails(r)
          <5>1. CASE ConfirmTxFails(r)
            BY <1>0, <5>1 DEF ConfirmTxFails, Answer, TypeOK
          <5>2. CASE HandlerFails(r)
            BY <1>0, <5>2 DEF HandlerFails, Idle, TypeOK
          <5>3. QED
            BY <4>3, <5>1, <5>2
        <4>4. QED
          BY <1>0, <3>2, <4>1, <4>2, <4>3
          DEF HandlerStep, CreateLookup, CreateSlot, CreateAdopt, CreateInsert,
              CreateInsertConflict, CancelTx, UpdateTx, RemoveTx
      <3>4. req'[r].pc = "sent" => t \in accepted'
        BY <3>3 DEF ServerStep
      <3>5. QED
        BY <1>0, <1>2, <2>1, <2>3, <3>4 DEF HeardIsAccepted, Outcome
    <2>4. QED
      BY <2>2, <2>3
  <1>3. CASE flow[f].pc # "confirming"
    BY <1>0, <1>1, <1>3 DEF SentIsAccepted, HeardIsAccepted
  <1>4. QED
    BY <1>2, <1>3


\* A flow forgets a confirm only after it heard that it was written or refused.
LEMMA SentStep ==
    ASSUME FieldInv, SentIsAccepted, [FieldNext]_syncVars
    PROVE  SentIsAccepted'
  <1>1. accepted \subseteq accepted' /\ told \subseteq told' /\ WrittenIsAccepted'
    BY AcceptedGrows DEF SentIsAccepted
  <1>2. ASSUME NEW g \in Flow, flow'[g] = flow[g],
               flow[g].slot # None => req'[flow[g].slot] = req[flow[g].slot]
        PROVE  HeardIsAccepted(g)'
    BY <1>1, <1>2, FlowFacts
    DEF SentIsAccepted, HeardIsAccepted, Outcome, FlowKnows
  <1>3. ASSUME NEW f \in Flow,
               RepStep(f) \/ FlushStep(f) \/ FlowStep(f) \/ Stop(f) \/ StorageFails(f),
               HeardIsAccepted(f)'
        PROVE  SentIsAccepted'
    BY <1>1, <1>2, <1>3, OthersWait DEF SentIsAccepted
  <1>4. ASSUME NEW f \in Flow,
               RepStep(f) \/ FlushStep(f) \/ FlowStep(f) \/ Stop(f) \/ StorageFails(f)
        PROVE  HeardIsAccepted(f)'
    <2>0. TypeOK /\ FlowsOK
      BY DEF FieldInv, Inv, DeviceOK
    <2>1. CASE SendConfirm(f)
      <3>1. PICK t \in Token : t = flow[f].token
        BY <2>1, FlowFacts DEF SendConfirm, FlowKnows, ConfirmPc
      <3>2. PICK r \in Req :
               /\ ConfirmBegin(r, flow[f].key, t)
               /\ flow' = [flow EXCEPT ![f].pc = "confirming", ![f].slot = r]
        BY <2>1, <3>1 DEF SendConfirm
      <3>3. /\ flow'[f].pc = "confirming" /\ flow'[f].slot = r
            /\ flow'[f].token = t
        BY <2>0, <3>1, <3>2 DEF FlowsOK, FlowType
      <3>4. req'[r].pc = "sent" => ReportsWith(t) # {}
        <4>1. CASE ReportsWith(t) = {}
          <5>1. PICK pc \in {"confirm", "queue", "rejected"} : \E v, i :
                   req' = [req EXCEPT ![r] = [Idle EXCEPT
                              !.pc = pc, !.vid = v, !.token = t, !.item = i]]
            BY <3>2, <4>1 DEF ConfirmBegin
          <5>2. req'[r].pc = pc
            BY <2>0, <5>1 DEF Idle, TypeOK
          <5>3. QED
            BY <5>1, <5>2
        <4>2. QED
          BY <4>1
      <3>5. ReportsWith(t) # {} => t \in accepted
        BY DEF ReportsWith, SentIsAccepted, WrittenIsAccepted
      <3>6. QED
        BY <1>1, <3>3, <3>4, <3>5 DEF HeardIsAccepted, Outcome
    <2>2. CASE HearConfirm(f)
      <3>1. flow[f].pc = "confirming" /\ flow[f] \in FlowType
        BY <2>2, FlowFacts DEF HearConfirm
      <3>2. CASE Outcome(f) = "queue"
        BY <2>0, <2>2, <3>2, NoFlowType DEF HearConfirm, FlowsOK, HeardIsAccepted, NoFlow
      <3>3. CASE Outcome(f) = "sent"
        <4>1. flow[f].token \in accepted
          BY <3>1, <3>3 DEF SentIsAccepted, HeardIsAccepted
        <4>2. flow'[f].token = flow[f].token /\ flow'[f].pc = "forgetConfirm"
          BY <2>0, <2>2, <3>1, <3>3 DEF HearConfirm, FlowsOK, FlowType
        <4>3. QED
          BY <1>1, <4>1, <4>2 DEF HeardIsAccepted
      <3>4. CASE Outcome(f) = "rejected"
        <4>1. CASE flow[f].eager
          <5>1. flow[f].token \in told'
            BY <2>2, <3>4, <4>1 DEF HearConfirm
          <5>2. flow'[f].token = flow[f].token /\ flow'[f].pc = "forgetConfirm"
            BY <2>0, <2>2, <3>1, <3>4, <4>1 DEF HearConfirm, FlowsOK, FlowType
          <5>3. QED
            BY <5>1, <5>2 DEF HeardIsAccepted
        <4>2. CASE ~flow[f].eager
          <5>1. flow'[f].pc = "refuseEntry"
            BY <2>0, <2>2, <3>1, <3>4, <4>2 DEF HearConfirm, FlowsOK, FlowType
          <5>2. QED
            BY <5>1 DEF HeardIsAccepted
        <4>3. QED
          BY <4>1, <4>2
      <3>5. QED
        BY <2>2, <3>2, <3>3, <3>4 DEF HearConfirm, Heard, Answered, Outcome
    <2>3. CASE ~SendConfirm(f) /\ ~HearConfirm(f)
      <3>1. flow'[f].pc \notin {"confirming", "forgetConfirm"}
        <4>1. CASE HearCreate(f)
          BY <2>0, <4>1, NoFlowType
          DEF HearCreate, FlowsOK, FlowType, Heard, Answered, Outcome, NoFlow
        <4>2. CASE SendCreate(f)
          BY <2>0, <4>2 DEF SendCreate, FlowsOK, FlowType
        <4>3. CASE RepStep(f) \/ FlushStep(f)
          <5>1. ASSUME NEW c \in CId,
                       \/ TapStart(f, c) \/ Abandon(f, c)
                       \/ \E b \in BOOLEAN : PickStart(f, c, b)
                PROVE  flow'[f].pc \in {"create", "dropStart", "rekey"}
            BY <2>0, <5>1 DEF TapStart, Abandon, PickStart, FlowsOK, NoFlow
          <5>2. ASSUME NEW t \in Token, PressSave(f, t)
                PROVE  flow'[f].pc = "confirm"
            BY <2>0, <5>2 DEF PressSave, FlowsOK, NoFlow
          <5>3. ASSUME NEW k \in Key, NEW b \in BOOLEAN, PickConfirm(f, k, b)
                PROVE  flow'[f].pc = "confirm"
            BY <2>0, <5>3 DEF PickConfirm, FlowsOK, NoFlow
          <5>4. QED
            BY <4>3, <5>1, <5>2, <5>3 DEF RepStep, FlushStep
        <4>4. QED
          BY <1>4, <2>0, <2>3, <4>1, <4>2, <4>3, NoFlowType
          DEF FlowStep, Stop, StorageFails, RecordRemote, Rekey, MarkResolved,
              RefuseConfirm, RefuseStart, ForgetStart, ForgetConfirm, RefuseEntry,
              DropStart, DropConfirm, Goto, Finish, FlowsOK, FlowType
      <3>2. QED
        BY <3>1 DEF HeardIsAccepted
    <2>4. QED
      BY <2>1, <2>2, <2>3
  <1>5. ASSUME NEW r \in Req, ServerStep(r)
        PROVE  SentIsAccepted'
    BY <1>1, <1>5, ServersSend DEF SentIsAccepted
  <1>6. ASSUME \/ \E r \in Req : ReleaseUnheard(r)
               \/ OthersStep
               \/ UNCHANGED syncVars,
               NEW g \in Flow
        PROVE  HeardIsAccepted(g)'
    <2>0. TypeOK
      BY DEF FieldInv, Inv
    <2>1. flow' = flow
      BY <1>6 DEF ReleaseUnheard, OthersStep, syncVars, deviceVars
    <2>2. ASSUME flow[g].slot # None
          PROVE  req'[flow[g].slot] = req[flow[g].slot]
      <3>1. PICK q \in Req : q = flow[g].slot
        BY <2>2, FlowFacts DEF FlowType
      <3>2. req[q].pc # "idle"
        BY <2>2, <3>1, FlowFacts DEF FlowKnows, FlowWaits, Creating, Confirming
      <3>3. CASE \E r \in Req : ReleaseUnheard(r)
        BY <2>0, <3>1, <3>3 DEF ReleaseUnheard, Release, TypeOK
      <3>4. CASE ManagerStep
        BY <2>0, <3>1, <3>2, <3>4
        DEF ManagerStep, CancelBegin, UpdateBegin, RemoveBegin, EditItem, TypeOK
      <3>5. CASE Environment
        BY <3>1, <3>5 DEF Environment, Invalidate, WindowCloses
      <3>6. CASE \E r \in Req, c \in CId \ Mine : CreateBegin(r, c)
        BY <2>0, <3>1, <3>2, <3>6 DEF CreateBegin, TypeOK
      <3>7. CASE UNCHANGED syncVars
        BY <3>7 DEF syncVars, serverVars, vars
      <3>8. QED
        BY <1>6, <3>3, <3>4, <3>5, <3>6, <3>7 DEF OthersStep
    <2>3. QED
      BY <1>2, <2>1, <2>2
  <1>7. QED
    BY <1>1, <1>3, <1>4, <1>5, <1>6 DEF FieldNext, SentIsAccepted

\* Confirms of reports for different stops are never filed under one id.
LEMMA KeysApart ==
    ASSUME FieldInv, OneStopPerVisit, Separate,
           NEW t \in Token, NEW u \in Token, NEW k,
           k \in KeysOf(TokenFor[t]), k \in KeysOf(TokenFor[u])
    PROVE  t = u
  <1> DEFINE c == TokenFor[t]
             d == TokenFor[u]
  <1>0. TypeOK /\ c \in CId /\ d \in CId
    BY ConstantFunctionsAssumption DEF FieldInv, Inv
  <1>1. SameStop(c, d)
    <2>1. CASE k \in CId
      <3>1. k \notin answers[c] /\ k \notin answers[d]
        BY <1>0, <2>1, NoneAssumption DEF TypeOK
      <3>2. QED
        BY <3>1 DEF KeysOf, SameStop
    <2>2. CASE k \notin CId
      <3>1. k \in answers[c] /\ k \in answers[d] /\ k \in Vid
        BY <1>0, <2>2 DEF KeysOf, TypeOK
      <3>2. SameStop(c, clientVisitId[k]) /\ SameStop(d, clientVisitId[k])
        BY <1>0, <3>1 DEF OneStopPerVisit, AnswersOfStop
      <3>3. QED
        BY <3>2, SameStopTies
    <2>3. QED
      BY <2>1, <2>2
  <1>2. QED
    BY <1>1 DEF Separate

\* A confirm that leaves the outbox was written, told or moved.
LEMMA ConfirmsMove ==
    ASSUME FieldInv, LatestConfirmKept, accepted \subseteq accepted', told \subseteq told',
           latest' = latest, outbox' \in [Key -> Token \cup {None}],
           \A k \in Key : outbox[k] # None =>
               outbox[k] \in accepted' \cup told' \cup {outbox'[j] : j \in Key}
    PROVE  LatestConfirmKept'
  <1> SUFFICES ASSUME NEW c \in CId, latest[c] # None
               PROVE  latest[c] \in accepted' \cup told' \cup {outbox'[k] : k \in Key}
    BY DEF LatestConfirmKept
  <1>1. CASE latest[c] \in accepted \cup told
    BY <1>1
  <1>2. CASE \E k \in Key : latest[c] = outbox[k]
    <2>1. PICK k \in Key : latest[c] = outbox[k]
      BY <1>2
    <2>2. outbox[k] # None
      BY <2>1
    <2>3. outbox[k] \in accepted' \cup told' \cup {outbox'[j] : j \in Key}
      BY <2>2
    <2>4. QED
      BY <2>1, <2>3
  <1>3. QED
    BY <1>1, <1>2 DEF LatestConfirmKept


\* The last confirm of every start is kept by every step.
LEMMA LatestStep ==
    ASSUME KeptInv, Separate, [FieldNext]_syncVars
    PROVE  LatestConfirmKept'
  <1> USE DEF serverVars, deviceVars, outboxVars, historyVars
  <1>0. /\ FieldInv /\ OneStopPerVisit /\ SentIsAccepted /\ LatestConfirmKept
        /\ OutboxesOK /\ HistoryOK /\ FlowsOK /\ Addressed
    BY DEF KeptInv, FieldInv, DeviceOK
  <1>1. /\ accepted \subseteq accepted' /\ told \subseteq told'
        /\ outbox' \in [Key -> Token \cup {None}]
        /\ latest' \in [CId -> Token \cup {None}]
    BY <1>0, AcceptedGrows, FieldStep
    DEF FieldInv, DeviceOK, OutboxesOK, HistoryOK, SentIsAccepted
  <1>2. CASE UNCHANGED <<outbox, latest>>
    BY <1>1, <1>2, <1>0 DEF LatestConfirmKept
  <1>3. ASSUME NEW f \in Flow, NEW t \in Token, PressSave(f, t)
        PROVE  LatestConfirmKept'
    <2>0. TokenFor[t] \in CId
      BY ConstantFunctionsAssumption
    <2>1. PICK k \in FormKeys(TokenFor[t]) : outbox' = [outbox EXCEPT ![k] = t]
      BY <1>3 DEF PressSave
    <2>2. k \in Key /\ k \in KeysOf(TokenFor[t])
      BY <1>0, <2>0, <2>1, KeysAreIds DEF FormKeys, KeysOf, FieldInv, Inv
    <2>3. outbox'[k] = t /\ \A j \in Key \ {k} : outbox'[j] = outbox[j]
      BY <1>0, <2>1, <2>2 DEF OutboxesOK
    <2>4. outbox[k] # None => outbox[k] = t
      <3> SUFFICES ASSUME outbox[k] # None
                   PROVE  outbox[k] = t
        OBVIOUS
      <3>1. outbox[k] \in Token /\ k \in KeysOf(TokenFor[outbox[k]])
        BY <1>0, <2>2 DEF OutboxesOK, Addressed
      <3>2. QED
        BY <1>0, <2>2, <3>1, KeysApart
    <2>5. ASSUME NEW c \in CId, latest'[c] # None
          PROVE  latest'[c] \in accepted' \cup told' \cup {outbox'[j] : j \in Key}
      <3>1. latest' = [latest EXCEPT ![TokenFor[t]] = t]
        BY <1>3 DEF PressSave
      <3>2. CASE c = TokenFor[t]
        BY <1>0, <2>2, <2>3, <3>1, <3>2 DEF HistoryOK
      <3>3. CASE c # TokenFor[t]
        <4>1. latest'[c] = latest[c]
          BY <1>0, <3>1, <3>3 DEF HistoryOK
        <4>2. CASE latest[c] \in accepted \cup told
          BY <1>1, <4>1, <4>2
        <4>3. CASE \E j \in Key : latest[c] = outbox[j]
          <5>1. PICK j \in Key : latest[c] = outbox[j]
            BY <4>3
          <5>2. outbox'[j] = latest[c]
            BY <2>3, <2>4, <2>5, <4>1, <5>1
          <5>3. QED
            BY <4>1, <5>2
        <4>4. QED
          BY <1>0, <2>5, <4>1, <4>2, <4>3 DEF LatestConfirmKept
      <3>4. QED
        BY <3>2, <3>3
    <2>6. QED
      BY <2>5 DEF LatestConfirmKept
  <1>4. ASSUME NEW f \in Flow, ForgetConfirm(f)
        PROVE  LatestConfirmKept'
    <2>1. PICK t \in Token, k \in Key :
             t = flow[f].token /\ k = flow[f].key /\ k \in KeysOf(TokenFor[t])
      <3>1. flow[f].token \in Token /\ flow[f].key \in KeysOf(TokenFor[flow[f].token])
        BY <1>0, <1>4, FlowFacts DEF ForgetConfirm, FlowKnows, ConfirmPc
      <3>2. flow[f].key \in Key
        BY <1>0, <3>1, KeysAreIds, ConstantFunctionsAssumption DEF FieldInv, Inv
      <3>3. QED
        BY <3>1, <3>2
    <2>2. outbox' = [outbox EXCEPT ![k] = None] /\ latest' = latest
      BY <1>4, <2>1 DEF ForgetConfirm
    <2>3. t \in accepted \cup told
      BY <1>0, <1>4, <2>1 DEF ForgetConfirm, SentIsAccepted, HeardIsAccepted
    <2>4. outbox[k] # None => outbox[k] = t
      <3> SUFFICES ASSUME outbox[k] # None
                   PROVE  outbox[k] = t
        OBVIOUS
      <3>1. outbox[k] \in Token /\ k \in KeysOf(TokenFor[outbox[k]])
        BY <1>0 DEF OutboxesOK, Addressed
      <3>2. QED
        BY <1>0, <2>1, <3>1, KeysApart
    <2>5. ASSUME NEW j \in Key, outbox[j] # None
          PROVE  outbox[j] \in accepted' \cup told' \cup {outbox'[i] : i \in Key}
      <3>1. CASE j = k
        BY <1>1, <2>3, <2>4, <2>5, <3>1
      <3>2. CASE j # k
        BY <1>0, <2>2, <3>2 DEF OutboxesOK
      <3>3. QED
        BY <3>1, <3>2
    <2>6. QED
      BY <1>0, <1>1, <2>2, <2>5, ConfirmsMove
  <1>5. ASSUME NEW f \in Flow, DropConfirm(f)
        PROVE  LatestConfirmKept'
    <2>1. PICK c \in Key : c = flow[f].cid
      BY <1>0, <1>5, FlowFacts DEF DropConfirm, FlowKnows, StartPc, Key
    <2>2. /\ outbox' = [outbox EXCEPT ![c] = None] /\ latest' = latest
          /\ told' = told \cup ({outbox[c]} \cap Token)
      BY <1>5, <2>1 DEF DropConfirm
    <2>3. ASSUME NEW j \in Key, outbox[j] # None
          PROVE  outbox[j] \in accepted' \cup told' \cup {outbox'[i] : i \in Key}
      <3>1. CASE j = c
        BY <1>0, <2>2, <2>3, <3>1 DEF OutboxesOK
      <3>2. CASE j # c
        BY <1>0, <2>2, <3>2 DEF OutboxesOK
      <3>3. QED
        BY <3>1, <3>2
    <2>4. QED
      BY <1>0, <1>1, <2>2, <2>3, ConfirmsMove
  <1>6. ASSUME NEW f \in Flow, Rekey(f)
        PROVE  LatestConfirmKept'
    <2>1. PICK c \in CId, v \in Vid :
             c = flow[f].cid /\ v = flow[f].vid /\ v \in answers[c]
      <3>1. flow[f].cid \in CId /\ flow[f].vid \in answers[flow[f].cid]
        BY <1>0, <1>6, FlowFacts DEF Rekey, FlowKnows, StartPc
      <3>2. flow[f].vid \in Vid
        BY <1>0, <3>1, KeysAreIds DEF FieldInv, Inv
      <3>3. QED
        BY <3>1, <3>2
    <2>2. c \in Key /\ v \in Key /\ c # v
      BY NoneAssumption DEF Key
    <2>3. CASE outbox[c] = None
      BY <1>2, <1>6, <2>1, <2>3 DEF Rekey
    <2>4. CASE outbox[c] # None
      <3>1. outbox' = [outbox EXCEPT ![v] = outbox[c], ![c] = None] /\ latest' = latest
        BY <1>6, <2>1, <2>4 DEF Rekey
      <3>2. /\ outbox'[v] = outbox[c]
            /\ \A j \in Key \ {c, v} : outbox'[j] = outbox[j]
        BY <1>0, <2>2, <3>1 DEF OutboxesOK
      <3>3. outbox[v] # None => outbox[v] = outbox[c]
        <4> SUFFICES ASSUME outbox[v] # None
                     PROVE  outbox[v] = outbox[c]
          OBVIOUS
        <4>1. /\ outbox[c] \in Token /\ c \in KeysOf(TokenFor[outbox[c]])
              /\ outbox[v] \in Token /\ v \in KeysOf(TokenFor[outbox[v]])
          BY <1>0, <2>2, <2>4 DEF OutboxesOK, Addressed
        <4>2. c = TokenFor[outbox[c]]
          <5>1. \A d \in CId : c \notin answers[d]
            BY <1>0, NoneAssumption DEF FieldInv, Inv, TypeOK
          <5>2. QED
            BY <4>1, <5>1, ConstantFunctionsAssumption DEF KeysOf
        <4>3. v \in KeysOf(TokenFor[outbox[c]])
          BY <2>1, <4>2 DEF KeysOf
        <4>4. QED
          BY <1>0, <4>1, <4>3, KeysApart
      <3>4. ASSUME NEW j \in Key, outbox[j] # None
            PROVE  outbox[j] \in {outbox'[i] : i \in Key}
        <4>1. CASE j \in {c, v}
          BY <2>2, <3>2, <3>3, <3>4, <4>1
        <4>2. CASE j \notin {c, v}
          BY <3>2, <4>2
        <4>3. QED
          BY <4>1, <4>2
      <3>5. QED
        BY <1>0, <1>1, <3>1, <3>4, ConfirmsMove
    <2>5. QED
      BY <2>3, <2>4
  <1>7. CASE UNCHANGED syncVars
    BY <1>2, <1>7 DEF syncVars
  <1>8. QED
    BY <1>2, <1>3, <1>4, <1>5, <1>6, <1>7
    DEF FieldNext, RepStep, FlushStep, FlowStep, Stop, StorageFails, SendCreate,
        HearCreate, RecordRemote, MarkResolved, RefuseConfirm, RefuseStart,
        ForgetStart, SendConfirm, HearConfirm, RefuseEntry, DropStart, TapStart,
        Abandon, PickStart, PickConfirm, ServerStep, ReleaseUnheard, OthersStep

LEMMA KeptInit == FieldInit => KeptInv
  <1> SUFFICES ASSUME FieldInit
               PROVE  KeptInv
    OBVIOUS
  <1>1. FieldInv
    BY FieldInitInv
  <1>2. OneStopPerVisit
    BY NoneAssumption DEF FieldInit, Init, Idle, Exists, OneStopPerVisit, RowOfStop, HandlerOfStop,
           AnswersOfStop
  <1>3. SentIsAccepted
    <2>1. WrittenIsAccepted
      BY NoReportAssumption DEF FieldInit, Init, WrittenIsAccepted
    <2>2. \A f \in Flow : HeardIsAccepted(f)
      BY DEF FieldInit, NoFlow, HeardIsAccepted
    <2>3. QED
      BY <2>1, <2>2 DEF SentIsAccepted
  <1>4. LatestConfirmKept
    BY DEF FieldInit, LatestConfirmKept
  <1>5. QED
    BY <1>1, <1>2, <1>3, <1>4 DEF KeptInv

\* The last report the rep signed off for a stop is never lost, whatever stops,
\* is killed, missed by storage, answered late or sent twice: it waits in the
\* outbox, or it was written, or the rep was told or threw it away
\* (report-outbox.ts:12).  With a second confirm for the same stop it can be
\* lost; that is the case Separate leaves out.
THEOREM LatestConfirmAlwaysKept ==
    ASSUME Separate
    PROVE  FieldSpec => []LatestConfirmKept
  <1>1. KeptInv /\ [FieldNext]_syncVars => KeptInv'
    <2> SUFFICES ASSUME KeptInv, [FieldNext]_syncVars
                 PROVE  KeptInv'
      OBVIOUS
    <2>1. FieldInv'
      BY FieldStep DEF KeptInv
    <2>2. OneStopPerVisit'
      BY FieldServes, StopsStep DEF KeptInv, FieldInv
    <2>3. SentIsAccepted'
      BY SentStep DEF KeptInv
    <2>4. LatestConfirmKept'
      BY LatestStep
    <2>5. QED
      BY <2>1, <2>2, <2>3, <2>4 DEF KeptInv
  <1>2. KeptInv => LatestConfirmKept
    BY DEF KeptInv
  <1>3. QED
    BY <1>1, <1>2, KeptInit, PTL DEF FieldSpec
=============================================================================
