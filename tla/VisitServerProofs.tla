------------------------- MODULE VisitServerProofs -------------------------
(***************************************************************************)
(* Proofs about VisitServer, for any number of starts, visits, stops,      *)
(* tokens and overlapping handlers.                                        *)
(***************************************************************************)
EXTENDS VisitServer, TLAPS

\* What a handler between two round trips still knows of the row it read.
HandlerKnows(r) ==
    /\ req[r].pc \in {"lookup", "slot", "adopt", "insert"} => req[r].cid \in CId
    /\ req[r].pc \in {"adopt", "confirm", "cancel", "update"}
          => req[r].vid \in Vid /\ Exists(req[r].vid)
    /\ req[r].pc \in {"confirm", "cancel", "update"} => req[r].cid = None
    /\ req[r].pc = "confirm" => routeItemId[req[r].vid] \in {None, req[r].item}
    /\ req[r].pc = "update" => req[r].to \in {"open", "completed"}
    /\ req[r].pc = "remove" => req[r].item \in Item

HandlersKnow == \A r \in Req : HandlerKnows(r)

\* An alias names a row that is there.
AliasesExist == \A c \in CId : alias[c] # None => Exists(alias[c])

\* The inductive invariant: an answered start resolves because its row is there
\* for good, and that needs what the handlers in progress are about to write.
Inv == TypeOK /\ HandlersKnow /\ AliasesExist /\ AnsweredStartResolves

\* Rows stay, keep their client id and at most lose their stop; aliases stay.
Persists ==
    /\ \A v \in Vid : Exists(v) =>
          /\ Exists(v)'
          /\ clientVisitId'[v] = clientVisitId[v]
          /\ routeItemId'[v] \in {None, routeItemId[v]}
    /\ \A c \in CId : alias[c] # None => alias'[c] = alias[c]
-----------------------------------------------------------------------------
(* Lemmas about the rows.                                                  *)

\* A client id resolves to a visit exactly when a column or an alias holds it.
LEMMA ResolveFound ==
    ASSUME TypeOK, NEW c \in CId
    PROVE  /\ Resolve(c) \in Vid \cup {None}
           /\ ColumnVisits(c) # {} => Resolve(c) \in ColumnVisits(c)
           /\ Resolve(c) # None <=> ColumnVisits(c) # {} \/ alias[c] # None
  <1>1. ColumnVisits(c) \subseteq Vid
    BY DEF ColumnVisits
  <1>2. alias[c] \in Vid \cup {None}
    BY DEF TypeOK
  <1>3. CASE ColumnVisits(c) # {}
    <2>1. Resolve(c) \in ColumnVisits(c)
      BY <1>1, <1>3 DEF Resolve
    <2>2. QED
      BY <1>1, <1>3, <2>1, NoneAssumption
  <1>4. CASE ColumnVisits(c) = {}
    BY <1>2, <1>4 DEF Resolve
  <1>5. QED
    BY <1>3, <1>4

\* Any id a URL can carry resolves to a row's id or to nothing.
LEMMA ResolveKeyFound ==
    ASSUME TypeOK, NEW k \in Key
    PROVE  /\ ResolveKey(k) \in Vid \cup {None}
  <1>1. CASE k \in Vid
    BY <1>1 DEF ResolveKey
  <1>2. CASE k \notin Vid
    <2>1. k \in CId
      BY <1>2 DEF Key
    <2>2. Resolve(k) \in Vid \cup {None}
      BY <2>1, ResolveFound
    <2>3. QED
      BY <1>2, <2>2 DEF ResolveKey
  <1>3. QED
    BY <1>1, <1>2


\* ... and the row it resolves to is there.
LEMMA ResolvedExists ==
    ASSUME TypeOK, AliasesExist, NEW k \in Key, ResolveKey(k) # None
    PROVE  Exists(ResolveKey(k))
  <1>1. CASE k \in Vid
    BY <1>1 DEF ResolveKey
  <1>2. CASE k \notin Vid
    <2>1. k \in CId /\ ResolveKey(k) = Resolve(k)
      BY <1>2 DEF Key, ResolveKey
    <2>2. CASE ColumnVisits(k) # {}
      BY <2>1, <2>2, ResolveFound DEF ColumnVisits
    <2>3. CASE ColumnVisits(k) = {}
      BY <2>1, <2>3 DEF Resolve, AliasesExist
    <2>4. QED
      BY <2>2, <2>3
  <1>3. QED
    BY <1>1, <1>2
-----------------------------------------------------------------------------
(* Every step keeps the rows.                                              *)

\* A step that writes no row, whatever it does to requests and answers.
LEMMA UnchangedPersists ==
    ASSUME TypeOK,
           UNCHANGED <<visitStatus, routeItemId, clientVisitId, alias>>
    PROVE  Persists
  BY DEF Persists, Exists, TypeOK

\* Rows never disappear and client ids, once written, stay: every step of Next
\* persists what the handlers rely on.
LEMMA StepPersists ==
    ASSUME TypeOK, HandlersKnow, [Next]_vars
    PROVE  Persists
  <1> USE UnchangedPersists
  <1>1. CASE UNCHANGED vars
    BY <1>1 DEF vars, rowVars
  <1>2. ASSUME NEW r \in Req, NEW c \in CId, CreateBegin(r, c)
        PROVE  Persists
    BY <1>2 DEF CreateBegin, rowVars
  <1>3. ASSUME NEW r \in Req, NEW t \in Token, NEW k, ConfirmBegin(r, k, t)
        PROVE  Persists
    BY <1>3 DEF ConfirmBegin, rowVars
  <1>4. ASSUME NEW r \in Req, CreateLookup(r) \/ CreateSlot(r)
        PROVE  Persists
    BY <1>4 DEF CreateLookup, CreateSlot, rowVars
  <1>5. ASSUME NEW r \in Req, CreateAdopt(r)
        PROVE  Persists
    BY <1>5 DEF CreateAdopt, Persists, Exists, TypeOK
  <1>6. ASSUME NEW r \in Req, CreateInsert(r)
        PROVE  Persists
    <2>1. PICK v \in Vid :
              /\ ~Exists(v)
              /\ visitStatus' = [visitStatus EXCEPT ![v] = "open"]
              /\ routeItemId' = [routeItemId EXCEPT ![v] = req[r].item]
              /\ clientVisitId' = [clientVisitId EXCEPT ![v] = req[r].cid]
      BY <1>6 DEF CreateInsert
    <2>2. UNCHANGED alias
      BY <1>6 DEF CreateInsert
    <2>3. QED
      BY <2>1, <2>2 DEF Persists, Exists, TypeOK
  <1>7. ASSUME NEW r \in Req,
               CreateInsertConflict(r) \/ ConfirmTxFails(r) \/ ConfirmRaced(r)
        PROVE  Persists
    BY <1>7 DEF CreateInsertConflict, ConfirmTxFails, ConfirmRaced, rowVars
  <1>8. ASSUME NEW r \in Req, ConfirmTx(r) \/ CancelTx(r)
        PROVE  Persists
    <2>1. \E s \in {"completed", "cancelled"} :
              visitStatus' = [visitStatus EXCEPT ![req[r].vid] = s]
      BY <1>8 DEF ConfirmTx, CancelTx
    <2>2. UNCHANGED <<routeItemId, clientVisitId, alias>>
      BY <1>8 DEF ConfirmTx, CancelTx
    <2>3. QED
      BY <2>1, <2>2 DEF Persists, Exists, TypeOK
  <1>9. ASSUME NEW r \in Req, UpdateTx(r)
        PROVE  Persists
    <2>1. req[r].to \in {"open", "completed"}
      BY <1>9 DEF UpdateTx, HandlersKnow, HandlerKnows
    <2>2. visitStatus' = [visitStatus EXCEPT ![req[r].vid] = req[r].to]
      BY <1>9 DEF UpdateTx
    <2>3. UNCHANGED <<routeItemId, clientVisitId, alias>>
      BY <1>9 DEF UpdateTx
    <2>4. QED
      BY <2>1, <2>2, <2>3 DEF Persists, Exists, TypeOK
  <1>10. ASSUME NEW r \in Req, RemoveTx(r)
         PROVE  Persists
    BY <1>10 DEF RemoveTx, Persists, Exists, TypeOK
  <1>11. ASSUME NEW r \in Req, HandlerFails(r) \/ Release(r)
         PROVE  Persists
    BY <1>11 DEF HandlerFails, Release, rowVars
  <1>12. CASE ManagerStep
    BY <1>12 DEF ManagerStep, CancelBegin, UpdateBegin, RemoveBegin, EditItem,
                 rowVars
  <1>13. CASE Environment
    BY <1>13 DEF Environment, Invalidate, WindowCloses, rowVars
  <1>14. QED
    BY <1>1, <1>2, <1>3, <1>4, <1>5, <1>6, <1>7, <1>8, <1>9, <1>10, <1>11,
       <1>12, <1>13
    DEF Next, HandlerStep
-----------------------------------------------------------------------------
(* Types.                                                                  *)

\* The shape of a request slot.
ReqType == [pc : HandlerPc, cid : CId \cup {None}, vid : Vid \cup {None},
            item : Item \cup {None}, token : Token \cup {None}, to : VisitStatus]

\* A free slot is a request.
LEMMA IdleType == Idle \in ReqType
  BY DEF Idle, ReqType, HandlerPc, VisitStatus

\* Rewriting one slot's pc and visit, as an answer does, keeps it a request.
LEMMA AnswerType ==
    ASSUME TypeOK, NEW r \in Req, NEW pc \in HandlerPc, NEW v \in Vid \cup {None}
    PROVE  [req EXCEPT ![r].pc = pc, ![r].vid = v] \in [Req -> ReqType]
  <1>1. req \in [Req -> ReqType]
    BY DEF TypeOK, ReqType
  <1>2. [req[r] EXCEPT !.pc = pc, !.vid = v] \in ReqType
    BY <1>1 DEF ReqType
  <1>3. QED
    BY <1>1, <1>2

\* A slot rewritten from Idle, as every Begin action does, is a request.
LEMMA SlotType ==
    ASSUME TypeOK, NEW r \in Req, NEW s \in ReqType
    PROVE  [req EXCEPT ![r] = s] \in [Req -> ReqType]
  BY DEF TypeOK, ReqType

\* Moving one slot to its next round trip keeps it a request.
LEMMA PcType ==
    ASSUME TypeOK, NEW r \in Req, NEW pc \in HandlerPc
    PROVE  [req EXCEPT ![r].pc = pc] \in [Req -> ReqType]
  <1>1. req \in [Req -> ReqType]
    BY DEF TypeOK, ReqType
  <1>2. [req[r] EXCEPT !.pc = pc] \in ReqType
    BY <1>1 DEF ReqType
  <1>3. QED
    BY <1>1, <1>2

\* An answer keeps the types; only a visit is ever given as the answer to a
\* start.
LEMMA AnswerTypes ==
    ASSUME TypeOK, NEW r \in Req, NEW v \in Vid \cup {None},
           NEW outcome \in {"sent", "queue", "rejected"},
           outcome = "sent" /\ req[r].cid # None => v \in Vid,
           Answer(r, outcome, v)
    PROVE  /\ req' \in [Req -> ReqType]
           /\ answers' \in [CId -> SUBSET Vid]
  <1>1. outcome \in HandlerPc
    BY DEF HandlerPc
  <1>2. req' \in [Req -> ReqType]
    BY <1>1, AnswerType DEF Answer
  <1>3. answers' \in [CId -> SUBSET Vid]
    BY DEF Answer, TypeOK
  <1>4. QED
    BY <1>2, <1>3

\* Every round trip of every handler keeps the columns, the requests and the
\* answers in their types.
LEMMA StepTypes ==
    ASSUME TypeOK, HandlersKnow, [Next]_vars
    PROVE  TypeOK'
  <1> USE DEF rowVars, envVars
  <1>0. req \in [Req -> ReqType]
    BY DEF TypeOK, ReqType
  <1>1. CASE UNCHANGED vars
    BY <1>0, <1>1 DEF vars, TypeOK
  <1>2. ASSUME NEW r \in Req, NEW c \in CId, CreateBegin(r, c)
        PROVE  TypeOK'
    <2>1. [Idle EXCEPT !.pc = IF StartValid(c) THEN "lookup" ELSE "rejected",
                       !.cid = c] \in ReqType
      BY IdleType DEF ReqType, HandlerPc
    <2>2. req' \in [Req -> ReqType]
      BY <1>2, <2>1, SlotType DEF CreateBegin
    <2>3. QED
      BY <1>2, <2>2 DEF CreateBegin, TypeOK, ReqType
  <1>3. ASSUME NEW r \in Req, NEW t \in Token,
               NEW k \in {TokenFor[t]} \cup answers[TokenFor[t]],
               ConfirmBegin(r, k, t)
        PROVE  TypeOK'
    <2>1. k \in Key
      BY ConstantFunctionsAssumption DEF Key, TypeOK
    <2>2. ResolveKey(k) \in Vid \cup {None}
      BY <2>1, ResolveKeyFound
    <2>3. (IF ResolveKey(k) = None THEN None ELSE routeItemId[ResolveKey(k)])
             \in Item \cup {None}
      BY <2>2 DEF TypeOK
    <2>4. PICK pc \in HandlerPc :
             req' = [req EXCEPT ![r] = [Idle EXCEPT
                        !.pc = pc, !.vid = ResolveKey(k), !.token = t,
                        !.item = IF ResolveKey(k) = None THEN None
                                 ELSE routeItemId[ResolveKey(k)]]]
      BY <1>3 DEF ConfirmBegin, HandlerPc
    <2>5. [Idle EXCEPT !.pc = pc, !.vid = ResolveKey(k), !.token = t,
                       !.item = IF ResolveKey(k) = None THEN None
                                ELSE routeItemId[ResolveKey(k)]] \in ReqType
      BY <2>2, <2>3, IdleType DEF ReqType
    <2>6. req' \in [Req -> ReqType]
      BY <2>4, <2>5, SlotType
    <2>7. QED
      BY <1>3, <2>6 DEF ConfirmBegin, TypeOK, ReqType
  <1>4. ASSUME NEW r \in Req, CreateLookup(r)
        PROVE  TypeOK'
    <2>1. req[r].cid \in CId
      BY <1>4 DEF CreateLookup, HandlersKnow, HandlerKnows
    <2>2. CASE Answer(r, "sent", Resolve(req[r].cid)) /\ Resolve(req[r].cid) # None
      <3>1. Resolve(req[r].cid) \in Vid
        BY <2>1, <2>2, ResolveFound
      <3>2. req' \in [Req -> ReqType] /\ answers' \in [CId -> SUBSET Vid]
        BY <2>2, <3>1, AnswerTypes
      <3>3. QED
        BY <1>4, <3>2 DEF CreateLookup, TypeOK, ReqType
    <2>3. CASE \E pc \in {"insert", "slot"} : Continue(r, pc)
      <3>1. PICK pc \in {"insert", "slot"} : Continue(r, pc)
        BY <2>3
      <3>2. pc \in HandlerPc
        BY DEF HandlerPc
      <3>3. req' \in [Req -> ReqType]
        BY <3>1, <3>2, PcType DEF Continue
      <3>4. QED
        BY <1>4, <3>1, <3>3 DEF CreateLookup, Continue, TypeOK, ReqType
    <2>4. QED
      BY <1>4, <2>2, <2>3 DEF CreateLookup
  <1>5. ASSUME NEW r \in Req, CreateSlot(r)
        PROVE  TypeOK'
    <2>1. StartItem[req[r].cid] \in Item \cup {None}
      BY <1>5, ConstantFunctionsAssumption
      DEF CreateSlot, HandlersKnow, HandlerKnows
    <2>2. "insert" \in HandlerPc /\ "adopt" \in HandlerPc
      BY DEF HandlerPc
    <2>3. CASE req' = [req EXCEPT ![r].pc = "insert",
                                  ![r].item = StartItem[req[r].cid]]
      <3>1. [req[r] EXCEPT !.pc = "insert", !.item = StartItem[req[r].cid]]
               \in ReqType
        BY <1>0, <2>1, <2>2 DEF ReqType
      <3>2. req' \in [Req -> ReqType]
        BY <1>0, <2>3, <3>1
      <3>3. QED
        BY <1>5, <3>2 DEF CreateSlot, TypeOK, ReqType
    <2>4. CASE req' = [req EXCEPT ![r].pc = "insert"]
      <3>1. req' \in [Req -> ReqType]
        BY <2>2, <2>4, PcType
      <3>2. QED
        BY <1>5, <3>1 DEF CreateSlot, TypeOK, ReqType
    <2>5. ASSUME NEW v \in Vid, req' = [req EXCEPT ![r].pc = "adopt", ![r].vid = v]
          PROVE  TypeOK'
      <3>1. req' \in [Req -> ReqType]
        BY <2>2, <2>5, AnswerType
      <3>2. QED
        BY <1>5, <3>1 DEF CreateSlot, TypeOK, ReqType
    <2>6. QED
      BY <1>5, <2>3, <2>4, <2>5 DEF CreateSlot, SlotVisits
  <1>6. ASSUME NEW r \in Req, CreateAdopt(r)
        PROVE  TypeOK'
    <2>1. req[r].vid \in Vid
      BY <1>6 DEF CreateAdopt, HandlersKnow, HandlerKnows
    <2>2. req' \in [Req -> ReqType] /\ answers' \in [CId -> SUBSET Vid]
      BY <1>6, <2>1, AnswerTypes DEF CreateAdopt
    <2>3. alias' \in [CId -> Vid \cup {None}]
      BY <1>6, <2>1 DEF CreateAdopt, TypeOK
    <2>4. QED
      BY <1>6, <2>2, <2>3 DEF CreateAdopt, TypeOK, ReqType
  <1>7. ASSUME NEW r \in Req, CreateInsert(r)
        PROVE  TypeOK'
    <2>1. PICK v \in Vid :
              /\ visitStatus' = [visitStatus EXCEPT ![v] = "open"]
              /\ routeItemId' = [routeItemId EXCEPT ![v] = req[r].item]
              /\ clientVisitId' = [clientVisitId EXCEPT ![v] = req[r].cid]
              /\ Answer(r, "sent", v)
      BY <1>7 DEF CreateInsert
    <2>2. req' \in [Req -> ReqType] /\ answers' \in [CId -> SUBSET Vid]
      BY <2>1, AnswerTypes
    <2>3. req[r].item \in Item \cup {None} /\ req[r].cid \in CId \cup {None}
      BY <1>0 DEF ReqType
    <2>4. QED
      BY <1>7, <2>1, <2>2, <2>3 DEF CreateInsert, TypeOK, ReqType, VisitStatus
  <1>8. ASSUME NEW r \in Req, CreateInsertConflict(r)
        PROVE  TypeOK'
    <2>1. req' \in [Req -> ReqType] /\ answers' \in [CId -> SUBSET Vid]
      BY <1>8, AnswerTypes DEF CreateInsertConflict, ColumnVisits
    <2>2. QED
      BY <1>8, <2>1 DEF CreateInsertConflict, TypeOK, ReqType
  <1>9. ASSUME NEW r \in Req, ConfirmTx(r)
        PROVE  TypeOK'
    <2>1. req[r].vid \in Vid
      BY <1>9 DEF ConfirmTx, HandlersKnow, HandlerKnows
    <2>2. req' \in [Req -> ReqType] /\ answers' \in [CId -> SUBSET Vid]
      BY <1>9, <2>1, AnswerTypes DEF ConfirmTx
    <2>3. req[r].token \in Token \cup {None}
      BY <1>0 DEF ReqType
    <2>4. itemStatus' \in [Item -> ItemStatus]
      BY <1>9 DEF ConfirmTx, TypeOK, ItemStatus
    <2>5. reportRev' \in [Vid -> {0, 1}]
      BY <1>9, <2>1 DEF ConfirmTx, TypeOK
    <2>6. QED
      BY <1>9, <2>1, <2>2, <2>3, <2>4, <2>5
      DEF ConfirmTx, TypeOK, ReqType, VisitStatus
  <1>10. ASSUME NEW r \in Req, ConfirmTxFails(r) \/ ConfirmRaced(r)
         PROVE  TypeOK'
    <2>1. req[r].vid \in Vid /\ req[r].cid = None
      BY <1>10 DEF ConfirmTxFails, ConfirmRaced, HandlersKnow, HandlerKnows
    <2>2. req' \in [Req -> ReqType] /\ answers' \in [CId -> SUBSET Vid]
      BY <1>10, <2>1, AnswerTypes DEF ConfirmTxFails, ConfirmRaced
    <2>3. QED
      BY <1>10, <2>2 DEF ConfirmTxFails, ConfirmRaced, TypeOK, ReqType
  <1>11. ASSUME NEW r \in Req, CancelTx(r) \/ UpdateTx(r) \/ RemoveTx(r)
         PROVE  TypeOK'
    <2>1. req' \in [Req -> ReqType]
      BY <1>11, SlotType, IdleType DEF CancelTx, UpdateTx, RemoveTx
    <2>2. req[r].to \in VisitStatus
      BY <1>0 DEF ReqType
    <2>3. itemStatus' \in [Item -> ItemStatus]
      BY <1>11 DEF CancelTx, UpdateTx, RemoveTx, TypeOK, ItemStatus
    <2>4. visitStatus' \in [Vid -> VisitStatus]
      BY <1>11, <2>2 DEF CancelTx, UpdateTx, RemoveTx, TypeOK, VisitStatus
    <2>5. routeItemId' \in [Vid -> Item \cup {None}]
      BY <1>11 DEF CancelTx, UpdateTx, RemoveTx, TypeOK
    <2>6. QED
      BY <1>11, <2>1, <2>3, <2>4, <2>5
      DEF CancelTx, UpdateTx, RemoveTx, TypeOK, ReqType
  <1>12. ASSUME NEW r \in Req, HandlerFails(r) \/ Release(r)
         PROVE  TypeOK'
    <2>1. [Idle EXCEPT !.pc = "queue"] \in ReqType
      BY IdleType DEF ReqType, HandlerPc
    <2>2. req' \in [Req -> ReqType]
      BY <1>12, <2>1, SlotType, IdleType DEF HandlerFails, Release
    <2>3. QED
      BY <1>12, <2>2 DEF HandlerFails, Release, TypeOK, ReqType
  <1>13. CASE ManagerStep
    <2>1. ASSUME NEW r \in Req, NEW v \in Vid, CancelBegin(r, v)
          PROVE  TypeOK'
      <3>1. [Idle EXCEPT !.pc = "cancel", !.vid = v] \in ReqType
        BY IdleType DEF ReqType, HandlerPc
      <3>2. QED
        BY <2>1, <3>1, SlotType DEF CancelBegin, TypeOK, ReqType
    <2>2. ASSUME NEW r \in Req, NEW v \in Vid, NEW s \in VisitStatus,
                 UpdateBegin(r, v, s)
          PROVE  TypeOK'
      <3>1. [Idle EXCEPT !.pc = "update", !.vid = v, !.to = s] \in ReqType
        BY IdleType DEF ReqType, HandlerPc
      <3>2. QED
        BY <2>2, <3>1, SlotType DEF UpdateBegin, TypeOK, ReqType
    <2>3. ASSUME NEW r \in Req, NEW i \in Item, RemoveBegin(r, i)
          PROVE  TypeOK'
      <3>1. [Idle EXCEPT !.pc = "remove", !.item = i] \in ReqType
        BY IdleType DEF ReqType, HandlerPc
      <3>2. QED
        BY <2>3, <3>1, SlotType DEF RemoveBegin, TypeOK, ReqType
    <2>4. ASSUME NEW r \in Req, NEW i \in Item, NEW s \in ItemStatus,
                 EditItem(r, i, s)
          PROVE  TypeOK'
      BY <2>4 DEF EditItem, TypeOK
    <2>5. QED
      BY <1>13, <2>1, <2>2, <2>3, <2>4 DEF ManagerStep
  <1>14. CASE Environment
    BY <1>14 DEF Environment, Invalidate, WindowCloses, TypeOK
  <1>15. QED
    BY <1>1, <1>2, <1>3, <1>4, <1>5, <1>6, <1>7, <1>8, <1>9, <1>10, <1>11,
       <1>12, <1>13, <1>14
    DEF Next, HandlerStep
-----------------------------------------------------------------------------
(* What the handlers know stays true while others write.                   *)

\* A handler that does not move keeps what it knows, since rows persist.
LEMMA OthersKnow ==
    ASSUME TypeOK, Persists, NEW q \in Req, HandlerKnows(q), req'[q] = req[q]
    PROVE  HandlerKnows(q)'
  <1>1. CASE req[q].pc \in {"adopt", "confirm", "cancel", "update"}
    <2>1. Exists(req[q].vid)' /\ req[q].vid \in Vid
      BY <1>1 DEF HandlerKnows, Persists
    <2>2. routeItemId'[req[q].vid] \in {None, routeItemId[req[q].vid]}
      BY <1>1 DEF HandlerKnows, Persists
    <2>3. QED
      BY <1>1, <2>1, <2>2 DEF HandlerKnows, Exists
  <1>2. CASE req[q].pc \notin {"adopt", "confirm", "cancel", "update"}
    BY <1>2 DEF HandlerKnows
  <1>3. QED
    BY <1>1, <1>2

\* One handler moves: all is well if it knows what its next step needs.
LEMMA MoverKnows ==
    ASSUME TypeOK, HandlersKnow, Persists, NEW r \in Req, NEW s,
           req' = [req EXCEPT ![r] = s], HandlerKnows(r)'
    PROVE  HandlersKnow'
  <1> SUFFICES ASSUME NEW q \in Req
               PROVE  HandlerKnows(q)'
    BY DEF HandlersKnow
  <1>1. CASE q = r
    BY <1>1
  <1>2. CASE q # r
    <2>1. req'[q] = req[q]
      BY <1>2 DEF TypeOK
    <2>2. QED
      BY <2>1, OthersKnow DEF HandlersKnow
  <1>3. QED
    BY <1>1, <1>2

\* A handler that has its answer, or none, needs to know nothing.
LEMMA AtRestKnows ==
    ASSUME TypeOK, HandlersKnow, Persists, NEW r \in Req, NEW s \in ReqType,
           req' = [req EXCEPT ![r] = s],
           s.pc \in {"idle", "sent", "queue", "rejected"}
    PROVE  HandlersKnow'
  <1>1. req'[r] = s
    BY DEF TypeOK
  <1>2. HandlerKnows(r)'
    BY <1>1 DEF HandlerKnows
  <1>3. QED
    BY <1>2, MoverKnows

\* Answering needs no knowledge of the rows any more, so what the other
\* handlers know is all there is to keep.
LEMMA AnswerKnows ==
    ASSUME TypeOK, HandlersKnow, Persists, NEW r \in Req,
           NEW outcome \in {"sent", "queue", "rejected"},
           NEW v \in Vid \cup {None}, Answer(r, outcome, v)
    PROVE  HandlersKnow'
  <1>1. req[r] \in ReqType
    BY DEF TypeOK, ReqType
  <1> DEFINE s == [req[r] EXCEPT !.pc = outcome, !.vid = v]
  <1>2. s \in ReqType /\ s.pc = outcome
    BY <1>1 DEF ReqType, HandlerPc
  <1>3. req' = [req EXCEPT ![r] = s]
    BY DEF Answer
  <1> HIDE DEF s
  <1>4. QED
    BY <1>2, <1>3, AtRestKnows

\* What a handler read before its await still holds when it writes: the visit
\* it was about to adopt, complete or cancel is still there.
LEMMA StepKnows ==
    ASSUME TypeOK, HandlersKnow, AliasesExist, [Next]_vars
    PROVE  HandlersKnow'
  <1> USE DEF rowVars, envVars
  <1>0. Persists /\ TypeOK' /\ req \in [Req -> ReqType]
    BY StepPersists, StepTypes DEF TypeOK, ReqType
  <1>1. CASE UNCHANGED vars
    BY <1>0, <1>1, OthersKnow DEF vars, HandlersKnow
  <1>2. ASSUME NEW r \in Req, NEW c \in CId, CreateBegin(r, c)
        PROVE  HandlersKnow'
    <2>1. PICK pc \in {"lookup", "rejected"} :
             req' = [req EXCEPT ![r] = [Idle EXCEPT !.pc = pc, !.cid = c]]
      BY <1>2 DEF CreateBegin
    <2>2. req'[r].pc = pc /\ req'[r].cid = c
      BY <1>0, <2>1 DEF Idle
    <2>3. HandlerKnows(r)'
      BY <2>1, <2>2 DEF HandlerKnows
    <2>4. QED
      BY <1>0, <2>1, <2>3, MoverKnows
  <1>3. ASSUME NEW r \in Req, NEW t \in Token,
               NEW k \in {TokenFor[t]} \cup answers[TokenFor[t]],
               ConfirmBegin(r, k, t)
        PROVE  HandlersKnow'
    <2>1. k \in Key
      BY ConstantFunctionsAssumption DEF Key, TypeOK
    <2> DEFINE v == ResolveKey(k)
               i == IF v = None THEN None ELSE routeItemId[v]
    <2>2. v \in Vid \cup {None}
      BY <2>1, ResolveKeyFound
    <2>3. PICK pc \in {"queue", "rejected", "sent", "confirm"} :
             /\ req' = [req EXCEPT ![r] = [Idle EXCEPT
                           !.pc = pc, !.vid = v, !.token = t, !.item = i]]
             /\ pc = "confirm" => v # None
      BY <1>3 DEF ConfirmBegin
    <2>4. v # None => Exists(v)
      BY <2>1, ResolvedExists
    <2>5. visitStatus' = visitStatus
      BY <1>3 DEF ConfirmBegin
    <2>6. req'[r] = [Idle EXCEPT !.pc = pc, !.vid = v, !.token = t, !.item = i]
      BY <1>0, <2>3
    <2>7. /\ req'[r].pc = pc /\ req'[r].vid = v /\ req'[r].item = i
          /\ req'[r].cid = None
      BY <2>6 DEF Idle
    <2>8. routeItemId' = routeItemId
      BY <1>3 DEF ConfirmBegin
    <2> HIDE DEF v
    <2>9. HandlerKnows(r)'
      BY <2>2, <2>3, <2>4, <2>5, <2>7, <2>8 DEF HandlerKnows, Exists
    <2>10. QED
      BY <1>0, <2>3, <2>9, MoverKnows
  <1>4. ASSUME NEW r \in Req, CreateLookup(r)
        PROVE  HandlersKnow'
    <2>1. req[r].cid \in CId
      BY <1>4 DEF CreateLookup, HandlersKnow, HandlerKnows
    <2>2. CASE Answer(r, "sent", Resolve(req[r].cid))
      BY <1>0, <2>1, <2>2, ResolveFound, AnswerKnows
    <2>3. CASE \E pc \in {"insert", "slot"} : Continue(r, pc)
      <3>1. PICK pc \in {"insert", "slot"} :
               req' = [req EXCEPT ![r] = [req[r] EXCEPT !.pc = pc]]
        BY <2>3 DEF Continue
      <3>2. req'[r].pc = pc /\ req'[r].cid = req[r].cid
        BY <1>0, <3>1 DEF ReqType
      <3>3. HandlerKnows(r)'
        BY <2>1, <3>1, <3>2 DEF HandlerKnows
      <3>4. QED
        BY <1>0, <3>1, <3>3, MoverKnows
    <2>4. QED
      BY <1>4, <2>2, <2>3 DEF CreateLookup
  <1>5. ASSUME NEW r \in Req, CreateSlot(r)
        PROVE  HandlersKnow'
    <2>1. req[r].cid \in CId
      BY <1>5 DEF CreateSlot, HandlersKnow, HandlerKnows
    <2>2. CASE \E i : req' = [req EXCEPT ![r].pc = "insert", ![r].item = i]
      <3>1. PICK i : req' = [req EXCEPT ![r] =
                                [req[r] EXCEPT !.pc = "insert", !.item = i]]
        BY <2>2
      <3>2. req'[r].pc = "insert" /\ req'[r].cid = req[r].cid
        BY <1>0, <3>1 DEF ReqType
      <3>3. HandlerKnows(r)'
        BY <2>1, <3>2 DEF HandlerKnows
      <3>4. QED
        BY <1>0, <3>1, <3>3, MoverKnows
    <2>3. CASE req' = [req EXCEPT ![r].pc = "insert"]
      <3>1. req' = [req EXCEPT ![r] = [req[r] EXCEPT !.pc = "insert"]]
        BY <2>3
      <3>2. req'[r].pc = "insert" /\ req'[r].cid = req[r].cid
        BY <1>0, <3>1 DEF ReqType
      <3>3. HandlerKnows(r)'
        BY <2>1, <3>2 DEF HandlerKnows
      <3>4. QED
        BY <1>0, <3>1, <3>3, MoverKnows
    <2>4. ASSUME NEW v \in Vid, Exists(v),
                 req' = [req EXCEPT ![r].pc = "adopt", ![r].vid = v]
          PROVE  HandlersKnow'
      <3>1. req' = [req EXCEPT ![r] = [req[r] EXCEPT !.pc = "adopt", !.vid = v]]
        BY <2>4
      <3>2. req'[r].pc = "adopt" /\ req'[r].vid = v /\ req'[r].cid = req[r].cid
        BY <1>0, <3>1 DEF ReqType
      <3>3. Exists(v)'
        BY <1>0, <2>4 DEF Persists
      <3>4. HandlerKnows(r)'
        BY <2>1, <3>2, <3>3 DEF HandlerKnows, Exists
      <3>5. QED
        BY <1>0, <3>1, <3>4, MoverKnows
    <2>5. QED
      BY <1>5, <2>2, <2>3, <2>4 DEF CreateSlot, SlotVisits
  <1>6. ASSUME NEW r \in Req,
               CreateAdopt(r) \/ ConfirmTx(r) \/ ConfirmTxFails(r)
               \/ ConfirmRaced(r) \/ CreateInsert(r) \/ CreateInsertConflict(r)
        PROVE  HandlersKnow'
    <2>1. req[r].vid \in Vid \cup {None}
      BY <1>0 DEF ReqType
    <2>2. \E v \in Vid \cup {None}, outcome \in {"sent", "queue", "rejected"} :
             Answer(r, outcome, v)
      BY <1>6, <2>1
      DEF CreateAdopt, ConfirmTx, ConfirmTxFails, ConfirmRaced, CreateInsert,
          CreateInsertConflict, ColumnVisits
    <2>3. QED
      BY <1>0, <2>2, AnswerKnows
  <1>7. ASSUME NEW r \in Req,
               CancelTx(r) \/ UpdateTx(r) \/ RemoveTx(r) \/ Release(r)
               \/ HandlerFails(r)
        PROVE  HandlersKnow'
    <2>1. [Idle EXCEPT !.pc = "queue"] \in ReqType
      BY IdleType DEF ReqType, HandlerPc
    <2>2. Idle.pc = "idle" /\ [Idle EXCEPT !.pc = "queue"].pc = "queue"
      BY DEF Idle
    <2>3. \/ req' = [req EXCEPT ![r] = Idle]
          \/ req' = [req EXCEPT ![r] = [Idle EXCEPT !.pc = "queue"]]
      BY <1>7 DEF CancelTx, UpdateTx, RemoveTx, Release, HandlerFails
    <2>4. QED
      BY <1>0, <2>1, <2>2, <2>3, IdleType, AtRestKnows
  <1>8. CASE ManagerStep
    <2>1. ASSUME NEW r \in Req, NEW v \in Vid, CancelBegin(r, v)
          PROVE  HandlersKnow'
      <3>1. req' = [req EXCEPT ![r] = [Idle EXCEPT !.pc = "cancel", !.vid = v]]
        BY <2>1 DEF CancelBegin
      <3>2. req'[r].pc = "cancel" /\ req'[r].vid = v /\ req'[r].cid = None
        BY <1>0, <3>1 DEF Idle
      <3>3. Exists(v)'
        BY <2>1 DEF CancelBegin, Exists
      <3>4. HandlerKnows(r)'
        BY <3>2, <3>3 DEF HandlerKnows, Exists
      <3>5. QED
        BY <1>0, <3>1, <3>4, MoverKnows
    <2>2. ASSUME NEW r \in Req, NEW v \in Vid, NEW s \in VisitStatus,
                 UpdateBegin(r, v, s)
          PROVE  HandlersKnow'
      <3>1. req' = [req EXCEPT ![r] = [Idle EXCEPT !.pc = "update", !.vid = v,
                                                   !.to = s]]
        BY <2>2 DEF UpdateBegin
      <3>2. /\ req'[r].pc = "update" /\ req'[r].vid = v /\ req'[r].cid = None
            /\ req'[r].to = s
        BY <1>0, <3>1 DEF Idle
      <3>3. Exists(v)' /\ s \in {"open", "completed"}
        BY <2>2 DEF UpdateBegin, Exists
      <3>4. HandlerKnows(r)'
        BY <3>2, <3>3 DEF HandlerKnows, Exists
      <3>5. QED
        BY <1>0, <3>1, <3>4, MoverKnows
    <2>3. ASSUME NEW r \in Req, NEW i \in Item, RemoveBegin(r, i)
          PROVE  HandlersKnow'
      <3>1. req' = [req EXCEPT ![r] = [Idle EXCEPT !.pc = "remove", !.item = i]]
        BY <2>3 DEF RemoveBegin
      <3>2. req'[r].pc = "remove" /\ req'[r].item = i
        BY <1>0, <3>1 DEF Idle
      <3>3. HandlerKnows(r)'
        BY <3>2 DEF HandlerKnows
      <3>4. QED
        BY <1>0, <3>1, <3>3, MoverKnows
    <2>4. ASSUME NEW r \in Req, NEW i \in Item, NEW s \in ItemStatus,
                 EditItem(r, i, s)
          PROVE  HandlersKnow'
      BY <1>0, <2>4, OthersKnow DEF EditItem, HandlersKnow
    <2>5. QED
      BY <1>8, <2>1, <2>2, <2>3, <2>4 DEF ManagerStep
  <1>9. CASE Environment
    BY <1>0, <1>9, OthersKnow
    DEF Environment, Invalidate, WindowCloses, HandlersKnow
  <1>10. QED
    BY <1>1, <1>2, <1>3, <1>4, <1>5, <1>6, <1>7, <1>8, <1>9
    DEF Next, HandlerStep
-----------------------------------------------------------------------------
(* Answered starts.                                                        *)

\* A row or an alias that holds a client id after a step resolves it then.
LEMMA FoundAfter ==
    ASSUME TypeOK', NEW c \in CId,
           ColumnVisits(c)' # {} \/ alias'[c] # None
    PROVE  Resolve(c)' # None
  <1>1. ColumnVisits(c)' \subseteq Vid
    BY DEF ColumnVisits
  <1>2. CASE ColumnVisits(c)' # {}
    <2>1. Resolve(c)' \in ColumnVisits(c)'
      BY <1>1, <1>2 DEF Resolve
    <2>2. QED
      BY <1>1, <2>1, NoneAssumption
  <1>3. CASE ColumnVisits(c)' = {}
    BY <1>3 DEF Resolve
  <1>4. QED
    BY <1>2, <1>3

\* What resolves keeps resolving.
LEMMA ResolvesStill ==
    ASSUME TypeOK, TypeOK', Persists, NEW c \in CId, Resolve(c) # None
    PROVE  Resolve(c)' # None
  <1>1. ColumnVisits(c) # {} \/ alias[c] # None
    BY ResolveFound
  <1>2. CASE ColumnVisits(c) # {}
    <2>1. PICK v \in Vid : Exists(v) /\ clientVisitId[v] = c
      BY <1>2 DEF ColumnVisits
    <2>2. Exists(v)' /\ clientVisitId'[v] = c
      BY <2>1 DEF Persists
    <2>3. v \in ColumnVisits(c)'
      BY <2>2 DEF ColumnVisits, Exists
    <2>4. QED
      BY <2>3, FoundAfter
  <1>3. CASE alias[c] # None
    BY <1>3, FoundAfter DEF Persists
  <1>4. QED
    BY <1>1, <1>2, <1>3

\* A step leaves the answers alone, or answers a start that now resolves.
LEMMA StepAnswers ==
    ASSUME TypeOK, TypeOK', HandlersKnow, Persists, [Next]_vars, NEW c \in CId,
           answers'[c] # answers[c]
    PROVE  Resolve(c)' # None
  <1> USE DEF rowVars, envVars
  <1>1. PICK r \in Req :
           \/ CreateLookup(r) \/ CreateAdopt(r) \/ CreateInsert(r)
           \/ CreateInsertConflict(r) \/ ConfirmTx(r) \/ ConfirmTxFails(r)
           \/ ConfirmRaced(r)
    BY DEF Next, HandlerStep, ManagerStep, Environment, vars, CreateBegin,
           ConfirmBegin, CreateSlot, CancelTx, UpdateTx, RemoveTx, HandlerFails,
           Release, CancelBegin, UpdateBegin, RemoveBegin, EditItem, Invalidate,
           WindowCloses
  <1>2. ASSUME NEW v, NEW outcome, Answer(r, outcome, v)
        PROVE  req[r].cid = c /\ outcome = "sent"
    BY <1>2 DEF Answer, TypeOK
  <1>3. CASE ConfirmTx(r) \/ ConfirmTxFails(r) \/ ConfirmRaced(r)
    <2>1. req[r].cid = None
      BY <1>3 DEF ConfirmTx, ConfirmTxFails, ConfirmRaced, HandlersKnow,
                  HandlerKnows
    <2>2. \E v, outcome : Answer(r, outcome, v)
      BY <1>3 DEF ConfirmTx, ConfirmTxFails, ConfirmRaced
    <2>3. QED
      BY <1>2, <2>1, <2>2, NoneAssumption
  <1>4. CASE CreateLookup(r)
    <2>1. req[r].cid = c /\ Resolve(req[r].cid) # None
      BY <1>2, <1>4 DEF CreateLookup, Continue
    <2>2. QED
      BY <2>1, ResolvesStill
  <1>5. CASE CreateAdopt(r)
    <2>1. req[r].cid = c /\ req[r].vid \in Vid
      BY <1>2, <1>5 DEF CreateAdopt, HandlersKnow, HandlerKnows
    <2>2. alias'[c] # None
      BY <1>5, <2>1, NoneAssumption DEF CreateAdopt, TypeOK
    <2>3. QED
      BY <2>2, FoundAfter
  <1>6. CASE CreateInsert(r)
    <2>1. PICK v \in Vid :
              /\ visitStatus' = [visitStatus EXCEPT ![v] = "open"]
              /\ clientVisitId' = [clientVisitId EXCEPT ![v] = req[r].cid]
              /\ Answer(r, "sent", v)
      BY <1>6 DEF CreateInsert
    <2>2. req[r].cid = c
      BY <1>2, <2>1
    <2>3. v \in ColumnVisits(c)'
      BY <2>1, <2>2 DEF ColumnVisits, Exists, TypeOK
    <2>4. QED
      BY <2>3, FoundAfter
  <1>7. CASE CreateInsertConflict(r)
    <2>1. req[r].cid = c /\ ColumnVisits(req[r].cid) # {}
      BY <1>2, <1>7 DEF CreateInsertConflict
    <2>2. QED
      BY <2>1, ResolveFound, ResolvesStill
  <1>8. QED
    BY <1>1, <1>3, <1>4, <1>5, <1>6, <1>7

\* Aliases are only written for visits that exist, and no visit goes away.
LEMMA StepAliases ==
    ASSUME TypeOK, HandlersKnow, AliasesExist, Persists, [Next]_vars
    PROVE  AliasesExist'
  <1> SUFFICES ASSUME NEW c \in CId, alias'[c] # None
               PROVE  Exists(alias[c])'
    BY DEF AliasesExist, Exists
  <1>1. CASE alias'[c] = alias[c]
    <2>1. alias[c] \in Vid /\ Exists(alias[c])
      BY <1>1 DEF AliasesExist, TypeOK
    <2>2. QED
      BY <1>1, <2>1 DEF Persists, Exists
  <1>2. CASE alias'[c] # alias[c]
    <2>1. PICK r \in Req : CreateAdopt(r)
      BY <1>2
      DEF Next, HandlerStep, ManagerStep, Environment, vars, rowVars, CreateBegin,
          ConfirmBegin, CreateLookup, CreateSlot, CreateInsert,
          CreateInsertConflict, ConfirmTx, ConfirmTxFails, ConfirmRaced,
          CancelTx, UpdateTx, RemoveTx, HandlerFails, Release, CancelBegin,
          UpdateBegin, RemoveBegin, EditItem, Invalidate, WindowCloses
    <2>2. alias'[c] = req[r].vid /\ req[r].vid \in Vid /\ Exists(req[r].vid)
      BY <1>2, <2>1 DEF CreateAdopt, TypeOK, HandlersKnow, HandlerKnows
    <2>3. QED
      BY <2>2 DEF Persists, Exists
  <1>3. QED
    BY <1>1, <1>2
-----------------------------------------------------------------------------
(* The theorems.                                                           *)

\* No row, request or answer exists at first, so the invariant holds.
LEMMA InitInv == Init => Inv
  <1> SUFFICES ASSUME Init
               PROVE  Inv
    OBVIOUS
  <1>1. req \in [Req -> ReqType]
    BY IdleType DEF Init
  <1>2. TypeOK
    BY <1>1 DEF Init, TypeOK, ReqType, VisitStatus, ItemStatus
  <1>3. HandlersKnow
    BY DEF Init, HandlersKnow, HandlerKnows, Idle
  <1>4. AliasesExist /\ AnsweredStartResolves
    BY DEF Init, AliasesExist, AnsweredStartResolves
  <1>5. QED
    BY <1>2, <1>3, <1>4 DEF Inv

\* The invariant is inductive: its four parts are kept by the lemmas above.
LEMMA StepInv == Inv /\ [Next]_vars => Inv'
  <1> SUFFICES ASSUME Inv, [Next]_vars
               PROVE  Inv'
    OBVIOUS
  <1>1. TypeOK /\ HandlersKnow /\ AliasesExist /\ AnsweredStartResolves
    BY DEF Inv
  <1>2. Persists /\ TypeOK' /\ HandlersKnow'
    BY <1>1, StepPersists, StepTypes, StepKnows
  <1>3. AliasesExist'
    BY <1>1, <1>2, StepAliases
  <1>4. AnsweredStartResolves'
    <2> SUFFICES ASSUME NEW c \in CId, answers'[c] # {}
                 PROVE  Resolve(c)' # None
      BY DEF AnsweredStartResolves
    <2>1. CASE answers'[c] # answers[c]
      BY <1>1, <1>2, <2>1, StepAnswers
    <2>2. CASE answers'[c] = answers[c]
      <3>1. Resolve(c) # None
        BY <1>1, <2>2 DEF AnsweredStartResolves
      <3>2. QED
        BY <1>1, <1>2, <3>1, ResolvesStill
    <2>3. QED
      BY <2>1, <2>2
  <1>5. QED
    BY <1>2, <1>3, <1>4 DEF Inv

\* The inductive invariant holds in every reachable state.
LEMMA InvAlways == Spec => []Inv
  BY InitInv, StepInv, PTL DEF Spec

\* The rows, the requests in progress and the answers keep their types.
THEOREM TypesAlways == Spec => []TypeOK
  <1>1. Inv => TypeOK
    BY DEF Inv
  <1>2. QED
    BY <1>1, InvAlways, PTL

\* However many handlers overlap, a start that was answered with a visit
\* resolves to a visit from then on, so work queued under its client id can
\* always be sent (visits.service.ts:427-445, 539-560).
THEOREM AnsweredStartAlwaysResolves == Spec => []AnsweredStartResolves
  <1>1. Inv => AnsweredStartResolves
    BY DEF Inv
  <1>2. QED
    BY <1>1, InvAlways, PTL

\* The step at which a visit closes is the step at which its stop follows.
LEMMA StepFollows ==
    ASSUME TypeOK, HandlersKnow, [Next]_vars, NEW v \in Vid,
           visitStatus'[v] # visitStatus[v], routeItemId'[v] # None
    PROVE  /\ visitStatus'[v] = "completed" => itemStatus'[routeItemId'[v]] = "visited"
           /\ visitStatus'[v] = "cancelled" => itemStatus'[routeItemId'[v]] = "skipped"
  <1> USE DEF rowVars, envVars
  <1>1. PICK r \in Req : CreateInsert(r) \/ ConfirmTx(r) \/ CancelTx(r) \/ UpdateTx(r)
    BY DEF Next, HandlerStep, ManagerStep, Environment, vars, CreateBegin,
           ConfirmBegin, CreateLookup, CreateSlot, CreateAdopt,
           CreateInsertConflict, ConfirmTxFails, ConfirmRaced, RemoveTx,
           HandlerFails, Release, CancelBegin, UpdateBegin, RemoveBegin,
           EditItem, Invalidate, WindowCloses
  <1>2. routeItemId[v] \in Item \cup {None}
    BY DEF TypeOK
  <1>3. CASE CreateInsert(r)
    BY <1>3 DEF CreateInsert, TypeOK
  <1>4. CASE ConfirmTx(r)
    <2>1. v = req[r].vid /\ visitStatus'[v] = "completed"
      BY <1>4 DEF ConfirmTx, TypeOK
    <2>2. routeItemId'[v] = routeItemId[v]
      BY <1>4 DEF ConfirmTx
    <2>3. routeItemId[v] = req[r].item /\ req[r].item # None
      BY <1>4, <2>1, <2>2 DEF ConfirmTx, HandlersKnow, HandlerKnows
    <2>4. itemStatus'[req[r].item] = "visited"
      BY <1>2, <1>4, <2>3 DEF ConfirmTx, TypeOK
    <2>5. QED
      BY <2>1, <2>2, <2>3, <2>4
  <1>5. CASE CancelTx(r)
    <2>1. v = req[r].vid /\ visitStatus'[v] = "cancelled"
      BY <1>5 DEF CancelTx, TypeOK
    <2>2. routeItemId'[v] = routeItemId[v]
      BY <1>5 DEF CancelTx
    <2>3. itemStatus'[routeItemId[v]] = "skipped"
      BY <1>2, <1>5, <2>1, <2>2 DEF CancelTx, TypeOK
    <2>4. QED
      BY <2>1, <2>2, <2>3
  <1>6. CASE UpdateTx(r)
    <2>1. v = req[r].vid /\ visitStatus'[v] = req[r].to
      BY <1>6 DEF UpdateTx, TypeOK
    <2>2. req[r].to \in {"open", "completed"}
      BY <1>6 DEF UpdateTx, HandlersKnow, HandlerKnows
    <2>3. routeItemId'[v] = routeItemId[v]
      BY <1>6 DEF UpdateTx
    <2>4. req[r].to = "completed" => itemStatus'[routeItemId[v]] = "visited"
      BY <1>2, <1>6, <2>1, <2>3 DEF UpdateTx, TypeOK
    <2>5. QED
      BY <2>1, <2>2, <2>3, <2>4
  <1>7. QED
    BY <1>1, <1>3, <1>4, <1>5, <1>6

\* A visit and the stop it holds close in one step, whatever the handler read
\* before and whatever overlapped it: nulling the stop's key is the only way
\* the two can part (visits.service.ts:1096-1109, routes.service.ts:400-442).
THEOREM StopAlwaysFollowsVisit == Spec => StopFollowsVisit
  <1>1. Inv /\ [Next]_vars =>
           [\A v \in Vid :
              visitStatus'[v] # visitStatus[v] /\ routeItemId'[v] # None
              => /\ visitStatus'[v] = "completed"
                       => itemStatus'[routeItemId'[v]] = "visited"
                 /\ visitStatus'[v] = "cancelled"
                       => itemStatus'[routeItemId'[v]] = "skipped"]_vars
    BY StepFollows DEF Inv
  <1>2. QED
    BY <1>1, InvAlways, PTL DEF Spec, StopFollowsVisit
-----------------------------------------------------------------------------
(* Handlers that do not overlap.                                           *)

\* What a handler that nothing overlaps may still rely on when it writes: the
\* checks it made between its first read and its transaction still hold.
Undisturbed(r) ==
    /\ req[r].pc \in {"slot", "adopt", "insert"} => Resolve(req[r].cid) = None
    /\ req[r].pc = "adopt" => visitStatus[req[r].vid] = "open"
    /\ req[r].pc = "confirm" =>
          /\ req[r].token \in Token
          /\ Resolve(TokenFor[req[r].token]) = req[r].vid
          /\ visitStatus[req[r].vid] \in {"open", "completed"}
          /\ ReportsWith(req[r].token) = {}
    /\ req[r].pc = "cancel" => visitStatus[req[r].vid] = "open"
    /\ req[r].pc = "update" => visitStatus[req[r].vid] \in {"open", "completed"}

Alone == \A q, r \in Req : Running(q) /\ Running(r) => q = r

\* A report stands on the visit its token's start resolves to.
ReportOnResolved ==
    \A v \in Vid, t \in Token : reportToken[v] = t => Resolve(TokenFor[t]) = v

\* The inductive invariant of handlers that do not overlap: one visit per start
\* rests on what the handler in progress checked, and that on its being alone.
SerialInv ==
    /\ Inv
    /\ Alone
    /\ \A r \in Req : Undisturbed(r)
    /\ OneVisitPerStart
    /\ ReportOnResolved

\* The request that changes is the request of the handler that takes the step.
LEMMA Mover ==
    ASSUME TypeOK, [Next]_vars, NEW q \in Req, req'[q] # req[q]
    PROVE  /\ \A r \in Req \ {q} : req'[r] = req[r]
           /\ \/ \E c \in CId : CreateBegin(q, c)
              \/ \E t \in Token : \E k \in {TokenFor[t]} \cup answers[TokenFor[t]] :
                    ConfirmBegin(q, k, t)
              \/ HandlerStep(q)
              \/ Release(q)
              \/ \E v \in Vid : CancelBegin(q, v)
              \/ \E v \in Vid, s \in VisitStatus : UpdateBegin(q, v, s)
              \/ \E i \in Item : RemoveBegin(q, i)
  <1>1. ASSUME NEW r \in Req, NEW s, req' = [req EXCEPT ![r] = s]
        PROVE  r = q /\ \A p \in Req \ {q} : req'[p] = req[p]
    BY <1>1 DEF TypeOK
  <1>2. ASSUME NEW r \in Req, NEW c \in CId, CreateBegin(r, c)
        PROVE  r = q /\ \A p \in Req \ {q} : req'[p] = req[p]
    BY <1>1, <1>2 DEF CreateBegin
  <1>3. ASSUME NEW r \in Req, NEW t \in Token, NEW k, ConfirmBegin(r, k, t)
        PROVE  r = q /\ \A p \in Req \ {q} : req'[p] = req[p]
    BY <1>1, <1>3 DEF ConfirmBegin
  <1>4. ASSUME NEW r \in Req, HandlerStep(r)
        PROVE  r = q /\ \A p \in Req \ {q} : req'[p] = req[p]
    <2>1. \E s : req' = [req EXCEPT ![r] = s]
      BY <1>4, Zenon
      DEF HandlerStep, CreateLookup, CreateSlot, CreateAdopt, CreateInsert,
          CreateInsertConflict, ConfirmTx, ConfirmTxFails, ConfirmRaced,
          CancelTx, UpdateTx, RemoveTx, HandlerFails, Answer, Continue
    <2>2. QED
      BY <1>1, <2>1
  <1>5. ASSUME NEW r \in Req, Release(r)
        PROVE  r = q /\ \A p \in Req \ {q} : req'[p] = req[p]
    BY <1>1, <1>5 DEF Release
  <1>6. CASE ManagerStep
    <2>1. PICK r \in Req :
              \/ \E v \in Vid : CancelBegin(r, v)
              \/ \E v \in Vid, s \in VisitStatus : UpdateBegin(r, v, s)
              \/ \E i \in Item : RemoveBegin(r, i)
      BY <1>6 DEF ManagerStep, EditItem
    <2>2. r = q /\ \A p \in Req \ {q} : req'[p] = req[p]
      BY <1>1, <2>1 DEF CancelBegin, UpdateBegin, RemoveBegin
    <2>3. QED
      BY <2>1, <2>2
  <1>7. CASE Environment \/ UNCHANGED vars
    BY <1>7 DEF Environment, Invalidate, WindowCloses, vars
  <1>8. QED
    BY <1>2, <1>3, <1>4, <1>5, <1>6, <1>7 DEF Next

\* Only an insert makes a row appear; the columns a client id is looked up by
\* change in no other step.
LEMMA RowsAppear ==
    ASSUME TypeOK, HandlersKnow, [Next]_vars, ~\E r \in Req : CreateInsert(r)
    PROVE  /\ \A v \in Vid : Exists(v)' <=> Exists(v)
           /\ clientVisitId' = clientVisitId
  <1> USE DEF rowVars, envVars
  <1>1. CASE UNCHANGED <<visitStatus, clientVisitId>>
    BY <1>1 DEF Exists
  <1>2. ASSUME NEW r \in Req, ConfirmTx(r) \/ CancelTx(r) \/ UpdateTx(r)
        PROVE  /\ \A v \in Vid : Exists(v)' <=> Exists(v)
               /\ clientVisitId' = clientVisitId
    <2>1. req[r].vid \in Vid /\ Exists(req[r].vid)
      BY <1>2 DEF ConfirmTx, CancelTx, UpdateTx, HandlersKnow, HandlerKnows
    <2>2. PICK s \in {"open", "completed", "cancelled"} :
             visitStatus' = [visitStatus EXCEPT ![req[r].vid] = s]
      BY <1>2 DEF ConfirmTx, CancelTx, UpdateTx, HandlersKnow, HandlerKnows
    <2>3. clientVisitId' = clientVisitId
      BY <1>2 DEF ConfirmTx, CancelTx, UpdateTx
    <2>4. QED
      BY <2>1, <2>2, <2>3 DEF Exists, TypeOK
  <1>3. QED
    BY <1>1, <1>2
    DEF Next, HandlerStep, ManagerStep, Environment, vars, CreateBegin,
        ConfirmBegin, CreateLookup, CreateSlot, CreateAdopt,
        CreateInsertConflict, ConfirmTxFails, ConfirmRaced, RemoveTx,
        HandlerFails, Release, CancelBegin, UpdateBegin, RemoveBegin,
        EditItem, Invalidate, WindowCloses

\* A client id resolves as before, unless its own start inserts or adopts.
LEMMA ResolveStays ==
    ASSUME TypeOK, HandlersKnow, [Next]_vars, NEW c \in CId,
           \A r \in Req : req[r].cid = c => ~CreateInsert(r) /\ ~CreateAdopt(r)
    PROVE  Resolve(c)' = Resolve(c)
  <1>1. ColumnVisits(c)' = ColumnVisits(c)
    <2>1. CASE ~\E r \in Req : CreateInsert(r)
      BY <2>1, RowsAppear DEF ColumnVisits, Exists
    <2>2. ASSUME NEW r \in Req, CreateInsert(r)
          PROVE  ColumnVisits(c)' = ColumnVisits(c)
      <3>1. PICK v \in Vid :
                /\ ~Exists(v)
                /\ visitStatus' = [visitStatus EXCEPT ![v] = "open"]
                /\ clientVisitId' = [clientVisitId EXCEPT ![v] = req[r].cid]
        BY <2>2 DEF CreateInsert
      <3>2. req[r].cid # c
        BY <2>2
      <3>3. QED
        BY <3>1, <3>2 DEF ColumnVisits, Exists, TypeOK
    <2>3. QED
      BY <2>1, <2>2
  <1>2. alias'[c] = alias[c]
    <2>1. CASE alias' = alias
      BY <2>1
    <2>2. ASSUME NEW r \in Req, CreateAdopt(r)
          PROVE  alias'[c] = alias[c]
      <3>1. req[r].cid # c
        BY <2>2
      <3>2. QED
        BY <2>2, <3>1 DEF CreateAdopt, TypeOK
    <2>3. QED
      BY <2>1, <2>2
      DEF Next, HandlerStep, ManagerStep, Environment, vars, rowVars, CreateBegin,
          ConfirmBegin, CreateLookup, CreateSlot, CreateInsert,
          CreateInsertConflict, ConfirmTx, ConfirmTxFails, ConfirmRaced,
          CancelTx, UpdateTx, RemoveTx, HandlerFails, Release, CancelBegin,
          UpdateBegin, RemoveBegin, EditItem, Invalidate, WindowCloses
  <1>3. QED
    BY <1>1, <1>2 DEF Resolve

\* A start nothing overlapped had no visit before it inserts one, and resolves
\* to the row it inserts.
LEMMA ResolveInserted ==
    ASSUME TypeOK, HandlersKnow, NEW r \in Req, Undisturbed(r), CreateInsert(r),
           NEW v \in Vid, visitStatus' = [visitStatus EXCEPT ![v] = "open"],
           clientVisitId' = [clientVisitId EXCEPT ![v] = req[r].cid], ~Exists(v),
           NEW c \in CId, req[r].cid = c
    PROVE  Resolve(c) = None /\ Resolve(c)' = v
  <1>1. Resolve(c) = None
    BY DEF CreateInsert, Undisturbed
  <1>2. ColumnVisits(c) = {}
    BY <1>1, ResolveFound
  <1>3. \A w \in Vid : visitStatus'[w] # "none" /\ clientVisitId'[w] = c <=> w = v
    BY <1>2 DEF ColumnVisits, Exists, TypeOK
  <1>4. {w \in Vid : visitStatus'[w] # "none" /\ clientVisitId'[w] = c} = {v}
    BY <1>3
  <1>5. Resolve(c)' = v
    BY <1>4 DEF Resolve, ColumnVisits, Exists
  <1>6. QED
    BY <1>1, <1>5

\* ... and a start that adopts resolves to the visit it adopts.
LEMMA ResolveAdopted ==
    ASSUME TypeOK, HandlersKnow, NEW r \in Req, Undisturbed(r), CreateAdopt(r),
           NEW c \in CId, req[r].cid = c
    PROVE  Resolve(c) = None /\ Resolve(c)' = req[r].vid /\ req[r].vid \in Vid
  <1>1. Resolve(c) = None /\ req[r].vid \in Vid
    BY DEF CreateAdopt, Undisturbed, HandlersKnow, HandlerKnows
  <1>2. ColumnVisits(c) = {} /\ alias[c] = None
    BY <1>1, ResolveFound
  <1>3. alias'[c] = req[r].vid
    BY <1>1, <1>2 DEF CreateAdopt, TypeOK
  <1>4. {w \in Vid : visitStatus'[w] # "none" /\ clientVisitId'[w] = c} = {}
    BY <1>2 DEF CreateAdopt, ColumnVisits, Exists
  <1>5. Resolve(c)' = req[r].vid
    BY <1>3, <1>4 DEF Resolve, ColumnVisits, Exists
  <1>6. QED
    BY <1>1, <1>5

\* "A client id maps to one visit for good" (schema.prisma:1000), as long as
\* handlers do not overlap.
LEMMA ResolvedForGood ==
    ASSUME TypeOK, HandlersKnow, \A r \in Req : Undisturbed(r), [Next]_vars,
           NEW c \in CId, Resolve(c) # None
    PROVE  Resolve(c)' = Resolve(c)
  <1>1. ASSUME NEW r \in Req, req[r].cid = c, CreateInsert(r) \/ CreateAdopt(r)
        PROVE  FALSE
    BY <1>1 DEF CreateInsert, CreateAdopt, Undisturbed
  <1>2. QED
    BY <1>1, ResolveStays

\* A second handler never gets under way.
LEMMA AloneStays ==
    ASSUME TypeOK, Alone, [SerialNext]_vars
    PROVE  Alone'
  <1> SUFFICES ASSUME NEW q \in Req, NEW r \in Req, Running(q)', Running(r)', q # r
               PROVE  FALSE
    BY DEF Alone, Running, Answered
  <1>0. [Next]_vars
    BY DEF SerialNext
  <1>1. CASE req'[q] = req[q] /\ req'[r] = req[r]
    BY <1>1 DEF Alone, Running, Answered
  <1>2. CASE req'[q] # req[q]
    <2>1. req'[r] = req[r]
      BY <1>0, <1>2, Mover
    <2>2. Running(r) /\ Serial
      BY <1>2, <2>1 DEF Running, Answered, SerialNext, vars
    <2>3. QED
      BY <2>1, <2>2 DEF Serial, Running, Answered
  <1>3. CASE req'[r] # req[r]
    <2>1. req'[q] = req[q]
      BY <1>0, <1>3, Mover
    <2>2. Running(q) /\ Serial
      BY <1>3, <2>1 DEF Running, Answered, SerialNext, vars
    <2>3. QED
      BY <2>1, <2>2 DEF Serial, Running, Answered
  <1>4. QED
    BY <1>1, <1>2, <1>3

\* While a handler waits, what it checked stays as it found it.
LEMMA WaitingUndisturbed ==
    ASSUME TypeOK, [SerialNext]_vars, NEW r \in Req, Undisturbed(r),
           req'[r] = req[r]
    PROVE  Undisturbed(r)'
  <1>1. CASE UNCHANGED rowVars
    BY <1>1 DEF Undisturbed, rowVars, Resolve, ColumnVisits, Exists, ReportsWith
  <1>2. CASE ~UNCHANGED rowVars
    <2>1. ~Running(r)
      BY <1>2 DEF SerialNext, Serial, vars
    <2>2. QED
      BY <2>1 DEF Undisturbed, Running, Answered
  <1>3. QED
    BY <1>1, <1>2

\* A handler that moves on has just checked what its next round trip relies on,
\* or was undisturbed since it did.
LEMMA MovedUndisturbed ==
    ASSUME Inv, OneVisitPerStart, [Next]_vars, NEW r \in Req, Undisturbed(r),
           req'[r] # req[r]
    PROVE  Undisturbed(r)'
  <1> USE DEF rowVars, envVars
  <1>0. TypeOK /\ HandlersKnow /\ AliasesExist
    BY DEF Inv
  <1>1. ASSUME NEW s, req' = [req EXCEPT ![r] = s],
               s.pc \in {"idle", "lookup", "sent", "queue", "rejected"}
        PROVE  Undisturbed(r)'
    BY <1>0, <1>1 DEF Undisturbed, TypeOK
  <1>2. CASE \E c \in CId : CreateBegin(r, c)
    <2>1. PICK c \in CId, pc \in {"lookup", "rejected"} :
             req' = [req EXCEPT ![r] = [Idle EXCEPT !.pc = pc, !.cid = c]]
      BY <1>2 DEF CreateBegin
    <2>2. [Idle EXCEPT !.pc = pc, !.cid = c].pc = pc
      BY DEF Idle
    <2>3. QED
      BY <1>1, <2>1, <2>2
  <1>3. ASSUME NEW t \in Token, NEW k \in {TokenFor[t]} \cup answers[TokenFor[t]],
               ConfirmBegin(r, k, t)
        PROVE  Undisturbed(r)'
    <2> DEFINE v == ResolveKey(k)
    <2>1. k \in Key /\ TokenFor[t] \in CId
      BY <1>0, ConstantFunctionsAssumption DEF Key, TypeOK
    <2>2. v \in Vid \cup {None}
      BY <1>0, <2>1, ResolveKeyFound
    <2>3. PICK pc :
             /\ pc \in {"queue", "sent", "rejected", "confirm"}
             /\ pc = "confirm" => /\ v # None
                                  /\ visitStatus[v] # "cancelled"
                                  /\ ReportsWith(t) = {}
             /\ req' = [req EXCEPT ![r] = [Idle EXCEPT
                        !.pc = pc, !.vid = v, !.token = t,
                        !.item = IF v = None THEN None ELSE routeItemId[v]]]
      BY <1>3 DEF ConfirmBegin
    <2>4. req'[r].pc = pc /\ req'[r].vid = v /\ req'[r].token = t
      BY <1>0, <2>3 DEF TypeOK, Idle
    <2>5. CASE pc # "confirm"
      BY <2>3, <2>4, <2>5 DEF Undisturbed
    <2>6. CASE pc = "confirm"
      <3>1. v \in Vid /\ Exists(v)
        BY <1>0, <2>1, <2>2, <2>3, <2>6, ResolvedExists
      <3>2. Resolve(TokenFor[t]) = v
        <4>1. CASE k = TokenFor[t]
          BY <2>1, <4>1, NoneAssumption DEF ResolveKey
        <4>2. CASE k \in answers[TokenFor[t]]
          <5>1. k \in Vid /\ k = Resolve(TokenFor[t])
            BY <1>0, <2>1, <4>2 DEF OneVisitPerStart, TypeOK
          <5>2. QED
            BY <2>3, <2>6, <5>1 DEF ResolveKey
        <4>3. QED
          BY <4>1, <4>2
      <3>3. visitStatus[v] \in {"open", "completed"}
        BY <1>0, <2>3, <2>6, <3>1 DEF TypeOK, VisitStatus, Exists
      <3>4. /\ UNCHANGED <<visitStatus, clientVisitId, alias, reportToken>>
            /\ Resolve(TokenFor[t])' = Resolve(TokenFor[t])
        BY <1>3 DEF ConfirmBegin, Resolve, ColumnVisits, Exists
      <3> HIDE DEF v
      <3>5. QED
        BY <2>3, <2>4, <2>6, <3>1, <3>2, <3>3, <3>4 DEF Undisturbed, ReportsWith
    <2>7. QED
      BY <2>3, <2>5, <2>6
  <1>4. CASE CreateLookup(r)
    <2> DEFINE c == req[r].cid
    <2>1. c \in CId
      BY <1>0, <1>4 DEF CreateLookup, HandlersKnow, HandlerKnows
    <2>2. CASE Resolve(c) # None
      <3>1. req'[r].pc = "sent"
        BY <1>0, <1>4, <2>2 DEF CreateLookup, Answer, TypeOK
      <3>2. QED
        BY <3>1 DEF Undisturbed
    <2>3. CASE Resolve(c) = None
      <3>1. req'[r].pc \in {"insert", "slot"} /\ req'[r].cid = c
        BY <1>0, <1>4, <2>3 DEF CreateLookup, Continue, TypeOK
      <3>2. Resolve(req[r].cid)' = Resolve(c)
        BY <1>4, <3>1 DEF CreateLookup, Resolve, ColumnVisits, Exists
      <3>3. QED
        BY <2>3, <3>1, <3>2 DEF Undisturbed
    <2>4. QED
      BY <2>2, <2>3
  <1>5. CASE CreateSlot(r)
    <2>1. /\ req'[r].pc \in {"insert", "adopt"} /\ req'[r].cid = req[r].cid
          /\ req'[r].pc = "adopt" => visitStatus[req'[r].vid] = "open"
      BY <1>0, <1>5 DEF CreateSlot, SlotVisits, TypeOK
    <2>2. Resolve(req[r].cid) = None
      BY <1>5 DEF CreateSlot, Undisturbed
    <2>3. Resolve(req[r].cid)' = Resolve(req[r].cid) /\ visitStatus' = visitStatus
      BY <1>5, <2>1 DEF CreateSlot, Resolve, ColumnVisits, Exists
    <2>4. QED
      BY <2>1, <2>2, <2>3 DEF Undisturbed
  <1>6. CASE \/ CreateAdopt(r) \/ CreateInsert(r) \/ CreateInsertConflict(r)
             \/ ConfirmTx(r) \/ ConfirmTxFails(r) \/ ConfirmRaced(r)
    <2>1. PICK outcome, v :
             outcome \in {"sent", "queue", "rejected"} /\ Answer(r, outcome, v)
      BY <1>6 DEF CreateAdopt, CreateInsert, CreateInsertConflict, ConfirmTx,
                  ConfirmTxFails, ConfirmRaced
    <2>2. req'[r].pc = outcome
      BY <1>0, <2>1 DEF Answer, TypeOK
    <2>3. QED
      BY <2>1, <2>2 DEF Undisturbed
  <1>7. CASE CancelTx(r) \/ UpdateTx(r) \/ RemoveTx(r) \/ HandlerFails(r) \/ Release(r)
    <2>1. req'[r].pc \in {"idle", "queue"}
      BY <1>0, <1>7 DEF CancelTx, UpdateTx, RemoveTx, HandlerFails, Release,
                        Idle, TypeOK
    <2>2. QED
      BY <2>1 DEF Undisturbed
  <1>8. CASE \E v \in Vid : CancelBegin(r, v)
    BY <1>0, <1>8 DEF CancelBegin, Undisturbed, Idle, TypeOK
  <1>9. CASE \E v \in Vid, s \in VisitStatus : UpdateBegin(r, v, s)
    BY <1>0, <1>9 DEF UpdateBegin, Undisturbed, Idle, TypeOK
  <1>10. CASE \E i \in Item : RemoveBegin(r, i)
    BY <1>0, <1>10 DEF RemoveBegin, Undisturbed, Idle, TypeOK
  <1>11. QED
    BY <1>0, <1>2, <1>3, <1>4, <1>5, <1>6, <1>7, <1>8, <1>9, <1>10, Mover
    DEF HandlerStep

\* Every visit a start is answered with is the one its client id resolves to.
LEMMA AnswersResolve ==
    ASSUME Inv, OneVisitPerStart, \A r \in Req : Undisturbed(r), [Next]_vars
    PROVE  OneVisitPerStart'
  <1> USE DEF rowVars, envVars
  <1>0. TypeOK /\ HandlersKnow /\ AnsweredStartResolves
    BY DEF Inv
  <1> SUFFICES ASSUME NEW c \in CId, NEW v, v \in answers'[c]
               PROVE  v = Resolve(c)'
    BY DEF OneVisitPerStart
  <1>1. CASE v \in answers[c]
    <2>1. Resolve(c) = v /\ Resolve(c) # None
      BY <1>0, <1>1 DEF OneVisitPerStart, AnsweredStartResolves
    <2>2. QED
      BY <1>0, <2>1, ResolvedForGood
  <1>2. CASE v \notin answers[c]
    <2>1. answers'[c] # answers[c]
      BY <1>2
    <2>2. PICK r \in Req :
             \/ CreateLookup(r) \/ CreateAdopt(r) \/ CreateInsert(r)
             \/ CreateInsertConflict(r) \/ ConfirmTx(r) \/ ConfirmTxFails(r)
             \/ ConfirmRaced(r)
      BY <2>1
      DEF Next, HandlerStep, ManagerStep, Environment, vars, CreateBegin,
          ConfirmBegin, CreateSlot, CancelTx, UpdateTx, RemoveTx, HandlerFails,
          Release, CancelBegin, UpdateBegin, RemoveBegin, EditItem, Invalidate,
          WindowCloses
    <2>3. ASSUME NEW w, NEW outcome, Answer(r, outcome, w)
          PROVE  req[r].cid = c /\ w = v
      BY <1>0, <1>2, <2>3 DEF Answer, TypeOK
    <2>4. CASE CreateLookup(r)
      <3>1. req[r].cid = c /\ Resolve(c) = v /\ Resolve(c) # None
        BY <2>1, <2>3, <2>4 DEF CreateLookup, Continue
      <3>2. QED
        BY <1>0, <3>1, ResolvedForGood
    <2>5. CASE CreateAdopt(r)
      <3>1. req[r].cid = c /\ req[r].vid = v
        BY <2>3, <2>5 DEF CreateAdopt
      <3>2. QED
        BY <1>0, <2>5, <3>1, ResolveAdopted
    <2>6. CASE CreateInsert(r)
      <3>1. PICK w \in Vid :
                /\ ~Exists(w)
                /\ visitStatus' = [visitStatus EXCEPT ![w] = "open"]
                /\ clientVisitId' = [clientVisitId EXCEPT ![w] = req[r].cid]
                /\ Answer(r, "sent", w)
        BY <2>6 DEF CreateInsert
      <3>2. req[r].cid = c /\ w = v
        BY <2>3, <3>1
      <3>3. Resolve(c)' = w
        BY <1>0, <2>6, <3>1, <3>2, ResolveInserted
      <3>4. QED
        BY <3>2, <3>3
    <2>7. CASE CreateInsertConflict(r)
      <3>1. req[r].cid = c
        BY <2>3, <2>7 DEF CreateInsertConflict
      <3>2. ColumnVisits(c) = {}
        BY <1>0, <2>7, <3>1, ResolveFound DEF CreateInsertConflict, Undisturbed
      <3>3. answers' = answers
        BY <2>7, <3>1, <3>2 DEF CreateInsertConflict, Answer
      <3>4. QED
        BY <2>1, <3>3
    <2>8. CASE ConfirmTx(r) \/ ConfirmTxFails(r) \/ ConfirmRaced(r)
      <3>1. req[r].cid = None
        BY <1>0, <2>8 DEF ConfirmTx, ConfirmTxFails, ConfirmRaced, HandlersKnow,
                          HandlerKnows
      <3>2. answers' = answers
        BY <2>8, <3>1 DEF ConfirmTx, ConfirmTxFails, ConfirmRaced, Answer
      <3>3. QED
        BY <2>1, <3>2
    <2>9. QED
      BY <2>2, <2>4, <2>5, <2>6, <2>7, <2>8
  <1>3. QED
    BY <1>1, <1>2

\* A report is written on the visit its token's start resolved to when the
\* confirm began, and still does.
LEMMA ReportsResolve ==
    ASSUME Inv, ReportOnResolved, \A r \in Req : Undisturbed(r), [Next]_vars
    PROVE  ReportOnResolved'
  <1>0. TypeOK /\ HandlersKnow
    BY DEF Inv
  <1> SUFFICES ASSUME NEW v \in Vid, NEW t \in Token, reportToken'[v] = t
               PROVE  Resolve(TokenFor[t])' = v
    BY DEF ReportOnResolved
  <1>1. TokenFor[t] \in CId /\ v # None
    BY ConstantFunctionsAssumption, NoneAssumption
  <1>2. Resolve(TokenFor[t]) = v
    <2>1. CASE reportToken[v] = t
      BY <2>1 DEF ReportOnResolved
    <2>2. CASE reportToken[v] # t
      <3>1. PICK r \in Req : ConfirmTx(r)
        BY <2>2
        DEF Next, HandlerStep, ManagerStep, Environment, vars, rowVars,
            CreateBegin, ConfirmBegin, CreateLookup, CreateSlot, CreateAdopt,
            CreateInsert, CreateInsertConflict, ConfirmTxFails, ConfirmRaced,
            CancelTx, UpdateTx, RemoveTx, HandlerFails, Release, CancelBegin,
            UpdateBegin, RemoveBegin, EditItem, Invalidate, WindowCloses
      <3>2. v = req[r].vid /\ t = req[r].token
        BY <1>0, <2>2, <3>1 DEF ConfirmTx, TypeOK
      <3>3. QED
        BY <3>1, <3>2 DEF ConfirmTx, Undisturbed
    <2>3. QED
      BY <2>1, <2>2
  <1>3. QED
    BY <1>0, <1>1, <1>2, ResolvedForGood

\* At first nothing runs and nothing was answered.
LEMMA SerialInit == Init => SerialInv
  <1> SUFFICES ASSUME Init
               PROVE  SerialInv
    OBVIOUS
  <1>1. Inv
    BY InitInv
  <1>2. Alone /\ \A r \in Req : Undisturbed(r)
    BY DEF Init, Idle, Alone, Running, Undisturbed
  <1>3. OneVisitPerStart
    BY DEF Init, OneVisitPerStart
  <1>4. ReportOnResolved
    <2>1. NoReport \notin Token
      BY NoReportAssumption
    <2>2. QED
      BY <2>1 DEF Init, ReportOnResolved
  <1>5. QED
    BY <1>1, <1>2, <1>3, <1>4 DEF SerialInv

\* A handler that moves meets the rows as it left them.
LEMMA SerialStep == SerialInv /\ [SerialNext]_vars => SerialInv'
  <1> SUFFICES ASSUME SerialInv, [SerialNext]_vars
               PROVE  SerialInv'
    OBVIOUS
  <1>1. [Next]_vars
    BY DEF SerialNext
  <1>2. /\ Inv /\ TypeOK /\ Alone /\ \A r \in Req : Undisturbed(r)
        /\ OneVisitPerStart /\ ReportOnResolved
    BY DEF SerialInv, Inv
  <1>3. Inv'
    BY <1>1, <1>2, StepInv
  <1>4. Alone'
    BY <1>2, AloneStays
  <1>5. ASSUME NEW r \in Req
        PROVE  Undisturbed(r)'
    <2>1. CASE req'[r] = req[r]
      BY <1>2, <2>1, WaitingUndisturbed
    <2>2. CASE req'[r] # req[r]
      BY <1>1, <1>2, <2>2, MovedUndisturbed
    <2>3. QED
      BY <2>1, <2>2
  <1>6. OneVisitPerStart' /\ ReportOnResolved'
    BY <1>1, <1>2, AnswersResolve, ReportsResolve
  <1>7. QED
    BY <1>3, <1>4, <1>5, <1>6 DEF SerialInv

\* The invariant of handlers that do not overlap always holds of them.
LEMMA SerialInvAlways == SerialSpec => []SerialInv
  BY SerialInit, SerialStep, PTL DEF SerialSpec

\* Handlers that do not overlap never answer one start with two visits, for any
\* number of starts, stops and requests, whatever fails between their round
\* trips (visits.service.ts:427-445).
THEOREM OneVisitPerStartWhenSerial == SerialSpec => []OneVisitPerStart
  <1>1. SerialInv => OneVisitPerStart
    BY DEF SerialInv
  <1>2. QED
    BY <1>1, SerialInvAlways, PTL

\* "A client id maps to one visit for good" (schema.prisma:1000): true of
\* handlers that do not overlap.
THEOREM ClientIdForGoodWhenSerial == SerialSpec => ClientIdForGood
  <1>1. SerialInv /\ [SerialNext]_vars =>
           [\A c \in CId : Resolve(c) # None => Resolve(c)' = Resolve(c)]_vars
    BY ResolvedForGood DEF SerialInv, Inv, SerialNext
  <1>2. QED
    BY <1>1, SerialInvAlways, PTL DEF SerialSpec, ClientIdForGood
-----------------------------------------------------------------------------
(* Handlers that do not overlap implement the ledger.                      *)

\* A start that inserts or adopts has its answer from then on.
LEMMA CreatesMove ==
    ASSUME TypeOK, NEW r \in Req, CreateInsert(r) \/ CreateAdopt(r)
    PROVE  req'[r] # req[r]
  <1>1. PICK v : Answer(r, "sent", v)
    BY DEF CreateInsert, CreateAdopt
  <1>2. req'[r].pc = "sent"
    BY <1>1 DEF Answer, TypeOK
  <1>3. req[r].pc # "sent"
    BY DEF CreateInsert, CreateAdopt
  <1>4. QED
    BY <1>2, <1>3

\* What the ledger sees of a step that writes none of its columns.
LEMMA LedgerStutters ==
    ASSUME UNCHANGED <<visitStatus, reportToken, reportRev>>,
           \A c \in CId : Resolve(c)' = Resolve(c)
    PROVE  UNCHANGED Ledger!vars
  BY DEF Ledger!vars

\* ... and of one that gives the start c its visit v.
LEMMA LedgerTies ==
    ASSUME NEW c \in CId, NEW v, Resolve(c)' = v,
           \A d \in CId \ {c} : Resolve(d)' = Resolve(d)
    PROVE  [d \in CId |-> Resolve(d)]' = [[d \in CId |-> Resolve(d)] EXCEPT ![c] = v]
  OBVIOUS

\* Each round trip that writes is one operation of the ledger, the others none.
LEMMA LedgerStep ==
    ASSUME SerialInv, [SerialNext]_vars
    PROVE  [Ledger!Next]_Ledger!vars
  <1> USE DEF rowVars, envVars
  <1>0. /\ TypeOK /\ HandlersKnow /\ [Next]_vars
        /\ \A r \in Req : Undisturbed(r)
    BY DEF SerialInv, Inv, SerialNext
  <1>1. ASSUME NEW r \in Req, CreateInsert(r)
        PROVE  Ledger!Next
    <2>1. PICK v \in Vid :
              /\ ~Exists(v)
              /\ visitStatus' = [visitStatus EXCEPT ![v] = "open"]
              /\ clientVisitId' = [clientVisitId EXCEPT ![v] = req[r].cid]
      BY <1>1 DEF CreateInsert
    <2>2. PICK c \in CId : req[r].cid = c
      BY <1>0, <1>1 DEF CreateInsert, HandlersKnow, HandlerKnows
    <2>3. Resolve(c) = None /\ Resolve(c)' = v
      BY <1>0, <1>1, <2>1, <2>2, ResolveInserted
    <2>4. ASSUME NEW d \in CId \ {c}
          PROVE  Resolve(d)' = Resolve(d)
      <3>1. ASSUME NEW q \in Req, req[q].cid = d, CreateInsert(q) \/ CreateAdopt(q)
            PROVE  FALSE
        <4>1. q = r
          BY <1>0, <1>1, <3>1, CreatesMove, Mover
        <4>2. QED
          BY <2>2, <3>1, <4>1
      <3>2. QED
        BY <1>0, <3>1, ResolveStays
    <2>5. [d \in CId |-> Resolve(d)]' = [[d \in CId |-> Resolve(d)] EXCEPT ![c] = v]
      BY <2>3, <2>4, LedgerTies
    <2>6. Ledger!Open(c, v)
      BY <1>1, <2>1, <2>3, <2>5 DEF Ledger!Open, CreateInsert, Exists
    <2>7. QED
      BY <2>6 DEF Ledger!Next
  <1>2. ASSUME NEW r \in Req, CreateAdopt(r)
        PROVE  Ledger!Next
    <2>2. PICK c \in CId : req[r].cid = c
      BY <1>0, <1>2 DEF CreateAdopt, HandlersKnow, HandlerKnows
    <2>3. PICK v \in Vid : req[r].vid = v
      BY <1>0, <1>2 DEF CreateAdopt, HandlersKnow, HandlerKnows
    <2>4. Resolve(c) = None /\ Resolve(c)' = v
      BY <1>0, <1>2, <2>2, <2>3, ResolveAdopted
    <2>5. ASSUME NEW d \in CId \ {c}
          PROVE  Resolve(d)' = Resolve(d)
      <3>1. ASSUME NEW q \in Req, req[q].cid = d, CreateInsert(q) \/ CreateAdopt(q)
            PROVE  FALSE
        <4>1. q = r
          BY <1>0, <1>2, <3>1, CreatesMove, Mover
        <4>2. QED
          BY <2>2, <3>1, <4>1
      <3>2. QED
        BY <1>0, <3>1, ResolveStays
    <2>6. [d \in CId |-> Resolve(d)]' = [[d \in CId |-> Resolve(d)] EXCEPT ![c] = v]
      BY <2>4, <2>5, LedgerTies
    <2>7. Ledger!Adopt(c, v)
      BY <1>0, <1>2, <2>3, <2>4, <2>6 DEF Ledger!Adopt, CreateAdopt, Undisturbed
    <2>8. QED
      BY <2>7 DEF Ledger!Next
  <1>3. ASSUME ~\E r \in Req : CreateInsert(r) \/ CreateAdopt(r)
        PROVE  [Ledger!Next]_Ledger!vars
    <2>1. \A c \in CId : Resolve(c)' = Resolve(c)
      BY <1>0, <1>3, ResolveStays
    <2>2. [c \in CId |-> Resolve(c)]' = [c \in CId |-> Resolve(c)]
      BY <2>1
    <2>3. ASSUME NEW r \in Req, ConfirmTx(r)
          PROVE  Ledger!Next
      <3>1. PICK v \in Vid, t \in Token : req[r].vid = v /\ req[r].token = t
        BY <1>0, <2>3 DEF ConfirmTx, HandlersKnow, HandlerKnows, Undisturbed
      <3>2. visitStatus[v] \in {"open", "completed"} /\ \A w \in Vid : reportToken[w] # t
        BY <1>0, <2>3, <3>1 DEF ConfirmTx, Undisturbed, ReportsWith
      <3>3. Ledger!Write(v, t)
        BY <2>2, <2>3, <3>1, <3>2 DEF Ledger!Write, ConfirmTx
      <3>4. QED
        BY <3>3 DEF Ledger!Next
    <2>4. ASSUME NEW r \in Req, CancelTx(r)
          PROVE  Ledger!Next
      <3>1. PICK v \in Vid : req[r].vid = v
        BY <1>0, <2>4 DEF CancelTx, HandlersKnow, HandlerKnows
      <3>2. Ledger!Cancel(v)
        BY <1>0, <2>2, <2>4, <3>1 DEF Ledger!Cancel, CancelTx, Undisturbed
      <3>3. QED
        BY <3>2 DEF Ledger!Next
    <2>5. ASSUME NEW r \in Req, UpdateTx(r)
          PROVE  Ledger!Next
      <3>1. PICK v \in Vid, s \in {"open", "completed"} :
               req[r].vid = v /\ req[r].to = s
        BY <1>0, <2>5 DEF UpdateTx, HandlersKnow, HandlerKnows
      <3>2. Ledger!Update(v, s)
        BY <1>0, <2>2, <2>5, <3>1 DEF Ledger!Update, UpdateTx, Undisturbed
      <3>3. QED
        BY <3>2 DEF Ledger!Next
    <2>6. CASE UNCHANGED <<visitStatus, reportToken, reportRev>>
      BY <2>1, <2>6, LedgerStutters
    <2>7. QED
      BY <1>0, <1>3, <2>3, <2>4, <2>5, <2>6
      DEF Next, HandlerStep, ManagerStep, Environment, vars, CreateBegin,
          ConfirmBegin, CreateLookup, CreateSlot, CreateInsertConflict,
          ConfirmTxFails, ConfirmRaced, RemoveTx, HandlerFails, Release,
          CancelBegin, UpdateBegin, RemoveBegin, EditItem, Invalidate,
          WindowCloses
  <1>4. QED
    BY <1>1, <1>2, <1>3

\* Nothing is tied, open or reported at first.
LEMMA LedgerInit == Init => Ledger!Init
  <1> SUFFICES ASSUME Init
               PROVE  Ledger!Init
    OBVIOUS
  <1>1. \A c \in CId : ColumnVisits(c) = {} /\ alias[c] = None
    BY DEF Init, ColumnVisits, Exists
  <1>2. \A c \in CId : Resolve(c) = None
    BY <1>1 DEF Resolve
  <1>3. QED
    BY <1>2 DEF Init, Ledger!Init

\* Handlers that do not overlap implement VisitLedger: a start is tied to one
\* visit for good, closed visits reopen only from completed, cancelled is
\* final, and a report is written once per confirm (visits.service.ts:425-560,
\* 1005-1110).
THEOREM ImplementsLedgerWhenSerial == SerialSpec => LedgerSpec
  <1>1. Init => Ledger!Init
    BY LedgerInit
  <1>2. SerialInv /\ [SerialNext]_vars => [Ledger!Next]_Ledger!vars
    BY LedgerStep
  <1>3. QED
    BY <1>1, <1>2, SerialInvAlways, PTL DEF SerialSpec, LedgerSpec, Ledger!Spec
=============================================================================
