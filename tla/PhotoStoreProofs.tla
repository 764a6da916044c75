-------------------------- MODULE PhotoStoreProofs --------------------------
(***************************************************************************)
(* Proofs about PhotoStore, for any number of registrations and handlers.  *)
(***************************************************************************)
EXTENDS PhotoStore, TLAPS

\* Ids are only ever handed out for rows that exist.
KnownExist ==
    \A o \in Obj : status[o] = "none" => o \notin batch \cup {held, attached, pending}

\* The worker only holds rows whose expiry was not ahead when it read them, and
\* an expiry is never pushed back.
BatchIsDue == \A o \in batch : expiry[o] # "ahead"

\* A handler that created a row answers with that row.
CreatedExist ==
    \A h \in Handler : reg[h].pc = "created"
        => reg[h].obj \in Obj /\ status[reg[h].obj] # "none"

Inv == TypeOK /\ CreatedExist /\ KnownExist /\ BatchIsDue /\ UploadedStaysInWindow

\* No photo is registered at first, so the invariant holds.
LEMMA InitInv == Init => Inv
  BY PhotoNoneAssumption
  DEF Init, Inv, TypeOK, CreatedExist, KnownExist, BatchIsDue, UploadedStaysInWindow,
      IdleHandler

\* Every step of the form, the API, the worker and the clocks keeps the types.
LEMMA StepTypes ==
    ASSUME TypeOK, CreatedExist, [Next]_vars
    PROVE  TypeOK'
  <1> USE DEF TypeOK, rowVars, workerVars, formVars
  <1>1. CASE UNCHANGED vars
    BY <1>1 DEF vars
  <1>2. ASSUME NEW h \in Handler, RegisterSweep(h)
        PROVE  TypeOK'
    BY <1>2 DEF RegisterSweep
  <1>3. ASSUME NEW h \in Handler, RegisterCommit(h)
        PROVE  TypeOK'
    <2>1. PICK n \in Obj :
             reg' = [reg EXCEPT ![h] = [pc |-> "created", seen |-> {}, obj |-> n]]
      BY <1>3 DEF RegisterCommit
    <2>2. reg' \in [Handler -> [pc : {"idle", "swept", "created"},
                                seen : SUBSET Obj, obj : Obj \cup {None}]]
      BY <2>1
    <2>3. /\ status' \in [Obj -> {"none", "active", "expired", "deleted"}]
          /\ expiry' \in [Obj -> {"ahead", "past", "null"}]
      BY <1>3 DEF RegisterCommit
    <2>4. QED
      BY <1>3, <2>2, <2>3 DEF RegisterCommit
  <1>4. ASSUME NEW h \in Handler, RegisterAnswered(h)
        PROVE  TypeOK'
    <2>1. reg[h].obj \in Obj
      BY <1>4 DEF RegisterAnswered, CreatedExist
    <2>2. QED
      BY <1>4, <2>1 DEF RegisterAnswered, IdleHandler
  <1>5. ASSUME NEW h \in Handler, RegisterUnheard(h)
        PROVE  TypeOK'
    BY <1>5 DEF RegisterUnheard, IdleHandler
  <1>6. CASE Resign \/ Discard \/ PressSave \/ ConfirmTx
    BY <1>6 DEF Resign, Discard, PressSave, ConfirmTx
  <1>7. CASE SweepRead \/ SweepCrash
    BY <1>7 DEF SweepRead, SweepCrash
  <1>8. ASSUME NEW o \in Obj,
               Put(o) \/ SweepDelete(o) \/ SweepMark(o) \/ SweepSkip(o)
               \/ ExpiryPasses(o) \/ UrlExpires(o)
        PROVE  TypeOK'
    BY <1>8 DEF Put, SweepDelete, SweepMark, SweepSkip, ExpiryPasses, UrlExpires
  <1>9. QED
    BY <1>1, <1>2, <1>3, <1>4, <1>5, <1>6, <1>7, <1>8 DEF Next

\* Who knows a row, and the worker's batch, keep up with every step; a new row
\* is one nobody knows yet.
LEMMA StepInv == Inv /\ [Next]_vars => Inv'
  <1> SUFFICES ASSUME Inv, [Next]_vars
               PROVE  CreatedExist' /\ KnownExist' /\ BatchIsDue'
                      /\ UploadedStaysInWindow'
    BY StepTypes DEF Inv
  <1> USE DEF Inv, TypeOK, CreatedExist, KnownExist, BatchIsDue,
              UploadedStaysInWindow, rowVars, workerVars, formVars
  <1> DEFINE Goal == CreatedExist' /\ KnownExist' /\ BatchIsDue'
                     /\ UploadedStaysInWindow'
  <1>1. CASE UNCHANGED vars
    BY <1>1 DEF vars
  <1>2. ASSUME NEW h \in Handler, RegisterSweep(h) \/ RegisterUnheard(h)
        PROVE  Goal
    BY <1>2 DEF RegisterSweep, RegisterUnheard, IdleHandler
  <1>3. ASSUME NEW h \in Handler, RegisterCommit(h)
        PROVE  Goal
    <2> DEFINE superseded == {o \in reg[h].seen : Unclaimed(o)}
    <2>0. PICK n \in Obj :
             /\ status[n] = "none"
             /\ status' = [o \in Obj |-> IF o = n THEN "active"
                                         ELSE IF o \in superseded THEN "expired"
                                         ELSE status[o]]
             /\ expiry' = [o \in Obj |-> IF o = n THEN "ahead"
                                         ELSE IF o \in superseded THEN "past"
                                         ELSE expiry[o]]
             /\ reg' = [reg EXCEPT ![h] = [pc |-> "created", seen |-> {}, obj |-> n]]
      BY <1>3 DEF RegisterCommit
    <2>1. /\ status[n] = "none"
          /\ status'[n] = "active"
          /\ \A o \in Obj \ {n} : /\ status'[o] = "none" <=> status[o] = "none"
                                  /\ expiry'[o] = "ahead" => expiry[o] = "ahead"
          /\ reg' = [reg EXCEPT ![h] = [pc |-> "created", seen |-> {}, obj |-> n]]
      BY <2>0 DEF Unclaimed
    <2>2. n \notin batch \cup {held, attached, pending}
      BY <2>1
    <2>3. UNCHANGED <<bytes, batch, held, attached, pending>>
      BY <1>3 DEF RegisterCommit
    <2>4. CreatedExist'
      <3> SUFFICES ASSUME NEW g \in Handler, reg'[g].pc = "created"
                   PROVE  reg'[g].obj \in Obj /\ status'[reg'[g].obj] # "none"
        OBVIOUS
      <3>1. CASE g = h
        BY <2>1, <3>1
      <3>2. CASE g # h
        <4>1. reg'[g] = reg[g]
          BY <2>1, <3>2
        <4>2. QED
          BY <2>1, <4>1
      <3>3. QED
        BY <3>1, <3>2
    <2>5. KnownExist' /\ BatchIsDue' /\ UploadedStaysInWindow'
      BY <2>1, <2>2, <2>3, PhotoNoneAssumption
    <2>6. QED
      BY <2>4, <2>5
  <1>4. ASSUME NEW h \in Handler, RegisterAnswered(h)
        PROVE  Goal
    BY <1>4 DEF RegisterAnswered, IdleHandler
  <1>5. CASE Resign \/ Discard \/ PressSave
    <2>1. CASE Resign
      BY <2>1, PhotoNoneAssumption DEF Resign
    <2>2. CASE Discard
      BY <2>2, PhotoNoneAssumption DEF Discard
    <2>3. CASE PressSave
      BY <2>3 DEF PressSave
    <2>4. QED
      BY <1>5, <2>1, <2>2, <2>3
  <1>6. CASE ConfirmTx
    <2>1. pending \in Obj
      BY <1>6 DEF ConfirmTx
    <2>2. \A o \in Obj : /\ status'[o] = "none" => status[o] = "none"
                         /\ expiry'[o] = "ahead" => expiry[o] = "ahead"
      BY <1>6, <2>1 DEF ConfirmTx
    <2>3. UNCHANGED <<bytes, reg, batch, held, attached>> /\ pending' = None
      BY <1>6 DEF ConfirmTx
    <2>4. QED
      BY <2>2, <2>3, PhotoNoneAssumption
  <1>7. CASE SweepRead \/ SweepCrash
    BY <1>7 DEF SweepRead, SweepCrash, Due
  <1>8. ASSUME NEW o \in Obj,
               Put(o) \/ SweepDelete(o) \/ SweepMark(o) \/ SweepSkip(o)
               \/ ExpiryPasses(o) \/ UrlExpires(o)
        PROVE  Goal
    <2>1. CASE Put(o)
      <3>1. CreatedExist' /\ KnownExist' /\ BatchIsDue'
        BY <2>1, PhotoNoneAssumption DEF Put
      <3>2. UploadedStaysInWindow'
        BY <2>1, PhotoNoneAssumption DEF Put
      <3>3. QED
        BY <3>1, <3>2
    <2>2. CASE SweepDelete(o)
      BY <2>2 DEF SweepDelete
    <2>3. CASE SweepMark(o) \/ SweepSkip(o)
      BY <2>3 DEF SweepMark, SweepSkip
    <2>4. CASE ExpiryPasses(o) \/ UrlExpires(o)
      BY <2>4 DEF ExpiryPasses, UrlExpires
    <2>5. QED
      BY <1>8, <2>1, <2>2, <2>3, <2>4
  <1>9. QED
    BY <1>1, <1>2, <1>3, <1>4, <1>5, <1>6, <1>7, <1>8 DEF Next

\* The rows, the registrations in progress, the worker's batch and the form keep
\* their types: in particular what the worker has deleted and
\* not marked is part of the batch it read (storage.service.ts:120-188).
THEOREM PhotoTypesAlways == Spec => []TypeOK
  <1>1. Inv => TypeOK
    BY DEF Inv
  <1>2. QED
    BY <1>1, InitInv, StepInv, PTL DEF Spec

\* An uploaded photo stays in the bucket for the 24 hours it was promised,
\* against every registration, sweep and crash (storage.service.ts:120-181).
THEOREM UploadedAlwaysStaysInWindow == Spec => []UploadedStaysInWindow
  <1>1. Inv => UploadedStaysInWindow
    BY DEF Inv
  <1>2. QED
    BY <1>1, InitInv, StepInv, PTL DEF Spec

\* A step keeps a claimed photo the worker does not hold.
LEMMA StepKeeps ==
    ASSUME TypeOK, [Next]_vars, NEW o \in Obj, Kept(o)
    PROVE  Kept(o)'
  <1> USE DEF TypeOK, Kept, Unclaimed, rowVars, workerVars, formVars
  <1>1. CASE UNCHANGED vars
    BY <1>1 DEF vars
  <1>2. ASSUME NEW h \in Handler,
               RegisterSweep(h) \/ RegisterCommit(h) \/ RegisterAnswered(h)
               \/ RegisterUnheard(h)
        PROVE  Kept(o)'
    BY <1>2 DEF RegisterSweep, RegisterCommit, RegisterAnswered, RegisterUnheard
  <1>3. CASE Resign \/ Discard \/ PressSave
    BY <1>3 DEF Resign, Discard, PressSave
  <1>4. CASE ConfirmTx
    BY <1>4 DEF ConfirmTx
  <1>5. CASE SweepRead \/ SweepCrash
    BY <1>5 DEF SweepRead, SweepCrash, Due
  <1>6. ASSUME NEW p \in Obj,
               Put(p) \/ SweepDelete(p) \/ SweepMark(p) \/ SweepSkip(p)
               \/ ExpiryPasses(p) \/ UrlExpires(p)
        PROVE  Kept(o)'
    BY <1>6 DEF Put, SweepDelete, SweepMark, SweepSkip, ExpiryPasses, UrlExpires
  <1>7. QED
    BY <1>1, <1>2, <1>3, <1>4, <1>5, <1>6 DEF Next

\* A photo claimed while the worker does not hold it is out of reach of every
\* registration and every later sweep (visits.service.ts:907-919, 1161-1180).
THEOREM ClaimAlwaysPermanent == Spec => ClaimIsPermanent
  <1>1. Inv /\ [Next]_vars => [\A o \in Obj : Kept(o) => Kept(o)']_vars
    BY StepKeeps DEF Inv
  <1>2. QED
    BY <1>1, InitInv, StepInv, PTL DEF Spec, ClaimIsPermanent
=============================================================================
