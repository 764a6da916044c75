------------------------- MODULE TenantPurgeProofs -------------------------
(***************************************************************************)
(* Proofs about TenantPurge, for any tenants, objects, tables and order of *)
(* deletion. OrphanAlwaysLate and TypesAlways hold however requests of the *)
(* owner and runs of the worker overlap; MarkedStaysArchived,              *)
(* PurgedIsEmpty and SessionsEnd for one request and one run at a time.    *)
(***************************************************************************)
EXTENDS TenantPurge, FiniteSetTheorems, SequenceTheorems, TLAPS

\* The part of the types the argument needs.
Shape ==
    /\ object \in [Object -> {"none", "active", "deleted"}]
    /\ bucket \subseteq Object /\ url \subseteq Object
    /\ pc \in [Worker -> {"off", "pilots", "autoArchive", "tenants", "claim",
                          "objects", "mark", "tables", "finish"}]
    /\ list = [w \in Worker |-> list[w]]
    /\ marked = [w \in Worker |-> marked[w]]
    /\ left \in [Worker -> SUBSET Object]
    /\ erased \in [Worker -> Object \cup {None}]
    /\ failed \in [Worker -> BOOLEAN]

On(w) == Head(list[w])
Purging(w) == pc[w] \in {"claim", "objects", "mark", "tables", "finish"}

\* A run only works on tenants that are claimed for good.
OnlyClaimed ==
    \A w \in Worker : /\ marked[w] \subseteq started
                      /\ Purging(w) => On(w) \in started

\* Until its tenant is claimed, a presigned URL belongs to a row.
UrlHasRow == \A o \in url : object[o] = "active" \/ ObjectTenant[o] \in started

\* What a run still has to delete, and has deleted, of its tenant's objects.
LeftIsOwn ==
    \A w \in Worker :
        /\ \A o \in left[w] : ObjectTenant[o] = On(w)
        /\ pc[w] = "mark" => /\ erased[w] \in Object
                             /\ ObjectTenant[erased[w]] = On(w)
                             /\ erased[w] \in bucket => erased[w] \in late

\* A pass that has not failed leaves nothing of its tenant in the bucket but
\* what it has yet to visit and what was uploaded since the claim.
PassLeavesLate ==
    \A w \in Worker : \A o \in bucket :
        /\ pc[w] \in {"objects", "mark"} /\ ~failed[w] /\ ObjectTenant[o] = On(w)
              => o \in left[w] \cup late
        /\ pc[w] \in {"tables", "finish"} /\ ObjectTenant[o] = On(w)
              => o \in late

Inv == /\ Shape /\ OnlyClaimed /\ UrlHasRow /\ LeftIsOwn /\ PassLeavesLate
       /\ OrphanWasLate

\* No object and no run at first.
LEMMA InitInv == Init => Inv
  BY DEF Init, Inv, Shape, OnlyClaimed, UrlHasRow, LeftIsOwn, PassLeavesLate,
         OrphanWasLate, Purging, On

\* Steps outside the purge: rows and URLs only appear together, and an upload
\* into a claimed tenant is late.
LEMMA UseKeeps ==
    ASSUME Inv, NEW o \in Object, Presign(o) \/ Put(o) \/ UrlExpires(o)
    PROVE  Inv'
  <1> USE DEF Inv, Shape, OnlyClaimed, UrlHasRow, LeftIsOwn, PassLeavesLate,
              OrphanWasLate, Purging, On, tenantVars, workerVars, passVars
  <1>1. CASE Presign(o)
    BY <1>1 DEF Presign
  <1>2. CASE Put(o)
    <2>1. UNCHANGED <<started, object, url, workerVars>> /\ late \subseteq late'
      BY <1>2 DEF Put
    <2>2. bucket' = bucket \cup {o} /\ o \in url
      BY <1>2 DEF Put
    <2>3. ObjectTenant[o] \in started => o \in late'
      BY <1>2 DEF Put
    <2>4. OnlyClaimed' /\ UrlHasRow' /\ Shape'
      BY <2>1, <2>2
    <2>5. OrphanWasLate'
      BY <2>1, <2>2, <2>3
    <2>6. LeftIsOwn' /\ PassLeavesLate'
      <3>1. \A w \in Worker : Purging(w) /\ ObjectTenant[o] = On(w) => o \in late'
        BY <2>3
      <3>2. QED
        BY <2>1, <2>2, <3>1
    <2>7. QED
      BY <2>4, <2>5, <2>6
  <1>3. CASE UrlExpires(o)
    BY <1>3 DEF UrlExpires
  <1>4. QED
    BY <1>1, <1>2, <1>3

\* A run that looks for work, passes a tenant over or ends holds nothing.
LEMMA StartKeeps ==
    ASSUME Inv, UNCHANGED <<started, storeVars>>, NEW w \in Worker,
           NEW to \in {"off", "pilots", "tenants"}, NEW l, NEW m,
           m \subseteq started, Starts(w, to, l, m)
    PROVE  Inv'
  BY DEF Starts, Inv, Shape, OnlyClaimed, UrlHasRow, LeftIsOwn, PassLeavesLate,
         OrphanWasLate, Purging, On, storeVars

\* Steps that leave objects, claims and runs alone.
LEMMA QuietKeeps ==
    ASSUME Inv, UNCHANGED <<started, storeVars, workerVars>>
    PROVE  Inv'
  BY DEF Inv, Shape, OnlyClaimed, UrlHasRow, LeftIsOwn, PassLeavesLate,
         OrphanWasLate, Purging, On, storeVars, workerVars, passVars

\* Looking for candidates, archiving pilots, and stopping.
LEMMA SearchKeeps ==
    ASSUME Inv, NEW w \in Worker,
           \/ StartRun(w) \/ ReadActivity(w) \/ AutoArchive(w)
           \/ ReadEligible(w) \/ EndRun(w) \/ Crash(w)
    PROVE  Inv'
  <1>1. UNCHANGED <<started, storeVars>>
    BY DEF StartRun, ReadActivity, AutoArchive, ReadEligible, EndRun, Crash, tenantVars
  <1>2. marked[w] \subseteq started
    BY DEF Inv, OnlyClaimed
  <1>3. CASE StartRun(w)
    BY <1>1, <1>3, StartKeeps DEF StartRun
  <1>4. CASE ReadActivity(w)
    <2>1. CASE Skips(w, "pilots")
      BY <1>1, <1>2, <2>1, StartKeeps DEF Skips
    <2>2. CASE Goes(w, "autoArchive")
      BY <1>1, <2>2 DEF Goes, Inv, Shape, OnlyClaimed, UrlHasRow, LeftIsOwn,
         PassLeavesLate, OrphanWasLate, Purging, On, storeVars, passVars
    <2>3. QED
      BY <1>4, <2>1, <2>2 DEF ReadActivity
  <1>5. CASE AutoArchive(w)
    BY <1>1, <1>2, <1>5, StartKeeps DEF AutoArchive, Skips
  <1>6. CASE ReadEligible(w)
    BY <1>1, <1>6, StartKeeps DEF ReadEligible
  <1>7. CASE EndRun(w) \/ Crash(w)
    BY <1>1, <1>7, StartKeeps DEF EndRun, Crash, Stops
  <1>8. QED
    BY <1>3, <1>4, <1>5, <1>6, <1>7

\* The claim makes the run's tenant one that is claimed for good.
LEMMA ClaimKeeps ==
    ASSUME Inv, NEW w \in Worker, Claim(w)
    PROVE  Inv'
  <1>1. UNCHANGED storeVars /\ pc[w] = "tenants"
    BY DEF Claim
  <1>2. CASE Skips(w, "tenants") /\ UNCHANGED started
    BY <1>1, <1>2, StartKeeps DEF Skips, Inv, OnlyClaimed
  <1>3. CASE Goes(w, "claim") /\ started \subseteq started' /\ On(w) \in started'
    BY <1>1, <1>3 DEF Goes, Inv, Shape, OnlyClaimed, UrlHasRow, LeftIsOwn,
       PassLeavesLate, OrphanWasLate, Purging, On, storeVars, passVars
  <1>4. QED
    BY <1>2, <1>3 DEF Claim, On, Inv, OnlyClaimed

\* A pass over a tenant's objects: what is erased, marked or given up.
LEMMA PassKeeps ==
    ASSUME Inv, NEW w \in Worker,
           \/ ReadObjects(w) \/ MarkObject(w)
           \/ \E o \in Object : EraseObject(w, o) \/ EraseFails(w, o)
    PROVE  Inv'
  <1> USE DEF Inv, Shape, OnlyClaimed, UrlHasRow, LeftIsOwn, PassLeavesLate,
              OrphanWasLate, Purging, On, tenantVars, storeVars
  <1>1. CASE ReadObjects(w)
    BY <1>1 DEF ReadObjects, Objects
  <1>2. ASSUME NEW o \in Object, EraseObject(w, o)
        PROVE  Inv'
    BY <1>2 DEF EraseObject
  <1>3. ASSUME NEW o \in Object, EraseFails(w, o)
        PROVE  Inv'
    BY <1>3 DEF EraseFails
  <1>4. CASE MarkObject(w)
    <2> DEFINE o == erased[w]
    <2>1. /\ UNCHANGED <<bucket, started, url, late, list, marked, left>>
          /\ pc' = [pc EXCEPT ![w] = "objects"] /\ pc[w] = "mark"
          /\ erased' = [erased EXCEPT ![w] = None]
          /\ failed' = [failed EXCEPT ![w] = @ \/ object[o] = "none"]
      BY <1>4 DEF MarkObject
    <2>2. /\ o \in Object /\ ObjectTenant[o] \in started
          /\ o \in bucket => o \in late
      BY <2>1
    <2>3. /\ object' \in [Object -> {"none", "active", "deleted"}]
          /\ \A x \in Object \ {o} : object'[x] = object[x]
      BY <1>4, <2>2 DEF MarkObject
    <2>4. Shape' /\ OnlyClaimed'
      BY <2>1, <2>2, <2>3
    <2>5. UrlHasRow' /\ OrphanWasLate'
      BY <2>1, <2>2, <2>3
    <2>6. LeftIsOwn' /\ PassLeavesLate'
      BY <2>1, <2>2
    <2>7. QED
      BY <2>4, <2>5, <2>6
  <1>5. QED
    BY <1>1, <1>2, <1>3, <1>4

\* Rows go only after a pass that has left nothing behind but late uploads.
LEMMA TablesKeep ==
    ASSUME Inv, NEW w \in Worker,
           \/ ObjectsDone(w) \/ DeleteTable(w) \/ TablesDone(w) \/ DeleteTenant(w)
    PROVE  Inv'
  <1> USE DEF Inv, Shape, OnlyClaimed, UrlHasRow, LeftIsOwn, PassLeavesLate,
              OrphanWasLate, Purging, On, tenantVars
  <1>1. CASE ObjectsDone(w)
    <2>1. CASE failed[w]
      BY <1>1, <2>1, StartKeeps DEF ObjectsDone, Skips
    <2>2. CASE ~failed[w]
      BY <1>1, <2>2 DEF ObjectsDone, Goes, storeVars, passVars
    <2>3. QED
      BY <2>1, <2>2
  <1>2. CASE DeleteTable(w)
    <2>1. UNCHANGED <<started, bucket, url, late>> /\ pc[w] = "tables"
      BY <1>2 DEF DeleteTable
    <2>2. CASE Stops(w) /\ UNCHANGED object
      BY <1>2, <2>1, <2>2, StartKeeps DEF Stops, storeVars
    <2>3. CASE /\ UNCHANGED <<pc, list, marked, left, erased, failed>>
               /\ object' \in [Object -> {"none", "active", "deleted"}]
               /\ \A o \in Object : object'[o] = object[o] \/ ObjectTenant[o] = On(w)
      BY <2>1, <2>3
    <2>4. QED
      <3>1. \/ Stops(w) /\ UNCHANGED object
            \/ /\ UNCHANGED <<pc, list, marked, left, erased, failed>>
               /\ object' \in {object, [o \in Object |-> IF o \in Objects(On(w))
                                                         THEN "none" ELSE object[o]]}
        BY <1>2 DEF DeleteTable
      <3>2. QED
        BY <2>2, <2>3, <3>1 DEF Objects
  <1>3. CASE TablesDone(w)
    BY <1>3 DEF TablesDone, Goes, storeVars, passVars
  <1>4. CASE DeleteTenant(w)
    <2>1. UNCHANGED <<started, storeVars>>
      BY <1>4 DEF DeleteTenant
    <2>2. Stops(w) \/ Skips(w, "tenants")
      BY <1>4 DEF DeleteTenant
    <2>3. QED
      BY <2>1, <2>2, StartKeeps DEF Stops, Skips
  <1>5. QED
    BY <1>1, <1>2, <1>3, <1>4

\* One case for each kind of step.
LEMMA StepInv == Inv /\ [Next]_vars => Inv'
  <1> SUFFICES ASSUME Inv, [Next]_vars PROVE Inv'
    OBVIOUS
  <1>1. CASE UNCHANGED vars
    BY <1>1, QuietKeeps DEF vars, tenantVars
  <1>2. ASSUME NEW t \in Tenant, Login(t) \/ PilotGoesStale(t) \/ RetentionElapses(t)
        PROVE  Inv'
    BY <1>2, QuietKeeps DEF Login, PilotGoesStale, RetentionElapses, tenantVars
  <1>3. ASSUME NEW o \in Object, Presign(o) \/ Put(o) \/ UrlExpires(o)
        PROVE  Inv'
    BY <1>3, UseKeeps
  <1>4. CASE OwnerStep
    <2>1. UNCHANGED <<started, storeVars, workerVars>>
      BY <1>4 DEF OwnerStep, UpdateBegin, ArchiveBegin, UnarchiveBegin, PurgeBegin,
         Begin, UpdateTx, ArchiveTx, UnarchiveTx, PurgeTx, HandlerFails, tenantVars
    <2>2. QED
      BY <2>1, QuietKeeps
  <1>5. CASE WorkerStep
    BY <1>5, SearchKeeps, ClaimKeeps, PassKeeps, TablesKeep DEF WorkerStep, Works
  <1>6. QED
    BY <1>1, <1>2, <1>3, <1>4, <1>5 DEF Next

\* "Storage before rows ... an orphaned R2 object is silent cost forever"
\* (tenant-purge.service.ts:260-263): however requests and runs of the worker
\* overlap, crash and resume, the purge never removes the last row that points
\* at an object in the bucket, unless the object was uploaded after the claim.
THEOREM OrphanAlwaysLate == Spec => []OrphanWasLate
  <1>1. Inv => OrphanWasLate
    BY DEF Inv
  <1>2. QED
    BY <1>1, InitInv, StepInv, PTL DEF Spec
-----------------------------------------------------------------------------
(* The types.                                                              *)

Acting(r) == req[r].op # "idle"

\* A request in progress is about a tenant, an update to a status that
\* updateTenant accepts.
ReqTyped ==
    \A r \in Request :
        Acting(r) => /\ req[r].tenant \in Tenant
                     /\ req[r].op = "update" => req[r].to \in {"pilot", "team", "suspended"}

\* A run that archives or purges has a tenant to do it to.
HasTenant ==
    \A w \in Worker : pc[w] = "autoArchive" \/ Purging(w) => list[w] # <<>>

Types == TypeOK /\ ReqTyped /\ HasTenant

\* The two halves: the worker's variables, and the others.
WorkerTypes ==
    /\ pc \in [Worker -> {"off", "pilots", "autoArchive", "tenants", "claim",
                          "objects", "mark", "tables", "finish"}]
    /\ list \in [Worker -> Seq(Tenant)]
    /\ marked \in [Worker -> SUBSET Tenant]
    /\ left \in [Worker -> SUBSET Object]
    /\ erased \in [Worker -> Object \cup {None}]
    /\ failed \in [Worker -> BOOLEAN]
    /\ next \in [Worker -> 1 .. Len(Order) + 1]
    /\ \A w \in Worker : (erased[w] # None) <=> (pc[w] = "mark")
    /\ HasTenant

DataTypes ==
    /\ status \in [Tenant -> Status]
    /\ byAge \in Seq(Tenant)
    /\ due \subseteq Tenant /\ requested \subseteq Tenant
    /\ started \subseteq Tenant /\ stale \subseteq Tenant
    /\ open \subseteq Tenant /\ autoArchived \subseteq Tenant
    /\ rows \in [Tenant -> SUBSET Table]
    /\ object \in [Object -> {"none", "active", "deleted"}]
    /\ bucket \subseteq Object /\ url \subseteq Object /\ late \subseteq Object
    /\ req \in [Request -> [op : {"idle", "update", "archive", "unarchive", "purge"},
                            tenant : Tenant \cup {None}, to : Status]]
    /\ ReqTyped

LEMMA TypesSplit == Types <=> WorkerTypes /\ DataTypes
  BY DEF Types, TypeOK, WorkerTypes, DataTypes

LEMMA TypesJoin == WorkerTypes' /\ DataTypes' => Types'
  BY DEF Types, TypeOK, WorkerTypes, DataTypes

\* A list of tenants is a sequence of them.
LEMMA ListOfTenants ==
    ASSUME NEW S \in SUBSET Tenant, NEW l \in SetToSeqs(S)
    PROVE  l \in Seq(S) /\ l \in Seq(Tenant)
  <1>1. Cardinality(S) \in Nat
    BY TenantAssumption, FS_Subset, FS_CardinalityType DEF TenantAssumption
  <1>2. l \in [1 .. Cardinality(S) -> S] /\ l \in [1 .. Cardinality(S) -> Tenant]
    BY DEF SetToSeqs
  <1>3. QED
    BY <1>1, <1>2, SeqDef

\* Clearing archivedAt leaves a sequence of tenants.
LEMMA WithoutType ==
    ASSUME NEW s \in Seq(Tenant), NEW t
    PROVE  Without(s, t) \in Seq(Tenant)
  <1>1. CASE t \in ToSet(s)
    <2> DEFINE i == CHOOSE i \in DOMAIN s : s[i] = t
    <2>1. i \in 1 .. Len(s)
      BY <1>1 DEF ToSet
    <2> HIDE DEF i
    <2>2. SubSeq(s, 1, i - 1) \in Seq(Tenant) /\ SubSeq(s, i + 1, Len(s)) \in Seq(Tenant)
      BY <2>1
    <2>3. RemoveAt(s, i) \in Seq(Tenant)
      BY <2>2 DEF RemoveAt
    <2>4. QED
      BY <1>1, <2>3 DEF Without, i
  <1>2. CASE t \notin ToSet(s)
    BY <1>2 DEF Without
  <1>3. QED
    BY <1>1, <1>2

LEMMA OrderLength == Len(Order) \in Nat /\ 1 \in 1 .. Len(Order) + 1
  BY OrderAssumption DEF OrderAssumption

\* Starting to look for work, with a list of tenants.
LEMMA StartTypes ==
    ASSUME WorkerTypes, NEW w \in Worker, NEW to \in {"off", "pilots", "tenants"},
           NEW l \in Seq(Tenant), NEW m \in SUBSET Tenant, Starts(w, to, l, m)
    PROVE  WorkerTypes'
  BY OrderLength DEF WorkerTypes, Starts, HasTenant, Purging

LEMMA SkipTypes ==
    ASSUME WorkerTypes, NEW w \in Worker, list[w] # <<>>,
           NEW to \in {"off", "pilots", "tenants"}, Skips(w, to)
    PROVE  WorkerTypes'
  <1>1. Tail(list[w]) \in Seq(Tenant) /\ marked[w] \in SUBSET Tenant
    BY DEF WorkerTypes
  <1>2. QED
    BY <1>1, StartTypes DEF Skips

LEMMA StopTypes ==
    ASSUME WorkerTypes, NEW w \in Worker, Stops(w)
    PROVE  WorkerTypes'
  <1>1. <<>> \in Seq(Tenant) /\ {} \in SUBSET Tenant
    OBVIOUS
  <1>2. QED
    BY <1>1, StartTypes DEF Stops

LEMMA GoTypes ==
    ASSUME WorkerTypes, NEW w \in Worker, list[w] # <<>>, pc[w] # "mark",
           NEW to \in {"autoArchive", "claim", "tables", "finish"}, Goes(w, to)
    PROVE  WorkerTypes'
  BY DEF WorkerTypes, Goes, HasTenant, Purging, passVars

LEMMA WorkerTypesStay ==
    ASSUME WorkerTypes, UNCHANGED workerVars
    PROVE  WorkerTypes'
  BY DEF WorkerTypes, HasTenant, Purging, workerVars, passVars

LEMMA DataTypesStay ==
    ASSUME DataTypes, UNCHANGED <<tenantVars, useVars, storeVars, req>>
    PROVE  DataTypes'
  BY DEF DataTypes, ReqTyped, Acting, tenantVars, useVars, storeVars

\* The tenant a run is on.
LEMMA OnTenant ==
    ASSUME WorkerTypes, NEW w \in Worker, list[w] # <<>>
    PROVE  On(w) \in Tenant
  BY DEF WorkerTypes, On

LEMMA InitTypes == Init => Types
  <1> SUFFICES ASSUME Init PROVE WorkerTypes /\ DataTypes
    BY TypesSplit
  <1>1. WorkerTypes
    BY OrderLength DEF Init, WorkerTypes, HasTenant, Purging
  <1>2. DataTypes
    BY DEF Init, DataTypes, ReqTyped, Acting, Idle, Status
  <1>3. QED
    BY <1>1, <1>2

\* A tenant in use and its objects.
LEMMA UseTypes ==
    ASSUME Types,
           \/ \E t \in Tenant : Login(t) \/ PilotGoesStale(t) \/ RetentionElapses(t)
           \/ \E o \in Object : Presign(o) \/ Put(o) \/ UrlExpires(o)
    PROVE  Types'
  <1>1. WorkerTypes'
    BY TypesSplit, WorkerTypesStay DEF Login, PilotGoesStale, RetentionElapses,
       Presign, Put, UrlExpires
  <1>2. DataTypes'
    <2>1. ASSUME NEW t \in Tenant, Login(t) \/ PilotGoesStale(t) \/ RetentionElapses(t)
          PROVE  DataTypes'
      BY <2>1, TypesSplit DEF Login, PilotGoesStale, RetentionElapses, DataTypes,
         ReqTyped, Acting, tenantVars, useVars, storeVars
    <2>2. ASSUME NEW o \in Object, Presign(o) \/ Put(o) \/ UrlExpires(o)
          PROVE  DataTypes'
      BY <2>2, TypesSplit DEF Presign, Put, UrlExpires, DataTypes, ReqTyped, Acting,
         tenantVars, useVars, storeVars
    <2>3. QED
      BY <2>1, <2>2
  <1>3. QED
    BY <1>1, <1>2, TypesJoin

\* The owner's requests.
LEMMA OwnerTypes ==
    ASSUME Types, OwnerStep
    PROVE  Types'
  <1>1. DataTypes /\ WorkerTypes
    BY TypesSplit
  <1>2. PICK r \in Request :
           \/ \E t \in Tenant : \/ UpdateBegin(r, t) \/ ArchiveBegin(r, t)
                                \/ UnarchiveBegin(r, t) \/ PurgeBegin(r, t)
           \/ UpdateTx(r) \/ ArchiveTx(r) \/ UnarchiveTx(r) \/ PurgeTx(r)
           \/ HandlerFails(r)
    BY DEF OwnerStep
  <1>3. WorkerTypes'
    <2>1. UNCHANGED workerVars
      BY <1>2 DEF UpdateBegin, ArchiveBegin, UnarchiveBegin, PurgeBegin, Begin,
         UpdateTx, ArchiveTx, UnarchiveTx, PurgeTx, HandlerFails
    <2>2. QED
      BY <1>1, <2>1, WorkerTypesStay
  <1>4. DataTypes'
    <2>1. ASSUME NEW t \in Tenant, NEW op \in {"update", "archive", "unarchive", "purge"},
                 NEW to \in Status, Begin(r, op, t, to),
                 op = "update" => to \in {"pilot", "team", "suspended"}
          PROVE  DataTypes'
      <3>1. [op |-> op, tenant |-> t, to |-> to] \in
              [op : {"idle", "update", "archive", "unarchive", "purge"},
               tenant : Tenant \cup {None}, to : Status]
        OBVIOUS
      <3>2. QED
        BY <1>1, <2>1, <3>1 DEF Begin, DataTypes, ReqTyped, Acting, tenantVars,
           useVars, storeVars
    <2>2. ASSUME NEW t \in Tenant, UpdateBegin(r, t) \/ ArchiveBegin(r, t)
                                   \/ UnarchiveBegin(r, t) \/ PurgeBegin(r, t)
          PROVE  DataTypes'
      BY <2>1, <2>2 DEF UpdateBegin, ArchiveBegin, UnarchiveBegin, PurgeBegin, Status
    <2>3. Finish(r) => /\ req' \in [Request -> [op : {"idle", "update", "archive", "unarchive", "purge"},
                                               tenant : Tenant \cup {None}, to : Status]]
                       /\ ReqTyped'
      BY <1>1 DEF Finish, Idle, DataTypes, ReqTyped, Acting, Status
    <2> DEFINE t == req[r].tenant
    <2>4. req[r].op # "idle" => t \in Tenant /\ req[r].to \in Status
      BY <1>1 DEF DataTypes, ReqTyped, Acting
    <2>5. t \in Tenant => /\ Without(byAge, t) \in Seq(Tenant)
                          /\ Append(Without(byAge, t), t) \in Seq(Tenant)
      BY <1>1, WithoutType DEF DataTypes
    <2> HIDE DEF t
    <2>6. CASE UpdateTx(r)
      BY <1>1, <2>3, <2>4, <2>6 DEF UpdateTx, DataTypes, storeVars, t
    <2>7. CASE ArchiveTx(r)
      <3>1. t \in Tenant /\ Finish(r) /\ UNCHANGED <<stale, rows, storeVars>>
        BY <2>4, <2>7 DEF ArchiveTx
      <3>2. CASE UNCHANGED <<tenantVars, open>>
        BY <1>1, <2>3, <3>1, <3>2 DEF DataTypes, tenantVars, storeVars
      <3>3. CASE /\ status' = [status EXCEPT ![t] = "archived"]
                 /\ byAge' = Append(Without(byAge, t), t)
                 /\ due' = due \ {t}
                 /\ open' = open \ {t}
                 /\ autoArchived' = autoArchived \ {t}
                 /\ UNCHANGED <<requested, started>>
        BY <1>1, <2>3, <2>5, <3>1, <3>3 DEF DataTypes, storeVars, Status
      <3>4. QED
        BY <2>7, <3>2, <3>3 DEF ArchiveTx, t
    <2>8. CASE UnarchiveTx(r)
      <3>1. t \in Tenant /\ Finish(r) /\ UNCHANGED <<useVars, storeVars>>
        BY <2>4, <2>8 DEF UnarchiveTx
      <3>2. CASE UNCHANGED tenantVars
        BY <1>1, <2>3, <3>1, <3>2 DEF DataTypes, tenantVars, storeVars, useVars
      <3>3. CASE /\ status' = [status EXCEPT ![t] = "suspended"]
                 /\ byAge' = Without(byAge, t)
                 /\ due' = due \ {t}
                 /\ requested' = requested \ {t}
                 /\ UNCHANGED <<started, autoArchived>>
        BY <1>1, <2>3, <2>5, <3>1, <3>3 DEF DataTypes, storeVars, useVars, Status
      <3>4. QED
        BY <2>8, <3>2, <3>3 DEF UnarchiveTx, t
    <2>9. CASE PurgeTx(r)
      BY <1>1, <2>3, <2>4, <2>9 DEF PurgeTx, DataTypes, storeVars, useVars, t
    <2>10. CASE HandlerFails(r)
      BY <1>1, <2>3, <2>10 DEF HandlerFails, DataTypes, tenantVars, storeVars, useVars
    <2>11. QED
      BY <1>2, <2>2, <2>6, <2>7, <2>8, <2>9, <2>10
  <1>5. QED
    BY <1>3, <1>4, TypesJoin

\* Looking for candidates, archiving and ending.
LEMMA SearchTypes ==
    ASSUME Types, NEW w \in Worker,
           \/ StartRun(w) \/ ReadActivity(w) \/ AutoArchive(w)
           \/ ReadEligible(w) \/ EndRun(w) \/ Crash(w)
    PROVE  Types'
  <1> DEFINE t == On(w)
  <1>1. DataTypes /\ WorkerTypes
    BY TypesSplit
  <1>2. DataTypes'
    <2>1. CASE UNCHANGED tenantVars
      <3>1. UNCHANGED <<useVars, storeVars, req>>
        BY DEF StartRun, ReadActivity, AutoArchive, ReadEligible, EndRun, Crash
      <3>2. QED
        BY <1>1, <2>1, <3>1, DataTypesStay
    <2>2. CASE AutoArchive(w)
      <3>1. t \in Tenant /\ UNCHANGED <<useVars, storeVars, req>>
        BY <1>1, <2>2, OnTenant DEF AutoArchive, WorkerTypes, HasTenant
      <3>2. Append(Without(byAge, t), t) \in Seq(Tenant)
        BY <1>1, <3>1, WithoutType DEF DataTypes
      <3>3. CASE /\ status' = [status EXCEPT ![t] = "archived"]
                 /\ byAge' = Append(Without(byAge, t), t)
                 /\ due' = due \ {t}
                 /\ autoArchived' = autoArchived \cup {t}
                 /\ UNCHANGED <<requested, started>>
        BY <1>1, <3>1, <3>2, <3>3 DEF DataTypes, ReqTyped, Acting, useVars, storeVars,
           Status
      <3>4. QED
        BY <2>1, <2>2, <3>3 DEF AutoArchive, On
    <2>3. QED
      BY <2>1, <2>2 DEF StartRun, ReadActivity, ReadEligible, EndRun, Crash
  <1>3. WorkerTypes'
    <2>1. CASE StartRun(w)
      <3>1. PICK l \in SetToSeqs({x \in Tenant : status[x] = "pilot"}) :
               Starts(w, "pilots", l, {})
        BY <2>1 DEF StartRun
      <3>2. l \in Seq(Tenant)
        BY <3>1, ListOfTenants
      <3>3. QED
        BY <1>1, <3>1, <3>2, StartTypes
    <2>2. CASE ReadActivity(w)
      BY <1>1, <2>2, SkipTypes, GoTypes DEF ReadActivity
    <2>3. CASE AutoArchive(w)
      BY <1>1, <2>3, SkipTypes DEF AutoArchive, WorkerTypes, HasTenant
    <2>4. CASE ReadEligible(w)
      <3>1. ToSet(byAge) \in SUBSET Tenant /\ started \in SUBSET Tenant
        BY <1>1 DEF DataTypes, ToSet
      <3>2. PICK l \in SetToSeqs({x \in ToSet(byAge) : Eligible(x)}) :
               Starts(w, "tenants", l, started)
        BY <2>4 DEF ReadEligible
      <3>3. l \in Seq(Tenant)
        BY <3>1, <3>2, ListOfTenants
      <3>4. QED
        BY <1>1, <3>1, <3>2, <3>3, StartTypes
    <2>5. CASE EndRun(w) \/ Crash(w)
      BY <1>1, <2>5, StopTypes DEF EndRun, Crash
    <2>6. QED
      BY <2>1, <2>2, <2>3, <2>4, <2>5
  <1>4. QED
    BY <1>2, <1>3, TypesJoin

\* The claim, and the pass over the objects.
LEMMA PassTypes ==
    ASSUME Types, NEW w \in Worker,
           \/ Claim(w) \/ ReadObjects(w) \/ MarkObject(w)
           \/ \E o \in Object : EraseObject(w, o) \/ EraseFails(w, o)
    PROVE  Types'
  <1>1. DataTypes /\ WorkerTypes
    BY TypesSplit
  <1>2. CASE Claim(w)
    <2>1. On(w) \in Tenant /\ list[w] # <<>> /\ pc[w] # "mark"
      BY <1>1, <1>2, OnTenant DEF Claim
    <2>2. Skips(w, "tenants") \/ Goes(w, "claim")
      BY <1>2 DEF Claim
    <2>3. WorkerTypes'
      BY <1>1, <2>1, <2>2, SkipTypes, GoTypes
    <2>4. started' \subseteq started \cup {On(w)}
      BY <1>2 DEF Claim, On
    <2>5. DataTypes'
      BY <1>1, <1>2, <2>1, <2>4 DEF Claim, DataTypes, ReqTyped, Acting, useVars, storeVars
    <2>6. QED
      BY <2>3, <2>5, TypesJoin
  <1>3. CASE ReadObjects(w)
    <2>1. DataTypes'
      BY <1>1, <1>3, DataTypesStay DEF ReadObjects
    <2>2. {o \in Objects(Head(list[w])) : object[o] = "active"} \in SUBSET Object
      BY DEF Objects
    <2>3. WorkerTypes'
      BY <1>1, <1>3, <2>2 DEF ReadObjects, WorkerTypes, HasTenant, Purging
    <2>4. QED
      BY <2>1, <2>3, TypesJoin
  <1>4. CASE MarkObject(w)
    <2>1. erased[w] \in Object
      BY <1>1, <1>4 DEF MarkObject, WorkerTypes
    <2>2. DataTypes'
      BY <1>1, <1>4, <2>1 DEF MarkObject, DataTypes, ReqTyped, Acting, tenantVars, useVars
    <2>3. failed' \in [Worker -> BOOLEAN]
      BY <1>1, <1>4 DEF MarkObject, WorkerTypes
    <2>4. WorkerTypes'
      BY <1>1, <1>4, <2>3 DEF MarkObject, WorkerTypes, HasTenant, Purging
    <2>5. QED
      BY <2>2, <2>4, TypesJoin
  <1>5. ASSUME NEW o \in Object, EraseObject(w, o) \/ EraseFails(w, o)
        PROVE  Types'
    <2>1. DataTypes'
      BY <1>1, <1>5 DEF EraseObject, EraseFails, DataTypes, ReqTyped, Acting,
         tenantVars, useVars, storeVars
    <2>2. o # None
      BY NoneAssumption DEF NoneAssumption
    <2>3. WorkerTypes'
      <3>1. CASE EraseObject(w, o)
        BY <1>1, <2>2, <3>1 DEF EraseObject, WorkerTypes, HasTenant, Purging
      <3>2. CASE EraseFails(w, o)
        BY <1>1, <3>2 DEF EraseFails, WorkerTypes, HasTenant, Purging
      <3>3. QED
        BY <1>5, <3>1, <3>2
    <2>4. QED
      BY <2>1, <2>3, TypesJoin
  <1>6. QED
    BY <1>2, <1>3, <1>4, <1>5

\* The tables and the tenant.
LEMMA TablesTypes ==
    ASSUME Types, NEW w \in Worker,
           \/ ObjectsDone(w) \/ DeleteTable(w) \/ TablesDone(w) \/ DeleteTenant(w)
    PROVE  Types'
  <1>1. DataTypes /\ WorkerTypes
    BY TypesSplit
  <1>2. list[w] # <<>> /\ pc[w] # "mark" /\ On(w) \in Tenant
    BY <1>1, OnTenant DEF WorkerTypes, HasTenant, Purging, ObjectsDone, DeleteTable,
       TablesDone, DeleteTenant
  <1>3. CASE ObjectsDone(w) \/ TablesDone(w)
    <2>1. DataTypes'
      BY <1>1, <1>3, DataTypesStay DEF ObjectsDone, TablesDone
    <2>2. WorkerTypes'
      BY <1>1, <1>2, <1>3, SkipTypes, GoTypes DEF ObjectsDone, TablesDone
    <2>3. QED
      BY <2>1, <2>2, TypesJoin
  <1>4. CASE DeleteTable(w)
    <2> DEFINE t == On(w)
               table == Order[next[w]]
    <2>1. CASE Stops(w) /\ UNCHANGED <<rows, object, open>>
      <3>1. DataTypes'
        BY <1>1, <1>4, <2>1 DEF DeleteTable, DataTypes, ReqTyped, Acting, tenantVars
      <3>2. QED
        BY <1>1, <2>1, <3>1, StopTypes, TypesJoin
    <2>2. CASE /\ rows' = [rows EXCEPT ![t] = @ \ ({table} \cup With(@, table))]
               /\ object' = IF table # "storage_objects" THEN object
                            ELSE [o \in Object |-> IF o \in Objects(t)
                                                   THEN "none" ELSE object[o]]
               /\ open' = IF table = "sessions" THEN open \ {t} ELSE open
               /\ next' = [next EXCEPT ![w] = @ + 1]
               /\ UNCHANGED <<pc, list, marked, left, erased, failed>>
      <3>1. next[w] + 1 \in 1 .. Len(Order) + 1
        BY <1>1, <1>4, OrderLength DEF DeleteTable, WorkerTypes
      <3>2. WorkerTypes'
        BY <1>1, <2>2, <3>1 DEF WorkerTypes, HasTenant, Purging
      <3>3. /\ rows' \in [Tenant -> SUBSET Table] /\ open' \subseteq Tenant
            /\ object' \in [Object -> {"none", "active", "deleted"}]
        BY <1>1, <2>2 DEF DataTypes
      <3>4. DataTypes'
        BY <1>1, <1>4, <3>3 DEF DeleteTable, DataTypes, ReqTyped, Acting, tenantVars
      <3>5. QED
        BY <3>2, <3>4, TypesJoin
    <2>3. QED
      BY <1>4, <2>1, <2>2 DEF DeleteTable, On
  <1>5. CASE DeleteTenant(w)
    <2> DEFINE t == On(w)
    <2>1. WorkerTypes'
      <3>1. Stops(w) \/ Skips(w, "tenants")
        BY <1>5 DEF DeleteTenant
      <3>2. QED
        BY <1>1, <1>2, <3>1, StopTypes, SkipTypes
    <2>2. CASE UNCHANGED <<tenantVars, stale>>
      <3>1. UNCHANGED <<tenantVars, useVars, storeVars, req>>
        BY <1>5, <2>2 DEF DeleteTenant, useVars
      <3>2. QED
        BY <1>1, <2>1, <3>1, DataTypesStay, TypesJoin
    <2>3. CASE /\ status' = [status EXCEPT ![t] = "gone"]
               /\ byAge' = Without(byAge, t)
               /\ due' = due \ {t}
               /\ requested' = requested \ {t}
               /\ autoArchived' = autoArchived \ {t}
               /\ stale' = stale \ {t}
               /\ UNCHANGED started
      <3>1. Without(byAge, t) \in Seq(Tenant)
        BY <1>1, WithoutType DEF DataTypes
      <3>2. DataTypes'
        BY <1>1, <1>2, <1>5, <2>3, <3>1 DEF DeleteTenant, DataTypes, ReqTyped, Acting,
           storeVars, Status
      <3>3. QED
        BY <2>1, <3>2, TypesJoin
    <2>4. QED
      BY <1>5, <2>1, <2>2, <2>3, TypesJoin DEF DeleteTenant, On
  <1>6. QED
    BY <1>3, <1>4, <1>5

LEMMA StepTypes == Types /\ [Next]_vars => Types'
  <1> SUFFICES ASSUME Types, [Next]_vars PROVE Types'
    OBVIOUS
  <1>1. CASE UNCHANGED vars
    BY <1>1, TypesSplit, TypesJoin, WorkerTypesStay, DataTypesStay DEF vars
  <1>2. CASE Next
    BY <1>2, UseTypes, OwnerTypes, SearchTypes, PassTypes, TablesTypes
       DEF Next, WorkerStep, Works
  <1>3. QED
    BY <1>1, <1>2

\* However requests and runs overlap and crash, no step takes the head of an
\* empty list, marks an object it did not erase or reads past the order.
THEOREM TypesAlways == Spec => []TypeOK
  <1>1. Types => TypeOK
    BY DEF Types
  <1>2. QED
    BY <1>1, InitTypes, StepTypes, PTL DEF Spec

-----------------------------------------------------------------------------
(* Marks and statuses, with one run of the worker and one request at a     *)
(* time.                                                                   *)

OneRequest == \A q, r \in Request : Acting(q) /\ Acting(r) => q = r

\* A run that has the list of tenants to purge.
Holding(w) == pc[w] = "tenants" \/ Purging(w)

\* An update writes its status blindly; whatever the worker has done since it
\* looked, its tenant is not marked, and not about to be.
UpdateIsSafe ==
    \A r \in Request : req[r].op = "update" =>
        LET t == req[r].tenant IN
        /\ t \notin requested \cup started
        /\ status[t] # "gone"
        /\ status[t] = "archived" =>
              /\ t \notin due
              /\ \A w \in Worker : Holding(w) => t \notin ToSet(list[w])

Marks == Types /\ OnlyClaimed /\ OneRequest /\ UpdateIsSafe /\ PurgeMarksOnArchived

LEMMA InitMarks == Init => OneRequest /\ UpdateIsSafe /\ PurgeMarksOnArchived
  BY DEF Init, OneRequest, UpdateIsSafe, PurgeMarksOnArchived, Acting, Idle

LEMMA HeadAndTail ==
    ASSUME NEW l \in Seq(Tenant), l # <<>>
    PROVE  Head(l) \in ToSet(l) /\ ToSet(Tail(l)) \subseteq ToSet(l)
  <1>1. Head(l) = l[1] /\ 1 \in DOMAIN l
    OBVIOUS
  <1>2. \A i \in DOMAIN Tail(l) : Tail(l)[i] = l[i + 1] /\ i + 1 \in DOMAIN l
    OBVIOUS
  <1>3. QED
    BY <1>1, <1>2 DEF ToSet

\* A request begins when no other is in progress.
LEMMA StepOneRequest ==
    ASSUME ~Overlap, Types, OneRequest, [Next]_vars
    PROVE  OneRequest'
  <1> USE DEF OneRequest, Acting
  <1>1. CASE UNCHANGED req
    BY <1>1
  <1>2. CASE OwnerStep
    <2>1. req \in [Request -> [op : {"idle", "update", "archive", "unarchive", "purge"},
                              tenant : Tenant \cup {None}, to : Status]]
      BY DEF Types, TypeOK
    <2>2. PICK r \in Request :
             \/ \E t \in Tenant : \/ UpdateBegin(r, t) \/ ArchiveBegin(r, t)
                                  \/ UnarchiveBegin(r, t) \/ PurgeBegin(r, t)
             \/ UpdateTx(r) \/ ArchiveTx(r) \/ UnarchiveTx(r) \/ PurgeTx(r)
             \/ HandlerFails(r)
      BY <1>2 DEF OwnerStep
    <2>3. CASE Finish(r)
      BY <2>1, <2>3 DEF Finish, Idle
    <2>4. CASE \E op, t, to : Begin(r, op, t, to)
      BY <2>1, <2>4 DEF Begin
    <2>5. QED
      BY <2>2, <2>3, <2>4 DEF UpdateBegin, ArchiveBegin, UnarchiveBegin, PurgeBegin,
         UpdateTx, ArchiveTx, UnarchiveTx, PurgeTx, HandlerFails
  <1>3. Next => OwnerStep \/ UNCHANGED req
    BY DEF Next, WorkerStep, Works, Login, PilotGoesStale, RetentionElapses, Presign,
       Put, UrlExpires, StartRun, ReadActivity, AutoArchive, ReadEligible, EndRun,
       Claim, ReadObjects, MarkObject, ObjectsDone, DeleteTable, TablesDone,
       DeleteTenant, EraseObject, EraseFails, Crash
  <1>4. QED
    BY <1>1, <1>2, <1>3 DEF vars

\* The owner writes a tenant's status and marks.
LEMMA OwnerMarks ==
    ASSUME ~Overlap, Marks, OwnerStep
    PROVE  UpdateIsSafe' /\ PurgeMarksOnArchived'
  <1> USE DEF Marks, Types, TypeOK
  <1>1. PICK r \in Request :
           \/ \E t \in Tenant : \/ UpdateBegin(r, t) \/ ArchiveBegin(r, t)
                                \/ UnarchiveBegin(r, t) \/ PurgeBegin(r, t)
           \/ UpdateTx(r) \/ ArchiveTx(r) \/ UnarchiveTx(r) \/ PurgeTx(r)
           \/ HandlerFails(r)
    BY DEF OwnerStep
  <1>2. ASSUME NEW t \in Tenant, NEW op, NEW to, Begin(r, op, t, to),
               op = "update" => status[t] \notin {"archived", "gone"}
        PROVE  UpdateIsSafe' /\ PurgeMarksOnArchived'
    <2>1. UNCHANGED <<status, due, requested, started, workerVars>>
      BY <1>2 DEF Begin, tenantVars
    <2>2. PurgeMarksOnArchived'
      BY <2>1 DEF PurgeMarksOnArchived
    <2>3. \A q \in Request : req'[q].op = "update" => q = r /\ op = "update" /\ req'[q].tenant = t
      BY <1>2 DEF Begin
    <2>4. QED
      BY <1>2, <2>1, <2>2, <2>3 DEF UpdateIsSafe, PurgeMarksOnArchived
  <1>3. ASSUME Acting(r), Finish(r)
        PROVE  UpdateIsSafe'
    BY <1>3 DEF Finish, Idle, OneRequest, Acting, UpdateIsSafe
  <1> DEFINE t == req[r].tenant
  <1>4. Acting(r) => t \in Tenant
    BY DEF ReqTyped
  <1> HIDE DEF t
  <1>5. CASE UpdateTx(r)
    <2>1. t \notin requested \cup started /\ UNCHANGED <<requested, started>>
      BY <1>5 DEF UpdateTx, UpdateIsSafe, t
    <2>2. \A x \in Tenant \ {t} : status'[x] = status[x]
      BY <1>5 DEF UpdateTx, t
    <2>3. PurgeMarksOnArchived'
      BY <2>1, <2>2 DEF PurgeMarksOnArchived
    <2>4. QED
      BY <1>3, <1>5, <2>3 DEF UpdateTx, Acting
  <1>6. CASE ArchiveTx(r)
    <2>1. UNCHANGED <<requested, started>> /\ Acting(r) /\ Finish(r)
      BY <1>6 DEF ArchiveTx, tenantVars, Acting
    <2>2. \A x \in Tenant : status'[x] = status[x] \/ status'[x] = "archived"
      BY <1>6 DEF ArchiveTx, tenantVars
    <2>3. QED
      BY <1>3, <2>1, <2>2 DEF PurgeMarksOnArchived
  <1>7. CASE UnarchiveTx(r)
    <2>1. Acting(r) /\ Finish(r)
      BY <1>7 DEF UnarchiveTx, Acting
    <2>2. CASE UNCHANGED tenantVars
      BY <1>3, <2>1, <2>2 DEF PurgeMarksOnArchived, tenantVars
    <2>3. CASE /\ t \notin started
               /\ status' = [status EXCEPT ![t] = "suspended"]
               /\ requested' = requested \ {t}
               /\ UNCHANGED started
      BY <1>3, <2>1, <2>3 DEF PurgeMarksOnArchived
    <2>4. QED
      BY <1>7, <2>2, <2>3 DEF UnarchiveTx, t
  <1>8. CASE PurgeTx(r)
    <2>1. Acting(r) /\ Finish(r) /\ UNCHANGED <<status, started>>
      BY <1>8 DEF PurgeTx, Acting
    <2>2. \/ requested' = requested
          \/ requested' = requested \cup {t} /\ status[t] = "archived"
      BY <1>8 DEF PurgeTx, t
    <2>3. QED
      BY <1>3, <1>4, <2>1, <2>2 DEF PurgeMarksOnArchived
  <1>9. CASE HandlerFails(r)
    BY <1>3, <1>9 DEF HandlerFails, PurgeMarksOnArchived, tenantVars, Acting
  <1>10. QED
    BY <1>1, <1>2, <1>5, <1>6, <1>7, <1>8, <1>9 DEF UpdateBegin, ArchiveBegin,
       UnarchiveBegin, PurgeBegin

\* A list a run goes on with is the one it had, or the rest of it.
KeepsList ==
    \A x \in Worker : Holding(x)' =>
        Holding(x) /\ ToSet(list'[x]) \subseteq ToSet(list[x])

\* Steps that leave the marks alone, and give no run a tenant it had not.
LEMMA OtherMarks ==
    ASSUME Marks, UNCHANGED <<status, requested, started, req>>,
           due' = due \/ \A r \in Request : ~Acting(r),
           KeepsList
    PROVE  UpdateIsSafe' /\ PurgeMarksOnArchived'
  BY DEF Marks, KeepsList, UpdateIsSafe, PurgeMarksOnArchived, Acting

LEMMA ListEnds ==
    ASSUME Types, NEW w \in Worker,
           Stops(w) \/ Skips(w, "pilots") \/ Goes(w, "autoArchive")
    PROVE  KeepsList
  BY DEF Types, TypeOK, KeepsList, Holding, Purging, Stops, Skips, Starts, Goes

LEMMA ListSkips ==
    ASSUME Types, NEW w \in Worker, Holding(w), list[w] # <<>>, Skips(w, "tenants")
    PROVE  KeepsList
  <1>1. list \in [Worker -> Seq(Tenant)]
    BY DEF Types, TypeOK
  <1>2. ToSet(list'[w]) \subseteq ToSet(list[w])
    BY <1>1, HeadAndTail DEF Skips, Starts
  <1>3. \A x \in Worker \ {w} : pc'[x] = pc[x] /\ list'[x] = list[x]
    BY DEF Skips, Starts, Types, TypeOK
  <1>4. QED
    BY <1>2, <1>3 DEF KeepsList, Holding, Purging

LEMMA ListGoes ==
    ASSUME Types, NEW w \in Worker, Holding(w), UNCHANGED list,
           UNCHANGED pc \/ \E to : pc' = [pc EXCEPT ![w] = to]
    PROVE  KeepsList
  BY DEF Types, TypeOK, KeepsList, Holding, Purging

\* One run of the worker: while it archives, nobody holds a list to purge.
LEMMA WorkerMarks ==
    ASSUME NEW v, Worker = {v}, Marks, WorkerStep
    PROVE  UpdateIsSafe' /\ PurgeMarksOnArchived'
  <1> USE DEF Marks, Types, TypeOK
  <1>1. \/ Works(v) \/ Crash(v) \/ \E o \in Object : EraseFails(v, o)
    BY DEF WorkerStep
  <1>2. pc[v] = "autoArchive" \/ Purging(v) => list[v] # <<>>
    BY DEF HasTenant
  <1>3. CASE AutoArchive(v)
    <2> DEFINE t == On(v)
    <2>1. pc[v] = "autoArchive" /\ Skips(v, "pilots") /\ UNCHANGED req
      BY <1>3 DEF AutoArchive
    <2>2. t \in Tenant /\ ~Holding(v)'
      BY <1>2, <2>1, TypesSplit, OnTenant DEF Skips, Starts, Holding, Purging
    <2>3. CASE UNCHANGED tenantVars
      BY <2>1, <2>3, ListEnds, OtherMarks DEF tenantVars
    <2>4. CASE /\ status' = [status EXCEPT ![t] = "archived"]
               /\ due' = due \ {t}
               /\ UNCHANGED <<requested, started>>
      BY <2>1, <2>2, <2>4 DEF UpdateIsSafe, PurgeMarksOnArchived
    <2>5. QED
      BY <1>3, <2>3, <2>4 DEF AutoArchive, On
  <1>4. CASE ReadEligible(v)
    <2>1. PICK l \in SetToSeqs({x \in ToSet(byAge) : Eligible(x)}) :
             Starts(v, "tenants", l, started)
      BY <1>4 DEF ReadEligible
    <2>2. \A x \in ToSet(list'[v]) : Eligible(x)
      <3>1. {x \in ToSet(byAge) : Eligible(x)} \in SUBSET Tenant
        BY DEF ToSet
      <3>2. l \in Seq({x \in ToSet(byAge) : Eligible(x)})
        BY <2>1, <3>1, ListOfTenants
      <3>3. list'[v] = l
        BY <2>1 DEF Starts
      <3>4. QED
        BY <3>2, <3>3 DEF ToSet
    <2>3. QED
      BY <1>4, <2>2 DEF ReadEligible, UpdateIsSafe, PurgeMarksOnArchived, Eligible,
         tenantVars
  <1>5. CASE Claim(v)
    <2>1. Holding(v) /\ On(v) \in Tenant /\ On(v) \in ToSet(list[v])
      BY <1>5, TypesSplit, OnTenant, HeadAndTail DEF Claim, Holding, On
    <2>2. UNCHANGED <<status, due, requested, req>>
      BY <1>5 DEF Claim
    <2>3. KeepsList
      <3>1. list[v] # <<>> /\ (Goes(v, "claim") \/ Skips(v, "tenants"))
        BY <1>5 DEF Claim
      <3>2. QED
        BY <2>1, <3>1, ListSkips, ListGoes DEF Goes
    <2>4. CASE UNCHANGED started
      BY <2>2, <2>3, <2>4, OtherMarks
    <2>5. CASE status[On(v)] = "archived" /\ started' = started \cup {On(v)}
      BY <2>1, <2>2, <2>3, <2>5 DEF UpdateIsSafe, PurgeMarksOnArchived, KeepsList
    <2>6. QED
      BY <1>5, <2>4, <2>5 DEF Claim, On
  <1>6. CASE DeleteTenant(v)
    <2> DEFINE t == On(v)
    <2>1. Holding(v) /\ t \in started /\ UNCHANGED req /\ t \in Tenant
      BY <1>2, <1>6, TypesSplit, OnTenant DEF DeleteTenant, Holding, Purging, OnlyClaimed
    <2>2. KeepsList
      <3>1. Stops(v) \/ (Skips(v, "tenants") /\ list[v] # <<>>)
        BY <1>2, <1>6 DEF DeleteTenant, Purging
      <3>2. QED
        BY <2>1, <3>1, ListEnds, ListSkips
    <2>3. CASE UNCHANGED tenantVars
      BY <2>1, <2>2, <2>3, OtherMarks DEF tenantVars
    <2>4. CASE /\ status' = [status EXCEPT ![t] = "gone"]
               /\ due' = due \ {t}
               /\ requested' = requested \ {t}
               /\ UNCHANGED started
      BY <2>1, <2>2, <2>4 DEF UpdateIsSafe, PurgeMarksOnArchived, KeepsList
    <2>5. QED
      BY <1>6, <2>3, <2>4 DEF DeleteTenant, On
  <1>7. CASE \/ StartRun(v) \/ ReadActivity(v) \/ EndRun(v) \/ ReadObjects(v)
             \/ MarkObject(v) \/ ObjectsDone(v) \/ DeleteTable(v) \/ TablesDone(v)
             \/ Crash(v) \/ \E o \in Object : EraseObject(v, o) \/ EraseFails(v, o)
    <2>1. UNCHANGED <<status, due, requested, started, req>>
      BY <1>7 DEF StartRun, ReadActivity, EndRun, ReadObjects, MarkObject, ObjectsDone,
         DeleteTable, TablesDone, Crash, EraseObject, EraseFails, tenantVars
    <2>2. KeepsList
      <3>1. CASE StartRun(v)
        BY <3>1 DEF StartRun, Starts, KeepsList, Holding, Purging
      <3>2. CASE ReadActivity(v) \/ EndRun(v) \/ Crash(v)
        <4>1. Stops(v) \/ Skips(v, "pilots") \/ Goes(v, "autoArchive")
          BY <3>2 DEF ReadActivity, EndRun, Crash
        <4>2. QED
          BY <4>1, ListEnds
      <3>3. CASE ReadObjects(v) \/ MarkObject(v)
                 \/ \E o \in Object : EraseObject(v, o) \/ EraseFails(v, o)
        BY <3>3, ListGoes DEF ReadObjects, MarkObject, EraseObject, EraseFails,
           Holding, Purging, Goes
      <3>4. CASE ObjectsDone(v) \/ TablesDone(v) \/ DeleteTable(v)
        <4>1. Holding(v) /\ list[v] # <<>>
          BY <3>4, <1>2 DEF ObjectsDone, TablesDone, DeleteTable, Holding, Purging
        <4>2. \/ Stops(v) \/ Skips(v, "tenants") \/ UNCHANGED <<pc, list>>
              \/ UNCHANGED list /\ \E to : pc' = [pc EXCEPT ![v] = to]
          BY <3>4 DEF ObjectsDone, TablesDone, DeleteTable, Goes
        <4>3. QED
          BY <4>1, <4>2, ListEnds, ListSkips, ListGoes
      <3>5. QED
        BY <1>7, <3>1, <3>2, <3>3, <3>4
    <2>3. QED
      BY <2>1, <2>2, OtherMarks
  <1>8. QED
    BY <1>1, <1>3, <1>4, <1>5, <1>6, <1>7 DEF Works

LEMMA StepMarks ==
    ASSUME ~Overlap, NEW v, Worker = {v}, Marks, [Next]_vars
    PROVE  UpdateIsSafe' /\ PurgeMarksOnArchived'
  <1>1. CASE OwnerStep
    BY <1>1, OwnerMarks
  <1>2. CASE WorkerStep
    BY <1>2, WorkerMarks
  <1>3. CASE \/ UNCHANGED vars
             \/ \E t \in Tenant : Login(t) \/ PilotGoesStale(t) \/ RetentionElapses(t)
             \/ \E o \in Object : Presign(o) \/ Put(o) \/ UrlExpires(o)
    <2>1. UNCHANGED <<status, requested, started, req, workerVars>>
      BY <1>3 DEF vars, Login, PilotGoesStale, RetentionElapses, Presign, Put,
         UrlExpires, tenantVars
    <2>2. due' = due \/ \A r \in Request : ~Acting(r)
      BY <1>3 DEF vars, Login, PilotGoesStale, RetentionElapses, Presign, Put,
         UrlExpires, tenantVars, Acting
    <2>3. QED
      BY <2>1, <2>2, OtherMarks DEF workerVars, KeepsList, Holding, Purging
  <1>4. QED
    BY <1>1, <1>2, <1>3 DEF Next

-----------------------------------------------------------------------------
(* What a purge leaves behind.                                             *)

\* Nothing of t in a table, nor in those that cascade from it.
NoneIn(t, table) ==
    /\ table \notin rows[t]
    /\ \A c \in rows[t] : <<c, table>> \notin Cascading
    /\ table = "storage_objects" => \A o \in Objects(t) : object[o] = "none"
    /\ table = "sessions" => t \notin open

\* The tables a run is past are empty, and a tenant goes when all are.
Emptied ==
    /\ \A w \in Worker :
          /\ pc[w] \in {"tables", "finish"} =>
                \A i \in 1 .. next[w] - 1 : NoneIn(On(w), Order[i])
          /\ pc[w] \notin {"tables", "finish"} => next[w] = 1
          /\ pc[w] = "finish" => next[w] = Len(Order) + 1
    /\ \A t \in Tenant : status[t] = "gone" =>
          \A i \in 1 .. Len(Order) : NoneIn(t, Order[i])


LEMMA InitEmptied == Init => Emptied /\ SessionsEndWithService
  BY DEF Init, Emptied, SessionsEndWithService

\* A tenant that is not served gets no row, no session and no object.
LEMMA NothingComesBack ==
    ASSUME Types, [Next]_vars, NEW t \in Tenant, ~Serving(t),
           NEW table, NoneIn(t, table)
    PROVE  NoneIn(t, table)'
  <1> DEFINE Kept == /\ rows'[t] \subseteq rows[t]
                     /\ t \in open' => t \in open
                     /\ \A o \in Objects(t) : object[o] = "none" => object'[o] = "none"
  <1> USE DEF Types, TypeOK
  <1>1. ASSUME UNCHANGED <<rows, open, object>>
        PROVE  Kept
    BY <1>1
  <1>2. ASSUME NEW x \in Tenant, Login(x)
        PROVE  Kept
    BY <1>2 DEF Login, storeVars
  <1>3. ASSUME NEW o \in Object, Presign(o)
        PROVE  Kept
    BY <1>3 DEF Presign, useVars, Objects
  <1>4. ASSUME NEW r \in Request,
               UpdateTx(r) \/ ArchiveTx(r) \/ UnarchiveTx(r) \/ PurgeTx(r)
        PROVE  Kept
    BY <1>4 DEF UpdateTx, ArchiveTx, UnarchiveTx, PurgeTx, useVars, storeVars
  <1>5. ASSUME NEW w \in Worker, MarkObject(w)
        PROVE  Kept
    BY <1>5 DEF MarkObject, useVars, Objects
  <1>6. ASSUME NEW w \in Worker, DeleteTable(w)
        PROVE  Kept
    <2>1. \/ UNCHANGED <<rows, object, open>>
          \/ /\ rows' = [rows EXCEPT ![On(w)] = @ \ ({Order[next[w]]} \cup With(@, Order[next[w]]))]
             /\ object' \in {object, [o \in Object |-> IF o \in Objects(On(w))
                                                       THEN "none" ELSE object[o]]}
             /\ open' \subseteq open
      BY <1>6 DEF DeleteTable, On
    <2>2. rows'[t] \subseteq rows[t]
      BY <2>1
    <2>3. QED
      BY <2>1, <2>2 DEF Objects
  <1>7. [Next]_vars =>
           \/ UNCHANGED <<rows, open, object>>
           \/ \E x \in Tenant : Login(x)
           \/ \E o \in Object : Presign(o)
           \/ \E r \in Request : UpdateTx(r) \/ ArchiveTx(r) \/ UnarchiveTx(r) \/ PurgeTx(r)
           \/ \E w \in Worker : MarkObject(w) \/ DeleteTable(w)
    BY DEF Next, OwnerStep, WorkerStep, Works, PilotGoesStale, RetentionElapses, Put,
       UrlExpires, UpdateBegin, ArchiveBegin, UnarchiveBegin, PurgeBegin, Begin,
       HandlerFails, StartRun, ReadActivity, AutoArchive, ReadEligible, EndRun, Claim,
       ReadObjects, ObjectsDone, TablesDone, DeleteTenant, EraseObject, EraseFails,
       Crash, vars, useVars, storeVars
  <1>8. Kept
    BY <1>1, <1>2, <1>3, <1>4, <1>5, <1>6, <1>7
  <1>9. QED
    BY <1>8 DEF NoneIn, Objects

\* The batches of a table leave nothing of the tenant in it.
LEMMA TableEmpties ==
    ASSUME Types, NEW w \in Worker, DeleteTable(w), ~Stops(w),
           NEW t, t = On(w), NEW table, table = Order[next[w]]
    PROVE  NoneIn(t, table)'
  <1>1. /\ rows' = [rows EXCEPT ![t] = @ \ ({table} \cup With(@, table))]
        /\ object' = IF table # "storage_objects" THEN object
                     ELSE [o \in Object |-> IF o \in Objects(t)
                                            THEN "none" ELSE object[o]]
        /\ open' = IF table = "sessions" THEN open \ {t} ELSE open
        /\ UNCHANGED list
        /\ next' = [next EXCEPT ![w] = @ + 1]
    BY DEF DeleteTable, On
  <1>2. t \in Tenant
    BY TypesSplit, OnTenant DEF DeleteTable, Types, HasTenant, Purging
  <1>3. rows'[t] = rows[t] \ ({table} \cup With(rows[t], table))
    BY <1>1, <1>2 DEF Types, TypeOK
  <1>4. /\ table \notin rows'[t]
        /\ \A c \in rows'[t] : <<c, table>> \notin Cascading
    BY <1>3 DEF With
  <1>5. table = "storage_objects" => \A o \in Objects(t) : object'[o] = "none"
    BY <1>1 DEF Objects
  <1>6. table = "sessions" => t \notin open'
    BY <1>1
  <1>7. QED
    BY <1>4, <1>5, <1>6 DEF NoneIn, Objects

\* The step of a run that moves it, but for the tables.
LEMMA RunKeepsEmptied ==
    ASSUME Types, Emptied, NEW w \in Worker, Works(w) \/ Crash(w),
           ~DeleteTable(w) \/ Stops(w),
           NEW x \in Worker, ~UNCHANGED <<pc[x], list[x], next[x]>>
    PROVE  /\ pc'[x] \in {"tables", "finish"} =>
                \A i \in 1 .. next'[x] - 1 : NoneIn(On(x), Order[i]) /\ On(x)' = On(x)
           /\ pc'[x] \in {"tables", "finish"} => Purging(x)
           /\ pc'[x] \notin {"tables", "finish"} => next'[x] = 1
           /\ pc'[x] = "finish" => next'[x] = Len(Order) + 1
  <1> USE DEF Types, TypeOK
  <1>1. ASSUME NEW to \in {"off", "pilots", "tenants"}, NEW l, NEW m, Starts(w, to, l, m)
        PROVE  pc'[x] = to /\ next'[x] = 1
    BY <1>1 DEF Starts
  <1>2. CASE StartRun(w) \/ ReadEligible(w) \/ EndRun(w) \/ AutoArchive(w)
             \/ DeleteTenant(w) \/ Crash(w) \/ Stops(w)
    <2>1. PICK to \in {"off", "pilots", "tenants"} : \E l, m : Starts(w, to, l, m)
      BY <1>2 DEF StartRun, ReadEligible, EndRun, AutoArchive, DeleteTenant, Crash,
         Stops, Skips
    <2>2. QED
      BY <1>1, <2>1
  <1>3. CASE ReadActivity(w) \/ Claim(w) \/ ObjectsDone(w) \/ TablesDone(w)
    <2>1. CASE Skips(w, "pilots") \/ Skips(w, "tenants")
      BY <1>1, <2>1 DEF Skips
    <2>2. CASE Goes(w, "autoArchive") /\ pc[w] = "pilots"
      BY <2>2 DEF Goes, passVars, Emptied
    <2>3. CASE Goes(w, "claim") /\ pc[w] = "tenants"
      BY <2>3 DEF Goes, passVars, Emptied
    <2>4. CASE Goes(w, "tables") /\ pc[w] = "objects"
      <3>1. x = w /\ next'[x] = 1 /\ pc'[x] = "tables" /\ Purging(x)
        BY <2>4 DEF Goes, passVars, Emptied, Purging
      <3>2. 1 .. next'[x] - 1 = {}
        BY <3>1
      <3>3. QED
        BY <3>1, <3>2
    <2>5. CASE Goes(w, "finish") /\ pc[w] = "tables" /\ next[w] = Len(Order) + 1
      BY <2>5 DEF Goes, passVars, Emptied, Purging, On
    <2>6. QED
      BY <1>3, <2>1, <2>2, <2>3, <2>4, <2>5 DEF ReadActivity, Claim, ObjectsDone, TablesDone
  <1>4. CASE ReadObjects(w) \/ MarkObject(w) \/ \E o \in Object : EraseObject(w, o)
    BY <1>4 DEF ReadObjects, MarkObject, EraseObject, Emptied, Goes
  <1>5. QED
    BY <1>2, <1>3, <1>4 DEF Works

\* A run's progress through the tables.
LEMMA StepProgress ==
    ASSUME Types, OnlyClaimed, PurgeMarksOnArchived, Emptied, [Next]_vars,
           NEW x \in Worker
    PROVE  (/\ pc[x] \in {"tables", "finish"} =>
                  \A i \in 1 .. next[x] - 1 : NoneIn(On(x), Order[i])
            /\ pc[x] \notin {"tables", "finish"} => next[x] = 1
            /\ pc[x] = "finish" => next[x] = Len(Order) + 1)'
  <1>1. ASSUME Purging(x)
        PROVE  On(x) \in Tenant /\ ~Serving(On(x))
    BY <1>1, TypesSplit, OnTenant DEF Types, HasTenant, OnlyClaimed,
       PurgeMarksOnArchived, Serving
  <1>2. ASSUME Purging(x), NEW i, NoneIn(On(x), Order[i])
        PROVE  \A t : t = On(x) => NoneIn(t, Order[i])'
    <2> SUFFICES ASSUME NEW t, t = On(x) PROVE NoneIn(t, Order[i])'
      OBVIOUS
    <2>1. t \in Tenant /\ ~Serving(t) /\ NoneIn(t, Order[i])
      BY <1>1, <1>2
    <2>2. QED
      BY <2>1, NothingComesBack
  <1>3. CASE UNCHANGED <<pc[x], list[x], next[x]>>
    <2>1. On(x)' = On(x)
      BY <1>3 DEF On
    <2>2. pc[x] \in {"tables", "finish"} => Purging(x)
      BY DEF Purging
    <2>3. QED
      BY <1>2, <1>3, <2>1, <2>2 DEF Emptied
  <1>4. CASE ~UNCHANGED <<pc[x], list[x], next[x]>>
    <2>1. PICK w \in Worker : Works(w) \/ Crash(w)
      <3>1. [Next]_vars => \/ UNCHANGED <<pc, list, next>>
                           \/ \E w \in Worker : Works(w) \/ Crash(w)
        BY DEF Next, OwnerStep, WorkerStep, Login, PilotGoesStale, RetentionElapses,
           Presign, Put, UrlExpires, UpdateBegin, ArchiveBegin, UnarchiveBegin,
           PurgeBegin, Begin, UpdateTx, ArchiveTx, UnarchiveTx, PurgeTx, HandlerFails,
           EraseFails, vars, workerVars, passVars
      <3>2. QED
        BY <1>4, <3>1
    <2>2. CASE ~DeleteTable(w) \/ Stops(w)
      <3>1. /\ pc'[x] \in {"tables", "finish"} =>
                  \A i \in 1 .. next'[x] - 1 : NoneIn(On(x), Order[i]) /\ On(x)' = On(x)
            /\ pc'[x] \in {"tables", "finish"} => Purging(x)
            /\ pc'[x] \notin {"tables", "finish"} => next'[x] = 1
            /\ pc'[x] = "finish" => next'[x] = Len(Order) + 1
        BY <1>4, <2>1, <2>2, RunKeepsEmptied
      <3>2. QED
        BY <1>2, <3>1
    <2>3. CASE DeleteTable(w) /\ ~Stops(w)
      <3>1. /\ UNCHANGED <<pc, list>> /\ pc[w] = "tables"
            /\ next' = [next EXCEPT ![w] = @ + 1]
        BY <2>3 DEF DeleteTable
      <3>2. x = w /\ next[x] \in Nat /\ next'[x] = next[x] + 1 /\ Purging(x)
        BY <1>4, <3>1, OrderLength DEF Types, TypeOK, Purging
      <3>3. On(x)' = On(x)
        BY <3>1 DEF On
      <3>4. \A t, table : t = On(x) /\ table = Order[next[x]] => NoneIn(t, table)'
        BY <2>3, <3>2, TableEmpties
      <3>5. ASSUME NEW i \in 1 .. next[x], NEW t, t = On(x)
            PROVE  NoneIn(t, Order[i])'
        <4>1. CASE i = next[x]
          BY <3>4, <3>5, <4>1
        <4>2. CASE i \in 1 .. next[x] - 1
          BY <1>2, <3>1, <3>2, <3>5, <4>2 DEF Emptied
        <4>3. QED
          BY <3>2, <4>1, <4>2
      <3>6. QED
        BY <3>1, <3>2, <3>3, <3>5
    <2>4. QED
      BY <2>2, <2>3
  <1>5. QED
    BY <1>3, <1>4

\* A tenant goes after the last table, and nothing of it comes back.
LEMMA StepGone ==
    ASSUME Types, Emptied, [Next]_vars,
           NEW t \in Tenant, status'[t] = "gone", NEW i \in 1 .. Len(Order)
    PROVE  NoneIn(t, Order[i])'
  <1>1. CASE status[t] = "gone"
    <2>1. ~Serving(t) /\ NoneIn(t, Order[i])
      BY <1>1 DEF Serving, Emptied
    <2>2. QED
      BY <2>1, NothingComesBack
  <1>2. CASE status[t] # "gone"
    <2>1. ASSUME NEW r \in Request, UpdateTx(r) \/ ArchiveTx(r) \/ UnarchiveTx(r)
          PROVE  FALSE
      <3>1. req[r].op = "update" => req[r].to \in {"pilot", "team", "suspended"}
        BY DEF Types, ReqTyped, Acting
      <3>2. QED
        BY <1>2, <2>1, <3>1 DEF UpdateTx, ArchiveTx, UnarchiveTx, Types, TypeOK, tenantVars
    <2>2. ASSUME NEW w \in Worker, AutoArchive(w)
          PROVE  FALSE
      BY <1>2, <2>2 DEF AutoArchive, Types, TypeOK, tenantVars
    <2>3. [Next]_vars => \/ UNCHANGED status
                         \/ \E r \in Request : UpdateTx(r) \/ ArchiveTx(r) \/ UnarchiveTx(r)
                         \/ \E w \in Worker : AutoArchive(w) \/ DeleteTenant(w)
      BY DEF Next, OwnerStep, WorkerStep, Works, Login, PilotGoesStale, RetentionElapses,
         Presign, Put, UrlExpires, UpdateBegin, ArchiveBegin, UnarchiveBegin, PurgeBegin,
         Begin, PurgeTx, HandlerFails, StartRun, ReadActivity, ReadEligible, EndRun,
         Claim, ReadObjects, MarkObject, ObjectsDone, DeleteTable, TablesDone,
         EraseObject, EraseFails, Crash, vars, tenantVars
    <2>4. PICK w \in Worker : DeleteTenant(w)
      BY <1>2, <2>1, <2>2, <2>3
    <2>5. /\ t = On(w) /\ pc[w] = "finish"
          /\ UNCHANGED <<open, rows, object>>
      BY <1>2, <2>4 DEF DeleteTenant, On, Types, TypeOK, tenantVars, storeVars
    <2>6. next[w] = Len(Order) + 1 /\ Len(Order) \in Nat
      BY <2>5, OrderLength DEF Emptied
    <2>7. NoneIn(On(w), Order[i])
      BY <2>5, <2>6 DEF Emptied
    <2>8. QED
      BY <2>5, <2>7 DEF NoneIn, Objects
  <1>3. QED
    BY <1>1, <1>2

LEMMA StepEmptied ==
    ASSUME Types, OnlyClaimed, PurgeMarksOnArchived, Emptied, [Next]_vars
    PROVE  Emptied'
  <1>1. \A w \in Worker :
          (/\ pc[w] \in {"tables", "finish"} =>
                  \A i \in 1 .. next[w] - 1 : NoneIn(On(w), Order[i])
           /\ pc[w] \notin {"tables", "finish"} => next[w] = 1
           /\ pc[w] = "finish" => next[w] = Len(Order) + 1)'
    BY StepProgress
  <1>2. \A t \in Tenant : status'[t] = "gone" =>
          \A i \in 1 .. Len(Order) : NoneIn(t, Order[i])'
    BY StepGone
  <1>3. QED
    BY <1>1, <1>2 DEF Emptied

\* The order has every table that the property names.
LEMMA EmptiedIsEmpty == Emptied => GoneIsEmpty
  <1> SUFFICES ASSUME Emptied, NEW t \in Tenant, status[t] = "gone"
               PROVE  /\ t \notin open
                      /\ \A o \in Objects(t) : object[o] = "none"
                      /\ \A c \in rows[t] : /\ c \notin ToSet(Order)
                                            /\ \A p \in ToSet(Order) : <<c, p>> \notin Cascading
    BY DEF GoneIsEmpty
  <1>1. \A p \in ToSet(Order) : NoneIn(t, p)
    <2>1. DOMAIN Order = 1 .. Len(Order)
      BY OrderAssumption DEF OrderAssumption
    <2>2. QED
      BY <2>1 DEF Emptied, ToSet
  <1>2. NoneIn(t, "sessions") /\ NoneIn(t, "storage_objects")
    BY <1>1, OrderAssumption DEF OrderAssumption
  <1>3. QED
    BY <1>1, <1>2 DEF NoneIn

\* Every step that ends the service of a tenant ends its sessions, or is the
\* worker's.
LEMMA StepSessions ==
    ASSUME Types, Emptied, SessionsEndWithService, [Next]_vars
    PROVE  SessionsEndWithService'
  <1> USE DEF Types, TypeOK, SessionsEndWithService, Serving
  <1>1. CASE UNCHANGED <<status, autoArchived>> /\ open' \subseteq open
    BY <1>1
  <1>2. ASSUME NEW t \in Tenant, Login(t)
        PROVE  SessionsEndWithService'
    BY <1>2 DEF Login, tenantVars
  <1>3. ASSUME NEW r \in Request, UpdateTx(r)
        PROVE  SessionsEndWithService'
    <2>1. req[r].to \in {"pilot", "team", "suspended"} /\ req[r].tenant \in Tenant
      BY <1>3 DEF UpdateTx, ReqTyped, Acting
    <2>2. QED
      BY <1>3, <2>1 DEF UpdateTx
  <1>4. ASSUME NEW r \in Request, ArchiveTx(r)
        PROVE  SessionsEndWithService'
    BY <1>4 DEF ArchiveTx, tenantVars
  <1>5. ASSUME NEW r \in Request, UnarchiveTx(r)
        PROVE  SessionsEndWithService'
    BY <1>5 DEF UnarchiveTx, tenantVars, useVars
  <1>6. ASSUME NEW w \in Worker, AutoArchive(w)
        PROVE  SessionsEndWithService'
    BY <1>6 DEF AutoArchive, tenantVars, useVars
  <1>7. ASSUME NEW w \in Worker, DeleteTenant(w)
        PROVE  SessionsEndWithService'
    <2>1. On(w) \notin open
      <3>1. next[w] = Len(Order) + 1 /\ Len(Order) \in Nat /\ pc[w] = "finish"
        BY <1>7, OrderLength DEF Emptied, DeleteTenant
      <3>2. \A i \in 1 .. Len(Order) : NoneIn(On(w), Order[i])
        BY <3>1 DEF Emptied
      <3>3. PICK i \in 1 .. Len(Order) : Order[i] = "sessions"
        BY OrderAssumption DEF OrderAssumption, ToSet
      <3>4. QED
        BY <3>2, <3>3 DEF NoneIn
    <2>2. QED
      BY <1>7, <2>1 DEF DeleteTenant, On, tenantVars
  <1>8. [Next]_vars =>
           \/ UNCHANGED <<status, autoArchived, open>>
           \/ \E t \in Tenant : Login(t)
           \/ \E r \in Request : UpdateTx(r) \/ ArchiveTx(r) \/ UnarchiveTx(r)
           \/ \E w \in Worker : AutoArchive(w) \/ DeleteTenant(w) \/ DeleteTable(w)
    BY DEF Next, OwnerStep, WorkerStep, Works, PilotGoesStale, RetentionElapses,
       Presign, Put, UrlExpires, UpdateBegin, ArchiveBegin, UnarchiveBegin, PurgeBegin,
       Begin, PurgeTx, HandlerFails, StartRun, ReadActivity, ReadEligible, EndRun,
       Claim, ReadObjects, MarkObject, ObjectsDone, TablesDone,
       EraseObject, EraseFails, Crash, vars, tenantVars, useVars
  <1>9. ASSUME NEW w \in Worker, DeleteTable(w)
        PROVE  UNCHANGED <<status, autoArchived>> /\ open' \subseteq open
    BY <1>9 DEF DeleteTable, tenantVars
  <1>10. QED
    BY <1>1, <1>2, <1>3, <1>4, <1>5, <1>6, <1>7, <1>8, <1>9

-----------------------------------------------------------------------------
(* The theorems, for one run of the worker and one request at a time. Two  *)
(* updates, or two runs, can bring back a tenant whose purge has begun.    *)

PurgeInv == Inv /\ Marks /\ Emptied /\ SessionsEndWithService

LEMMA PurgeInductive ==
    ASSUME ~Overlap, NEW v, Worker = {v}
    PROVE  Spec => []PurgeInv
  <1>1. Init => PurgeInv
    BY InitInv, InitTypes, InitMarks, InitEmptied DEF PurgeInv, Marks, Inv
  <1>2. PurgeInv /\ [Next]_vars => PurgeInv'
    <2> SUFFICES ASSUME PurgeInv, [Next]_vars PROVE PurgeInv'
      OBVIOUS
    <2>1. Inv' /\ Types' /\ OneRequest'
      BY StepInv, StepTypes, StepOneRequest DEF PurgeInv, Marks
    <2>2. UpdateIsSafe' /\ PurgeMarksOnArchived'
      BY StepMarks DEF PurgeInv
    <2>3. Emptied' /\ SessionsEndWithService'
      BY StepEmptied, StepSessions DEF PurgeInv, Marks
    <2>4. QED
      BY <2>1, <2>2, <2>3 DEF PurgeInv, Marks, Inv
  <1>3. QED
    BY <1>1, <1>2, PTL DEF Spec

\* "a partially-purged tenant can never come back half-visible", nor a purge
\* request outlive an unarchive (tenant-purge.service.ts:232-237,
\* platform.service.ts:905-909): a tenant with a purge mark stays archived.
THEOREM MarkedStaysArchived ==
    ASSUME ~Overlap, NEW v, Worker = {v}
    PROVE  Spec => []PurgeMarksOnArchived
  <1>1. PurgeInv => PurgeMarksOnArchived
    BY DEF PurgeInv, Marks
  <1>2. QED
    BY <1>1, PurgeInductive, PTL

\* The order of deletion covers what it claims to (tenant-purge.service.ts:76):
\* of a purged tenant no row of a listed table, none that cascades from one, no
\* session and no object row is left, however often the purge was interrupted.
THEOREM PurgedIsEmpty ==
    ASSUME ~Overlap, NEW v, Worker = {v}
    PROVE  Spec => []GoneIsEmpty
  <1>1. PurgeInv => GoneIsEmpty
    BY EmptiedIsEmpty DEF PurgeInv
  <1>2. QED
    BY <1>1, PurgeInductive, PTL

\* A tenant that is not served has no live session but those of a pilot that
\* the worker archived (platform.service.ts:1265).
THEOREM SessionsEnd ==
    ASSUME ~Overlap, NEW v, Worker = {v}
    PROVE  Spec => []SessionsEndWithService
  <1>1. PurgeInv => SessionsEndWithService
    BY DEF PurgeInv
  <1>2. QED
    BY <1>1, PurgeInductive, PTL
=============================================================================
