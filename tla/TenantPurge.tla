---------------------------- MODULE TenantPurge ----------------------------
(***************************************************************************)
(* The end of a tenant's life: the platform owner's requests that change   *)
(* its status (platform.service.ts), and the worker that archives stale    *)
(* pilots and purges archived tenants (tenant-purge.service.ts, the        *)
(* storage half in storage.service.ts).                                    *)
(*                                                                         *)
(* A request reads the tenant in one round trip and writes it in another;  *)
(* the worker acts on a list it read at the start of its run, deletes the  *)
(* bucket's objects, then the tables in a fixed order, then the tenant,    *)
(* and can stop anywhere.                                                  *)
(***************************************************************************)
EXTENDS Naturals, Sequences, SequencesExt, FiniteSets

CONSTANTS
    Tenant,
    Request,        \* requests of the platform owner served at a time
    Worker,         \* runs of the purge task at a time
    Object,         \* storage objects
    ObjectTenant,   \* the tenant of each
    Table,          \* tenant-owned tables other than storage_objects, sessions
    Order,          \* tenantOwnedDeletionOrder, a sequence of table names
    Restricting,   \* pairs <<child, parent>>: onDelete Restrict
    Cascading,    \* pairs <<child, parent>>: onDelete Cascade, transitively
    MayBlock,       \* tables a tenant may have no rows of
    Overlap,        \* whether the owner's requests overlap
    None

ASSUME ObjectTenantAssumption == ObjectTenant \in [Object -> Tenant]
ASSUME OrderAssumption ==
    /\ Order \in Seq(Table \cup {"storage_objects", "sessions"})
    /\ {"storage_objects", "sessions"} \subseteq ToSet(Order)
ASSUME TableAssumption == /\ {"storage_objects", "sessions"} \cap Table = {}
                          /\ MayBlock \subseteq Table
ASSUME OverlapAssumption == Overlap \in BOOLEAN
ASSUME TenantAssumption == IsFiniteSet(Tenant)
ASSUME NoneAssumption == None \notin Tenant \cup Object

VARIABLES
    status,         \* PlatformTenant.status; "gone" once the row is deleted
    byAge,          \* tenants with archivedAt set, oldest archivedAt first
    due,            \* ... whose retention window has elapsed since
    requested,      \* tenants with purgeRequestedAt set
    started,        \* tenants with purgeStartedAt set
    stale,          \* pilots without activity for autoArchiveDays
    open,           \* tenants with sessions that are not revoked
    autoArchived,   \* history: archived last by the worker
    rows,           \* the tables a tenant has rows of
    object,         \* StorageObject.status; "none" without a row
    bucket,         \* objects the bucket holds
    url,            \* objects with a presigned PUT that has not run out
    late,           \* history: objects uploaded after their tenant's claim
    req,            \* the owner's requests in progress
    pc,             \* a run of the worker: what it does next
    list,           \* ... what its last query returned and it has to deal with
    marked,         \* ... tenants whose purgeStartedAt was set in that query
    left,           \* ... objects it has not visited yet
    erased,         \* ... the object it deleted from the bucket and has to mark
    failed,         \* ... whether an object's deletion failed
    next            \* ... the next table, an index of Order

tenantVars == <<status, byAge, due, requested, started, autoArchived>>
useVars == <<stale, open, rows>>
storeVars == <<object, bucket, url, late>>
passVars == <<left, erased, failed, next>>
workerVars == <<pc, list, marked, passVars>>
vars == <<tenantVars, useVars, storeVars, req, workerVars>>

\* business is treated as team; draft to active are legacy and not assignable.
Status == {"pilot", "team", "suspended", "archived", "gone"}
Serving(t) == status[t] \in {"pilot", "team"}

Idle == [op |-> "idle", tenant |-> None, to |-> "gone"]

TypeOK ==
    /\ status \in [Tenant -> Status]
    /\ byAge \in Seq(Tenant)
    /\ due \subseteq Tenant /\ requested \subseteq Tenant
    /\ started \subseteq Tenant /\ stale \subseteq Tenant
    /\ open \subseteq Tenant /\ autoArchived \subseteq Tenant
    /\ rows \in [Tenant -> SUBSET Table]
    /\ object \in [Object -> {"none", "active", "deleted"}]
    /\ bucket \subseteq Object /\ url \subseteq Object /\ late \subseteq Object
    /\ req \in [Request -> [op : {"idle", "update", "archive", "unarchive", "purge"},
                            tenant : Tenant \cup {None}, to : Status]]
    /\ pc \in [Worker -> {"off", "pilots", "autoArchive", "tenants", "claim",
                          "objects", "mark", "tables", "finish"}]
    /\ list \in [Worker -> Seq(Tenant)]
    /\ marked \in [Worker -> SUBSET Tenant]
    /\ left \in [Worker -> SUBSET Object]
    /\ erased \in [Worker -> Object \cup {None}]
    /\ failed \in [Worker -> BOOLEAN]
    /\ next \in [Worker -> 1 .. Len(Order) + 1]
    /\ \A w \in Worker : (erased[w] # None) <=> (pc[w] = "mark")

Init ==
    /\ status = [t \in Tenant |-> "pilot"]
    /\ byAge = <<>>
    /\ due = {} /\ requested = {} /\ started = {}
    /\ stale = {} /\ open = {} /\ autoArchived = {}
    /\ rows \in [Tenant -> {Table \ m : m \in SUBSET MayBlock}]
    /\ object = [o \in Object |-> "none"]
    /\ bucket = {} /\ url = {} /\ late = {}
    /\ req = [r \in Request |-> Idle]
    /\ pc = [w \in Worker |-> "off"]
    /\ list = [w \in Worker |-> <<>>]
    /\ marked = [w \in Worker |-> {}]
    /\ left = [w \in Worker |-> {}]
    /\ erased = [w \in Worker |-> None]
    /\ failed = [w \in Worker |-> FALSE]
    /\ next = [w \in Worker |-> 1]
-----------------------------------------------------------------------------
(* A tenant in use.                                                        *)

\* A user signs in, in one step.
Login(t) ==
    /\ Serving(t)
    /\ open' = open \cup {t}
    /\ stale' = stale \ {t}
    /\ UNCHANGED <<tenantVars, rows, storeVars, req, workerVars>>

\* Days without activity; no request is that long under way.
PilotGoesStale(t) ==
    /\ status[t] = "pilot"
    /\ \A r \in Request : req[r].op = "idle"
    /\ stale' = stale \cup {t}
    /\ UNCHANGED <<tenantVars, open, rows, storeVars, req, workerVars>>

\* A row and a presigned PUT, for a request of a tenant that is served.
Presign(o) ==
    /\ Serving(ObjectTenant[o])
    /\ object[o] = "none"
    /\ object' = [object EXCEPT ![o] = "active"]
    /\ url' = url \cup {o}
    /\ UNCHANGED <<tenantVars, useVars, bucket, late, req, workerVars>>

\* The bucket checks the URL and nothing else.
Put(o) ==
    /\ o \in url
    /\ bucket' = bucket \cup {o}
    /\ late' = IF ObjectTenant[o] \in started THEN late \cup {o} ELSE late
    /\ UNCHANGED <<tenantVars, useVars, object, url, req, workerVars>>

UrlExpires(o) ==
    /\ o \in url
    /\ url' = url \ {o}
    /\ UNCHANGED <<tenantVars, useVars, object, bucket, late, req, workerVars>>

\* The retention window is days long, a request is not.
RetentionElapses(t) ==
    /\ status[t] = "archived"
    /\ \A r \in Request : req[r].op = "idle"
    /\ due' = due \cup {t}
    /\ UNCHANGED <<status, byAge, requested, started, autoArchived, useVars,
                   storeVars, req, workerVars>>
-----------------------------------------------------------------------------
(* The owner's requests: what they read, then what they write.             *)

Begin(r, op, t, to) ==
    /\ req[r].op = "idle"
    /\ Overlap \/ \A q \in Request : req[q].op = "idle"
    /\ req' = [req EXCEPT ![r] = [op |-> op, tenant |-> t, to |-> to]]
    /\ UNCHANGED <<tenantVars, useVars, storeVars, workerVars>>

\* updateTenant with a status, up to its transaction.
UpdateBegin(r, t) ==
    /\ status[t] \notin {"archived", "gone"}
    /\ \E to \in {"pilot", "team", "suspended"} : Begin(r, "update", t, to)

\* archiveTenant; archiving an archived tenant changes nothing.
ArchiveBegin(r, t) ==
    /\ status[t] \notin {"archived", "gone"}
    /\ Begin(r, "archive", t, "archived")

\* unarchiveTenant; refused once the purge has started.
UnarchiveBegin(r, t) ==
    /\ status[t] = "archived" /\ t \notin started
    /\ Begin(r, "unarchive", t, "suspended")

\* requestTenantPurge, up to and with the second factor.
PurgeBegin(r, t) ==
    /\ status[t] = "archived" /\ t \notin requested \cup started
    /\ Begin(r, "purge", t, "archived")

Finish(r) == req' = [req EXCEPT ![r] = Idle]

\* archivedAt of t is cleared: s, which holds a tenant once at most, without t.
Without(s, t) ==
    IF t \in ToSet(s) THEN RemoveAt(s, CHOOSE i \in DOMAIN s : s[i] = t) ELSE s

\* Mutant of UpdateTx: the sessions stay open.
UpdateTxKeepsSessions(r) ==
    /\ req[r].op = "update"
    /\ LET t == req[r].tenant IN
        /\ status[t] # "gone"
        /\ status' = [status EXCEPT ![t] = req[r].to]
        /\ autoArchived' = autoArchived \ {t}
    /\ Finish(r)
    /\ UNCHANGED <<byAge, due, requested, started, useVars, storeVars, workerVars>>

\* update by id: neither the status nor purgeStartedAt is looked at again, and
\* archivedAt stays. On a deleted row it fails (HandlerFails).
UpdateTx(r) ==
    /\ req[r].op = "update"
    /\ LET t == req[r].tenant IN
        /\ status[t] # "gone"
        /\ status' = [status EXCEPT ![t] = req[r].to]
        /\ open' = IF req[r].to = "suspended" THEN open \ {t} ELSE open
        /\ autoArchived' = autoArchived \ {t}
    /\ Finish(r)
    /\ UNCHANGED <<byAge, due, requested, started, stale, rows, storeVars, workerVars>>

\* Conditional on the status not being archived by now.
ArchiveTx(r) ==
    /\ req[r].op = "archive"
    /\ LET t == req[r].tenant IN
       IF status[t] \in {"archived", "gone"}
       THEN UNCHANGED <<tenantVars, open>>
       ELSE /\ status' = [status EXCEPT ![t] = "archived"]
            /\ byAge' = Append(Without(byAge, t), t)
            /\ due' = due \ {t}
            /\ open' = open \ {t}
            /\ autoArchived' = autoArchived \ {t}
            /\ UNCHANGED <<requested, started>>
    /\ Finish(r)
    /\ UNCHANGED <<stale, rows, storeVars, workerVars>>

\* Mutant of UnarchiveTx: the purge request is kept.
UnarchiveTxKeepsRequest(r) ==
    /\ req[r].op = "unarchive"
    /\ LET t == req[r].tenant IN
       IF status[t] # "archived" \/ t \in started
       THEN UNCHANGED tenantVars
       ELSE /\ status' = [status EXCEPT ![t] = "suspended"]
            /\ byAge' = Without(byAge, t)
            /\ due' = due \ {t}
            /\ UNCHANGED <<requested, started, autoArchived>>
    /\ Finish(r)
    /\ UNCHANGED <<useVars, storeVars, workerVars>>

\* Conditional on being archived and not claimed by the worker.
UnarchiveTx(r) ==
    /\ req[r].op = "unarchive"
    /\ LET t == req[r].tenant IN
       IF status[t] # "archived" \/ t \in started
       THEN UNCHANGED tenantVars
       ELSE /\ status' = [status EXCEPT ![t] = "suspended"]
            /\ byAge' = Without(byAge, t)
            /\ due' = due \ {t}
            /\ requested' = requested \ {t}
            /\ UNCHANGED <<started, autoArchived>>
    /\ Finish(r)
    /\ UNCHANGED <<useVars, storeVars, workerVars>>

\* Conditional on being archived, neither requested nor claimed.
PurgeTx(r) ==
    /\ req[r].op = "purge"
    /\ LET t == req[r].tenant IN
       requested' = IF status[t] = "archived" /\ t \notin started
                    THEN requested \cup {t} ELSE requested
    /\ Finish(r)
    /\ UNCHANGED <<status, byAge, due, started, autoArchived, useVars,
                   storeVars, workerVars>>

HandlerFails(r) ==
    /\ req[r].op # "idle"
    /\ Finish(r)
    /\ UNCHANGED <<tenantVars, useVars, storeVars, workerVars>>

OwnerStep ==
    \E r \in Request :
        \/ \E t \in Tenant : \/ UpdateBegin(r, t) \/ ArchiveBegin(r, t)
                             \/ UnarchiveBegin(r, t) \/ PurgeBegin(r, t)
        \/ UpdateTx(r) \/ ArchiveTx(r) \/ UnarchiveTx(r) \/ PurgeTx(r)
        \/ HandlerFails(r)
-----------------------------------------------------------------------------
(* The worker: runPurge. list is what its last query returned and it has   *)
(* not dealt with, marked the tenants whose row said purgeStartedAt then.  *)

Goes(w, to) == /\ pc' = [pc EXCEPT ![w] = to]
               /\ UNCHANGED <<list, marked, passVars>>
Starts(w, to, l, m) == /\ pc' = [pc EXCEPT ![w] = to]
                       /\ list' = [list EXCEPT ![w] = l]
                       /\ marked' = [marked EXCEPT ![w] = m]
                       /\ left' = [left EXCEPT ![w] = {}]
                       /\ erased' = [erased EXCEPT ![w] = None]
                       /\ failed' = [failed EXCEPT ![w] = FALSE]
                       /\ next' = [next EXCEPT ![w] = 1]
Skips(w, to) == Starts(w, to, Tail(list[w]), marked[w])
Stops(w) == Starts(w, "off", <<>>, {})

\* autoArchiveStalePilots: the candidates.
StartRun(w) ==
    /\ pc[w] = "off"
    /\ \E l \in SetToSeqs({t \in Tenant : status[t] = "pilot"}) :
           Starts(w, "pilots", l, {})
    /\ UNCHANGED <<tenantVars, useVars, storeVars, req>>

\* resolveLastPilotActivityAt of the next candidate.
ReadActivity(w) ==
    /\ pc[w] = "pilots" /\ list[w] # <<>>
    /\ IF Head(list[w]) \in stale THEN Goes(w, "autoArchive")
                                     ELSE Skips(w, "pilots")
    /\ UNCHANGED <<tenantVars, useVars, storeVars, req>>

\* The write is conditional on the status still being pilot; it leaves the
\* sessions alone.
AutoArchive(w) ==
    /\ pc[w] = "autoArchive"
    /\ LET t == Head(list[w]) IN
       IF status[t] # "pilot" THEN UNCHANGED tenantVars
       ELSE /\ status' = [status EXCEPT ![t] = "archived"]
            /\ byAge' = Append(Without(byAge, t), t)
            /\ due' = due \ {t}
            /\ autoArchived' = autoArchived \cup {t}
            /\ UNCHANGED <<requested, started>>
    /\ Skips(w, "pilots")
    /\ UNCHANGED <<useVars, storeVars, req>>

Eligible(t) == status[t] = "archived" /\ t \in started \cup requested \cup due

\* purgeEligibleTenants: the candidates, by archivedAt.
ReadEligible(w) ==
    /\ pc[w] = "pilots" /\ list[w] = <<>>
    /\ \E l \in SetToSeqs({t \in ToSet(byAge) : Eligible(t)}) :
        /\ \A i, j \in DOMAIN byAge, k, m \in DOMAIN l :
               byAge[i] = l[k] /\ byAge[j] = l[m] /\ i < j => k < m
        /\ Starts(w, "tenants", l, started)
    /\ UNCHANGED <<tenantVars, useVars, storeVars, req>>

EndRun(w) ==
    /\ pc[w] = "tenants" /\ list[w] = <<>>
    /\ Stops(w)
    /\ UNCHANGED <<tenantVars, useVars, storeVars, req>>

\* Mutant of Claim: the tenant's status is not looked at again.
ClaimAny(w) ==
    /\ pc[w] = "tenants" /\ list[w] # <<>>
    /\ LET t == Head(list[w]) IN
       \/ /\ t \in marked[w]
          /\ Goes(w, "claim")
          /\ UNCHANGED started
       \/ /\ t \notin marked[w]
          /\ status[t] # "gone" /\ t \notin started
          /\ started' = started \cup {t}
          /\ Goes(w, "claim")
    /\ UNCHANGED <<status, byAge, due, requested, autoArchived, useVars,
                   storeVars, req>>

\* Mutant of Claim: a tenant the list has as started is claimed like another.
ClaimFresh(w) ==
    /\ pc[w] = "tenants" /\ list[w] # <<>>
    /\ LET t == Head(list[w]) IN
       IF status[t] = "archived" /\ t \notin started
       THEN started' = started \cup {t} /\ Goes(w, "claim")
       ELSE Skips(w, "tenants") /\ UNCHANGED started
    /\ UNCHANGED <<status, byAge, due, requested, autoArchived, useVars,
                   storeVars, req>>

\* purgeTenant: a tenant the list has as started is taken up as it is; another
\* is claimed, conditional on being archived and unclaimed, and left alone when
\* it is not.
Claim(w) ==
    /\ pc[w] = "tenants" /\ list[w] # <<>>
    /\ LET t == Head(list[w]) IN
       \/ /\ t \in marked[w]
          /\ Goes(w, "claim")
          /\ UNCHANGED started
       \/ /\ t \notin marked[w]
          /\ status[t] = "archived" /\ t \notin started
          /\ started' = started \cup {t}
          /\ Goes(w, "claim")
       \/ /\ t \notin marked[w]
          /\ status[t] # "archived" \/ t \in started
          /\ Skips(w, "tenants")
          /\ UNCHANGED started
    /\ UNCHANGED <<status, byAge, due, requested, autoArchived, useVars,
                   storeVars, req>>

Objects(t) == {o \in Object : ObjectTenant[o] = t}

\* deleteAllTenantObjects: the rows not marked deleted.
ReadObjects(w) ==
    /\ pc[w] = "claim"
    /\ pc' = [pc EXCEPT ![w] = "objects"]
    /\ left' = [left EXCEPT ![w] = {o \in Objects(Head(list[w])) :
                                       object[o] = "active"}]
    /\ UNCHANGED <<list, marked, erased, failed, next>>
    /\ UNCHANGED <<tenantVars, useVars, storeVars, req>>

EraseObject(w, o) ==
    /\ pc[w] = "objects" /\ o \in left[w]
    /\ bucket' = bucket \ {o}
    /\ pc' = [pc EXCEPT ![w] = "mark"]
    /\ erased' = [erased EXCEPT ![w] = o]
    /\ left' = [left EXCEPT ![w] = @ \ {o}]
    /\ UNCHANGED <<list, marked, failed, next>>
    /\ UNCHANGED <<tenantVars, useVars, object, url, late, req>>

\* Mutant of EraseFails: the object is not counted as failed.
EraseFailsSilently(w, o) ==
    /\ pc[w] = "objects" /\ o \in left[w]
    /\ left' = [left EXCEPT ![w] = @ \ {o}]
    /\ UNCHANGED <<pc, list, marked, erased, failed, next>>
    /\ UNCHANGED <<tenantVars, useVars, storeVars, req>>

EraseFails(w, o) ==
    /\ pc[w] = "objects" /\ o \in left[w]
    /\ left' = [left EXCEPT ![w] = @ \ {o}]
    /\ failed' = [failed EXCEPT ![w] = TRUE]
    /\ UNCHANGED <<pc, list, marked, erased, next>>
    /\ UNCHANGED <<tenantVars, useVars, storeVars, req>>

\* Mutant of MarkObject: the next object is not taken.
MarkObjectAgain(w) ==
    /\ pc[w] = "mark"
    /\ object' = [object EXCEPT ![erased[w]] = "deleted"]
    /\ Goes(w, "objects")
    /\ UNCHANGED <<tenantVars, useVars, bucket, url, late, req>>

\* The row is marked after the bucket's delete; a row another run has deleted
\* meanwhile counts as a failure.
MarkObject(w) ==
    /\ pc[w] = "mark"
    /\ LET o == erased[w] IN
        /\ object' = IF object[o] = "none" THEN object
                     ELSE [object EXCEPT ![o] = "deleted"]
        /\ failed' = [failed EXCEPT ![w] = @ \/ object[o] = "none"]
    /\ pc' = [pc EXCEPT ![w] = "objects"]
    /\ erased' = [erased EXCEPT ![w] = None]
    /\ UNCHANGED <<list, marked, left, next>>
    /\ UNCHANGED <<tenantVars, useVars, bucket, url, late, req>>

\* Any failure ends the purge of this tenant until the next run.
ObjectsDone(w) ==
    /\ pc[w] = "objects" /\ left[w] = {}
    /\ IF failed[w] THEN Skips(w, "tenants") ELSE Goes(w, "tables")
    /\ UNCHANGED <<tenantVars, useVars, storeVars, req>>

With(s, parent) == {c \in s : <<c, parent>> \in Cascading}

\* The batches of one table. A Restrict child still there raises an error,
\* which ends the whole run.
DeleteTable(w) ==
    /\ pc[w] = "tables" /\ next[w] <= Len(Order)
    /\ LET t == Head(list[w])
           table == Order[next[w]]
           blocked == table \in rows[t] /\
                      \E c \in rows[t] : <<c, table>> \in Restricting
       IN IF blocked
          THEN Stops(w) /\ UNCHANGED <<rows, object, open>>
          ELSE /\ rows' = [rows EXCEPT ![t] = @ \ ({table} \cup With(@, table))]
               /\ object' = IF table # "storage_objects" THEN object
                            ELSE [o \in Object |-> IF o \in Objects(t)
                                                   THEN "none" ELSE object[o]]
               /\ open' = IF table = "sessions" THEN open \ {t} ELSE open
               /\ next' = [next EXCEPT ![w] = @ + 1]
               /\ UNCHANGED <<pc, list, marked, left, erased, failed>>
    /\ UNCHANGED <<tenantVars, stale, bucket, url, late, req>>

TablesDone(w) ==
    /\ pc[w] = "tables" /\ next[w] = Len(Order) + 1
    /\ Goes(w, "finish")
    /\ UNCHANGED <<tenantVars, useVars, storeVars, req>>

\* The tenant and the completion event; a row another run has deleted raises an
\* error, which ends the run.
DeleteTenant(w) ==
    /\ pc[w] = "finish"
    /\ LET t == Head(list[w]) IN
       IF status[t] = "gone" THEN Stops(w) /\ UNCHANGED <<tenantVars, stale>>
       ELSE /\ status' = [status EXCEPT ![t] = "gone"]
            /\ byAge' = Without(byAge, t)
            /\ due' = due \ {t}
            /\ requested' = requested \ {t}
            /\ autoArchived' = autoArchived \ {t}
            /\ stale' = stale \ {t}
            /\ Skips(w, "tenants")
            /\ UNCHANGED started
    /\ UNCHANGED <<open, rows, storeVars, req>>

Crash(w) ==
    /\ pc[w] # "off"
    /\ Stops(w)
    /\ UNCHANGED <<tenantVars, useVars, storeVars, req>>

\* What a run does when neither the process nor the bucket fails.
Works(w) ==
    \/ StartRun(w) \/ ReadActivity(w) \/ AutoArchive(w) \/ ReadEligible(w)
    \/ EndRun(w) \/ Claim(w) \/ ReadObjects(w) \/ MarkObject(w)
    \/ ObjectsDone(w) \/ DeleteTable(w) \/ TablesDone(w) \/ DeleteTenant(w)
    \/ \E o \in Object : EraseObject(w, o)

WorkerStep ==
    \E w \in Worker : \/ Works(w) \/ Crash(w)
                      \/ \E o \in Object : EraseFails(w, o)

Next ==
    \/ \E t \in Tenant : Login(t) \/ PilotGoesStale(t) \/ RetentionElapses(t)
    \/ \E o \in Object : Presign(o) \/ Put(o) \/ UrlExpires(o)
    \/ OwnerStep
    \/ WorkerStep

Spec == Init /\ [][Next]_vars

Fails(w) == Crash(w) \/ \E o \in Object : EraseFails(w, o)

\* The task is scheduled again and again, and from some moment on neither the
\* process nor the bucket fails.
FairSpec ==
    /\ Spec
    /\ \A w \in Worker : WF_vars(Works(w))
    /\ <>[][\A w \in Worker : Fails(w) => Works(w)]_vars
-----------------------------------------------------------------------------
(* Properties.                                                             *)

\* "a partially-purged tenant can never come back half-visible", and a purge
\* request does not outlive an unarchive (tenant-purge.service.ts:232-237,
\* platform.service.ts:905-909).
PurgeMarksOnArchived ==
    \A t \in requested \cup started : status[t] \in {"archived", "gone"}

\* Storage before rows: an object without a row pointing at it, which nothing
\* will ever delete, is one that was uploaded while its tenant was being
\* purged (tenant-purge.service.ts:260-263).
OrphanWasLate ==
    \A o \in bucket : object[o] = "active" \/ o \in late

\* A purged tenant has no row left in a table of the order, nor in one that
\* cascades from it.
GoneIsEmpty ==
    \A t \in Tenant : status[t] = "gone" =>
        /\ t \notin open
        /\ \A o \in Objects(t) : object[o] = "none"
        /\ \A c \in rows[t] : /\ c \notin ToSet(Order)
                              /\ \A p \in ToSet(Order) : <<c, p>> \notin Cascading

\* A status that is not served ends the live sessions (platform.service.ts:1265)
\* unless it is the worker that archived the tenant.
SessionsEndWithService ==
    \A t \in open : Serving(t) \/ t \in autoArchived

\* Rows of a table outside the order that keep a listed one from being deleted.
Blocked(t) ==
    \E c \in rows[t] : /\ c \notin ToSet(Order)
                       /\ \E p \in ToSet(Order) : <<c, p>> \in Restricting

\* An interrupted purge is resumed until the tenant is gone, through crashes,
\* storage failures and another run on the same tenant, if no tenant is blocked.
PurgeEnds ==
    (\A t \in Tenant : ~Blocked(t)) =>
        \A t \in Tenant : t \in started ~> status[t] = "gone"

\* "an interrupted purge resumes on the next run" (docs/runbooks/production-deployment.md:88).
PurgeResumes == \A t \in Tenant : t \in started ~> status[t] = "gone"

\* A purge starts on a tenant whose retention has elapsed or that was requested
\* and not rescued since: "a rescued tenant is never purged"
\* (platform.service.ts:908-909).
RescuedIsNotPurged ==
    [][started' \ started \subseteq requested \cup due]_vars
=============================================================================
