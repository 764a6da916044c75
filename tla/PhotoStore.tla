----------------------------- MODULE PhotoStore -----------------------------
(***************************************************************************)
(* The problem photo of one visit: a StorageObject row per registration    *)
(* (visits.service.ts), its bytes in the bucket, the presigned URLs that   *)
(* put them there, the confirm that claims the photo its report points at, *)
(* and the cleanup worker that collects the rest (storage.service.ts).     *)
(*                                                                         *)
(* Three parties act on a row without a lock between them: the form on     *)
(* the phone, handlers of the API, and the worker, which reads a batch and *)
(* then works through it object by object.                                 *)
(***************************************************************************)
EXTENDS Naturals, FiniteSets

CONSTANTS
    Obj,        \* storage objects, one for each registration
    Handler,    \* registrations the API serves at the same time
    None        \* SQL NULL, and "no such object"

ASSUME PhotoNoneAssumption == None \notin Obj

VARIABLES
    status,         \* StorageObject.status; "none" before the row exists
    expiry,         \* whether expiresAt is ahead, past, or NULL
    deleted,        \* rows whose deletedAt is set
    bytes,          \* objects the bucket holds
    urls,           \* objects with a presigned PUT that has not run out
    reg,            \* registration handlers in progress
    batch,          \* rows the worker read and has not dealt with
    erased,         \* ... of which the bucket object is deleted already
    held,           \* form: the registration its waiting bytes go to
    attached,       \* form: the uploaded photo (problemPhoto)
    pending,        \* report outbox: the photo of the queued confirm
    reportPhoto     \* the photo the visit's report points at

rowVars == <<status, expiry, deleted>>
workerVars == <<batch, erased>>
formVars == <<held, attached, pending>>
vars == <<rowVars, bytes, urls, reg, workerVars, formVars, reportPhoto>>

IdleHandler == [pc |-> "idle", seen |-> {}, obj |-> None]

TypeOK ==
    /\ status \in [Obj -> {"none", "active", "expired", "deleted"}]
    /\ expiry \in [Obj -> {"ahead", "past", "null"}]
    /\ deleted \subseteq Obj
    /\ bytes \subseteq Obj
    /\ urls \subseteq Obj
    /\ reg \in [Handler -> [pc : {"idle", "swept", "created"},
                            seen : SUBSET Obj, obj : Obj \cup {None}]]
    /\ erased \subseteq batch /\ batch \subseteq Obj
    /\ {held, attached, pending, reportPhoto} \subseteq Obj \cup {None}

Init ==
    /\ status = [o \in Obj |-> "none"]
    /\ expiry = [o \in Obj |-> "null"]
    /\ deleted = {} /\ bytes = {} /\ urls = {}
    /\ reg = [h \in Handler |-> IdleHandler]
    /\ batch = {} /\ erased = {}
    /\ held = None /\ attached = None /\ pending = None /\ reportPhoto = None

\* Mutant of Unclaimed: a claimed photo counts as unclaimed.
UnclaimedActive(o) == status[o] = "active"

\* A registered photo no confirm has claimed.
Unclaimed(o) == status[o] = "active" /\ expiry[o] # "null"
-----------------------------------------------------------------------------
(* registerProblemPhotoUpload                                              *)

\* The transaction's updateMany picks its rows from what is committed now.
RegisterSweep(h) ==
    /\ reg[h].pc = "idle"
    /\ held = None
    /\ reg' = [reg EXCEPT ![h] = [pc |-> "swept", obj |-> None,
                                  seen |-> {o \in Obj : Unclaimed(o)}]]
    /\ UNCHANGED <<rowVars, bytes, urls, workerVars, formVars, reportPhoto>>

\* It waits for the locks of those rows, looks at them again, expires the ones
\* that still match, and commits with the new row.
RegisterCommit(h) ==
    LET superseded == {o \in reg[h].seen : Unclaimed(o)} IN
    /\ reg[h].pc = "swept"
    /\ \E n \in Obj :
          /\ status[n] = "none"
          /\ status' = [o \in Obj |-> IF o = n THEN "active"
                                      ELSE IF o \in superseded THEN "expired"
                                      ELSE status[o]]
          /\ expiry' = [o \in Obj |-> IF o = n THEN "ahead"
                                      ELSE IF o \in superseded THEN "past"
                                      ELSE expiry[o]]
          /\ reg' = [reg EXCEPT ![h] = [pc |-> "created", seen |-> {}, obj |-> n]]
    /\ UNCHANGED <<deleted, bytes, urls, workerVars, formVars, reportPhoto>>

\* createPresignedUploadUrl refuses a row that is not active any more; the
\* answer may also be lost, or the handler fail anywhere.
RegisterAnswered(h) ==
    /\ reg[h].pc = "created"
    /\ status[reg[h].obj] = "active"
    /\ held' = reg[h].obj
    /\ urls' = urls \cup {reg[h].obj}
    /\ reg' = [reg EXCEPT ![h] = IdleHandler]
    /\ UNCHANGED <<rowVars, bytes, workerVars, attached, pending, reportPhoto>>

RegisterUnheard(h) ==
    /\ reg[h].pc # "idle"
    /\ reg' = [reg EXCEPT ![h] = IdleHandler]
    /\ UNCHANGED <<rowVars, bytes, urls, workerVars, formVars, reportPhoto>>
-----------------------------------------------------------------------------
(* The form: handlePhotoSelected, closeProblem, and the confirm it queues.  *)

\* A retry re-signs the registration it holds, and drops one that is gone.
Resign ==
    /\ held # None
    /\ IF status[held] = "active"
       THEN urls' = urls \cup {held} /\ UNCHANGED held
       ELSE held' = None /\ UNCHANGED urls
    /\ UNCHANGED <<rowVars, bytes, reg, workerVars, attached, pending,
                   reportPhoto>>

\* The bucket takes a PUT as long as its URL is valid, and knows no rows.  The
\* form may have moved on, or never hear that it worked.
Put(o) ==
    /\ o \in urls
    /\ bytes' = bytes \cup {o}
    /\ \/ UNCHANGED <<held, attached>>
       \/ held = o /\ held' = None /\ attached' = o
    /\ UNCHANGED <<rowVars, urls, reg, workerVars, pending, reportPhoto>>

Discard ==
    /\ {held, attached} # {None}
    /\ held' = None /\ attached' = None
    /\ UNCHANGED <<rowVars, bytes, urls, reg, workerVars, pending, reportPhoto>>

\* The confirm waits in the report outbox for as long as there is no signal.
PressSave ==
    /\ attached # None /\ pending # attached
    /\ pending' = attached
    /\ UNCHANGED <<rowVars, bytes, urls, reg, workerVars, held, attached,
                   reportPhoto>>

\* confirmReport's transaction claims the photo by its id, whatever its state.
ConfirmTx ==
    /\ pending # None
    /\ status' = [status EXCEPT ![pending] = "active"]
    /\ expiry' = [expiry EXCEPT ![pending] = "null"]
    /\ reportPhoto' = pending
    /\ pending' = None
    /\ UNCHANGED <<deleted, bytes, urls, reg, workerVars, held, attached>>
-----------------------------------------------------------------------------
(* cleanupExpiredTemporaryObjects; a batch takes every row that is due.     *)

\* Mutants of Due: rows are collected before their time, or only active ones.
DueEarly(o) == status[o] \in {"active", "expired"} /\ expiry[o] # "null" /\ o \notin deleted
DueActive(o) == status[o] = "active" /\ expiry[o] = "past" /\ o \notin deleted

Due(o) == status[o] \in {"active", "expired"} /\ expiry[o] = "past" /\ o \notin deleted

SweepRead ==
    /\ batch = {}
    /\ \E o \in Obj : Due(o)
    /\ batch' = {o \in Obj : Due(o)}
    /\ UNCHANGED <<rowVars, bytes, urls, reg, erased, formVars, reportPhoto>>

SweepDelete(o) ==
    /\ o \in batch \ erased
    /\ erased = {}
    /\ bytes' = bytes \ {o}
    /\ erased' = {o}
    /\ UNCHANGED <<rowVars, urls, reg, batch, formVars, reportPhoto>>

\* Mutant of SweepMark: the worker does not move on.
SweepMarkKeepsErased(o) ==
    /\ o \in erased
    /\ status' = [status EXCEPT ![o] = "deleted"]
    /\ deleted' = deleted \cup {o}
    /\ batch' = batch \ {o}
    /\ UNCHANGED erased
    /\ UNCHANGED <<expiry, bytes, urls, reg, formVars, reportPhoto>>

SweepMark(o) ==
    /\ o \in erased
    /\ status' = [status EXCEPT ![o] = "deleted"]
    /\ deleted' = deleted \cup {o}
    /\ batch' = batch \ {o}
    /\ erased' = {}
    /\ UNCHANGED <<expiry, bytes, urls, reg, formVars, reportPhoto>>

\* Either call fails for one object, and the loop goes on to the next.
SweepSkip(o) ==
    /\ o \in batch /\ erased \subseteq {o}
    /\ batch' = batch \ {o}
    /\ erased' = {}
    /\ UNCHANGED <<rowVars, bytes, urls, reg, formVars, reportPhoto>>

SweepCrash ==
    /\ batch # {}
    /\ batch' = {} /\ erased' = {}
    /\ UNCHANGED <<rowVars, bytes, urls, reg, formVars, reportPhoto>>
-----------------------------------------------------------------------------
(* Time: the 24 hours of a photo outlast a request, not the URLs it minted. *)

ExpiryPasses(o) ==
    /\ expiry[o] = "ahead"
    /\ \A h \in Handler : reg[h].obj # o
    /\ expiry' = [expiry EXCEPT ![o] = "past"]
    /\ UNCHANGED <<status, deleted, bytes, urls, reg, workerVars, formVars,
                   reportPhoto>>

UrlExpires(o) ==
    /\ o \in urls
    /\ urls' = urls \ {o}
    /\ UNCHANGED <<rowVars, bytes, reg, workerVars, formVars, reportPhoto>>

Next ==
    \/ \E h \in Handler : \/ RegisterSweep(h) \/ RegisterCommit(h)
                          \/ RegisterAnswered(h) \/ RegisterUnheard(h)
    \/ Resign \/ Discard \/ PressSave \/ ConfirmTx
    \/ SweepRead \/ SweepCrash
    \/ \E o \in Obj : \/ Put(o) \/ SweepDelete(o) \/ SweepMark(o) \/ SweepSkip(o)
                      \/ ExpiryPasses(o) \/ UrlExpires(o)

Spec == Init /\ [][Next]_vars

\* Clocks advance, requests end, the worker is scheduled again and again, and
\* from some moment on it neither crashes nor fails on an object.
FairSpec ==
    /\ Spec
    /\ WF_vars(SweepRead)
    /\ \A h \in Handler : WF_vars(RegisterAnswered(h) \/ RegisterUnheard(h))
    /\ \A o \in Obj : /\ WF_vars(ExpiryPasses(o))
                      /\ WF_vars(SweepDelete(o)) /\ WF_vars(SweepMark(o))
    /\ <>[][~SweepCrash /\ \A o \in Obj : ~SweepSkip(o)]_vars
-----------------------------------------------------------------------------
(* Properties.                                                             *)

\* Claimed, stored, and out of the worker's hands.
Kept(o) == status[o] = "active" /\ expiry[o] = "null" /\ o \in bytes \ batch

\* Once a confirm has claimed a photo the worker is not already holding, no
\* later registration, sweep or upload takes it away, whatever they had read
\* before the claim (visits.service.ts:907-909, 1161-1165).
ClaimIsPermanent == [][\A o \in Obj : Kept(o) => Kept(o)']_vars

\* A registered photo that nobody claims is collected, through crashes of the
\* worker and failures of either call (storage.service.ts:143-145).
UnclaimedCollected ==
    \A o \in Obj : Unclaimed(o) ~> o \in deleted \/ expiry[o] = "null"

\* The photo the form shows as uploaded, or has queued for the report, is in
\* the bucket as long as its expiry is ahead: it is set only "once the bytes are
\* actually in storage" (field-visit-report-form.tsx:568), and nothing collects
\* it sooner.
UploadedStaysInWindow ==
    \A o \in {attached, pending} \ {None} : expiry[o] = "ahead" => o \in bytes

\* "at most one in flight per visit" (visits.service.ts:866).
OneInFlight == Cardinality({o \in Obj : Unclaimed(o)}) <= 1

\* "the report can never be confirmed against an id pointing at nothing"
\* (field-visit-report-form.tsx:569).
ReportPhotoStored == reportPhoto # None => reportPhoto \in bytes
=============================================================================
