--------------------------- MODULE OfflineDrafts ---------------------------
(***************************************************************************)
(* What the phone keeps of one visit before its report is confirmed: the   *)
(* draft of what was typed and the bytes of a capture that has not reached *)
(* storage (offline-drafts.ts), the report forms that read and write them  *)
(* (use-field-report-persistence.ts, field-visit-report-form.tsx), and the *)
(* flush, the abandon, the cancel dialog, the sweeps and the sign-out that *)
(* work on the same records without the forms knowing.                     *)
(*                                                                         *)
(* The visit was started offline, so it has two ids: the one the device    *)
(* minted and the one the server gave.  Every operation is one IndexedDB   *)
(* transaction; it may be lost, or land after its caller stopped waiting.  *)
(***************************************************************************)
EXTENDS FiniteSets

CONSTANTS
    Screen,     \* report forms that can be open, in one tab or in several
    Text,       \* what can be typed
    Capture,    \* photos (or recordings) that can be taken
    Upload,     \* running handlePhotoSelected / handleTranscription
    None

ASSUME DraftNoneAssumption ==
    /\ None \notin Text \cup Capture \cup Screen \cup {"client", "server"}
    /\ {"forward", "closed"} \cap (Text \cup {None}) = {}

Id == {"client", "server"}
Address == {"forward", "closed"}      \* redirectTo the server's id, or null
Moves == {"draft", "media"}
\* How a storage operation ends: heard, landed after its deadline, or lost.
Ends == {"heard", "late", "lost"}

VARIABLES
    start,          \* "queued", "made" (unheard), "answered" (its id is known), "resolved"
    dropped,        \* an abandon deleted the queued start
    toMove,         \* what the flush has yet to move in this pass
    mediaMoved,     \* the flush heard that the media moved in this pass
    toDiscard,      \* what the abandon has yet to discard
    draft,          \* DRAFT_STORE by id: a text, an address, or None
    bytes,          \* MEDIA_STORE by id: the captured bytes
    registered,     \* ... and the capture their registration was made for
    mounted,        \* the id each form is mounted on
    loaded, stored, closed,     \* loadedRef, storedRef, closedRef
    typed,          \* what the form shows
    timer,          \* the draft a debounced write will put
    step,           \* of an upload: "idle", "held" (pendingPhoto), "register", "send"
    owner, at,      \* its form, while mounted, and the id it was started on
    shot, object, kept,         \* its file, objectId and persisted
    addressed,      \* history: an address was left under the device's id
    late            \* history: the bytes there were put after the media moved

flushVars == <<start, dropped, toMove, mediaMoved, toDiscard>>
draftVars == <<draft, addressed>>
mediaVars == <<bytes, registered, late>>
formVars == <<mounted, loaded, stored, closed, typed, timer>>
uploadVars == <<step, owner, at, shot, object, kept>>
vars == <<flushVars, draftVars, mediaVars, formVars, uploadVars>>

Init ==
    /\ start = "queued" /\ dropped = FALSE
    /\ toMove = {} /\ mediaMoved = FALSE /\ toDiscard = {}
    /\ draft = [i \in Id |-> None] /\ addressed = FALSE
    /\ bytes = [i \in Id |-> None] /\ registered = [i \in Id |-> None]
    /\ late = FALSE
    /\ mounted = [p \in Screen |-> None]
    /\ loaded = [p \in Screen |-> FALSE]
    /\ stored = [p \in Screen |-> FALSE]
    /\ closed = [p \in Screen |-> FALSE]
    /\ typed = [p \in Screen |-> None]
    /\ timer = [p \in Screen |-> None]
    /\ step = [u \in Upload |-> "idle"]
    /\ owner = [u \in Upload |-> None]
    /\ at = [u \in Upload |-> "client"]
    /\ shot = [u \in Upload |-> None]
    /\ object = [u \in Upload |-> None]
    /\ kept = [u \in Upload |-> FALSE]
-----------------------------------------------------------------------------
(***************************************************************************)
(* The draft store.                                                        *)
(***************************************************************************)
\* Mutant of Where: a write goes where the form says.
WhereFormSays(i) == i

\* Where a write for an id goes: through at most one forwarding address.
Where(i) == IF draft[i] = "forward" THEN "server" ELSE i

\* readDraft.
Read(i) ==
    IF draft[i] \in Text THEN draft[i]
    ELSE IF draft[i] = "forward" /\ draft["server"] \in Text
         THEN draft["server"] ELSE None

\* writeDraft and deleteDraft: dropped under an address that leads nowhere.
Put(i, t) ==
    \/ /\ draft[i] # "closed"
       /\ draft' = [draft EXCEPT ![Where(i)] = t]
    \/ UNCHANGED draft      \* dropped, or lost by the device

\* Mutant of MoveDraft: the address is written, the record is not copied.
MoveDraftAddressOnly ==
    draft' = [i \in Id |-> IF i = "client" THEN "forward" ELSE draft[i]]

\* Mutant of MoveDraft: whatever is there is copied, an address too.
MoveDraftOrAddress ==
    draft' = [i \in Id |->
        IF i = "client" THEN "forward"
        ELSE IF draft["client"] # None THEN draft["client"] ELSE draft[i]]

\* rekeyDraft.
MoveDraft ==
    draft' = [i \in Id |->
        IF i = "client" THEN "forward"
        ELSE IF draft["client"] \in Text THEN draft["client"] ELSE draft[i]]
-----------------------------------------------------------------------------
(***************************************************************************)
(* The media store.                                                        *)
(***************************************************************************)
\* writePendingMediaBytes: fresh bytes drop the registration beside them.  o is
\* what the retry that stores refused bytes puts in its place.
PutBytes(i, k, o) ==
    /\ bytes' = [bytes EXCEPT ![i] = k]
    /\ registered' = [registered EXCEPT ![i] = o]
    /\ late' = IF i = "client" THEN mediaMoved \/ start = "resolved" ELSE late

\* writePendingMediaRegistration, which may be lost.
PutRegistration(i, k) ==
    /\ registered' \in {registered, [registered EXCEPT ![i] = k]}
    /\ UNCHANGED <<bytes, late>>

\* deletePendingMedia, which may be lost.
DeleteMedia(i) ==
    \/ /\ bytes' = [bytes EXCEPT ![i] = None]
       /\ registered' = [registered EXCEPT ![i] = None]
       /\ UNCHANGED late
    \/ UNCHANGED mediaVars

\* rekeyPendingMedia: each record that exists is moved over its counterpart.  A
\* registration record that holds null counts as none.
Moved(store) ==
    [i \in Id |-> IF i = "client" THEN None
                  ELSE IF store["client"] # None THEN store["client"] ELSE store[i]]
MoveMedia ==
    /\ bytes' = Moved(bytes)
    /\ registered' = Moved(registered)
    /\ UNCHANGED late

\* The uploads of S end, with what they held in memory.
Forget(S) ==
    /\ step' = [u \in Upload |-> IF u \in S THEN "idle" ELSE step[u]]
    /\ at' = [u \in Upload |-> IF u \in S THEN "client" ELSE at[u]]
    /\ shot' = [u \in Upload |-> IF u \in S THEN None ELSE shot[u]]
    /\ object' = [u \in Upload |-> IF u \in S THEN None ELSE object[u]]
    /\ kept' = [u \in Upload |-> IF u \in S THEN FALSE ELSE kept[u]]

\* The pending captures of a form.
Held(p) == {u \in Upload : owner[u] = p /\ step[u] = "held"}
-----------------------------------------------------------------------------
(***************************************************************************)
(* useFieldReportDraft.                                                    *)
(***************************************************************************)
\* A report screen opens, on the server's id or on the one in its URL: while
\* the start is queued that is the pending screen, and from then on the server
\* resolves the device's id too.  That a visit whose confirm or cancel the
\* server took opens no form is left out: either may have been refused or queued.
Open(p, i) ==
    /\ mounted[p] = None
    /\ IF i = "client" THEN start # "queued" \/ ~dropped ELSE start # "queued"
    /\ mounted' = [mounted EXCEPT ![p] = i]
    /\ UNCHANGED <<flushVars, draftVars, mediaVars, loaded, stored,
                   closed, typed, timer, uploadVars>>

\* The restore effect: a stored draft is put back unless the rep has typed, and
\* putting it back schedules a write like any other change.
Load(p) ==
    /\ mounted[p] # None /\ ~loaded[p]
    /\ loaded' = [loaded EXCEPT ![p] = TRUE]
    /\ \E found \in {Read(mounted[p]), None} :
         IF found # None /\ typed[p] = None
         THEN /\ typed' = [typed EXCEPT ![p] = found]
              /\ stored' = [stored EXCEPT ![p] = TRUE]
              /\ timer' = [timer EXCEPT ![p] = IF closed[p] THEN None ELSE found]
         ELSE UNCHANGED <<typed, stored, timer>>
    /\ UNCHANGED <<flushVars, draftVars, mediaVars, mounted, closed,
                   uploadVars>>

\* A keystroke, or clearing the form, and the effect that follows it.
Type(p, t) ==
    /\ mounted[p] # None /\ typed[p] # t
    /\ typed' = [typed EXCEPT ![p] = t]
    /\ timer' = [timer EXCEPT ![p] =
                    IF loaded[p] /\ ~closed[p] THEN t ELSE None]
    /\ IF t = None /\ loaded[p] /\ ~closed[p] /\ stored[p]
       THEN /\ stored' = [stored EXCEPT ![p] = FALSE]
            /\ Put(mounted[p], None)
       ELSE UNCHANGED <<stored, draft>>
    /\ UNCHANGED <<flushVars, addressed, mediaVars, mounted, loaded,
                   closed, uploadVars>>

\* The debounce ends.
Fire(p) ==
    /\ timer[p] # None
    /\ timer' = [timer EXCEPT ![p] = None]
    /\ stored' = [stored EXCEPT ![p] = TRUE]
    /\ Put(mounted[p], timer[p])
    /\ UNCHANGED <<flushVars, addressed, mediaVars, mounted, loaded,
                   closed, typed, uploadVars>>

\* What pagehide, visibilitychange and the unmount write.
Flush(p) ==
    IF loaded[p] /\ ~closed[p] /\ typed[p] # None
    THEN Put(mounted[p], typed[p])
    ELSE UNCHANGED draft

Hide(p) ==
    /\ mounted[p] # None
    /\ Flush(p)
    /\ stored' = [stored EXCEPT ![p] =
                     @ \/ (loaded[p] /\ ~closed[p] /\ typed[p] # None)]
    /\ UNCHANGED <<flushVars, addressed, mediaVars, mounted, loaded,
                   closed, typed, timer, uploadVars>>

\* The form is gone: what it held in memory goes, and what it was sending runs
\* on without it.
Gone(p) ==
    /\ mounted' = [mounted EXCEPT ![p] = None]
    /\ loaded' = [loaded EXCEPT ![p] = FALSE]
    /\ stored' = [stored EXCEPT ![p] = FALSE]
    /\ closed' = [closed EXCEPT ![p] = FALSE]
    /\ typed' = [typed EXCEPT ![p] = None]
    /\ timer' = [timer EXCEPT ![p] = None]
    /\ Forget(Held(p))
    /\ owner' = [u \in Upload |-> IF owner[u] = p THEN None ELSE owner[u]]

\* Navigation, a redirect to the server's id, or a sign-out.
Unmount(p) ==
    /\ mounted[p] # None
    /\ Flush(p)
    /\ Gone(p)
    /\ UNCHANGED <<flushVars, addressed, mediaVars>>

\* The tab is killed, and its uploads with it.
Kill(p) ==
    /\ mounted[p] # None
    /\ Gone(p)
    /\ UNCHANGED <<flushVars, draftVars, mediaVars>>
-----------------------------------------------------------------------------
(***************************************************************************)
(* The captures of the form: handlePhotoSelected and handleTranscription.  *)
(***************************************************************************)
\* Nothing of this form's is in flight: u is its pending capture, or is free.
Free(p, u) ==
    /\ mounted[p] # None
    /\ \A w \in Upload : owner[w] = p => w = u
    /\ step[u] = "idle" \/ (step[u] = "held" /\ owner[u] = p)

Fresh(k) ==
    /\ \A i \in Id : k \notin {bytes[i], registered[i]}
    /\ \A u \in Upload : k \notin {shot[u], object[u]}

\* A capture is taken, and stored before any network call.
Pick(p, u, k) ==
    /\ Free(p, u) /\ Fresh(k)
    /\ owner' = [owner EXCEPT ![u] = p]
    /\ at' = [at EXCEPT ![u] = mounted[p]]
    /\ shot' = [shot EXCEPT ![u] = k]
    /\ object' = [object EXCEPT ![u] = None]
    /\ step' = [step EXCEPT ![u] = "register"]
    /\ \E end \in Ends :
         /\ kept' = [kept EXCEPT ![u] = end = "heard"]
         /\ IF end = "lost" THEN UNCHANGED mediaVars ELSE PutBytes(mounted[p], k, None)
    /\ UNCHANGED <<flushVars, draftVars, formVars>>

\* usePendingCaptures, as the form mounts.
Restore(p, u) ==
    /\ Free(p, u) /\ step[u] = "idle" /\ ~loaded[p]
    /\ bytes[mounted[p]] # None
    /\ owner' = [owner EXCEPT ![u] = p]
    /\ at' = [at EXCEPT ![u] = mounted[p]]
    /\ shot' = [shot EXCEPT ![u] = bytes[mounted[p]]]
    /\ object' = [object EXCEPT ![u] = registered[mounted[p]]]
    /\ kept' = [kept EXCEPT ![u] = TRUE]
    /\ step' = [step EXCEPT ![u] = "held"]
    /\ UNCHANGED <<flushVars, draftVars, mediaVars, formVars>>

\* The retry of a pending capture; bytes the device had refused are stored
\* first, with the registration they already have.
Retry(p, u) ==
    /\ Free(p, u) /\ step[u] = "held"
    /\ step' = [step EXCEPT ![u] = IF object[u] = None THEN "register" ELSE "send"]
    /\ \/ /\ kept[u]
          /\ UNCHANGED <<mediaVars, kept>>
       \/ /\ ~kept[u]
          /\ \E end \in Ends :
               /\ kept' = [kept EXCEPT ![u] = end = "heard"]
               /\ IF end = "lost" THEN UNCHANGED mediaVars
                  ELSE \E o \in {None} \cup IF end = "heard" THEN {object[u]} ELSE {} :
                            PutBytes(at[u], shot[u], o)
    /\ UNCHANGED <<flushVars, draftVars, formVars, owner, at, shot,
                   object>>

\* The server registers the capture; the device writes that down beside bytes
\* it has stored.
Register(u) ==
    /\ step[u] = "register"
    /\ step' = [step EXCEPT ![u] = "send"]
    /\ object' = [object EXCEPT ![u] = shot[u]]
    /\ IF kept[u] THEN PutRegistration(at[u], shot[u]) ELSE UNCHANGED mediaVars
    /\ UNCHANGED <<flushVars, draftVars, formVars, owner, at, shot, kept>>

\* Re-signing answers that the object is gone: isStorageObjectGone.
ObjectGone(u) ==
    /\ step[u] = "send"
    /\ step' = [step EXCEPT ![u] = "register"]
    /\ object' = [object EXCEPT ![u] = None]
    /\ PutRegistration(at[u], None)
    /\ UNCHANGED <<flushVars, draftVars, formVars, owner, at, shot, kept>>

\* keepForRetry: no signal, no answer, a throw.
Hold(u) ==
    /\ step[u] \in {"register", "send"}
    /\ IF owner[u] = None THEN Forget({u})
       ELSE /\ step' = [step EXCEPT ![u] = "held"]
            /\ UNCHANGED <<at, shot, object, kept>>
    /\ UNCHANGED <<flushVars, draftVars, mediaVars, formVars, owner>>

\* The bytes are in storage.
Sent(u) ==
    /\ step[u] = "send"
    /\ Forget({u}) /\ owner' = [owner EXCEPT ![u] = None]
    /\ DeleteMedia(at[u])
    /\ UNCHANGED <<flushVars, draftVars, formVars>>

\* discardPendingPhoto, closeProblem, and a capture that is too large: one in
\* flight does not notice.
Discard(p) ==
    /\ mounted[p] # None
    /\ Forget(Held(p))
    /\ owner' = [u \in Upload |-> IF u \in Held(p) THEN None ELSE owner[u]]
    /\ DeleteMedia(mounted[p])
    /\ UNCHANGED <<flushVars, draftVars, formVars>>
-----------------------------------------------------------------------------
(***************************************************************************)
(* The report is confirmed or the visit cancelled, from an open form.      *)
(***************************************************************************)
\* The end of submitReport: the confirm is on the server or in its queue.  The
\* debounced write already scheduled is not among the writers that close()
\* stops.
Close(p) ==
    /\ mounted[p] # None /\ typed[p] # None
    /\ \A u \in Upload : owner[u] = p => step[u] = "held"
    /\ closed' = [closed EXCEPT ![p] = TRUE]
    /\ stored' = [stored EXCEPT ![p] = FALSE]
    /\ Put(mounted[p], None)
    /\ DeleteMedia(mounted[p])
    /\ UNCHANGED <<flushVars, addressed, mounted, loaded, typed, timer,
                   uploadVars>>

\* CancelVisitModal: unsent work under the page's id goes, the draft stays; the
\* cancel itself is VisitServer's.
Cancel(p) ==
    /\ mounted[p] # None /\ start # "queued"
    /\ DeleteMedia(mounted[p])
    /\ UNCHANGED <<flushVars, draftVars, formVars, uploadVars>>
-----------------------------------------------------------------------------
(***************************************************************************)
(* The queued start: visit-start-outbox-flush.ts, abandon-visit-start.ts.  *)
(***************************************************************************)
Make ==
    /\ start = "queued" /\ ~dropped
    /\ start' = "made"
    /\ UNCHANGED <<dropped, toMove, mediaMoved, toDiscard, draftVars,
                   mediaVars, formVars, uploadVars>>

\* The answer is recorded, and its work is to be moved.
Hear ==
    /\ start = "made"
    /\ start' = "answered" /\ toMove' = Moves
    /\ UNCHANGED <<dropped, mediaMoved, toDiscard, draftVars, mediaVars,
                   formVars, uploadVars>>

RekeyDraft ==
    /\ "draft" \in toMove
    /\ toMove' = toMove \ {"draft"}
    /\ \/ MoveDraft /\ addressed' = TRUE
       \/ UNCHANGED draftVars
    /\ UNCHANGED <<start, dropped, mediaMoved, toDiscard, mediaVars,
                   formVars, uploadVars>>

\* Mutant of RekeyMedia: its result is ignored, like the draft's.
RekeyMediaIgnored ==
    /\ "media" \in toMove
    /\ toMove' = toMove \ {"media"}
    /\ mediaMoved' = TRUE
    /\ MoveMedia \/ UNCHANGED mediaVars
    /\ UNCHANGED <<start, dropped, toDiscard, draftVars, formVars, uploadVars>>

RekeyMedia ==
    /\ "media" \in toMove
    /\ toMove' = toMove \ {"media"}
    /\ \E end \in Ends :
         /\ mediaMoved' = (end = "heard")
         /\ IF end = "lost" THEN UNCHANGED mediaVars ELSE MoveMedia
    /\ UNCHANGED <<start, dropped, toDiscard, draftVars, formVars,
                   uploadVars>>

\* The confirm's rekey (FieldSync) was heard as well.
Resolve ==
    /\ start = "answered" /\ toMove = {} /\ mediaMoved /\ ~dropped
    /\ start' = "resolved"
    /\ UNCHANGED <<dropped, toMove, mediaMoved, toDiscard, draftVars,
                   mediaVars, formVars, uploadVars>>

\* The next flush of a start that was not resolved, because a rekey was not
\* heard or the tab died.
MoveAgain ==
    /\ start = "answered" /\ ~dropped /\ toMove # Moves
    /\ toMove' = Moves /\ mediaMoved' = FALSE
    /\ UNCHANGED <<start, dropped, toDiscard, draftVars, mediaVars,
                   formVars, uploadVars>>

Abandon ==
    /\ start \in {"queued", "made"} /\ ~dropped
    /\ dropped' = TRUE /\ toDiscard' = Moves
    /\ UNCHANGED <<start, toMove, mediaMoved, draftVars, mediaVars,
                   formVars, uploadVars>>

DiscardDraft ==
    /\ "draft" \in toDiscard
    /\ toDiscard' = toDiscard \ {"draft"}
    /\ \/ /\ draft' = [draft EXCEPT !["client"] = "closed"]
          /\ addressed' = TRUE
       \/ UNCHANGED draftVars
    /\ UNCHANGED <<start, dropped, toMove, mediaMoved, mediaVars, formVars,
                   uploadVars>>

DiscardMedia ==
    /\ "media" \in toDiscard
    /\ toDiscard' = toDiscard \ {"media"}
    /\ DeleteMedia("client")
    /\ UNCHANGED <<start, dropped, toMove, mediaMoved, draftVars, formVars,
                   uploadVars>>
-----------------------------------------------------------------------------
(***************************************************************************)
(* The sweeps by age, and the sign-out.                                    *)
(***************************************************************************)
\* pruneDrafts: any record, an address included.
SweepDraft(i) ==
    /\ draft[i] # None
    /\ draft' = [draft EXCEPT ![i] = None]
    /\ addressed' = (addressed /\ i # "client")
    /\ UNCHANGED <<flushVars, mediaVars, formVars, uploadVars>>

\* prunePendingMedia: bytes are never younger than their registration.
SweepMedia(i) ==
    /\ bytes[i] # None \/ registered[i] # None
    /\ bytes' = [bytes EXCEPT ![i] = None]
    /\ registered' \in {registered, [registered EXCEPT ![i] = None]}
    /\ UNCHANGED <<flushVars, draftVars, formVars, late, uploadVars>>

\* clearDrafts, before the navigation that unmounts the forms.
SignOut ==
    /\ draft' = [i \in Id |-> None]
    /\ addressed' = FALSE
    /\ UNCHANGED <<flushVars, mediaVars, formVars, uploadVars>>

FormStep ==
    \E p \in Screen :
        \/ \E i \in Id : Open(p, i)
        \/ \E t \in Text \cup {None} : Type(p, t)
        \/ Load(p) \/ Fire(p) \/ Hide(p) \/ Unmount(p) \/ Kill(p)
        \/ \E u \in Upload : Restore(p, u) \/ Retry(p, u)
        \/ \E u \in Upload, k \in Capture : Pick(p, u, k)
        \/ Discard(p) \/ Close(p) \/ Cancel(p)

UploadStep ==
    \E u \in Upload : Register(u) \/ ObjectGone(u) \/ Hold(u) \/ Sent(u)

FlushStep == Make \/ Hear \/ RekeyDraft \/ RekeyMedia \/ Resolve \/ MoveAgain

AbandonStep == Abandon \/ DiscardDraft \/ DiscardMedia

AgeStep == SignOut \/ \E i \in Id : SweepDraft(i) \/ SweepMedia(i)

Next == FormStep \/ UploadStep \/ FlushStep \/ AbandonStep \/ AgeStep

Spec == Init /\ [][Next]_vars
-----------------------------------------------------------------------------
FlushTypeOK ==
    /\ start \in {"queued", "made", "answered", "resolved"}
    /\ dropped \in BOOLEAN
    /\ toMove \subseteq Moves /\ mediaMoved \in BOOLEAN /\ toDiscard \subseteq Moves

\* The server's id never holds an address, so one hop is enough.
DraftTypeOK ==
    /\ draft \in [Id -> Text \cup Address \cup {None}] /\ addressed \in BOOLEAN
    /\ draft["server"] \notin Address

MediaTypeOK ==
    /\ bytes \in [Id -> Capture \cup {None}]
    /\ registered \in [Id -> Capture \cup {None}] /\ late \in BOOLEAN

FormTypeOK ==
    /\ mounted \in [Screen -> Id \cup {None}]
    /\ loaded \in [Screen -> BOOLEAN] /\ stored \in [Screen -> BOOLEAN]
    /\ closed \in [Screen -> BOOLEAN]
    /\ typed \in [Screen -> Text \cup {None}]
    /\ timer \in [Screen -> Text \cup {None}]
    /\ \A p \in Screen : timer[p] # None => mounted[p] # None

UploadTypeOK ==
    /\ step \in [Upload -> {"idle", "held", "register", "send"}]
    /\ owner \in [Upload -> Screen \cup {None}] /\ at \in [Upload -> Id]
    /\ shot \in [Upload -> Capture \cup {None}]
    /\ object \in [Upload -> Capture \cup {None}]
    /\ kept \in [Upload -> BOOLEAN]

TypeOK ==
    FlushTypeOK /\ DraftTypeOK /\ MediaTypeOK /\ FormTypeOK /\ UploadTypeOK

\* Once the device's id holds an address, no form, timer, unmount or retry puts a
\* draft there again: "the keystroke lands on the real visit instead of being
\* orphaned beside it" (offline-drafts.ts:85), or nowhere once it was abandoned.
AddressKept == addressed => draft["client"] \in Address

\* Bytes left under the device's id of a resolved start were captured after its
\* media had moved: what a rep captured before that is never left behind, however
\* often the rekeys fail, land unheard or are cut off by a killed tab.
StrandedWasLate == start = "resolved" /\ bytes["client"] # None => late

\* The flush moves and never drops: a draft found under the device's id is found
\* there afterwards, a capture under one of the two ids.
FlushKeepsWork ==
    [][toMove' # toMove =>
         /\ Read("client") \in Text => Read("client")' = Read("client")
         /\ bytes["client"] # None =>
              \E i \in Id : bytes'[i] = bytes["client"]]_vars

(***************************************************************************)
(* What comments say and the code does not keep; section 4 of the README   *)
(* says how each fails.                                                    *)
(***************************************************************************)
\* close() "stops every writer above and deletes the draft"
\* (use-field-report-persistence.ts:62), for one form.
ClosedDraftStaysGone ==
    [][\A p \in Screen :
         closed[p] /\ closed'[p] /\ Read(mounted[p]) = None
             => Read(mounted[p])' = None]_vars

\* Bytes are never beside the registration of another capture, "the state that
\* produces the mismatch" (offline-drafts.ts:402).
CapturePaired ==
    \A i \in Id : bytes[i] # None => registered[i] \in {None, bytes[i]}
=============================================================================
