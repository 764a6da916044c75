------------------------ MODULE OfflineDraftsProofs ------------------------
(***************************************************************************)
(* Theorems about OfflineDrafts, for any number of forms, uploads, texts   *)
(* and captures.                                                           *)
(***************************************************************************)
EXTENDS OfflineDrafts, TLAPS

\* A write keeps the types of the draft store, through an address or not.
LEMMA PutTyped ==
    ASSUME DraftTypeOK, NEW i \in Id, NEW t \in Text \cup {None}, Put(i, t)
    PROVE  /\ draft' \in [Id -> Text \cup Address \cup {None}]
           /\ draft'["server"] \notin Address
<1>1. CASE UNCHANGED draft
  BY <1>1 DEF DraftTypeOK
<1>2. CASE draft' = [draft EXCEPT ![Where(i)] = t]
  <2>1. Where(i) \in Id
    BY DEF Where, Id
  <2>2. t \notin Address
    BY DraftNoneAssumption DEF Address
  <2> QED
    BY <1>2, <2>1, <2>2 DEF DraftTypeOK, Id
<1> QED
  BY <1>1, <1>2 DEF Put

\* What a form flushes is a text or nothing.
LEMMA FlushTyped ==
    ASSUME TypeOK, NEW p \in Screen, mounted[p] # None, Flush(p)
    PROVE  /\ draft' \in [Id -> Text \cup Address \cup {None}]
           /\ draft'["server"] \notin Address
<1>1. mounted[p] \in Id /\ typed[p] \in Text \cup {None} /\ DraftTypeOK
  BY DEF TypeOK, FormTypeOK
<1>2. CASE Put(mounted[p], typed[p])
  BY <1>1, <1>2, PutTyped
<1>3. CASE UNCHANGED draft
  BY <1>1, <1>3 DEF DraftTypeOK
<1> QED
  BY <1>2, <1>3 DEF Flush

LEMMA ForgetTyped ==
    ASSUME UploadTypeOK, NEW S, Forget(S)
    PROVE  /\ step' \in [Upload -> {"idle", "held", "register", "send"}]
           /\ at' \in [Upload -> Id]
           /\ shot' \in [Upload -> Capture \cup {None}]
           /\ object' \in [Upload -> Capture \cup {None}]
           /\ kept' \in [Upload -> BOOLEAN]
BY DEF UploadTypeOK, Forget, Id

LEMMA DeleteTyped ==
    ASSUME MediaTypeOK, NEW i \in Id, DeleteMedia(i)
    PROVE  MediaTypeOK'
BY DEF MediaTypeOK, DeleteMedia, mediaVars

LEMMA PutBytesTyped ==
    ASSUME MediaTypeOK, NEW i \in Id, FlushTypeOK,
           NEW k \in Capture \cup {None}, NEW o \in Capture \cup {None},
           PutBytes(i, k, o)
    PROVE  MediaTypeOK'
BY DEF MediaTypeOK, PutBytes, FlushTypeOK

\* Types: records, forms, uploads and the flush's progress keep their types, and no
\* address is ever left under the server's id, so an address is followed once.
THEOREM Typed == Spec => []TypeOK
<1>1. Init => TypeOK
  <2> SUFFICES ASSUME Init PROVE TypeOK
    OBVIOUS
  <2>1. FlushTypeOK /\ DraftTypeOK
    BY DraftNoneAssumption DEF Init, FlushTypeOK, DraftTypeOK, Id, Moves, Address
  <2>2. MediaTypeOK /\ FormTypeOK
    BY DEF Init, MediaTypeOK, FormTypeOK
  <2>3. UploadTypeOK
    BY DEF Init, UploadTypeOK, Id
  <2> QED
    BY <2>1, <2>2, <2>3 DEF TypeOK
<1>2. TypeOK /\ [Next]_vars => TypeOK'
  <2> SUFFICES ASSUME TypeOK, [Next]_vars PROVE TypeOK'
    OBVIOUS
  <2>1. ASSUME NEW p \in Screen, NEW i \in Id, Open(p, i) PROVE TypeOK'
    <3>1. FlushTypeOK' /\ DraftTypeOK' /\ MediaTypeOK' /\ UploadTypeOK'
      BY <2>1 DEF Open, TypeOK, FlushTypeOK, DraftTypeOK, MediaTypeOK, UploadTypeOK, flushVars, draftVars, mediaVars, uploadVars
    <3>2. FormTypeOK'
      BY <2>1 DEF Open, TypeOK, FormTypeOK
    <3> QED
      BY <3>1, <3>2 DEF TypeOK
  <2>2. ASSUME NEW p \in Screen, NEW t \in Text \cup {None}, Type(p, t) PROVE TypeOK'
    <3>a. mounted[p] \in Id /\ mounted[p] # None
      BY <2>2 DEF Type, TypeOK, FormTypeOK
    <3>1. FlushTypeOK' /\ MediaTypeOK' /\ UploadTypeOK'
      BY <2>2 DEF Type, TypeOK, FlushTypeOK, MediaTypeOK, UploadTypeOK, flushVars, mediaVars, uploadVars
    <3>2. FormTypeOK'
      BY <2>2, <3>a DEF Type, TypeOK, FormTypeOK
    <3>3. DraftTypeOK'
      <4>1. CASE UNCHANGED draft
        BY <2>2, <4>1 DEF Type, TypeOK, DraftTypeOK
      <4>2. CASE Put(mounted[p], None)
        BY <2>2, <3>a, <4>2, PutTyped DEF Type, TypeOK, DraftTypeOK
      <4> QED
        BY <2>2, <4>1, <4>2 DEF Type
    <3> QED
      BY <3>1, <3>2, <3>3 DEF TypeOK
  <2>3. ASSUME NEW p \in Screen, Load(p) PROVE TypeOK'
    <3>a. mounted[p] \in Id /\ mounted[p] # None
      BY <2>3 DEF Load, TypeOK, FormTypeOK
    <3>b. Read(mounted[p]) \in Text \cup {None}
      BY DEF Read
    <3>1. FlushTypeOK' /\ DraftTypeOK' /\ MediaTypeOK' /\ UploadTypeOK'
      BY <2>3 DEF Load, TypeOK, FlushTypeOK, DraftTypeOK, MediaTypeOK, UploadTypeOK, flushVars, draftVars, mediaVars, uploadVars
    <3>2. FormTypeOK'
      <4>1. PICK found \in {Read(mounted[p]), None} :
              IF found # None /\ typed[p] = None
              THEN /\ typed' = [typed EXCEPT ![p] = found]
                   /\ stored' = [stored EXCEPT ![p] = TRUE]
                   /\ timer' = [timer EXCEPT ![p] = IF closed[p] THEN None ELSE found]
              ELSE UNCHANGED <<typed, stored, timer>>
        BY <2>3 DEF Load
      <4>2. found \in Text \cup {None}
        BY <3>b
      <4> QED
        BY <2>3, <3>a, <4>1, <4>2 DEF Load, TypeOK, FormTypeOK
    <3> QED
      BY <3>1, <3>2 DEF TypeOK
  <2>4. ASSUME NEW p \in Screen, Fire(p) PROVE TypeOK'
    <3>a. mounted[p] \in Id /\ timer[p] \in Text \cup {None}
      BY <2>4 DEF Fire, TypeOK, FormTypeOK
    <3>1. FlushTypeOK' /\ MediaTypeOK' /\ UploadTypeOK'
      BY <2>4 DEF Fire, TypeOK, FlushTypeOK, MediaTypeOK, UploadTypeOK, flushVars, mediaVars, uploadVars
    <3>2. FormTypeOK'
      BY <2>4 DEF Fire, TypeOK, FormTypeOK
    <3>3. DraftTypeOK'
      BY <2>4, <3>a, PutTyped DEF Fire, TypeOK, DraftTypeOK
    <3> QED
      BY <3>1, <3>2, <3>3 DEF TypeOK
  <2>5. ASSUME NEW p \in Screen, Hide(p) PROVE TypeOK'
    <3>1. FlushTypeOK' /\ MediaTypeOK' /\ UploadTypeOK'
      BY <2>5 DEF Hide, TypeOK, FlushTypeOK, MediaTypeOK, UploadTypeOK, flushVars, mediaVars, uploadVars
    <3>2. FormTypeOK'
      BY <2>5 DEF Hide, TypeOK, FormTypeOK
    <3>3. DraftTypeOK'
      BY <2>5, FlushTyped DEF Hide, TypeOK, DraftTypeOK
    <3> QED
      BY <3>1, <3>2, <3>3 DEF TypeOK
  <2>6. ASSUME NEW p \in Screen, Unmount(p) PROVE TypeOK'
    <3>1. FlushTypeOK' /\ MediaTypeOK'
      BY <2>6 DEF Unmount, Gone, TypeOK, FlushTypeOK, MediaTypeOK, flushVars, mediaVars
    <3>2. FormTypeOK'
      BY <2>6 DEF Unmount, Gone, TypeOK, FormTypeOK
    <3>3. DraftTypeOK'
      BY <2>6, FlushTyped DEF Unmount, TypeOK, DraftTypeOK
    <3>4. UploadTypeOK'
      BY <2>6, ForgetTyped DEF Unmount, Gone, TypeOK, UploadTypeOK
    <3> QED
      BY <3>1, <3>2, <3>3, <3>4 DEF TypeOK
  <2>7. ASSUME NEW p \in Screen, Kill(p) PROVE TypeOK'
    <3>1. FlushTypeOK' /\ DraftTypeOK' /\ MediaTypeOK'
      BY <2>7 DEF Kill, Gone, TypeOK, FlushTypeOK, DraftTypeOK, MediaTypeOK, flushVars, draftVars, mediaVars
    <3>2. FormTypeOK'
      BY <2>7 DEF Kill, Gone, TypeOK, FormTypeOK
    <3>3. UploadTypeOK'
      BY <2>7, ForgetTyped DEF Kill, Gone, TypeOK, UploadTypeOK
    <3> QED
      BY <3>1, <3>2, <3>3 DEF TypeOK
  <2>8. ASSUME NEW p \in Screen, NEW u \in Upload, Restore(p, u) PROVE TypeOK'
    <3>a. mounted[p] \in Id
      BY <2>8 DEF Restore, Free, TypeOK, FormTypeOK
    <3>b. bytes[mounted[p]] \in Capture \cup {None} /\ registered[mounted[p]] \in Capture \cup {None}
      BY <3>a DEF TypeOK, MediaTypeOK
    <3>1. FlushTypeOK' /\ DraftTypeOK' /\ MediaTypeOK' /\ FormTypeOK'
      BY <2>8 DEF Restore, Free, TypeOK, FlushTypeOK, DraftTypeOK, MediaTypeOK, FormTypeOK, flushVars, draftVars, mediaVars, formVars
    <3>2. UploadTypeOK'
      BY <2>8, <3>a, <3>b DEF Restore, TypeOK, UploadTypeOK
    <3> QED
      BY <3>1, <3>2 DEF TypeOK
  <2>9. ASSUME NEW p \in Screen, NEW u \in Upload, Retry(p, u) PROVE TypeOK'
    <3>a. at[u] \in Id /\ shot[u] \in Capture \cup {None} /\ object[u] \in Capture \cup {None}
      BY DEF TypeOK, UploadTypeOK
    <3>1. FlushTypeOK' /\ DraftTypeOK' /\ FormTypeOK'
      BY <2>9 DEF Retry, Free, TypeOK, FlushTypeOK, DraftTypeOK, FormTypeOK, flushVars, draftVars, formVars
    <3>2. UploadTypeOK'
      BY <2>9 DEF Retry, TypeOK, UploadTypeOK
    <3>3. MediaTypeOK'
      <4>1. CASE UNCHANGED mediaVars
        BY <4>1 DEF mediaVars, TypeOK, MediaTypeOK
      <4>2. CASE \E o \in {None} \cup {object[u]} : PutBytes(at[u], shot[u], o)
        BY <3>a, <4>2, PutBytesTyped DEF TypeOK
      <4> QED
        BY <2>9, <4>1, <4>2 DEF Retry
    <3> QED
      BY <3>1, <3>2, <3>3 DEF TypeOK
  <2>10. ASSUME NEW p \in Screen, NEW u \in Upload, NEW k \in Capture, Pick(p, u, k) PROVE TypeOK'
    <3>a. mounted[p] \in Id
      BY <2>10 DEF Pick, Free, TypeOK, FormTypeOK
    <3>1. FlushTypeOK' /\ DraftTypeOK' /\ FormTypeOK'
      BY <2>10 DEF Pick, Free, Fresh, TypeOK, FlushTypeOK, DraftTypeOK, FormTypeOK, flushVars, draftVars, formVars
    <3>2. UploadTypeOK'
      BY <2>10, <3>a DEF Pick, TypeOK, UploadTypeOK
    <3>3. MediaTypeOK'
      <4>1. CASE UNCHANGED mediaVars
        BY <4>1 DEF mediaVars, TypeOK, MediaTypeOK
      <4>2. CASE PutBytes(mounted[p], k, None)
        BY <3>a, <4>2, PutBytesTyped DEF TypeOK
      <4> QED
        BY <2>10, <4>1, <4>2 DEF Pick
    <3> QED
      BY <3>1, <3>2, <3>3 DEF TypeOK
  <2>11. ASSUME NEW p \in Screen, Discard(p) PROVE TypeOK'
    <3>a. mounted[p] \in Id
      BY <2>11 DEF Discard, TypeOK, FormTypeOK
    <3>1. FlushTypeOK' /\ DraftTypeOK' /\ FormTypeOK'
      BY <2>11 DEF Discard, TypeOK, FlushTypeOK, DraftTypeOK, FormTypeOK, flushVars, draftVars, formVars
    <3>2. UploadTypeOK'
      BY <2>11, ForgetTyped DEF Discard, TypeOK, UploadTypeOK
    <3>3. MediaTypeOK'
      BY <2>11, <3>a, DeleteTyped DEF Discard, TypeOK
    <3> QED
      BY <3>1, <3>2, <3>3 DEF TypeOK
  <2>12. ASSUME NEW p \in Screen, Close(p) PROVE TypeOK'
    <3>a. mounted[p] \in Id
      BY <2>12 DEF Close, TypeOK, FormTypeOK
    <3>1. FlushTypeOK' /\ UploadTypeOK'
      BY <2>12 DEF Close, TypeOK, FlushTypeOK, UploadTypeOK, flushVars, uploadVars
    <3>2. FormTypeOK'
      BY <2>12 DEF Close, TypeOK, FormTypeOK
    <3>3. DraftTypeOK'
      BY <2>12, <3>a, PutTyped DEF Close, TypeOK, DraftTypeOK
    <3>4. MediaTypeOK'
      BY <2>12, <3>a, DeleteTyped DEF Close, TypeOK
    <3> QED
      BY <3>1, <3>2, <3>3, <3>4 DEF TypeOK
  <2>13. ASSUME NEW p \in Screen, Cancel(p) PROVE TypeOK'
    <3>a. mounted[p] \in Id
      BY <2>13 DEF Cancel, TypeOK, FormTypeOK
    <3>1. FlushTypeOK' /\ DraftTypeOK' /\ FormTypeOK' /\ UploadTypeOK'
      BY <2>13 DEF Cancel, TypeOK, FlushTypeOK, DraftTypeOK, FormTypeOK, UploadTypeOK, flushVars, draftVars, formVars, uploadVars
    <3>2. MediaTypeOK'
      BY <2>13, <3>a, DeleteTyped DEF Cancel, TypeOK
    <3> QED
      BY <3>1, <3>2 DEF TypeOK
  <2>14. ASSUME NEW u \in Upload, Register(u) PROVE TypeOK'
    <3>a. at[u] \in Id /\ shot[u] \in Capture \cup {None}
      BY DEF TypeOK, UploadTypeOK
    <3>1. FlushTypeOK' /\ DraftTypeOK' /\ FormTypeOK'
      BY <2>14 DEF Register, TypeOK, FlushTypeOK, DraftTypeOK, FormTypeOK, flushVars, draftVars, formVars
    <3>2. UploadTypeOK'
      BY <2>14, <3>a DEF Register, TypeOK, UploadTypeOK
    <3>3. MediaTypeOK'
      BY <2>14, <3>a DEF Register, PutRegistration, TypeOK, MediaTypeOK, mediaVars
    <3> QED
      BY <3>1, <3>2, <3>3 DEF TypeOK
  <2>15. ASSUME NEW u \in Upload, ObjectGone(u) PROVE TypeOK'
    <3>a. at[u] \in Id
      BY DEF TypeOK, UploadTypeOK
    <3>1. FlushTypeOK' /\ DraftTypeOK' /\ FormTypeOK'
      BY <2>15 DEF ObjectGone, TypeOK, FlushTypeOK, DraftTypeOK, FormTypeOK, flushVars, draftVars, formVars
    <3>2. UploadTypeOK'
      BY <2>15 DEF ObjectGone, TypeOK, UploadTypeOK
    <3>3. MediaTypeOK'
      BY <2>15, <3>a DEF ObjectGone, PutRegistration, TypeOK, MediaTypeOK
    <3> QED
      BY <3>1, <3>2, <3>3 DEF TypeOK
  <2>16. ASSUME NEW u \in Upload, Hold(u) PROVE TypeOK'
    <3>1. FlushTypeOK' /\ DraftTypeOK' /\ MediaTypeOK' /\ FormTypeOK'
      BY <2>16 DEF Hold, TypeOK, FlushTypeOK, DraftTypeOK, MediaTypeOK, FormTypeOK, flushVars, draftVars, mediaVars, formVars
    <3>2. UploadTypeOK'
      BY <2>16, ForgetTyped DEF Hold, TypeOK, UploadTypeOK
    <3> QED
      BY <3>1, <3>2 DEF TypeOK
  <2>17. ASSUME NEW u \in Upload, Sent(u) PROVE TypeOK'
    <3>a. at[u] \in Id
      BY DEF TypeOK, UploadTypeOK
    <3>1. FlushTypeOK' /\ DraftTypeOK' /\ FormTypeOK'
      BY <2>17 DEF Sent, TypeOK, FlushTypeOK, DraftTypeOK, FormTypeOK, flushVars, draftVars, formVars
    <3>2. UploadTypeOK'
      BY <2>17, ForgetTyped DEF Sent, TypeOK, UploadTypeOK
    <3>3. MediaTypeOK'
      BY <2>17, <3>a, DeleteTyped DEF Sent, TypeOK
    <3> QED
      BY <3>1, <3>2, <3>3 DEF TypeOK
  <2>18. ASSUME Make PROVE TypeOK'
    <3>1. DraftTypeOK' /\ MediaTypeOK' /\ FormTypeOK' /\ UploadTypeOK'
      BY <2>18 DEF Make, TypeOK, DraftTypeOK, MediaTypeOK, FormTypeOK, UploadTypeOK, draftVars, mediaVars, formVars, uploadVars
    <3>2. FlushTypeOK'
      BY <2>18 DEF Make, TypeOK, FlushTypeOK
    <3> QED
      BY <3>1, <3>2 DEF TypeOK
  <2>19. ASSUME Hear PROVE TypeOK'
    <3>1. DraftTypeOK' /\ MediaTypeOK' /\ FormTypeOK' /\ UploadTypeOK'
      BY <2>19 DEF Hear, TypeOK, DraftTypeOK, MediaTypeOK, FormTypeOK, UploadTypeOK, draftVars, mediaVars, formVars, uploadVars
    <3>2. FlushTypeOK'
      BY <2>19 DEF Hear, TypeOK, FlushTypeOK
    <3> QED
      BY <3>1, <3>2 DEF TypeOK
  <2>20. ASSUME RekeyDraft PROVE TypeOK'
    <3>a. "client" \in Id /\ "server" \in Id /\ "client" # "server"
      BY DEF Id
    <3>1. MediaTypeOK' /\ FormTypeOK' /\ UploadTypeOK'
      BY <2>20 DEF RekeyDraft, TypeOK, MediaTypeOK, FormTypeOK, UploadTypeOK, mediaVars, formVars, uploadVars
    <3>2. FlushTypeOK'
      BY <2>20 DEF RekeyDraft, TypeOK, FlushTypeOK
    <3>3. DraftTypeOK'
      <4>1. CASE UNCHANGED draftVars
        BY <4>1 DEF draftVars, TypeOK, DraftTypeOK
      <4>2. CASE MoveDraft /\ addressed' = TRUE
        <5>1. draft'["server"] = IF draft["client"] \in Text
                                THEN draft["client"] ELSE draft["server"]
          BY <3>a, <4>2 DEF MoveDraft
        <5>2. draft'["server"] \in Text \cup {None}
          BY <3>a, <5>1 DEF TypeOK, DraftTypeOK
        <5>3. draft'["client"] = "forward" 
          BY <3>a, <4>2 DEF MoveDraft
        <5>4. draft' \in [Id -> Text \cup Address \cup {None}]
          <6>1. DOMAIN draft' = Id /\ draft' = [i \in DOMAIN draft' |-> draft'[i]]
            BY <4>2 DEF MoveDraft
          <6>2. \A i \in Id : draft'[i] \in Text \cup Address \cup {None}
            BY <5>2, <5>3 DEF Id, Address
          <6> QED
            BY <6>1, <6>2
        <5> QED
          BY <4>2, <5>2, <5>4, DraftNoneAssumption DEF DraftTypeOK, Address
      <4> QED
        BY <2>20, <4>1, <4>2 DEF RekeyDraft
    <3> QED
      BY <3>1, <3>2, <3>3 DEF TypeOK
  <2>21. ASSUME RekeyMedia PROVE TypeOK'
    <3>1. DraftTypeOK' /\ FormTypeOK' /\ UploadTypeOK'
      BY <2>21 DEF RekeyMedia, TypeOK, DraftTypeOK, FormTypeOK, UploadTypeOK, draftVars, formVars, uploadVars
    <3>2. FlushTypeOK'
      BY <2>21 DEF RekeyMedia, TypeOK, FlushTypeOK
    <3>3. MediaTypeOK'
      BY <2>21 DEF RekeyMedia, MoveMedia, Moved, Id, mediaVars, TypeOK, MediaTypeOK
    <3> QED
      BY <3>1, <3>2, <3>3 DEF TypeOK
  <2>22. ASSUME Resolve PROVE TypeOK'
    <3>1. DraftTypeOK' /\ MediaTypeOK' /\ FormTypeOK' /\ UploadTypeOK'
      BY <2>22 DEF Resolve, TypeOK, DraftTypeOK, MediaTypeOK, FormTypeOK, UploadTypeOK, draftVars, mediaVars, formVars, uploadVars
    <3>2. FlushTypeOK'
      BY <2>22 DEF Resolve, TypeOK, FlushTypeOK
    <3> QED
      BY <3>1, <3>2 DEF TypeOK
  <2>23. ASSUME MoveAgain PROVE TypeOK'
    <3>1. DraftTypeOK' /\ MediaTypeOK' /\ FormTypeOK' /\ UploadTypeOK'
      BY <2>23 DEF MoveAgain, TypeOK, DraftTypeOK, MediaTypeOK, FormTypeOK, UploadTypeOK, draftVars, mediaVars, formVars, uploadVars
    <3>2. FlushTypeOK'
      BY <2>23 DEF MoveAgain, TypeOK, FlushTypeOK
    <3> QED
      BY <3>1, <3>2 DEF TypeOK
  <2>24. ASSUME Abandon PROVE TypeOK'
    <3>1. DraftTypeOK' /\ MediaTypeOK' /\ FormTypeOK' /\ UploadTypeOK'
      BY <2>24 DEF Abandon, TypeOK, DraftTypeOK, MediaTypeOK, FormTypeOK, UploadTypeOK, draftVars, mediaVars, formVars, uploadVars
    <3>2. FlushTypeOK'
      BY <2>24 DEF Abandon, TypeOK, FlushTypeOK
    <3> QED
      BY <3>1, <3>2 DEF TypeOK
  <2>25. ASSUME DiscardDraft PROVE TypeOK'
    <3>a. "client" \in Id /\ "server" \in Id /\ "client" # "server"
      BY DEF Id
    <3>1. MediaTypeOK' /\ FormTypeOK' /\ UploadTypeOK'
      BY <2>25 DEF DiscardDraft, TypeOK, MediaTypeOK, FormTypeOK, UploadTypeOK, mediaVars, formVars, uploadVars
    <3>2. FlushTypeOK'
      BY <2>25 DEF DiscardDraft, TypeOK, FlushTypeOK
    <3>3. DraftTypeOK'
      <4>1. CASE UNCHANGED draftVars
        BY <4>1 DEF draftVars, TypeOK, DraftTypeOK
      <4>2. CASE draft' = [draft EXCEPT !["client"] = "closed"] /\ addressed' = TRUE
        BY <3>a, <4>2 DEF TypeOK, DraftTypeOK, Address
      <4> QED
        BY <2>25, <4>1, <4>2 DEF DiscardDraft
    <3> QED
      BY <3>1, <3>2, <3>3 DEF TypeOK
  <2>26. ASSUME DiscardMedia PROVE TypeOK'
    <3>a. "client" \in Id
      BY DEF Id
    <3>1. DraftTypeOK' /\ FormTypeOK' /\ UploadTypeOK'
      BY <2>26 DEF DiscardMedia, TypeOK, DraftTypeOK, FormTypeOK, UploadTypeOK, draftVars, formVars, uploadVars
    <3>2. FlushTypeOK'
      BY <2>26 DEF DiscardMedia, TypeOK, FlushTypeOK
    <3>3. MediaTypeOK'
      BY <2>26, <3>a, DeleteTyped DEF DiscardMedia, TypeOK
    <3> QED
      BY <3>1, <3>2, <3>3 DEF TypeOK
  <2>27. ASSUME SignOut PROVE TypeOK'
    <3>1. FlushTypeOK' /\ MediaTypeOK' /\ FormTypeOK' /\ UploadTypeOK'
      BY <2>27 DEF SignOut, TypeOK, FlushTypeOK, MediaTypeOK, FormTypeOK, UploadTypeOK, flushVars, mediaVars, formVars, uploadVars
    <3>2. DraftTypeOK'
      BY <2>27, DraftNoneAssumption DEF SignOut, TypeOK, DraftTypeOK, Address, Id
    <3> QED
      BY <3>1, <3>2 DEF TypeOK
  <2>28. ASSUME NEW i \in Id, SweepDraft(i) PROVE TypeOK'
    <3>1. FlushTypeOK' /\ MediaTypeOK' /\ FormTypeOK' /\ UploadTypeOK'
      BY <2>28 DEF SweepDraft, TypeOK, FlushTypeOK, MediaTypeOK, FormTypeOK, UploadTypeOK, flushVars, mediaVars, formVars, uploadVars
    <3>2. DraftTypeOK'
      BY <2>28, DraftNoneAssumption DEF SweepDraft, TypeOK, DraftTypeOK, Address, Id
    <3> QED
      BY <3>1, <3>2 DEF TypeOK
  <2>29. ASSUME NEW i \in Id, SweepMedia(i) PROVE TypeOK'
    <3>1. FlushTypeOK' /\ DraftTypeOK' /\ FormTypeOK' /\ UploadTypeOK'
      BY <2>29 DEF SweepMedia, TypeOK, FlushTypeOK, DraftTypeOK, FormTypeOK, UploadTypeOK, flushVars, draftVars, formVars, uploadVars
    <3>2. MediaTypeOK'
      BY <2>29 DEF SweepMedia, TypeOK, MediaTypeOK
    <3> QED
      BY <3>1, <3>2 DEF TypeOK
  <2>30. CASE UNCHANGED vars
    BY <2>30 DEF vars, TypeOK, FlushTypeOK, flushVars, DraftTypeOK, draftVars, MediaTypeOK, mediaVars, FormTypeOK, formVars, UploadTypeOK, uploadVars
  <2> QED
    BY <2>1, <2>2, <2>3, <2>4, <2>5, <2>6, <2>7, <2>8, <2>9, <2>10, <2>11, <2>12, <2>13, <2>14, <2>15, <2>16, <2>17, <2>18, <2>19, <2>20, <2>21, <2>22, <2>23, <2>24, <2>25, <2>26, <2>27, <2>28, <2>29, <2>30
    DEF Next, FormStep, UploadStep, FlushStep, AbandonStep, AgeStep
<1> QED
  BY <1>1, <1>2, PTL DEF Spec

\* A write through an address leaves it where it is.
LEMMA PutKeepsAddress ==
    ASSUME DraftTypeOK, NEW i \in Id, NEW t, Put(i, t), draft["client"] \in Address
    PROVE  draft'["client"] \in Address
<1>1. Where(i) # "client" \/ draft[i] = "closed"
  BY DEF Where, Address, Id
<1>2. CASE UNCHANGED draft
  BY <1>2
<1>3. CASE draft[i] # "closed" /\ draft' = [draft EXCEPT ![Where(i)] = t]
  <2>1. draft'["client"] = draft["client"]
    BY <1>1, <1>3 DEF DraftTypeOK, Id
  <2> QED
    BY <2>1
<1> QED
  BY <1>2, <1>3 DEF Put

\* Once an address was left under the device's id, no form writes a draft there
\* again: not by its debounce, nor as it is hidden or unmounted.
THEOREM AddressAlwaysKept == Spec => []AddressKept
<1>1. Init => AddressKept
  BY DEF Init, AddressKept
<1>2. TypeOK /\ AddressKept /\ [Next]_vars => AddressKept'
  <2> SUFFICES ASSUME TypeOK, AddressKept, [Next]_vars PROVE AddressKept'
    OBVIOUS
  <2>a. DraftTypeOK
    BY DEF TypeOK
  <2>b. ASSUME NEW i \in Id, NEW t, Put(i, t), UNCHANGED addressed
        PROVE  AddressKept'
    BY <2>a, <2>b, PutKeepsAddress DEF AddressKept
  <2>c. CASE UNCHANGED draftVars
    BY <2>c DEF draftVars, AddressKept
  <2>d. ASSUME NEW p \in Screen, mounted[p] # None
        PROVE  mounted[p] \in Id
    BY <2>d DEF TypeOK, FormTypeOK
  <2>1. CASE FormStep
    <3>1. ASSUME NEW p \in Screen, NEW t \in Text \cup {None}, Type(p, t)
          PROVE  AddressKept'
      BY <3>1, <2>b, <2>c, <2>d DEF Type, draftVars
    <3>2. ASSUME NEW p \in Screen, Fire(p)
          PROVE  AddressKept'
      <4>1. mounted[p] # None
        BY <3>2 DEF Fire, TypeOK, FormTypeOK
      <4> QED
        BY <3>2, <4>1, <2>b, <2>d DEF Fire
    <3>3. ASSUME NEW p \in Screen, Hide(p) \/ Unmount(p)
          PROVE  AddressKept'
      <4>1. mounted[p] # None /\ Flush(p) /\ UNCHANGED addressed
        BY <3>3 DEF Hide, Unmount
      <4> QED
        BY <4>1, <2>b, <2>c, <2>d DEF Flush, draftVars
    <3>4. ASSUME NEW p \in Screen, Close(p)
          PROVE  AddressKept'
      BY <3>4, <2>b, <2>d DEF Close
    <3>5. ASSUME NEW p \in Screen,
                 \/ \E i \in Id : Open(p, i)
                 \/ Load(p) \/ Kill(p) \/ Discard(p) \/ Cancel(p)
                 \/ \E u \in Upload : Restore(p, u) \/ Retry(p, u)
                 \/ \E u \in Upload, k \in Capture : Pick(p, u, k)
          PROVE  AddressKept'
      <4>1. UNCHANGED draftVars
        BY <3>5 DEF Open, Load, Kill, Discard, Cancel, Restore, Retry, Pick
      <4> QED
        BY <4>1, <2>c
    <3> QED
      BY <2>1, <3>1, <3>2, <3>3, <3>4, <3>5 DEF FormStep
  <2>2. CASE UploadStep
    <3>1. UNCHANGED draftVars
      BY <2>2 DEF UploadStep, Register, ObjectGone, Hold, Sent
    <3> QED
      BY <3>1, <2>c
  <2>3. CASE FlushStep
    <3>1. CASE RekeyDraft
      <4>1. CASE MoveDraft /\ addressed' = TRUE
        <5>1. draft'["client"] = "forward"
          BY <4>1 DEF MoveDraft, Id
        <5> QED
          BY <5>1 DEF AddressKept, Address
      <4> QED
        BY <3>1, <4>1, <2>c DEF RekeyDraft
    <3>2. CASE Make \/ Hear \/ RekeyMedia \/ Resolve \/ MoveAgain
      <4>1. UNCHANGED draftVars
        BY <3>2 DEF Make, Hear, RekeyMedia, Resolve, MoveAgain
      <4> QED
        BY <4>1, <2>c
    <3> QED
      BY <2>3, <3>1, <3>2 DEF FlushStep
  <2>4. CASE AbandonStep
    <3>1. CASE DiscardDraft
      <4>1. CASE draft' = [draft EXCEPT !["client"] = "closed"]
        BY <4>1, <2>a DEF AddressKept, DraftTypeOK, Address, Id
      <4> QED
        BY <3>1, <4>1, <2>c DEF DiscardDraft
    <3>2. CASE Abandon \/ DiscardMedia
      BY <3>2, <2>c DEF Abandon, DiscardMedia
    <3> QED
      BY <2>4, <3>1, <3>2 DEF AbandonStep
  <2>5. CASE AgeStep
    <3>1. CASE SignOut
      BY <3>1 DEF SignOut, AddressKept
    <3>2. ASSUME NEW i \in Id, SweepDraft(i)
          PROVE  AddressKept'
      BY <3>2, <2>a DEF SweepDraft, AddressKept, DraftTypeOK, Id
    <3>3. ASSUME NEW i \in Id, SweepMedia(i)
          PROVE  AddressKept'
      BY <3>3, <2>c DEF SweepMedia
    <3> QED
      BY <2>5, <3>1, <3>2, <3>3 DEF AgeStep
  <2>6. CASE UNCHANGED vars
    BY <2>6, <2>c DEF vars
  <2> QED
    BY <2>1, <2>2, <2>3, <2>4, <2>5, <2>6 DEF Next
<1> QED
  BY <1>1, <1>2, Typed, PTL DEF Spec
-----------------------------------------------------------------------------
\* Bytes under the device's id are late ones as soon as the media has moved.
LateOK == (mediaMoved \/ start = "resolved") /\ bytes["client"] # None => late

LEMMA PutBytesLate ==
    ASSUME LateOK, NEW i \in Id, NEW k, NEW o, PutBytes(i, k, o), MediaTypeOK,
           UNCHANGED <<mediaMoved, start>>
    PROVE  LateOK'
<1>1. CASE i = "client"
  BY <1>1 DEF PutBytes, LateOK
<1>2. CASE i # "client"
  BY <1>2 DEF PutBytes, LateOK, MediaTypeOK
<1> QED
  BY <1>1, <1>2

LEMMA DeleteLate ==
    ASSUME LateOK, NEW i \in Id, DeleteMedia(i), MediaTypeOK,
           UNCHANGED <<mediaMoved, start>>
    PROVE  LateOK'
BY DEF DeleteMedia, LateOK, MediaTypeOK, mediaVars, Id

\* What a form or an upload does to the media store.
LEMMA FormLate ==
    ASSUME TypeOK, LateOK, FormStep
    PROVE  LateOK'
<1>a. MediaTypeOK
  BY DEF TypeOK
<1>b. \A p \in Screen : mounted[p] # None => mounted[p] \in Id
  BY DEF TypeOK, FormTypeOK
<1>c. \A u \in Upload : at[u] \in Id
  BY DEF TypeOK, UploadTypeOK
<1>d. UNCHANGED mediaVars /\ UNCHANGED flushVars => LateOK'
  BY DEF mediaVars, flushVars, LateOK
<1>1. ASSUME NEW p \in Screen, NEW u \in Upload, Retry(p, u)
      PROVE  LateOK'
  <2>1. UNCHANGED <<mediaMoved, start>>
    BY <1>1 DEF Retry, flushVars
  <2>2. CASE UNCHANGED mediaVars
    BY <1>1, <2>2, <1>d DEF Retry
  <2>3. CASE \E o : PutBytes(at[u], shot[u], o)
    BY <2>1, <2>3, <1>a, <1>c, PutBytesLate
  <2> QED
    BY <1>1, <2>2, <2>3 DEF Retry
<1>2. ASSUME NEW p \in Screen, NEW u \in Upload, NEW k \in Capture, Pick(p, u, k)
      PROVE  LateOK'
  <2>1. UNCHANGED <<mediaMoved, start>> /\ mounted[p] \in Id
    BY <1>2, <1>b DEF Pick, Free, flushVars
  <2>2. CASE UNCHANGED mediaVars
    BY <1>2, <2>2, <1>d DEF Pick
  <2>3. CASE PutBytes(mounted[p], k, None)
    BY <2>1, <2>3, <1>a, PutBytesLate
  <2> QED
    BY <1>2, <2>2, <2>3 DEF Pick
<1>3. ASSUME NEW p \in Screen, Discard(p) \/ Close(p) \/ Cancel(p)
      PROVE  LateOK'
  <2>1. UNCHANGED <<mediaMoved, start>> /\ mounted[p] \in Id /\ DeleteMedia(mounted[p])
    BY <1>3, <1>b DEF Discard, Close, Cancel, flushVars
  <2> QED
    BY <2>1, <1>a, DeleteLate
<1>4. ASSUME NEW p \in Screen,
             \/ \E i \in Id : Open(p, i)
             \/ \E t \in Text \cup {None} : Type(p, t)
             \/ Load(p) \/ Fire(p) \/ Hide(p) \/ Unmount(p) \/ Kill(p)
             \/ \E u \in Upload : Restore(p, u)
      PROVE  LateOK'
  <2>1. UNCHANGED mediaVars /\ UNCHANGED flushVars
    BY <1>4 DEF Open, Type, Load, Fire, Hide, Unmount, Kill, Restore
  <2> QED
    BY <2>1, <1>d
<1> QED
  BY <1>1, <1>2, <1>3, <1>4 DEF FormStep

\* Nothing captured before the media moved is left under the id of the device once
\* the start is resolved, whatever rekeys were lost or landed unheard.
THEOREM StrandedAlwaysLate == Spec => []StrandedWasLate
<1>1. Init => LateOK
  BY DEF Init, LateOK
<1>2. TypeOK /\ LateOK /\ [Next]_vars => LateOK'
  <2> SUFFICES ASSUME TypeOK, LateOK, [Next]_vars PROVE LateOK'
    OBVIOUS
  <2>a. MediaTypeOK /\ "client" \in Id
    BY DEF TypeOK, Id
  <2>b. \A u \in Upload : at[u] \in Id
    BY DEF TypeOK, UploadTypeOK
  <2>1. CASE FormStep
    BY <2>1, FormLate
  <2>2. CASE UploadStep
    <3>1. PICK u \in Upload : Register(u) \/ ObjectGone(u) \/ Hold(u) \/ Sent(u)
      BY <2>2 DEF UploadStep
    <3>2. CASE Sent(u)
      <4>1. UNCHANGED <<mediaMoved, start>> /\ DeleteMedia(at[u])
        BY <3>2 DEF Sent, flushVars
      <4> QED
        BY <4>1, <2>a, <2>b, DeleteLate
    <3>3. CASE Register(u) \/ ObjectGone(u) \/ Hold(u)
      BY <3>3 DEF Register, ObjectGone, Hold, PutRegistration, mediaVars, flushVars, LateOK
    <3> QED
      BY <3>1, <3>2, <3>3
  <2>3. CASE FlushStep
    <3>1. CASE RekeyMedia
      <4>1. CASE MoveMedia
        BY <4>1, <2>a DEF MoveMedia, Moved, LateOK
      <4>2. CASE UNCHANGED mediaVars /\ mediaMoved' = FALSE
        BY <3>1, <4>2 DEF RekeyMedia, mediaVars, LateOK
      <4> QED
        BY <3>1, <4>1, <4>2 DEF RekeyMedia
    <3>2. CASE Make \/ Hear \/ RekeyDraft \/ Resolve \/ MoveAgain
      BY <3>2 DEF Make, Hear, RekeyDraft, Resolve, MoveAgain, mediaVars, LateOK
    <3> QED
      BY <2>3, <3>1, <3>2 DEF FlushStep
  <2>4. CASE AbandonStep
    <3>1. CASE DiscardMedia
      BY <3>1, <2>a, DeleteLate DEF DiscardMedia
    <3>2. CASE Abandon \/ DiscardDraft
      BY <3>2 DEF Abandon, DiscardDraft, mediaVars, LateOK
    <3> QED
      BY <2>4, <3>1, <3>2 DEF AbandonStep
  <2>5. CASE AgeStep
    BY <2>5, <2>a DEF AgeStep, SignOut, SweepDraft, SweepMedia, mediaVars, flushVars, LateOK, MediaTypeOK
  <2>6. CASE UNCHANGED vars
    BY <2>6 DEF vars, mediaVars, flushVars, LateOK
  <2> QED
    BY <2>1, <2>2, <2>3, <2>4, <2>5, <2>6 DEF Next
<1>3. LateOK => StrandedWasLate
  BY DEF LateOK, StrandedWasLate
<1> QED
  BY <1>1, <1>2, <1>3, Typed, PTL DEF Spec
-----------------------------------------------------------------------------
\* Moving the draft leaves what is read under the device's id: the text itself, or
\* through the address the text that was moved, now or by an earlier pass.
LEMMA MoveDraftReads ==
    ASSUME DraftTypeOK, MoveDraft, Read("client") \in Text
    PROVE  Read("client")' = Read("client")
<1>1. "client" \in Id /\ "server" \in Id /\ "client" # "server"
  BY DEF Id
<1>2. "forward" \notin Text /\ draft["server"] \notin Address
  BY DraftNoneAssumption DEF DraftTypeOK
<1>3. /\ draft'["client"] = "forward"
      /\ draft'["server"] = IF draft["client"] \in Text
                            THEN draft["client"] ELSE draft["server"]
  BY <1>1 DEF MoveDraft
<1>4. CASE draft["client"] \in Text
  <2>1. Read("client") = draft["client"] /\ draft'["server"] = draft["client"]
    BY <1>3, <1>4 DEF Read
  <2> QED BY <1>2, <1>3, <1>4, <2>1 DEF Read
<1>5. CASE draft["client"] \notin Text
  <2>1. draft["server"] \in Text /\ Read("client") = draft["server"]
    BY <1>5, DraftNoneAssumption DEF Read
  <2> QED BY <1>2, <1>3, <1>5, <2>1 DEF Read
<1> QED BY <1>4, <1>5

\* Moving the media leaves the bytes under one of the two ids.
LEMMA MoveMediaKeeps ==
    ASSUME MediaTypeOK, MoveMedia, bytes["client"] # None
    PROVE  \E i \in Id : bytes'[i] = bytes["client"]
<1>1. "server" \in Id /\ "client" # "server"
  BY DEF Id
<1>2. bytes'["server"] = bytes["client"]
  BY <1>1 DEF MoveMedia, Moved
<1> QED BY <1>1, <1>2

\* rekeyDraft and rekeyPendingMedia, in whatever order the passes of the flush run
\* and however they end, never drop the rep's work.
THEOREM FlushAlwaysKeepsWork == Spec => FlushKeepsWork
<1> DEFINE Step == toMove' # toMove =>
                     /\ Read("client") \in Text => Read("client")' = Read("client")
                     /\ bytes["client"] # None =>
                          \E i \in Id : bytes'[i] = bytes["client"]
<1>1. TypeOK /\ [Next]_vars => Step
  <2> SUFFICES ASSUME TypeOK, [Next]_vars, toMove' # toMove
               PROVE  /\ Read("client") \in Text => Read("client")' = Read("client")
                      /\ bytes["client"] # None =>
                           \E i \in Id : bytes'[i] = bytes["client"]
    OBVIOUS
  <2>1. Hear \/ RekeyDraft \/ RekeyMedia \/ MoveAgain
    <3>1. ~UNCHANGED flushVars
      BY DEF flushVars
    <3>2. ~FormStep
      BY <3>1 DEF FormStep, Open, Type, Load, Fire, Hide, Unmount, Kill, Restore, Retry,
         Pick, Discard, Close, Cancel
    <3>3. ~UploadStep
      BY <3>1 DEF UploadStep, Register, ObjectGone, Hold, Sent
    <3>4. ~AbandonStep
      BY DEF AbandonStep, Abandon, DiscardDraft, DiscardMedia
    <3>5. ~AgeStep
      BY <3>1 DEF AgeStep, SignOut, SweepDraft, SweepMedia
    <3>6. ~Make /\ ~Resolve
      BY DEF Make, Resolve
    <3> QED BY <3>1, <3>2, <3>3, <3>4, <3>5, <3>6 DEF Next, FlushStep, vars
  <2>2. UNCHANGED draft => Read("client")' = Read("client")
    BY DEF Read
  <2>3. UNCHANGED bytes => \A i \in Id : bytes'[i] = bytes[i]
    OBVIOUS
  <2>4. "client" \in Id /\ DraftTypeOK /\ MediaTypeOK
    BY DEF Id, TypeOK
  <2>5. CASE Hear \/ MoveAgain
    BY <2>2, <2>3, <2>4, <2>5 DEF Hear, MoveAgain, draftVars, mediaVars
  <2>6. CASE RekeyDraft
    BY <2>2, <2>3, <2>4, <2>6, MoveDraftReads DEF RekeyDraft, draftVars, mediaVars
  <2>7. CASE RekeyMedia
    <3>1. UNCHANGED draft
      BY <2>7 DEF RekeyMedia, draftVars
    <3>2. MoveMedia \/ UNCHANGED bytes
      BY <2>7 DEF RekeyMedia, mediaVars
    <3> QED BY <2>2, <2>3, <2>4, <3>1, <3>2, MoveMediaKeeps
  <2> QED BY <2>1, <2>5, <2>6, <2>7
<1>2. Spec => [][Step]_vars
  BY <1>1, Typed, PTL DEF Spec
<1> QED BY <1>2 DEF FlushKeepsWork
=============================================================================
