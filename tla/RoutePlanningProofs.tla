------------------------- MODULE RoutePlanningProofs -------------------------
(* The indexes hold and batches leave no hole, for any dates, templates,    *)
(* plans, copies and number of requests at a time.                          *)
EXTENDS RoutePlanning, TLAPS

LEMMA TypeInit == Init => TypeOK
<1> SUFFICES ASSUME Init PROVE TypeOK
  OBVIOUS
<1>1. Live = {}
  BY NoneAssumption DEF Init, Live
<1> QED BY <1>1, NoneAssumption DEF Init, TypeOK

\* What TypeOK says of the rows, which half the actions leave alone.
RowsOK ==
    /\ tpl \in [Template -> {"new", "live", "gone"}]
    /\ day \in [Plan -> Date \cup {None}]
    /\ of \in [Plan -> Template \cup {None}]
    /\ draft \subseteq Live /\ Live \subseteq born /\ born \subseteq Plan
    /\ \A p \in Plan : of[p] # None => p \in Live /\ tpl[of[p]] = "live"

RequestsOK ==
    /\ pc \in [Caller -> {"idle", "create", "refetch", "delete", "copy", "batch"}]
    /\ plan \in [Caller -> Plan \cup {None}]
    /\ date \in [Caller -> Date \cup {None}]
    /\ \A c \in Caller : date[c] # None <=> pc[c] \in {"create", "refetch"}
    /\ shift \in [Caller -> Shift \cup {NoShift}]
    /\ got \in [Caller -> SUBSET {"source", "target"}]
    /\ asked \in [Caller -> SUBSET Slot] /\ todo \in [Caller -> SUBSET Slot]
    /\ occupied \in [Caller -> SUBSET Slot]
    /\ known \in [Caller -> SUBSET Template]

LostOK == lost \in [Caller -> SUBSET Slot]

LEMMA TypeParts == TypeOK <=> RowsOK /\ RequestsOK /\ LostOK
  BY DEF TypeOK, RowsOK, RequestsOK, LostOK

LEMMA EndType == ASSUME TypeOK, NEW c \in Caller, End(c) PROVE RequestsOK'
  BY DEF TypeOK, RequestsOK, End

LEMMA RowsFrame == RowsOK /\ UNCHANGED planVars => RowsOK'
  BY DEF RowsOK, planVars, Live

LEMMA RequestsFrame == RequestsOK /\ UNCHANGED reqVars => RequestsOK'
  BY DEF RequestsOK, reqVars, batchVars

LEMMA LiveSlots == RowsOK => \A p \in Live : SlotOf(p) \in Slot
  BY DEF RowsOK, Live, SlotOf, Slot

LEMMA LoseType ==
    ASSUME TypeOK, NEW slots \in SUBSET Slot, NEW e, Lose(slots, e)
    PROVE  LostOK'
  BY DEF TypeOK, LostOK, Lose

LEMMA ForgetType ==
    ASSUME TypeOK, NEW c \in Caller, Forget(c)
    PROVE  LostOK'
  BY DEF TypeOK, LostOK, Forget

LEMMA InsertRows ==
    ASSUME RowsOK, NEW p \in Plan, NEW s \in Slot, Insert(p, s),
           s[2] = None \/ tpl[s[2]] = "live"
    PROVE  RowsOK' /\ Live' = Live \cup {p}
<1>1. s[1] \in Date /\ s[1] # None /\ s[2] \in Template \cup {None}
  BY NoneAssumption DEF Slot
<1>2. Live' = Live \cup {p}
  BY <1>1 DEF Insert, Live, RowsOK
<1>3. day' \in [Plan -> Date \cup {None}] /\ of' \in [Plan -> Template \cup {None}]
  BY <1>1 DEF Insert, RowsOK
<1>4. \A q \in Plan : of'[q] # None => q \in Live' /\ tpl'[of'[q]] = "live"
  BY <1>2 DEF Insert, RowsOK
<1> QED BY <1>2, <1>3, <1>4 DEF Insert, RowsOK

LEMMA DeleteTemplateRows ==
    ASSUME RowsOK, NEW t \in Template, DeleteTemplate(t)
    PROVE  RowsOK' /\ Live' = Live
<1>1. Live' = Live
  BY DEF DeleteTemplate, Live
<1>2. of' \in [Plan -> Template \cup {None}]
  BY DEF DeleteTemplate, RowsOK
<1>3. \A q \in Plan : of'[q] # None => q \in Live' /\ tpl'[of'[q]] = "live"
  BY <1>1 DEF DeleteTemplate, RowsOK, Live
<1> QED BY <1>1, <1>2, <1>3 DEF DeleteTemplate, RowsOK

LEMMA DeleteRows ==
    ASSUME TypeOK, NEW c \in Caller, Delete(c)
    PROVE  RowsOK' /\ Live' = Live \ {plan[c]}
<1>1. Live' = Live \ {plan[c]}
  BY DEF TypeOK, Delete, Live
<1>2. day' \in [Plan -> Date \cup {None}] /\ of' \in [Plan -> Template \cup {None}]
  BY DEF TypeOK, Delete
<1>3. \A q \in Plan : of'[q] # None => q \in Live' /\ tpl'[of'[q]] = "live"
  BY <1>1 DEF TypeOK, Delete
<1> QED BY <1>1, <1>2, <1>3 DEF Delete, TypeOK, RowsOK

LEMMA TypeStep == TypeOK /\ [Next]_vars => TypeOK'
<1> SUFFICES ASSUME TypeOK, [Next]_vars PROVE TypeOK'
  OBVIOUS
<1>a. RowsOK /\ RequestsOK /\ LostOK
  BY TypeParts
<1>b. RowsOK' /\ RequestsOK' /\ LostOK' => TypeOK'
  BY DEF TypeOK, RowsOK, RequestsOK, LostOK
<1> USE <1>a, <1>b
<1>1. CASE UNCHANGED vars
  BY <1>1, RowsFrame, RequestsFrame DEF vars, LostOK
<1>2. ASSUME NEW t \in Template, CreateTemplate(t) PROVE TypeOK'
  <2>1. RowsOK'
    BY <1>2 DEF CreateTemplate, RowsOK, Live
  <2> QED BY <1>2, <2>1, RequestsFrame DEF CreateTemplate, LostOK
<1>3. ASSUME NEW t \in Template, DeleteTemplate(t) PROVE TypeOK'
  <2>1. {SlotOf(p) : p \in {q \in Live : of[q] = t}} \in SUBSET Slot
    BY LiveSlots
  <2>2. LostOK'
    BY <1>3, <2>1, LoseType DEF DeleteTemplate
  <2> QED BY <1>3, <2>2, DeleteTemplateRows, RequestsFrame DEF DeleteTemplate
<1>4. ASSUME NEW p \in Plan, NEW isDraft \in BOOLEAN, SetStatus(p, isDraft)
      PROVE  TypeOK'
  <2>1. RowsOK'
    BY <1>4 DEF SetStatus, RowsOK, Live
  <2> QED BY <1>4, <2>1, RequestsFrame DEF SetStatus, LostOK
<1>5. ASSUME NEW c \in Caller, NEW d \in Date, CreateFind(c, d) PROVE TypeOK'
  <2>1. RequestsOK'
    BY <1>5, NoneAssumption DEF CreateFind, RequestsOK, batchVars
  <2> QED BY <1>5, <2>1, RowsFrame DEF CreateFind, LostOK
<1>6. ASSUME NEW c \in Caller, Create(c) PROVE TypeOK'
  <2>1. <<date[c], None>> \in Slot
    BY <1>6 DEF Create, TypeOK, Slot
  <2>2. PICK p \in Plan : Insert(p, <<date[c], None>>)
    BY <1>6 DEF Create
  <2>3. RowsOK'
    BY <2>1, <2>2, InsertRows
  <2> QED BY <1>6, <2>3, EndType, ForgetType DEF Create
<1>7. ASSUME NEW c \in Caller, CreateRaced(c) PROVE TypeOK'
  <2>1. RequestsOK'
    BY <1>7 DEF CreateRaced, RequestsOK, batchVars
  <2> QED BY <1>7, <2>1, RowsFrame DEF CreateRaced, LostOK
<1>8. ASSUME NEW c \in Caller, Refetch(c) \/ Fail(c) \/ Finish(c) PROVE TypeOK'
  BY <1>8, EndType, ForgetType, RowsFrame DEF Refetch, Fail, Finish
<1>9. ASSUME NEW c \in Caller, NEW p \in Plan, DeleteFind(c, p) PROVE TypeOK'
  <2>1. RequestsOK'
    BY <1>9 DEF DeleteFind, RequestsOK, batchVars
  <2> QED BY <1>9, <2>1, RowsFrame DEF DeleteFind, LostOK
<1>10. ASSUME NEW c \in Caller, Delete(c) PROVE TypeOK'
  <2>1. (IF plan[c] \in Live THEN {SlotOf(plan[c])} ELSE {}) \in SUBSET Slot
    BY LiveSlots
  <2>2. LostOK'
    BY <1>10, <2>1, LoseType DEF Delete
  <2> QED BY <1>10, <2>2, DeleteRows, EndType DEF Delete
<1>11. ASSUME NEW c \in Caller, NEW t \in Template, NEW dates \in SUBSET Date,
              Assign(c, t, dates)
       PROVE  TypeOK'
  <2>1. dates \X {t} \in SUBSET Slot
    BY DEF Slot
  <2>2. RequestsOK'
    BY <1>11, <2>1 DEF Assign, RequestsOK
  <2> QED BY <1>11, <2>2, RowsFrame DEF Assign, LostOK
<1>12. ASSUME NEW c \in Caller, NEW f \in Shift, Copy(c, f) PROVE TypeOK'
  <2>1. RequestsOK'
    BY <1>12 DEF Copy, RequestsOK
  <2> QED BY <1>12, <2>1, RowsFrame DEF Copy, LostOK
<1>13. ASSUME NEW c \in Caller, CopyReadsSource(c) PROVE TypeOK'
  <2>1. TargetSlots(shift[c]) \in SUBSET Slot
    BY ShiftAssumption DEF TargetSlots, ByTemplate, Live, Slot, TypeOK, NoShift
  <2>2. RequestsOK'
    BY <1>13, <2>1 DEF CopyReadsSource, RequestsOK
  <2> QED BY <1>13, <2>2, RowsFrame DEF CopyReadsSource, LostOK
<1>14. ASSUME NEW c \in Caller, CopyReadsTarget(c) PROVE TypeOK'
  <2>1. {SlotOf(p) : p \in ByTemplate({shift[c][d] : d \in DOMAIN shift[c]})}
          \in SUBSET Slot
    BY LiveSlots DEF ByTemplate
  <2>2. RequestsOK'
    BY <1>14, <2>1 DEF CopyReadsTarget, RequestsOK
  <2> QED BY <1>14, <2>2, RowsFrame DEF CopyReadsTarget, LostOK
<1>15. ASSUME NEW c \in Caller, CopyReadsTemplates(c) PROVE TypeOK'
  <2>1. RequestsOK'
    BY <1>15 DEF CopyReadsTemplates, RequestsOK
  <2> QED BY <1>15, <2>1, RowsFrame DEF CopyReadsTemplates, LostOK
<1>16. ASSUME NEW c \in Caller, NEW s \in todo[c], Skip(c, s) PROVE TypeOK'
  <2>1. RequestsOK'
    BY <1>16 DEF Skip, RequestsOK
  <2> QED BY <1>16, <2>1, RowsFrame DEF Skip, LostOK
<1>17. ASSUME NEW c \in Caller, NEW s \in todo[c], Materialize(c, s) PROVE TypeOK'
  <2>1. s \in Slot
    BY DEF TypeOK
  <2>2. RowsOK'
    BY <1>17, <2>1, InsertRows DEF Materialize
  <2>3. RequestsOK'
    BY <1>17, <2>1 DEF Materialize, RequestsOK
  <2> QED BY <1>17, <2>2, <2>3 DEF Materialize, LostOK
<1> QED BY <1>1, <1>2, <1>3, <1>4, <1>5, <1>6, <1>7, <1>8, <1>9, <1>10, <1>11,
           <1>12, <1>13, <1>14, <1>15, <1>16, <1>17 DEF Next

THEOREM Typed == Spec => []TypeOK
  BY TypeInit, TypeStep, PTL DEF Spec
-----------------------------------------------------------------------------
(* The slots of plans, step by step.                                       *)

LEMMA HeldFrame ==
    ASSUME UNCHANGED planVars
    PROVE  /\ Live' = Live
           /\ \A s : Held(s)' <=> Held(s)
           /\ OnePlanPerSlot => OnePlanPerSlot'
  BY DEF planVars, Live, Held, SlotOf, OnePlanPerSlot

LEMMA InsertSlots ==
    ASSUME RowsOK, NEW p \in Plan, NEW s \in Slot, Insert(p, s),
           s[2] = None \/ tpl[s[2]] = "live"
    PROVE  /\ \A r : Held(r)' <=> Held(r) \/ r = s
           /\ OnePlanPerSlot => OnePlanPerSlot'
<1>1. Live' = Live \cup {p} /\ p \notin Live
  BY InsertRows DEF Insert, RowsOK
<1>2. SlotOf(p)' = s
  <2>1. day'[p] = s[1] /\ of'[p] = s[2] /\ s = <<s[1], s[2]>>
    BY DEF Insert, RowsOK, Slot
  <2> QED BY <2>1 DEF SlotOf
<1>3. \A q \in Live : SlotOf(q)' = SlotOf(q)
  BY <1>1 DEF Insert, RowsOK, SlotOf, Live
<1>4. \A q \in Live : SlotOf(q) # s
  BY DEF Insert, Taken, Held
<1>5. \A r : Held(r)' <=> Held(r) \/ r = s
  BY <1>1, <1>2, <1>3 DEF Held
<1>6. OnePlanPerSlot => OnePlanPerSlot'
  BY <1>1, <1>2, <1>3, <1>4 DEF OnePlanPerSlot
<1> QED BY <1>5, <1>6

LEMMA DeleteTemplateSlots ==
    ASSUME TypeOK, NEW t \in Template, DeleteTemplate(t)
    PROVE  /\ \A r : Held(r) => Held(r)' \/ \E p \in Live : of[p] = t /\ r = SlotOf(p)
           /\ OnePlanPerSlot => OnePlanPerSlot'
<1>1. Live' = Live
  BY TypeParts, DeleteTemplateRows
<1>2. \A q \in Live : SlotOf(q)' = IF of[q] = t THEN <<day[q], None>> ELSE SlotOf(q)
  BY DEF DeleteTemplate, SlotOf, Live
<1>3. \A q \in Live : of[q] = t => ~Held(<<day[q], None>>)
  BY DEF DeleteTemplate
<1>4. \A r : Held(r) => Held(r)' \/ \E p \in Live : of[p] = t /\ r = SlotOf(p)
  BY <1>1, <1>2 DEF Held
<1>5. ASSUME OnePlanPerSlot PROVE OnePlanPerSlot'
  <2> SUFFICES ASSUME NEW p \in Live, NEW q \in Live, SlotOf(p)' = SlotOf(q)'
               PROVE  p = q
    BY <1>1 DEF OnePlanPerSlot
  <2>1. CASE of[p] = t /\ of[q] = t
    <3>1. SlotOf(p) = SlotOf(q)
      BY <1>2, <2>1 DEF SlotOf
    <3> QED BY <1>5, <3>1 DEF OnePlanPerSlot
  <2>2. CASE of[p] = t /\ of[q] # t
    BY <1>2, <1>3, <2>2 DEF Held
  <2>3. CASE of[p] # t /\ of[q] = t
    BY <1>2, <1>3, <2>3 DEF Held
  <2>4. CASE of[p] # t /\ of[q] # t
    BY <1>2, <1>5, <2>4 DEF OnePlanPerSlot
  <2> QED BY <2>1, <2>2, <2>3, <2>4
<1> QED BY <1>4, <1>5

LEMMA DeleteSlots ==
    ASSUME TypeOK, NEW c \in Caller, Delete(c)
    PROVE  /\ \A r : Held(r) => Held(r)' \/ (plan[c] \in Live /\ r = SlotOf(plan[c]))
           /\ OnePlanPerSlot => OnePlanPerSlot'
<1>1. Live' = Live \ {plan[c]}
  BY DeleteRows
<1>2. \A q \in Live' : SlotOf(q)' = SlotOf(q)
  BY <1>1 DEF Delete, SlotOf, Live, TypeOK
<1>3. ASSUME NEW r, Held(r) PROVE Held(r)' \/ (plan[c] \in Live /\ r = SlotOf(plan[c]))
  <2>1. PICK p \in Live : SlotOf(p) = r
    BY <1>3 DEF Held
  <2>2. CASE p \in Live'
    <3>1. SlotOf(p)' = r
      BY <1>2, <2>1, <2>2
    <3> QED BY <2>2, <3>1 DEF Held
  <2>3. CASE p \notin Live'
    BY <1>1, <2>1, <2>3
  <2> QED BY <2>2, <2>3
<1>4. ASSUME OnePlanPerSlot PROVE OnePlanPerSlot'
  BY <1>1, <1>2, <1>4 DEF OnePlanPerSlot
<1> QED BY <1>3, <1>4

LEMMA IndexStep == TypeOK /\ OnePlanPerSlot /\ [Next]_vars => OnePlanPerSlot'
<1> SUFFICES ASSUME TypeOK, OnePlanPerSlot, [Next]_vars PROVE OnePlanPerSlot'
  OBVIOUS
<1>1. CASE UNCHANGED <<day, of>>
  BY <1>1 DEF OnePlanPerSlot, Live, SlotOf
<1>2. ASSUME NEW t \in Template, DeleteTemplate(t) PROVE OnePlanPerSlot'
  BY <1>2, DeleteTemplateSlots
<1>3. ASSUME NEW c \in Caller, Create(c) PROVE OnePlanPerSlot'
  <2>1. <<date[c], None>> \in Slot
    BY <1>3 DEF Create, TypeOK, Slot
  <2> QED BY <1>3, <2>1, InsertSlots, TypeParts DEF Create
<1>4. ASSUME NEW c \in Caller, Delete(c) PROVE OnePlanPerSlot'
  BY <1>4, DeleteSlots
<1>5. ASSUME NEW c \in Caller, NEW s \in todo[c], Materialize(c, s)
      PROVE  OnePlanPerSlot'
  <2>1. s \in Slot
    BY DEF TypeOK
  <2> QED BY <1>5, <2>1, InsertSlots, TypeParts DEF Materialize
<1>6. UNCHANGED vars => UNCHANGED <<day, of>>
  BY DEF vars, planVars
<1>7. Next => \/ UNCHANGED <<day, of>>
              \/ \E t \in Template : DeleteTemplate(t)
              \/ \E c \in Caller : Create(c) \/ Delete(c)
              \/ \E c \in Caller : \E s \in todo[c] : Materialize(c, s)
  BY DEF Next, CreateTemplate, SetStatus, CreateFind, CreateRaced, Refetch,
         DeleteFind, Assign, Copy, CopyReadsSource, CopyReadsTarget,
         CopyReadsTemplates, Skip, Fail, Finish, planVars
<1> QED BY <1>1, <1>2, <1>3, <1>4, <1>5, <1>6, <1>7

(* Of each template, and without one, a date has one plan: deleting a
   template moves its plans to another slot and is refused if it is held.   *)
THEOREM OnePlan == Spec => []OnePlanPerSlot
<1>1. Init => OnePlanPerSlot
  BY NoneAssumption DEF Init, OnePlanPerSlot, Live
<1> QED BY <1>1, Typed, IndexStep, PTL DEF Spec
-----------------------------------------------------------------------------
(* What a request in progress has seen held stays held, or it is noted as
   lost: nothing else takes a plan away.                                    *)
Seen(c, s) == Held(s) \/ s \in lost[c]
Busy(c) == pc[c] # "idle"

LEMMA SeenStays ==
    ASSUME TypeOK, [Next]_vars, NEW c \in Caller, Busy(c), Busy(c)',
           NEW s, Seen(c, s)
    PROVE  Seen(c, s)'
<1>1. CASE UNCHANGED <<planVars, lost>>
  BY <1>1, HeldFrame DEF Seen
<1>2. ASSUME NEW t \in Template, CreateTemplate(t) PROVE Seen(c, s)'
  BY <1>2 DEF CreateTemplate, Seen, Held, Live, SlotOf
<1>3. ASSUME NEW t \in Template, DeleteTemplate(t) PROVE Seen(c, s)'
  <2>1. lost'[c] = lost[c] \cup {SlotOf(p) : p \in {q \in Live : of[q] = t}}
    BY <1>3, NoneAssumption DEF DeleteTemplate, Lose, Busy
  <2> QED BY <1>3, <2>1, DeleteTemplateSlots DEF Seen
<1>5. ASSUME NEW e \in Caller, Create(e) PROVE Seen(c, s)'
  <2>1. e # c
    BY <1>5 DEF Create, End, Busy, TypeOK
  <2>2. <<date[e], None>> \in Slot
    BY <1>5 DEF Create, TypeOK, Slot
  <2>3. lost'[c] = lost[c]
    BY <1>5, <2>1 DEF Create, Forget, TypeOK
  <2> QED BY <1>5, <2>2, <2>3, InsertSlots, TypeParts DEF Create, Seen
<1>6. ASSUME NEW e \in Caller, Delete(e) PROVE Seen(c, s)'
  <2>1. e # c
    BY <1>6 DEF Delete, End, Busy, TypeOK
  <2>2. lost'[c] = lost[c] \cup (IF plan[e] \in Live THEN {SlotOf(plan[e])} ELSE {})
    BY <1>6, <2>1 DEF Delete, Lose, Busy
  <2> QED BY <1>6, <2>2, DeleteSlots DEF Seen
<1>7. ASSUME NEW e \in Caller, NEW r \in todo[e], Materialize(e, r) PROVE Seen(c, s)'
  <2>1. r \in Slot
    BY DEF TypeOK
  <2> QED BY <1>7, <2>1, InsertSlots, TypeParts DEF Materialize, Seen
<1>8. ASSUME NEW e \in Caller, Refetch(e) \/ Fail(e) \/ Finish(e) PROVE Seen(c, s)'
  <2>1. e # c
    BY <1>8 DEF Refetch, Fail, Finish, End, Busy, TypeOK
  <2>2. lost'[c] = lost[c]
    BY <1>8, <2>1 DEF Refetch, Fail, Finish, Forget, TypeOK
  <2> QED BY <1>8, <2>2, HeldFrame DEF Refetch, Fail, Finish, Seen
<1>9. Next => \/ UNCHANGED <<planVars, lost>>
              \/ \E t \in Template : CreateTemplate(t) \/ DeleteTemplate(t)
              \/ \E p \in Plan, d \in BOOLEAN : SetStatus(p, d)
              \/ \E e \in Caller : Create(e) \/ Delete(e)
                                     \/ Refetch(e) \/ Fail(e) \/ Finish(e)
              \/ \E e \in Caller : \E r \in todo[e] : Materialize(e, r)
  BY DEF Next, CreateFind, CreateRaced, DeleteFind, Assign, Copy,
         CopyReadsSource, CopyReadsTarget, CopyReadsTemplates, Skip
<1>10. ASSUME NEW p \in Plan, NEW d \in BOOLEAN, SetStatus(p, d) PROVE Seen(c, s)'
  BY <1>10 DEF SetStatus, Seen, Held, Live, SlotOf
<1>11. UNCHANGED vars => UNCHANGED <<planVars, lost>>
  BY DEF vars
<1> QED BY <1>1, <1>2, <1>3, <1>5, <1>6, <1>7, <1>8, <1>9, <1>10, <1>11
-----------------------------------------------------------------------------
(* A batch: what it knows of its slots, for BatchLeavesNoHole. A slot it saw
   taken is still seen, and a template it did not find is gone.             *)
BatchInvOf(c) ==
    /\ pc[c] \in {"copy", "batch"} =>
         /\ \A s \in occupied[c] : Seen(c, s)
         /\ \A s \in asked[c] : s[2] \in Template /\ tpl[s[2]] # "new"
    /\ pc[c] \in {"idle", "copy"} => todo[c] = asked[c]
    /\ pc[c] = "idle" => occupied[c] = {} /\ asked[c] = {}
    /\ pc[c] = "batch" =>
         /\ \A s \in asked[c] : s[2] \in known[c] \/ tpl[s[2]] = "gone"
         /\ \A s \in asked[c] \ todo[c] : Seen(c, s) \/ tpl[s[2]] = "gone"

BatchInv == \A c \in Caller : BatchInvOf(c)

LEMMA TemplatesAge ==
    ASSUME TypeOK, [Next]_vars, NEW t \in Template
    PROVE  /\ tpl[t] # "new" => tpl'[t] # "new"
           /\ tpl[t] = "gone" => tpl'[t] = "gone"
<1>1. CASE UNCHANGED tpl
  BY <1>1
<1>2. ASSUME NEW u \in Template, CreateTemplate(u) \/ DeleteTemplate(u)
      PROVE  /\ tpl[t] # "new" => tpl'[t] # "new"
             /\ tpl[t] = "gone" => tpl'[t] = "gone"
  BY <1>2 DEF TypeOK, CreateTemplate, DeleteTemplate
<1>3. Next => \/ UNCHANGED tpl
              \/ \E u \in Template : CreateTemplate(u) \/ DeleteTemplate(u)
  BY DEF Next, SetStatus, CreateFind, Create, CreateRaced, Refetch, DeleteFind,
         Delete, Assign, Copy, CopyReadsSource, CopyReadsTarget, Insert,
         CopyReadsTemplates, Skip, Materialize, Fail, Finish, planVars
<1> QED BY <1>1, <1>2, <1>3 DEF vars, planVars

\* A step that leaves a request's own variables alone.
LEMMA BatchFrame ==
    ASSUME TypeOK, [Next]_vars, NEW c \in Caller, BatchInvOf(c),
           pc'[c] = pc[c], asked'[c] = asked[c], todo'[c] = todo[c],
           occupied'[c] = occupied[c], known'[c] = known[c]
    PROVE  BatchInvOf(c)'
<1>1. Busy(c) => Busy(c)' /\ \A s : Seen(c, s) => Seen(c, s)'
  BY SeenStays DEF Busy
<1>2. \A s \in asked[c] : s[2] \in Template =>
        /\ tpl[s[2]] # "new" => tpl'[s[2]] # "new"
        /\ tpl[s[2]] = "gone" => tpl'[s[2]] = "gone"
  BY TemplatesAge
<1>3. pc'[c] \in {"copy", "batch"} =>
        /\ \A s \in occupied'[c] : Seen(c, s)'
        /\ \A s \in asked'[c] : s[2] \in Template /\ tpl'[s[2]] # "new"
  BY <1>1, <1>2 DEF BatchInvOf, Busy
<1>4. pc'[c] = "batch" =>
        /\ \A s \in asked'[c] : s[2] \in known'[c] \/ tpl'[s[2]] = "gone"
        /\ \A s \in asked'[c] \ todo'[c] : Seen(c, s)' \/ tpl'[s[2]] = "gone"
  BY <1>1, <1>2 DEF BatchInvOf, Busy
<1> QED BY <1>3, <1>4 DEF BatchInvOf

LEMMA BatchEnd ==
    ASSUME TypeOK, NEW e \in Caller, End(e)
    PROVE  BatchInvOf(e)'
  BY DEF End, TypeOK, BatchInvOf

LEMMA BatchStep == TypeOK /\ BatchInv /\ [Next]_vars => BatchInv'
<1> SUFFICES ASSUME TypeOK, BatchInv, [Next]_vars, NEW c \in Caller
             PROVE  BatchInvOf(c)'
  BY DEF BatchInv
<1>i. BatchInvOf(c)
  BY DEF BatchInv
<1> DEFINE Same == /\ pc'[c] = pc[c] /\ asked'[c] = asked[c] /\ todo'[c] = todo[c]
                   /\ occupied'[c] = occupied[c] /\ known'[c] = known[c]
<1>1. Same => BatchInvOf(c)'
  BY <1>i, BatchFrame
<1>2. UNCHANGED reqVars => Same
  BY DEF reqVars, batchVars
<1>3. ASSUME NEW e \in Caller, e # c,
             \/ \E d \in Date : CreateFind(e, d)
             \/ Create(e) \/ CreateRaced(e) \/ Refetch(e) \/ Delete(e)
             \/ \E p \in Plan : DeleteFind(e, p)
             \/ \E t \in Template, dates \in SUBSET Date : Assign(e, t, dates)
             \/ \E f \in Shift : Copy(e, f)
             \/ CopyReadsSource(e) \/ CopyReadsTarget(e) \/ CopyReadsTemplates(e)
             \/ \E s \in todo[e] : Skip(e, s) \/ Materialize(e, s)
             \/ Fail(e) \/ Finish(e)
      PROVE  Same
  <2>1. ASSUME Create(e) \/ Refetch(e) \/ Delete(e) \/ Fail(e) \/ Finish(e) PROVE Same
    BY <1>3, <2>1 DEF Create, Refetch, Delete, Fail, Finish, End, TypeOK
  <2>2. ASSUME \/ \E d \in Date : CreateFind(e, d)
               \/ CreateRaced(e)
               \/ \E p \in Plan : DeleteFind(e, p)
        PROVE  Same
    BY <1>3, <2>2 DEF CreateFind, CreateRaced, DeleteFind, batchVars, TypeOK
  <2>3. ASSUME NEW t \in Template, NEW dates \in SUBSET Date, Assign(e, t, dates)
        PROVE  Same
    BY <1>3, <2>3 DEF Assign, TypeOK
  <2>4. ASSUME NEW f \in Shift, Copy(e, f) PROVE Same
    BY <1>3, <2>4 DEF Copy, TypeOK
  <2>5. ASSUME CopyReadsSource(e) \/ CopyReadsTarget(e) \/ CopyReadsTemplates(e)
        PROVE  Same
    BY <1>3, <2>5 DEF CopyReadsSource, CopyReadsTarget, CopyReadsTemplates, TypeOK
  <2>6. ASSUME NEW s \in todo[e], Skip(e, s) \/ Materialize(e, s) PROVE Same
    BY <1>3, <2>6 DEF Skip, Materialize, TypeOK
  <2> QED BY <1>3, <2>1, <2>2, <2>3, <2>4, <2>5, <2>6
<1>4. ASSUME Create(c) \/ Refetch(c) \/ Delete(c) \/ Fail(c) \/ Finish(c)
      PROVE  BatchInvOf(c)'
  BY <1>4, BatchEnd DEF Create, Refetch, Delete, Fail, Finish
<1>5. ASSUME \/ \E d \in Date : CreateFind(c, d)
             \/ CreateRaced(c)
             \/ \E p \in Plan : DeleteFind(c, p)
      PROVE  BatchInvOf(c)'
  BY <1>5 DEF CreateFind, CreateRaced, DeleteFind, BatchInvOf, TypeOK, batchVars
<1>6. ASSUME NEW t \in Template, NEW dates \in SUBSET Date, Assign(c, t, dates)
      PROVE  BatchInvOf(c)'
  BY <1>6, <1>i DEF Assign, BatchInvOf, TypeOK, planVars
<1>7. ASSUME NEW f \in Shift, Copy(c, f) PROVE BatchInvOf(c)'
  BY <1>7, <1>i DEF Copy, BatchInvOf, TypeOK
<1>8. ASSUME CopyReadsSource(c) PROVE BatchInvOf(c)'
  <2>1. \A s \in TargetSlots(shift[c]) : s[2] \in Template /\ tpl[s[2]] = "live"
    BY DEF TargetSlots, ByTemplate, Live, TypeOK
  <2>2. \A s \in occupied[c] : Seen(c, s)'
    BY <1>8, <1>i, SeenStays DEF CopyReadsSource, BatchInvOf, Busy
  <2> QED BY <1>8, <2>1, <2>2 DEF CopyReadsSource, BatchInvOf, TypeOK, planVars
<1>9. ASSUME CopyReadsTarget(c) PROVE BatchInvOf(c)'
  <2>1. \A s \in occupied'[c] : Held(s)
    BY <1>9 DEF CopyReadsTarget, TypeOK, ByTemplate, Held
  <2>2. \A s \in occupied'[c] : Seen(c, s)'
    BY <1>9, <2>1, HeldFrame DEF CopyReadsTarget, Seen
  <2> QED BY <1>9, <1>i, <2>2 DEF CopyReadsTarget, BatchInvOf, TypeOK, planVars
<1>10. ASSUME CopyReadsTemplates(c) PROVE BatchInvOf(c)'
  <2>1. \A s \in occupied[c] : Seen(c, s)'
    BY <1>10, <1>i, SeenStays DEF CopyReadsTemplates, BatchInvOf, Busy, TypeOK
  <2>2. \A s \in asked[c] : s[2] \in known'[c] \/ tpl[s[2]] = "gone"
    BY <1>10, <1>i DEF CopyReadsTemplates, BatchInvOf, TypeOK
  <2> QED BY <1>10, <1>i, <2>1, <2>2 DEF CopyReadsTemplates, BatchInvOf, TypeOK, planVars
<1>11. ASSUME NEW s \in todo[c], Skip(c, s) PROVE BatchInvOf(c)'
  <2>1. Seen(c, s)' \/ (s \in asked[c] => tpl[s[2]] = "gone")
    <3>1. CASE s \in occupied[c]
      BY <1>11, <1>i, <3>1, SeenStays DEF Skip, BatchInvOf, Busy
    <3>2. CASE s[2] \notin known[c]
      BY <1>11, <1>i, <3>2 DEF Skip, BatchInvOf
    <3>3. CASE Taken(s)
      BY <1>11, <3>3, HeldFrame DEF Skip, Taken, Seen
    <3> QED BY <1>11, <3>1, <3>2, <3>3 DEF Skip, Occupied
  <2>2. \A r : Seen(c, r) => Seen(c, r)'
    BY <1>11, SeenStays DEF Skip, Busy
  <2> QED BY <1>11, <1>i, <2>1, <2>2 DEF Skip, BatchInvOf, TypeOK, planVars
<1>12. ASSUME NEW s \in todo[c], Materialize(c, s) PROVE BatchInvOf(c)'
  <2>1. s \in Slot
    BY DEF TypeOK
  <2>2. Seen(c, s)'
    BY <1>12, <2>1, InsertSlots, TypeParts DEF Materialize, Seen
  <2>3. \A r : Seen(c, r) => Seen(c, r)'
    BY <1>12, SeenStays DEF Materialize, Busy
  <2>4. tpl' = tpl
    BY <1>12 DEF Materialize, Insert
  <2> QED BY <1>12, <1>i, <2>2, <2>3, <2>4 DEF Materialize, BatchInvOf, TypeOK
<1>13. Next =>
        \/ UNCHANGED reqVars
        \/ \E e \in Caller :
             \/ \E d \in Date : CreateFind(e, d)
             \/ Create(e) \/ CreateRaced(e) \/ Refetch(e) \/ Delete(e)
             \/ \E p \in Plan : DeleteFind(e, p)
             \/ \E t \in Template, dates \in SUBSET Date : Assign(e, t, dates)
             \/ \E f \in Shift : Copy(e, f)
             \/ CopyReadsSource(e) \/ CopyReadsTarget(e) \/ CopyReadsTemplates(e)
             \/ \E s \in todo[e] : Skip(e, s) \/ Materialize(e, s)
             \/ Fail(e) \/ Finish(e)
  BY DEF Next, CreateTemplate, DeleteTemplate, SetStatus
<1>14. CASE UNCHANGED vars
  BY <1>1, <1>2, <1>14 DEF vars
<1> QED BY <1>1, <1>2, <1>3, <1>4, <1>5, <1>6, <1>7, <1>8, <1>9, <1>10, <1>11,
           <1>12, <1>13, <1>14

(* For any templates, dates and copies, and however requests overlap: a batch
   leaves no slot it was asked for behind, unless another request took its
   plan away or deleted its template while the batch ran.                   *)
THEOREM NoHole == Spec => []BatchLeavesNoHole
<1>1. Init => BatchInv
  BY DEF Init, BatchInv, BatchInvOf
<1>2. TypeOK /\ BatchInv => BatchLeavesNoHole
  BY DEF BatchInv, BatchInvOf, BatchLeavesNoHole, Seen
<1> QED BY <1>1, <1>2, Typed, BatchStep, PTL DEF Spec
-----------------------------------------------------------------------------
LEMMA Fetching ==
    ASSUME TypeOK, [Next]_vars, NEW c \in Caller, pc'[c] = "refetch"
    PROVE  CreateRaced(c) \/ (pc[c] = "refetch" /\ date'[c] = date[c])
<1> DEFINE Goal == CreateRaced(c) \/ (pc[c] = "refetch" /\ date'[c] = date[c])
<1>1. CASE UNCHANGED reqVars
  BY <1>1 DEF reqVars
<1>2. ASSUME NEW e \in Caller, CreateRaced(e) PROVE Goal
  BY <1>2 DEF CreateRaced, TypeOK
<1>3. ASSUME NEW e \in Caller,
             Create(e) \/ Refetch(e) \/ Delete(e) \/ Fail(e) \/ Finish(e)
      PROVE  Goal
  BY <1>3 DEF Create, Refetch, Delete, Fail, Finish, End, TypeOK
<1>4. ASSUME NEW e \in Caller,
             \/ \E d \in Date : CreateFind(e, d)
             \/ \E p \in Plan : DeleteFind(e, p)
      PROVE  Goal
  BY <1>4 DEF CreateFind, DeleteFind, TypeOK
<1>5. ASSUME NEW e \in Caller, NEW t \in Template, NEW dates \in SUBSET Date,
             Assign(e, t, dates)
      PROVE  Goal
  BY <1>5 DEF Assign, TypeOK
<1>6. ASSUME NEW e \in Caller, NEW f \in Shift, Copy(e, f) PROVE Goal
  BY <1>6 DEF Copy, TypeOK
<1>7. ASSUME NEW e \in Caller,
             CopyReadsSource(e) \/ CopyReadsTarget(e) \/ CopyReadsTemplates(e)
      PROVE  Goal
  BY <1>7 DEF CopyReadsSource, CopyReadsTarget, CopyReadsTemplates, TypeOK
<1>8. ASSUME NEW e \in Caller, NEW s \in todo[e], Skip(e, s) \/ Materialize(e, s)
      PROVE  Goal
  BY <1>8 DEF Skip, Materialize
<1>9. Next =>
        \/ UNCHANGED reqVars
        \/ \E e \in Caller :
             \/ CreateRaced(e)
             \/ Create(e) \/ Refetch(e) \/ Delete(e) \/ Fail(e) \/ Finish(e)
             \/ \E d \in Date : CreateFind(e, d)
             \/ \E p \in Plan : DeleteFind(e, p)
             \/ \E t \in Template, dates \in SUBSET Date : Assign(e, t, dates)
             \/ \E f \in Shift : Copy(e, f)
             \/ CopyReadsSource(e) \/ CopyReadsTarget(e) \/ CopyReadsTemplates(e)
             \/ \E s \in todo[e] : Skip(e, s) \/ Materialize(e, s)
  BY DEF Next, CreateTemplate, DeleteTemplate, SetStatus
<1>10. CASE UNCHANGED vars
  BY <1>1, <1>10 DEF vars
<1> QED BY <1>1, <1>2, <1>3, <1>4, <1>5, <1>6, <1>7, <1>8, <1>9, <1>10

LEMMA RefetchStep ==
    TypeOK /\ ConflictMeansVanished /\ [Next]_vars => ConflictMeansVanished'
<1> SUFFICES ASSUME TypeOK, ConflictMeansVanished, [Next]_vars,
                    NEW c \in Caller, pc'[c] = "refetch"
             PROVE  Seen(c, <<date[c], None>>)'
  BY DEF ConflictMeansVanished, Seen
<1>1. CASE CreateRaced(c)
  <2>1. Held(<<date[c], None>>) /\ date' = date /\ UNCHANGED planVars
    BY <1>1 DEF CreateRaced, Taken
  <2>2. \A s : Held(s) => Seen(c, s)'
    BY <2>1, HeldFrame DEF Seen
  <2>3. \A s : s = <<date[c], None>> => Seen(c, s)'
    BY <2>1, <2>2
  <2> QED BY <2>1, <2>3
<1>2. CASE pc[c] = "refetch" /\ date'[c] = date[c]
  <2>1. Seen(c, <<date[c], None>>)
    BY <1>2 DEF ConflictMeansVanished, Seen
  <2>2. \A s : Seen(c, s) => Seen(c, s)'
    BY <1>2, SeenStays DEF Busy
  <2>3. \A s : s = <<date[c], None>> => Seen(c, s)'
    BY <2>1, <2>2
  <2> QED BY <1>2, <2>3
<1> QED BY <1>1, <1>2, Fetching

(* createRoutePlan answers with a conflict only when the plan in its way has
   been removed since: it never hides a plan that is there.                 *)
THEOREM ConflictIsReal == Spec => []ConflictMeansVanished
<1>1. Init => ConflictMeansVanished
  BY DEF Init, ConflictMeansVanished
<1> QED BY <1>1, Typed, RefetchStep, PTL DEF Spec
=============================================================================
