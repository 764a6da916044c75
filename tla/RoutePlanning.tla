---------------------------- MODULE RoutePlanning ----------------------------
(***************************************************************************)
(* The day plans of one representative: routes.service.ts makes and removes*)
(* them, route-templates.service.ts makes them from templates, one date at *)
(* a time or by copying a week or a month. Two partial unique indexes keep *)
(* a date to one plan of each template and one plan without a template.    *)
(* Deleting a template sets its plans' template to null.                   *)
(*                                                                         *)
(* A request looks first and writes later; a copy writes plan after plan,  *)
(* each committed on its own, from what it read at its start.              *)
(***************************************************************************)
EXTENDS Naturals, FiniteSets

CONSTANTS
    Date,       \* numbers, in calendar order
    Template,
    Plan,       \* ids of plans; an id is never used twice
    Caller,     \* requests served at a time
    Shift,      \* the copies asked for: where each date of the source goes
    None        \* no template, no date

ASSUME DateAssumption == Date \subseteq Nat
ASSUME NoneAssumption == None \notin Date \cup Template \cup Caller
ASSUME ShiftAssumption ==
    \A f \in Shift : DOMAIN f \subseteq Date /\ \A d \in DOMAIN f : f[d] \in Date \cup {None}

VARIABLES
    tpl,        \* RouteTemplate: "new" before it is made, then "live", "gone"
    day,        \* RoutePlan.planDate, None without a row
    of,         \* RoutePlan.routeTemplateId
    draft,      \* plans whose status is draft
    born,       \* ids that have been given out
    pc,         \* what each request does next
    plan,       \* deleteRoutePlan: the plan it found
    date,       \* createRoutePlan: the date it looked at
    shift,      \* a copy: the dates it copies and where
    got,        \* ... which of its two first queries have answered
    asked,      \* the slots a batch is to fill: pairs of a date and a template
    todo,       \* ... those it has not dealt with yet
    occupied,   \* ... those it saw taken at its start
    known,      \* ... the templates it has fetched
    lost        \* history: slots that lost a plan while the request ran

planVars == <<tpl, day, of, draft, born>>
batchVars == <<shift, got, asked, todo, occupied, known>>
reqVars == <<pc, plan, date, batchVars>>
vars == <<planVars, reqVars, lost>>

Slot == Date \X (Template \cup {None})
Live == {p \in Plan : day[p] # None}
SlotOf(p) == <<day[p], of[p]>>
Held(s) == \E p \in Live : SlotOf(p) = s
ByTemplate(dates) == {p \in Live : day[p] \in dates /\ of[p] # None}

NoShift == [d \in {} |-> None]

TypeOK ==
    /\ tpl \in [Template -> {"new", "live", "gone"}]
    /\ day \in [Plan -> Date \cup {None}]
    /\ of \in [Plan -> Template \cup {None}]
    /\ draft \subseteq Live /\ Live \subseteq born /\ born \subseteq Plan
    /\ \A p \in Plan : of[p] # None => p \in Live /\ tpl[of[p]] = "live"
    /\ pc \in [Caller -> {"idle", "create", "refetch", "delete", "copy", "batch"}]
    /\ plan \in [Caller -> Plan \cup {None}]
    /\ date \in [Caller -> Date \cup {None}]
    /\ \A c \in Caller : date[c] # None <=> pc[c] \in {"create", "refetch"}
    /\ shift \in [Caller -> Shift \cup {NoShift}]
    /\ got \in [Caller -> SUBSET {"source", "target"}]
    /\ asked \in [Caller -> SUBSET Slot] /\ todo \in [Caller -> SUBSET Slot]
    /\ occupied \in [Caller -> SUBSET Slot]
    /\ known \in [Caller -> SUBSET Template]
    /\ lost \in [Caller -> SUBSET Slot]

Init ==
    /\ tpl = [t \in Template |-> "new"]
    /\ day = [p \in Plan |-> None] /\ of = [p \in Plan |-> None]
    /\ draft = {} /\ born = {}
    /\ pc = [c \in Caller |-> "idle"]
    /\ plan = [c \in Caller |-> None] /\ date = [c \in Caller |-> None]
    /\ shift = [c \in Caller |-> NoShift] /\ got = [c \in Caller |-> {}]
    /\ asked = [c \in Caller |-> {}] /\ todo = [c \in Caller |-> {}]
    /\ occupied = [c \in Caller |-> {}] /\ known = [c \in Caller |-> {}]
    /\ lost = [c \in Caller |-> {}]

\* A finished request keeps nothing of what it read.
End(c) ==
    /\ pc' = [pc EXCEPT ![c] = "idle"]
    /\ plan' = [plan EXCEPT ![c] = None] /\ date' = [date EXCEPT ![c] = None]
    /\ shift' = [shift EXCEPT ![c] = NoShift] /\ got' = [got EXCEPT ![c] = {}]
    /\ asked' = [asked EXCEPT ![c] = {}] /\ todo' = [todo EXCEPT ![c] = {}]
    /\ occupied' = [occupied EXCEPT ![c] = {}]
    /\ known' = [known EXCEPT ![c] = {}]

\* Every request in progress but c, which ends, has seen these slots let go.
Lose(slots, ending) ==
    lost' = [c \in Caller |-> IF pc[c] = "idle" \/ c = ending THEN {}
                              ELSE lost[c] \cup slots]

Forget(c) == lost' = [lost EXCEPT ![c] = {}]
-----------------------------------------------------------------------------
(* Rows and their indexes.                                                 *)

\* Mutant of Taken: the index before the migration, one plan a date.
TakenDay(s) == \E p \in Live : day[p] = s[1]

\* The two partial unique indexes of route_plans.
Taken(s) == Held(s)

Insert(p, s) ==
    /\ p \notin born /\ ~Taken(s)
    /\ day' = [day EXCEPT ![p] = s[1]]
    /\ of' = [of EXCEPT ![p] = s[2]]
    /\ draft' = draft \cup {p}
    /\ born' = born \cup {p}
    /\ UNCHANGED tpl

CreateTemplate(t) ==
    /\ tpl[t] = "new"
    /\ tpl' = [tpl EXCEPT ![t] = "live"]
    /\ UNCHANGED <<day, of, draft, born, reqVars, lost>>

\* Mutant of DeleteTemplate: without the index on plans without a template.
DeleteTemplateAlways(t) ==
    LET plans == {p \in Live : of[p] = t}
    IN  /\ tpl[t] = "live"
        /\ tpl' = [tpl EXCEPT ![t] = "gone"]
        /\ of' = [p \in Plan |-> IF p \in plans THEN None ELSE of[p]]
        /\ Lose({SlotOf(p) : p \in plans}, None)
        /\ UNCHANGED <<day, draft, born, reqVars>>

\* ON DELETE SET NULL, refused when a date would have two plans without one.
DeleteTemplate(t) ==
    LET plans == {p \in Live : of[p] = t}
    IN  /\ tpl[t] = "live"
        /\ \A p \in plans : ~Held(<<day[p], None>>)
        /\ tpl' = [tpl EXCEPT ![t] = "gone"]
        /\ of' = [p \in Plan |-> IF p \in plans THEN None ELSE of[p]]
        /\ Lose({SlotOf(p) : p \in plans}, None)
        /\ UNCHANGED <<day, draft, born, reqVars>>

\* updateRoutePlan: any status from any other; those but draft are one here.
SetStatus(p, isDraft) ==
    /\ p \in Live
    /\ draft' = IF isDraft THEN draft \cup {p} ELSE draft \ {p}
    /\ UNCHANGED <<tpl, day, of, born, reqVars, lost>>
-----------------------------------------------------------------------------
(* A plan without a template: get or create.                               *)

CreateFind(c, d) ==
    /\ pc[c] = "idle"
    /\ ~Held(<<d, None>>)
    /\ pc' = [pc EXCEPT ![c] = "create"]
    /\ date' = [date EXCEPT ![c] = d]
    /\ UNCHANGED <<planVars, plan, batchVars, lost>>

Create(c) ==
    /\ pc[c] = "create"
    /\ \E p \in Plan : Insert(p, <<date[c], None>>)
    /\ End(c) /\ Forget(c)

\* Another request was first: its row is fetched.
CreateRaced(c) ==
    /\ pc[c] = "create"
    /\ Taken(<<date[c], None>>)
    /\ pc' = [pc EXCEPT ![c] = "refetch"]
    /\ UNCHANGED <<planVars, plan, date, batchVars, lost>>

\* Answers the row, or with a conflict when there is none.
Refetch(c) ==
    /\ pc[c] = "refetch"
    /\ End(c) /\ Forget(c)
    /\ UNCHANGED planVars
-----------------------------------------------------------------------------
(* Removing a plan: only a draft, as it was read.                          *)

DeleteFind(c, p) ==
    /\ pc[c] = "idle"
    /\ p \in draft
    /\ pc' = [pc EXCEPT ![c] = "delete"]
    /\ plan' = [plan EXCEPT ![c] = p]
    /\ UNCHANGED <<planVars, date, batchVars, lost>>

\* Mutant of Delete: the row keeps its template.
DeleteKeepsTemplate(c) ==
    LET p == plan[c]
    IN  /\ pc[c] = "delete"
        /\ day' = [day EXCEPT ![p] = None]
        /\ draft' = draft \ {p}
        /\ Lose(IF p \in Live THEN {SlotOf(p)} ELSE {}, c)
        /\ End(c)
        /\ UNCHANGED <<tpl, of, born>>

Delete(c) ==
    LET p == plan[c]
    IN  /\ pc[c] = "delete"
        /\ day' = [day EXCEPT ![p] = None]
        /\ of' = [of EXCEPT ![p] = None]
        /\ draft' = draft \ {p}
        /\ Lose(IF p \in Live THEN {SlotOf(p)} ELSE {}, c)
        /\ End(c)
        /\ UNCHANGED <<tpl, born>>
-----------------------------------------------------------------------------
(* Batches: a template on dates, a copied week or month.                   *)

\* assignRouteTemplate, assignRouteTemplateToDates.
Assign(c, t, dates) ==
    /\ pc[c] = "idle"
    /\ tpl[t] = "live"
    /\ pc' = [pc EXCEPT ![c] = "batch"]
    /\ asked' = [asked EXCEPT ![c] = dates \X {t}]
    /\ todo' = [todo EXCEPT ![c] = dates \X {t}]
    /\ known' = [known EXCEPT ![c] = {t}]
    /\ UNCHANGED <<planVars, plan, date, shift, got, occupied, lost>>

\* copyRoutePlans, copyRouteWeek.
Copy(c, f) ==
    /\ pc[c] = "idle"
    /\ pc' = [pc EXCEPT ![c] = "copy"]
    /\ shift' = [shift EXCEPT ![c] = f]
    /\ UNCHANGED <<planVars, plan, date, got, asked, todo, occupied, known, lost>>

\* A date the target month does not have is skipped.
TargetSlots(f) ==
    {<<f[day[p]], of[p]>> : p \in {q \in ByTemplate(DOMAIN f) : f[day[q]] # None}}

\* The two queries run at the same time and see the table one after the other.
CopyReadsSource(c) ==
    /\ pc[c] = "copy" /\ "source" \notin got[c]
    /\ got' = [got EXCEPT ![c] = @ \cup {"source"}]
    /\ asked' = [asked EXCEPT ![c] = TargetSlots(shift[c])]
    /\ todo' = [todo EXCEPT ![c] = TargetSlots(shift[c])]
    /\ UNCHANGED <<planVars, pc, plan, date, shift, occupied, known, lost>>

CopyReadsTarget(c) ==
    /\ pc[c] = "copy" /\ "target" \notin got[c]
    /\ got' = [got EXCEPT ![c] = @ \cup {"target"}]
    /\ occupied' = [occupied EXCEPT ![c] =
         {SlotOf(p) : p \in ByTemplate({shift[c][d] : d \in DOMAIN shift[c]})}]
    /\ UNCHANGED <<planVars, pc, plan, date, shift, asked, todo, known, lost>>

CopyReadsTemplates(c) ==
    /\ pc[c] = "copy" /\ got[c] = {"source", "target"}
    /\ pc' = [pc EXCEPT ![c] = "batch"]
    /\ known' = [known EXCEPT ![c] = {t \in Template :
                    tpl[t] = "live" /\ \E s \in asked[c] : s[2] = t}]
    /\ UNCHANGED <<planVars, plan, date, shift, got, asked, todo, occupied, lost>>

\* Earliest date first.
NextSlots(c) == {s \in todo[c] : \A r \in todo[c] : s[1] <= r[1]}

\* Mutant of Occupied: by date alone, as before several templates a day.
OccupiedDay(c, s) == \E r \in occupied[c] : r[1] = s[1]

Occupied(c, s) == s \in occupied[c]

\* Seen taken, without a template any more, or taken meanwhile: a skip.
Skip(c, s) ==
    /\ pc[c] = "batch" /\ s \in NextSlots(c)
    /\ \/ Occupied(c, s)
       \/ s[2] \notin known[c]
       \/ tpl[s[2]] = "live" /\ Taken(s)
    /\ todo' = [todo EXCEPT ![c] = @ \ {s}]
    /\ UNCHANGED <<planVars, pc, plan, date, shift, got, asked, occupied, known, lost>>

\* materializeTemplateAssignment; the plan's stops come with it.
Materialize(c, s) ==
    /\ pc[c] = "batch" /\ s \in NextSlots(c)
    /\ ~Occupied(c, s) /\ s[2] \in known[c]
    /\ tpl[s[2]] = "live"
    /\ \E p \in Plan : Insert(p, s)
    /\ todo' = [todo EXCEPT ![c] = @ \ {s}]
    /\ occupied' = [occupied EXCEPT ![c] = @ \cup {s}]
    /\ UNCHANGED <<pc, plan, date, shift, got, asked, known, lost>>

\* The template is gone (a foreign key) or the representative is no longer
\* active: the batch stops, what it made stays. A create can fail so too.
Fail(c) ==
    /\ pc[c] \in {"create", "batch"}
    /\ pc[c] = "batch" => todo[c] # {}
    /\ End(c) /\ Forget(c)
    /\ UNCHANGED planVars

Finish(c) ==
    /\ pc[c] = "batch" /\ todo[c] = {}
    /\ End(c) /\ Forget(c)
    /\ UNCHANGED planVars
-----------------------------------------------------------------------------
Next ==
    \/ \E t \in Template : CreateTemplate(t) \/ DeleteTemplate(t)
    \/ \E p \in Plan, isDraft \in BOOLEAN : SetStatus(p, isDraft)
    \/ \E c \in Caller :
         \/ \E d \in Date : CreateFind(c, d)
         \/ Create(c) \/ CreateRaced(c) \/ Refetch(c)
         \/ \E p \in Plan : DeleteFind(c, p)
         \/ Delete(c)
         \/ \E t \in Template, dates \in SUBSET Date \ {{}} : Assign(c, t, dates)
         \/ \E f \in Shift : Copy(c, f)
         \/ CopyReadsSource(c) \/ CopyReadsTarget(c) \/ CopyReadsTemplates(c)
         \/ \E s \in todo[c] : Skip(c, s) \/ Materialize(c, s)
         \/ Fail(c) \/ Finish(c)

Spec == Init /\ [][Next]_vars
-----------------------------------------------------------------------------
\* A representative has at most one plan of each template on a date and one
\* without a template, also after a template's deletion has left its plans
\* without one (the indexes of 20260721062916_route_plan_multi_per_day).
OnePlanPerSlot ==
    \A p, q \in Live : SlotOf(p) = SlotOf(q) => p = q

\* A batch that goes on has left no hole behind: every slot it has dealt with
\* has its plan, unless another request took that plan away or deleted the
\* template while the batch ran (assignRouteTemplateToDates, copyRouteWeek).
BatchLeavesNoHole ==
    \A c \in Caller : pc[c] = "batch" =>
        \A s \in asked[c] \ todo[c] :
            Held(s) \/ s \in lost[c] \/ tpl[s[2]] = "gone"

\* createRoutePlan gets or creates: it answers with a conflict only when the
\* plan that was in its way has been removed while it ran.
ConflictMeansVanished ==
    \A c \in Caller : pc[c] = "refetch" =>
        LET s == <<date[c], None>> IN Held(s) \/ s \in lost[c]

\* routes.service.ts: "a plan that's been published/started/completed represents
\* real field work ..., so it can't be pulled out from under a representative".
StartedPlanStays == [][Live \ draft \subseteq Live']_vars
=============================================================================
