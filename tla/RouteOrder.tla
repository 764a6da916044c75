----------------------------- MODULE RouteOrder -----------------------------
(***************************************************************************)
(* The stops of one list and their positions: a route template             *)
(* (route-templates.service.ts) or a day's plan (routes.service.ts,        *)
(* imports.service.ts), whichever `kind` says. A unique index keeps two    *)
(* stops off one position and is checked at every row that is written, so  *)
(* a swap or a reorder goes through free positions. Requests compute the   *)
(* new positions from a list they read earlier and write them by id in one *)
(* transaction; transactions on the same rows wait for each other.         *)
(***************************************************************************)
EXTENDS Naturals, FiniteSets, Sequences, SequencesExt

CONSTANTS
    Item,       \* ids of stops; an id is never used twice
    Caller,     \* requests served at a time
    MaxSeq,     \* bound: the largest position a client asks for
    FileSize,   \* rows of the import file
    Named,      \* bound: positions its rows may name
    None

ASSUME SizeAssumption == /\ MaxSeq \in Nat \ {0} /\ FileSize \in Nat \ {0}
                         /\ Named \subseteq Nat \ {0}
ASSUME ItemAssumption == IsFiniteSet(Item) /\ None \notin Item

VARIABLES
    kind,       \* "template" or "plan"
    seq,        \* the position of each stop, 0 without a row
    born,       \* ids that have been given out
    visited,    \* stops whose status is visited
    file,       \* the import file: the position each row names, 0 for none
    job,        \* ImportJob.status
    imported,   \* history: stops the import has inserted
    pc,         \* what each request does next
    snap,       \* the positions it computes from
    want,       \* the stops it is about: the order asked for, or one and another
    answer      \* how the write of this step ended, "none" after another step

listVars == <<seq, born, visited>>
jobVars == <<job, imported>>
reqVars == <<pc, snap, want>>
vars == <<kind, listVars, file, jobVars, reqVars, answer>>

Live(s) == {i \in Item : s[i] > 0}
InOrder(l, s) == \A j, k \in DOMAIN l : j < k => s[l[j]] < s[l[k]]
Order(s) == CHOOSE l \in SetToSeqs(Live(s)) : InOrder(l, s)
Highest(s) == CHOOSE m \in {s[i] : i \in Item} : \A i \in Item : s[i] <= m
Nowhere == [i \in Item |-> 0]

\* What the preview lets through: no position is named twice. (It also lets a 0
\* through, which is a position like the others and is left out.)
Confirmable(f) ==
    \A j, k \in DOMAIN f : j # k /\ f[j] = f[k] => f[j] = 0

TypeOK ==
    /\ kind \in {"template", "plan"}
    /\ seq \in [Item -> Nat]
    /\ born \subseteq Item /\ visited \subseteq Live(seq)
    /\ Live(seq) \subseteq born
    /\ file \in [1 .. FileSize -> Named \cup {0}]
    /\ job \in {"none", "validated", "applied"}
    /\ imported \subseteq born
    /\ pc \in [Caller -> {"idle", "move", "reorder", "delete", "confirm"}]
    /\ snap \in [Caller -> [Item -> Nat]]
    /\ want \in [Caller -> Seq(Item)]
    /\ answer \in {"none", "ok", "taken", "missing", "applied"}

Init ==
    /\ kind \in {"template", "plan"}
    /\ seq = Nowhere
    /\ born = {} /\ visited = {}
    /\ file \in {f \in [1 .. FileSize -> Named \cup {0}] : Confirmable(f)}
    /\ kind = "template" => file = [k \in 1 .. FileSize |-> 0]
    /\ job = "none" /\ imported = {}
    /\ pc = [c \in Caller |-> "idle"]
    /\ snap = [c \in Caller |-> Nowhere]
    /\ want = [c \in Caller |-> <<>>]
    /\ answer = "none"

Read(c, op, positions, items) ==
    /\ pc[c] = "idle"
    /\ pc' = [pc EXCEPT ![c] = op]
    /\ snap' = [snap EXCEPT ![c] = positions]
    /\ want' = [want EXCEPT ![c] = items]
    /\ answer' = "none"
    /\ UNCHANGED <<kind, listVars, file, jobVars>>

\* A finished request keeps nothing of what it read.
End(c, outcome) ==
    /\ pc' = [pc EXCEPT ![c] = "idle"]
    /\ snap' = [snap EXCEPT ![c] = Nowhere]
    /\ want' = [want EXCEPT ![c] = <<>>]
    /\ answer' = outcome
    /\ UNCHANGED <<kind, file>>
-----------------------------------------------------------------------------
(* Writing positions: row by row, each against the unique index.           *)

Row(i, p) == [item |-> i, pos |-> p]

\* Mutant of UpdateRow: updateMany where update is called, so that a missing row is no error.
UpdateRowOrNone(acc, row) ==
    IF acc.err # "ok" \/ acc.seq[row.item] = 0 THEN acc
    ELSE IF \E j \in Item \ {row.item} : acc.seq[j] = row.pos
         THEN [acc EXCEPT !.err = "taken"]
         ELSE [acc EXCEPT !.seq[row.item] = row.pos]

UpdateRow(acc, row) ==
    IF acc.err # "ok" THEN acc
    ELSE IF acc.seq[row.item] = 0 THEN [acc EXCEPT !.err = "missing"]
    ELSE IF \E j \in Item \ {row.item} : acc.seq[j] = row.pos
         THEN [acc EXCEPT !.err = "taken"]
         ELSE [acc EXCEPT !.seq[row.item] = row.pos]

\* After each of the rows, from none of them on.
Updated(rows) ==
    LET after[k \in 0 .. Len(rows)] ==
            IF k = 0 THEN [seq |-> seq, err |-> "ok"]
                     ELSE UpdateRow(after[k - 1], rows[k])
    IN  after

Update(rows) == Updated(rows)[Len(rows)]

\* The whole transaction, rolled back when a row fails.
Write(c, rows) ==
    LET done == Update(rows)
    IN  /\ seq' = IF done.err = "ok" THEN done.seq ELSE seq
        /\ UNCHANGED <<born, visited, jobVars>>
        /\ End(c, done.err)
-----------------------------------------------------------------------------
(* The operations of both lists.                                           *)

\* createRouteItem, createRouteTemplateItem: any position the client computed.
CreateItem(i, p) ==
    /\ i \notin born
    /\ \A j \in Item : seq[j] # p
    /\ seq' = [seq EXCEPT ![i] = p]
    /\ born' = born \cup {i}
    /\ UNCHANGED <<kind, visited, file, jobVars, reqVars>>
    /\ answer' = "none"

\* updateRouteItem, updateRouteTemplateItem with a sequence.
UpdateItem(i, p) ==
    /\ i \in Live(seq)
    /\ \A j \in Item \ {i} : seq[j] # p
    /\ seq' = [seq EXCEPT ![i] = p]
    /\ UNCHANGED <<kind, born, visited, file, jobVars, reqVars>>
    /\ answer' = "none"

\* A report is confirmed (visits.service.ts), or updateRouteItem sets the status.
SetVisited(i, yes) ==
    /\ kind = "plan"
    /\ i \in Live(seq)
    /\ visited' = IF yes THEN visited \cup {i} ELSE visited \ {i}
    /\ UNCHANGED <<kind, seq, born, file, jobVars, reqVars>>
    /\ answer' = "none"

\* A template's stop changes places with the one above or below.
Neighbours(s, i, j) ==
    /\ {i, j} \subseteq Live(s) /\ i # j
    /\ \A k \in Live(s) : ~(s[i] < s[k] /\ s[k] < s[j])
    /\ \A k \in Live(s) : ~(s[j] < s[k] /\ s[k] < s[i])

MoveRead(c, i, j) ==
    /\ kind = "template"
    /\ Neighbours(seq, i, j)
    /\ Read(c, "move", seq, <<i, j>>)

\* Mutant of MoveRows: the second stop's position is never given to the first.
MoveRowsTwo(s, i, j) == <<Row(i, Highest(s) + 1), Row(j, s[i])>>

MoveRows(s, i, j) == <<Row(i, Highest(s) + 1), Row(j, s[i]), Row(i, s[j])>>

MoveWrite(c) ==
    /\ pc[c] = "move"
    /\ Write(c, MoveRows(snap[c], want[c][1], want[c][2]))

\* The order asked for must list the stops that were read, each once.
ReorderRead(c, order) ==
    /\ Live(seq) # {}
    /\ Len(order) = Cardinality(Live(seq)) /\ ToSet(order) = Live(seq)
    /\ Read(c, "reorder", seq, order)

\* Mutant of ReorderRows: the free positions start after the number of stops, not the highest.
ReorderRowsFromCount(s, order) ==
    [k \in DOMAIN order |-> Row(order[k], Len(order) + k)]
        \o [k \in DOMAIN order |-> Row(order[k], k)]

ReorderRows(s, order) ==
    [k \in DOMAIN order |-> Row(order[k], Highest(s) + k)]
        \o [k \in DOMAIN order |-> Row(order[k], k)]

ReorderWrite(c) ==
    /\ pc[c] = "reorder"
    /\ Write(c, ReorderRows(snap[c], want[c]))

\* A visited stop of a plan is not removed; a template has no statuses.
DeleteRead(c, i) ==
    /\ i \in Live(seq) \ visited
    /\ Read(c, "delete", Nowhere, <<i>>)

\* Mutant of DeleteWrite: the visit keeps the stop that is gone.
DeleteWriteKeepsVisit(c) ==
    LET i == want[c][1]
    IN  /\ pc[c] = "delete"
        /\ seq' = [seq EXCEPT ![i] = 0]
        /\ UNCHANGED <<born, visited, jobVars>>
        /\ End(c, IF seq[i] > 0 THEN "ok" ELSE "missing")

DeleteWrite(c) ==
    LET i == want[c][1]
    IN  /\ pc[c] = "delete"
        /\ seq' = [seq EXCEPT ![i] = 0]
        /\ visited' = visited \ {i}
        /\ UNCHANGED <<born, jobVars>>
        /\ End(c, IF seq[i] > 0 THEN "ok" ELSE "missing")
-----------------------------------------------------------------------------
(* Importing stops into a plan.                                            *)

\* The preview is stored as a job; it looks at the file, not at the plan.
CreateJob ==
    /\ kind = "plan" /\ job = "none"
    /\ job' = "validated"
    /\ UNCHANGED <<kind, listVars, file, imported, reqVars>>
    /\ answer' = "none"

ConfirmRead(c) ==
    /\ job = "validated"
    /\ Read(c, "confirm", Nowhere, <<>>)

\* A row without a position takes the count of the plan's stops and rows so far.
Position(s, k) == IF file[k] = 0 THEN Cardinality(Live(s)) + k ELSE file[k]

\* createMany: one statement, every row or none.
Fits(s) ==
    /\ \A j, k \in DOMAIN file : Position(s, j) = Position(s, k) => j = k
    /\ \A k \in DOMAIN file, i \in Item : s[i] # Position(s, k)

Fresh == {rows \in [1 .. FileSize -> Item \ born] : IsInjective(rows)}

\* Mutant of Claimed: the claim does not ask for the status it read.
ClaimedAny == job # "none"

Claimed == job = "validated"

ConfirmTx(c) ==
    /\ pc[c] = "confirm"
    /\ Claimed /\ Fits(seq)
    /\ \E rows \in Fresh :
         /\ seq' = [i \in Item |->
                      IF \E k \in DOMAIN rows : rows[k] = i
                      THEN Position(seq, CHOOSE k \in DOMAIN rows : rows[k] = i)
                      ELSE seq[i]]
         /\ born' = born \cup {rows[k] : k \in DOMAIN rows}
         /\ imported' = imported \cup {rows[k] : k \in DOMAIN rows}
    /\ job' = "applied"
    /\ UNCHANGED visited
    /\ End(c, "ok")

\* Another confirm was first, or a position is taken: rolled back, the claim too.
ConfirmFails(c) ==
    /\ pc[c] = "confirm"
    /\ ~(Claimed /\ Fits(seq))
    /\ UNCHANGED <<listVars, jobVars>>
    /\ End(c, IF Claimed THEN "taken" ELSE "applied")
-----------------------------------------------------------------------------
Next ==
    \/ \E i \in Item, p \in 1 .. MaxSeq : CreateItem(i, p) \/ UpdateItem(i, p)
    \/ \E i \in Item, yes \in BOOLEAN : SetVisited(i, yes)
    \/ CreateJob
    \/ \E c \in Caller :
         \/ \E i, j \in Item : MoveRead(c, i, j)
         \/ \E order \in SetToSeqs(Live(seq)) : ReorderRead(c, order)
         \/ \E i \in Item : DeleteRead(c, i)
         \/ ConfirmRead(c)
         \/ MoveWrite(c) \/ ReorderWrite(c) \/ DeleteWrite(c)
         \/ ConfirmTx(c) \/ ConfirmFails(c)

Spec == Init /\ [][Next]_vars
-----------------------------------------------------------------------------
Ended(c, op) == pc[c] = op /\ pc'[c] = "idle"

\* A move or a reorder fails only when the list is no longer the one it read:
\* left alone, its writes never meet a taken position on the way, whatever
\* gaps the list has (moveRouteTemplateItem, reorderRoute(Template)Items).
OnlyOvertakenFails ==
    [][\A c \in Caller :
         (Ended(c, "move") \/ Ended(c, "reorder")) /\ answer' # "ok"
            => seq # snap[c]]_vars

\* A reorder that is answered with success has put the stops in the order asked
\* for, ahead of any stop added since the list was read, whatever other
\* requests did between its read and its write.
ReorderIsWhatWasAsked ==
    [][\A c \in Caller :
         Ended(c, "reorder") /\ answer' = "ok"
            => IsPrefix(want[c], Order(seq'))]_vars

\* The order with two of its stops exchanged.
Exchanged(o, i, j) ==
    [k \in DOMAIN o |-> IF o[k] = i THEN j ELSE IF o[k] = j THEN i ELSE o[k]]

\* A move that nobody overtook exchanges two neighbours and changes nothing else
\* of the order, gaps or not.
MoveSwapsNeighbours ==
    [][\A c \in Caller :
         Ended(c, "move") /\ seq = snap[c]
            => Order(seq') = Exchanged(Order(seq), want[c][1], want[c][2])]_vars

\* An import is in the plan with all its rows, once, exactly when its job says
\* applied: two confirms of one job never insert its rows twice, and a failed
\* one leaves nothing behind and the job as it was (confirmImportJob).
ImportedOnce ==
    Cardinality(imported) = (IF job = "applied" THEN FileSize ELSE 0)

\* imports.service.ts on a row without a position: it "takes the next free slot
\* in its plan". So a file that names no positions always fits.
RowTakesFreeSlot ==
    [][\A c \in Caller :
         Ended(c, "confirm") /\ (\A k \in DOMAIN file : file[k] = 0)
            => answer' # "taken"]_vars

\* routes.service.ts: "A visited stop records real field work for the day, so it
\* can't be pulled out of the route".
VisitedStopStays == [][visited \cap Live(seq) \subseteq Live(seq')]_vars
=============================================================================
