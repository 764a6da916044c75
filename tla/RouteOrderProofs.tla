-------------------------- MODULE RouteOrderProofs --------------------------
(***************************************************************************)
(* Proofs about RouteOrder, for any list, import file and requests: an     *)
(* import is applied once and whole, and the positions a move or a reorder *)
(* writes are those it was asked for. What the row by row writes come to   *)
(* is shown by looking at the first row at which it would not.             *)
(***************************************************************************)
EXTENDS RouteOrder, FiniteSetTheorems, SequenceTheorems, WellFoundedInduction, TLAPS

(* What the import has inserted, as a set: nothing before it is applied, and
   then as many stops as the file has rows.                                 *)
ImportInv ==
    /\ file \in [1 .. FileSize -> Named \cup {0}]
    /\ job \in {"none", "validated", "applied"}
    /\ job # "applied" => imported = {}
    /\ ImportedOnce

\* The ids an import takes are as many as its rows.
LEMMA RowsAreDistinct ==
    ASSUME NEW rows \in Fresh
    PROVE  Cardinality({rows[k] : k \in DOMAIN rows}) = FileSize
<1> DEFINE S == {rows[k] : k \in DOMAIN rows}
<1>1. FileSize \in Nat
  BY SizeAssumption
<1>2. rows \in [1 .. FileSize -> Item \ born] /\ DOMAIN rows = 1 .. FileSize
  BY DEF Fresh
<1>3. \A j, k \in 1 .. FileSize : rows[j] = rows[k] => j = k
  BY <1>2 DEF Fresh, IsInjective
<1>4. ExistsBijection(1 .. FileSize, S)
  <2>1. rows \in [1 .. FileSize -> S]
    BY <1>2
  <2>2. rows \in Bijection(1 .. FileSize, S)
    BY <1>2, <1>3, <2>1 DEF Bijection, Injection, Surjection, IsInjective
  <2> QED BY <2>2 DEF ExistsBijection
<1> QED BY <1>1, <1>4, FS_CountingElements

LEMMA ImportInit == Init => ImportInv
<1> SUFFICES ASSUME Init PROVE ImportInv
  OBVIOUS
<1>1. Cardinality({}) = 0
  BY FS_EmptySet
<1>2. file \in [1 .. FileSize -> Named \cup {0}]
  BY DEF Init
<1> QED BY <1>1, <1>2 DEF Init, ImportInv, ImportedOnce

LEMMA ImportStep == ImportInv /\ [Next]_vars => ImportInv'
<1> SUFFICES ASSUME ImportInv, [Next]_vars PROVE ImportInv'
  OBVIOUS
<1>1. CASE UNCHANGED <<file, jobVars>>
  BY <1>1 DEF ImportInv, ImportedOnce, jobVars
<1>2. CASE CreateJob
  <2>1. imported = {} /\ imported' = imported /\ file' = file
        /\ job = "none" /\ job' = "validated"
    BY <1>2 DEF CreateJob, ImportInv
  <2> QED BY <2>1 DEF ImportInv, ImportedOnce
<1>3. ASSUME NEW c \in Caller, ConfirmTx(c) PROVE ImportInv'
  <2>1. PICK rows \in Fresh :
          imported' = imported \cup {rows[k] : k \in DOMAIN rows}
    BY <1>3 DEF ConfirmTx
  <2>2. imported = {} /\ job' = "applied" /\ file' = file
    BY <1>3 DEF ConfirmTx, Claimed, End, ImportInv
  <2>3. imported' = {rows[k] : k \in DOMAIN rows}
    BY <2>1, <2>2
  <2>4. Cardinality(imported') = FileSize
    BY <2>3, RowsAreDistinct
  <2> QED BY <2>2, <2>4 DEF ImportInv, ImportedOnce
<1>4. Next => \/ UNCHANGED <<file, jobVars>>
              \/ CreateJob
              \/ \E c \in Caller : ConfirmTx(c)
  BY DEF Next, CreateItem, UpdateItem, SetVisited, Read, End, Write, MoveRead,
         MoveWrite, ReorderRead, ReorderWrite, DeleteRead, DeleteWrite,
         ConfirmRead, ConfirmFails, jobVars
<1>5. UNCHANGED vars => UNCHANGED <<file, jobVars>>
  BY DEF vars
<1> QED BY <1>1, <1>2, <1>3, <1>4, <1>5

(* confirmImportJob: the conditional claim and the rows are one transaction,
   so a job inserts all its rows once or none of them, whatever confirms and
   other edits of the list overlap.                                         *)
THEOREM ImportOnce == Spec => []ImportedOnce
<1>1. ImportInv => ImportedOnce
  BY DEF ImportInv
<1> QED BY ImportInit, ImportStep, <1>1, PTL DEF Spec
-----------------------------------------------------------------------------
(* Rows written one after the other.                                       *)

Rows == [item : Item, pos : Nat \ {0}]
Positions == [Item -> Nat]
Start == [seq |-> seq, err |-> "ok"]

\* A set of numbers that is not empty has a least one.
LEMMA Least ==
    ASSUME NEW S \in SUBSET Nat, S # {}
    PROVE  \E n \in S : \A m \in S : n <= m
<1>1. \E n \in S : \A m \in S : <<m, n>> \notin OpToRel(<, Nat)
  BY NatLessThanWellFounded, WFMin
<1>2. \A m, n \in S : <<m, n>> \notin OpToRel(<, Nat) => n <= m
  BY DEF OpToRel
<1> QED BY <1>1, <1>2

\* The recursion has a solution, which is what `Updated` then is.
LEMMA UpdatedSteps ==
    ASSUME NEW rows, Len(rows) \in Nat
    PROVE  /\ Updated(rows)[0] = Start
           /\ \A k \in 1 .. Len(rows) :
                 Updated(rows)[k] = UpdateRow(Updated(rows)[k - 1], rows[k])
<1> DEFINE Solves(g, n) ==
             g = [k \in 0 .. n |-> IF k = 0 THEN Start ELSE UpdateRow(g[k - 1], rows[k])]
           Unsolved == {n \in Nat : ~\E g : Solves(g, n)}
<1>1. Unsolved = {}
  <2> SUFFICES ASSUME Unsolved # {} PROVE FALSE
    OBVIOUS
  <2>1. PICK n \in Unsolved : \A m \in Unsolved : n <= m
    BY Least
  <2>2. n # 0
    <3> DEFINE g == [k \in 0 .. 0 |-> Start]
    <3>1. Solves(g, 0)
      OBVIOUS
    <3> QED BY <2>1, <3>1
  <2>3. PICK g : Solves(g, n - 1)
    <3>1. n - 1 \in Nat /\ ~(n <= n - 1)
      BY <2>1, <2>2
    <3>2. n - 1 \notin Unsolved
      BY <2>1, <3>1
    <3> QED BY <3>1, <3>2
  <2> DEFINE h == [k \in 0 .. n |-> IF k = n THEN UpdateRow(g[n - 1], rows[n]) ELSE g[k]]
  <2>4. Solves(h, n)
    <3>1. DOMAIN g = 0 .. n - 1
      BY <2>3
    <3>2. ASSUME NEW k \in 0 .. n
          PROVE  h[k] = IF k = 0 THEN Start ELSE UpdateRow(h[k - 1], rows[k])
      BY <2>1, <2>2, <2>3
    <3> QED BY <3>2
  <2> QED BY <2>1, <2>4
<1>2. PICK g : Solves(g, Len(rows))
  BY <1>1
<1>3. Solves(Updated(rows), Len(rows))
  BY <1>2 DEF Updated, Start
<1> QED BY <1>3


\* Induction, for a claim about each of 0 .. N: what fails it starts nowhere.
LEMMA NoFirst ==
    ASSUME NEW N \in Nat, NEW S \in SUBSET (0 .. N), 0 \notin S,
           \A k \in 1 .. N : k \in S => k - 1 \in S
    PROVE  S = {}
<1> SUFFICES ASSUME S # {} PROVE FALSE
  OBVIOUS
<1>1. PICK n \in S : \A m \in S : n <= m
  BY Least
<1>2. n \in 1 .. N /\ n - 1 \in S /\ ~(n <= n - 1)
  <2>1. n \in 0 .. N /\ n # 0
    BY <1>1
  <2>2. n \in 1 .. N
    BY <2>1
  <2> QED BY <1>1, <2>2
<1> QED BY <1>1, <1>2

\* No two stops on one position: the unique index.
Unique(s) == \A i, j \in Item : s[i] = s[j] /\ s[i] > 0 => i = j

Outcomes == [seq : Positions, err : {"ok", "missing", "taken"}]

\* A row moves one stop to a position nobody has, or fails.
LEMMA RowMoves ==
    ASSUME NEW a \in Outcomes, NEW row \in Rows, NEW b, b = UpdateRow(a, row)
    PROVE  /\ b \in Outcomes
           /\ Live(b.seq) = Live(a.seq)
           /\ Unique(a.seq) => Unique(b.seq)
           /\ b.err = "ok" => /\ a.err = "ok"
                              /\ b.seq = [a.seq EXCEPT ![row.item] = row.pos]
           /\ a.err = "ok" /\ a.seq[row.item] > 0
              /\ (\A j \in Item \ {row.item} : a.seq[j] # row.pos) => b.err = "ok"
<1>1. /\ a.seq \in [Item -> Nat] /\ a.err \in {"ok", "missing", "taken"}
      /\ a = [seq |-> a.seq, err |-> a.err]
      /\ row.item \in Item /\ row.pos \in Nat /\ row.pos > 0
  BY DEF Outcomes, Positions, Rows
<1>2. CASE a.err # "ok"
  BY <1>1, <1>2 DEF UpdateRow
<1>3. CASE a.err = "ok" /\ a.seq[row.item] = 0
  <2>1. b = [a EXCEPT !.err = "missing"]
    BY <1>3 DEF UpdateRow
  <2>2. b.seq = a.seq /\ b.err = "missing" /\ b \in Outcomes
    BY <1>1, <2>1 DEF Outcomes, Positions
  <2> QED BY <1>3, <2>2
<1>4. CASE /\ a.err = "ok" /\ a.seq[row.item] # 0
           /\ \E j \in Item \ {row.item} : a.seq[j] = row.pos
  <2>1. b = [a EXCEPT !.err = "taken"]
    BY <1>4 DEF UpdateRow
  <2>2. b.seq = a.seq /\ b.err = "taken" /\ b \in Outcomes
    BY <1>1, <2>1 DEF Outcomes, Positions
  <2> QED BY <1>4, <2>2
<1>5. CASE /\ a.err = "ok" /\ a.seq[row.item] # 0
           /\ ~\E j \in Item \ {row.item} : a.seq[j] = row.pos
  <2>1. b = [a EXCEPT !.seq[row.item] = row.pos]
    BY <1>5 DEF UpdateRow
  <2>2. /\ b.seq = [a.seq EXCEPT ![row.item] = row.pos] /\ b.err = "ok"
        /\ b \in Outcomes
    BY <1>1, <1>5, <2>1 DEF Outcomes, Positions
  <2>3. Live(b.seq) = Live(a.seq)
    BY <1>1, <1>5, <2>2 DEF Live
  <2>4. Unique(a.seq) => Unique(b.seq)
    BY <1>1, <1>5, <2>2 DEF Unique
  <2> QED BY <1>5, <2>2, <2>3, <2>4
<1> QED BY <1>1, <1>2, <1>3, <1>4, <1>5

LEMMA RowFits ==
    ASSUME NEW a \in Outcomes, a.err = "ok", NEW i \in Item, NEW p \in Nat \ {0},
           a.seq[i] > 0, \A j \in Item \ {i} : a.seq[j] # p,
           NEW row, row = Row(i, p), NEW b, b = UpdateRow(a, row)
    PROVE  /\ b \in Outcomes /\ b.err = "ok" /\ Live(b.seq) = Live(a.seq)
           /\ b.seq = [a.seq EXCEPT ![i] = p]
<1>1. row.item = i /\ row.pos = p
  BY DEF Row
<1>2. a.seq \in [Item -> Nat] /\ a = [seq |-> a.seq, err |-> "ok"]
  BY DEF Outcomes, Positions
<1>3. b = [a EXCEPT !.seq[i] = p]
  BY <1>1 DEF UpdateRow
<1>4. b.seq = [a.seq EXCEPT ![i] = p] /\ b.err = "ok" /\ b \in Outcomes
  BY <1>2, <1>3 DEF Outcomes, Positions
<1>5. Live(b.seq) = Live(a.seq)
  BY <1>2, <1>4 DEF Live
<1> QED BY <1>4, <1>5

\* So do all of them.
LEMMA UpdateKeeps ==
    ASSUME seq \in Positions, NEW rows \in Seq(Rows)
    PROVE  \A k \in 0 .. Len(rows) :
              /\ Updated(rows)[k] \in Outcomes
              /\ Live(Updated(rows)[k].seq) = Live(seq)
              /\ Unique(seq) => Unique(Updated(rows)[k].seq)
<1> DEFINE Kept(k) == /\ Updated(rows)[k] \in Outcomes
                      /\ Live(Updated(rows)[k].seq) = Live(seq)
                      /\ Unique(seq) => Unique(Updated(rows)[k].seq)
           Bad == {k \in 0 .. Len(rows) : ~Kept(k)}
<1>1. Len(rows) \in Nat /\ \A k \in 1 .. Len(rows) : rows[k] \in Rows
  OBVIOUS
<1>2. Kept(0)
  <2>1. Updated(rows)[0] = Start
    BY <1>1, UpdatedSteps
  <2>2. Start \in Outcomes /\ Start.seq = seq
    BY DEF Start, Outcomes
  <2> QED BY <2>1, <2>2
<1>3. ASSUME NEW k \in 1 .. Len(rows), Kept(k - 1)
      PROVE  Kept(k)
  <2>1. Updated(rows)[k] = UpdateRow(Updated(rows)[k - 1], rows[k])
    BY <1>1, UpdatedSteps
  <2> DEFINE x == Updated(rows)[k - 1]
             y == Updated(rows)[k]
  <2>2. x \in Outcomes /\ rows[k] \in Rows /\ y = UpdateRow(x, rows[k])
    BY <1>1, <1>3, <2>1
  <2> HIDE DEF x, y
  <2>3. y \in Outcomes /\ Live(y.seq) = Live(x.seq) /\ (Unique(x.seq) => Unique(y.seq))
    BY <2>2, RowMoves
  <2> QED BY <1>3, <2>3 DEF x, y
<1>4. Bad = {}
  <2>1. 0 \notin Bad
    BY <1>2
  <2>2. \A k \in 1 .. Len(rows) : k \in Bad => k - 1 \in Bad
    BY <1>1, <1>3
  <2> HIDE DEF Bad
  <2>3. Bad \in SUBSET (0 .. Len(rows))
    BY DEF Bad
  <2> QED BY <1>1, <2>1, <2>2, <2>3, NoFirst
<1> QED BY <1>4

\* A bound on the positions, and then the highest.
LEMMA HighestIs ==
    ASSUME NEW s \in Positions, Item # {}
    PROVE  /\ Highest(s) \in Nat /\ \A i \in Item : s[i] <= Highest(s)
           /\ \E i \in Item : s[i] = Highest(s)
<1> DEFINE Bounded(T) == \E m \in Nat : \A i \in T : s[i] <= m
           Loose == {T \in SUBSET Item : ~Bounded(T)}
<1>1. Loose = {}
  <2> SUFFICES ASSUME Loose # {} PROVE FALSE
    OBVIOUS
  <2>1. IsWellFoundedOn(StrictSubsetOrdering(Item), SUBSET Item)
    BY FS_StrictSubsetOrderingWellFounded, FS_FiniteSubsetsOfFinite, ItemAssumption
  <2>2. PICK T \in Loose : \A U \in Loose : <<U, T>> \notin StrictSubsetOrdering(Item)
    <3>1. Loose \subseteq SUBSET Item
      OBVIOUS
    <3> HIDE DEF Loose
    <3> QED BY <2>1, <3>1, WFMin
  <2>3. T # {}
    <3>1. Bounded({})
      <4>1. 0 \in Nat /\ \A i \in {} : s[i] <= 0
        OBVIOUS
      <4> QED BY <4>1
    <3> QED BY <2>2, <3>1
  <2>4. PICK x \in T : TRUE
    BY <2>3
  <2>5. Bounded(T \ {x})
    <3>1. <<T \ {x}, T>> \in StrictSubsetOrdering(Item)
      BY <2>2, <2>4 DEF StrictSubsetOrdering
    <3> QED BY <2>2, <3>1
  <2>6. PICK m \in Nat : \A i \in T \ {x} : s[i] <= m
    BY <2>5
  <2>7. \A i \in T : s[i] <= m + s[x] /\ m + s[x] \in Nat
    BY <2>2, <2>4, <2>6 DEF Positions
  <2> QED BY <2>2, <2>4, <2>7
<1>2. {m \in Nat : \A i \in Item : s[i] <= m} # {}
  BY <1>1
<1>3. PICK m \in {n \in Nat : \A i \in Item : s[i] <= n} :
           \A n \in {n \in Nat : \A i \in Item : s[i] <= n} : m <= n
  BY <1>2, Least
<1>4. m \in {s[i] : i \in Item}
  <2> SUFFICES ASSUME \A i \in Item : s[i] # m PROVE FALSE
    OBVIOUS
  <2>1. \A i \in Item : s[i] \in Nat /\ s[i] <= m /\ s[i] # m
    BY <1>3 DEF Positions
  <2>2. m # 0
    BY <2>1
  <2>3. m - 1 \in Nat /\ \A i \in Item : s[i] <= m - 1
    BY <1>3, <2>1, <2>2
  <2> QED BY <1>3, <2>3
<1>5. \E n \in {s[i] : i \in Item} : \A i \in Item : s[i] <= n
  BY <1>3, <1>4
<1>6. /\ Highest(s) \in {s[i] : i \in Item}
      /\ \A i \in Item : s[i] <= Highest(s)
  BY <1>5 DEF Highest
<1> QED BY <1>6 DEF Positions
-----------------------------------------------------------------------------
(* The types.                                                              *)

\* What a request in progress has read.
Requests ==
    \A c \in Caller :
        /\ pc[c] = "move" =>
              \E i, j \in Item : /\ i # j /\ want[c] = <<i, j>>
                                 /\ snap[c][i] > 0 /\ snap[c][j] > 0
        /\ pc[c] = "reorder" => want[c] \in SetToSeqs(Live(snap[c])) /\ Item # {}
        /\ pc[c] = "delete" => \E i \in Item : want[c] = <<i>>

Types == TypeOK /\ Requests

LEMMA FewStops == \A s : Cardinality(Live(s)) \in Nat
<1> TAKE s
<1>1. Live(s) \subseteq Item
  BY DEF Live
<1> QED BY <1>1, ItemAssumption, FS_Subset, FS_CardinalityType

LEMMA Enumerations ==
    ASSUME NEW s, NEW l \in SetToSeqs(Live(s))
    PROVE  /\ Len(l) = Cardinality(Live(s)) /\ Len(l) \in Nat
           /\ l \in Seq(Item) /\ l \in Seq(Live(s))
           /\ \A j, k \in 1 .. Len(l) : l[j] = l[k] => j = k
           /\ \A i \in Live(s) : \E k \in 1 .. Len(l) : l[k] = i
<1>1. Cardinality(Live(s)) \in Nat
  BY FewStops
<1>2. l \in [1 .. Cardinality(Live(s)) -> Live(s)]
  BY DEF SetToSeqs
<1>3. l \in [1 .. Cardinality(Live(s)) -> Item]
  BY <1>2 DEF Live
<1>4. l \in Seq(Item) /\ l \in Seq(Live(s))
  BY <1>1, <1>2, <1>3, SeqDef
<1>5. Len(l) = Cardinality(Live(s))
  BY <1>1, <1>2, <1>4
<1>6. \A j, k \in 1 .. Len(l) : l[j] = l[k] => j = k
  BY <1>5 DEF SetToSeqs
<1>7. l \in Surjection(1 .. Cardinality(Live(s)), Live(s))
  <2>1. l \in Injection(1 .. Cardinality(Live(s)), Live(s))
    BY <1>2, <1>5, <1>6 DEF Injection, IsInjective
  <2>2. IsFiniteSet(Live(s))
    <3>1. Live(s) \subseteq Item
      BY DEF Live
    <3> QED BY <3>1, ItemAssumption, FS_Subset
  <2>3. Cardinality(1 .. Cardinality(Live(s))) = Cardinality(Live(s))
    BY <1>1, FS_Interval
  <2> QED BY <2>1, <2>2, <2>3, FS_Injection
<1> QED BY <1>1, <1>4, <1>5, <1>6, <1>7 DEF Surjection

\* The rows of a move and of a reorder name stops and free positions.
LEMMA MoveRowsType ==
    ASSUME NEW s \in Positions, NEW i \in Item, NEW j \in Item, s[i] > 0, s[j] > 0
    PROVE  MoveRows(s, i, j) \in Seq(Rows)
<1>1. Highest(s) + 1 \in Nat \ {0} /\ s[i] \in Nat \ {0} /\ s[j] \in Nat \ {0}
  BY HighestIs DEF Positions
<1>2. Row(i, Highest(s) + 1) \in Rows /\ Row(j, s[i]) \in Rows /\ Row(i, s[j]) \in Rows
  BY <1>1 DEF Row, Rows
<1> QED BY <1>2 DEF MoveRows

LEMMA ReorderRowsType ==
    ASSUME NEW s \in Positions, NEW l \in Seq(Item), Item # {}
    PROVE  /\ ReorderRows(s, l) \in Seq(Rows)
           /\ Len(ReorderRows(s, l)) = Len(l) + Len(l)
           /\ \A k \in 1 .. Len(l) :
                 /\ ReorderRows(s, l)[k] = Row(l[k], Highest(s) + k)
                 /\ ReorderRows(s, l)[Len(l) + k] = Row(l[k], k)
<1> DEFINE high == [k \in DOMAIN l |-> Row(l[k], Highest(s) + k)]
           low == [k \in DOMAIN l |-> Row(l[k], k)]
<1>1. Highest(s) \in Nat /\ Len(l) \in Nat /\ DOMAIN l = 1 .. Len(l)
  BY HighestIs
<1>2. \A k \in 1 .. Len(l) : Row(l[k], Highest(s) + k) \in Rows /\ Row(l[k], k) \in Rows
  BY <1>1 DEF Row, Rows
<1>3. high \in [1 .. Len(l) -> Rows] /\ low \in [1 .. Len(l) -> Rows]
  BY <1>1, <1>2
<1>4. high \in Seq(Rows) /\ low \in Seq(Rows)
  BY <1>1, <1>3, SeqDef
<1>5. Len(high) = Len(l) /\ Len(low) = Len(l)
  BY <1>1, <1>4
<1> HIDE DEF high, low
<1>6. /\ high \o low \in Seq(Rows) /\ Len(high \o low) = Len(l) + Len(l)
      /\ \A k \in 1 .. Len(l) : (high \o low)[k] = high[k]
                                /\ (high \o low)[Len(l) + k] = low[k]
  BY <1>1, <1>4, <1>5
<1> QED BY <1>1, <1>6 DEF ReorderRows, high, low

\* Writing the rows moves stops, and neither adds nor removes any.
LEMMA WriteTypes ==
    ASSUME Types, NEW c \in Caller, NEW rows \in Seq(Rows), Write(c, rows)
    PROVE  Types'
<1> DEFINE done == Update(rows)
<1>1. seq \in Positions
  BY DEF Types, TypeOK, Positions
<1>2. done \in Outcomes /\ Live(done.seq) = Live(seq)
  <2>1. Len(rows) \in 0 .. Len(rows)
    OBVIOUS
  <2> QED BY <1>1, <2>1, UpdateKeeps DEF Update
<1>3. /\ seq' \in [Item -> Nat] /\ Live(seq') = Live(seq)
      /\ done.err \in {"ok", "missing", "taken"}
  BY <1>1, <1>2 DEF Write, Outcomes, Positions
<1>4. /\ UNCHANGED <<born, visited, jobVars, kind, file>>
      /\ pc' = [pc EXCEPT ![c] = "idle"] /\ snap' = [snap EXCEPT ![c] = Nowhere]
      /\ want' = [want EXCEPT ![c] = <<>>] /\ answer' = done.err
  BY DEF Write, End
<1> HIDE DEF done
<1>5. TypeOK'
  BY <1>3, <1>4 DEF Types, TypeOK, Nowhere, jobVars, Live
<1>6. Requests'
  BY <1>4 DEF Types, TypeOK, Requests
<1> QED BY <1>5, <1>6 DEF Types

\* A request begins with what it reads.
LEMMA ReadTypes ==
    ASSUME Types, NEW c \in Caller, NEW op \in {"move", "reorder", "delete", "confirm"},
           NEW s \in Positions, NEW l \in Seq(Item), Read(c, op, s, l),
           op = "move" => \E i, j \in Item : /\ i # j /\ l = <<i, j>>
                                             /\ s[i] > 0 /\ s[j] > 0,
           op = "reorder" => l \in SetToSeqs(Live(s)) /\ Item # {},
           op = "delete" => \E i \in Item : l = <<i>>
    PROVE  Types'
<1>1. /\ pc' = [pc EXCEPT ![c] = op] /\ snap' = [snap EXCEPT ![c] = s]
      /\ want' = [want EXCEPT ![c] = l]
      /\ answer' = "none" /\ UNCHANGED <<kind, seq, born, visited, file, job, imported>>
  BY DEF Read, listVars, jobVars
<1>2. TypeOK'
  BY <1>1 DEF Types, TypeOK, Positions, Live
<1>3. /\ \A d \in Caller \ {c} : pc'[d] = pc[d] /\ snap'[d] = snap[d] /\ want'[d] = want[d]
      /\ pc'[c] = op /\ snap'[c] = s /\ want'[c] = l
  BY <1>1 DEF Types, TypeOK
<1>4. Requests'
  BY <1>3 DEF Types, Requests
<1> QED BY <1>2, <1>4 DEF Types

LEMMA ReadersTypes ==
    ASSUME Types, NEW c \in Caller,
           \/ \E i, j \in Item : MoveRead(c, i, j)
           \/ \E order \in SetToSeqs(Live(seq)) : ReorderRead(c, order)
           \/ \E i \in Item : DeleteRead(c, i)
           \/ ConfirmRead(c)
    PROVE  Types'
<1>1. seq \in Positions /\ Nowhere \in Positions
  BY DEF Types, TypeOK, Positions, Nowhere
<1>2. ASSUME NEW i \in Item, NEW j \in Item, MoveRead(c, i, j)
      PROVE  Types'
  <2>1. <<i, j>> \in Seq(Item) /\ i # j /\ seq[i] > 0 /\ seq[j] > 0
    BY <1>2 DEF MoveRead, Neighbours, Live
  <2> QED BY <1>1, <1>2, <2>1, ReadTypes DEF MoveRead
<1>3. ASSUME NEW l \in SetToSeqs(Live(seq)), ReorderRead(c, l)
      PROVE  Types'
  <2>1. l \in Seq(Item) /\ Item # {}
    BY <1>3, Enumerations DEF ReorderRead, Live
  <2> QED BY <1>1, <1>3, <2>1, ReadTypes DEF ReorderRead
<1>4. ASSUME NEW i \in Item, DeleteRead(c, i)
      PROVE  Types'
  <2>1. <<i>> \in Seq(Item)
    OBVIOUS
  <2> QED BY <1>1, <1>4, <2>1, ReadTypes DEF DeleteRead
<1>5. CASE ConfirmRead(c)
  <2>1. <<>> \in Seq(Item)
    OBVIOUS
  <2> QED BY <1>1, <1>5, <2>1, ReadTypes DEF ConfirmRead
<1> QED BY <1>2, <1>3, <1>4, <1>5

LEMMA WritersTypes ==
    ASSUME Types, NEW c \in Caller, MoveWrite(c) \/ ReorderWrite(c)
    PROVE  Types'
<1>1. snap[c] \in Positions
  BY DEF Types, TypeOK, Positions
<1>2. CASE MoveWrite(c)
  <2>1. PICK i, j \in Item : want[c] = <<i, j>> /\ snap[c][i] > 0 /\ snap[c][j] > 0
    BY <1>2 DEF MoveWrite, Types, Requests
  <2> QED BY <1>1, <1>2, <2>1, MoveRowsType, WriteTypes DEF MoveWrite
<1>3. CASE ReorderWrite(c)
  <2>1. want[c] \in Seq(Item) /\ Item # {}
    BY <1>3, Enumerations DEF ReorderWrite, Types, Requests
  <2> QED BY <1>1, <1>3, <2>1, ReorderRowsType, WriteTypes DEF ReorderWrite
<1> QED BY <1>2, <1>3

\* The steps that end a request otherwise.
LEMMA EndTypes ==
    ASSUME Types, NEW c \in Caller, DeleteWrite(c) \/ ConfirmTx(c) \/ ConfirmFails(c)
    PROVE  Types'
<1>1. /\ pc' = [pc EXCEPT ![c] = "idle"] /\ snap' = [snap EXCEPT ![c] = Nowhere]
      /\ want' = [want EXCEPT ![c] = <<>>] /\ UNCHANGED <<kind, file>>
      /\ answer' \in {"ok", "missing", "taken", "applied"}
  BY DEF DeleteWrite, ConfirmTx, ConfirmFails, End
<1>2. Requests'
  BY <1>1 DEF Types, TypeOK, Requests
<1>3. /\ pc' \in [Caller -> {"idle", "move", "reorder", "delete", "confirm"}]
      /\ snap' \in [Caller -> [Item -> Nat]] /\ want' \in [Caller -> Seq(Item)]
      /\ answer' \in {"none", "ok", "taken", "missing", "applied"}
  BY <1>1 DEF Types, TypeOK, Nowhere
<1>4. CASE DeleteWrite(c)
  <2>1. PICK i \in Item : want[c] = <<i>>
    BY <1>4 DEF DeleteWrite, Types, Requests
  <2>2. /\ seq' = [seq EXCEPT ![i] = 0] /\ visited' = visited \ {i}
        /\ UNCHANGED <<born, job, imported>>
    BY <1>4, <2>1 DEF DeleteWrite, jobVars
  <2>3. /\ seq' \in [Item -> Nat] /\ visited' \subseteq Live(seq')
        /\ Live(seq') \subseteq born'
    BY <2>2 DEF Types, TypeOK, Live
  <2>4. TypeOK'
    BY <1>1, <1>3, <2>2, <2>3 DEF Types, TypeOK, Live
  <2> QED BY <1>2, <2>4 DEF Types
<1>5. CASE ConfirmTx(c)
  <2>1. PICK rows \in Fresh :
          /\ seq' = [i \in Item |->
                      IF \E k \in DOMAIN rows : rows[k] = i
                      THEN Position(seq, CHOOSE k \in DOMAIN rows : rows[k] = i)
                      ELSE seq[i]]
          /\ born' = born \cup {rows[k] : k \in DOMAIN rows}
          /\ imported' = imported \cup {rows[k] : k \in DOMAIN rows}
    BY <1>5 DEF ConfirmTx
  <2>2. visited' = visited /\ job' = "applied"
    BY <1>5 DEF ConfirmTx
  <2>3. \A k \in 1 .. FileSize : Position(seq, k) \in Nat /\ Position(seq, k) > 0
    <3>1. file \in [1 .. FileSize -> Named \cup {0}] /\ Cardinality(Live(seq)) \in Nat
      BY FewStops DEF Types, TypeOK
    <3> SUFFICES ASSUME NEW k \in 1 .. FileSize
                 PROVE  Position(seq, k) \in Nat /\ Position(seq, k) > 0
      OBVIOUS
    <3>2. k \in Nat /\ k > 0
      BY SizeAssumption
    <3>3. CASE file[k] = 0
      BY <3>1, <3>2, <3>3 DEF Position
    <3>4. CASE file[k] # 0
      <4>1. file[k] \in Nat \ {0}
        BY <3>1, <3>4, SizeAssumption
      <4> QED BY <3>4, <4>1 DEF Position
    <3> QED BY <3>3, <3>4
  <2>4. rows \in [1 .. FileSize -> Item \ born]
    BY DEF Fresh
  <2>5. \A i \in Item : /\ seq'[i] \in Nat
                        /\ seq[i] > 0 => seq'[i] > 0
                        /\ seq'[i] > 0 => i \in born'
    <3> SUFFICES ASSUME NEW i \in Item
                 PROVE  /\ seq'[i] \in Nat /\ (seq[i] > 0 => seq'[i] > 0)
                        /\ (seq'[i] > 0 => i \in born')
      OBVIOUS
    <3>1. CASE \E k \in DOMAIN rows : rows[k] = i
      <4>1. (CHOOSE k \in DOMAIN rows : rows[k] = i) \in 1 .. FileSize
        BY <2>4, <3>1
      <4> QED BY <2>1, <2>3, <3>1, <4>1
    <3>2. CASE ~\E k \in DOMAIN rows : rows[k] = i
      BY <2>1, <3>2 DEF Types, TypeOK, Live
    <3> QED BY <3>1, <3>2
  <2>6. /\ seq' \in [Item -> Nat] /\ visited' \subseteq Live(seq')
        /\ Live(seq') \subseteq born' /\ born' \subseteq Item /\ imported' \subseteq born'
    BY <2>1, <2>2, <2>4, <2>5 DEF Types, TypeOK, Live
  <2>7. TypeOK'
    BY <1>1, <1>3, <2>2, <2>6 DEF Types, TypeOK, Live
  <2> QED BY <1>2, <2>7 DEF Types
<1>6. CASE ConfirmFails(c)
  <2>1. TypeOK'
    BY <1>1, <1>3, <1>6 DEF ConfirmFails, Types, TypeOK, listVars, jobVars, Live
  <2> QED BY <1>2, <2>1 DEF Types
<1> QED BY <1>4, <1>5, <1>6

\* The steps that are no request's.
LEMMA OtherTypes ==
    ASSUME Types,
           \/ \E i \in Item, p \in 1 .. MaxSeq : CreateItem(i, p) \/ UpdateItem(i, p)
           \/ \E i \in Item, yes \in BOOLEAN : SetVisited(i, yes)
           \/ CreateJob
           \/ UNCHANGED vars
    PROVE  Types'
<1>1. UNCHANGED <<kind, file, reqVars>>
  BY DEF CreateItem, UpdateItem, SetVisited, CreateJob, vars
<1>2. Requests'
  BY <1>1 DEF Types, Requests, reqVars
<1>3. \A p \in 1 .. MaxSeq : p \in Nat /\ p > 0
  BY SizeAssumption
<1>4. ASSUME NEW i \in Item, NEW p \in 1 .. MaxSeq, CreateItem(i, p)
      PROVE  TypeOK'
  BY <1>1, <1>3, <1>4 DEF CreateItem, Types, TypeOK, Live, jobVars, reqVars
<1>5. ASSUME NEW i \in Item, NEW p \in 1 .. MaxSeq, UpdateItem(i, p)
      PROVE  TypeOK'
  BY <1>1, <1>3, <1>5 DEF UpdateItem, Types, TypeOK, Live, jobVars, reqVars
<1>6. ASSUME NEW i \in Item, NEW yes \in BOOLEAN, SetVisited(i, yes)
      PROVE  TypeOK'
  BY <1>1, <1>6 DEF SetVisited, Types, TypeOK, Live, jobVars, reqVars
<1>7. CASE CreateJob \/ UNCHANGED vars
  <2>1. /\ UNCHANGED <<seq, born, visited, imported, pc, snap, want>>
        /\ job' \in {job, "validated"} /\ answer' \in {answer, "none"}
    BY <1>1, <1>7 DEF CreateJob, vars, listVars, jobVars, reqVars
  <2>2. Live(seq') = Live(seq)
    BY <2>1 DEF Live
  <2>3. job' \in {"none", "validated", "applied"}
        /\ answer' \in {"none", "ok", "taken", "missing", "applied"}
    BY <2>1 DEF Types, TypeOK
  <2> QED BY <1>1, <1>2, <2>1, <2>2, <2>3 DEF Types, TypeOK, reqVars
<1> QED BY <1>2, <1>4, <1>5, <1>6, <1>7 DEF Types

LEMMA InitTypes == Init => Types
<1> SUFFICES ASSUME Init PROVE Types
  OBVIOUS
<1>1. <<>> \in Seq(Item)
  OBVIOUS
<1> QED BY <1>1 DEF Init, Types, TypeOK, Requests, Live, Nowhere

LEMMA StepTypes == Types /\ [Next]_vars => Types'
  BY OtherTypes, ReadersTypes, WritersTypes, EndTypes DEF Next

\* However requests overlap, what one writes is a list: the rows of a move or a
\* reorder only move stops, an import's rows get positions of their own, and a
\* visit belongs to a stop that is there.
THEOREM TypesAlways == Spec => []TypeOK
<1>1. Types => TypeOK
  BY DEF Types
<1> QED BY <1>1, InitTypes, StepTypes, PTL DEF Spec
-----------------------------------------------------------------------------
(* No two stops on one position.                                           *)

Inv == Types /\ Unique(seq)

LEMMA InitInv == Init => Inv
<1> SUFFICES ASSUME Init PROVE Unique(seq)
  BY InitTypes DEF Inv
<1> QED BY DEF Init, Nowhere, Unique

LEMMA StepUnique ==
    ASSUME Inv, [Next]_vars
    PROVE  Unique(seq)'
<1>1. seq \in Positions
  BY DEF Inv, Types, TypeOK, Positions
<1>2. CASE UNCHANGED seq
  BY <1>2 DEF Inv, Unique
<1>3. ASSUME NEW i \in Item, NEW p \in 1 .. MaxSeq, CreateItem(i, p) \/ UpdateItem(i, p)
      PROVE  Unique(seq)'
  BY <1>1, <1>3 DEF Inv, Unique, CreateItem, UpdateItem, Positions
<1>4. ASSUME NEW c \in Caller, NEW rows \in Seq(Rows), Write(c, rows)
      PROVE  Unique(seq)'
  <2>1. Unique(Update(rows).seq)
    <3>1. Len(rows) \in 0 .. Len(rows)
      OBVIOUS
    <3> QED BY <1>1, <3>1, UpdateKeeps DEF Inv, Update
  <2>2. seq' = Update(rows).seq \/ seq' = seq
    BY <1>4 DEF Write
  <2> QED BY <2>1, <2>2 DEF Inv, Unique
<1>5. ASSUME NEW c \in Caller, MoveWrite(c) \/ ReorderWrite(c)
      PROVE  Unique(seq)'
  <2>1. snap[c] \in Positions
    BY DEF Inv, Types, TypeOK, Positions
  <2>2. CASE MoveWrite(c)
    <3>1. PICK i, j \in Item : want[c] = <<i, j>> /\ snap[c][i] > 0 /\ snap[c][j] > 0
      BY <2>2 DEF MoveWrite, Inv, Types, Requests
    <3> QED BY <2>1, <2>2, <3>1, <1>4, MoveRowsType DEF MoveWrite
  <2>3. CASE ReorderWrite(c)
    <3>1. want[c] \in Seq(Item) /\ Item # {}
      BY <2>3, Enumerations DEF ReorderWrite, Inv, Types, Requests
    <3> QED BY <2>1, <2>3, <3>1, <1>4, ReorderRowsType DEF ReorderWrite
  <2> QED BY <1>5, <2>2, <2>3
<1>6. ASSUME NEW c \in Caller, DeleteWrite(c)
      PROVE  Unique(seq)'
  BY <1>1, <1>6 DEF Inv, Unique, DeleteWrite, Positions
<1>7. ASSUME NEW c \in Caller, ConfirmTx(c)
      PROVE  Unique(seq)'
  <2>1. PICK rows \in Fresh :
          seq' = [i \in Item |->
                      IF \E k \in DOMAIN rows : rows[k] = i
                      THEN Position(seq, CHOOSE k \in DOMAIN rows : rows[k] = i)
                      ELSE seq[i]]
    BY <1>7 DEF ConfirmTx
  <2> DEFINE At(i) == CHOOSE k \in DOMAIN rows : rows[k] = i
             Mine == {rows[k] : k \in DOMAIN rows}
  <2>2. DOMAIN rows = DOMAIN file
    BY DEF Fresh, Inv, Types, TypeOK
  <2>3. \A i \in Mine : At(i) \in DOMAIN rows /\ rows[At(i)] = i
    OBVIOUS
  <2>4. \A i \in Item : seq'[i] = IF i \in Mine THEN Position(seq, At(i)) ELSE seq[i]
    BY <2>1
  <2> HIDE DEF At, Mine
  <2>5. Fits(seq)
    BY <1>7 DEF ConfirmTx
  <2>6. ASSUME NEW i \in Item, NEW j \in Item, seq'[i] = seq'[j], seq'[i] > 0
        PROVE  i = j
    <3>1. CASE i \in Mine /\ j \in Mine
      BY <2>2, <2>3, <2>4, <2>5, <2>6, <3>1 DEF Fits
    <3>2. CASE i \notin Mine /\ j \notin Mine
      BY <2>4, <2>6, <3>2 DEF Inv, Unique
    <3>3. CASE i \in Mine /\ j \notin Mine
      BY <2>2, <2>3, <2>4, <2>5, <2>6, <3>3 DEF Fits
    <3>4. CASE i \notin Mine /\ j \in Mine
      BY <2>2, <2>3, <2>4, <2>5, <2>6, <3>4 DEF Fits
    <3> QED BY <3>1, <3>2, <3>3, <3>4
  <2> QED BY <2>6 DEF Unique
<1>8. [Next]_vars =>
         \/ UNCHANGED seq
         \/ \E i \in Item, p \in 1 .. MaxSeq : CreateItem(i, p) \/ UpdateItem(i, p)
         \/ \E c \in Caller : \/ MoveWrite(c) \/ ReorderWrite(c) \/ DeleteWrite(c)
                              \/ ConfirmTx(c)
  BY DEF Next, SetVisited, CreateJob, MoveRead, ReorderRead, DeleteRead, ConfirmRead,
     Read, ConfirmFails, listVars, vars
<1> QED BY <1>2, <1>3, <1>5, <1>6, <1>7, <1>8

LEMMA InvAlways == Spec => []Inv
<1>1. Inv /\ [Next]_vars => Inv'
  <2> SUFFICES ASSUME Inv, [Next]_vars PROVE Inv'
    OBVIOUS
  <2> QED BY StepTypes, StepUnique DEF Inv
<1> QED BY <1>1, InitInv, PTL DEF Spec

-----------------------------------------------------------------------------
(* What the rows of a move and of a reorder come to.                       *)

\* A move on the list it read exchanges the two positions.
LEMMA MoveComesTo ==
    ASSUME seq \in Positions, Unique(seq), NEW i \in Item, NEW j \in Item, i # j,
           seq[i] > 0, seq[j] > 0
    PROVE  /\ Update(MoveRows(seq, i, j)).err = "ok"
           /\ Update(MoveRows(seq, i, j)).seq = [seq EXCEPT ![i] = seq[j], ![j] = seq[i]]
<1> DEFINE rows == MoveRows(seq, i, j)
           high == Highest(seq) + 1
<1>1. rows \in Seq(Rows) /\ Len(rows) = 3
      /\ rows[1] = Row(i, high) /\ rows[2] = Row(j, seq[i]) /\ rows[3] = Row(i, seq[j])
  BY MoveRowsType DEF MoveRows
<1>2. high \in Nat /\ \A k \in Item : seq[k] \in Nat /\ seq[k] < high
  BY HighestIs DEF Positions
<1> HIDE DEF rows, high
<1> DEFINE a == Updated(rows)[0]
           b == Updated(rows)[1]
           c == Updated(rows)[2]
           d == Updated(rows)[3]
<1>3. /\ a = Start /\ b = UpdateRow(a, rows[1]) /\ c = UpdateRow(b, rows[2])
      /\ d = UpdateRow(c, rows[3])
  <2>1. /\ Updated(rows)[0] = Start
        /\ \A k \in 1 .. Len(rows) :
              Updated(rows)[k] = UpdateRow(Updated(rows)[k - 1], rows[k])
    <3>1. Len(rows) \in Nat
      BY <1>1
    <3> QED BY <3>1, UpdatedSteps
  <2>2. 1 \in 1 .. 3 /\ 2 \in 1 .. 3 /\ 3 \in 1 .. 3 /\ 1 - 1 = 0 /\ 2 - 1 = 1 /\ 3 - 1 = 2
    OBVIOUS
  <2> QED BY <1>1, <2>1, <2>2
<1>4. Update(rows) = d
  BY <1>1 DEF Update
<1> HIDE DEF a, b, c, d
<1>5. a \in Outcomes /\ a.seq = seq /\ a.err = "ok"
  BY <1>3 DEF Start, Outcomes
<1>6. b \in Outcomes /\ b.err = "ok" /\ b.seq = [seq EXCEPT ![i] = high]
  <2>1. a.seq[i] > 0 /\ \A k \in Item \ {i} : a.seq[k] # high
    BY <1>2, <1>5
  <2>2. high \in Nat \ {0}
    BY <1>2
  <2> QED BY <1>1, <1>3, <1>5, <2>1, <2>2, RowFits
<1>7. c \in Outcomes /\ c.err = "ok" /\ c.seq = [b.seq EXCEPT ![j] = seq[i]]
  <2>1. b.seq[j] > 0
    BY <1>6 DEF Positions
  <2>2. \A k \in Item \ {j} : b.seq[k] # seq[i]
    BY <1>2, <1>6 DEF Positions, Unique
  <2>3. seq[i] \in Nat \ {0}
    BY <1>2
  <2>4. b \in Outcomes /\ b.err = "ok"
    BY <1>6
  <2> QED BY <1>1, <1>3, <2>1, <2>2, <2>3, <2>4, RowFits
<1>8. d \in Outcomes /\ d.err = "ok" /\ d.seq = [c.seq EXCEPT ![i] = seq[j]]
  <2>1. c.seq[i] > 0
    BY <1>2, <1>6, <1>7 DEF Positions
  <2>2. \A k \in Item \ {i} : c.seq[k] # seq[j]
    BY <1>2, <1>6, <1>7 DEF Positions, Unique
  <2>3. seq[j] \in Nat \ {0}
    BY <1>2
  <2>4. c \in Outcomes /\ c.err = "ok"
    BY <1>7
  <2> QED BY <1>1, <1>3, <2>1, <2>2, <2>3, <2>4, RowFits
<1>9. d.seq = [seq EXCEPT ![i] = seq[j], ![j] = seq[i]]
  BY <1>6, <1>7, <1>8 DEF Positions
<1> QED BY <1>4, <1>8, <1>9 DEF rows

\* A reorder on the list it read never meets a taken position.
LEMMA ReorderGoesThrough ==
    ASSUME seq \in Positions, Unique(seq), Item # {}, NEW l \in SetToSeqs(Live(seq)),
           \A i \in Live(seq) : \E m \in 1 .. Len(l) : l[m] = i
    PROVE  Update(ReorderRows(seq, l)).err = "ok"
<1> DEFINE rows == ReorderRows(seq, l)
           n == Len(l)
           H == Highest(seq)
           After(k) == Updated(rows)[k]
           \* Where the m-th of the order asked for is after k rows.
           Place(k, m) == IF m + n <= k THEN m ELSE IF m <= k THEN H + m ELSE seq[l[m]]
           Good(k) == /\ After(k) \in Outcomes /\ After(k).err = "ok"
                      /\ Live(After(k).seq) = Live(seq)
                      /\ \A m \in 1 .. n : After(k).seq[l[m]] = Place(k, m)
           Bad == {k \in 0 .. n + n : ~Good(k)}
<1>1. /\ n \in Nat /\ l \in Seq(Item)
      /\ \A m \in 1 .. n : l[m] \in Live(seq) /\ l[m] \in Item
      /\ \A j, k \in 1 .. n : l[j] = l[k] => j = k
  BY Enumerations
<1>2. /\ rows \in Seq(Rows) /\ Len(rows) = n + n
      /\ \A k \in 1 .. n : rows[k] = Row(l[k], H + k) /\ rows[n + k] = Row(l[k], k)
  BY <1>1, ReorderRowsType
<1>3. H \in Nat /\ \A i \in Item : seq[i] \in Nat /\ seq[i] <= H
  BY HighestIs DEF Positions
<1> HIDE DEF rows, n, H
<1>4. Good(0)
  <2>1. After(0) = Start
    BY <1>1, <1>2, UpdatedSteps
  <2>2. After(0) \in Outcomes /\ After(0).err = "ok" /\ After(0).seq = seq
    BY <2>1 DEF Start, Outcomes
  <2>3. \A m \in 1 .. n : Place(0, m) = seq[l[m]]
    BY <1>1
  <2> QED BY <2>2, <2>3
<1>5. ASSUME NEW k \in 1 .. n + n, Good(k - 1)
      PROVE  Good(k)
  <2> DEFINE a == After(k - 1)
             q == IF k <= n THEN k ELSE k - n
             p == IF k <= n THEN H + k ELSE k - n
  <2>1. q \in 1 .. n /\ p \in Nat /\ p > 0 /\ k \in Nat
    BY <1>1, <1>3
  <2>2. rows[k] = Row(l[q], p) /\ rows[k] \in Rows
    <3>1. CASE k <= n
      BY <1>1, <1>2, <3>1
    <3>2. CASE ~(k <= n)
      <4>1. q \in 1 .. n /\ k = n + q /\ p = q
        BY <1>1, <3>2
      <4>2. rows[n + q] = Row(l[q], q)
        BY <1>2, <4>1
      <4> QED BY <1>1, <1>2, <4>1, <4>2
    <3> QED BY <3>1, <3>2
  <2>3. After(k) = UpdateRow(a, rows[k])
    <3>1. \A j \in 1 .. n + n :
             Updated(rows)[j] = UpdateRow(Updated(rows)[j - 1], rows[j])
      BY <1>1, <1>2, UpdatedSteps
    <3> QED BY <3>1
  <2>4. \A m \in 1 .. n : m # q => Place(k - 1, m) # p /\ Place(k, m) = Place(k - 1, m)
    <3> SUFFICES ASSUME NEW m \in 1 .. n, m # q
                 PROVE  Place(k - 1, m) # p /\ Place(k, m) = Place(k - 1, m)
      OBVIOUS
    <3>1. l[m] \in Item /\ seq[l[m]] \in Nat /\ seq[l[m]] <= H
      BY <1>1, <1>3
    <3>2. CASE k <= n
      BY <1>1, <1>3, <3>1, <3>2
    <3>3. CASE ~(k <= n)
      BY <1>1, <1>3, <3>1, <3>3
    <3> QED BY <3>2, <3>3
  <2>5. Place(k, q) = p
    BY <1>1, <1>3
  <2> HIDE DEF q, p, Place
  <2>6. a \in Outcomes /\ a.err = "ok" /\ Live(a.seq) = Live(seq)
        /\ \A m \in 1 .. n : a.seq[l[m]] = Place(k - 1, m)
    BY <1>5
  <2> HIDE DEF a
  <2>7. rows[k].item = l[q] /\ rows[k].pos = p
    BY <2>2 DEF Row
  <2>8. l[q] \in Live(a.seq) /\ a.seq[l[q]] > 0
    BY <1>1, <2>1, <2>6 DEF Live
  <2>9. \A j \in Item \ {l[q]} : a.seq[j] # p
    <3> SUFFICES ASSUME NEW j \in Item \ {l[q]}, a.seq[j] = p PROVE FALSE
      OBVIOUS
    <3>1. j \in Live(a.seq)
      BY <2>1 DEF Live
    <3>2. PICK m \in 1 .. n : l[m] = j
      BY <2>6, <3>1 DEF n
    <3> QED BY <2>4, <2>6, <3>2
  <2> DEFINE b == After(k)
  <2> HIDE DEF b
  <2>10. b \in Outcomes /\ b.err = "ok" /\ Live(b.seq) = Live(a.seq)
         /\ b.seq = [a.seq EXCEPT ![l[q]] = p]
    <3> DEFINE row == rows[k]
    <3>1. a \in Outcomes /\ row \in Rows /\ b = UpdateRow(a, row)
      BY <2>2, <2>3, <2>6 DEF b
    <3>2. /\ a.err = "ok" /\ a.seq[row.item] > 0
          /\ \A j \in Item \ {row.item} : a.seq[j] # row.pos
      BY <2>6, <2>7, <2>8, <2>9
    <3>3. row.item = l[q] /\ row.pos = p
      BY <2>7
    <3> HIDE DEF row
    <3>4. b \in Outcomes /\ b.err = "ok" /\ Live(b.seq) = Live(a.seq)
          /\ b.seq = [a.seq EXCEPT ![row.item] = row.pos]
      BY <3>1, <3>2, RowMoves
    <3> QED BY <3>3, <3>4
  <2>11. \A m \in 1 .. n : b.seq[l[m]] = Place(k, m)
    <3> SUFFICES ASSUME NEW m \in 1 .. n PROVE b.seq[l[m]] = Place(k, m)
      OBVIOUS
    <3>1. a.seq \in [Item -> Nat]
      BY <2>6 DEF Outcomes, Positions
    <3>2. CASE m = q
      BY <1>1, <2>5, <2>10, <3>1, <3>2
    <3>3. CASE m # q
      BY <1>1, <2>1, <2>4, <2>6, <2>10, <3>1, <3>3
    <3> QED BY <3>2, <3>3
  <2> QED BY <2>6, <2>10, <2>11 DEF b
<1>6. Bad = {}
  <2>1. 0 \notin Bad
    BY <1>4
  <2>2. \A k \in 1 .. n + n : k \in Bad => k - 1 \in Bad
    <3> SUFFICES ASSUME NEW k \in 1 .. n + n, k \in Bad
                 PROVE  k - 1 \in Bad
      OBVIOUS
    <3>1. k - 1 \in 0 .. n + n
      BY <1>1
    <3>2. ~Good(k)
      OBVIOUS
    <3>3. Good(k - 1) => Good(k)
      BY <1>5
    <3> HIDE DEF Good
    <3> QED BY <3>1, <3>2, <3>3
  <2>3. Bad \in SUBSET (0 .. n + n)
    OBVIOUS
  <2> HIDE DEF Bad
  <2>4. n + n \in Nat
    BY <1>1
  <2> QED BY <2>1, <2>2, <2>3, <2>4, NoFirst
<1>7. Good(n + n)
  <2>1. n + n \in 0 .. n + n
    BY <1>1
  <2> HIDE DEF Good
  <2> QED BY <2>1, <1>6
<1> QED BY <1>2, <1>7 DEF Update, rows
-----------------------------------------------------------------------------
(* The order of the stops.                                                 *)

\* Some sequence lists them by position: add the last one to the others.
LEMMA SortedExists ==
    ASSUME NEW s \in Positions, Unique(s)
    PROVE  \E l \in SetToSeqs(Live(s)) : InOrder(l, s)
<1> DEFINE Sorted(T) == \E l \in SetToSeqs(T) : InOrder(l, s)
           Loose == {T \in SUBSET Item : T \subseteq Live(s) /\ ~Sorted(T)}
<1>1. Loose = {}
  <2> SUFFICES ASSUME Loose # {} PROVE FALSE
    OBVIOUS
  <2>1. IsWellFoundedOn(StrictSubsetOrdering(Item), SUBSET Item)
    BY FS_StrictSubsetOrderingWellFounded, FS_FiniteSubsetsOfFinite, ItemAssumption
  <2>2. PICK T \in Loose : \A U \in Loose : <<U, T>> \notin StrictSubsetOrdering(Item)
    <3>1. Loose \subseteq SUBSET Item
      OBVIOUS
    <3> HIDE DEF Loose
    <3> QED BY <2>1, <3>1, WFMin
  <2>3. T \subseteq Item /\ T \subseteq Live(s) /\ ~Sorted(T)
    BY <2>2
  <2>4. T # {}
    <3> SUFFICES ASSUME T = {} PROVE FALSE
      OBVIOUS
    <3>1. Cardinality({}) = 0 /\ 1 .. 0 = {}
      BY FS_EmptySet
    <3>2. <<>> \in SetToSeqs({})
      BY <3>1 DEF SetToSeqs
    <3>3. InOrder(<<>>, s)
      BY DEF InOrder
    <3> QED BY <2>3, <3>2, <3>3
  <2>5. \A i \in T : s[i] \in Nat /\ s[i] > 0
    BY <2>3 DEF Live, Positions
  <2>6. PICK x \in T : \A y \in T : s[y] <= s[x]
    <3> DEFINE r == [i \in Item |-> IF i \in T THEN s[i] ELSE 0]
    <3>1. r \in Positions /\ Item # {}
      BY <2>3, <2>4 DEF Positions
    <3>2. PICK x \in Item : r[x] = Highest(r)
      BY <3>1, HighestIs
    <3>3. \A y \in Item : r[y] <= r[x]
      BY <3>1, <3>2, HighestIs
    <3>4. PICK y \in T : TRUE
      BY <2>4
    <3>5. x \in T
      BY <2>3, <2>5, <3>3, <3>4
    <3> QED BY <2>3, <3>3, <3>5
  <2> DEFINE n == Cardinality(T)
  <2>7. /\ IsFiniteSet(T) /\ n \in Nat /\ Cardinality(T \ {x}) = n - 1
        /\ n - 1 \in Nat
    BY <2>3, ItemAssumption, FS_Subset, FS_RemoveElement, FS_CardinalityType
  <2>8. PICK l \in SetToSeqs(T \ {x}) : InOrder(l, s)
    <3>1. <<T \ {x}, T>> \in StrictSubsetOrdering(Item)
      BY <2>3 DEF StrictSubsetOrdering
    <3>2. T \ {x} \notin Loose
      BY <2>2, <3>1
    <3> QED BY <2>3, <3>2
  <2>9. /\ l \in [1 .. n - 1 -> T \ {x}]
        /\ \A j, k \in 1 .. n - 1 : j # k => l[j] # l[k]
    BY <2>7, <2>8 DEF SetToSeqs
  <2> HIDE DEF n
  <2> DEFINE m == [k \in 1 .. n |-> IF k = n THEN x ELSE l[k]]
  <2>10. m \in SetToSeqs(T)
    <3>1. m \in [1 .. n -> T]
      BY <2>7, <2>9
    <3>2. \A j, k \in 1 .. n : j # k => m[j] # m[k]
      BY <2>7, <2>9
    <3> QED BY <3>1, <3>2 DEF SetToSeqs, n
  <2>11. InOrder(m, s)
    <3> SUFFICES ASSUME NEW j \in 1 .. n, NEW k \in 1 .. n, j < k
                 PROVE  s[m[j]] < s[m[k]]
      BY DEF InOrder
    <3>1. j \in 1 .. n - 1 /\ m[j] = l[j] /\ l[j] \in T \ {x}
      BY <2>7, <2>9
    <3>2. CASE k = n
      <4>1. m[k] = x /\ s[l[j]] <= s[x] /\ s[l[j]] # s[x]
        BY <2>3, <2>5, <2>6, <3>1, <3>2 DEF Unique
      <4>2. s[l[j]] \in Nat /\ s[x] \in Nat
        BY <2>5, <3>1
      <4> QED BY <3>1, <4>1, <4>2
    <3>3. CASE k # n
      <4>1. k \in 1 .. n - 1 /\ m[k] = l[k] /\ DOMAIN l = 1 .. n - 1
        BY <2>7, <2>9, <3>3
      <4> QED BY <2>8, <3>1, <4>1 DEF InOrder
    <3> QED BY <3>2, <3>3
  <2> QED BY <2>3, <2>10, <2>11
<1>2. Live(s) \subseteq Item
  BY DEF Live
<1> QED BY <1>1, <1>2

\* And only one: where two first differ, each has the other's stop later.
LEMMA SortedUnique ==
    ASSUME NEW s \in Positions, NEW l \in SetToSeqs(Live(s)), NEW m \in SetToSeqs(Live(s)),
           InOrder(l, s), InOrder(m, s)
    PROVE  l = m
<1> DEFINE n == Cardinality(Live(s))
           Differ == {k \in 1 .. n : l[k] # m[k]}
<1>1. /\ l \in [1 .. n -> Live(s)] /\ m \in [1 .. n -> Live(s)] /\ n \in Nat
      /\ \A j, k \in 1 .. n : l[j] = l[k] => j = k
      /\ \A j, k \in 1 .. n : m[j] = m[k] => j = k
  BY FewStops DEF SetToSeqs
<1>2. /\ \A i \in Live(s) : \E k \in 1 .. n : l[k] = i
      /\ \A i \in Live(s) : \E k \in 1 .. n : m[k] = i
  BY Enumerations
<1>3. /\ \A j, k \in 1 .. n : j < k => s[l[j]] < s[l[k]]
      /\ \A j, k \in 1 .. n : j < k => s[m[j]] < s[m[k]]
  BY <1>1 DEF InOrder
<1>4. \A i \in Live(s) : s[i] \in Nat
  BY DEF Live, Positions
<1> HIDE DEF n
<1>5. Differ = {}
  <2> SUFFICES ASSUME Differ # {} PROVE FALSE
    OBVIOUS
  <2>1. PICK k \in Differ : \A j \in Differ : k <= j
    <3>1. Differ \in SUBSET Nat
      BY <1>1
    <3> HIDE DEF Differ
    <3> QED BY <3>1, Least
  <2>2. k \in 1 .. n /\ l[k] # m[k] /\ \A j \in 1 .. n : j < k => l[j] = m[j]
    BY <1>1, <2>1
  <2>3. PICK p \in 1 .. n : m[p] = l[k]
    BY <1>1, <1>2, <2>2
  <2>4. PICK q \in 1 .. n : l[q] = m[k]
    BY <1>1, <1>2, <2>2
  <2>5. k < p
    <3>1. ~(p < k)
      BY <1>1, <2>2, <2>3
    <3>2. p # k
      BY <2>2, <2>3
    <3> QED BY <1>1, <2>2, <3>1, <3>2
  <2>6. k < q
    <3>1. ~(q < k)
      BY <1>1, <2>2, <2>4
    <3>2. q # k
      BY <2>2, <2>4
    <3> QED BY <1>1, <2>2, <3>1, <3>2
  <2>7. s[l[k]] < s[m[k]]
    BY <1>3, <2>2, <2>4, <2>6
  <2>8. s[m[k]] < s[l[k]]
    BY <1>3, <2>2, <2>3, <2>5
  <2>9. s[l[k]] \in Nat /\ s[m[k]] \in Nat
    BY <1>1, <1>4, <2>2
  <2> QED BY <2>7, <2>8, <2>9
<1> QED BY <1>1, <1>5

LEMMA OrderIs ==
    ASSUME NEW s \in Positions, Unique(s)
    PROVE  /\ Order(s) \in SetToSeqs(Live(s)) /\ InOrder(Order(s), s)
           /\ \A l \in SetToSeqs(Live(s)) : InOrder(l, s) => l = Order(s)
<1>1. Order(s) \in SetToSeqs(Live(s)) /\ InOrder(Order(s), s)
  BY SortedExists DEF Order
<1> QED BY <1>1, SortedUnique

\* Who ends a move or a reorder, and on which rows.
LEMMA EndedBy ==
    ASSUME Inv, [Next]_vars, NEW c \in Caller
    PROVE  /\ Ended(c, "move") => MoveWrite(c)
           /\ Ended(c, "reorder") => ReorderWrite(c)
<1> SUFFICES ASSUME pc[c] \in {"move", "reorder"}, pc'[c] = "idle"
             PROVE  /\ pc[c] = "move" => MoveWrite(c)
                    /\ pc[c] = "reorder" => ReorderWrite(c)
  BY DEF Ended
<1>1. pc \in [Caller -> {"idle", "move", "reorder", "delete", "confirm"}]
  BY DEF Inv, Types, TypeOK
<1>2. ~UNCHANGED pc
  OBVIOUS
<1>3. PICK d \in Caller :
         \/ \E i, j \in Item : MoveRead(d, i, j)
         \/ \E order \in SetToSeqs(Live(seq)) : ReorderRead(d, order)
         \/ \E i \in Item : DeleteRead(d, i)
         \/ ConfirmRead(d)
         \/ MoveWrite(d) \/ ReorderWrite(d) \/ DeleteWrite(d)
         \/ ConfirmTx(d) \/ ConfirmFails(d)
  BY <1>2 DEF Next, CreateItem, UpdateItem, SetVisited, CreateJob, vars, reqVars
<1>4. CASE d # c
  BY <1>1, <1>3, <1>4 DEF MoveRead, ReorderRead, DeleteRead, ConfirmRead, Read,
     MoveWrite, ReorderWrite, DeleteWrite, ConfirmTx, ConfirmFails, Write, End
<1>5. CASE d = c
  BY <1>1, <1>3, <1>5 DEF MoveRead, ReorderRead, DeleteRead, ConfirmRead, Read,
     MoveWrite, ReorderWrite, DeleteWrite, ConfirmTx, ConfirmFails
<1> QED BY <1>4, <1>5

LEMMA WriteAnswers ==
    ASSUME NEW c, NEW rows, Write(c, rows)
    PROVE  /\ answer' = Update(rows).err
           /\ answer' = "ok" => seq' = Update(rows).seq
  BY DEF Write, End

\* moveRouteTemplateItem, reorderRouteItems and reorderRouteTemplateItems: left
\* alone between the read and the write, they never meet a taken position on
\* the way, whatever gaps the list has and however many stops it has.
THEOREM OnlyOvertakenFail == Spec => OnlyOvertakenFails
<1> DEFINE Step == \A c \in Caller :
                      (Ended(c, "move") \/ Ended(c, "reorder")) /\ answer' # "ok"
                         => seq # snap[c]
<1>1. Inv /\ [Next]_vars => Step
  <2> SUFFICES ASSUME Inv, [Next]_vars, NEW c \in Caller, seq = snap[c],
                      Ended(c, "move") \/ Ended(c, "reorder")
               PROVE  answer' = "ok"
    OBVIOUS
  <2>1. seq \in Positions /\ Unique(seq)
    BY DEF Inv, Types, TypeOK, Positions
  <2>2. CASE Ended(c, "move")
    <3>1. MoveWrite(c) /\ pc[c] = "move"
      BY <2>2, EndedBy DEF Ended
    <3>2. PICK i, j \in Item : i # j /\ want[c] = <<i, j>> /\ seq[i] > 0 /\ seq[j] > 0
      BY <3>1 DEF Inv, Types, Requests
    <3>3. Write(c, MoveRows(seq, i, j))
      BY <3>1, <3>2 DEF MoveWrite
    <3>4. Update(MoveRows(seq, i, j)).err = "ok"
      BY <2>1, <3>2, MoveComesTo
    <3> QED BY <3>3, <3>4, WriteAnswers
  <2>3. CASE Ended(c, "reorder")
    <3>1. ReorderWrite(c) /\ pc[c] = "reorder"
      BY <2>3, EndedBy DEF Ended
    <3>2. want[c] \in SetToSeqs(Live(seq)) /\ Item # {}
      BY <3>1 DEF Inv, Types, Requests
    <3>3. \A i \in Live(seq) : \E m \in 1 .. Len(want[c]) : want[c][m] = i
      BY <3>2, Enumerations
    <3>4. Update(ReorderRows(seq, want[c])).err = "ok"
      BY <2>1, <3>2, <3>3, ReorderGoesThrough
    <3> QED BY <3>1, <3>4, WriteAnswers DEF ReorderWrite
  <2> QED BY <2>2, <2>3
<1>2. Spec => [][Step]_vars
  BY <1>1, InvAlways, PTL DEF Spec
<1> QED BY <1>2 DEF OnlyOvertakenFails
-----------------------------------------------------------------------------
(* A reorder that succeeds.                                                *)

\* Whatever the list was when its rows were written: the second half of them puts
\* each stop where it was asked for, and no later row moves it again.
LEMMA ReorderPlaces ==
    ASSUME seq \in Positions, Item # {}, NEW s \in Positions, NEW r,
           NEW l \in SetToSeqs(Live(r)),
           Update(ReorderRows(s, l)).err = "ok"
    PROVE  \A m \in 1 .. Len(l) : Update(ReorderRows(s, l)).seq[l[m]] = m
<1> DEFINE rows == ReorderRows(s, l)
           n == Len(l)
           After(k) == Updated(rows)[k]
           Good(k) == After(k).err = "ok" =>
                        \A m \in 1 .. n : m + n <= k => After(k).seq[l[m]] = m
           Bad == {k \in 0 .. n + n : ~Good(k)}
<1>1. /\ n \in Nat /\ l \in Seq(Item) /\ \A m \in 1 .. n : l[m] \in Item
      /\ \A j, k \in 1 .. n : l[j] = l[k] => j = k
  BY Enumerations
<1>2. /\ rows \in Seq(Rows) /\ Len(rows) = n + n
      /\ \A k \in 1 .. n : rows[n + k] = Row(l[k], k)
  BY <1>1, ReorderRowsType
<1>3. \A k \in 0 .. n + n : After(k) \in Outcomes
  BY <1>2, UpdateKeeps
<1>4. \A k \in 1 .. n + n : After(k) = UpdateRow(After(k - 1), rows[k])
  <2>1. Len(rows) \in Nat
    BY <1>1, <1>2
  <2>2. \A k \in 1 .. Len(rows) : After(k) = UpdateRow(After(k - 1), rows[k])
    <3> HIDE DEF rows
    <3> QED BY <2>1, UpdatedSteps
  <2> QED BY <1>2, <2>2
<1>5. Good(0)
  BY <1>1
<1>6. \A k \in 1 .. n + n : rows[k] \in Rows
  BY <1>1, <1>2
<1> HIDE DEF rows, n, After
<1>7. ASSUME NEW k \in 1 .. n + n, Good(k - 1)
      PROVE  Good(k)
  <2> SUFFICES ASSUME After(k).err = "ok", NEW m \in 1 .. n, m + n <= k
               PROVE  After(k).seq[l[m]] = m
    OBVIOUS
  <2>1. k - 1 \in 0 .. n + n /\ k \in Nat
    BY <1>1
  <2>2. /\ After(k - 1).err = "ok"
        /\ After(k).seq = [After(k - 1).seq EXCEPT ![rows[k].item] = rows[k].pos]
    BY <1>3, <1>4, <1>6, <2>1, RowMoves
  <2>3. After(k - 1).seq \in [Item -> Nat] /\ l[m] \in Item
    BY <1>1, <1>3, <2>1 DEF Outcomes, Positions
  <2>4. CASE k = m + n
    <3>1. rows[k].item = l[m] /\ rows[k].pos = m
      <4>1. k = n + m
        BY <1>1, <2>4
      <4>2. rows[n + m] = Row(l[m], m)
        BY <1>2
      <4> QED BY <4>1, <4>2 DEF Row
    <3> QED BY <2>2, <2>3, <3>1
  <2>5. CASE k # m + n
    <3>1. m + n <= k - 1 /\ k - n \in 1 .. n /\ k - n # m /\ n + (k - n) = k
      BY <1>1, <2>1, <2>5
    <3>2. rows[k].item = l[k - n] /\ l[k - n] # l[m]
      <4>1. rows[n + (k - n)] = Row(l[k - n], k - n)
        BY <1>2, <3>1
      <4>2. l[k - n] # l[m]
        BY <1>1, <3>1
      <4> QED BY <3>1, <4>1, <4>2 DEF Row
    <3>3. After(k - 1).seq[l[m]] = m
      BY <1>7, <2>2, <3>1
    <3> QED BY <2>2, <2>3, <3>2, <3>3
  <2> QED BY <2>4, <2>5
<1>8. Bad = {}
  <2>1. 0 \notin Bad
    BY <1>5
  <2>2. \A k \in 1 .. n + n : k \in Bad => k - 1 \in Bad
    BY <1>1, <1>7
  <2>3. Bad \in SUBSET (0 .. n + n)
    OBVIOUS
  <2> HIDE DEF Bad
  <2>4. n + n \in Nat
    BY <1>1
  <2> QED BY <2>1, <2>2, <2>3, <2>4, NoFirst
<1>9. Good(n + n) /\ Len(rows) = n + n
  BY <1>1, <1>2, <1>8
<1>10. Update(rows) = After(n + n)
  BY <1>9 DEF Update, After
<1> SUFFICES ASSUME NEW m \in 1 .. n PROVE Update(rows).seq[l[m]] = m
  BY DEF rows, n
<1>11. Update(rows).err = "ok" /\ m + n <= n + n
  BY <1>1 DEF rows
<1> QED BY <1>9, <1>10, <1>11

\* A list whose stops l[m] are at m begins with them: at the first place where its
\* order has another, that other one's position would be taken or too low.
LEMMA PlacedIsPrefix ==
    ASSUME NEW s \in Positions, Unique(s), NEW l \in Seq(Item),
           \A m \in 1 .. Len(l) : s[l[m]] = m
    PROVE  IsPrefix(l, Order(s))
<1> DEFINE o == Order(s)
           n == Len(l)
           Differ == {m \in 1 .. n : ~(m <= Len(o) /\ o[m] = l[m])}
<1>1. /\ o \in SetToSeqs(Live(s)) /\ InOrder(o, s)
  BY OrderIs
<1>2. /\ Len(o) \in Nat /\ o \in Seq(Item) /\ o \in Seq(Live(s))
      /\ \A j, k \in 1 .. Len(o) : o[j] = o[k] => j = k
      /\ \A i \in Live(s) : \E k \in 1 .. Len(o) : o[k] = i
  BY <1>1, Enumerations
<1>3. \A j, k \in 1 .. Len(o) : j < k => s[o[j]] < s[o[k]]
  <2>1. DOMAIN o = 1 .. Len(o)
    BY <1>2, LenProperties
  <2> HIDE DEF o
  <2> QED BY <1>1, <2>1 DEF InOrder
<1>4. \A k \in 1 .. Len(o) : o[k] \in Item /\ s[o[k]] \in Nat /\ s[o[k]] > 0
  <2> SUFFICES ASSUME NEW k \in 1 .. Len(o)
               PROVE  o[k] \in Item /\ s[o[k]] \in Nat /\ s[o[k]] > 0
    OBVIOUS
  <2>1. o[k] \in Live(s)
    BY <1>2, ElementOfSeq
  <2> HIDE DEF o
  <2> QED BY <2>1 DEF Live, Positions
<1>5. n \in Nat /\ \A m \in 1 .. n : l[m] \in Live(s) /\ l[m] \in Item
  BY DEF Live
<1> HIDE DEF o, n
<1>6. Differ = {}
  <2> SUFFICES ASSUME Differ # {} PROVE FALSE
    OBVIOUS
  <2>1. PICK m \in Differ : \A j \in Differ : m <= j
    <3>1. Differ \in SUBSET Nat
      BY <1>5
    <3> HIDE DEF Differ
    <3> QED BY <3>1, Least
  <2>2. /\ m \in 1 .. n /\ ~(m <= Len(o) /\ o[m] = l[m])
        /\ \A j \in 1 .. n : j < m => j <= Len(o) /\ o[j] = l[j]
    BY <1>5, <2>1
  <2>3. PICK p \in 1 .. Len(o) : o[p] = l[m]
    BY <1>2, <1>5, <2>2
  <2>4. s[l[m]] = m
    BY <2>2 DEF n
  <2>5. ~(p < m)
    <3> SUFFICES ASSUME p < m PROVE FALSE
      OBVIOUS
    <3>1. p \in 1 .. n /\ o[p] = l[p]
      BY <1>2, <1>5, <2>2, <2>3
    <3>2. s[l[p]] = p
      BY <3>1 DEF n
    <3> QED BY <1>5, <2>2, <2>3, <2>4, <3>1, <3>2
  <2>6. m < p
    BY <1>2, <1>5, <2>2, <2>3, <2>5
  <2>7. m \in 1 .. Len(o)
    BY <1>2, <1>5, <2>2, <2>3, <2>6
  <2>8. s[o[m]] < m
    BY <1>3, <2>3, <2>4, <2>6, <2>7
  <2> DEFINE q == s[o[m]]
  <2>9. q \in 1 .. n /\ q < m
    BY <1>4, <1>5, <2>2, <2>7, <2>8
  <2>10. s[l[q]] = q
    BY <2>9 DEF n
  <2>11. o[m] = l[q]
    BY <1>4, <1>5, <2>7, <2>9, <2>10 DEF Unique
  <2>12. q <= Len(o) /\ o[q] = l[q]
    BY <2>2, <2>9
  <2>13. q \in 1 .. Len(o) /\ o[q] = o[m] /\ q # m
    BY <1>2, <1>5, <2>2, <2>9, <2>11, <2>12
  <2> HIDE DEF q
  <2> QED BY <1>2, <2>7, <2>13
<1>7. \A m \in 1 .. n : m <= Len(o) /\ o[m] = l[m]
  BY <1>6
<1>8. n <= Len(o)
  BY <1>2, <1>5, <1>7
<1>9. SubSeq(l, 1, n) = SubSeq(o, 1, n)
  <2>1. n = Len(l)
    BY DEF n
  <2>2. /\ \A m \in 1 .. n : l[m] \in Item /\ o[m] \in Item
        /\ n - 1 + 1 = n /\ 1 \in Int /\ n \in Int
    BY <1>5, <1>7
  <2>3. /\ SubSeq(l, 1, n) \in Seq(Item)
        /\ Len(SubSeq(l, 1, n)) = IF 1 <= n THEN n - 1 + 1 ELSE 0
        /\ \A m \in 1 .. n - 1 + 1 : SubSeq(l, 1, n)[m] = l[1 + m - 1]
    BY <2>2, SubSeqProperties
  <2>4. /\ SubSeq(o, 1, n) \in Seq(Item)
        /\ Len(SubSeq(o, 1, n)) = IF 1 <= n THEN n - 1 + 1 ELSE 0
        /\ \A m \in 1 .. n - 1 + 1 : SubSeq(o, 1, n)[m] = o[1 + m - 1]
    BY <2>2, SubSeqProperties
  <2>5. Len(SubSeq(l, 1, n)) = n /\ Len(SubSeq(o, 1, n)) = n
    BY <1>5, <2>3, <2>4
  <2>6. \A m \in 1 .. n : SubSeq(l, 1, n)[m] = SubSeq(o, 1, n)[m]
    <3> SUFFICES ASSUME NEW m \in 1 .. n PROVE SubSeq(l, 1, n)[m] = SubSeq(o, 1, n)[m]
      OBVIOUS
    <3>1. m \in 1 .. n - 1 + 1 /\ 1 + m - 1 = m
      BY <2>2
    <3>2. SubSeq(l, 1, n)[m] = l[m] /\ SubSeq(o, 1, n)[m] = o[m]
      BY <2>3, <2>4, <3>1
    <3> QED BY <1>7, <3>2
  <2> QED BY <2>3, <2>4, <2>5, <2>6, SeqEqual
<1> QED BY <1>8, <1>9 DEF IsPrefix, o, n

\* reorderRouteItems, reorderRouteTemplateItems: a reorder that is answered with
\* success has put the stops in the order asked for, whatever other requests did
\* between its read and its write.
THEOREM ReorderAsked == Spec => ReorderIsWhatWasAsked
<1> DEFINE Step == \A c \in Caller :
                      Ended(c, "reorder") /\ answer' = "ok"
                         => IsPrefix(want[c], Order(seq'))
<1>1. Inv /\ Inv' /\ [Next]_vars => Step
  <2> SUFFICES ASSUME Inv, Inv', [Next]_vars, NEW c \in Caller,
                      Ended(c, "reorder"), answer' = "ok"
               PROVE  IsPrefix(want[c], Order(seq'))
    OBVIOUS
  <2>1. seq \in Positions /\ snap[c] \in Positions
    BY DEF Inv, Types, TypeOK, Positions
  <2>2. seq' \in Positions /\ Unique(seq')
    BY DEF Inv, Types, TypeOK, Positions, Unique
  <2>3. ReorderWrite(c) /\ pc[c] = "reorder"
    BY EndedBy DEF Ended
  <2>4. want[c] \in SetToSeqs(Live(snap[c])) /\ Item # {}
    BY <2>3 DEF Inv, Types, Requests
  <2>5. Write(c, ReorderRows(snap[c], want[c]))
    BY <2>3 DEF ReorderWrite
  <2>6. /\ Update(ReorderRows(snap[c], want[c])).err = "ok"
        /\ seq' = Update(ReorderRows(snap[c], want[c])).seq
    BY <2>5, WriteAnswers
  <2>7. \A m \in 1 .. Len(want[c]) : seq'[want[c][m]] = m
    BY <2>1, <2>4, <2>6, ReorderPlaces
  <2>8. want[c] \in Seq(Item)
    BY <2>4, Enumerations
  <2> QED BY <2>2, <2>7, <2>8, PlacedIsPrefix
<1>2. Spec => [][Step]_vars
  BY <1>1, InvAlways, PTL DEF Spec
<1> QED BY <1>2 DEF ReorderIsWhatWasAsked
-----------------------------------------------------------------------------
(* A move that nobody overtook.                                            *)

\* Exchanging two positions exchanges the two stops in the order.
LEMMA ExchangeInOrder ==
    ASSUME NEW s \in Positions, Unique(s), NEW i \in Item, NEW j \in Item, i # j,
           s[i] > 0, s[j] > 0, NEW t, t = [s EXCEPT ![i] = s[j], ![j] = s[i]],
           Unique(t)
    PROVE  Order(t) = Exchanged(Order(s), i, j)
<1> DEFINE o == Order(s)
           n == Cardinality(Live(s))
           x == Exchanged(o, i, j)
<1>1. /\ t \in Positions /\ t[i] = s[j] /\ t[j] = s[i]
      /\ \A k \in Item \ {i, j} : t[k] = s[k]
  BY DEF Positions
<1>2. Live(t) = Live(s) /\ i \in Live(s) /\ j \in Live(s)
  BY <1>1 DEF Live
<1>3. o \in SetToSeqs(Live(s)) /\ InOrder(o, s)
  BY OrderIs
<1>4. /\ o \in [1 .. n -> Live(s)] /\ DOMAIN o = 1 .. n
      /\ \A k, m \in 1 .. n : k # m => o[k] # o[m]
  BY <1>3 DEF SetToSeqs
<1>5. \A k \in 1 .. n : o[k] \in Item /\ o[k] \in Live(s)
  BY <1>4 DEF Live
<1> HIDE DEF o, n
<1>6. \A k \in 1 .. n : /\ o[k] = i => x[k] = j
                        /\ o[k] = j => x[k] = i
                        /\ o[k] # i /\ o[k] # j => x[k] = o[k]
  BY <1>4 DEF Exchanged
<1>7. DOMAIN x = 1 .. n /\ x = [k \in 1 .. n |-> x[k]]
  BY <1>4 DEF Exchanged
<1> HIDE DEF x
<1>8. \A k \in 1 .. n : x[k] \in Live(s) /\ t[x[k]] = s[o[k]]
  BY <1>1, <1>2, <1>5, <1>6
<1>9. \A k, m \in 1 .. n : k # m => x[k] # x[m]
  <2> SUFFICES ASSUME NEW k \in 1 .. n, NEW m \in 1 .. n, x[k] = x[m]
               PROVE  o[k] = o[m]
    BY <1>4
  <2>1. s[o[k]] = s[o[m]] /\ s[o[k]] > 0
    BY <1>5, <1>8 DEF Live
  <2> QED BY <1>5, <2>1 DEF Unique
<1>10. x \in SetToSeqs(Live(t))
  <2>1. x \in [1 .. n -> Live(s)]
    BY <1>7, <1>8
  <2> QED BY <1>2, <1>9, <2>1 DEF SetToSeqs, n
<1>11. InOrder(x, t)
  <2> SUFFICES ASSUME NEW k \in 1 .. n, NEW m \in 1 .. n, k < m
               PROVE  t[x[k]] < t[x[m]]
    BY <1>7 DEF InOrder
  <2>1. s[o[k]] < s[o[m]]
    BY <1>3, <1>4 DEF InOrder
  <2> QED BY <1>8, <2>1
<1> QED BY <1>1, <1>10, <1>11, OrderIs DEF x, o

\* moveRouteTemplateItem: a move that nobody overtook exchanges two neighbours and
\* changes nothing else of the order, gaps or not.
THEOREM MoveSwaps == Spec => MoveSwapsNeighbours
<1> DEFINE Step == \A c \in Caller :
                      Ended(c, "move") /\ seq = snap[c]
                         => Order(seq') = Exchanged(Order(seq), want[c][1], want[c][2])
<1>1. Inv /\ Inv' /\ [Next]_vars => Step
  <2> SUFFICES ASSUME Inv, Inv', [Next]_vars, NEW c \in Caller,
                      Ended(c, "move"), seq = snap[c]
               PROVE  Order(seq') = Exchanged(Order(seq), want[c][1], want[c][2])
    OBVIOUS
  <2>1. seq \in Positions /\ Unique(seq) /\ Unique(seq')
    BY DEF Inv, Types, TypeOK, Positions, Unique
  <2>2. MoveWrite(c) /\ pc[c] = "move"
    BY EndedBy DEF Ended
  <2>3. PICK i, j \in Item : i # j /\ want[c] = <<i, j>> /\ seq[i] > 0 /\ seq[j] > 0
    BY <2>2 DEF Inv, Types, Requests
  <2>4. Write(c, MoveRows(seq, i, j))
    BY <2>2, <2>3 DEF MoveWrite
  <2>5. /\ Update(MoveRows(seq, i, j)).err = "ok"
        /\ Update(MoveRows(seq, i, j)).seq = [seq EXCEPT ![i] = seq[j], ![j] = seq[i]]
    BY <2>1, <2>3, MoveComesTo
  <2>6. seq' = [seq EXCEPT ![i] = seq[j], ![j] = seq[i]]
    BY <2>4, <2>5, WriteAnswers
  <2>7. Order(seq') = Exchanged(Order(seq), i, j)
    BY <2>1, <2>3, <2>6, ExchangeInOrder
  <2> QED BY <2>3, <2>7
<1>2. Spec => [][Step]_vars
  BY <1>1, InvAlways, PTL DEF Spec
<1> QED BY <1>2 DEF MoveSwapsNeighbours
=============================================================================
