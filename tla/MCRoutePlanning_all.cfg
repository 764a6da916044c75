SPECIFICATION Spec
CONSTANTS
    Date = {1, 2}
    Template = {ta, tb}
    Plan = {p1, p2, p3}
    Caller = {q1, q2}
    Shift <- MCShift
    None = None
SYMMETRY MCSymmetry
INVARIANTS
    TypeOK
    OnePlanPerSlot
    BatchLeavesNoHole
    ConflictMeansVanished
CHECK_DEADLOCK FALSE
