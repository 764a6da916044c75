SPECIFICATION Spec
CONSTANTS
    Item = {s1, s2, s3}
    Caller = {q1, q2}
    MaxSeq = 3
    FileSize = 1
    Named = {1, 2}
    None = None
SYMMETRY MCSymmetry
INVARIANTS
    TypeOK
    ImportedOnce
PROPERTIES
    OnlyOvertakenFails
    ReorderIsWhatWasAsked
    MoveSwapsNeighbours
CHECK_DEADLOCK FALSE
