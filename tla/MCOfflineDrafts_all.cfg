SPECIFICATION Spec
CONSTANTS
    Screen = {p1}
    Text = {t1, t2}
    Capture = {k1}
    Upload = {u1}
    None = None
SYMMETRY MCSymmetry
INVARIANTS
    TypeOK
    AddressKept
    StrandedWasLate
PROPERTY FlushKeepsWork
