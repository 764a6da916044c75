SPECIFICATION FieldSpec
CONSTANTS
    c1 = c1
    i1 = i1
    CId = {c1}
    Mine = {c1}
    Vid = {v1}
    Item = {i1}
    Token = {t1}
    Req = {r1}
    Flow = {f1, f2}
    None = None
    StartItem <- MCStartItem
    TokenFor <- MCTokenFor
SYMMETRY MCSymmetry
INVARIANTS
    FieldTypeOK
    LatestConfirmKept
CHECK_DEADLOCK FALSE
