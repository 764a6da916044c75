SPECIFICATION FieldSpec
CONSTANTS
    c1 = c1
    i1 = i1
    CId = {c1, c2}
    Mine = {c1}
    Vid = {v1, v2}
    Item = {i1}
    Token = {t1}
    Req = {r1}
    Flow = {f1}
    None = None
    StartItem <- MCStartItem
    TokenFor <- MCTokenFor
SYMMETRY MCSymmetry
INVARIANTS
    ReportOnItsVisit
    QueuedUnderItsVisit
CHECK_DEADLOCK FALSE
