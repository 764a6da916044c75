SPECIFICATION Spec
CONSTANTS
    c1 = c1
    c2 = c2
    i1 = i1
    t1 = t1
    CId = {c1, c2}
    Vid = {v1, v2}
    Item = {i1}
    Token = {t1}
    Req = {r1, r2}
    None = None
    StartItem <- MCStartItem
    TokenFor <- MCTokenFor
SYMMETRY MCSymmetry
INVARIANTS
    TypeOK
    AnsweredStartResolves
PROPERTIES
    StopFollowsVisit
