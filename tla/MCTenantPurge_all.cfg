SPECIFICATION FairSpec
CONSTANTS
    t1 = t1
    o1 = o1
    o2 = o2
    Tenant = {t1}
    Request = {r1}
    Worker = {w1}
    Object = {o1, o2}
    ObjectTenant <- MCObjectTenant
    Table <- MCTable
    Order <- MCOrder
    Restricting <- MCRestrict
    Cascading <- MCCascade
    MayBlock <- MCMayBlock
    Overlap = FALSE
    None = None
INVARIANTS
    TypeOK
    PurgeMarksOnArchived
    OrphanWasLate
    GoneIsEmpty
    SessionsEndWithService
PROPERTIES
    PurgeEnds
