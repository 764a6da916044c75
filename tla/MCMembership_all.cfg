SPECIFICATION Spec
CONSTANTS
    Email = {e1, e2}
    Invite = {i1, i2}
    Caller = {q1, q2}
    AdminLimit = 1
    Grants <- MCGrants
    None = None
SYMMETRY MCSymmetry
INVARIANTS
    TypeOK
    OneSuperadmin
    AcceptedOnce
    WithinAdminLimit
PROPERTIES
    LeadershipKept
    LastRoleKept
