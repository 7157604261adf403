SPECIFICATION Spec
CONSTANTS
    Users = {u1}
    Roles = {"SUPER_ADMIN", "USER"}
    SuperAdmin = "SUPER_ADMIN"
    Keys = {k1}
    Routes = {"switch", "report"}
    Requests = {q1, q2}
    RequiredRoles <- ForRoles
    RequiredKeys <- ForKeys
    AccessTtl = 2
    RefreshTtl = 3
    KeysTtl = 2
    HandlerTime = 1
SYMMETRY Interchangeable
INVARIANTS
    OpensOnRecentGrant
    AccessEndsWithSession
