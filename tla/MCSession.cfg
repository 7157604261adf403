SPECIFICATION SpecAll
CONSTANTS
    u1 = u1
    o1 = o1
    o2 = o2
    Handlers = {r1, r2}
    Users = {u1}
    Orgs = {o1, o2}
    Roles = {"SUPER_ADMIN", "USER"}
    SuperAdmin = "SUPER_ADMIN"
    HomeOrg <- HomeOrgs
    HomeRole <- MemberHome
    MaxTokens = 2
    MaxDeaths = 1
    Services = {"teams", "users", "comments"}
    Tenants = {o1, o2}
    All = All
    ListContexts = {o1}
    Asked = {"search", "targetId"}
    Limit = 1
    Absent = Absent
    MaxChanges = 3
SYMMETRY Interchangeable
INVARIANTS
    ClaimsWereGranted
    ForeignOrgNeedsSuper
    SessionFollowsSignIn
    
    
PROPERTIES
    DeactivationSticks
