SPECIFICATION SpecAll
CONSTANTS
    u1 = u1
    o1 = o1
    o2 = o2
    Handlers = {r1, r2}
    Users = {u1}
    Orgs = {o1, o2}
    Roles = {"SUPER_ADMIN", "USER"}
    SuperAdmin = "SUPER_ADMIN"
    HomeOrg <- HomeOrgs
    HomeRole <- MemberHome
    MaxTokens = 3
    MaxDeaths = 0
    Services = {"teams"}
    Tenants = {o1, o2}
    All = All
    ListContexts = {o1}
    Asked = {"search"}
    Limit = 1
    Absent = Absent
    MaxChanges = 1
PROPERTIES
    ReplacedTokensAreRefused
