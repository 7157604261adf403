SPECIFICATION SpecAll
CONSTANTS
    OrgIds = {o1, o2}
    UserIds = {ann, bob}
    Clients = {r1, r2}
    Logins = {l1}
    Emails = {"ann@org", "Ann@org"}
    Lower <- LowerCase
    Nothing = Nothing
    MaxDeaths = 1
    Requests = {r}
    Codes = {c1, c2}
    None = None
    MaxVerifyAttempts = 5
    OtpExpiry = 2
    LockDuration = 3
    MaxAborts = 2
    MaxRedisFaults = 0
    p1 = p1
    p2 = p2
    t1 = t1
    Entries = {e1}
    Writers = {ann, bob, eve}
    Moderators = {eve}
    Callers = {r1, r2}
    Targets = {t1, p1}
    Kind <- LogKinds
    Columns = {"project", "task"}
    Ids <- LogIds
    Reassigns = TRUE
    MaxMoves = 1
    Null = Null
    Undefined = Undefined
    Lengths <- TwoYears
SYMMETRY Interchangeable
INVARIANTS
    OneTimeUse
    GuessBudget
    
    NewOrgShowsUp
    TargetIdsWereTrue
    PeriodsFitTheCalendar
PROPERTIES
    LockJustified
    LockRunsItsTerm
    CleanSlateAfterLock
    OnlyOwnEntries
