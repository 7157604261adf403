SPECIFICATION SpecAll
CONSTANTS
    Days = {1, 2, 3, 4, 5, 6, 7}
    None = None
    Absent = Absent
    Savers = {s1, s2}
    Titles = {a, b}
    Unset = Unset
    MaxSaves = 2
    l1 = l1
    l2 = l2
    o1 = o1
    o2 = o2
    u1 = u1
    u2 = u2
    Logs = {l1, l2}
    OrgOf <- Owners
    Organizations = {o1, o2}
    Workers = {u1, u2}
    Minutes = {2}
    LogDates = {1}
    Calls = {c1, c2}
    Missing = Missing
    Contexts = {o1, Missing}
    Queries <- Asked
    LogsToBegin <- OneLog
    MaxWrites = 2
SYMMETRY Interchangeable
INVARIANTS
    DatedWhileResolved
    RowIsAnEntity
    TotalsAddUp
    AnswersAreCurrent
PROPERTIES
    OrderedUnlessCached
    LosesOnlyFromOldCopies
