SPECIFICATION FairSpec
CONSTANTS
    Requests = {r1, r2}
    Columns = {title}
    Values = {0, 1}
    None = None
    MaxWrites = 2
    MaxAborts = 1
INVARIANTS
    CoherentAtRest
PROPERTIES
    DeletedStaysDeleted
    ImplementsLagging
    EventuallyCoherent
