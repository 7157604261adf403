SPECIFICATION Spec
CONSTANTS
    Projects = {p1, p2}
    Features = {f1, f2}
    Tasks = {t1}
    SubTasks = {}
    Issues = {i1}
    Organizations = {o1, o2}
    Titles = {x}
    Requests = {r1, r2}
    None = None
    StaleReads = TRUE
    MaxOperations = 6
SYMMETRY Interchangeable
INVARIANTS
    TenantIsolation
    
