SPECIFICATION Spec
CONSTANTS
    Projects = {p1}
    Features = {f1, f2}
    Tasks = {t1, t2}
    SubTasks = {s1}
    Issues = {i1}
    Organizations = {o1}
    Titles = {x, y}
    Requests = {r1}
    None = None
    StaleReads = FALSE
    MaxOperations = 6
SYMMETRY Interchangeable
INVARIANTS
    UniqueTitles
PROPERTIES
    SavedUnderLiveParent
