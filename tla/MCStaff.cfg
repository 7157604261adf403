SPECIFICATION Spec
CONSTANTS
    d1 = d1
    d2 = d2
    d3 = d3
    o1 = o1
    o2 = o2
    sales = sales
    ops = ops
    Departments = {d1, d2, d3}
    Teams = {t1, t2}
    Users = {u1}
    Projects = {p1}
    Organizations = {o1, o2}
    Names = {sales, ops}
    Requests = {q1, q2}
    None = None
    Contexts = {o1, None}
    StaleReads = TRUE
    Founded <- OneOfEach
    MaxOperations = 4
SYMMETRY Interchangeable
INVARIANTS
    TeamFollowsDepartment
    StaffAtHome
PROPERTIES
    ChosenTeamsFit
