SPECIFICATION Spec
CONSTANTS
    Modules = {m1}
    Permissions = {p1, p2}
    Roles = {r1, r2}
    Missing = {r2}
    Requests = {q1, q2}
    None = None
    MaxWrites = 2
    MaxAborts = 1
SYMMETRY Interchangeable
INVARIANTS
    GuardKeysWereGranted
    GrantsAsAsked
    
