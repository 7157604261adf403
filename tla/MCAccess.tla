------------------------------ MODULE MCAccess ------------------------------
(* A route for SUPER_ADMIN (as switch-organization is) and one that asks for *)
(* a permission.                                                             *)
EXTENDS Access, TLC

ForRoles == [route \in Routes |-> IF route = "switch" THEN {SuperAdmin} ELSE {}]
ForKeys == [route \in Routes |-> IF route = "report" THEN Keys ELSE {}]
Interchangeable == Permutations(Requests)
=============================================================================
