------------------------------ MODULE MCStaff ------------------------------
(* Constants and symmetry for the model checking of Staff. *)
EXTENDS Staff, TLC

CONSTANTS d1, d2, d3, o1, o2, sales, ops

\* One department of each organization, and room for a third.
OneOfEach == (d1 :> [org |-> o1, name |-> sales, deleted |-> FALSE]) @@
             (d2 :> [org |-> o2, name |-> sales, deleted |-> FALSE]) @@ (d3 :> None)

Interchangeable == Permutations(Requests) \cup Permutations(Teams) \cup Permutations(Users)
============================================================================
