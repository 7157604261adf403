--------------------------- MODULE MCPermissions ---------------------------
(* Symmetry for the model checking of Permissions. *)
EXTENDS Permissions, TLC

Interchangeable == Permutations(Requests) \cup Permutations(Permissions)
============================================================================
