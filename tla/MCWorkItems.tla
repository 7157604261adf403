--------------------------- MODULE MCWorkItems ---------------------------
(* Symmetry for the model checking of WorkItems. *)
EXTENDS WorkItems, TLC

Interchangeable ==
    Permutations(Requests) \cup Permutations(Organizations) \cup Permutations(Titles)
    \cup Permutations(Projects) \cup Permutations(Features) \cup Permutations(Tasks)
==========================================================================
