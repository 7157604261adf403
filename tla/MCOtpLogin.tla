---------------------------- MODULE MCOtpLogin ----------------------------
(* Symmetry for the model checking of OtpLogin. *)
EXTENDS OtpLogin, TLC

Interchangeable == Permutations(Requests) \cup Permutations(Codes)
===========================================================================
