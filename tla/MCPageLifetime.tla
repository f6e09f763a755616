--------------------------- MODULE MCPageLifetime ---------------------------
(* PageLifetime for TLC: interchangeable views. *)
EXTENDS PageLifetime, TLC

ViewSymmetry == Permutations(Views)
=============================================================================
