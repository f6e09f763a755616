----------------------------- MODULE MCRecovery -----------------------------
(* Small databases for Recovery: the collections are interchangeable, and so *)
(* are the keys.                                                             *)
EXTENDS Recovery, TLC

MCSymmetry == Permutations(Collections) \cup Permutations(Keys)
=============================================================================
