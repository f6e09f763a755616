--------------------------- MODULE MCPageLatches ---------------------------
(* A tree of two leaves under a root.  The root was allocated when the first *)
(* leaf split (propagate_up), so its page number is the highest.             *)
EXTENDS PageLatches, TLC

MCKeys == 1..2
MCChild == 5 :> <<3, 4>>
MCPrevLeaf == 3 :> 0 @@ 4 :> 3
MCNextLeaf == 3 :> 4 @@ 4 :> 0
MCInitFill == 3 :> "full" @@ 4 :> "thin"
MCSymmetry == Permutations(Readers) \cup Permutations(Writers)
=============================================================================
