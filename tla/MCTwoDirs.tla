------------------------------ MODULE MCTwoDirs ------------------------------
(* Paths d, d/e, d/e/x and f, and three threads. *)
EXTENDS TwoDirs, TLC
CONSTANTS d, e, x, f
MCParentOf == (d :> Root) @@ (e :> d) @@ (x :> e) @@ (f :> Root)
Symmetry == Permutations(Threads)
=============================================================================
