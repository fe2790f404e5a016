----------------------------- MODULE MCPolyInode -----------------------------
(* Small instances of PolyInode for TLC. *)
EXTENDS PolyInode, TLC

(* Threads and paths are interchangeable. *)
Symmetry == Permutations(Threads) \cup Permutations(Paths)
=============================================================================
