----------------------------- MODULE MCFileTable -----------------------------
(* Two threads and five kernel descriptors: two files open, one half over. *)
EXTENDS FileTable, TLC
Symmetry == Permutations(Threads)
=============================================================================
