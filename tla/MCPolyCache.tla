----------------------------- MODULE MCPolyCache -----------------------------
(* Small instances of PolyCache for TLC. *)
EXTENDS PolyCache, TLC

CONSTANTS f1, f2

(* All nodes belong to one file. *)
OneFile == [e \in Nodes |-> f1]

(* The last node belongs to a file of its own. *)
TwoFiles == [e \in Nodes |-> IF \E x \in Nodes : x > e THEN f1 ELSE f2]

(* Threads of one kind are interchangeable in the safety runs. *)
Symmetry == Permutations(Users) \cup Permutations(Flushers)
=============================================================================
