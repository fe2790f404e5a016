----------------------------- MODULE MCPlacement -----------------------------
(* Small instances of Placement for TLC: the sets are given in the .cfg. *)
EXTENDS Placement
=============================================================================
