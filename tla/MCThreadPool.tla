---------------------------- MODULE MCThreadPool ----------------------------
(* Small instances of ThreadPool for TLC: the sets are given in the .cfg. *)
EXTENDS ThreadPool
=============================================================================
