---------------------------- MODULE MCCacheMemory ----------------------------
(* Three threads on two CPUs, whose lists are full and empty at times. *)
EXTENDS CacheMemory, TLC
CONSTANTS t1, t2, t3
MCCpuOf == (t1 :> 0) @@ (t2 :> 0) @@ (t3 :> 1)
Symmetry == Permutations({t1, t2})
=============================================================================
