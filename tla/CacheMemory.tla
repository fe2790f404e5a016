----------------------------- MODULE CacheMemory -----------------------------
(***************************************************************************)
(* The allocator of cache buffers in the shared-memory build (cache_mm.c,  *)
(* the bitmap functions of util.c).  The buffer region is divided among    *)
(* the CPUs; a CPU's part has a bitmap and a spin lock, which live in      *)
(* PolyOS' control page and are shared by all processes.  A thread         *)
(* allocates from the CPU it registered on and frees from whichever CPU    *)
(* the address belongs to, usually another thread's (eviction runs in the  *)
(* pool's threads).                                                        *)
(*                                                                         *)
(* Addresses count index nodes (2 MB) from POLY_CACHE_VADDR_BASE.  A step  *)
(* is a test-and-set or one access to the bitmap, whose unit is the byte:  *)
(* set_bitmap and unset_bitmap read a byte and write it back.  No process  *)
(* dies between taking the lock and giving it back.                        *)
(***************************************************************************)
EXTENDS Integers, FiniteSets

CONSTANTS Threads,
          NumCpus,    \* CPU_MAX
          EntrySz,    \* POLY_CACHE_PER_CPU_LIST_ENTRY_SZ
          ByteBits,   \* bits of a bitmap_t
          CpuOf       \* per thread: tls_task_ctx.cpu_id

Cpus == 0 .. NumCpus - 1
List == 0 .. EntrySz - 1

ASSUME SizeAssumption == NumCpus \in Nat \ {0} /\ EntrySz \in Nat \ {0} /\ ByteBits \in Nat \ {0}
ASSUME CpuAssumption == CpuOf \in [Threads -> Cpus]

VARIABLES bitmap,  \* poly_cache_free_list: per CPU, the bits that are set
          lock,    \* poly_cache_free_list_lock
          held,    \* buffers the cache holds (external: the intervals' buf_addr)
          pc,      \* per thread: "idle", "lock", "scan", "read", "write", "unlock"
          op,      \* per thread: "alloc" or "free", "none" outside
          cpu_id, list_id,  \* per thread: locals; list_id is i in the allocation
          byte     \* per thread: the set bits of the byte it has read

locals == <<op, cpu_id, list_id, byte>>
vars   == <<bitmap, lock, held, pc, locals>>

TypeOK ==
    /\ bitmap \in [Cpus -> SUBSET List] /\ lock \in [Cpus -> BOOLEAN]
    /\ held \subseteq 0 .. NumCpus * EntrySz - 1
    /\ pc \in [Threads -> {"idle", "lock", "scan", "read", "write", "unlock"}]
    /\ op \in [Threads -> {"none", "alloc", "free"}]
    /\ cpu_id \in [Threads -> Cpus] /\ list_id \in [Threads -> 0 .. EntrySz]
    /\ byte \in [Threads -> SUBSET List]

-----------------------------------------------------------------------------
(* Addresses. *)

POLY_CACHE_BUF_VADDR(c, i) == c * EntrySz + i

POLY_CACHE_GET_CPU(v) == v \div EntrySz

POLY_CACHE_GET_FREE_LIST_INDEX(v, c) == v - c * EntrySz

(* The bits that share a byte with bit i. *)
Byte(i) == {j \in List : j \div ByteBits = i \div ByteBits}

-----------------------------------------------------------------------------
poly_cache_mm_alloc(t) ==
    /\ pc[t] = "idle"
    /\ pc' = [pc EXCEPT ![t] = "lock"] /\ op' = [op EXCEPT ![t] = "alloc"]
    /\ cpu_id' = [cpu_id EXCEPT ![t] = CpuOf[t]]
    /\ list_id' = [list_id EXCEPT ![t] = EntrySz]
    /\ UNCHANGED <<bitmap, lock, held, byte>>

(* The cache frees a buffer it holds, once. *)
poly_cache_mm_free(t) ==
    /\ pc[t] = "idle"
    /\ \E v \in held :
          LET c == POLY_CACHE_GET_CPU(v)
          IN  /\ held' = held \ {v}
              /\ cpu_id' = [cpu_id EXCEPT ![t] = c]
              /\ list_id' = [list_id EXCEPT ![t] = POLY_CACHE_GET_FREE_LIST_INDEX(v, c)]
    /\ pc' = [pc EXCEPT ![t] = "lock"] /\ op' = [op EXCEPT ![t] = "free"]
    /\ UNCHANGED <<bitmap, lock, byte>>

(* Mutant of Lock: the old value of the lock is not looked at. *)
Lock_unconditional(t) ==
    /\ pc[t] = "lock"
    /\ lock' = [lock EXCEPT ![cpu_id[t]] = TRUE]
    /\ pc' = [pc EXCEPT ![t] = IF op[t] = "alloc" THEN "scan" ELSE "read"]
    /\ UNCHANGED <<bitmap, held, locals>>

Lock(t) ==
    /\ pc[t] = "lock" /\ ~ lock[cpu_id[t]]
    /\ lock' = [lock EXCEPT ![cpu_id[t]] = TRUE]
    /\ pc' = [pc EXCEPT ![t] = IF op[t] = "alloc" THEN "scan" ELSE "read"]
    /\ UNCHANGED <<bitmap, held, locals>>

(* The loop over the list ends at the first bit that is clear, or at the   *)
(* end of the list.                                                        *)
Scan(t) ==
    /\ pc[t] = "scan"
    /\ \/ /\ bitmap[cpu_id[t]] = List
          /\ pc' = [pc EXCEPT ![t] = "unlock"]
          /\ UNCHANGED list_id
       \/ \E i \in List \ bitmap[cpu_id[t]] :
             /\ \A j \in List : j < i => j \in bitmap[cpu_id[t]]
             /\ list_id' = [list_id EXCEPT ![t] = i]
             /\ pc' = [pc EXCEPT ![t] = "read"]
    /\ UNCHANGED <<bitmap, lock, held, op, cpu_id, byte>>

(* set_bitmap, unset_bitmap: the byte is read ... *)
Read(t) ==
    /\ pc[t] = "read"
    /\ byte' = [byte EXCEPT ![t] = bitmap[cpu_id[t]] \cap Byte(list_id[t])]
    /\ pc' = [pc EXCEPT ![t] = "write"]
    /\ UNCHANGED <<bitmap, lock, held, op, cpu_id, list_id>>

(* Mutant of Write: set_bitmap assigns the byte instead of or-ing to it. *)
Write_assigns(t) ==
    /\ pc[t] = "write"
    /\ bitmap' = [bitmap EXCEPT ![cpu_id[t]] =
          (@ \ Byte(list_id[t])) \cup
          (IF op[t] = "alloc" THEN {list_id[t]} ELSE byte[t] \ {list_id[t]})]
    /\ pc' = [pc EXCEPT ![t] = "unlock"]
    /\ UNCHANGED <<lock, held, locals>>

(* ... and written. *)
Write(t) ==
    /\ pc[t] = "write"
    /\ bitmap' = [bitmap EXCEPT ![cpu_id[t]] =
          (@ \ Byte(list_id[t])) \cup
          (IF op[t] = "alloc" THEN byte[t] \cup {list_id[t]} ELSE byte[t] \ {list_id[t]})]
    /\ pc' = [pc EXCEPT ![t] = "unlock"]
    /\ UNCHANGED <<lock, held, locals>>

(* The lock is given back; an allocation that found a bit returns its      *)
(* buffer, one that did not returns NULL.                                  *)
Unlock(t) ==
    /\ pc[t] = "unlock"
    /\ lock' = [lock EXCEPT ![cpu_id[t]] = FALSE]
    /\ held' = IF op[t] = "alloc" /\ list_id[t] < EntrySz
               THEN held \cup {POLY_CACHE_BUF_VADDR(cpu_id[t], list_id[t])} ELSE held
    /\ pc' = [pc EXCEPT ![t] = "idle"] /\ op' = [op EXCEPT ![t] = "none"]
    /\ cpu_id' = [cpu_id EXCEPT ![t] = 0] /\ list_id' = [list_id EXCEPT ![t] = 0]
    /\ byte' = [byte EXCEPT ![t] = {}]
    /\ UNCHANGED bitmap

-----------------------------------------------------------------------------
Init ==
    /\ bitmap = [c \in Cpus |-> {}] /\ lock = [c \in Cpus |-> FALSE]
    /\ held = {}
    /\ pc = [t \in Threads |-> "idle"] /\ op = [t \in Threads |-> "none"]
    /\ cpu_id = [t \in Threads |-> 0] /\ list_id = [t \in Threads |-> 0]
    /\ byte = [t \in Threads |-> {}]

Next ==
    \E t \in Threads :
        \/ poly_cache_mm_alloc(t) \/ poly_cache_mm_free(t)
        \/ Lock(t) \/ Scan(t) \/ Read(t) \/ Write(t) \/ Unlock(t)

Spec == Init /\ [][Next]_vars

-----------------------------------------------------------------------------
(* Properties. *)

(* Threads with a buffer in their hands: allocated and not yet returned,   *)
(* or given to poly_cache_mm_free and its bit not yet clear.               *)
HasBuffer(t) ==
    \/ op[t] = "alloc" /\ pc[t] = "unlock" /\ list_id[t] < EntrySz
    \/ op[t] = "free" /\ pc[t] \in {"lock", "read", "write"}

(* A buffer handed out belongs to nobody else: not to the cache, not to a  *)
(* thread that is about to return it, not to one that has still to free it *)
(* (the spin lock, the scan and the address arithmetic).                   *)
NeverShared ==
    \A t \in Threads : HasBuffer(t) =>
        /\ POLY_CACHE_BUF_VADDR(cpu_id[t], list_id[t]) \notin held
        /\ \A u \in Threads : HasBuffer(u) /\ cpu_id[u] = cpu_id[t] /\ list_id[u] = list_id[t]
              => u = t

(* A set bit is a buffer somebody has, and every buffer has its bit: byte  *)
(* accesses of different CPUs' threads lose no update, a buffer freed on   *)
(* another CPU goes back where it came from, nothing leaks.                *)
BitmapExact ==
    \A c \in Cpus, i \in List :
        i \in bitmap[c] <=>
            \/ POLY_CACHE_BUF_VADDR(c, i) \in held
            \/ \E t \in Threads : HasBuffer(t) /\ cpu_id[t] = c /\ list_id[t] = i
=============================================================================
