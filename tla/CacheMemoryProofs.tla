-------------------------- MODULE CacheMemoryProofs --------------------------
(***************************************************************************)
(* Proofs, for any number of CPUs, list entries, bits per byte and threads *)
(* that the allocator never hands out a buffer twice and that its bitmaps  *)
(* are exact.                                                              *)
(***************************************************************************)
EXTENDS CacheMemory, TLAPS

(* The address arithmetic of cache_mm.c is a bijection. *)
LEMMA AddressFacts ==
    ASSUME NEW c \in Cpus, NEW i \in List
    PROVE  /\ POLY_CACHE_BUF_VADDR(c, i) \in 0 .. NumCpus * EntrySz - 1
           /\ POLY_CACHE_GET_CPU(POLY_CACHE_BUF_VADDR(c, i)) = c
           /\ POLY_CACHE_GET_FREE_LIST_INDEX(POLY_CACHE_BUF_VADDR(c, i), c) = i
  <1>0. /\ EntrySz \in Nat \ {0} /\ NumCpus \in Nat /\ c \in Nat /\ c + 1 <= NumCpus
        /\ i \in 0 .. EntrySz - 1
    BY SizeAssumption DEF Cpus, List
  <1>1. (c * EntrySz + i) \div EntrySz = c
    BY <1>0
  <1>2. c * EntrySz \in Nat /\ (c + 1) * EntrySz = c * EntrySz + EntrySz
    BY <1>0
  <1>3. (c + 1) * EntrySz <= NumCpus * EntrySz
    BY <1>0
  <1>4. NumCpus * EntrySz \in Nat
    BY <1>0
  <1>5. c * EntrySz + i \in 0 .. NumCpus * EntrySz - 1
    BY <1>0, <1>2, <1>3, <1>4
  <1>7. PICK v \in Int : v = c * EntrySz + i
    BY <1>5
  <1>8. v \in 0 .. NumCpus * EntrySz - 1 /\ v \div EntrySz = c /\ v - c * EntrySz = i
    <2>1. v \in 0 .. NumCpus * EntrySz - 1
      BY <1>5, <1>7
    <2>2. v \div EntrySz = c
      BY <1>1, <1>7, Zenon
    <2>3. v - c * EntrySz = i
      BY <1>0, <1>2, <1>7
    <2> QED BY <2>1, <2>2, <2>3, Zenon
  <1>9. POLY_CACHE_BUF_VADDR(c, i) = v
    BY <1>7 DEF POLY_CACHE_BUF_VADDR
  <1> QED BY <1>8, <1>9 DEF POLY_CACHE_GET_CPU, POLY_CACHE_GET_FREE_LIST_INDEX

(* Different places have different addresses. *)
LEMMA AddressInjective ==
    ASSUME NEW c \in Cpus, NEW i \in List, NEW d \in Cpus, NEW j \in List,
           POLY_CACHE_BUF_VADDR(c, i) = POLY_CACHE_BUF_VADDR(d, j)
    PROVE  c = d /\ i = j
  <1>1. c = d
    BY AddressFacts
  <1> QED BY <1>1, AddressFacts

-----------------------------------------------------------------------------
(* The inductive invariant. *)

InSection(t) == pc[t] \in {"scan", "read", "write", "unlock"}

(* The spin lock: who is inside has set it, and is alone on its CPU. *)
Exclusive ==
    /\ \A t \in Threads : InSection(t) => lock[cpu_id[t]]
    /\ \A t, u \in Threads : InSection(t) /\ InSection(u) /\ cpu_id[t] = cpu_id[u] => t = u

(* What a thread knows inside. *)
Knows(t) ==
    /\ pc[t] \in {"idle", "scan"} => op[t] # "free"
    /\ op[t] = "free" \/ pc[t] \in {"read", "write"} => list_id[t] \in List
    /\ pc[t] \in {"lock", "read", "write"} => op[t] # "none"
    /\ pc[t] = "scan" => op[t] = "alloc" /\ list_id[t] = EntrySz
    /\ pc[t] = "lock" /\ op[t] = "alloc" => list_id[t] = EntrySz
    /\ pc[t] \in {"read", "write"} /\ op[t] = "alloc" => list_id[t] \notin bitmap[cpu_id[t]]
    /\ pc[t] = "write" => byte[t] = bitmap[cpu_id[t]] \cap Byte(list_id[t])
Knowledge == \A t \in Threads : Knows(t)

(* The cache holds buffers of the region only. *)
HeldPlaces == \A v \in held : \E c \in Cpus, i \in List : v = POLY_CACHE_BUF_VADDR(c, i)

(* Thread t has the buffer of bit i of CPU c in its hands. *)
Has(t, c, i) == HasBuffer(t) /\ cpu_id[t] = c /\ list_id[t] = i

(* NeverShared and BitmapExact, place by place. *)
OneOwner ==
    \A c \in Cpus, i \in List, t \in Threads : Has(t, c, i) =>
        /\ POLY_CACHE_BUF_VADDR(c, i) \notin held
        /\ \A u \in Threads : Has(u, c, i) => u = t
Exact ==
    \A c \in Cpus, i \in List :
        i \in bitmap[c] <=> \/ POLY_CACHE_BUF_VADDR(c, i) \in held
                            \/ \E t \in Threads : Has(t, c, i)

IInv ==
    /\ TypeOK /\ Exclusive /\ Knowledge /\ HeldPlaces
    /\ OneOwner /\ Exact

(* A thread other than the one that steps keeps its locals. *)
Others(t) ==
    \A u \in Threads : u # t =>
        /\ pc'[u] = pc[u] /\ op'[u] = op[u] /\ cpu_id'[u] = cpu_id[u]
        /\ list_id'[u] = list_id[u] /\ byte'[u] = byte[u]

(* What a thread's hands depend on. *)
LEMMA OthersHave ==
    ASSUME NEW t, Others(t), NEW u \in Threads, u # t, NEW c, NEW i
    PROVE  Has(u, c, i)' <=> Has(u, c, i)
  BY DEF Others, Has, HasBuffer

(* A step of t that changes no list and nobody's hands, outside or into    *)
(* the locked section.                                                     *)
LEMMA Unseen ==
    ASSUME IInv, NEW t \in Threads, Others(t), UNCHANGED <<bitmap, held>>,
           \A c \in Cpus, i \in List : Has(t, c, i)' <=> Has(t, c, i)
    PROVE  HeldPlaces' /\ OneOwner' /\ Exact'
  <1>1. \A u \in Threads, c \in Cpus, i \in List : Has(u, c, i)' <=> Has(u, c, i)
    BY OthersHave
  <1>2. HeldPlaces'
    BY DEF IInv, HeldPlaces, POLY_CACHE_BUF_VADDR
  <1>3. ASSUME NEW c \in Cpus, NEW i \in List
        PROVE  /\ \A u \in Threads : Has(u, c, i)' =>
                      /\ POLY_CACHE_BUF_VADDR(c, i) \notin held'
                      /\ \A v \in Threads : Has(v, c, i)' => v = u
               /\ i \in bitmap'[c] <=> \/ POLY_CACHE_BUF_VADDR(c, i) \in held'
                                       \/ \E u \in Threads : Has(u, c, i)'
    BY <1>1 DEF IInv, OneOwner, Exact
  <1> QED BY <1>2, <1>3 DEF OneOwner, Exact, POLY_CACHE_BUF_VADDR

(* The knowledge of the other threads survives a change of the list of CPU *)
(* c if none of them is in that CPU's section.                             *)
LEMMA OthersKnow ==
    ASSUME IInv, NEW t \in Threads, Others(t), NEW c,
           \A d \in Cpus : d # c => bitmap'[d] = bitmap[d],
           \A u \in Threads : u # t /\ InSection(u) => cpu_id[u] # c \/ bitmap' = bitmap
    PROVE  \A u \in Threads : u # t => Knows(u)'
  <1>1. ASSUME NEW u \in Threads, u # t
        PROVE  Knows(u)'
    <2>1. Knows(u) /\ cpu_id[u] \in Cpus
      BY <1>1 DEF IInv, Knowledge, TypeOK
    <2>2. InSection(u) => bitmap'[cpu_id[u]] = bitmap[cpu_id[u]]
      BY <1>1, <2>1
    <2> QED BY <1>1, <2>1, <2>2 DEF Knows, Others, InSection, Byte
  <1> QED BY <1>1

-----------------------------------------------------------------------------
(* The steps. *)

(* poly_cache_mm_alloc is called. *)
LEMMA AllocHolds ==
    ASSUME IInv, NEW t \in Threads, poly_cache_mm_alloc(t)
    PROVE  IInv'
  <1>1. /\ Others(t) /\ UNCHANGED <<bitmap, lock, held>>
        /\ pc[t] = "idle" /\ pc'[t] = "lock" /\ op'[t] = "alloc" /\ list_id'[t] = EntrySz
    BY DEF poly_cache_mm_alloc, IInv, TypeOK, Others
  <1>2. TypeOK'
    <2>1. EntrySz \in 0 .. EntrySz /\ CpuOf[t] \in Cpus
      BY SizeAssumption, CpuAssumption
    <2> QED BY <2>1 DEF poly_cache_mm_alloc, IInv, TypeOK
  <1>3. Exclusive'
    BY <1>1 DEF IInv, Exclusive, InSection, Others
  <1>4. Knowledge'
    <2>1. \A u \in Threads : u # t => Knows(u)'
      BY <1>1, OthersKnow
    <2>2. Knows(t)'
      BY <1>1 DEF Knows
    <2> QED BY <2>1, <2>2 DEF Knowledge
  <1>5. \A c \in Cpus, i \in List : Has(t, c, i)' <=> Has(t, c, i)
    BY <1>1 DEF IInv, Knowledge, Knows, Has, HasBuffer
  <1>6. HeldPlaces' /\ OneOwner' /\ Exact'
    BY <1>1, <1>5, Unseen
  <1> QED BY <1>2, <1>3, <1>4, <1>6 DEF IInv

(* poly_cache_mm_free is called: the buffer passes from the cache to t. *)
LEMMA FreeHolds ==
    ASSUME IInv, NEW t \in Threads, poly_cache_mm_free(t)
    PROVE  IInv'
  <1>1. PICK v \in held :
            /\ held' = held \ {v}
            /\ cpu_id' = [cpu_id EXCEPT ![t] = POLY_CACHE_GET_CPU(v)]
            /\ list_id' = [list_id EXCEPT ![t] =
                   POLY_CACHE_GET_FREE_LIST_INDEX(v, POLY_CACHE_GET_CPU(v))]
    BY DEF poly_cache_mm_free
  <1>2. PICK c \in Cpus, i \in List : v = POLY_CACHE_BUF_VADDR(c, i)
    BY DEF IInv, HeldPlaces
  <1>3. POLY_CACHE_GET_CPU(v) = c /\ POLY_CACHE_GET_FREE_LIST_INDEX(v, c) = i
    BY <1>2, AddressFacts
  <1>4. /\ Others(t) /\ UNCHANGED <<bitmap, lock>> /\ held' = held \ {v}
        /\ pc[t] = "idle" /\ pc'[t] = "lock" /\ op'[t] = "free"
        /\ cpu_id'[t] = c /\ list_id'[t] = i
    BY <1>1, <1>3 DEF poly_cache_mm_free, IInv, TypeOK, Others
  <1>5. TypeOK'
    <2>1. i \in 0 .. EntrySz
      BY SizeAssumption DEF List
    <2> QED BY <1>1, <1>3, <2>1 DEF poly_cache_mm_free, IInv, TypeOK
  <1>6. Exclusive'
    BY <1>4 DEF IInv, Exclusive, InSection, Others
  <1>7. Knowledge'
    <2>1. \A u \in Threads : u # t => Knows(u)'
      BY <1>4, OthersKnow
    <2>2. Knows(t)'
      BY <1>4 DEF Knows
    <2> QED BY <2>1, <2>2 DEF Knowledge
  <1>8. HeldPlaces'
    BY <1>4 DEF IInv, HeldPlaces, POLY_CACHE_BUF_VADDR
  <1>9. /\ ~ \E u \in Threads : Has(u, c, i)
        /\ \A d \in Cpus, j \in List : ~ Has(t, d, j)
    <2>1. \A u \in Threads : ~ Has(u, c, i)
      BY <1>2 DEF IInv, OneOwner
    <2> QED BY <1>4, <2>1 DEF IInv, Knowledge, Knows, Has, HasBuffer
  <1>10. \A d \in Cpus, j \in List : Has(t, d, j)' <=> d = c /\ j = i
    BY <1>4 DEF Has, HasBuffer
  <1>11. ASSUME NEW d \in Cpus, NEW j \in List
         PROVE  /\ \A u \in Threads : Has(u, d, j)' =>
                       /\ POLY_CACHE_BUF_VADDR(d, j) \notin held'
                       /\ \A w \in Threads : Has(w, d, j)' => w = u
                /\ j \in bitmap'[d] <=> \/ POLY_CACHE_BUF_VADDR(d, j) \in held'
                                        \/ \E u \in Threads : Has(u, d, j)'
    <2>1. CASE d = c /\ j = i
      <3>1. \A u \in Threads : Has(u, d, j)' <=> u = t
        BY <1>4, <1>9, <1>10, <2>1, OthersHave
      <3>2. POLY_CACHE_BUF_VADDR(d, j) \notin held' /\ j \in bitmap'[d]
        BY <1>2, <1>4, <2>1 DEF IInv, Exact
      <3> QED BY <3>1, <3>2
    <2>2. CASE ~ (d = c /\ j = i)
      <3>1. \A u \in Threads : Has(u, d, j)' <=> Has(u, d, j)
        BY <1>4, <1>9, <1>10, <2>2, OthersHave
      <3>2. POLY_CACHE_BUF_VADDR(d, j) \in held' <=> POLY_CACHE_BUF_VADDR(d, j) \in held
        BY <1>2, <1>4, <2>2, AddressInjective
      <3> QED BY <1>4, <3>1, <3>2 DEF IInv, OneOwner, Exact
    <2> QED BY <2>1, <2>2
  <1>12. OneOwner' /\ Exact'
    BY <1>11 DEF OneOwner, Exact, POLY_CACHE_BUF_VADDR
  <1> QED BY <1>5, <1>6, <1>7, <1>8, <1>12 DEF IInv

(* The lock is taken. *)
LEMMA LockHolds ==
    ASSUME IInv, NEW t \in Threads, Lock(t)
    PROVE  IInv'
  <1>1. /\ Others(t) /\ UNCHANGED <<bitmap, held, op, cpu_id, list_id, byte>>
        /\ pc[t] = "lock" /\ pc'[t] = IF op[t] = "alloc" THEN "scan" ELSE "read"
        /\ ~ lock[cpu_id[t]] /\ lock' = [lock EXCEPT ![cpu_id[t]] = TRUE]
    BY DEF Lock, locals, IInv, TypeOK, Others
  <1>2. TypeOK'
    BY DEF Lock, locals, IInv, TypeOK
  <1>3. Exclusive'
    <2>1. \A u \in Threads : InSection(u) => cpu_id[u] # cpu_id[t]
      BY <1>1 DEF IInv, Exclusive
    <2> QED BY <1>1, <2>1 DEF IInv, TypeOK, Exclusive, InSection, Others
  <1>4. Knowledge'
    <2>1. \A u \in Threads : u # t => Knows(u)'
      BY <1>1, OthersKnow
    <2>2. Knows(t)'
      BY <1>1 DEF IInv, TypeOK, Knowledge, Knows
    <2> QED BY <2>1, <2>2 DEF Knowledge
  <1>5. \A c \in Cpus, i \in List : Has(t, c, i)' <=> Has(t, c, i)
    BY <1>1 DEF IInv, Knowledge, Knows, Has, HasBuffer
  <1>6. HeldPlaces' /\ OneOwner' /\ Exact'
    BY <1>1, <1>5, Unseen
  <1> QED BY <1>2, <1>3, <1>4, <1>6 DEF IInv

(* The list is searched. *)
LEMMA ScanHolds ==
    ASSUME IInv, NEW t \in Threads, Scan(t)
    PROVE  IInv'
  <1>1. /\ Others(t) /\ UNCHANGED <<bitmap, lock, held, op, cpu_id, byte>> /\ pc[t] = "scan"
        /\ \/ pc'[t] = "unlock" /\ list_id'[t] = list_id[t]
           \/ /\ pc'[t] = "read"
              /\ list_id'[t] \in List \ bitmap[cpu_id[t]]
    BY DEF Scan, IInv, TypeOK, Others
  <1>2. TypeOK'
    <2>1. List \subseteq 0 .. EntrySz
      BY SizeAssumption DEF List
    <2> QED BY <2>1 DEF Scan, IInv, TypeOK
  <1>3. Exclusive'
    BY <1>1 DEF IInv, Exclusive, InSection, Others
  <1>4. op[t] = "alloc" /\ list_id[t] = EntrySz
    BY <1>1 DEF IInv, Knowledge, Knows
  <1>5. Knowledge'
    <2>1. \A u \in Threads : u # t => Knows(u)'
      BY <1>1, OthersKnow
    <2>2. Knows(t)'
      BY <1>1, <1>4 DEF Knows
    <2> QED BY <2>1, <2>2 DEF Knowledge
  <1>6. \A c \in Cpus, i \in List : Has(t, c, i)' <=> Has(t, c, i)
    BY <1>1, <1>4, SizeAssumption DEF Has, HasBuffer
  <1>7. HeldPlaces' /\ OneOwner' /\ Exact'
    BY <1>1, <1>6, Unseen
  <1> QED BY <1>2, <1>3, <1>5, <1>7 DEF IInv

(* The byte is read. *)
LEMMA ReadHolds ==
    ASSUME IInv, NEW t \in Threads, Read(t)
    PROVE  IInv'
  <1>1. /\ Others(t) /\ UNCHANGED <<bitmap, lock, held, op, cpu_id, list_id>>
        /\ pc[t] = "read" /\ pc'[t] = "write"
        /\ byte'[t] = bitmap[cpu_id[t]] \cap Byte(list_id[t])
    BY DEF Read, IInv, TypeOK, Others
  <1>2. TypeOK'
    BY DEF Read, IInv, TypeOK
  <1>3. Exclusive'
    BY <1>1 DEF IInv, Exclusive, InSection, Others
  <1>4. Knowledge'
    <2>1. \A u \in Threads : u # t => Knows(u)'
      BY <1>1, OthersKnow
    <2>2. Knows(t)'
      BY <1>1 DEF IInv, Knowledge, Knows, Byte
    <2> QED BY <2>1, <2>2 DEF Knowledge
  <1>5. \A c \in Cpus, i \in List : Has(t, c, i)' <=> Has(t, c, i)
    BY <1>1 DEF Has, HasBuffer
  <1>6. HeldPlaces' /\ OneOwner' /\ Exact'
    BY <1>1, <1>5, Unseen
  <1> QED BY <1>2, <1>3, <1>4, <1>6 DEF IInv

(* The byte is written: the only step that changes a bit. *)
LEMMA WriteHolds ==
    ASSUME IInv, NEW t \in Threads, Write(t)
    PROVE  IInv'
  <1>0. PICK c \in Cpus, i \in List : c = cpu_id[t] /\ i = list_id[t]
    BY DEF Write, IInv, TypeOK, Knowledge, Knows
  <1>1. /\ Others(t) /\ UNCHANGED <<lock, held, op, cpu_id, list_id, byte>>
        /\ pc[t] = "write" /\ pc'[t] = "unlock"
    BY DEF Write, locals, IInv, TypeOK, Others
  <1>2. /\ byte[t] = bitmap[c] \cap Byte(i) /\ op[t] \in {"alloc", "free"}
        /\ op[t] = "alloc" => i \notin bitmap[c]
    BY <1>0, <1>1 DEF IInv, Knowledge, Knows, TypeOK
  <1>3. i \in Byte(i)
    BY DEF Byte
  <1>4. /\ \A d \in Cpus : d # c => bitmap'[d] = bitmap[d]
        /\ op[t] = "alloc" => bitmap'[c] = bitmap[c] \cup {i}
        /\ op[t] = "free" => bitmap'[c] = bitmap[c] \ {i}
        /\ bitmap' \in [Cpus -> SUBSET List]
    <2>1. bitmap' = [bitmap EXCEPT ![c] = (bitmap[c] \ Byte(i)) \cup
              (IF op[t] = "alloc" THEN byte[t] \cup {i} ELSE byte[t] \ {i})]
      BY <1>0 DEF Write
    <2>2. bitmap \in [Cpus -> SUBSET List] /\ bitmap[c] \subseteq List
      BY DEF IInv, TypeOK
    <2>3. CASE op[t] = "alloc"
      <3>1. bitmap' = [bitmap EXCEPT ![c] = bitmap[c] \cup {i}]
        BY <1>2, <1>3, <2>1, <2>3
      <3> QED BY <2>2, <2>3, <3>1
    <2>4. CASE op[t] = "free"
      <3>1. bitmap' = [bitmap EXCEPT ![c] = bitmap[c] \ {i}]
        BY <1>2, <1>3, <2>1, <2>4
      <3> QED BY <2>2, <2>4, <3>1
    <2> QED BY <1>2, <2>3, <2>4
  <1>5. TypeOK'
    BY <1>4 DEF Write, locals, IInv, TypeOK
  <1>6. Exclusive'
    BY <1>1 DEF IInv, Exclusive, InSection, Others
  <1>7. Knowledge'
    <2>1. \A u \in Threads : u # t /\ InSection(u) => cpu_id[u] # c
      BY <1>0, <1>1 DEF IInv, Exclusive, InSection
    <2>2. \A u \in Threads : u # t => Knows(u)'
      BY <1>1, <1>4, <2>1, OthersKnow
    <2>3. Knows(t)'
      BY <1>0, <1>1 DEF Knows
    <2> QED BY <2>2, <2>3 DEF Knowledge
  <1>8. HeldPlaces'
    BY <1>1 DEF IInv, HeldPlaces, POLY_CACHE_BUF_VADDR
  <1>9. /\ \A d \in Cpus, j \in List : Has(t, d, j) <=> op[t] = "free" /\ d = c /\ j = i
        /\ \A d \in Cpus, j \in List : Has(t, d, j)' <=> op[t] = "alloc" /\ d = c /\ j = i
    <2>1. i < EntrySz
      BY SizeAssumption DEF List
    <2> QED BY <1>0, <1>1, <2>1 DEF Has, HasBuffer
  <1>10. ASSUME NEW d \in Cpus, NEW j \in List
         PROVE  /\ \A u \in Threads : Has(u, d, j)' =>
                       /\ POLY_CACHE_BUF_VADDR(d, j) \notin held'
                       /\ \A w \in Threads : Has(w, d, j)' => w = u
                /\ j \in bitmap'[d] <=> \/ POLY_CACHE_BUF_VADDR(d, j) \in held'
                                        \/ \E u \in Threads : Has(u, d, j)'
    <2>1. \A u \in Threads : u # t => (Has(u, d, j)' <=> Has(u, d, j))
      BY <1>1, OthersHave
    <2>2. /\ \A u \in Threads : Has(u, d, j) =>
                 /\ POLY_CACHE_BUF_VADDR(d, j) \notin held
                 /\ \A w \in Threads : Has(w, d, j) => w = u
          /\ j \in bitmap[d] <=> \/ POLY_CACHE_BUF_VADDR(d, j) \in held
                                 \/ \E u \in Threads : Has(u, d, j)
      BY DEF IInv, OneOwner, Exact
    <2>3. CASE d = c /\ j = i /\ op[t] = "alloc"
      <3>1. /\ POLY_CACHE_BUF_VADDR(d, j) \notin held
            /\ \A u \in Threads : ~ Has(u, d, j)
        BY <1>2, <2>2, <2>3
      <3> QED BY <1>1, <1>4, <1>9, <2>1, <2>3, <3>1
    <2>4. CASE d = c /\ j = i /\ op[t] = "free"
      <3>1. Has(t, d, j) /\ ~ Has(t, d, j)'
        BY <1>9, <2>4
      <3>2. /\ POLY_CACHE_BUF_VADDR(d, j) \notin held
            /\ \A u \in Threads : ~ Has(u, d, j)'
        BY <2>1, <2>2, <3>1
      <3> QED BY <1>1, <1>4, <2>4, <3>2
    <2>5. CASE ~ (d = c /\ j = i)
      <3>1. \A u \in Threads : Has(u, d, j)' <=> Has(u, d, j)
        BY <1>9, <2>1, <2>5
      <3>2. j \in bitmap'[d] <=> j \in bitmap[d]
        BY <1>2, <1>4, <2>5
      <3> QED BY <1>1, <2>2, <3>1, <3>2
    <2> QED BY <1>2, <2>3, <2>4, <2>5
  <1>11. OneOwner' /\ Exact'
    BY <1>10 DEF OneOwner, Exact, POLY_CACHE_BUF_VADDR
  <1> QED BY <1>5, <1>6, <1>7, <1>8, <1>11 DEF IInv

(* The call returns: an allocated buffer passes from t to the cache. *)
LEMMA UnlockHolds ==
    ASSUME IInv, NEW t \in Threads, Unlock(t)
    PROVE  IInv'
  <1>0. PICK c \in Cpus, i \in 0 .. EntrySz : c = cpu_id[t] /\ i = list_id[t]
    BY DEF IInv, TypeOK
  <1>1. /\ Others(t) /\ UNCHANGED bitmap
        /\ pc[t] = "unlock" /\ pc'[t] = "idle" /\ op'[t] = "none"
        /\ lock' = [lock EXCEPT ![c] = FALSE]
    BY <1>0 DEF Unlock, IInv, TypeOK, Others
  <1>2. ~ \E d \in Cpus, j \in List : Has(t, d, j)'
    BY <1>1 DEF Has, HasBuffer
  <1>3. /\ op[t] = "alloc" /\ i \in List => /\ held' = held \cup {POLY_CACHE_BUF_VADDR(c, i)}
                                            /\ \A d \in Cpus, j \in List :
                                                  Has(t, d, j) <=> d = c /\ j = i
        /\ ~ (op[t] = "alloc" /\ i \in List) => /\ held' = held
                                               /\ ~ \E d \in Cpus, j \in List : Has(t, d, j)
    <2>1. i \in List <=> i < EntrySz
      BY SizeAssumption DEF List
    <2>2. held' = IF op[t] = "alloc" /\ i < EntrySz
                  THEN held \cup {POLY_CACHE_BUF_VADDR(c, i)} ELSE held
      BY <1>0 DEF Unlock
    <2>3. \A d \in Cpus, j \in List :
              Has(t, d, j) <=> op[t] = "alloc" /\ i < EntrySz /\ d = c /\ j = i
      BY <1>0, <1>1 DEF Has, HasBuffer
    <2> QED BY <2>1, <2>2, <2>3
  <1>4. TypeOK'
    <2>1. held' \subseteq 0 .. NumCpus * EntrySz - 1
      <3>1. i \in List => POLY_CACHE_BUF_VADDR(c, i) \in 0 .. NumCpus * EntrySz - 1
        BY AddressFacts
      <3>2. held \subseteq 0 .. NumCpus * EntrySz - 1
        BY DEF IInv, TypeOK
      <3> QED BY <1>3, <3>1, <3>2, Zenon
    <2>2. 0 \in Cpus /\ 0 \in 0 .. EntrySz
      BY SizeAssumption DEF Cpus
    <2> QED BY <2>1, <2>2 DEF Unlock, IInv, TypeOK
  <1>5. Exclusive'
    <2>1. \A u \in Threads : u # t /\ InSection(u) => cpu_id[u] # c
      BY <1>0, <1>1 DEF IInv, Exclusive, InSection
    <2> QED BY <1>1, <2>1 DEF IInv, TypeOK, Exclusive, InSection, Others
  <1>6. Knowledge'
    <2>1. \A u \in Threads : u # t => Knows(u)'
      BY <1>1, OthersKnow
    <2>2. Knows(t)'
      BY <1>1 DEF Knows
    <2> QED BY <2>1, <2>2 DEF Knowledge
  <1>7. HeldPlaces'
    BY <1>3 DEF IInv, HeldPlaces, POLY_CACHE_BUF_VADDR
  <1>8. ASSUME NEW d \in Cpus, NEW j \in List
        PROVE  /\ \A u \in Threads : Has(u, d, j)' =>
                      /\ POLY_CACHE_BUF_VADDR(d, j) \notin held'
                      /\ \A w \in Threads : Has(w, d, j)' => w = u
               /\ j \in bitmap'[d] <=> \/ POLY_CACHE_BUF_VADDR(d, j) \in held'
                                       \/ \E u \in Threads : Has(u, d, j)'
    <2>1. \A u \in Threads : u # t => (Has(u, d, j)' <=> Has(u, d, j))
      BY <1>1, OthersHave
    <2>2. /\ \A u \in Threads : Has(u, d, j) =>
                 /\ POLY_CACHE_BUF_VADDR(d, j) \notin held
                 /\ \A w \in Threads : Has(w, d, j) => w = u
          /\ j \in bitmap[d] <=> \/ POLY_CACHE_BUF_VADDR(d, j) \in held
                                 \/ \E u \in Threads : Has(u, d, j)
      BY DEF IInv, OneOwner, Exact
    <2>3. CASE op[t] = "alloc" /\ i \in List /\ d = c /\ j = i
      <3>1. Has(t, d, j) /\ POLY_CACHE_BUF_VADDR(d, j) \in held'
        BY <1>3, <2>3
      <3>2. \A u \in Threads : ~ Has(u, d, j)'
        BY <1>2, <2>1, <2>2, <3>1
      <3> QED BY <1>1, <2>2, <3>1, <3>2
    <2>4. CASE ~ (op[t] = "alloc" /\ i \in List /\ d = c /\ j = i)
      <3>1. \A u \in Threads : Has(u, d, j)' <=> Has(u, d, j)
        BY <1>2, <1>3, <2>1, <2>4
      <3>2. POLY_CACHE_BUF_VADDR(d, j) \in held' <=> POLY_CACHE_BUF_VADDR(d, j) \in held
        BY <1>3, <2>4, AddressInjective
      <3> QED BY <1>1, <2>2, <3>1, <3>2
    <2> QED BY <2>3, <2>4
  <1>9. OneOwner' /\ Exact'
    BY <1>8 DEF OneOwner, Exact, POLY_CACHE_BUF_VADDR
  <1> QED BY <1>4, <1>5, <1>6, <1>7, <1>9 DEF IInv

-----------------------------------------------------------------------------
(* Empty lists satisfy the invariant. *)
LEMMA InitHolds ==
    ASSUME Init
    PROVE  IInv
  <1>1. TypeOK
    BY SizeAssumption DEF Init, TypeOK, Cpus
  <1>2. Exclusive /\ Knowledge /\ HeldPlaces
    BY DEF Init, Exclusive, InSection, Knowledge, Knows, HeldPlaces
  <1>3. \A t \in Threads, c \in Cpus, i \in List : ~ Has(t, c, i)
    BY DEF Init, Has, HasBuffer
  <1>4. OneOwner /\ Exact
    BY <1>3 DEF Init, OneOwner, Exact
  <1> QED BY <1>1, <1>2, <1>4 DEF IInv

(* Every step preserves the invariant. *)
LEMMA StepHolds ==
    ASSUME IInv, [Next]_vars
    PROVE  IInv'
  <1>1. CASE UNCHANGED vars
    BY <1>1 DEF vars, locals, IInv, TypeOK, Exclusive, InSection, Knowledge, Knows, Byte,
                HeldPlaces, OneOwner, Exact, Has, HasBuffer, POLY_CACHE_BUF_VADDR
  <1> QED BY <1>1, AllocHolds, FreeHolds, LockHolds, ScanHolds, ReadHolds, WriteHolds,
             UnlockHolds DEF Next

(* The inductive invariant holds in every state. *)
THEOREM Invariance == Spec => []IInv
  <1>1. Init => IInv
    BY InitHolds
  <1>2. IInv /\ [Next]_vars => IInv'
    BY StepHolds
  <1> QED BY <1>1, <1>2, PTL DEF Spec

(* Where a thread's buffer is. *)
LEMMA HandsFull ==
    ASSUME IInv, NEW t \in Threads, HasBuffer(t)
    PROVE  cpu_id[t] \in Cpus /\ list_id[t] \in List /\ Has(t, cpu_id[t], list_id[t])
  BY SizeAssumption DEF IInv, TypeOK, Knowledge, Knows, HasBuffer, Has, List

(* Every buffer the cache holds lies inside the region. *)
THEOREM TypeCorrect == Spec => []TypeOK
  <1>1. IInv => TypeOK
    BY DEF IInv
  <1> QED BY <1>1, Invariance, PTL

(* poly_cache_mm_alloc never hands out a buffer somebody has. *)
THEOREM BuffersDistinct == Spec => []NeverShared
  <1>1. IInv => NeverShared
    <2>1. SUFFICES ASSUME IInv, NEW t \in Threads, HasBuffer(t)
                   PROVE  /\ POLY_CACHE_BUF_VADDR(cpu_id[t], list_id[t]) \notin held
                          /\ \A u \in Threads : HasBuffer(u) /\ cpu_id[u] = cpu_id[t]
                                /\ list_id[u] = list_id[t] => u = t
      BY DEF NeverShared
    <2>2. cpu_id[t] \in Cpus /\ list_id[t] \in List /\ Has(t, cpu_id[t], list_id[t])
      BY <2>1, HandsFull
    <2> QED BY <2>1, <2>2 DEF IInv, OneOwner, Has
  <1> QED BY <1>1, Invariance, PTL

(* The bitmaps say exactly which buffers are in use. *)
THEOREM BitmapsExact == Spec => []BitmapExact
  <1>1. IInv => BitmapExact
    BY DEF IInv, Exact, Has, BitmapExact
  <1> QED BY <1>1, Invariance, PTL
=============================================================================
