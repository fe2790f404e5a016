--------------------------- MODULE PolyInodeProofs ---------------------------
(***************************************************************************)
(* Proofs about PolyInode, for any number of paths, threads and calls, when *)
(* renames are alone and go to free names: the reference count is exact,   *)
(* the kernel's table leads to the inodes in use, a file has one inode, and *)
(* freed inodes are used only after a race of calls on one path.           *)
(***************************************************************************)
EXTENDS PolyInode, FiniteSetTheorems, SequenceTheorems, TLAPS

EntryRec  == [path : Paths, ino : Ids]
InodeRec  == [memory : {"none", "live", "freed"}, path : Paths \cup {None},
              refcount : Nat, reclaim : BOOLEAN]
ThreadRec == [pc : PCs, path : Paths \cup {None}, to : Paths \cup {None},
              fd : Ids \cup {None}, file : Ids \cup {None},
              ino : Ids \cup {None}, found : Ids \cup {None}]
RefRec    == [fd : Ids, file : Ids, ino : Ids]

-----------------------------------------------------------------------------
(* The inductive invariant. *)

(* The list l has an entry that leads from p to i; no path is in it twice. *)
Entry(l, p, i) == \E k \in DOMAIN l : l[k].path = p /\ l[k].ino = i
KeysOnce(l)    == \A j, k \in DOMAIN l : l[j].path = l[k].path => j = k

(* The kernel's table is exactly the inodes in memory, under their paths. *)
Tables ==
    /\ KeysOnce(table)
    /\ \A p \in Paths, i \in Ids :
          Entry(table, p, i) <=> inode[i].memory = "live" /\ inode[i].path = p
    /\ \A i \in Ids : /\ inode[i].memory = "live" => inode[i].path \in Paths
                      /\ i > inodes => inode[i].memory = "none"

(* A descriptor number is that of one call, one handle, or one close. *)
HasFd(t) == thr[t].pc \in OpenPCs \cup ClosePCs
Numbers ==
    /\ \A t \in Threads : HasFd(t) =>
          /\ thr[t].fd \in 1 .. calls
          /\ \A h \in fds : h.fd # thr[t].fd
          /\ \A u \in Threads : u # t /\ HasFd(u) => thr[u].fd # thr[t].fd
    /\ \A h \in fds : h.fd \in 1 .. calls
    /\ \A g, h \in fds : g.fd = h.fd => g = h

(* Inode numbers and files are used up by open calls. *)
Pending == {thr[t].fd : t \in {t \in Threads : thr[t].pc \in {"search", "insert"}}}
Budget  == inodes + Cardinality(Pending) <= calls /\ files <= calls

(* What a call knows, and is still true. *)
Knows(t) ==
    /\ thr[t].pc \in OpenPCs => thr[t].path \in Paths /\ thr[t].file \in 1 .. files
    /\ thr[t].pc = "count" =>
          /\ thr[t].ino \in Ids /\ inode[thr[t].ino].memory # "none"
          /\ inode[thr[t].ino].path = thr[t].path
    /\ thr[t].pc \in ClosePCs => thr[t].file \in Ids /\ thr[t].ino \in Ids
    /\ thr[t].pc \in {"closefind", "closed"} => thr[t].path = inode[thr[t].ino].path
    /\ thr[t].pc = "closed" => thr[t].found = thr[t].ino
    /\ thr[t].pc \in UnlinkPCs => thr[t].path \in Paths
    /\ thr[t].pc = "drop" => thr[t].ino \in Ids
    /\ thr[t].pc = "unlinked" =>
          /\ thr[t].found \in Ids /\ inode[thr[t].found].memory # "none"
          /\ inode[thr[t].found].path = thr[t].path

(* A rename is alone, and its new name is free until it takes it. *)
Renames(t) ==
    thr[t].pc \in RenamePCs =>
        /\ thr[t].path \in Paths /\ thr[t].to \in Paths /\ thr[t].path # thr[t].to
        /\ \A u \in Threads : u # t => thr[u].pc = "idle"
        /\ thr[t].pc \in {"rename", "krename"} => \A i \in Ids : ~ Entry(table, thr[t].to, i)
        /\ thr[t].pc = "krename" => disk[thr[t].path] = None
Locals == \A t \in Threads : Knows(t) /\ Renames(t)

(* References keep their inodes in memory and are counted. *)
References ==
    /\ IsFiniteSet(Refs)
    /\ \A h \in Refs : inode[h.ino].memory = "live" /\ h.file \in 1 .. files
    /\ RefcountExact

(* A file is found at one path: by the file systems, by opens in progress, *)
(* by the inodes of its references, which a rename moves later.            *)
OnDisk ==
    /\ \A p, q \in Paths : disk[p] = disk[q] /\ disk[p] # None => p = q
    /\ \A p \in Paths : disk[p] # None => disk[p] \in 1 .. files
    /\ \A t \in Threads, p \in Paths :
          thr[t].pc \in OpenPCs /\ disk[p] = thr[t].file => p = thr[t].path
    /\ \A h \in Refs, p \in Paths : disk[p] = h.file =>
          \/ p = inode[h.ino].path
          \/ \E t \in Threads : /\ thr[t].pc = "krename"
                                /\ thr[t].path = inode[h.ino].path /\ thr[t].to = p
Shared ==
    /\ OneInodePerFile
    /\ \A t \in Threads, h \in Refs : thr[t].pc \in OpenPCs /\ thr[t].file = h.file =>
          thr[t].path = inode[h.ino].path
    /\ \A t, u \in Threads :
          thr[t].pc \in OpenPCs /\ thr[u].pc \in OpenPCs /\ thr[t].file = thr[u].file =>
              thr[t].path = thr[u].path

IInv == TypeOK /\ Tables /\ Numbers /\ Budget /\ Locals /\ References /\ OnDisk /\ Shared

-----------------------------------------------------------------------------
(* Operators of the model: the kernel's hash table. *)

(* The least of a set of list positions is one of them. *)
LEMMA MinPosition ==
    ASSUME NEW n \in Nat, NEW S \in SUBSET (1 .. n), S # {}
    PROVE  Min(S) \in S
  <1>1. S \subseteq Nat
    OBVIOUS
  <1>2. \E x \in S : \A y \in S : ~ (<<y, x>> \in OpToRel(<, Nat))
    BY <1>1, NatLessThanWellFounded, WFMin, Zenon
  <1>3. \A x, y \in Nat : ~ (<<y, x>> \in OpToRel(<, Nat)) => x =< y
    <2> SUFFICES ASSUME NEW x \in Nat, NEW y \in Nat, ~ (x =< y)
                 PROVE  <<y, x>> \in OpToRel(<, Nat)
      OBVIOUS
    <2>1. y < x
      OBVIOUS
    <2> QED
      BY <2>1 DEF OpToRel
  <1>4. \E x \in S : \A y \in S : x =< y
    BY <1>1, <1>2, <1>3
  <1> QED
    BY <1>4 DEF Min

(* The position a search stops at. *)
LEMMA FindIs ==
    ASSUME table \in Seq(EntryRec), NEW p
    PROVE  \/ Find(p) = 0 /\ \A k \in DOMAIN table : table[k].path # p
           \/ Find(p) \in DOMAIN table /\ table[Find(p)].path = p
  <1> DEFINE I == {i \in 1 .. Len(table) : table[i].path = p}
  <1>1. Find(p) = IF I # {} THEN Min(I) ELSE 0
    BY DEF Find, SelectInSeq
  <1>2. Len(table) \in Nat /\ DOMAIN table = 1 .. Len(table)
    OBVIOUS
  <1>3. CASE I = {}
    BY <1>1, <1>2, <1>3
  <1>4. CASE I # {}
    <2>1. Min(I) \in I
      BY <1>2, <1>4, MinPosition
    <2> QED
      BY <1>1, <1>2, <1>4, <2>1
  <1> QED
    BY <1>3, <1>4

LEMMA SearchIs ==
    ASSUME TypeOK, KeysOnce(table), NEW p \in Paths
    PROVE  /\ i_hashtable_search(p) \in Ids \cup {None}
           /\ i_hashtable_search(p) = None <=> Find(p) = 0
           /\ \A i \in Ids : Entry(table, p, i) <=> i_hashtable_search(p) = i
  <1>0. table \in Seq(EntryRec) /\ None \notin Ids
    BY BoundAssumption DEF TypeOK, EntryRec, Ids
  <1>00. DOMAIN table = 1 .. Len(table) /\ Len(table) \in Nat
         /\ \A k \in DOMAIN table : table[k] \in EntryRec
    BY <1>0
  <1>1. CASE Find(p) = 0 /\ \A k \in DOMAIN table : table[k].path # p
    BY <1>0, <1>1 DEF i_hashtable_search, Entry
  <1>2. CASE Find(p) \in DOMAIN table /\ table[Find(p)].path = p
    <2>1. Find(p) # 0 /\ i_hashtable_search(p) = table[Find(p)].ino
      BY <1>00, <1>2 DEF i_hashtable_search
    <2>2. table[Find(p)].ino \in Ids
      BY <1>00, <1>2 DEF EntryRec
    <2> QED
      BY <1>0, <1>2, <2>1, <2>2 DEF Entry, KeysOnce
  <1> QED
    BY <1>0, <1>1, <1>2, FindIs

(* A list without its i-th element. *)
LEMMA RemoveIs ==
    ASSUME NEW l \in Seq(EntryRec), NEW i \in DOMAIN l
    PROVE  /\ RemoveAt(l, i) \in Seq(EntryRec)
           /\ DOMAIN RemoveAt(l, i) = 1 .. Len(l) - 1
           /\ \A k \in 1 .. Len(l) - 1 : RemoveAt(l, i)[k] = l[IF k < i THEN k ELSE k + 1]
  <1>1. DOMAIN l = 1 .. Len(l) /\ Len(l) \in Nat /\ i \in 1 .. Len(l)
    OBVIOUS
  <1> DEFINE a == SubSeq(l, 1, i - 1)
             b == SubSeq(l, i + 1, Len(l))
  <1>3. /\ a \in Seq(EntryRec) /\ Len(a) = i - 1 /\ \A k \in 1 .. i - 1 : a[k] = l[k]
    BY <1>1
  <1>4. /\ b \in Seq(EntryRec) /\ Len(b) = Len(l) - i
        /\ \A k \in 1 .. Len(l) - i : b[k] = l[i + k]
    BY <1>1
  <1>5. RemoveAt(l, i) = a \o b
    BY DEF RemoveAt
  <1> HIDE DEF a, b
  <1> DEFINE r == a \o b
  <1>6. /\ r \in Seq(EntryRec) /\ Len(r) = Len(l) - 1 /\ DOMAIN r = 1 .. Len(l) - 1
        /\ \A k \in 1 .. Len(l) - 1 : r[k] = IF k <= i - 1 THEN a[k] ELSE b[k - (i - 1)]
    <2>1. /\ r \in Seq(EntryRec) /\ Len(r) = Len(a) + Len(b)
          /\ \A k \in 1 .. Len(a) + Len(b) :
                r[k] = IF k <= Len(a) THEN a[k] ELSE b[k - Len(a)]
      BY <1>3, <1>4, SMTT(60)
    <2>2. Len(a) = i - 1 /\ Len(a) + Len(b) = Len(l) - 1
      BY <1>1, <1>3, <1>4
    <2>3. DOMAIN r = 1 .. Len(r)
      BY <2>1
    <2> HIDE DEF r
    <2> QED
      BY <2>1, <2>2, <2>3
  <1>7. ASSUME NEW k \in 1 .. Len(l) - 1
        PROVE  r[k] = l[IF k < i THEN k ELSE k + 1]
    <2>1. CASE k < i
      <3>1. k \in 1 .. i - 1 /\ k <= i - 1
        BY <1>1, <2>1
      <3>2. r[k] = a[k]
        BY <1>6, <3>1
      <3> QED
        BY <1>3, <2>1, <3>1, <3>2
    <2>2. CASE ~ (k < i)
      <3>1. k - (i - 1) \in 1 .. Len(l) - i /\ i + (k - (i - 1)) = k + 1 /\ ~ (k <= i - 1)
        BY <1>1, <2>2
      <3>2. r[k] = b[k - (i - 1)]
        BY <1>6, <3>1
      <3>3. b[k - (i - 1)] = l[i + (k - (i - 1))]
        BY <1>4, <3>1
      <3> QED
        BY <2>2, <3>1, <3>2, <3>3
    <2> QED
      BY <2>1, <2>2
  <1> HIDE DEF r
  <1>8. RemoveAt(l, i) = r
    BY <1>5 DEF r
  <1> QED
    BY <1>6, <1>7, <1>8

LEMMA DeleteIs ==
    ASSUME TypeOK, KeysOnce(table), NEW p \in Paths
    PROVE  /\ i_hashtable_delete(p) \in Seq(EntryRec) /\ KeysOnce(i_hashtable_delete(p))
           /\ \A q \in Paths, i \in Ids :
                 Entry(i_hashtable_delete(p), q, i) <=> Entry(table, q, i) /\ q # p
  <1>0. table \in Seq(EntryRec) /\ DOMAIN table = 1 .. Len(table) /\ Len(table) \in Nat
    BY DEF TypeOK, EntryRec
  <1>1. CASE Find(p) = 0 /\ \A k \in DOMAIN table : table[k].path # p
    BY <1>0, <1>1 DEF i_hashtable_delete, Entry
  <1>2. CASE Find(p) \in DOMAIN table /\ table[Find(p)].path = p
    <2> PICK f \in DOMAIN table : f = Find(p)
      BY <1>2
    <2> PICK r : r = i_hashtable_delete(p)
      OBVIOUS
    <2>1. r = RemoveAt(table, f)
      BY <1>0, <1>2 DEF i_hashtable_delete
    <2> DEFINE m(k) == IF k < f THEN k ELSE k + 1
    <2>2. /\ r \in Seq(EntryRec) /\ DOMAIN r = 1 .. Len(table) - 1
          /\ \A k \in 1 .. Len(table) - 1 : r[k] = table[m(k)]
      BY <1>0, <2>1, RemoveIs
    <2>3. /\ \A k \in 1 .. Len(table) - 1 : m(k) \in DOMAIN table /\ m(k) # f
          /\ \A j, k \in 1 .. Len(table) - 1 : m(j) = m(k) => j = k
          /\ \A j \in DOMAIN table : j # f => \E k \in 1 .. Len(table) - 1 : m(k) = j
      <3>1. \A k \in 1 .. Len(table) - 1 : m(k) \in DOMAIN table /\ m(k) # f
        BY <1>0
      <3>2. \A j, k \in 1 .. Len(table) - 1 : m(j) = m(k) => j = k
        BY <1>0
      <3>3. ASSUME NEW j \in DOMAIN table, j # f
            PROVE  \E k \in 1 .. Len(table) - 1 : m(k) = j
        <4>1. CASE j < f
          <5>1. j \in 1 .. Len(table) - 1 /\ m(j) = j
            BY <1>0, <4>1
          <5> QED
            BY <5>1
        <4>2. CASE j > f
          <5>1. j - 1 \in 1 .. Len(table) - 1 /\ m(j - 1) = j
            BY <1>0, <4>2
          <5> QED
            BY <5>1
        <4> QED
          BY <1>0, <3>3, <4>1, <4>2
      <3> QED
        BY <3>1, <3>2, <3>3
    <2> HIDE DEF m
    <2>4. KeysOnce(r)
      BY <2>2, <2>3 DEF KeysOnce
    <2>5. ASSUME NEW q \in Paths, NEW i \in Ids, Entry(r, q, i)
          PROVE  Entry(table, q, i) /\ q # p
      BY <1>2, <2>2, <2>3, <2>5 DEF Entry, KeysOnce
    <2>6. ASSUME NEW q \in Paths, NEW i \in Ids, Entry(table, q, i), q # p
          PROVE  Entry(r, q, i)
      <3>1. PICK j \in DOMAIN table : table[j].path = q /\ table[j].ino = i
        BY <2>6 DEF Entry
      <3>2. PICK k \in 1 .. Len(table) - 1 : m(k) = j
        BY <1>2, <2>3, <2>6, <3>1
      <3> QED
        BY <2>2, <3>1, <3>2 DEF Entry
    <2> QED
      BY <2>2, <2>4, <2>5, <2>6
  <1> QED
    BY <1>0, <1>1, <1>2, FindIs

LEMMA InsertIs ==
    ASSUME NEW l \in Seq(EntryRec), KeysOnce(l), NEW p \in Paths, NEW i \in Ids,
           \A j \in Ids : ~ Entry(l, p, j)
    PROVE  /\ i_hashtable_insert(l, p, i) \in Seq(EntryRec)
           /\ KeysOnce(i_hashtable_insert(l, p, i))
           /\ \A q \in Paths, j \in Ids :
                 Entry(i_hashtable_insert(l, p, i), q, j) <=>
                    Entry(l, q, j) \/ (q = p /\ j = i)
  <1> PICK e \in EntryRec : e = [path |-> p, ino |-> i]
    BY DEF EntryRec
  <1> PICK r : r = i_hashtable_insert(l, p, i)
    OBVIOUS
  <1>1. r = <<e>> \o l
    BY DEF i_hashtable_insert
  <1>2. DOMAIN l = 1 .. Len(l) /\ Len(l) \in Nat /\ \A k \in DOMAIN l : l[k] \in EntryRec
    OBVIOUS
  <1>3. /\ r \in Seq(EntryRec) /\ DOMAIN r = 1 .. Len(l) + 1
        /\ r[1] = e /\ \A k \in 1 .. Len(l) : r[k + 1] = l[k]
    BY <1>1
  <1>4. \A k \in 1 .. Len(l) + 1 : k = 1 \/ (k - 1 \in 1 .. Len(l) /\ (k - 1) + 1 = k)
    BY <1>2
  <1>5. e.path = p /\ e.ino = i
    OBVIOUS
  <1>6. \A k \in DOMAIN l : l[k].path # p
    BY <1>2 DEF Entry, EntryRec
  <1>7. \A k \in DOMAIN r : k = 1 \/ (k - 1 \in DOMAIN l /\ r[k] = l[k - 1])
    BY <1>2, <1>3, <1>4
  <1>8. KeysOnce(r)
    <2> SUFFICES ASSUME NEW j \in DOMAIN r, NEW k \in DOMAIN r, r[j].path = r[k].path
                 PROVE  j = k
      BY DEF KeysOnce
    <2>1. j \in Nat /\ k \in Nat
      BY <1>2, <1>3
    <2>2. CASE j = 1 /\ k = 1
      BY <2>2
    <2>3. CASE j # 1 /\ k # 1
      <3>1. j - 1 \in DOMAIN l /\ k - 1 \in DOMAIN l /\ l[j - 1].path = l[k - 1].path
        BY <1>7, <2>3
      <3>2. j - 1 = k - 1
        BY <3>1 DEF KeysOnce
      <3> QED
        BY <2>1, <3>2
    <2>4. CASE j = 1 /\ k # 1
      BY <1>3, <1>5, <1>6, <1>7, <2>4
    <2>5. CASE j # 1 /\ k = 1
      BY <1>3, <1>5, <1>6, <1>7, <2>5
    <2> QED
      BY <2>2, <2>3, <2>4, <2>5
  <1>9. ASSUME NEW q \in Paths, NEW j \in Ids, Entry(r, q, j)
        PROVE  Entry(l, q, j) \/ (q = p /\ j = i)
    BY <1>3, <1>5, <1>7, <1>9 DEF Entry
  <1>10. ASSUME NEW q \in Paths, NEW j \in Ids, Entry(l, q, j) \/ (q = p /\ j = i)
         PROVE  Entry(r, q, j)
    <2>1. 1 \in DOMAIN r /\ \A k \in DOMAIN l : k + 1 \in DOMAIN r /\ r[k + 1] = l[k]
      BY <1>2, <1>3
    <2>2. CASE q = p /\ j = i
      BY <1>3, <1>5, <2>1, <2>2 DEF Entry
    <2>3. CASE Entry(l, q, j)
      <3>1. PICK k \in DOMAIN l : l[k].path = q /\ l[k].ino = j
        BY <2>3 DEF Entry
      <3>2. k + 1 \in DOMAIN r /\ r[k + 1] = l[k]
        BY <2>1
      <3> QED
        BY <3>1, <3>2 DEF Entry
    <2> QED
      BY <1>10, <2>2, <2>3
  <1> QED
    BY <1>3, <1>8, <1>9, <1>10

-----------------------------------------------------------------------------
(* The references, and steps that leave them alone. *)

Ref(t) == [fd |-> thr[t].fd, file |-> thr[t].file, ino |-> thr[t].ino]

LEMMA RefsIs ==
    \A h : h \in Refs <=> h \in fds \/ \E t \in Threads : thr[t].pc \in ClosePCs /\ h = Ref(t)
  BY DEF Refs, Closing, Ref

LEMMA RefsAfter ==
    \A h : h \in Refs' <=>
        h \in fds' \/ \E t \in Threads : thr'[t].pc \in ClosePCs /\ h = Ref(t)'
  BY DEF Refs, Closing, Ref

LEMMA RefIs ==
    ASSUME NEW t
    PROVE  Ref(t).fd = thr[t].fd /\ Ref(t).file = thr[t].file /\ Ref(t).ino = thr[t].ino
  BY DEF Ref

(* Every reference has a descriptor number, a file and an inode. *)
LEMMA RefsTyped ==
    ASSUME TypeOK, Numbers, Locals
    PROVE  \A h \in Refs : h \in RefRec /\ h.fd \in 1 .. calls
  <1>0. calls \in 0 .. MaxCalls /\ MaxCalls \in Nat
    BY BoundAssumption DEF TypeOK
  <1>1. ASSUME NEW h \in fds
        PROVE  h \in RefRec /\ h.fd \in 1 .. calls
    BY DEF TypeOK, RefRec, Numbers
  <1>2. ASSUME NEW t \in Threads, thr[t].pc \in ClosePCs
        PROVE  Ref(t) \in RefRec /\ Ref(t).fd \in 1 .. calls
    <2>1. thr[t].fd \in 1 .. calls
      BY <1>2 DEF Numbers, HasFd
    <2>2. thr[t].file \in Ids /\ thr[t].ino \in Ids
      BY <1>2 DEF Locals, Knows
    <2>3. thr[t].fd \in Ids
      BY <1>0, <2>1 DEF Ids
    <2> QED
      BY <2>1, <2>2, <2>3 DEF Ref, RefRec
  <1> QED
    BY <1>1, <1>2, RefsIs

(* A rename is alone: while another thread is in a call there is none. *)
LEMMA NoRename ==
    ASSUME Locals, NEW t \in Threads, thr[t].pc # "idle", NEW u \in Threads, u # t
    PROVE  thr[u].pc \notin RenamePCs
  BY DEF Locals, Renames

(* Thread t moves and the others do not. *)
Others(t) ==
    /\ thr' \in [Threads -> ThreadRec]
    /\ \A u \in Threads : u # t => thr'[u] = thr[u]

(* Its step neither takes nor gives up a reference or a number. *)
Quiet(t) ==
    /\ thr'[t].pc \in OpenPCs =>
          /\ thr[t].pc \in OpenPCs /\ thr'[t].path = thr[t].path
          /\ thr'[t].file = thr[t].file /\ thr'[t].fd = thr[t].fd
    /\ thr'[t].pc \in {"search", "insert"} => thr[t].pc \in {"search", "insert"}
    /\ thr'[t].pc \in ClosePCs <=> thr[t].pc \in ClosePCs
    /\ thr[t].pc \in ClosePCs =>
          /\ thr'[t].fd = thr[t].fd /\ thr'[t].file = thr[t].file /\ thr'[t].ino = thr[t].ino

LEMMA QuietRefs ==
    ASSUME NEW t \in Threads, Others(t), Quiet(t), UNCHANGED fds
    PROVE  Refs' = Refs
  <1>1. \A u \in Threads : thr'[u].pc \in ClosePCs <=> thr[u].pc \in ClosePCs
    BY DEF Others, Quiet
  <1>2. ASSUME NEW u \in Threads, thr[u].pc \in ClosePCs
        PROVE  Ref(u)' = Ref(u)
    BY <1>2 DEF Others, Quiet, Ref
  <1>3. \A h : h \in Refs' <=> h \in Refs
    BY <1>1, <1>2, RefsIs, RefsAfter
  <1> QED
    BY <1>3

(* The clauses of the invariant that a step leaves alone. *)
LEMMA TablesStay ==
    ASSUME Tables, UNCHANGED <<table, inode, inodes>>
    PROVE  Tables'
  BY DEF Tables, KeysOnce, Entry

LEMMA NumbersKept ==
    ASSUME TypeOK, Numbers, UNCHANGED fds, calls' \in {calls, calls + 1},
           \A u \in Threads : HasFd(u)' => HasFd(u) /\ thr'[u].fd = thr[u].fd
    PROVE  Numbers'
  <1>1. \A n \in 1 .. calls : n \in 1 .. calls'
    BY DEF TypeOK
  <1> QED
    BY <1>1 DEF Numbers

LEMMA NumbersStay ==
    ASSUME TypeOK, Numbers, NEW t \in Threads, Others(t), Quiet(t), UNCHANGED fds,
           calls' \in {calls, calls + 1}
    PROVE  Numbers'
  <1>1. \A u \in Threads : HasFd(u)' => HasFd(u) /\ thr'[u].fd = thr[u].fd
    BY DEF Others, Quiet, HasFd
  <1> QED
    BY <1>1, NumbersKept

LEMMA PendingFinite ==
    ASSUME TypeOK, Numbers
    PROVE  IsFiniteSet(Pending) /\ Pending \subseteq 1 .. calls /\ Cardinality(Pending) \in Nat
  <1>1. Pending \subseteq 1 .. calls
    BY DEF Pending, Numbers, HasFd, OpenPCs
  <1>2. IsFiniteSet(1 .. calls)
    BY FS_Interval DEF TypeOK
  <1>3. IsFiniteSet(Pending)
    BY <1>1, <1>2, FS_Subset
  <1> QED
    BY <1>1, <1>3, FS_CardinalityType

LEMMA BudgetKept ==
    ASSUME TypeOK, Numbers, Budget, Pending' \subseteq Pending,
           UNCHANGED <<inodes, files>>, calls' \in {calls, calls + 1}
    PROVE  Budget'
  <1>1. IsFiniteSet(Pending) /\ Cardinality(Pending) \in Nat
    BY PendingFinite
  <1>2. Cardinality(Pending') <= Cardinality(Pending) /\ Cardinality(Pending') \in Nat
    BY <1>1, FS_Subset, FS_CardinalityType
  <1> PICK a \in Nat, b \in Nat : a = Cardinality(Pending) /\ b = Cardinality(Pending')
    BY <1>1, <1>2
  <1>3. inodes \in Nat /\ calls \in Nat /\ files \in Nat
    BY DEF TypeOK
  <1> QED
    BY <1>2, <1>3 DEF Budget

LEMMA BudgetStay ==
    ASSUME TypeOK, Numbers, Budget, NEW t \in Threads, Others(t),
           thr'[t].pc \in {"search", "insert"} =>
              thr[t].pc \in {"search", "insert"} /\ thr'[t].fd = thr[t].fd,
           UNCHANGED <<inodes, files>>, calls' \in {calls, calls + 1}
    PROVE  Budget'
  <1>1. \A u \in Threads : thr'[u].pc \in {"search", "insert"} =>
           thr[u].pc \in {"search", "insert"} /\ thr'[u].fd = thr[u].fd
    BY DEF Others
  <1>2. Pending' \subseteq Pending
    BY <1>1 DEF Pending
  <1> QED
    BY <1>2, BudgetKept

(* Inodes stay as they are for those who know them. *)
Settled ==
    \A i \in Ids : inode[i].memory # "none" =>
        inode'[i].memory # "none" /\ inode'[i].path = inode[i].path

LEMMA LocalsStay ==
    ASSUME TypeOK, Numbers, Locals, References, NEW t \in Threads, Others(t), Settled,
           thr[t].pc # "idle" \/ \A u \in Threads : thr[u].pc \notin RenamePCs,
           files' \in {files, files + 1}, Knows(t)', Renames(t)'
    PROVE  Locals'
  <1> SUFFICES ASSUME NEW u \in Threads, u # t
               PROVE  Knows(u)' /\ Renames(u)'
    BY DEF Locals
  <1>1. thr'[u] = thr[u]
    BY DEF Others
  <1>2. thr[u].pc \notin RenamePCs
    BY NoRename
  <1>3. Knows(u)
    BY DEF Locals
  <1>4. \A n \in 1 .. files : n \in 1 .. files'
    BY DEF TypeOK
  <1>5. ASSUME thr[u].pc \in ClosePCs
        PROVE  inode[thr[u].ino].memory = "live" /\ inode'[thr[u].ino].path = inode[thr[u].ino].path
    <2>1. Ref(u) \in Refs
      BY <1>5, RefsIs
    <2>2. thr[u].ino \in Ids
      BY <1>3, <1>5 DEF Knows
    <2>3. inode[thr[u].ino].memory = "live"
      BY <2>1, RefIs DEF References
    <2> QED
      BY <2>2, <2>3 DEF Settled
  <1>6. Knows(u)'
    BY <1>1, <1>3, <1>4, <1>5 DEF Knows, Settled, ClosePCs
  <1> QED
    BY <1>1, <1>2, <1>6 DEF Renames

LEMMA ReferencesStay ==
    ASSUME TypeOK, References, Refs' = Refs, files' \in {files, files + 1},
           \A h \in Refs : h.ino \in Ids,
           \A i \in Ids : /\ inode'[i].memory = inode[i].memory
                          /\ inode'[i].refcount = inode[i].refcount
    PROVE  References'
  <1>1. \A n \in 1 .. files : n \in 1 .. files'
    BY DEF TypeOK
  <1>2. RefcountExact'
    BY DEF References, RefcountExact
  <1> QED
    BY <1>1, <1>2 DEF References

(* The inodes of references keep their paths. *)
LEMMA RefPaths ==
    ASSUME TypeOK, Numbers, Locals, References, Settled
    PROVE  \A h \in Refs : h.ino \in Ids /\ inode'[h.ino].path = inode[h.ino].path
  <1>1. \A h \in Refs : h.ino \in Ids /\ inode[h.ino].memory = "live"
    BY RefsTyped DEF References, RefRec
  <1> QED
    BY <1>1 DEF Settled

(* A thread that is in open was, for the same path and file. *)
SameOpen(t) ==
    thr'[t].pc \in OpenPCs =>
        thr[t].pc \in OpenPCs /\ thr'[t].file = thr[t].file /\ thr'[t].path = thr[t].path

LEMMA OnDiskStay ==
    ASSUME TypeOK, Numbers, Locals, References, OnDisk, NEW t \in Threads, Others(t), SameOpen(t),
           thr[t].pc # "krename", Settled, Refs' \subseteq Refs, UNCHANGED <<disk, files>>
    PROVE  OnDisk'
  <1>1. \A u \in Threads : thr'[u].pc \in OpenPCs =>
           thr[u].pc \in OpenPCs /\ thr'[u].file = thr[u].file /\ thr'[u].path = thr[u].path
    BY DEF Others, SameOpen
  <1>2. \A h \in Refs : h.ino \in Ids /\ inode'[h.ino].path = inode[h.ino].path
    BY RefPaths
  <1>3. \A u \in Threads : thr[u].pc = "krename" => thr'[u] = thr[u]
    BY DEF Others
  <1> QED
    BY <1>1, <1>2, <1>3 DEF OnDisk

LEMMA SharedStay ==
    ASSUME TypeOK, Numbers, Locals, References, Shared, NEW t \in Threads, Others(t),
           SameOpen(t), Settled, Refs' \subseteq Refs
    PROVE  Shared'
  <1>1. \A u \in Threads : thr'[u].pc \in OpenPCs =>
           thr[u].pc \in OpenPCs /\ thr'[u].file = thr[u].file /\ thr'[u].path = thr[u].path
    BY DEF Others, SameOpen
  <1>2. \A h \in Refs : h.ino \in Ids /\ inode'[h.ino].path = inode[h.ino].path
    BY RefPaths
  <1>3. OneInodePerFile'
    BY DEF Shared, OneInodePerFile
  <1> QED
    BY <1>1, <1>2, <1>3 DEF Shared

(* A step of thread t alone. *)
LEMMA QuietStep ==
    ASSUME IInv, NEW t \in Threads, Others(t), Quiet(t), thr[t].pc # "krename",
           thr[t].pc # "idle" \/ \A u \in Threads : thr[u].pc \notin RenamePCs,
           UNCHANGED <<disk, files, table, inode, inodes, fds>>, calls' \in {calls, calls + 1},
           TypeOK', Knows(t)', Renames(t)'
    PROVE  IInv'
  <1>1. Refs' = Refs
    BY QuietRefs
  <1>2. Settled
    BY DEF Settled
  <1>3. \A h \in Refs : h.ino \in Ids
    BY RefsTyped DEF IInv, RefRec
  <1>40. Tables' /\ Numbers'
    BY TablesStay, NumbersStay DEF IInv
  <1>41. SameOpen(t)
    BY DEF SameOpen, Quiet
  <1>4. Budget'
    BY BudgetStay DEF IInv, Quiet, OpenPCs
  <1>5. Locals'
    BY <1>2, LocalsStay DEF IInv
  <1>6. References'
    BY <1>1, <1>3, ReferencesStay DEF IInv
  <1>7. OnDisk' /\ Shared'
    BY <1>1, <1>2, <1>41, OnDiskStay, SharedStay DEF IInv
  <1> QED
    BY <1>4, <1>40, <1>5, <1>6, <1>7 DEF IInv

-----------------------------------------------------------------------------
(* What a step does to its thread. *)

LEMMA PCsAre ==
    /\ "idle" \in PCs /\ OpenPCs \subseteq PCs /\ ClosePCs \subseteq PCs
    /\ UnlinkPCs \subseteq PCs /\ RenamePCs \subseteq PCs
  BY DEF PCs

LEMMA GotoIs ==
    ASSUME TypeOK, NEW t \in Threads, NEW p \in PCs, Goto(t, p)
    PROVE  /\ Others(t) /\ thr'[t].pc = p
           /\ thr'[t].path = thr[t].path /\ thr'[t].to = thr[t].to /\ thr'[t].fd = thr[t].fd
           /\ thr'[t].file = thr[t].file /\ thr'[t].ino = thr[t].ino
           /\ thr'[t].found = thr[t].found
  <1>1. thr \in [Threads -> ThreadRec]
    BY DEF TypeOK, ThreadRec
  <1>2. thr' = [thr EXCEPT ![t].pc = p]
    BY DEF Goto
  <1>3. [thr[t] EXCEPT !.pc = p] \in ThreadRec
    BY <1>1 DEF ThreadRec
  <1>4. thr' = [thr EXCEPT ![t] = [thr[t] EXCEPT !.pc = p]]
    BY <1>1, <1>2
  <1>5. thr[t] \in ThreadRec
    BY <1>1
  <1>6. thr'[t] = [thr[t] EXCEPT !.pc = p]
    BY <1>1, <1>4
  <1>7. Others(t)
    BY <1>1, <1>3, <1>4 DEF Others
  <1> QED
    BY <1>5, <1>6, <1>7 DEF ThreadRec

LEMMA BecomesIs ==
    ASSUME TypeOK, NEW t \in Threads, NEW r \in ThreadRec, thr' = [thr EXCEPT ![t] = r]
    PROVE  Others(t) /\ thr'[t] = r
  BY DEF TypeOK, ThreadRec, Others

LEMMA InoPcIs ==
    ASSUME TypeOK, NEW t \in Threads, NEW i \in Ids \cup {None}, NEW p \in PCs,
           thr' = [thr EXCEPT ![t] = [thr[t] EXCEPT !.ino = i, !.pc = p]]
    PROVE  /\ Others(t) /\ thr'[t].pc = p /\ thr'[t].ino = i
           /\ thr'[t].path = thr[t].path /\ thr'[t].fd = thr[t].fd
           /\ thr'[t].file = thr[t].file
  <1>1. thr \in [Threads -> ThreadRec] /\ thr[t] \in ThreadRec
    BY DEF TypeOK, ThreadRec
  <1>2. [thr[t] EXCEPT !.ino = i, !.pc = p] \in ThreadRec
    BY <1>1 DEF ThreadRec
  <1>3. Others(t) /\ thr'[t] = [thr[t] EXCEPT !.ino = i, !.pc = p]
    BY <1>2, BecomesIs
  <1> QED
    BY <1>1, <1>3 DEF ThreadRec

LEMMA FoundPcIs ==
    ASSUME TypeOK, NEW t \in Threads, NEW i \in Ids, NEW p \in PCs,
           thr' = [thr EXCEPT ![t] = [@ EXCEPT !.found = i, !.pc = p]]
    PROVE  /\ Others(t) /\ thr'[t].pc = p /\ thr'[t].found = i
           /\ thr'[t].path = thr[t].path /\ thr'[t].fd = thr[t].fd
           /\ thr'[t].file = thr[t].file /\ thr'[t].ino = thr[t].ino
  <1>1. thr \in [Threads -> ThreadRec] /\ thr[t] \in ThreadRec
    BY DEF TypeOK, ThreadRec
  <1>2. [thr[t] EXCEPT !.found = i, !.pc = p] \in ThreadRec
    BY <1>1 DEF ThreadRec
  <1>3. thr' = [thr EXCEPT ![t] = [thr[t] EXCEPT !.found = i, !.pc = p]]
    BY <1>1
  <1>4. Others(t) /\ thr'[t] = [thr[t] EXCEPT !.found = i, !.pc = p]
    BY <1>2, <1>3, BecomesIs
  <1> QED
    BY <1>1, <1>4 DEF ThreadRec

LEMMA IdleIs ==
    /\ Idle \in ThreadRec /\ Idle.pc = "idle"
  BY DEF Idle, ThreadRec, PCs

LEMMA ReturnIs ==
    ASSUME TypeOK, NEW t \in Threads, Return(t)
    PROVE  Others(t) /\ thr'[t] = Idle /\ thr'[t].pc = "idle"
  BY IdleIs, BecomesIs DEF Return

(* A thread that becomes idle knows nothing. *)
LEMMA KnowsNothing ==
    ASSUME NEW t \in Threads, thr'[t].pc = "idle"
    PROVE  Knows(t)' /\ Renames(t)'
  BY DEF Knows, Renames, OpenPCs, ClosePCs, UnlinkPCs, RenamePCs

LEMMA SearchStep ==
    ASSUME IInv, NEW t \in Threads, Search(t)
    PROVE  IInv'
  <1> PICK i \in Ids \cup {None} : i = i_hashtable_search(thr[t].path)
    BY SearchIs DEF IInv, Tables, Search, At, Locals, Knows, OpenPCs
  <1>2. PICK p \in PCs : p = IF i = None THEN "insert" ELSE "count"
    BY PCsAre DEF OpenPCs
  <1>1. TypeOK /\ Tables /\ Locals
    BY DEF IInv
  <1>4. thr \in [Threads -> ThreadRec]
    BY <1>1 DEF TypeOK, ThreadRec
  <1>5. thr' = [thr EXCEPT ![t] = [thr[t] EXCEPT !.ino = i, !.pc = p]]
    BY <1>2, <1>4 DEF Search
  <1>6. /\ Others(t) /\ thr'[t].pc = p /\ thr'[t].ino = i /\ thr'[t].path = thr[t].path
        /\ thr'[t].file = thr[t].file /\ thr'[t].fd = thr[t].fd
    BY <1>1, <1>5, InoPcIs, ZenonT(60)
  <1>7. thr[t].pc = "search" /\ thr[t].path \in Paths /\ thr[t].file \in 1 .. files
    BY <1>1 DEF Search, At, Locals, Knows, OpenPCs
  <1>8. Quiet(t)
    BY <1>2, <1>6, <1>7 DEF Quiet, OpenPCs, ClosePCs
  <1>9. TypeOK'
    BY <1>1, <1>6 DEF TypeOK, Others, ThreadRec, Search, kernel, data
  <1>10. ASSUME i # None
         PROVE  inode[i].memory # "none" /\ inode[i].path = thr[t].path
    <2>1. Entry(table, thr[t].path, i)
      BY <1>1, <1>7, <1>10, SearchIs DEF Tables
    <2> QED
      BY <1>1, <1>7, <1>10, <2>1 DEF Tables
  <1>11. Knows(t)' /\ Renames(t)'
    BY <1>2, <1>6, <1>7, <1>10 DEF Knows, Renames, Search, OpenPCs, ClosePCs, UnlinkPCs, RenamePCs
  <1> QED
    BY <1>6, <1>7, <1>8, <1>9, <1>11, QuietStep DEF Search, kernel

LEMMA CheckLastStep ==
    ASSUME IInv, NEW t \in Threads, CheckLast(t)
    PROVE  IInv'
  <1> PICK p \in {"closedrop", "closecmd"} : Goto(t, p)
    BY DEF CheckLast
  <1>1. TypeOK /\ Locals /\ p \in PCs /\ thr[t].pc = "check"
    BY PCsAre DEF IInv, ClosePCs, CheckLast, At
  <1>2. /\ Others(t) /\ thr'[t].pc = p /\ thr'[t].fd = thr[t].fd
        /\ thr'[t].file = thr[t].file /\ thr'[t].ino = thr[t].ino
    BY <1>1, GotoIs
  <1>3. Quiet(t)
    BY <1>1, <1>2 DEF Quiet, OpenPCs, ClosePCs
  <1>4. TypeOK'
    BY <1>1, <1>2 DEF TypeOK, Others, ThreadRec, CheckLast, kernel, data
  <1>5. Knows(t)' /\ Renames(t)'
    BY <1>1, <1>2 DEF Locals, Knows, Renames, OpenPCs, ClosePCs, UnlinkPCs, RenamePCs
  <1> QED
    BY <1>1, <1>2, <1>3, <1>4, <1>5, QuietStep DEF CheckLast, kernel

(* Dropping an inode's data leaves the types. *)
LEMMA DropTypes ==
    ASSUME TypeOK, NEW i \in Ids, Drop(i)
    PROVE  /\ cached' \in [Ids -> SUBSET Ids] /\ lost' \subseteq Ids
           /\ hashmap' \in [Paths -> Ids \cup {None}]
  BY DEF TypeOK, Drop

LEMMA CloseDropStep ==
    ASSUME IInv, NEW t \in Threads, CloseDrop(t)
    PROVE  IInv'
  <1>1. /\ TypeOK /\ Locals /\ "closecmd" \in PCs /\ thr[t].pc = "closedrop"
        /\ Goto(t, "closecmd") /\ Drop(thr[t].ino)
    BY PCsAre DEF IInv, ClosePCs, CloseDrop, At
  <1>2. /\ Others(t) /\ thr'[t].pc = "closecmd" /\ thr'[t].fd = thr[t].fd
        /\ thr'[t].file = thr[t].file /\ thr'[t].ino = thr[t].ino
    BY <1>1, GotoIs
  <1>3. thr[t].ino \in Ids /\ thr[t].file \in Ids
    BY <1>1 DEF Locals, Knows, ClosePCs
  <1>4. Quiet(t)
    BY <1>1, <1>2 DEF Quiet, OpenPCs, ClosePCs
  <1>5. TypeOK'
    BY <1>1, <1>2, <1>3, DropTypes DEF TypeOK, Others, ThreadRec, CloseDrop, kernel
  <1>6. Knows(t)' /\ Renames(t)'
    BY <1>1, <1>2, <1>3 DEF Knows, Renames, OpenPCs, ClosePCs, UnlinkPCs, RenamePCs
  <1> QED
    BY <1>1, <1>2, <1>4, <1>5, <1>6, QuietStep DEF CloseDrop, kernel

LEMMA CloseCmdStep ==
    ASSUME IInv, NEW t \in Threads, CloseCmd(t)
    PROVE  IInv'
  <1>1. TypeOK /\ Locals /\ thr[t].pc = "closecmd"
    BY DEF IInv, CloseCmd, At
  <1>2. thr[t].ino \in Ids /\ thr[t].file \in Ids
    BY <1>1 DEF Locals, Knows, ClosePCs
  <1> PICK p \in Paths \cup {None} : p = inode[thr[t].ino].path
    BY <1>1, <1>2 DEF TypeOK
  <1>3. thr \in [Threads -> ThreadRec] /\ thr[t] \in ThreadRec
    BY <1>1 DEF TypeOK, ThreadRec
  <1>4. thr' = [thr EXCEPT ![t] = [thr[t] EXCEPT !.path = p, !.pc = "closefind"]]
    BY <1>3 DEF CloseCmd
  <1>5. [thr[t] EXCEPT !.path = p, !.pc = "closefind"] \in ThreadRec
    BY <1>3, ZenonT(60) DEF ThreadRec, PCs, ClosePCs
  <1>6. Others(t) /\ thr'[t] = [thr[t] EXCEPT !.path = p, !.pc = "closefind"]
    BY <1>1, <1>4, <1>5, BecomesIs
  <1>7. /\ thr'[t].pc = "closefind" /\ thr'[t].ino = thr[t].ino /\ thr'[t].path = p
        /\ thr'[t].file = thr[t].file /\ thr'[t].fd = thr[t].fd
    BY <1>3, <1>6 DEF ThreadRec
  <1>8. Quiet(t)
    BY <1>1, <1>7 DEF Quiet, OpenPCs, ClosePCs
  <1>9. TypeOK'
    BY <1>1, <1>6 DEF TypeOK, Others, ThreadRec, CloseCmd, kernel, data
  <1>10. Knows(t)' /\ Renames(t)'
    BY <1>2, <1>7 DEF Knows, Renames, CloseCmd, OpenPCs, ClosePCs, UnlinkPCs, RenamePCs
  <1> QED
    BY <1>1, <1>6, <1>8, <1>9, <1>10, QuietStep DEF CloseCmd, kernel

(* The kernel finds the inode of a reference under the inode's path. *)
LEMMA RefFound ==
    ASSUME IInv, NEW h \in Refs
    PROVE  /\ h.ino \in Ids /\ inode[h.ino].memory = "live" /\ inode[h.ino].path \in Paths
           /\ i_hashtable_search(inode[h.ino].path) = h.ino
  <1>1. h.ino \in Ids /\ inode[h.ino].memory = "live"
    BY RefsTyped DEF IInv, RefRec, References
  <1>2. inode[h.ino].path \in Paths
    BY <1>1 DEF IInv, Tables
  <1>3. Entry(table, inode[h.ino].path, h.ino)
    BY <1>1, <1>2 DEF IInv, Tables
  <1> QED
    BY <1>1, <1>2, <1>3, SearchIs DEF IInv, Tables

LEMMA CloseFindStep ==
    ASSUME IInv, NEW t \in Threads, CloseFind(t)
    PROVE  IInv'
  <1>1. TypeOK /\ Locals /\ thr[t].pc = "closefind"
    BY DEF IInv, CloseFind, At
  <1>2. thr[t].ino \in Ids /\ thr[t].file \in Ids /\ thr[t].path = inode[thr[t].ino].path
    BY <1>1 DEF Locals, Knows, ClosePCs
  <1> PICK i \in Ids : i = thr[t].ino
    BY <1>2
  <1>20. Ref(t) \in Refs /\ Ref(t).ino = i
    BY <1>1, RefsIs, RefIs DEF ClosePCs
  <1>21. i_hashtable_search(thr[t].path) = i /\ i # None
    BY <1>2, <1>20, RefFound, BoundAssumption DEF Ids
  <1>3. "closed" \in PCs /\ thr' = [thr EXCEPT ![t] = [@ EXCEPT !.found = i, !.pc = "closed"]]
    BY <1>21, PCsAre DEF CloseFind, ClosePCs
  <1>7. /\ Others(t) /\ thr'[t].pc = "closed" /\ thr'[t].ino = thr[t].ino
        /\ thr'[t].path = thr[t].path /\ thr'[t].file = thr[t].file /\ thr'[t].fd = thr[t].fd
        /\ thr'[t].found = i
    BY <1>1, <1>3, FoundPcIs
  <1>8. Quiet(t)
    BY <1>1, <1>7 DEF Quiet, OpenPCs, ClosePCs
  <1>9. TypeOK'
    BY <1>1, <1>7 DEF TypeOK, Others, ThreadRec, CloseFind, kernel, data
  <1>10. Knows(t)' /\ Renames(t)'
    BY <1>2, <1>7 DEF Knows, Renames, CloseFind, OpenPCs, ClosePCs, UnlinkPCs, RenamePCs
  <1> QED
    BY <1>1, <1>7, <1>8, <1>9, <1>10, QuietStep DEF CloseFind, kernel

LEMMA FindUnusedStep ==
    ASSUME IInv, NEW t \in Threads, FindUnused(t)
    PROVE  IInv'
  <1>1. TypeOK /\ Locals /\ thr[t].pc = "find" /\ thr[t].path \in Paths
    BY DEF IInv, FindUnused, At, Locals, Knows, UnlinkPCs
  <1> PICK i \in Ids \cup {None} : i = hashmap[thr[t].path]
    BY <1>1 DEF TypeOK
  <1>0. PICK p \in {"drop", "unlink"} :
          p = IF i # None /\ inode[i].refcount = 0 THEN "drop" ELSE "unlink"
    OBVIOUS
  <1>2. p \in PCs /\ thr \in [Threads -> ThreadRec]
    BY <1>1 DEF TypeOK, ThreadRec, PCs, UnlinkPCs
  <1>3. thr' = [thr EXCEPT ![t] = [thr[t] EXCEPT !.ino = i, !.pc = p]]
    BY <1>0, <1>2 DEF FindUnused
  <1>6. Others(t) /\ thr'[t].pc = p /\ thr'[t].ino = i /\ thr'[t].path = thr[t].path
    BY <1>1, <1>2, <1>3, InoPcIs, ZenonT(60)
  <1>7. Quiet(t)
    BY <1>1, <1>6 DEF Quiet, OpenPCs, ClosePCs
  <1>8. TypeOK'
    BY <1>1, <1>6 DEF TypeOK, Others, ThreadRec, FindUnused, kernel, data
  <1>9. Knows(t)' /\ Renames(t)'
    BY <1>0, <1>1, <1>6 DEF Knows, Renames, OpenPCs, ClosePCs, UnlinkPCs, RenamePCs
  <1> QED
    BY <1>1, <1>6, <1>7, <1>8, <1>9, QuietStep DEF FindUnused, kernel

LEMMA DropUnusedStep ==
    ASSUME IInv, NEW t \in Threads, DropUnused(t)
    PROVE  IInv'
  <1>1. /\ TypeOK /\ Locals /\ "unlink" \in PCs /\ thr[t].pc = "drop"
        /\ Goto(t, "unlink") /\ Drop(thr[t].ino)
    BY PCsAre DEF IInv, UnlinkPCs, DropUnused, At
  <1>2. /\ Others(t) /\ thr'[t].pc = "unlink" /\ thr'[t].path = thr[t].path
    BY <1>1, GotoIs
  <1>3. thr[t].ino \in Ids /\ thr[t].path \in Paths
    BY <1>1 DEF Locals, Knows, UnlinkPCs
  <1>4. Quiet(t)
    BY <1>1, <1>2 DEF Quiet, OpenPCs, ClosePCs
  <1>5. TypeOK'
    BY <1>1, <1>2, <1>3, DropTypes DEF TypeOK, Others, ThreadRec, DropUnused, kernel
  <1>6. Knows(t)' /\ Renames(t)'
    BY <1>1, <1>2, <1>3 DEF Knows, Renames, OpenPCs, ClosePCs, UnlinkPCs, RenamePCs
  <1> QED
    BY <1>1, <1>2, <1>4, <1>5, <1>6, QuietStep DEF DropUnused, kernel

(* A call that returns without a reference. *)
LEMMA ReturnQuiet ==
    ASSUME IInv, NEW t \in Threads, thr'[t].pc = "idle", thr[t].pc \notin ClosePCs
    PROVE  Quiet(t)
  BY DEF Quiet, OpenPCs, ClosePCs

LEMMA UnlinkFindStep ==
    ASSUME IInv, NEW t \in Threads, UnlinkFind(t)
    PROVE  IInv'
  <1>1. TypeOK /\ Tables /\ Locals /\ thr[t].pc = "unlinkfind" /\ thr[t].path \in Paths
    BY DEF IInv, UnlinkFind, At, Locals, Knows, UnlinkPCs
  <1> PICK i \in Ids \cup {None} : i = i_hashtable_search(thr[t].path)
    BY <1>1, SearchIs DEF Tables
  <1>3. CASE i = None
    <2>1. thr' = [thr EXCEPT ![t] = Idle]
      BY <1>3 DEF UnlinkFind
    <2>2. Others(t) /\ thr'[t].pc = "idle"
      BY <1>1, <2>1, ReturnIs DEF Return
    <2>3. Quiet(t) /\ Knows(t)' /\ Renames(t)'
      BY <1>1, <2>2, ReturnQuiet, KnowsNothing DEF ClosePCs
    <2>4. TypeOK'
      BY <1>1, <2>2 DEF TypeOK, Others, ThreadRec, UnlinkFind, kernel, data
    <2> QED
      BY <1>1, <2>2, <2>3, <2>4, QuietStep DEF UnlinkFind, kernel
  <1>4. CASE i # None
    <2>1. "unlinked" \in PCs /\ i \in Ids
          /\ thr' = [thr EXCEPT ![t] = [@ EXCEPT !.found = i, !.pc = "unlinked"]]
      BY <1>4, PCsAre DEF UnlinkFind, UnlinkPCs
    <2>4. /\ Others(t) /\ thr'[t].pc = "unlinked" /\ thr'[t].found = i
          /\ thr'[t].path = thr[t].path
      BY <1>1, <2>1, FoundPcIs
    <2>5. Quiet(t)
      BY <1>1, <2>4 DEF Quiet, OpenPCs, ClosePCs
    <2>6. TypeOK'
      BY <1>1, <2>4 DEF TypeOK, Others, ThreadRec, UnlinkFind, kernel, data
    <2>7. Entry(table, thr[t].path, i)
      BY <1>1, <1>4, SearchIs DEF Tables
    <2>8. inode[i].memory # "none" /\ inode[i].path = thr[t].path
      BY <1>1, <1>4, <2>7 DEF Tables
    <2>9. Knows(t)' /\ Renames(t)'
      BY <1>1, <1>4, <2>4, <2>8
         DEF Knows, Renames, UnlinkFind, OpenPCs, ClosePCs, UnlinkPCs, RenamePCs
    <2> QED
      BY <1>1, <2>4, <2>5, <2>6, <2>9, QuietStep DEF UnlinkFind, kernel
  <1> QED
    BY <1>3, <1>4

LEMMA HashmapRenameStep ==
    ASSUME IInv, NEW t \in Threads, HashmapRename(t)
    PROVE  IInv'
  <1>1. /\ TypeOK /\ Locals /\ thr[t].pc = "hashrename" /\ Return(t)
        /\ thr[t].path \in Paths /\ thr[t].to \in Paths
    BY DEF IInv, HashmapRename, At, Locals, Renames, RenamePCs
  <1>2. Others(t) /\ thr'[t].pc = "idle"
    BY <1>1, ReturnIs
  <1>3. Quiet(t) /\ Knows(t)' /\ Renames(t)'
    BY <1>1, <1>2, ReturnQuiet, KnowsNothing DEF ClosePCs
  <1>4. hashmap' \in [Paths -> Ids \cup {None}]
    BY <1>1 DEF TypeOK, HashmapRename
  <1>5. TypeOK'
    BY <1>1, <1>2, <1>4 DEF TypeOK, Others, ThreadRec, HashmapRename, kernel, data
  <1> QED
    BY <1>1, <1>2, <1>3, <1>5, QuietStep DEF HashmapRename, kernel

(* A call begins: nobody renames, and the count of calls stays in range. *)
LEMMA MayCallIs ==
    ASSUME TypeOK, ~ AnyRename, NEW t \in Threads, MayCall(t)
    PROVE  /\ thr[t].pc = "idle" /\ \A u \in Threads : thr[u].pc \notin RenamePCs
           /\ calls' = calls + 1 /\ calls' \in 0 .. MaxCalls /\ calls' \in Ids
  <1>1. calls \in Nat /\ MaxCalls \in Nat /\ calls < MaxCalls /\ calls' = calls + 1
    BY BoundAssumption DEF TypeOK, MayCall
  <1>2. calls' \in 0 .. MaxCalls /\ calls' \in Ids
    BY <1>1 DEF Ids
  <1> QED
    BY <1>2 DEF MayCall, At

LEMMA BeginsType ==
    ASSUME NEW w, NEW p, Begins(w, p)
    PROVE  raced' \in BOOLEAN
  BY Zenon DEF Begins

LEMMA UnlinkStep ==
    ASSUME IInv, ~ AnyRename, NEW t \in Threads, Unlink(t)
    PROVE  IInv'
  <1>1. /\ TypeOK /\ thr[t].pc = "idle" /\ \A u \in Threads : thr[u].pc \notin RenamePCs
        /\ calls' = calls + 1 /\ calls' \in 0 .. MaxCalls
    BY MayCallIs DEF IInv, Unlink
  <1>2. PICK p \in Paths : /\ Begins("unlink", p)
                           /\ thr' = [thr EXCEPT ![t] = [Idle EXCEPT !.pc = "find", !.path = p]]
    BY DEF Unlink
  <1>3. [Idle EXCEPT !.pc = "find", !.path = p] \in ThreadRec
    BY DEF Idle, ThreadRec, PCs, UnlinkPCs
  <1>4. Others(t) /\ thr'[t] = [Idle EXCEPT !.pc = "find", !.path = p]
    BY <1>1, <1>2, <1>3, BecomesIs
  <1>5. thr'[t].pc = "find" /\ thr'[t].path = p
    BY <1>4 DEF Idle
  <1>6. Quiet(t)
    BY <1>1, <1>5 DEF Quiet, OpenPCs, ClosePCs
  <1>7. TypeOK'
    BY <1>1, <1>2, <1>4, BeginsType DEF TypeOK, Others, ThreadRec, Unlink, kernel, data
  <1>8. Knows(t)' /\ Renames(t)'
    BY <1>5 DEF Knows, Renames, OpenPCs, ClosePCs, UnlinkPCs, RenamePCs
  <1> QED
    BY <1>1, <1>4, <1>6, <1>7, <1>8, QuietStep DEF Unlink, kernel

LEMMA RenameStep ==
    ASSUME IInv, ~ AnyRename, NEW t \in Threads, Rename(t)
    PROVE  IInv'
  <1>1. /\ TypeOK /\ Tables /\ thr[t].pc = "idle"
        /\ \A u \in Threads : thr[u].pc \notin RenamePCs
        /\ calls' = calls + 1 /\ calls' \in 0 .. MaxCalls
    BY MayCallIs DEF IInv, Rename
  <1>2. PICK p \in Paths, q \in Paths :
           /\ p # q /\ Alone(t, q)
           /\ thr' = [thr EXCEPT ![t] = [Idle EXCEPT !.pc = "rename", !.path = p, !.to = q]]
    BY DEF Rename
  <1>3. [Idle EXCEPT !.pc = "rename", !.path = p, !.to = q] \in ThreadRec
    BY DEF Idle, ThreadRec, PCs, RenamePCs
  <1>4. Others(t) /\ thr'[t] = [Idle EXCEPT !.pc = "rename", !.path = p, !.to = q]
    BY <1>1, <1>2, <1>3, BecomesIs
  <1>5. thr'[t].pc = "rename" /\ thr'[t].path = p /\ thr'[t].to = q
    BY <1>4 DEF Idle
  <1>6. Quiet(t)
    BY <1>1, <1>5 DEF Quiet, OpenPCs, ClosePCs
  <1>7. TypeOK'
    BY <1>1, <1>4 DEF TypeOK, Others, ThreadRec, Rename, kernel, data
  <1>8. \A i \in Ids : ~ Entry(table, q, i)
    BY <1>1, <1>2, SearchIs, BoundAssumption DEF Alone, Tables, Ids
  <1>9. \A i \in Ids : ~ Entry(table', q, i)
    BY <1>8 DEF Rename, kernel
  <1>10. Knows(t)'
    BY <1>5 DEF Knows, OpenPCs, ClosePCs, UnlinkPCs
  <1>11. \A u \in Threads : u # t => thr'[u].pc = "idle"
    BY <1>2, <1>4 DEF Others, Alone
  <1>12. Renames(t)'
    BY <1>2, <1>5, <1>9, <1>11 DEF Renames
  <1> QED
    BY <1>1, <1>4, <1>6, <1>7, <1>10, <1>12, QuietStep DEF Rename, kernel

-----------------------------------------------------------------------------
(* Steps that change the devices, the table or the references. *)

(* A step that is quiet and leaves table and inodes alone keeps all but    *)
(* what is said about the devices.                                         *)
LEMMA DiskStep ==
    ASSUME IInv, NEW t \in Threads, Others(t), Quiet(t), thr[t].pc # "idle",
           UNCHANGED <<files, table, inode, inodes, fds, calls>>,
           TypeOK', Knows(t)', Renames(t)', OnDisk'
    PROVE  IInv'
  <1>1. Refs' = Refs
    BY QuietRefs
  <1>2. Settled
    BY DEF Settled
  <1>3. \A h \in Refs : h.ino \in Ids
    BY RefsTyped DEF IInv, RefRec
  <1>40. Tables' /\ Numbers'
    BY TablesStay, NumbersStay DEF IInv
  <1>41. SameOpen(t)
    BY DEF SameOpen, Quiet
  <1>4. Budget'
    BY BudgetStay DEF IInv, Quiet, OpenPCs
  <1>5. Locals'
    BY <1>2, LocalsStay DEF IInv
  <1>6. References'
    BY <1>1, <1>3, ReferencesStay DEF IInv
  <1>7. Shared'
    BY <1>1, <1>2, <1>41, SharedStay DEF IInv
  <1> QED
    BY <1>4, <1>40, <1>5, <1>6, <1>7 DEF IInv

LEMMA UnlinkFilesStep ==
    ASSUME IInv, NEW t \in Threads, UnlinkFiles(t)
    PROVE  IInv'
  <1>1. /\ TypeOK /\ Locals /\ OnDisk /\ "unlinkfind" \in PCs /\ thr[t].pc = "unlink"
        /\ Goto(t, "unlinkfind") /\ thr[t].path \in Paths
        /\ disk' = [disk EXCEPT ![thr[t].path] = None]
    BY PCsAre DEF IInv, UnlinkPCs, UnlinkFiles, At, Locals, Knows
  <1>2. Others(t) /\ thr'[t].pc = "unlinkfind" /\ thr'[t].path = thr[t].path
    BY <1>1, GotoIs
  <1>3. Quiet(t)
    BY <1>1, <1>2 DEF Quiet, OpenPCs, ClosePCs
  <1>4. disk' \in [Paths -> Ids \cup {None}]
    BY <1>1 DEF TypeOK
  <1>5. TypeOK'
    BY <1>1, <1>2, <1>4 DEF TypeOK, Others, ThreadRec, UnlinkFiles, kernel, data
  <1>6. Knows(t)' /\ Renames(t)'
    BY <1>1, <1>2 DEF Knows, Renames, OpenPCs, ClosePCs, UnlinkPCs, RenamePCs
  <1>7. Refs' = Refs /\ inode' = inode /\ files' = files
    BY <1>2, <1>3, QuietRefs DEF UnlinkFiles
  <1>8. \A p \in Paths : disk'[p] # None => disk'[p] = disk[p]
    BY <1>1 DEF TypeOK
  <1>9. \A u \in Threads :
           /\ thr'[u].pc \in OpenPCs => thr'[u] = thr[u]
           /\ thr[u].pc = "krename" => thr'[u] = thr[u]
    BY <1>1, <1>2 DEF Others, OpenPCs
  <1>10. \A n \in 1 .. files : n # None
    BY BoundAssumption DEF IInv, Budget, TypeOK
  <1>11. \A u \in Threads : thr[u].pc \in OpenPCs => thr[u].file # None
    BY <1>1, <1>10 DEF Locals, Knows
  <1>12. \A h \in Refs : h.file # None
    BY <1>10 DEF IInv, References
  <1>13. OnDisk'
    BY <1>1, <1>7, <1>8, <1>9, <1>11, <1>12 DEF OnDisk
  <1> QED
    BY <1>1, <1>2, <1>3, <1>5, <1>6, <1>13, DiskStep DEF UnlinkFiles, kernel

LEMMA RenameFilesStep ==
    ASSUME IInv, NEW t \in Threads, RenameFiles(t)
    PROVE  IInv'
  <1>1. /\ TypeOK /\ Locals /\ OnDisk /\ thr[t].pc = "rename"
        /\ thr[t].path \in Paths /\ thr[t].to \in Paths /\ thr[t].path # thr[t].to
        /\ \A u \in Threads : u # t => thr[u].pc = "idle"
        /\ \A i \in Ids : ~ Entry(table, thr[t].to, i)
    BY DEF IInv, RenameFiles, At, Locals, Renames, RenamePCs
  <1>2. CASE disk[thr[t].path] = None /\ Return(t) /\ UNCHANGED disk
    <2>1. Others(t) /\ thr'[t].pc = "idle"
      BY <1>1, <1>2, ReturnIs
    <2>2. Quiet(t) /\ Knows(t)' /\ Renames(t)'
      BY <1>1, <2>1, ReturnQuiet, KnowsNothing DEF ClosePCs
    <2>3. TypeOK'
      BY <1>1, <1>2, <2>1 DEF TypeOK, Others, ThreadRec, RenameFiles, kernel, data
    <2> QED
      BY <1>1, <1>2, <2>1, <2>2, <2>3, QuietStep DEF RenameFiles, kernel
  <1>3. CASE /\ disk[thr[t].path] # None /\ Goto(t, "krename")
             /\ disk' = [disk EXCEPT ![thr[t].path] = None, ![thr[t].to] = disk[thr[t].path]]
    <2> PICK p \in Paths, q \in Paths : p = thr[t].path /\ q = thr[t].to /\ p # q
      BY <1>1
    <2>1. /\ Others(t) /\ thr'[t].pc = "krename" /\ thr'[t].path = p /\ thr'[t].to = q
      BY <1>1, <1>3, GotoIs, PCsAre DEF RenamePCs
    <2>2. Quiet(t)
      BY <1>1, <2>1 DEF Quiet, OpenPCs, ClosePCs
    <2>3. /\ disk' \in [Paths -> Ids \cup {None}]
          /\ disk'[p] = None /\ disk'[q] = disk[p]
          /\ \A r \in Paths : r # p /\ r # q => disk'[r] = disk[r]
      BY <1>1, <1>3 DEF TypeOK
    <2>4. TypeOK'
      BY <1>1, <2>1, <2>3 DEF TypeOK, Others, ThreadRec, RenameFiles, kernel, data
    <2>5. \A u \in Threads : u # t => thr'[u].pc = "idle"
      BY <1>1, <2>1 DEF Others
    <2>6. Knows(t)'
      BY <2>1 DEF Knows, OpenPCs, ClosePCs, UnlinkPCs
    <2>7. \A i \in Ids : ~ Entry(table', q, i)
      BY <1>1 DEF RenameFiles, kernel
    <2>8. Renames(t)'
      BY <2>1, <2>3, <2>5, <2>7 DEF Renames, RenamePCs
    <2>9. Refs' = Refs /\ inode' = inode /\ files' = files
      BY <2>1, <2>2, QuietRefs DEF RenameFiles
    <2>10. \A u \in Threads : thr'[u].pc \notin OpenPCs /\ thr[u].pc # "krename"
      BY <1>1, <2>1, <2>5 DEF OpenPCs
    <2>11. /\ \A r, s \in Paths : disk'[r] = disk'[s] /\ disk'[r] # None => r = s
           /\ \A r \in Paths : disk'[r] # None => disk'[r] \in 1 .. files'
      BY <1>1, <1>3, <2>3, <2>9 DEF OnDisk
    <2>12. ASSUME NEW h \in Refs, NEW r \in Paths, disk'[r] = h.file
           PROVE  r = inode[h.ino].path \/ (p = inode[h.ino].path /\ q = r)
      <3>1. h.file # None
        BY BoundAssumption DEF IInv, References, Budget, TypeOK
      <3>2. CASE r = p
        BY <2>3, <2>12, <3>1, <3>2
      <3>3. CASE r = q
        BY <1>1, <2>3, <2>10, <2>12, <3>3 DEF OnDisk
      <3>4. CASE r # p /\ r # q
        BY <1>1, <2>3, <2>10, <2>12, <3>4 DEF OnDisk
      <3> QED
        BY <3>2, <3>3, <3>4
    <2>13. OnDisk'
      BY <2>1, <2>9, <2>10, <2>11, <2>12 DEF OnDisk
    <2> QED
      BY <1>1, <2>1, <2>2, <2>4, <2>6, <2>8, <2>13, DiskStep DEF RenameFiles, kernel
  <1> QED
    BY <1>2, <1>3 DEF RenameFiles

(* An open in progress has the number it may use up. *)
LEMMA InsertBudget ==
    ASSUME IInv, NEW t \in Threads, thr[t].pc = "insert", Others(t), thr'[t].pc = "count",
           inodes' = inodes + 1, UNCHANGED <<files, calls>>
    PROVE  inodes' \in Ids /\ inodes' \in 0 .. MaxCalls /\ Budget'
  <1>0. TypeOK /\ Numbers /\ Budget
    BY DEF IInv
  <1> PICK f : f = thr[t].fd
    OBVIOUS
  <1>1. f \in Pending
    BY DEF Pending
  <1>2. Pending' \subseteq Pending \ {f}
    <2> SUFFICES ASSUME NEW u \in Threads, thr'[u].pc \in {"search", "insert"}
                 PROVE  thr'[u].fd \in Pending /\ thr'[u].fd # f
      BY DEF Pending
    <2>1. u # t /\ thr'[u] = thr[u]
      BY DEF Others
    <2>2. HasFd(u) /\ HasFd(t)
      BY <2>1 DEF HasFd, OpenPCs
    <2>3. thr[u].fd # f
      BY <1>0, <2>1, <2>2 DEF Numbers
    <2> QED
      BY <2>1, <2>3 DEF Pending
  <1>3. IsFiniteSet(Pending) /\ Cardinality(Pending) \in Nat
    BY <1>0, PendingFinite
  <1>4. /\ IsFiniteSet(Pending \ {f})
        /\ Cardinality(Pending \ {f}) = Cardinality(Pending) - 1
    BY <1>1, <1>3, FS_RemoveElement
  <1>5. Cardinality(Pending \ {f}) \in Nat
    BY <1>4, FS_CardinalityType
  <1>6. Cardinality(Pending') <= Cardinality(Pending \ {f}) /\ Cardinality(Pending') \in Nat
    BY <1>2, <1>4, FS_Subset, FS_CardinalityType
  <1> PICK a \in Nat, b \in Nat, c \in Nat :
          a = Cardinality(Pending) /\ b = Cardinality(Pending \ {f}) /\ c = Cardinality(Pending')
    BY <1>3, <1>5, <1>6
  <1>7. /\ inodes \in Nat /\ calls \in Nat /\ files \in Nat /\ calls <= MaxCalls
        /\ MaxCalls \in Nat
    BY <1>0, BoundAssumption DEF TypeOK
  <1>8. inodes + a <= calls /\ files <= calls
    BY <1>0 DEF Budget
  <1>9. b = a - 1 /\ c <= b
    BY <1>4, <1>6
  <1>10. inodes + 1 + c <= calls /\ inodes + 1 <= MaxCalls
    BY <1>7, <1>8, <1>9
  <1>11. Budget'
    BY <1>8, <1>10 DEF Budget
  <1> QED
    BY <1>7, <1>10, <1>11 DEF Ids

LEMMA InsertStep ==
    ASSUME IInv, NEW t \in Threads, Insert(t)
    PROVE  IInv'
  <1>1. /\ TypeOK /\ Tables /\ Locals /\ Numbers /\ References /\ OnDisk /\ Shared
        /\ thr[t].pc = "insert"
        /\ thr[t].path \in Paths /\ thr[t].file \in 1 .. files
    BY DEF IInv, Insert, At, Locals, Knows, OpenPCs
  <1> PICK p \in Paths : p = thr[t].path
    BY <1>1
  <1> PICK i \in Ids \cup {None} : i = i_hashtable_search(p)
    BY <1>1, SearchIs DEF Tables
  <1>3. ASSUME NEW j \in Ids \cup {None},
               thr' = [thr EXCEPT ![t].ino = j, ![t].pc = "count"]
        PROVE  /\ Others(t) /\ thr'[t].pc = "count" /\ thr'[t].ino = j
               /\ thr'[t].path = p /\ thr'[t].file = thr[t].file /\ Quiet(t)
    <2>1. thr' = [thr EXCEPT ![t] = [thr[t] EXCEPT !.ino = j, !.pc = "count"]]
      BY <1>1, <1>3 DEF TypeOK
    <2>4. /\ Others(t) /\ thr'[t].pc = "count" /\ thr'[t].ino = j
          /\ thr'[t].path = thr[t].path /\ thr'[t].file = thr[t].file /\ thr'[t].fd = thr[t].fd
      BY <1>1, <2>1, InoPcIs, PCsAre, ZenonT(60) DEF OpenPCs
    <2>5. Quiet(t)
      BY <1>1, <2>4 DEF Quiet, OpenPCs, ClosePCs
    <2> QED
      BY <2>4, <2>5
  <1>4. CASE /\ i # None /\ UNCHANGED <<table, inode>>
             /\ thr' = [thr EXCEPT ![t].ino = i, ![t].pc = "count"]
    <2>1. /\ Others(t) /\ thr'[t].pc = "count" /\ thr'[t].ino = i
          /\ thr'[t].path = p /\ thr'[t].file = thr[t].file /\ Quiet(t)
      BY <1>3, <1>4
    <2>2. inodes' = inodes + 1 /\ UNCHANGED <<files, calls, fds, disk>>
      BY DEF Insert
    <2>3. inodes' \in Ids /\ inodes' \in 0 .. MaxCalls /\ Budget'
      BY <1>1, <2>1, <2>2, InsertBudget
    <2>4. TypeOK'
      BY <1>1, <1>4, <2>1, <2>3 DEF TypeOK, Others, ThreadRec, Insert, data
    <2>5. Tables'
      <3>1. \A j \in Ids : j > inodes + 1 => j > inodes
        BY <1>1 DEF TypeOK, Ids
      <3> QED
        BY <1>1, <1>4, <2>2, <3>1 DEF Tables, KeysOnce, Entry
    <2>6. Refs' = Refs /\ Settled /\ \A h \in Refs : h.ino \in Ids
      BY <1>1, <1>4, <2>1, <2>2, QuietRefs, RefsTyped DEF Settled, RefRec
    <2>7. Entry(table, p, i)
      BY <1>1, <1>4, SearchIs DEF Tables
    <2>8. inode[i].memory # "none" /\ inode[i].path = p
      BY <1>1, <1>4, <2>7 DEF Tables
    <2>9. Knows(t)' /\ Renames(t)'
      BY <1>1, <1>4, <2>1, <2>2, <2>8
         DEF Knows, Renames, OpenPCs, ClosePCs, UnlinkPCs, RenamePCs
    <2>10. Numbers'
      BY <1>1, <2>1, <2>2, NumbersStay
    <2>11. Locals'
      BY <1>1, <2>1, <2>2, <2>6, <2>9, LocalsStay
    <2>12. References'
      BY <1>1, <1>4, <2>2, <2>6, ReferencesStay
    <2>13. OnDisk' /\ Shared'
      <3>1. SameOpen(t)
        BY <2>1 DEF SameOpen, Quiet
      <3> QED
        BY <1>1, <2>1, <2>2, <2>6, <3>1, OnDiskStay, SharedStay
    <2> QED
      BY <2>3, <2>4, <2>5, <2>10, <2>11, <2>12, <2>13 DEF IInv
  <1>5. CASE /\ i = None
             /\ thr' = [thr EXCEPT ![t].ino = inodes + 1, ![t].pc = "count"]
             /\ table' = i_hashtable_insert(table, p, inodes + 1)
             /\ inode' = [inode EXCEPT ![inodes + 1] = NewInode(p)]
    <2>1. inodes' = inodes + 1 /\ UNCHANGED <<files, calls, fds, disk>>
      BY DEF Insert
    <2>2. inodes + 1 \in Ids
      <3>1. inodes + Cardinality(Pending) <= calls
        BY DEF IInv, Budget
      <3>2. thr[t].fd \in Pending
        BY <1>1 DEF Pending
      <3>3. IsFiniteSet(Pending) /\ Cardinality(Pending) \in Nat
        BY <1>1, PendingFinite
      <3>4. Cardinality(Pending) # 0
        BY <3>2, <3>3, FS_EmptySet
      <3>5. inodes \in Nat /\ calls \in Nat /\ MaxCalls \in Nat /\ calls <= MaxCalls
        BY <1>1, BoundAssumption DEF TypeOK
      <3> PICK a \in Nat : a = Cardinality(Pending)
        BY <3>3
      <3> QED
        BY <3>1, <3>4, <3>5 DEF Ids
    <2> PICK n \in Ids : n = inodes + 1
      BY <2>2
    <2>3. /\ Others(t) /\ thr'[t].pc = "count" /\ thr'[t].ino = n
          /\ thr'[t].path = p /\ thr'[t].file = thr[t].file /\ Quiet(t)
      BY <1>3, <1>5
    <2>4. inodes' \in Ids /\ inodes' \in 0 .. MaxCalls /\ Budget'
      BY <1>1, <2>1, <2>3, InsertBudget
    <2>5. inode[n].memory = "none"
      BY <1>1 DEF Tables, TypeOK
    <2>6. /\ inode' \in [Ids -> InodeRec]
          /\ inode'[n] = NewInode(p) /\ \A j \in Ids : j # n => inode'[j] = inode[j]
      <3>1. NewInode(p) \in InodeRec
        BY DEF NewInode, InodeRec
      <3> QED
        BY <1>1, <1>5, <3>1 DEF TypeOK, InodeRec
    <2>7. inode'[n].memory = "live" /\ inode'[n].path = p /\ inode'[n].refcount = 0
      BY <2>6 DEF NewInode
    <2>8. \A j \in Ids : ~ Entry(table, p, j)
      <3>1. None \notin Ids
        BY BoundAssumption DEF Ids
      <3>2. KeysOnce(table)
        BY <1>1 DEF Tables
      <3>3. \A j \in Ids : Entry(table, p, j) <=> i_hashtable_search(p) = j
        BY <1>1, <3>2, SearchIs
      <3> QED
        BY <1>5, <3>1, <3>3
    <2>9. /\ table' \in Seq(EntryRec) /\ KeysOnce(table')
          /\ \A q \in Paths, j \in Ids : Entry(table', q, j) <=> Entry(table, q, j) \/ (q = p /\ j = n)
      <3>1. table \in Seq(EntryRec) /\ KeysOnce(table)
        BY <1>1 DEF TypeOK, EntryRec, Tables
      <3> QED
        BY <1>5, <2>8, <3>1, InsertIs
    <2>10. TypeOK'
      BY <1>1, <2>3, <2>4, <2>6, <2>9
         DEF TypeOK, Others, ThreadRec, InodeRec, EntryRec, Insert, data
    <2>11. Tables'
      <3>1. \A j \in Ids : j > inodes + 1 => j > inodes /\ j # n
        BY <1>1 DEF TypeOK, Ids
      <3>2. ASSUME NEW q \in Paths, NEW j \in Ids
            PROVE  Entry(table', q, j) <=> inode'[j].memory = "live" /\ inode'[j].path = q
        <4>1. Entry(table, q, j) <=> inode[j].memory = "live" /\ inode[j].path = q
          BY <1>1 DEF Tables
        <4>2. CASE j = n
          BY <2>5, <2>7, <2>9, <4>1, <4>2
        <4>3. CASE j # n
          BY <2>6, <2>9, <4>1, <4>3
        <4> QED
          BY <4>2, <4>3
      <3>3. ASSUME NEW j \in Ids
            PROVE  /\ inode'[j].memory = "live" => inode'[j].path \in Paths
                   /\ j > inodes' => inode'[j].memory = "none"
        <4>1. CASE j = n
          BY <1>1, <2>1, <2>7, <4>1 DEF TypeOK
        <4>2. CASE j # n
          BY <1>1, <2>1, <2>6, <3>1, <4>2 DEF Tables
        <4> QED
          BY <4>1, <4>2
      <3> QED
        BY <2>9, <3>2, <3>3 DEF Tables
    <2>12. Refs' = Refs /\ Settled /\ \A h \in Refs : h.ino \in Ids /\ h.ino # n
      <3>1. Refs' = Refs
        BY <2>1, <2>3, QuietRefs
      <3>2. Settled
        BY <2>5, <2>6 DEF Settled
      <3>3. \A h \in Refs : h.ino \in Ids
        BY <1>1, RefsTyped DEF RefRec
      <3> QED
        BY <1>1, <2>5, <3>1, <3>2, <3>3 DEF References
    <2>13. Knows(t)' /\ Renames(t)'
      BY <1>1, <2>1, <2>3, <2>7
         DEF Knows, Renames, OpenPCs, ClosePCs, UnlinkPCs, RenamePCs
    <2>14. Numbers'
      BY <1>1, <2>1, <2>3, NumbersStay
    <2>15. Locals'
      BY <1>1, <2>1, <2>3, <2>12, <2>13, LocalsStay
    <2>16. References'
      <3>1. {h \in Refs : h.ino = n} = {}
        BY <2>12
      <3>2. Cardinality({h \in Refs : h.ino = n}) = 0
        BY <3>1, FS_EmptySet
      <3>3. \A j \in Ids : inode'[j].memory = "live" =>
               inode'[j].refcount = Cardinality({h \in Refs : h.ino = j})
        BY <1>1, <2>6, <2>7, <3>2 DEF References, RefcountExact
      <3>4. RefcountExact'
        BY <2>12, <3>3 DEF RefcountExact
      <3> QED
        BY <1>1, <2>1, <2>6, <2>12, <3>4 DEF References
    <2>17. OnDisk' /\ Shared'
      <3>1. SameOpen(t)
        BY <2>3 DEF SameOpen, Quiet
      <3> QED
        BY <1>1, <2>1, <2>3, <2>12, <3>1, OnDiskStay, SharedStay
    <2> QED
      BY <2>4, <2>10, <2>11, <2>14, <2>15, <2>16, <2>17 DEF IInv
  <1> QED
    BY <1>4, <1>5 DEF Insert

(* An inode leaves the table when its memory is freed. *)
LEMMA FreeIs ==
    ASSUME TypeOK, Tables, NEW i \in Ids, NEW p \in Paths,
           inode[i].memory = "live", inode[i].path = p,
           table' = i_hashtable_delete(p), inodes' = inodes,
           inode'[i].memory = "freed",
           \A j \in Ids : j # i => inode'[j] = inode[j]
    PROVE  table' \in Seq(EntryRec) /\ Tables'
  <1>1. /\ table' \in Seq(EntryRec) /\ KeysOnce(table')
        /\ \A q \in Paths, j \in Ids : Entry(table', q, j) <=> Entry(table, q, j) /\ q # p
    BY DeleteIs DEF Tables
  <1>2. \A j \in Ids : Entry(table, p, j) => j = i
    <2>1. KeysOnce(table) /\ Entry(table, p, i)
      BY DEF Tables
    <2>2. \A j \in Ids : Entry(table, p, j) <=> i_hashtable_search(p) = j
      BY <2>1, SearchIs
    <2> QED
      BY <2>1, <2>2
  <1>3. ASSUME NEW q \in Paths, NEW j \in Ids
        PROVE  Entry(table', q, j) <=> inode'[j].memory = "live" /\ inode'[j].path = q
    <2>1. Entry(table, q, j) <=> inode[j].memory = "live" /\ inode[j].path = q
      BY DEF Tables
    <2>2. CASE j = i
      BY <1>1, <2>1, <2>2
    <2>3. CASE j # i
      BY <1>1, <1>2, <2>1, <2>3
    <2> QED
      BY <2>2, <2>3
  <1>4. \A j \in Ids : /\ inode'[j].memory = "live" => inode'[j].path \in Paths
                       /\ j > inodes' => inode'[j].memory = "none"
    <2>1. \A j \in Ids : j > inodes => j # i
      BY DEF Tables
    <2> QED
      BY <2>1 DEF Tables
  <1> QED
    BY <1>1, <1>3, <1>4 DEF Tables

LEMMA polyos_unlinkStep ==
    ASSUME IInv, NEW t \in Threads, polyos_unlink(t)
    PROVE  IInv'
  <1>1. /\ TypeOK /\ Tables /\ Numbers /\ Budget /\ Locals /\ References /\ OnDisk /\ Shared
        /\ thr[t].pc = "unlinked" /\ Return(t)
        /\ UNCHANGED <<disk, files, inodes, hashmap, data, fds, calls, raced, undefined>>
    BY DEF IInv, polyos_unlink, At
  <1>2. /\ thr[t].path \in Paths /\ thr[t].found \in Ids
        /\ inode[thr[t].found].memory # "none" /\ inode[thr[t].found].path = thr[t].path
    BY <1>1 DEF Locals, Knows, UnlinkPCs
  <1> PICK p \in Paths, i \in Ids : p = thr[t].path /\ i = thr[t].found
    BY <1>2
  <1>3. ~ Freed(i)
    <2>1. Uses(t) = {i} \ {None}
      BY <1>1 DEF Uses
    <2>2. i \in Uses(t)
      BY <2>1, BoundAssumption DEF Ids
    <2> QED
      BY <2>2 DEF polyos_unlink, At
  <1>4. inode[i].memory = "live" /\ inode[i].path = p
    BY <1>1, <1>2, <1>3 DEF Freed, TypeOK
  <1>5. Others(t) /\ thr'[t].pc = "idle"
    BY <1>1, ReturnIs
  <1>6. Quiet(t) /\ Knows(t)' /\ Renames(t)'
    BY <1>1, <1>5, ReturnQuiet, KnowsNothing DEF ClosePCs
  <1>7. Refs' = Refs /\ \A h \in Refs : h.ino \in Ids
    BY <1>1, <1>5, <1>6, QuietRefs, RefsTyped DEF RefRec
  <1>8. inode \in [Ids -> InodeRec] /\ inode[i] \in InodeRec
    BY <1>1 DEF TypeOK, InodeRec
  <1>9. /\ inode' \in [Ids -> InodeRec] /\ \A j \in Ids : j # i => inode'[j] = inode[j]
        /\ inode'[i].path = inode[i].path /\ inode'[i].refcount = inode[i].refcount
        /\ \/ /\ inode[i].refcount = 0 /\ inode'[i].memory = "freed"
              /\ table' = i_hashtable_delete(p)
           \/ inode'[i].memory = inode[i].memory /\ table' = table
    <2>1. CASE /\ inode[i].refcount = 0 /\ table' = i_hashtable_delete(p)
               /\ inode' = [inode EXCEPT ![i].memory = "freed"]
      <3>1. inode' = [inode EXCEPT ![i] = [inode[i] EXCEPT !.memory = "freed"]]
        BY <1>8, <2>1
      <3>2. [inode[i] EXCEPT !.memory = "freed"] \in InodeRec
        BY <1>8 DEF InodeRec
      <3>3. /\ inode'[i] = [inode[i] EXCEPT !.memory = "freed"]
            /\ inode' \in [Ids -> InodeRec] /\ \A j \in Ids : j # i => inode'[j] = inode[j]
        BY <1>8, <3>1, <3>2
      <3> QED
        BY <1>8, <2>1, <3>3 DEF InodeRec
    <2>2. CASE /\ table' = table /\ inode' = [inode EXCEPT ![i].reclaim = TRUE]
      <3>1. inode' = [inode EXCEPT ![i] = [inode[i] EXCEPT !.reclaim = TRUE]]
        BY <1>8, <2>2
      <3>2. [inode[i] EXCEPT !.reclaim = TRUE] \in InodeRec
        BY <1>8 DEF InodeRec
      <3>3. /\ inode'[i] = [inode[i] EXCEPT !.reclaim = TRUE]
            /\ inode' \in [Ids -> InodeRec] /\ \A j \in Ids : j # i => inode'[j] = inode[j]
        BY <1>8, <3>1, <3>2
      <3> QED
        BY <1>8, <2>2, <3>3 DEF InodeRec
    <2> QED
      BY <2>1, <2>2 DEF polyos_unlink
  <1>10. Settled
    BY <1>4, <1>9 DEF Settled
  <1>11. table' \in Seq(EntryRec) /\ Tables'
    <2>1. CASE inode'[i].memory = "freed" /\ table' = i_hashtable_delete(p)
      BY <1>1, <1>4, <1>9, <2>1, FreeIs
    <2>2. CASE inode'[i].memory = inode[i].memory /\ table' = table
      <3>1. \A j \in Ids : inode'[j].memory = inode[j].memory /\ inode'[j].path = inode[j].path
        BY <1>9, <2>2
      <3> QED
        BY <1>1, <2>2, <3>1 DEF Tables, TypeOK, EntryRec
    <2> QED
      BY <1>9, <2>1, <2>2
  <1>12. TypeOK'
    BY <1>1, <1>5, <1>9, <1>11 DEF TypeOK, Others, ThreadRec, InodeRec, EntryRec, data
  <1>13. Numbers' /\ Budget'
    <2>1. Numbers'
      BY <1>1, <1>5, <1>6, NumbersStay
    <2>2. Budget'
      BY <1>1, <1>5, BudgetStay
    <2> QED
      BY <2>1, <2>2
  <1>14. Locals'
    BY <1>1, <1>5, <1>6, <1>10, LocalsStay
  <1>15. References'
    <2>1. CASE inode'[i].memory = inode[i].memory
      <3>1. \A j \in Ids : /\ inode'[j].memory = inode[j].memory
                           /\ inode'[j].refcount = inode[j].refcount
        BY <1>9, <2>1
      <3> QED
        BY <1>1, <1>7, <3>1, ReferencesStay
    <2>2. CASE inode[i].refcount = 0 /\ inode'[i].memory = "freed"
      <3>1. Cardinality({h \in Refs : h.ino = i}) = 0
        BY <1>1, <1>4, <2>2 DEF References, RefcountExact
      <3>2. IsFiniteSet({h \in Refs : h.ino = i})
        BY <1>1, FS_Subset DEF References
      <3>3. \A h \in Refs : h.ino # i
        BY <3>1, <3>2, FS_EmptySet
      <3>4. RefcountExact'
        BY <1>1, <1>7, <1>9, <2>2 DEF References, RefcountExact
      <3> QED
        BY <1>1, <1>7, <1>9, <3>3, <3>4 DEF References
    <2> QED
      BY <1>9, <2>1, <2>2
  <1>16. OnDisk' /\ Shared'
    <2>1. SameOpen(t)
      BY <1>6 DEF SameOpen, Quiet
    <2> QED
      BY <1>1, <1>5, <1>7, <1>10, <2>1, OnDiskStay, SharedStay
  <1> QED
    BY <1>11, <1>12, <1>13, <1>14, <1>15, <1>16 DEF IInv

(* A close gives up its reference, which nobody else has. *)
LEMMA CloseRefs ==
    ASSUME TypeOK, Numbers, NEW t \in Threads, thr[t].pc \in ClosePCs, Others(t),
           thr'[t].pc = "idle", UNCHANGED fds
    PROVE  Ref(t) \in Refs /\ Refs' = Refs \ {Ref(t)}
  <1>1. Ref(t) \in Refs
    BY RefsIs
  <1>2. \A h \in fds : h # Ref(t)
    BY RefIs DEF Numbers, HasFd
  <1>3. \A u \in Threads : u # t /\ thr[u].pc \in ClosePCs => Ref(u) # Ref(t)
    <2> SUFFICES ASSUME NEW u \in Threads, u # t, thr[u].pc \in ClosePCs
                 PROVE  Ref(u) # Ref(t)
      OBVIOUS
    <2>1. thr[u].fd # thr[t].fd
      BY DEF Numbers, HasFd
    <2> QED
      BY <2>1, RefIs
  <1>4. \A u \in Threads : u # t => thr'[u] = thr[u] /\ Ref(u)' = Ref(u)
    BY DEF Others, Ref
  <1>5. thr'[t].pc \notin ClosePCs
    BY DEF ClosePCs
  <1>6. \A h : h \in Refs' <=> h \in Refs /\ h # Ref(t)
    BY <1>2, <1>3, <1>4, <1>5, RefsIs, RefsAfter
  <1> QED
    BY <1>1, <1>6

LEMMA polyos_closeStep ==
    ASSUME IInv, NEW t \in Threads, polyos_close(t)
    PROVE  IInv'
  <1>1. /\ TypeOK /\ Tables /\ Numbers /\ Budget /\ Locals /\ References /\ OnDisk /\ Shared
        /\ thr[t].pc = "closed" /\ thr[t].pc \in ClosePCs /\ Return(t)
        /\ UNCHANGED <<disk, files, inodes, hashmap, data, fds, calls, raced, undefined>>
    BY DEF IInv, polyos_close, At, ClosePCs
  <1>2. /\ thr[t].ino \in Ids /\ thr[t].found = thr[t].ino
        /\ thr[t].path = inode[thr[t].ino].path
    BY <1>1 DEF Locals, Knows, ClosePCs
  <1> PICK i \in Ids : i = thr[t].ino /\ i = thr[t].found
    BY <1>2
  <1>3. Ref(t) \in Refs /\ Ref(t).ino = i
    BY <1>1, RefsIs, RefIs
  <1>4. inode[i].memory = "live" /\ inode[i].path \in Paths
    BY <1>3, RefFound
  <1> PICK p \in Paths : p = thr[t].path /\ p = inode[i].path
    BY <1>2, <1>4
  <1>5. Others(t) /\ thr'[t].pc = "idle"
    BY <1>1, ReturnIs
  <1>6. Refs' = Refs \ {Ref(t)}
    BY <1>1, <1>5, CloseRefs
  <1> DEFINE S == {h \in Refs : h.ino = i}
  <1>7. /\ IsFiniteSet(S) /\ Ref(t) \in S /\ Cardinality(S) \in Nat
        /\ IsFiniteSet(S \ {Ref(t)}) /\ Cardinality(S \ {Ref(t)}) = Cardinality(S) - 1
        /\ Cardinality(S \ {Ref(t)}) \in Nat
    <2>1. IsFiniteSet(S) /\ Ref(t) \in S
      BY <1>1, <1>3, FS_Subset DEF References
    <2>2. IsFiniteSet(S \ {Ref(t)}) /\ Cardinality(S \ {Ref(t)}) = Cardinality(S) - 1
      BY <2>1, FS_RemoveElement
    <2> QED
      BY <2>1, <2>2, FS_CardinalityType
  <1>8. inode[i].refcount = Cardinality(S)
    BY <1>1, <1>4 DEF References, RefcountExact
  <1> HIDE DEF S
  <1> PICK n \in Nat : n = inode[i].refcount - 1 /\ n = Cardinality(S \ {Ref(t)})
    BY <1>7, <1>8
  <1>9. inode \in [Ids -> InodeRec] /\ inode[i] \in InodeRec
    BY <1>1 DEF TypeOK, InodeRec
  <1>10. /\ inode' \in [Ids -> InodeRec] /\ \A j \in Ids : j # i => inode'[j] = inode[j]
         /\ inode'[i].path = inode[i].path /\ inode'[i].refcount = n
         /\ \/ n = 0 /\ inode'[i].memory = "freed" /\ table' = i_hashtable_delete(p)
            \/ inode'[i].memory = inode[i].memory /\ table' = table
    <2>1. CASE /\ n = 0 /\ table' = i_hashtable_delete(p)
               /\ inode' = [inode EXCEPT ![i].refcount = n, ![i].memory = "freed"]
      <3>1. inode' = [inode EXCEPT ![i] = [inode[i] EXCEPT !.refcount = n, !.memory = "freed"]]
        BY <1>9, <2>1
      <3>2. [inode[i] EXCEPT !.refcount = n, !.memory = "freed"] \in InodeRec
        BY <1>9 DEF InodeRec
      <3>3. /\ inode'[i] = [inode[i] EXCEPT !.refcount = n, !.memory = "freed"]
            /\ inode' \in [Ids -> InodeRec] /\ \A j \in Ids : j # i => inode'[j] = inode[j]
        BY <1>9, <3>1, <3>2
      <3> QED
        BY <1>9, <2>1, <3>3 DEF InodeRec
    <2>2. CASE table' = table /\ inode' = [inode EXCEPT ![i].refcount = n]
      <3>1. inode' = [inode EXCEPT ![i] = [inode[i] EXCEPT !.refcount = n]]
        BY <1>9, <2>2
      <3>2. [inode[i] EXCEPT !.refcount = n] \in InodeRec
        BY <1>9 DEF InodeRec
      <3>3. /\ inode'[i] = [inode[i] EXCEPT !.refcount = n]
            /\ inode' \in [Ids -> InodeRec] /\ \A j \in Ids : j # i => inode'[j] = inode[j]
        BY <1>9, <3>1, <3>2
      <3> QED
        BY <1>9, <2>2, <3>3 DEF InodeRec
    <2> QED
      BY <2>1, <2>2 DEF polyos_close
  <1>11. Settled
    BY <1>4, <1>10 DEF Settled
  <1>12. table' \in Seq(EntryRec) /\ Tables'
    <2>1. CASE inode'[i].memory = "freed" /\ table' = i_hashtable_delete(p)
      BY <1>1, <1>4, <1>10, <2>1, FreeIs
    <2>2. CASE inode'[i].memory = inode[i].memory /\ table' = table
      <3>1. \A j \in Ids : inode'[j].memory = inode[j].memory /\ inode'[j].path = inode[j].path
        BY <1>10, <2>2
      <3> QED
        BY <1>1, <2>2, <3>1 DEF Tables, TypeOK, EntryRec
    <2> QED
      BY <1>10, <2>1, <2>2
  <1>13. TypeOK'
    BY <1>1, <1>5, <1>10, <1>12 DEF TypeOK, Others, ThreadRec, InodeRec, EntryRec, data
  <1>14. Numbers' /\ Budget'
    <2>1. \A u \in Threads : HasFd(u)' => HasFd(u) /\ thr'[u].fd = thr[u].fd
      BY <1>5 DEF Others, HasFd, OpenPCs, ClosePCs
    <2>2. Numbers'
      BY <1>1, <2>1, NumbersKept
    <2>3. Budget'
      BY <1>1, <1>5, BudgetStay
    <2> QED
      BY <2>2, <2>3
  <1>15. Locals'
    <2>1. Knows(t)' /\ Renames(t)'
      BY <1>5, KnowsNothing
    <2> QED
      BY <1>1, <1>5, <1>11, <2>1, LocalsStay
  <1>16. References'
    <2>1. IsFiniteSet(Refs')
      BY <1>1, <1>6, FS_Subset DEF References
    <2>2. {h \in Refs' : h.ino = i} = S \ {Ref(t)}
      BY <1>6 DEF S
    <2>3. ASSUME NEW j \in Ids, j # i
          PROVE  {h \in Refs' : h.ino = j} = {h \in Refs : h.ino = j}
      BY <1>3, <1>6, <2>3
    <2>4. RefcountExact'
      <3> SUFFICES ASSUME NEW j \in Ids, inode'[j].memory = "live"
                   PROVE  inode'[j].refcount = Cardinality({h \in Refs' : h.ino = j})
        BY DEF RefcountExact
      <3>1. CASE j = i
        BY <1>10, <2>2, <3>1
      <3>2. CASE j # i
        <4>1. inode'[j] = inode[j]
          BY <1>10, <3>2
        <4>2. inode[j].refcount = Cardinality({h \in Refs : h.ino = j})
          BY <1>1, <4>1 DEF References, RefcountExact
        <4> QED
          BY <2>3, <3>2, <4>1, <4>2
      <3> QED
        BY <3>1, <3>2
    <2>5. \A h \in Refs' : h.ino = i => n # 0
      <3> SUFFICES ASSUME n = 0
                   PROVE  \A h \in Refs' : h.ino # i
        OBVIOUS
      <3>1. S \ {Ref(t)} = {}
        BY <1>7, FS_EmptySet
      <3> QED
        BY <2>2, <3>1
    <2>6. \A h \in Refs' : h \in Refs /\ h.ino \in Ids
      BY <1>1, <1>6, RefsTyped DEF RefRec
    <2>7. \A h \in Refs' : inode'[h.ino].memory = "live" /\ h.file \in 1 .. files'
      BY <1>1, <1>4, <1>10, <2>5, <2>6 DEF References
    <2> QED
      BY <2>1, <2>4, <2>7 DEF References
  <1>17. OnDisk' /\ Shared'
    <2>1. SameOpen(t)
      BY <1>5 DEF SameOpen, OpenPCs
    <2> QED
      BY <1>1, <1>5, <1>6, <1>11, <2>1, OnDiskStay, SharedStay
  <1> QED
    BY <1>12, <1>13, <1>14, <1>15, <1>16, <1>17 DEF IInv

LEMMA CloseStep ==
    ASSUME IInv, ~ AnyRename, NEW t \in Threads, Close(t)
    PROVE  IInv'
  <1>1. /\ TypeOK /\ Tables /\ Numbers /\ Budget /\ Locals /\ References /\ OnDisk /\ Shared
        /\ thr[t].pc = "idle" /\ \A u \in Threads : thr[u].pc \notin RenamePCs
        /\ calls' = calls + 1 /\ calls' \in 0 .. MaxCalls
        /\ UNCHANGED <<disk, files, kernel, hashmap, inode, data, undefined>>
    BY MayCallIs DEF IInv, Close
  <1>2. PICK h \in fds : /\ Begins("close", inode[h.ino].path) /\ fds' = fds \ {h}
                         /\ thr' = [thr EXCEPT ![t] = [Idle EXCEPT !.pc = "check", !.fd = h.fd,
                                                    !.file = h.file, !.ino = h.ino]]
    BY DEF Close
  <1>3. h \in RefRec
    BY <1>1 DEF TypeOK, RefRec
  <1> PICK r \in ThreadRec : r = [Idle EXCEPT !.pc = "check", !.fd = h.fd,
                                              !.file = h.file, !.ino = h.ino]
    BY <1>3 DEF Idle, ThreadRec, RefRec, PCs, ClosePCs
  <1>4. r.pc = "check" /\ r.fd = h.fd /\ r.file = h.file /\ r.ino = h.ino
    BY DEF Idle
  <1>5. Others(t) /\ thr'[t] = r
    BY <1>1, <1>2, BecomesIs
  <1>6. Ref(t)' = h
    BY <1>3, <1>4, <1>5 DEF Ref, RefRec
  <1>7. Refs' = Refs
    <2>1. \A u \in Threads : u # t => thr'[u] = thr[u] /\ Ref(u)' = Ref(u)
      BY <1>5 DEF Others, Ref
    <2>2. thr'[t].pc \in ClosePCs /\ thr[t].pc \notin ClosePCs
      BY <1>1, <1>4, <1>5 DEF ClosePCs
    <2>3. \A g : g \in Refs' <=> g \in Refs
      BY <1>2, <1>6, <2>1, <2>2, RefsIs, RefsAfter
    <2> QED
      BY <2>3
  <1>8. Settled /\ \A g \in Refs : g.ino \in Ids
    BY <1>1, RefsTyped DEF Settled, RefRec
  <1>9. TypeOK'
    BY <1>1, <1>2, <1>5, BeginsType DEF TypeOK, Others, ThreadRec, kernel, data
  <1>10. Tables'
    BY <1>1, TablesStay DEF kernel
  <1>11. Numbers'
    <2>1. \A k \in 1 .. calls : k \in 1 .. calls'
      BY <1>1 DEF TypeOK
    <2>2. h.fd \in 1 .. calls /\ \A g \in fds' : g.fd # h.fd
      BY <1>1, <1>2 DEF Numbers
    <2>3. \A u \in Threads : u # t /\ HasFd(u)' =>
             HasFd(u) /\ thr'[u].fd = thr[u].fd /\ thr[u].fd # h.fd
      BY <1>1, <1>2, <1>5 DEF Others, HasFd, Numbers
    <2>4. thr'[t].fd = h.fd
      BY <1>4, <1>5
    <2> QED
      BY <1>1, <1>2, <2>1, <2>2, <2>3, <2>4 DEF Numbers
  <1>12. Budget'
    BY <1>1, <1>4, <1>5, BudgetStay DEF kernel
  <1>13. Knows(t)' /\ Renames(t)'
    BY <1>3, <1>4, <1>5
       DEF Knows, Renames, RefRec, OpenPCs, ClosePCs, UnlinkPCs, RenamePCs
  <1>14. Locals'
    BY <1>1, <1>5, <1>8, <1>13, LocalsStay
  <1>15. References'
    BY <1>1, <1>7, <1>8, ReferencesStay
  <1>16. OnDisk' /\ Shared'
    <2>1. SameOpen(t)
      BY <1>4, <1>5 DEF SameOpen, OpenPCs
    <2> QED
      BY <1>1, <1>5, <1>7, <1>8, <2>1, OnDiskStay, SharedStay
  <1> QED
    BY <1>9, <1>10, <1>11, <1>12, <1>14, <1>15, <1>16 DEF IInv

(* Two inodes in memory under one path are one. *)
LEMMA PathsOnce ==
    ASSUME TypeOK, Tables, NEW i \in Ids, NEW j \in Ids, inode[i].memory = "live",
           inode[j].memory = "live", inode[i].path = inode[j].path
    PROVE  i = j
  <1> PICK p \in Paths : p = inode[i].path
    BY DEF Tables
  <1>1. KeysOnce(table) /\ Entry(table, p, i) /\ Entry(table, p, j)
    BY DEF Tables
  <1>2. \A k \in Ids : Entry(table, p, k) <=> i_hashtable_search(p) = k
    BY <1>1, SearchIs
  <1> QED
    BY <1>1, <1>2

LEMMA CountStep ==
    ASSUME IInv, NEW t \in Threads, Count(t)
    PROVE  IInv'
  <1>1. /\ TypeOK /\ Tables /\ Numbers /\ Budget /\ Locals /\ References /\ OnDisk /\ Shared
        /\ thr[t].pc = "count" /\ thr[t].pc \in OpenPCs /\ Return(t)
        /\ fds' = fds \cup {Ref(t)}
        /\ UNCHANGED <<disk, files, kernel, lost, calls, raced, undefined>>
    BY DEF IInv, Count, At, OpenPCs, Ref
  <1>2. /\ thr[t].path \in Paths /\ thr[t].file \in 1 .. files
        /\ thr[t].ino \in Ids /\ inode[thr[t].ino].memory # "none"
        /\ inode[thr[t].ino].path = thr[t].path
    BY <1>1 DEF Locals, Knows
  <1> PICK i \in Ids, p \in Paths : i = thr[t].ino /\ p = thr[t].path
    BY <1>2
  <1>3. ~ Freed(i)
    <2>1. Uses(t) = {i} \ {None}
      BY <1>1 DEF Uses
    <2>2. i \in Uses(t)
      BY <2>1, BoundAssumption DEF Ids
    <2> QED
      BY <2>2 DEF Count, At
  <1>4. inode[i].memory = "live" /\ inode[i].path = p
    BY <1>1, <1>2, <1>3 DEF Freed, TypeOK
  <1>5. Others(t) /\ thr'[t].pc = "idle"
    BY <1>1, ReturnIs
  <1>6. thr[t].fd \in 1 .. calls /\ thr[t].fd \in Ids /\ thr[t].file \in Ids
    <2>1. thr[t].fd \in 1 .. calls
      BY <1>1 DEF Numbers, HasFd
    <2>2. calls \in 0 .. MaxCalls /\ files \in 0 .. MaxCalls /\ MaxCalls \in Nat
      BY <1>1, BoundAssumption DEF TypeOK
    <2> QED
      BY <1>2, <2>1, <2>2 DEF Ids
  <1> PICK c \in RefRec : c = Ref(t)
    BY <1>2, <1>6 DEF Ref, RefRec
  <1>7. c.fd = thr[t].fd /\ c.file = thr[t].file /\ c.ino = i
    BY RefIs
  <1>8. \A h \in Refs : h.fd # c.fd
    <2>1. \A h \in fds : h.fd # thr[t].fd
      BY <1>1 DEF Numbers, HasFd
    <2>2. \A u \in Threads : thr[u].pc \in ClosePCs => thr[u].fd # thr[t].fd
      BY <1>1 DEF Numbers, HasFd, ClosePCs
    <2> QED
      BY <1>7, <2>1, <2>2, RefsIs, RefIs
  <1>9. Refs' = Refs \cup {c} /\ c \notin Refs
    <2>1. \A u \in Threads : u # t => thr'[u] = thr[u] /\ Ref(u)' = Ref(u)
      BY <1>5 DEF Others, Ref
    <2>2. thr'[t].pc \notin ClosePCs /\ thr[t].pc \notin ClosePCs
      BY <1>1, <1>5 DEF ClosePCs
    <2>3. \A h : h \in Refs' <=> h \in Refs \/ h = c
      BY <1>1, <2>1, <2>2, RefsIs, RefsAfter
    <2> QED
      BY <1>8, <2>3
  <1>10. inode \in [Ids -> InodeRec] /\ inode[i] \in InodeRec
    BY <1>1 DEF TypeOK, InodeRec
  <1>11. /\ inode' \in [Ids -> InodeRec] /\ \A j \in Ids : j # i => inode'[j] = inode[j]
         /\ inode'[i].path = p /\ inode'[i].memory = "live"
         /\ inode'[i].refcount = inode[i].refcount + 1
    <2> PICK n \in Nat : n = inode[i].refcount + 1
      BY <1>10 DEF InodeRec
    <2>1. inode' = [inode EXCEPT ![i] = [inode[i] EXCEPT !.refcount = n]]
      BY <1>10 DEF Count
    <2>2. [inode[i] EXCEPT !.refcount = n] \in InodeRec
      BY <1>10 DEF InodeRec
    <2>3. /\ inode'[i] = [inode[i] EXCEPT !.refcount = n]
          /\ inode' \in [Ids -> InodeRec] /\ \A j \in Ids : j # i => inode'[j] = inode[j]
      BY <1>10, <2>1, <2>2
    <2> QED
      BY <1>4, <1>10, <2>3 DEF InodeRec
  <1>12. Settled /\ \A h \in Refs : h.ino \in Ids
    BY <1>1, <1>4, <1>11, RefsTyped DEF Settled, RefRec
  <1>13. TypeOK'
    <2>1. hashmap' \in [Paths -> Ids \cup {None}]
      BY <1>1, <1>4 DEF Count, TypeOK
    <2>2. cached' \in [Ids -> SUBSET Ids]
      BY <1>1, <1>6 DEF Count, TypeOK
    <2> QED
      BY <1>1, <1>5, <1>11, <2>1, <2>2
         DEF TypeOK, Others, ThreadRec, InodeRec, RefRec, kernel
  <1>14. Tables'
    <2>1. \A j \in Ids : inode'[j].memory = inode[j].memory /\ inode'[j].path = inode[j].path
      BY <1>4, <1>11
    <2> QED
      BY <1>1, <2>1 DEF Tables, kernel
  <1>15. Numbers'
    <2>1. \A u \in Threads : HasFd(u)' =>
             /\ u # t /\ HasFd(u) /\ thr'[u].fd = thr[u].fd /\ thr[u].fd # c.fd
      <3>1. ~ HasFd(t)'
        BY <1>5 DEF HasFd, OpenPCs, ClosePCs
      <3>2. \A u \in Threads : u # t /\ HasFd(u) => thr[u].fd # c.fd
        BY <1>1, <1>7 DEF Numbers, HasFd
      <3>3. \A u \in Threads : u # t => thr'[u] = thr[u]
        BY <1>5 DEF Others
      <3> QED
        BY <3>1, <3>2, <3>3 DEF HasFd
    <2>2. \A h \in fds : h.fd # c.fd
      BY <1>8, RefsIs
    <2>3. fds' = fds \cup {c} /\ calls' = calls /\ c.fd \in 1 .. calls
      BY <1>1, <1>6, <1>7
    <2> QED
      BY <1>1, <2>1, <2>2, <2>3 DEF Numbers
  <1>16. Budget'
    BY <1>1, <1>5, BudgetStay DEF kernel
  <1>17. Locals'
    <2>1. Knows(t)' /\ Renames(t)'
      BY <1>5, KnowsNothing
    <2> QED
      BY <1>1, <1>5, <1>12, <2>1, LocalsStay
  <1>18. References'
    <2>1. IsFiniteSet(Refs')
      BY <1>1, <1>9, FS_AddElement DEF References
    <2> DEFINE S == {h \in Refs : h.ino = i}
    <2>2. IsFiniteSet(S) /\ c \notin S
      BY <1>1, <1>9, FS_Subset DEF References
    <2>3. {h \in Refs' : h.ino = i} = S \cup {c}
      BY <1>7, <1>9
    <2>4. Cardinality(S \cup {c}) = Cardinality(S) + 1
      BY <2>2, FS_AddElement
    <2>5. inode[i].refcount = Cardinality(S)
      BY <1>1, <1>4 DEF References, RefcountExact
    <2> HIDE DEF S
    <2>6. ASSUME NEW j \in Ids, j # i
          PROVE  {h \in Refs' : h.ino = j} = {h \in Refs : h.ino = j}
      BY <1>7, <1>9, <2>6
    <2>7. RefcountExact'
      <3> SUFFICES ASSUME NEW j \in Ids, inode'[j].memory = "live"
                   PROVE  inode'[j].refcount = Cardinality({h \in Refs' : h.ino = j})
        BY DEF RefcountExact
      <3>1. CASE j = i
        BY <1>11, <2>3, <2>4, <2>5, <3>1
      <3>2. CASE j # i
        <4>1. inode'[j] = inode[j]
          BY <1>11, <3>2
        <4>2. inode[j].refcount = Cardinality({h \in Refs : h.ino = j})
          BY <1>1, <4>1 DEF References, RefcountExact
        <4> QED
          BY <2>6, <3>2, <4>1, <4>2
      <3> QED
        BY <3>1, <3>2
    <2>8. \A h \in Refs' : inode'[h.ino].memory = "live" /\ h.file \in 1 .. files'
      BY <1>1, <1>2, <1>7, <1>9, <1>11, <1>12 DEF References
    <2> QED
      BY <2>1, <2>7, <2>8 DEF References
  <1>19. \A h \in Refs : h.ino \in Ids /\ inode'[h.ino].path = inode[h.ino].path
    BY <1>1, <1>12, RefPaths
  <1>20. \A u \in Threads : /\ thr'[u].pc \in OpenPCs => u # t /\ thr'[u] = thr[u]
                            /\ thr[u].pc = "krename" => thr'[u] = thr[u]
    BY <1>1, <1>5 DEF Others, OpenPCs
  <1>21. OnDisk'
    <2>1. \A q \in Paths : disk[q] = c.file => q = inode'[c.ino].path
      BY <1>1, <1>7, <1>11 DEF OnDisk
    <2>2. ASSUME NEW h \in Refs', NEW q \in Paths, disk'[q] = h.file
          PROVE  \/ q = inode'[h.ino].path
                 \/ \E u \in Threads : /\ thr'[u].pc = "krename"
                                       /\ thr'[u].path = inode'[h.ino].path /\ thr'[u].to = q
      <3>1. CASE h = c
        BY <1>1, <2>1, <2>2, <3>1
      <3>2. CASE h \in Refs
        BY <1>1, <1>19, <1>20, <2>2, <3>2 DEF OnDisk
      <3> QED
        BY <1>9, <3>1, <3>2
    <2> QED
      BY <1>1, <1>20, <2>2 DEF OnDisk
  <1>22. Shared'
    <2>1. \A h \in Refs : h.file = c.file => h.ino = c.ino
      <3> SUFFICES ASSUME NEW h \in Refs, h.file = c.file
                   PROVE  h.ino = i
        BY <1>7
      <3>1. p = inode[h.ino].path
        BY <1>1, <1>7 DEF Shared
      <3>2. h.ino \in Ids /\ inode[h.ino].memory = "live"
        BY <1>1, <1>12 DEF References
      <3> QED
        BY <1>1, <1>4, <3>1, <3>2, PathsOnce
    <2>2. OneInodePerFile'
      BY <1>1, <1>9, <2>1 DEF Shared, OneInodePerFile
    <2>3. \A u \in Threads : thr'[u].pc \in OpenPCs /\ thr'[u].file = c.file =>
             thr'[u].path = inode'[c.ino].path
      BY <1>1, <1>7, <1>11, <1>20 DEF Shared
    <2> QED
      BY <1>1, <1>9, <1>19, <1>20, <2>2, <2>3 DEF Shared
  <1> QED
    BY <1>13, <1>14, <1>15, <1>16, <1>17, <1>18, <1>21, <1>22 DEF IInv

LEMMA OpenStep ==
    ASSUME IInv, ~ AnyRename, NEW t \in Threads, Open(t)
    PROVE  IInv'
  <1>1. /\ TypeOK /\ Tables /\ Numbers /\ Budget /\ Locals /\ References /\ OnDisk /\ Shared
        /\ thr[t].pc = "idle" /\ \A u \in Threads : thr[u].pc \notin RenamePCs
        /\ calls' = calls + 1 /\ calls' \in 0 .. MaxCalls /\ calls + 1 \in Ids
        /\ UNCHANGED <<kernel, hashmap, inode, data, fds, undefined>>
    BY MayCallIs DEF IInv, Open
  <1>2. PICK p \in Paths :
           LET f == IF disk[p] = None THEN files + 1 ELSE disk[p]
           IN  /\ Begins("open", p)
               /\ disk' = [disk EXCEPT ![p] = f]
               /\ files' = IF disk[p] = None THEN files + 1 ELSE files
               /\ thr' = [thr EXCEPT ![t] = [Idle EXCEPT !.pc = "search", !.path = p,
                                                         !.fd = calls + 1, !.file = f]]
    BY DEF Open
  <1>3. /\ files \in Nat /\ calls \in Nat /\ files <= calls /\ calls + 1 <= MaxCalls
        /\ MaxCalls \in Nat
    BY <1>1, BoundAssumption DEF TypeOK, Budget
  <1>4. /\ \A n \in 1 .. files : n \in Ids /\ n # None
        /\ files + 1 \in Ids /\ files + 1 # None
    BY <1>3, BoundAssumption DEF Ids
  <1>5. PICK f \in Ids :
           /\ f = IF disk[p] = None THEN files + 1 ELSE disk[p]
           /\ Begins("open", p) /\ disk' = [disk EXCEPT ![p] = f]
           /\ files' = IF disk[p] = None THEN files + 1 ELSE files
           /\ thr' = [thr EXCEPT ![t] = [Idle EXCEPT !.pc = "search", !.path = p,
                                                     !.fd = calls + 1, !.file = f]]
    BY <1>1, <1>2, <1>4 DEF TypeOK
  <1>6. /\ f # None /\ f \in 1 .. files' /\ files' \in 0 .. MaxCalls
        /\ files' \in {files, files + 1} /\ files' <= calls'
        /\ \A n \in 1 .. files : n \in 1 .. files'
    BY <1>1, <1>3, <1>4, <1>5 DEF OnDisk
  <1> PICK r \in ThreadRec : r = [Idle EXCEPT !.pc = "search", !.path = p,
                                              !.fd = calls + 1, !.file = f]
    BY <1>1 DEF Idle, ThreadRec, PCs, OpenPCs
  <1>7. r.pc = "search" /\ r.fd = calls + 1 /\ r.file = f /\ r.path = p
    BY DEF Idle
  <1>8. Others(t) /\ thr'[t] = r
    BY <1>1, <1>5, BecomesIs
  <1>9. Refs' = Refs
    <2>1. \A u \in Threads : u # t => thr'[u] = thr[u] /\ Ref(u)' = Ref(u)
      BY <1>8 DEF Others, Ref
    <2>2. thr'[t].pc \notin ClosePCs /\ thr[t].pc \notin ClosePCs
      BY <1>1, <1>7, <1>8 DEF ClosePCs
    <2>3. \A g : g \in Refs' <=> g \in Refs
      BY <1>1, <2>1, <2>2, RefsIs, RefsAfter
    <2> QED
      BY <2>3
  <1>10. Settled /\ \A h \in Refs : h.ino \in Ids
    BY <1>1, RefsTyped DEF Settled, RefRec
  <1>11. /\ disk' \in [Paths -> Ids \cup {None}] /\ disk'[p] = f
         /\ \A q \in Paths : q # p => disk'[q] = disk[q]
    BY <1>1, <1>5 DEF TypeOK
  <1>12. TypeOK'
    BY <1>1, <1>5, <1>6, <1>8, <1>11, BeginsType DEF TypeOK, Others, ThreadRec, kernel, data
  <1>13. Tables'
    BY <1>1, TablesStay DEF kernel
  <1>14. Numbers'
    <2>1. \A k \in 1 .. calls : k \in 1 .. calls' /\ k # calls + 1
      BY <1>1, <1>3
    <2>2. calls + 1 \in 1 .. calls'
      BY <1>1, <1>3
    <2>3. \A u \in Threads : u # t /\ HasFd(u)' =>
             HasFd(u) /\ thr'[u].fd = thr[u].fd /\ thr[u].fd \in 1 .. calls
      BY <1>1, <1>8 DEF Others, HasFd, Numbers
    <2>4. thr'[t].fd = calls + 1
      BY <1>7, <1>8
    <2> QED
      BY <1>1, <2>1, <2>2, <2>3, <2>4 DEF Numbers
  <1>15. Budget'
    <2>1. Pending' \subseteq Pending \cup {calls + 1}
      BY <1>7, <1>8, ZenonT(60) DEF Pending, Others
    <2>2. IsFiniteSet(Pending) /\ calls + 1 \notin Pending /\ Cardinality(Pending) \in Nat
      <3>1. IsFiniteSet(Pending) /\ Pending \subseteq 1 .. calls /\ Cardinality(Pending) \in Nat
        BY <1>1, PendingFinite
      <3> QED
        BY <1>3, <3>1
    <2>3. /\ IsFiniteSet(Pending \cup {calls + 1})
          /\ Cardinality(Pending \cup {calls + 1}) = Cardinality(Pending) + 1
      BY <2>2, FS_AddElement
    <2>4. /\ Cardinality(Pending') <= Cardinality(Pending \cup {calls + 1})
          /\ Cardinality(Pending') \in Nat
      BY <2>1, <2>3, FS_Subset, FS_CardinalityType
    <2> PICK a \in Nat, b \in Nat : a = Cardinality(Pending) /\ b = Cardinality(Pending')
      BY <2>2, <2>4
    <2>5. b <= a + 1
      BY <2>3, <2>4
    <2>6. inodes \in Nat /\ inodes + a <= calls /\ inodes' = inodes
      BY <1>1 DEF TypeOK, Budget, kernel
    <2>7. inodes' + b <= calls'
      BY <1>1, <1>3, <2>5, <2>6
    <2> QED
      BY <1>6, <2>7 DEF Budget
  <1>16. Knows(t)' /\ Renames(t)'
    BY <1>6, <1>7, <1>8 DEF Knows, Renames, OpenPCs, ClosePCs, UnlinkPCs, RenamePCs
  <1>17. Locals'
    BY <1>1, <1>6, <1>8, <1>10, <1>16, LocalsStay
  <1>18. References'
    BY <1>1, <1>6, <1>9, <1>10, ReferencesStay
  <1>19. \A u \in Threads : /\ u # t => thr'[u] = thr[u]
                            /\ thr[u].pc # "krename"
                            /\ thr[u].pc \in OpenPCs => u # t /\ thr[u].file \in 1 .. files
    BY <1>1, <1>8 DEF Others, Locals, Knows, RenamePCs, OpenPCs
  <1>20. \A h \in Refs : h.file \in 1 .. files
    BY <1>1 DEF References
  <1>21. (* a file opened before that has the number f is the one at p *)
         \A n \in 1 .. files : n = f => disk[p] = f
    BY <1>3, <1>5
  <1>22. \A q \in Paths, n \in 1 .. files : disk'[q] = n => disk[q] = n
    BY <1>11, <1>21
  <1>23. OnDisk'
    <2>1. \A q \in Paths : disk'[q] = f => q = p
      <3> SUFFICES ASSUME NEW q \in Paths, q # p, disk[q] = f
                   PROVE  FALSE
        BY <1>11
      <3>1. f \in 1 .. files
        BY <1>1, <1>6 DEF OnDisk
      <3> QED
        BY <1>1, <1>6, <1>21, <3>1 DEF OnDisk
    <2>2. \A q \in Paths : disk'[q] # None => disk'[q] \in 1 .. files'
      BY <1>1, <1>6, <1>11 DEF OnDisk
    <2>3. \A q, s \in Paths : disk'[q] = disk'[s] /\ disk'[q] # None => q = s
      BY <1>1, <1>11, <2>1 DEF OnDisk
    <2>4. ASSUME NEW u \in Threads, NEW q \in Paths, thr'[u].pc \in OpenPCs, disk'[q] = thr'[u].file
          PROVE  q = thr'[u].path
      <3>1. CASE u = t
        BY <1>7, <1>8, <2>1, <2>4, <3>1
      <3>2. CASE u # t
        BY <1>1, <1>19, <1>22, <2>4, <3>2 DEF OnDisk
      <3> QED
        BY <3>1, <3>2
    <2>5. \A h \in Refs, q \in Paths : disk'[q] = h.file => q = inode[h.ino].path
      BY <1>1, <1>19, <1>20, <1>22 DEF OnDisk
    <2>6. inode' = inode
      BY <1>1
    <2> QED
      BY <1>9, <2>2, <2>3, <2>4, <2>5, <2>6 DEF OnDisk
  <1>24. Shared'
    <2>1. OneInodePerFile'
      BY <1>1, <1>9 DEF Shared, OneInodePerFile
    <2>2. \A h \in Refs : h.file = f => p = inode[h.ino].path
      BY <1>1, <1>19, <1>20, <1>21 DEF OnDisk
    <2>3. \A u \in Threads : thr[u].pc \in OpenPCs /\ thr[u].file = f => thr[u].path = p
      BY <1>1, <1>19, <1>21 DEF OnDisk
    <2>4. thr'[t].file = f /\ thr'[t].path = p /\ inode' = inode
      BY <1>1, <1>7, <1>8
    <2>5. \A u \in Threads, h \in Refs : thr'[u].pc \in OpenPCs /\ thr'[u].file = h.file =>
             thr'[u].path = inode[h.ino].path
      BY <1>1, <1>19, <2>2, <2>4 DEF Shared
    <2>6. ASSUME NEW u \in Threads, NEW v \in Threads, thr'[u].pc \in OpenPCs,
                 thr'[v].pc \in OpenPCs, thr'[u].file = thr'[v].file
          PROVE  thr'[u].path = thr'[v].path
      <3>1. CASE u = t /\ v = t
        BY <3>1
      <3>2. CASE u = t /\ v # t
        BY <1>19, <2>3, <2>4, <2>6, <3>2
      <3>3. CASE u # t /\ v = t
        BY <1>19, <2>3, <2>4, <2>6, <3>3
      <3>4. CASE u # t /\ v # t
        BY <1>1, <1>19, <2>6, <3>4 DEF Shared
      <3> QED
        BY <3>1, <3>2, <3>3, <3>4
    <2> QED
      BY <1>9, <2>1, <2>4, <2>5, <2>6 DEF Shared
  <1> QED
    BY <1>12, <1>13, <1>14, <1>15, <1>17, <1>18, <1>23, <1>24 DEF IInv

LEMMA polyos_renameStep ==
    ASSUME IInv, NEW t \in Threads, polyos_rename(t)
    PROVE  IInv'
  <1>1. /\ TypeOK /\ Tables /\ Numbers /\ Budget /\ Locals /\ References /\ OnDisk /\ Shared
        /\ thr[t].pc = "krename" /\ Goto(t, "hashrename") /\ "hashrename" \in PCs
        /\ UNCHANGED <<disk, files, inodes, hashmap, data, fds, calls, raced, undefined>>
    BY PCsAre DEF IInv, polyos_rename, At, RenamePCs
  <1>2. /\ thr[t].path \in Paths /\ thr[t].to \in Paths /\ thr[t].path # thr[t].to
        /\ \A u \in Threads : u # t => thr[u].pc = "idle"
        /\ \A i \in Ids : ~ Entry(table, thr[t].to, i)
        /\ disk[thr[t].path] = None
    BY <1>1 DEF Locals, Renames, RenamePCs
  <1> PICK p \in Paths, q \in Paths : p = thr[t].path /\ q = thr[t].to /\ p # q
    BY <1>2
  <1> PICK i \in Ids \cup {None} : i = i_hashtable_search(p)
    BY <1>1, SearchIs DEF Tables
  <1>3. /\ Others(t) /\ thr'[t].pc = "hashrename" /\ thr'[t].path = p /\ thr'[t].to = q
    BY <1>1, GotoIs
  <1>4. Quiet(t)
    BY <1>1, <1>3 DEF Quiet, OpenPCs, ClosePCs
  <1>5. Refs' = Refs /\ \A h \in Refs : h.ino \in Ids
    BY <1>1, <1>3, <1>4, QuietRefs, RefsTyped DEF RefRec
  <1>6. None \notin Ids /\ \A j \in Ids : Entry(table, p, j) <=> i = j
    <2>1. KeysOnce(table)
      BY <1>1 DEF Tables
    <2> QED
      BY <1>1, <2>1, SearchIs, BoundAssumption DEF Ids
  <1>7. \A j \in Ids : inode[j].memory = "live" /\ inode[j].path = p <=> i = j
    BY <1>1, <1>6 DEF Tables
  <1>8. /\ inode' \in [Ids -> InodeRec] /\ \A j \in Ids : j # i => inode'[j] = inode[j]
        /\ i # None => /\ inode'[i].path = q /\ inode'[i].memory = inode[i].memory
                       /\ inode'[i].refcount = inode[i].refcount
    <2>1. inode \in [Ids -> InodeRec]
      BY <1>1 DEF TypeOK, InodeRec
    <2>2. CASE i = None
      BY <1>6, <2>1, <2>2 DEF polyos_rename
    <2>3. CASE i # None
      <3>1. i \in Ids /\ inode[i] \in InodeRec /\ inode' = [inode EXCEPT ![i].path = q]
        BY <2>1, <2>3 DEF polyos_rename
      <3>2. inode' = [inode EXCEPT ![i] = [inode[i] EXCEPT !.path = q]]
        BY <2>1, <3>1
      <3>3. [inode[i] EXCEPT !.path = q] \in InodeRec
        BY <3>1 DEF InodeRec
      <3>4. /\ inode'[i] = [inode[i] EXCEPT !.path = q]
            /\ inode' \in [Ids -> InodeRec] /\ \A j \in Ids : j # i => inode'[j] = inode[j]
        BY <2>1, <3>1, <3>2, <3>3
      <3> QED
        BY <3>1, <3>4 DEF InodeRec
    <2> QED
      BY <2>2, <2>3
  <1>9. /\ table' \in Seq(EntryRec) /\ KeysOnce(table')
        /\ \A r \in Paths, j \in Ids : Entry(table', r, j) <=>
              (Entry(table, r, j) /\ r # p) \/ (r = q /\ j = i)
    <2>1. CASE i = None
      <3>1. table' = table
        BY <2>1 DEF polyos_rename
      <3> QED
        BY <1>1, <1>6, <2>1, <3>1 DEF TypeOK, EntryRec, Tables
    <2>2. CASE i # None
      <3> PICK d : d = i_hashtable_delete(p)
        OBVIOUS
      <3>1. /\ d \in Seq(EntryRec) /\ KeysOnce(d)
            /\ \A r \in Paths, j \in Ids : Entry(d, r, j) <=> Entry(table, r, j) /\ r # p
        BY <1>1, DeleteIs DEF Tables
      <3>2. table' = i_hashtable_insert(d, q, i) /\ i \in Ids
        BY <2>2 DEF polyos_rename
      <3>3. \A j \in Ids : ~ Entry(d, q, j)
        BY <1>2, <3>1
      <3>4. /\ table' \in Seq(EntryRec) /\ KeysOnce(table')
            /\ \A r \in Paths, j \in Ids : Entry(table', r, j) <=>
                  Entry(d, r, j) \/ (r = q /\ j = i)
        BY <3>1, <3>2, <3>3, InsertIs
      <3> QED
        BY <3>1, <3>4
    <2> QED
      BY <2>1, <2>2
  <1>10. TypeOK'
    BY <1>1, <1>3, <1>8, <1>9 DEF TypeOK, Others, ThreadRec, InodeRec, EntryRec, data
  <1>11. Tables'
    <2>1. ASSUME NEW r \in Paths, NEW j \in Ids
          PROVE  Entry(table', r, j) <=> inode'[j].memory = "live" /\ inode'[j].path = r
      <3>1. Entry(table, r, j) <=> inode[j].memory = "live" /\ inode[j].path = r
        BY <1>1 DEF Tables
      <3>2. CASE j = i
        BY <1>6, <1>7, <1>8, <1>9, <3>1, <3>2
      <3>3. CASE j # i
        BY <1>7, <1>8, <1>9, <3>1, <3>3
      <3> QED
        BY <3>2, <3>3
    <2>2. ASSUME NEW j \in Ids
          PROVE  /\ inode'[j].memory = "live" => inode'[j].path \in Paths
                 /\ j > inodes' => inode'[j].memory = "none"
      <3>1. CASE j = i
        BY <1>1, <1>6, <1>8, <3>1 DEF Tables
      <3>2. CASE j # i
        BY <1>1, <1>8, <3>2 DEF Tables
      <3> QED
        BY <3>1, <3>2
    <2> QED
      BY <1>9, <2>1, <2>2 DEF Tables
  <1>12. Numbers'
    BY <1>1, <1>3, <1>4, NumbersStay
  <1>13. Budget'
    BY <1>1, <1>3, BudgetStay
  <1>14. \A u \in Threads : u # t => thr'[u].pc = "idle"
    BY <1>2, <1>3 DEF Others
  <1>15. Locals'
    <2>1. \A u \in Threads : u # t => Knows(u)' /\ Renames(u)'
      BY <1>14, KnowsNothing
    <2>2. Knows(t)'
      BY <1>3 DEF Knows, OpenPCs, ClosePCs, UnlinkPCs
    <2>3. Renames(t)'
      BY <1>3, <1>14 DEF Renames
    <2> QED
      BY <2>1, <2>2, <2>3 DEF Locals
  <1>16. References'
    <2>1. \A j \in Ids : /\ inode'[j].memory = inode[j].memory
                         /\ inode'[j].refcount = inode[j].refcount
      BY <1>6, <1>8
    <2> QED
      BY <1>1, <1>5, <2>1, ReferencesStay
  <1>17. \A u \in Threads : thr'[u].pc \notin OpenPCs
    BY <1>3, <1>14 DEF OpenPCs
  <1>18. OnDisk'
    <2> SUFFICES ASSUME NEW h \in Refs, NEW r \in Paths, disk[r] = h.file
                 PROVE  r = inode'[h.ino].path
      BY <1>1, <1>5, <1>17 DEF OnDisk
    <2>1. h.file # None
      BY <1>1, BoundAssumption DEF References, TypeOK
    <2>2. h.ino \in Ids /\ inode[h.ino].memory = "live"
      BY <1>1, <1>5 DEF References
    <2>3. r # p
      BY <1>2, <2>1
    <2>4. r = inode[h.ino].path \/ (p = inode[h.ino].path /\ q = r)
      <3>1. \A u \in Threads : thr[u].pc = "krename" => u = t
        BY <1>2
      <3> QED
        BY <1>1, <3>1 DEF OnDisk
    <2>5. CASE h.ino = i
      BY <1>6, <1>7, <1>8, <2>2, <2>3, <2>4, <2>5
    <2>6. CASE h.ino # i
      BY <1>7, <1>8, <2>2, <2>4, <2>6
    <2> QED
      BY <2>5, <2>6
  <1>19. Shared'
    <2>1. OneInodePerFile'
      BY <1>1, <1>5 DEF Shared, OneInodePerFile
    <2> QED
      BY <1>17, <2>1 DEF Shared
  <1> QED
    BY <1>10, <1>11, <1>12, <1>13, <1>15, <1>16, <1>18, <1>19 DEF IInv

-----------------------------------------------------------------------------
(* The invariant. *)

LEMMA InitIInv ==
    ASSUME Init
    PROVE  IInv
  <1>1. \A t \in Threads : thr[t] = Idle /\ thr[t].pc = "idle"
    BY IdleIs DEF Init
  <1>2. TypeOK
    <2>1. thr \in [Threads -> ThreadRec]
      BY IdleIs DEF Init
    <2>2. MaxCalls \in Nat
      BY BoundAssumption
    <2>3. table \in Seq([path : Paths, ino : Ids])
      BY DEF Init
    <2>4. /\ disk \in [Paths -> Ids \cup {None}] /\ hashmap \in [Paths -> Ids \cup {None}]
          /\ cached \in [Ids -> SUBSET Ids] /\ lost \subseteq Ids
          /\ fds \subseteq [fd : Ids, file : Ids, ino : Ids]
      BY DEF Init
    <2>5. inode \in [Ids -> InodeRec]
      BY DEF Init, InodeRec
    <2>6. raced \in BOOLEAN /\ undefined \in BOOLEAN
      BY DEF Init
    <2>7. files \in 0 .. MaxCalls /\ inodes \in 0 .. MaxCalls /\ calls \in 0 .. MaxCalls
      BY <2>2 DEF Init
    <2> QED
      BY <2>1, <2>3, <2>4, <2>5, <2>6, <2>7 DEF TypeOK, ThreadRec, InodeRec
  <1>3. Refs = {}
    BY <1>1, RefsIs DEF Init, ClosePCs
  <1>4. Tables
    <2>1. DOMAIN table = {}
      BY DEF Init
    <2>2. \A i \in Ids : inode[i].memory = "none"
      BY DEF Init
    <2> QED
      BY <2>1, <2>2 DEF Tables, KeysOnce, Entry
  <1>5. Numbers
    BY <1>1 DEF Init, Numbers, HasFd, OpenPCs, ClosePCs
  <1>6. Budget
    <2>1. Pending = {}
      BY <1>1 DEF Pending
    <2>2. Cardinality(Pending) = 0
      BY <2>1, FS_EmptySet
    <2> QED
      BY <2>2 DEF Init, Budget
  <1>7. Locals
    BY <1>1 DEF Locals, Knows, Renames, OpenPCs, ClosePCs, UnlinkPCs, RenamePCs
  <1>8. References
    <2>1. IsFiniteSet(Refs)
      BY <1>3, FS_EmptySet
    <2>2. RefcountExact
      BY DEF Init, RefcountExact
    <2> QED
      BY <1>3, <2>1, <2>2 DEF References
  <1>9. OnDisk
    <2>1. \A p \in Paths : disk[p] = None
      BY DEF Init
    <2> QED
      BY <1>1, <1>3, <2>1 DEF OnDisk, OpenPCs
  <1>10. Shared
    BY <1>1, <1>3 DEF Shared, OneInodePerFile, OpenPCs
  <1> QED
    BY <1>2, <1>4, <1>5, <1>6, <1>7, <1>8, <1>9, <1>10 DEF IInv

(* A step that changes at most the flag of undefined behaviour. *)
LEMMA StillStep ==
    ASSUME IInv, undefined' \in BOOLEAN,
           UNCHANGED <<disk, files, kernel, hashmap, inode, data, fds, thr, calls, raced>>
    PROVE  IInv'
  <1>1. /\ disk' = disk /\ files' = files /\ table' = table /\ inodes' = inodes
        /\ hashmap' = hashmap /\ inode' = inode /\ cached' = cached /\ lost' = lost
        /\ fds' = fds /\ thr' = thr /\ calls' = calls /\ raced' = raced
    BY DEF kernel, data
  <1>2. Refs' = Refs /\ Pending' = Pending
    BY <1>1 DEF Refs, Closing, Pending
  <1>3. TypeOK'
    BY <1>1 DEF IInv, TypeOK
  <1>4. Tables' /\ Numbers' /\ Budget'
    BY <1>1, <1>2 DEF IInv, Tables, KeysOnce, Entry, Numbers, HasFd, Budget
  <1>5. Locals'
    BY <1>1 DEF IInv, Locals, Knows, Renames, Entry
  <1>6. References'
    BY <1>1, <1>2 DEF IInv, References, RefcountExact
  <1>7. OnDisk' /\ Shared'
    BY <1>1, <1>2 DEF IInv, OnDisk, Shared, OneInodePerFile
  <1> QED
    BY <1>3, <1>4, <1>5, <1>6, <1>7 DEF IInv

LEMMA NextIInv ==
    ASSUME ~ AnyRename, IInv, [Next]_vars
    PROVE  IInv'
  <1>1. CASE UNCHANGED vars
    <2>1. undefined' \in BOOLEAN
      BY <1>1, Zenon DEF vars, IInv, TypeOK
    <2> QED
      BY <1>1, <2>1, StillStep DEF vars
  <1>2. CASE UseFreedInode
    BY <1>2, StillStep DEF UseFreedInode
  <1>3. ASSUME NEW t \in Threads, Thread(t)
        PROVE  IInv'
    BY <1>3, OpenStep, SearchStep, InsertStep, CountStep, CloseStep, CheckLastStep,
       CloseDropStep, CloseCmdStep, CloseFindStep, polyos_closeStep, UnlinkStep,
       FindUnusedStep, DropUnusedStep, UnlinkFilesStep, UnlinkFindStep, polyos_unlinkStep,
       RenameStep, RenameFilesStep, polyos_renameStep, HashmapRenameStep DEF Thread
  <1> QED
    BY <1>1, <1>2, <1>3 DEF Next

LEMMA Invariance ==
    ASSUME ~ AnyRename
    PROVE  Spec => []IInv
  <1>1. Init => IInv
    BY InitIInv
  <1>2. IInv /\ [Next]_vars => IInv'
    BY NextIInv
  <1> QED
    BY <1>1, <1>2, PTL DEF Spec

(* Inode numbers, files and descriptors stay within the calls made, and    *)
(* every field keeps its type: polyos_open never runs out of the numbers   *)
(* the calls entitle it to.                                                *)
THEOREM TypeCorrect ==
    ASSUME ~ AnyRename
    PROVE  Spec => []TypeOK
  <1>1. IInv => TypeOK
    BY DEF IInv
  <1> QED
    BY <1>1, Invariance, PTL

(* However opens, closes, unlinks and renames that are alone interleave,   *)
(* the count the library raises and the kernel lowers is the number of     *)
(* descriptors of the inode.                                               *)
THEOREM RefcountIsExact ==
    ASSUME ~ AnyRename
    PROVE  Spec => []RefcountExact
  <1>1. IInv => RefcountExact
    BY DEF IInv, References
  <1> QED
    BY <1>1, Invariance, PTL

(* Descriptors of one file share one Poly-inode.                           *)
THEOREM FilesHaveOneInode ==
    ASSUME ~ AnyRename
    PROVE  Spec => []OneInodePerFile
  <1>1. IInv => OneInodePerFile
    BY DEF IInv, Shared
  <1> QED
    BY <1>1, Invariance, PTL

(* The kernel's table leads from the path of an inode in use to that       *)
(* inode, and nowhere to freed memory.                                     *)
THEOREM TableLeadsToInodes ==
    ASSUME ~ AnyRename
    PROVE  Spec => []TableFinds
  <1>1. ASSUME IInv
        PROVE  TableFinds
    <2>1. \A h \in Refs : ~ Freed(h.ino) /\ i_hashtable_search(inode[h.ino].path) = h.ino
      BY <1>1, RefFound DEF Freed
    <2>2. ASSUME NEW k \in DOMAIN table
          PROVE  ~ Freed(table[k].ino)
      <3>1. table[k].path \in Paths /\ table[k].ino \in Ids
        <4>1. table \in Seq(EntryRec)
          BY <1>1 DEF IInv, TypeOK, EntryRec
        <4>2. table[k] \in EntryRec
          BY <4>1
        <4> QED
          BY <4>2 DEF EntryRec
      <3>2. Entry(table, table[k].path, table[k].ino)
        BY DEF Entry
      <3>3. inode[table[k].ino].memory = "live"
        BY <1>1, <3>1, <3>2 DEF IInv, Tables
      <3> QED
        BY <3>3 DEF Freed
    <2> QED
      BY <2>1, <2>2 DEF TableFinds
  <1>2. IInv => TableFinds
    BY <1>1
  <1> QED
    BY <1>2, Invariance, PTL

-----------------------------------------------------------------------------
(* Freed memory.  Until a race is recorded, who decides to free an inode   *)
(* is alone on its path, and the library's map has live inodes.            *)

(* The path a call is about. *)
Path(t) == IF thr[t].path # None THEN thr[t].path ELSE inode[thr[t].ino].path

(* No other call is about the path of t. *)
Sole(t) == \A u \in Threads : u # t /\ thr[u].pc # "idle" => Path(u) # Path(t)

Ordered(t) ==
    /\ thr[t].pc \in UnlinkPCs => Sole(t)
    /\ thr[t].pc \in ClosePCs /\ inode[thr[t].ino].reclaim => Sole(t)

(* The map leads to inodes in memory, by their paths; a rename is late. *)
Mapped(p) ==
    hashmap[p] # None =>
        /\ inode[hashmap[p]].memory = "live"
        /\ \/ inode[hashmap[p]].path = p
           \/ \E t \in Threads : /\ thr[t].pc = "hashrename" /\ thr[t].path = p
                                 /\ thr[t].to = inode[hashmap[p]].path

(* The inode a call has found is in memory; who is about to free one has   *)
(* taken it out of the map.                                                *)
Holds(t) ==
    /\ thr[t].pc \in {"check", "closedrop", "closecmd"} => thr[t].path = None
    /\ thr[t].pc = "count" => inode[thr[t].ino].memory = "live"
    /\ thr[t].pc = "drop" => /\ thr[t].ino = hashmap[thr[t].path]
                             /\ inode[thr[t].ino].refcount = 0
    /\ \A i \in Ids :
          /\ thr[t].pc \in {"unlink", "unlinkfind", "unlinked"}
          /\ inode[i].memory = "live" /\ inode[i].path = thr[t].path /\ inode[i].refcount = 0
          => hashmap[thr[t].path] = None
    /\ thr[t].pc = "unlinked" => inode[thr[t].found].memory = "live"
    /\ /\ thr[t].pc \in {"closecmd", "closefind", "closed"}
       /\ inode[thr[t].ino].reclaim /\ inode[thr[t].ino].refcount = 1
       => hashmap[inode[thr[t].ino].path] = None
    /\ thr[t].pc = "hashrename" =>
          \A i \in Ids : inode[i].memory = "live" => inode[i].path # thr[t].path

Clean == /\ \A t \in Threads : Ordered(t) /\ Holds(t)
         /\ \A p \in Paths : Mapped(p)
Careful == ~ raced => Clean /\ ~ undefined

(* The path of a call is the one it names, or that of the inode it closes. *)
LEMMA PathIs ==
    ASSUME IInv, Clean, NEW t \in Threads, thr[t].pc # "idle"
    PROVE  /\ Path(t) \in Paths
           /\ thr[t].pc \in ClosePCs => Path(t) = inode[thr[t].ino].path
           /\ thr[t].pc \notin ClosePCs => Path(t) = thr[t].path
  <1>1. thr[t].pc \in PCs /\ None \notin Paths
    BY PathAssumption DEF IInv, TypeOK
  <1>2. CASE thr[t].pc \in ClosePCs
    <2>1. Ref(t) \in Refs /\ Ref(t).ino = thr[t].ino
      BY <1>2, RefsIs, RefIs
    <2>2. inode[thr[t].ino].path \in Paths
      BY <2>1, RefFound
    <2>3. CASE thr[t].pc \in {"check", "closedrop", "closecmd"}
      <3>1. thr[t].path = None
        BY <2>3 DEF Clean, Holds
      <3> QED
        BY <1>2, <2>2, <3>1 DEF Path
    <2>4. CASE thr[t].pc \in {"closefind", "closed"}
      <3>1. thr[t].path = inode[thr[t].ino].path
        BY <2>4 DEF IInv, Locals, Knows
      <3> QED
        BY <1>2, <2>2, <3>1 DEF Path
    <2> QED
      BY <1>2, <2>3, <2>4 DEF ClosePCs
  <1>3. CASE thr[t].pc \notin ClosePCs
    <2>1. thr[t].path \in Paths
      BY <1>1, <1>3 DEF IInv, Locals, Knows, Renames, PCs
    <2> QED
      BY <1>1, <1>3, <2>1 DEF Path
  <1> QED
    BY <1>2, <1>3

LEMMA PathStays ==
    ASSUME IInv, Clean, NEW t \in Threads, Others(t), Settled,
           NEW u \in Threads, u # t, thr[u].pc # "idle"
    PROVE  Path(u)' = Path(u)
  <1>1. thr'[u] = thr[u]
    BY DEF Others
  <1>2. CASE thr[u].pc \in ClosePCs
    <2>1. Ref(u) \in Refs /\ Ref(u).ino = thr[u].ino
      BY <1>2, RefsIs, RefIs
    <2>2. thr[u].ino \in Ids /\ inode[thr[u].ino].memory = "live"
      BY <2>1, RefFound
    <2>3. inode'[thr[u].ino].path = inode[thr[u].ino].path
      BY <2>2 DEF Settled
    <2> QED
      BY <1>1, <2>3 DEF Path
  <1>3. CASE thr[u].pc \notin ClosePCs
    <2>1. thr[u].path # None
      BY <1>3, PathIs, PathAssumption
    <2> QED
      BY <1>1, <2>1 DEF Path
  <1> QED
    BY <1>2, <1>3

(* The step of a call is about its path only; it frees or unlinks an inode *)
(* only where the call is alone.                                           *)
Local(t) ==
    /\ \A i \in Ids : inode[i].memory # "none" /\ inode[i].path # Path(t) => inode'[i] = inode[i]
    /\ \A i \in Ids : inode[i].memory = "none" => inode'[i] = inode[i] \/ inode'[i].path = Path(t)
    /\ \A p \in Paths : p # Path(t) => hashmap'[p] = hashmap[p]
    /\ \A i \in Ids : /\ inode[i].memory = "live"
                      /\ inode'[i].memory # "live" \/ inode'[i].reclaim # inode[i].reclaim
                      => Sole(t)

(* The call goes on, or it ends. *)
GoesOn(t) ==
    /\ thr'[t].pc # "idle" => Path(t)' = Path(t)
    /\ thr'[t].pc \in UnlinkPCs => thr[t].pc \in UnlinkPCs
    /\ thr'[t].pc \in ClosePCs =>
          /\ thr[t].pc \in ClosePCs /\ thr'[t].ino = thr[t].ino
          /\ inode'[thr[t].ino].reclaim = inode[thr[t].ino].reclaim

LEMMA SoleStays ==
    ASSUME IInv, Clean, NEW t \in Threads, Others(t), Settled, GoesOn(t), thr[t].pc # "idle",
           NEW u \in Threads, thr'[u].pc # "idle", Sole(u)
    PROVE  Sole(u)'
  <1>1. \A v \in Threads : thr'[v].pc # "idle" => thr[v].pc # "idle" /\ Path(v)' = Path(v)
    <2> SUFFICES ASSUME NEW v \in Threads, thr'[v].pc # "idle"
                 PROVE  thr[v].pc # "idle" /\ Path(v)' = Path(v)
      OBVIOUS
    <2>1. CASE v = t
      BY <2>1 DEF GoesOn
    <2>2. CASE v # t
      BY <2>2, PathStays DEF Others
    <2> QED
      BY <2>1, <2>2
  <1> QED
    BY <1>1 DEF Sole

LEMMA OthersHold ==
    ASSUME IInv, Clean, NEW t \in Threads, Others(t), Settled, GoesOn(t), Local(t),
           thr[t].pc # "idle", NEW u \in Threads, u # t
    PROVE  Ordered(u)' /\ Holds(u)'
  <1>1. thr'[u] = thr[u] /\ thr[u].pc \notin RenamePCs
    BY NoRename DEF IInv, Others
  <1>2. /\ Ordered(u) /\ Holds(u) /\ Knows(u) /\ thr[u].pc \in PCs
    BY DEF Clean, IInv, Locals, TypeOK
  <1>3. CASE thr[u].pc = "idle"
    BY <1>1, <1>3 DEF Ordered, Holds, UnlinkPCs, ClosePCs
  <1>4. CASE thr[u].pc \in OpenPCs
    <2>1. ASSUME thr[u].pc = "count"
          PROVE  inode'[thr[u].ino].memory = "live"
      <3>1. /\ thr[u].ino \in Ids /\ inode[thr[u].ino].memory = "live"
            /\ inode[thr[u].ino].path = Path(u)
        BY <1>2, <1>4, <2>1, PathIs DEF Holds, Knows, OpenPCs, ClosePCs
      <3>2. CASE Path(u) = Path(t)
        <4>1. ~ Sole(t)
          BY <2>1, <3>2 DEF Sole
        <4> QED
          BY <3>1, <4>1 DEF Local
      <3>3. CASE Path(u) # Path(t)
        BY <3>1, <3>3 DEF Local
      <3> QED
        BY <3>2, <3>3
    <2> QED
      BY <1>1, <1>4, <2>1 DEF Ordered, Holds, OpenPCs, UnlinkPCs, ClosePCs
  <1>5. CASE thr[u].pc \in UnlinkPCs
    <2>1. Sole(u)
      BY <1>2, <1>5 DEF Ordered
    <2>2. Ordered(u)'
      BY <1>1, <1>5, <2>1, SoleStays DEF Ordered, UnlinkPCs, ClosePCs
    <2>3. Path(u) = thr[u].path /\ thr[u].path \in Paths /\ thr[u].path # Path(t)
      <3>1. Path(u) # Path(t)
        BY <2>1 DEF Sole
      <3> QED
        BY <1>5, <3>1, PathIs DEF UnlinkPCs, ClosePCs
    <2>4. hashmap'[thr[u].path] = hashmap[thr[u].path]
      BY <2>3 DEF Local
    <2>5. ASSUME NEW i \in Ids, inode[i].memory # "none", inode[i].path = thr[u].path
          PROVE  inode'[i] = inode[i]
      BY <2>3, <2>5 DEF Local
    <2>6. ASSUME NEW i \in Ids, inode'[i].memory = "live", inode'[i].path = thr[u].path
          PROVE  inode[i].memory # "none" /\ inode[i].path = thr[u].path
      BY <2>3, <2>6 DEF Local, Settled
    <2>7. ASSUME thr[u].pc = "drop"
          PROVE  thr[u].ino \in Ids /\ inode'[thr[u].ino] = inode[thr[u].ino]
      <3>1. thr[u].ino \in Ids /\ thr[u].ino = hashmap[thr[u].path]
        BY <1>2, <2>7 DEF Holds, Knows
      <3>2. thr[u].ino # None
        BY <3>1, BoundAssumption DEF Ids
      <3>3. \A v \in Threads : thr[v].pc # "hashrename"
        <4>1. \A v \in Threads : v # u => thr[v].pc \notin RenamePCs
          BY <2>7, NoRename DEF IInv
        <4> QED
          BY <1>1, <4>1 DEF RenamePCs
      <3>4. inode[thr[u].ino].memory = "live" /\ inode[thr[u].ino].path = thr[u].path
        BY <2>3, <3>1, <3>2, <3>3 DEF Clean, Mapped
      <3> QED
        BY <2>5, <3>1, <3>4
    <2>8. ASSUME thr[u].pc = "unlinked"
          PROVE  inode'[thr[u].found].memory = "live"
      BY <1>2, <2>5, <2>8 DEF Holds, Knows
    <2>9. Holds(u)'
      BY <1>1, <1>2, <1>5, <2>4, <2>5, <2>6, <2>7, <2>8 DEF Holds, UnlinkPCs
    <2> QED
      BY <2>2, <2>9
  <1>6. CASE thr[u].pc \in ClosePCs
    <2> PICK i \in Ids : i = thr[u].ino
      BY <1>2, <1>6 DEF Knows
    <2>1. inode[i].memory = "live" /\ inode[i].path = Path(u) /\ Path(u) \in Paths
      <3>1. Ref(u) \in Refs /\ Ref(u).ino = i
        BY <1>6, RefsIs, RefIs
      <3>2. inode[i].memory = "live"
        BY <3>1, RefFound
      <3> QED
        BY <1>6, <3>2, PathIs DEF ClosePCs
    <2>2. ASSUME Path(u) = Path(t)
          PROVE  inode'[i].reclaim = inode[i].reclaim
      <3>1. ~ Sole(t)
        BY <1>6, <2>2 DEF Sole, ClosePCs
      <3> QED
        BY <2>1, <3>1 DEF Local
    <2>3. inode'[i].reclaim = inode[i].reclaim
      BY <2>1, <2>2 DEF Local
    <2>4. Ordered(u)'
      <3>1. thr[u].pc # "idle" /\ thr[u].pc \notin UnlinkPCs
        BY <1>6 DEF ClosePCs, UnlinkPCs
      <3> QED
        BY <1>1, <1>2, <1>6, <2>3, <3>1, SoleStays DEF Ordered
    <2>5. ASSUME inode[i].reclaim
          PROVE  /\ inode'[i] = inode[i]
                 /\ hashmap'[inode[i].path] = hashmap[inode[i].path]
      <3>1. Sole(u)
        BY <1>2, <1>6, <2>5 DEF Ordered
      <3>2. Path(u) # Path(t)
        BY <3>1 DEF Sole
      <3> QED
        BY <2>1, <3>2 DEF Local
    <2>6. Holds(u)'
      BY <1>1, <1>2, <1>6, <2>3, <2>5 DEF Holds, ClosePCs
    <2> QED
      BY <2>4, <2>6
  <1> QED
    BY <1>1, <1>2, <1>3, <1>4, <1>5, <1>6 DEF PCs

(* A step of a call that is no rename. *)
LEMMA LocalStep ==
    ASSUME IInv, Clean, NEW t \in Threads, Others(t), Settled, GoesOn(t), Local(t),
           thr[t].pc # "idle", thr[t].pc \notin RenamePCs, Holds(t)',
           NEW q \in Paths, q = Path(t), Mapped(q)'
    PROVE  Clean'
  <1>1. \A u \in Threads : u # t => Ordered(u)' /\ Holds(u)'
    BY OthersHold
  <1>2. Ordered(t)'
    <2>1. ASSUME Sole(t), thr'[t].pc # "idle"
          PROVE  Sole(t)'
      BY <2>1, SoleStays
    <2>2. Ordered(t)
      BY DEF Clean
    <2>3. thr'[t].pc \in UnlinkPCs \cup ClosePCs => thr'[t].pc # "idle"
      BY DEF UnlinkPCs, ClosePCs
    <2> QED
      BY <2>1, <2>2, <2>3 DEF Ordered, GoesOn
  <1>3. ASSUME NEW p \in Paths, p # Path(t)
        PROVE  Mapped(p)'
    <2>1. hashmap'[p] = hashmap[p]
      BY <1>3 DEF Local
    <2>2. CASE hashmap[p] = None
      BY <2>1, <2>2 DEF Mapped
    <2>3. CASE hashmap[p] # None
      <3> PICK i \in Ids : i = hashmap[p]
        BY <2>3 DEF IInv, TypeOK
      <3>1. \A v \in Threads : thr[v].pc # "hashrename"
        <4>1. \A v \in Threads : v # t => thr[v].pc \notin RenamePCs
          BY NoRename DEF IInv
        <4> QED
          BY <4>1 DEF RenamePCs
      <3>2. inode[i].memory = "live" /\ inode[i].path = p
        BY <2>3, <3>1 DEF Clean, Mapped
      <3>3. inode'[i] = inode[i]
        BY <1>3, <3>2 DEF Local
      <3> QED
        BY <2>1, <3>2, <3>3 DEF Mapped
    <2> QED
      BY <2>2, <2>3
  <1> QED
    BY <1>1, <1>2, <1>3 DEF Clean

(* While a call that is no rename runs, the map has inodes by their paths. *)
LEMMA MappedIs ==
    ASSUME IInv, Clean, NEW t \in Threads, thr[t].pc # "idle", thr[t].pc \notin RenamePCs,
           NEW p \in Paths, hashmap[p] # None
    PROVE  /\ hashmap[p] \in Ids /\ inode[hashmap[p]].memory = "live"
           /\ inode[hashmap[p]].path = p
  <1>1. hashmap[p] \in Ids
    BY DEF IInv, TypeOK
  <1>2. \A v \in Threads : v # t => thr[v].pc \notin RenamePCs
    BY NoRename DEF IInv
  <1>3. \A v \in Threads : thr[v].pc # "hashrename"
    BY <1>2 DEF RenamePCs
  <1> QED
    BY <1>1, <1>3 DEF Clean, Mapped

(* A step that leaves inodes and map alone. *)
LEMMA CallStep ==
    ASSUME IInv, Clean, NEW t \in Threads, Others(t), GoesOn(t), thr[t].pc # "idle",
           thr[t].pc \notin RenamePCs, UNCHANGED <<inode, hashmap>>, Holds(t)'
    PROVE  Clean'
  <1> PICK q \in Paths : q = Path(t)
    BY PathIs
  <1>1. Settled /\ Local(t)
    BY DEF Settled, Local
  <1>2. Mapped(q)'
    <2>1. hashmap' = hashmap /\ inode' = inode
      OBVIOUS
    <2>2. CASE hashmap[q] = None
      BY <2>1, <2>2 DEF Mapped
    <2>3. CASE hashmap[q] # None
      BY <2>1, <2>3, MappedIs DEF Mapped
    <2> QED
      BY <2>2, <2>3
  <1> QED
    BY <1>1, <1>2, LocalStep

LEMMA SearchClean ==
    ASSUME IInv, Clean, NEW t \in Threads, Search(t)
    PROVE  Clean'
  <1>1. TypeOK /\ Tables /\ thr[t].pc = "search" /\ thr[t].path \in Paths
    BY DEF IInv, Search, At, Locals, Knows, OpenPCs
  <1> PICK i \in Ids \cup {None} : i = i_hashtable_search(thr[t].path)
    BY <1>1, SearchIs DEF Tables
  <1>2. PICK p \in PCs : p = IF i = None THEN "insert" ELSE "count"
    BY PCsAre DEF OpenPCs
  <1>3. thr' = [thr EXCEPT ![t] = [thr[t] EXCEPT !.ino = i, !.pc = p]]
    BY <1>1, <1>2 DEF Search, TypeOK
  <1>4. Others(t) /\ thr'[t].pc = p /\ thr'[t].ino = i /\ thr'[t].path = thr[t].path
    BY <1>1, <1>3, InoPcIs, ZenonT(60)
  <1>5. i # None => inode[i].memory = "live"
    <2>1. KeysOnce(table)
      BY <1>1 DEF Tables
    <2>2. i # None => Entry(table, thr[t].path, i)
      BY <1>1, <2>1, SearchIs
    <2> QED
      BY <1>1, <2>2 DEF Tables
  <1>6. UNCHANGED <<inode, hashmap>>
    BY DEF Search
  <1>7. thr'[t].pc \in {"insert", "count"} /\ (thr'[t].pc = "count" => i # None)
    BY <1>2, <1>4
  <1>8. Holds(t)'
    BY <1>4, <1>5, <1>6, <1>7 DEF Holds
  <1>9. GoesOn(t)
    BY <1>1, <1>4, <1>7, PathAssumption DEF GoesOn, Path, UnlinkPCs, ClosePCs
  <1> QED
    BY <1>1, <1>4, <1>6, <1>8, <1>9, CallStep DEF RenamePCs

LEMMA CheckLastClean ==
    ASSUME IInv, Clean, NEW t \in Threads, CheckLast(t)
    PROVE  Clean'
  <1>1. TypeOK /\ thr[t].pc = "check" /\ thr[t].path = None
    BY DEF IInv, CheckLast, At, Clean, Holds
  <1>2. PICK p \in PCs :
           /\ p = IF inode[thr[t].ino].refcount = 1 /\ inode[thr[t].ino].reclaim
                  THEN "closedrop" ELSE "closecmd"
           /\ Goto(t, p)
    BY PCsAre DEF CheckLast, ClosePCs
  <1>3. /\ Others(t) /\ thr'[t].pc = p /\ thr'[t].path = thr[t].path
        /\ thr'[t].ino = thr[t].ino
    BY <1>1, <1>2, GotoIs
  <1>4. UNCHANGED <<inode, hashmap>>
    BY DEF CheckLast
  <1>5. /\ thr'[t].pc \in {"closedrop", "closecmd"}
        /\ thr'[t].pc = "closecmd" =>
              ~ (inode[thr[t].ino].refcount = 1 /\ inode[thr[t].ino].reclaim)
    BY <1>2, <1>3
  <1>6. Holds(t)'
    BY <1>1, <1>3, <1>4, <1>5 DEF Holds
  <1>7. GoesOn(t)
    BY <1>1, <1>3, <1>4, <1>5 DEF GoesOn, Path, UnlinkPCs, ClosePCs
  <1> QED
    BY <1>1, <1>3, <1>4, <1>6, <1>7, CallStep DEF RenamePCs

LEMMA CloseCmdClean ==
    ASSUME IInv, Clean, NEW t \in Threads, CloseCmd(t)
    PROVE  Clean'
  <1>1. TypeOK /\ thr[t].pc = "closecmd" /\ thr[t].path = None /\ thr[t].ino \in Ids
    BY DEF IInv, CloseCmd, At, Clean, Holds, Locals, Knows, ClosePCs
  <1> PICK p \in Paths : p = inode[thr[t].ino].path
    <2>1. Ref(t) \in Refs /\ Ref(t).ino = thr[t].ino
      BY <1>1, RefsIs, RefIs DEF ClosePCs
    <2> QED
      BY <2>1, RefFound
  <1>2. thr \in [Threads -> ThreadRec] /\ thr[t] \in ThreadRec
    BY <1>1 DEF TypeOK, ThreadRec
  <1>3. thr' = [thr EXCEPT ![t] = [thr[t] EXCEPT !.path = p, !.pc = "closefind"]]
    BY <1>2 DEF CloseCmd
  <1>4. [thr[t] EXCEPT !.path = p, !.pc = "closefind"] \in ThreadRec
    BY <1>2 DEF ThreadRec, PCs, ClosePCs
  <1>5. Others(t) /\ thr'[t] = [thr[t] EXCEPT !.path = p, !.pc = "closefind"]
    BY <1>1, <1>3, <1>4, BecomesIs
  <1>6. thr'[t].pc = "closefind" /\ thr'[t].ino = thr[t].ino /\ thr'[t].path = p
    BY <1>2, <1>5 DEF ThreadRec
  <1>7. UNCHANGED <<inode, hashmap>>
    BY DEF CloseCmd
  <1>8. Holds(t)'
    <2>1. Holds(t)
      BY DEF Clean
    <2> QED
      BY <1>1, <1>6, <1>7, <2>1 DEF Holds
  <1>9. GoesOn(t)
    BY <1>1, <1>6, <1>7, PathAssumption DEF GoesOn, Path, UnlinkPCs, ClosePCs
  <1> QED
    BY <1>1, <1>5, <1>7, <1>8, <1>9, CallStep DEF RenamePCs

LEMMA CloseFindClean ==
    ASSUME IInv, Clean, NEW t \in Threads, CloseFind(t)
    PROVE  Clean'
  <1>1. TypeOK /\ thr[t].pc = "closefind" /\ thr[t].path = inode[thr[t].ino].path
    BY DEF IInv, CloseFind, At, Locals, Knows
  <1>2. Ref(t) \in Refs /\ Ref(t).ino = thr[t].ino
    BY <1>1, RefsIs, RefIs DEF ClosePCs
  <1> PICK i \in Ids : i = thr[t].ino /\ i_hashtable_search(thr[t].path) = i
    BY <1>1, <1>2, RefFound
  <1>3. thr[t].path \in Paths /\ i # None
    BY <1>1, <1>2, RefFound, BoundAssumption DEF Ids
  <1>4. "closed" \in PCs /\ thr' = [thr EXCEPT ![t] = [@ EXCEPT !.found = i, !.pc = "closed"]]
    BY <1>3, PCsAre DEF CloseFind, ClosePCs
  <1>5. /\ Others(t) /\ thr'[t].pc = "closed" /\ thr'[t].path = thr[t].path
        /\ thr'[t].ino = thr[t].ino
    BY <1>1, <1>4, FoundPcIs
  <1>6. UNCHANGED <<inode, hashmap>>
    BY DEF CloseFind
  <1>7. Holds(t)'
    <2>1. Holds(t)
      BY DEF Clean
    <2> QED
      BY <1>1, <1>5, <1>6, <2>1 DEF Holds
  <1>8. GoesOn(t)
    BY <1>1, <1>3, <1>5, <1>6, PathAssumption DEF GoesOn, Path, UnlinkPCs, ClosePCs
  <1> QED
    BY <1>1, <1>5, <1>6, <1>7, <1>8, CallStep DEF RenamePCs

LEMMA FindUnusedClean ==
    ASSUME IInv, Clean, NEW t \in Threads, FindUnused(t)
    PROVE  Clean'
  <1>1. TypeOK /\ Tables /\ thr[t].pc = "find" /\ thr[t].path \in Paths
    BY DEF IInv, FindUnused, At, Locals, Knows, UnlinkPCs
  <1> PICK i \in Ids \cup {None} : i = hashmap[thr[t].path]
    BY <1>1 DEF TypeOK
  <1>2. PICK p \in {"drop", "unlink"} :
          p = IF i # None /\ inode[i].refcount = 0 THEN "drop" ELSE "unlink"
    OBVIOUS
  <1>3. p \in PCs /\ thr \in [Threads -> ThreadRec]
    BY <1>1 DEF TypeOK, ThreadRec, PCs, UnlinkPCs
  <1>4. thr' = [thr EXCEPT ![t] = [thr[t] EXCEPT !.ino = i, !.pc = p]]
    BY <1>2, <1>3 DEF FindUnused
  <1>5. Others(t) /\ thr'[t].pc = p /\ thr'[t].ino = i /\ thr'[t].path = thr[t].path
    BY <1>1, <1>3, <1>4, InoPcIs, ZenonT(60)
  <1>6. UNCHANGED <<inode, hashmap>>
    BY DEF FindUnused
  <1>7. /\ thr'[t].pc \in {"drop", "unlink"}
        /\ thr'[t].pc = "drop" => i # None /\ inode[i].refcount = 0
        /\ thr'[t].pc = "unlink" => i = None \/ inode[i].refcount # 0
    BY <1>2, <1>5
  <1>8. ASSUME NEW j \in Ids, thr'[t].pc = "unlink", inode[j].memory = "live",
               inode[j].path = thr[t].path, inode[j].refcount = 0
        PROVE  i = None
    <2> SUFFICES ASSUME i # None
                 PROVE  FALSE
      OBVIOUS
    <2>1. i \in Ids /\ inode[i].memory = "live" /\ inode[i].path = thr[t].path
      BY <1>1, MappedIs DEF RenamePCs
    <2>2. i = j
      BY <1>1, <1>8, <2>1, PathsOnce
    <2> QED
      BY <1>7, <1>8, <2>2
  <1>9. Holds(t)'
    BY <1>5, <1>6, <1>7, <1>8 DEF Holds
  <1>10. GoesOn(t)
    BY <1>1, <1>5, <1>7, PathAssumption DEF GoesOn, Path, UnlinkPCs, ClosePCs
  <1> QED
    BY <1>1, <1>5, <1>6, <1>9, <1>10, CallStep DEF RenamePCs

LEMMA UnlinkFilesClean ==
    ASSUME IInv, Clean, NEW t \in Threads, UnlinkFiles(t)
    PROVE  Clean'
  <1>1. /\ TypeOK /\ "unlinkfind" \in PCs /\ thr[t].pc = "unlink" /\ thr[t].path \in Paths
        /\ Goto(t, "unlinkfind") /\ UNCHANGED <<inode, hashmap>>
    BY PCsAre DEF IInv, UnlinkPCs, UnlinkFiles, At, Locals, Knows
  <1>2. Others(t) /\ thr'[t].pc = "unlinkfind" /\ thr'[t].path = thr[t].path
    BY <1>1, GotoIs
  <1>3. Holds(t)'
    <2>1. Holds(t)
      BY DEF Clean
    <2> QED
      BY <1>1, <1>2, <2>1 DEF Holds
  <1>4. GoesOn(t)
    BY <1>1, <1>2, PathAssumption DEF GoesOn, Path, UnlinkPCs, ClosePCs
  <1> QED
    BY <1>1, <1>2, <1>3, <1>4, CallStep DEF RenamePCs

(* A call that returns has nothing to hold. *)
LEMMA ReturnHolds ==
    ASSUME NEW t \in Threads, thr'[t].pc = "idle"
    PROVE  Holds(t)' /\ GoesOn(t)
  BY DEF Holds, GoesOn, UnlinkPCs, ClosePCs

LEMMA UnlinkFindClean ==
    ASSUME IInv, Clean, NEW t \in Threads, UnlinkFind(t)
    PROVE  Clean'
  <1>1. /\ TypeOK /\ Tables /\ thr[t].pc = "unlinkfind" /\ thr[t].path \in Paths
        /\ UNCHANGED <<inode, hashmap>>
    BY DEF IInv, UnlinkFind, At, Locals, Knows, UnlinkPCs
  <1> PICK i \in Ids \cup {None} : i = i_hashtable_search(thr[t].path)
    BY <1>1, SearchIs DEF Tables
  <1>2. CASE i = None
    <2>1. thr' = [thr EXCEPT ![t] = Idle]
      BY <1>2 DEF UnlinkFind
    <2>2. Others(t) /\ thr'[t].pc = "idle"
      BY <1>1, <2>1, ReturnIs DEF Return
    <2> QED
      BY <1>1, <2>2, ReturnHolds, CallStep DEF RenamePCs
  <1>3. CASE i # None
    <2>1. "unlinked" \in PCs /\ i \in Ids
          /\ thr' = [thr EXCEPT ![t] = [@ EXCEPT !.found = i, !.pc = "unlinked"]]
      BY <1>3, PCsAre DEF UnlinkFind, UnlinkPCs
    <2>2. /\ Others(t) /\ thr'[t].pc = "unlinked" /\ thr'[t].found = i
          /\ thr'[t].path = thr[t].path
      BY <1>1, <2>1, FoundPcIs
    <2>3. Entry(table, thr[t].path, i)
      BY <1>1, <2>1, SearchIs DEF Tables
    <2>4. inode[i].memory = "live"
      BY <1>1, <2>1, <2>3 DEF Tables
    <2>5. Holds(t)'
      <3>1. Holds(t)
        BY DEF Clean
      <3> QED
        BY <1>1, <2>2, <2>4, <3>1 DEF Holds
    <2>6. GoesOn(t)
      BY <1>1, <2>2, PathAssumption DEF GoesOn, Path, UnlinkPCs, ClosePCs
    <2> QED
      BY <1>1, <2>2, <2>5, <2>6, CallStep DEF RenamePCs
  <1> QED
    BY <1>2, <1>3

LEMMA InsertClean ==
    ASSUME IInv, Clean, NEW t \in Threads, Insert(t)
    PROVE  Clean'
  <1>1. /\ TypeOK /\ Tables /\ thr[t].pc = "insert" /\ thr[t].path \in Paths
        /\ hashmap' = hashmap /\ inodes' = inodes + 1
    BY DEF IInv, Insert, At, Locals, Knows, OpenPCs
  <1> PICK p \in Paths : p = thr[t].path
    BY <1>1
  <1>2. Path(t) = p
    BY <1>1, PathIs DEF ClosePCs
  <1> PICK i \in Ids \cup {None} : i = i_hashtable_search(p)
    BY <1>1, SearchIs DEF Tables
  <1>3. ASSUME NEW j \in Ids, thr' = [thr EXCEPT ![t].ino = j, ![t].pc = "count"],
               inode'[j].memory = "live"
        PROVE  Others(t) /\ Holds(t)' /\ GoesOn(t)
    <2>1. thr' = [thr EXCEPT ![t] = [thr[t] EXCEPT !.ino = j, !.pc = "count"]]
      BY <1>1, <1>3 DEF TypeOK
    <2>2. Others(t) /\ thr'[t].pc = "count" /\ thr'[t].ino = j /\ thr'[t].path = p
      BY <1>1, <2>1, InoPcIs, PCsAre, ZenonT(60) DEF OpenPCs
    <2>3. Holds(t)'
      BY <1>3, <2>2 DEF Holds
    <2>4. GoesOn(t)
      BY <1>2, <2>2, PathAssumption DEF GoesOn, Path, UnlinkPCs, ClosePCs
    <2> QED
      BY <2>2, <2>3, <2>4
  <1>4. CASE /\ i # None /\ UNCHANGED <<table, inode>>
             /\ thr' = [thr EXCEPT ![t].ino = i, ![t].pc = "count"]
    <2>1. i \in Ids /\ Entry(table, p, i)
      BY <1>1, <1>4, SearchIs DEF Tables
    <2>2. inode[i].memory = "live"
      BY <1>1, <2>1 DEF Tables
    <2>3. Others(t) /\ Holds(t)' /\ GoesOn(t)
      BY <1>3, <1>4, <2>1, <2>2
    <2> QED
      BY <1>1, <1>4, <2>3, CallStep DEF RenamePCs
  <1>5. CASE /\ i = None
             /\ thr' = [thr EXCEPT ![t].ino = inodes + 1, ![t].pc = "count"]
             /\ inode' = [inode EXCEPT ![inodes + 1] = NewInode(p)]
    <2>1. inodes + 1 \in Ids
      <3>1. inodes' \in 0 .. MaxCalls
        BY InsertStep DEF IInv, TypeOK
      <3> QED
        BY <1>1, <3>1 DEF TypeOK, Ids
    <2> PICK n \in Ids : n = inodes + 1
      BY <2>1
    <2>2. /\ inode'[n].memory = "live" /\ inode'[n].path = p
          /\ \A j \in Ids : j # n => inode'[j] = inode[j]
      BY <1>1, <1>5 DEF TypeOK, NewInode
    <2>3. inode[n].memory = "none"
      BY <1>1 DEF Tables, TypeOK
    <2>4. Others(t) /\ Holds(t)' /\ GoesOn(t)
      BY <1>3, <1>5, <2>2
    <2>5. Settled /\ Local(t)
      BY <1>1, <1>2, <2>2, <2>3 DEF Settled, Local
    <2>6. Mapped(p)'
      <3>1. CASE hashmap[p] = None
        BY <1>1, <3>1 DEF Mapped
      <3>2. CASE hashmap[p] # None
        <4>1. /\ hashmap[p] \in Ids /\ inode[hashmap[p]].memory = "live"
              /\ inode[hashmap[p]].path = p
          BY <1>1, <3>2, MappedIs DEF RenamePCs
        <4>2. inode'[hashmap[p]] = inode[hashmap[p]]
          BY <2>2, <2>3, <4>1
        <4> QED
          BY <1>1, <4>1, <4>2 DEF Mapped
      <3> QED
        BY <3>1, <3>2
    <2> QED
      BY <1>1, <1>2, <2>4, <2>5, <2>6, LocalStep DEF RenamePCs
  <1> QED
    BY <1>4, <1>5 DEF Insert

LEMMA CountClean ==
    ASSUME IInv, Clean, NEW t \in Threads, Count(t)
    PROVE  Clean'
  <1>1. /\ TypeOK /\ thr[t].pc = "count" /\ thr[t].path \in Paths /\ thr[t].ino \in Ids
        /\ inode[thr[t].ino].path = thr[t].path /\ inode[thr[t].ino].memory = "live"
        /\ Return(t)
    BY DEF IInv, Count, At, Locals, Knows, OpenPCs, Clean, Holds
  <1> PICK i \in Ids, p \in Paths : i = thr[t].ino /\ p = thr[t].path
    BY <1>1
  <1>2. Path(t) = p /\ inode[i].path = p /\ inode[i].memory = "live"
    BY <1>1, PathIs DEF ClosePCs
  <1>3. Others(t) /\ thr'[t].pc = "idle" /\ Holds(t)' /\ GoesOn(t)
    BY <1>1, ReturnIs, ReturnHolds
  <1>4. /\ \A j \in Ids : j # i => inode'[j] = inode[j]
        /\ inode'[i].path = p /\ inode'[i].memory = "live" /\ inode'[i].reclaim = inode[i].reclaim
    <2>1. inode' = [inode EXCEPT ![i].refcount = @ + 1] /\ inode \in [Ids -> InodeRec]
      BY <1>1 DEF Count, TypeOK, InodeRec
    <2> QED
      BY <1>2, <2>1 DEF InodeRec
  <1>5. hashmap' = IF inode[i].refcount = 0 THEN [hashmap EXCEPT ![p] = i] ELSE hashmap
    BY <1>2 DEF Count
  <1>6. (hashmap'[p] = i \/ hashmap'[p] = hashmap[p])
        /\ \A q \in Paths : q # p => hashmap'[q] = hashmap[q]
    BY <1>1, <1>5 DEF TypeOK
  <1>7. Settled /\ Local(t)
    BY <1>2, <1>4, <1>6 DEF Settled, Local
  <1>8. Mapped(p)'
    <2>1. CASE hashmap'[p] = i
      BY <1>4, <2>1 DEF Mapped
    <2>2. CASE hashmap'[p] = hashmap[p] /\ hashmap[p] = None
      BY <2>2 DEF Mapped
    <2>3. CASE hashmap'[p] = hashmap[p] /\ hashmap[p] # None
      <3>1. /\ hashmap[p] \in Ids /\ inode[hashmap[p]].memory = "live"
            /\ inode[hashmap[p]].path = p
        BY <1>1, <2>3, MappedIs DEF RenamePCs
      <3>2. inode'[hashmap[p]].memory = "live" /\ inode'[hashmap[p]].path = p
        BY <1>4, <3>1
      <3> QED
        BY <2>3, <3>2 DEF Mapped
    <2> QED
      BY <1>6, <2>1, <2>2, <2>3
  <1> QED
    BY <1>1, <1>2, <1>3, <1>7, <1>8, LocalStep DEF RenamePCs

(* An inode's data is dropped by a call about its path. *)
LEMMA DropClean ==
    ASSUME IInv, Clean, NEW t \in Threads, Others(t), GoesOn(t), thr[t].pc # "idle",
           thr[t].pc \notin RenamePCs, UNCHANGED inode, NEW i \in Ids, Drop(i),
           NEW p \in Paths, p = Path(t), inode[i].path = p,
           Holds(t)'
    PROVE  Clean'
  <1>1. hashmap'[p] = None /\ \A q \in Paths : q # p => hashmap'[q] = hashmap[q]
    BY DEF Drop, IInv, TypeOK
  <1>2. Settled /\ Local(t)
    BY <1>1 DEF Settled, Local
  <1>3. Mapped(p)'
    BY <1>1 DEF Mapped
  <1> QED
    BY <1>2, <1>3, LocalStep

LEMMA CloseDropClean ==
    ASSUME IInv, Clean, NEW t \in Threads, CloseDrop(t)
    PROVE  Clean'
  <1>1. /\ TypeOK /\ "closecmd" \in PCs /\ thr[t].pc = "closedrop" /\ thr[t].path = None
        /\ thr[t].ino \in Ids /\ Goto(t, "closecmd") /\ inode' = inode
    BY PCsAre DEF IInv, ClosePCs, CloseDrop, At, Locals, Knows, Clean, Holds
  <1> PICK i \in Ids : i = thr[t].ino
    BY <1>1
  <1>2. /\ Others(t) /\ thr'[t].pc = "closecmd" /\ thr'[t].path = None /\ thr'[t].ino = i
    BY <1>1, GotoIs
  <1> PICK p \in Paths : p = Path(t) /\ p = inode[i].path
    BY <1>1, PathIs DEF ClosePCs
  <1>3. Drop(i) /\ hashmap'[p] = None
    BY <1>1 DEF CloseDrop, Drop, TypeOK
  <1>4. Holds(t)'
    BY <1>1, <1>2, <1>3 DEF Holds
  <1>5. GoesOn(t)
    BY <1>1, <1>2 DEF GoesOn, Path, UnlinkPCs, ClosePCs
  <1> QED
    BY <1>1, <1>2, <1>3, <1>4, <1>5, DropClean DEF RenamePCs

LEMMA DropUnusedClean ==
    ASSUME IInv, Clean, NEW t \in Threads, DropUnused(t)
    PROVE  Clean'
  <1>1. /\ TypeOK /\ "unlink" \in PCs /\ thr[t].pc = "drop" /\ thr[t].path \in Paths
        /\ thr[t].ino \in Ids /\ Goto(t, "unlink") /\ inode' = inode
        /\ thr[t].ino = hashmap[thr[t].path]
    BY PCsAre DEF IInv, UnlinkPCs, DropUnused, At, Locals, Knows, Clean, Holds
  <1> PICK i \in Ids, p \in Paths : i = thr[t].ino /\ p = thr[t].path
    BY <1>1
  <1>2. Others(t) /\ thr'[t].pc = "unlink" /\ thr'[t].path = p
    BY <1>1, GotoIs
  <1>3. Path(t) = p
    BY <1>1, PathIs DEF ClosePCs
  <1>4. inode[i].path = p
    <2>1. hashmap[p] # None
      BY <1>1, BoundAssumption DEF Ids
    <2> QED
      BY <1>1, <2>1, MappedIs DEF RenamePCs
  <1>5. Drop(i) /\ hashmap'[p] = None
    BY <1>1, <1>4 DEF DropUnused, Drop, TypeOK
  <1>6. Holds(t)'
    BY <1>2, <1>5 DEF Holds
  <1>7. GoesOn(t)
    BY <1>1, <1>2, <1>3, PathAssumption DEF GoesOn, Path, UnlinkPCs, ClosePCs
  <1> QED
    BY <1>1, <1>2, <1>3, <1>4, <1>5, <1>6, <1>7, DropClean DEF RenamePCs

(* The inode at a path is changed, or freed once it is not in the map. *)
LEMMA InodeClean ==
    ASSUME IInv, Clean, NEW t \in Threads, Others(t), thr'[t].pc = "idle", thr[t].pc # "idle",
           thr[t].pc \notin RenamePCs, hashmap' = hashmap,
           NEW i \in Ids, NEW p \in Paths, p = Path(t),
           inode[i].memory = "live", inode[i].path = p, inode'[i].path = p,
           \A j \in Ids : j # i => inode'[j] = inode[j],
           \/ inode'[i].memory = "live"
           \/ inode'[i].memory = "freed" /\ Sole(t) /\ hashmap[p] = None,
           inode'[i].reclaim = inode[i].reclaim \/ Sole(t)
    PROVE  Clean'
  <1>1. Settled /\ Local(t)
    BY DEF Settled, Local
  <1>2. Mapped(p)'
    <2>1. CASE hashmap[p] = None
      BY <2>1 DEF Mapped
    <2>2. CASE hashmap[p] # None
      <3>1. /\ hashmap[p] \in Ids /\ inode[hashmap[p]].memory = "live"
            /\ inode[hashmap[p]].path = p
        BY <2>2, MappedIs
      <3>2. inode'[hashmap[p]].memory = "live" /\ inode'[hashmap[p]].path = p
        BY <2>2, <3>1
      <3> QED
        BY <3>2 DEF Mapped
    <2> QED
      BY <2>1, <2>2
  <1>3. Holds(t)' /\ GoesOn(t)
    BY ReturnHolds
  <1> QED
    BY <1>1, <1>2, <1>3, LocalStep

LEMMA polyos_closeClean ==
    ASSUME IInv, Clean, NEW t \in Threads, polyos_close(t)
    PROVE  Clean'
  <1>1. /\ TypeOK /\ thr[t].pc = "closed" /\ Return(t) /\ hashmap' = hashmap
        /\ thr[t].ino \in Ids /\ thr[t].found = thr[t].ino
    BY DEF IInv, polyos_close, At, Locals, Knows, ClosePCs
  <1> PICK i \in Ids : i = thr[t].found /\ i = thr[t].ino
    BY <1>1
  <1> PICK p \in Paths : p = Path(t) /\ p = inode[i].path
    BY <1>1, PathIs DEF ClosePCs
  <1>2. inode[i].memory = "live"
    <2>1. Ref(t) \in Refs /\ Ref(t).ino = i
      BY <1>1, RefsIs, RefIs DEF ClosePCs
    <2> QED
      BY <2>1, RefFound
  <1>3. Others(t) /\ thr'[t].pc = "idle"
    BY <1>1, ReturnIs
  <1>4. inode \in [Ids -> InodeRec] /\ inode[i] \in InodeRec
    BY <1>1 DEF TypeOK, InodeRec
  <1>5. CASE /\ inode[i].refcount - 1 = 0 /\ inode[i].reclaim
             /\ inode' = [inode EXCEPT ![i].refcount = inode[i].refcount - 1,
                                       ![i].memory = "freed"]
    <2>1. /\ inode'[i].path = p /\ inode'[i].memory = "freed"
          /\ inode'[i].reclaim = inode[i].reclaim
          /\ \A j \in Ids : j # i => inode'[j] = inode[j]
      BY <1>4, <1>5 DEF InodeRec
    <2>2. Ordered(t) /\ Holds(t) /\ inode[i].refcount = 1
      BY <1>4, <1>5 DEF Clean, InodeRec
    <2>3. Sole(t) /\ hashmap[p] = None
      BY <1>1, <1>5, <2>2 DEF Ordered, Holds, ClosePCs
    <2> QED
      BY <1>1, <1>2, <1>3, <2>1, <2>3, InodeClean DEF RenamePCs
  <1>6. CASE inode' = [inode EXCEPT ![i].refcount = inode[i].refcount - 1]
    <2>1. /\ inode'[i].path = p /\ inode'[i].memory = "live"
          /\ inode'[i].reclaim = inode[i].reclaim
          /\ \A j \in Ids : j # i => inode'[j] = inode[j]
      BY <1>2, <1>4, <1>6 DEF InodeRec
    <2> QED
      BY <1>1, <1>2, <1>3, <2>1, InodeClean DEF RenamePCs
  <1> QED
    BY <1>5, <1>6 DEF polyos_close

LEMMA polyos_unlinkClean ==
    ASSUME IInv, Clean, NEW t \in Threads, polyos_unlink(t)
    PROVE  Clean'
  <1>1. /\ TypeOK /\ thr[t].pc = "unlinked" /\ Return(t) /\ hashmap' = hashmap
        /\ thr[t].path \in Paths /\ thr[t].found \in Ids
        /\ inode[thr[t].found].path = thr[t].path
        /\ inode[thr[t].found].memory = "live"
    BY DEF IInv, polyos_unlink, At, Locals, Knows, UnlinkPCs, Clean, Holds
  <1> PICK i \in Ids, p \in Paths : i = thr[t].found /\ p = thr[t].path
    BY <1>1
  <1>2. Path(t) = p /\ inode[i].path = p /\ inode[i].memory = "live"
    BY <1>1, PathIs DEF ClosePCs
  <1>3. Others(t) /\ thr'[t].pc = "idle"
    BY <1>1, ReturnIs
  <1>4. inode \in [Ids -> InodeRec] /\ inode[i] \in InodeRec
    BY <1>1 DEF TypeOK, InodeRec
  <1>5. Sole(t) /\ Holds(t)
    BY <1>1 DEF Clean, Ordered, UnlinkPCs
  <1>6. CASE inode[i].refcount = 0 /\ inode' = [inode EXCEPT ![i].memory = "freed"]
    <2>1. /\ inode'[i].path = p /\ inode'[i].memory = "freed"
          /\ inode'[i].reclaim = inode[i].reclaim
          /\ \A j \in Ids : j # i => inode'[j] = inode[j]
      BY <1>2, <1>4, <1>6 DEF InodeRec
    <2>2. hashmap[p] = None
      BY <1>1, <1>2, <1>5, <1>6 DEF Holds
    <2> QED
      BY <1>1, <1>2, <1>3, <1>5, <2>1, <2>2, InodeClean DEF RenamePCs
  <1>7. CASE inode' = [inode EXCEPT ![i].reclaim = TRUE]
    <2>1. /\ inode'[i].path = p /\ inode'[i].memory = "live"
          /\ \A j \in Ids : j # i => inode'[j] = inode[j]
      BY <1>2, <1>4, <1>7 DEF InodeRec
    <2> QED
      BY <1>1, <1>2, <1>3, <1>5, <2>1, InodeClean DEF RenamePCs
  <1> QED
    BY <1>6, <1>7 DEF polyos_unlink

LEMMA OnIs ==
    ASSUME NEW p, NEW u \in Threads, thr[u].pc # "idle", Path(u) = p
    PROVE  thr[u].pc \in On(p)
  BY DEF On, Path

(* An inode that was unlinked is the one the table has under its path. *)
LEMMA UnlinkedIs ==
    ASSUME IInv, NEW i \in Ids, NEW p \in Paths, inode[i].memory = "live",
           inode[i].path = p, inode[i].reclaim
    PROVE  Unlinked(p)
  <1>1. KeysOnce(table) /\ Entry(table, p, i)
    BY DEF IInv, Tables
  <1>2. i_hashtable_search(p) = i /\ Find(p) # 0
    <2>1. i # None
      BY BoundAssumption DEF Ids
    <2> QED
      BY <1>1, <2>1, SearchIs DEF IInv
  <1>3. table[Find(p)].ino = i
    BY <1>2 DEF i_hashtable_search
  <1> QED
    BY <1>2, <1>3 DEF Unlinked

(* What a call that begins without a race may assume of the others. *)
LEMMA BeginsAlone ==
    ASSUME IInv, Clean, NEW t \in Threads, thr[t].pc = "idle", NEW w, NEW p \in Paths,
           Begins(w, p), ~ raced'
    PROVE  /\ ~ raced
           /\ \A u \in Threads : thr[u].pc \in UnlinkPCs => Path(u) # p
           /\ \A u \in Threads :
                 thr[u].pc \in ClosePCs /\ inode[thr[u].ino].reclaim => Path(u) # p
           /\ w = "unlink" \/ (w = "close" /\ Unlinked(p)) =>
                 \A u \in Threads : thr[u].pc # "idle" => Path(u) # p
  <1>1. /\ ~ raced /\ ~ (w = "unlink" /\ On(p) # {}) /\ ~ (On(p) \cap UnlinkPCs # {})
        /\ ~ (Unlinked(p) /\ w = "close" /\ On(p) # {})
        /\ ~ (Unlinked(p) /\ On(p) \cap ClosePCs # {})
    BY Zenon DEF Begins
  <1>2. \A u \in Threads : thr[u].pc \in UnlinkPCs => Path(u) # p
    BY <1>1, OnIs DEF UnlinkPCs
  <1>3. ASSUME NEW u \in Threads, thr[u].pc \in ClosePCs, inode[thr[u].ino].reclaim
        PROVE  Path(u) # p
    <2> SUFFICES ASSUME Path(u) = p
                 PROVE  FALSE
      OBVIOUS
    <2>1. Ref(u) \in Refs /\ Ref(u).ino = thr[u].ino
      BY <1>3, RefsIs, RefIs
    <2>2. thr[u].ino \in Ids /\ inode[thr[u].ino].memory = "live"
      BY <2>1, RefFound
    <2>3. thr[u].pc # "idle"
      BY <1>3 DEF ClosePCs
    <2>4. inode[thr[u].ino].path = p
      BY <1>3, <2>3, PathIs
    <2>5. Unlinked(p)
      BY <1>3, <2>2, <2>4, UnlinkedIs
    <2>6. thr[u].pc \in On(p)
      BY <2>3, OnIs
    <2> QED
      BY <1>1, <1>3, <2>5, <2>6
  <1>4. ASSUME w = "unlink" \/ (w = "close" /\ Unlinked(p)),
               NEW u \in Threads, thr[u].pc # "idle"
        PROVE  Path(u) # p
    <2>1. On(p) = {}
      BY <1>1, <1>4
    <2> QED
      BY <1>4, <2>1, OnIs
  <1> QED
    BY <1>1, <1>2, <1>3, <1>4

(* A call begins. *)
LEMMA BeginClean ==
    ASSUME IInv, Clean, NEW t \in Threads, thr[t].pc = "idle", Others(t),
           UNCHANGED <<inode, hashmap>>, NEW w, NEW p \in Paths, Begins(w, p), ~ raced',
           Path(t)' = p, thr'[t].pc \notin RenamePCs, Ordered(t)', Holds(t)',
           \A u \in Threads : thr[u].pc \notin RenamePCs
    PROVE  Clean'
  <1>0. inode' = inode /\ hashmap' = hashmap
    OBVIOUS
  <1>1. \A u \in Threads : u # t => thr'[u] = thr[u] /\ Path(u)' = Path(u)
    BY <1>0 DEF Others, Path
  <1>2. ASSUME NEW u \in Threads, u # t
        PROVE  Ordered(u)' /\ Holds(u)'
    <2>1. Ordered(u) /\ Holds(u)
      BY DEF Clean
    <2>2. Holds(u)'
      BY <1>0, <1>1, <1>2, <2>1 DEF Holds
    <2>3. ASSUME thr[u].pc \in UnlinkPCs \/ (thr[u].pc \in ClosePCs /\ inode[thr[u].ino].reclaim)
          PROVE  Sole(u)'
      <3>1. Path(u) # p /\ Sole(u)
        BY <2>1, <2>3, BeginsAlone DEF Ordered
      <3> QED
        BY <1>1, <1>2, <3>1 DEF Sole
    <2>4. Ordered(u)'
      BY <1>0, <1>1, <1>2, <2>3 DEF Ordered
    <2> QED
      BY <2>2, <2>4
  <1>3. ASSUME NEW q \in Paths
        PROVE  Mapped(q)'
    <2>1. \A u \in Threads : thr[u].pc # "hashrename"
      BY DEF RenamePCs
    <2>2. Mapped(q)
      BY DEF Clean
    <2> QED
      BY <1>0, <2>1, <2>2 DEF Mapped
  <1> QED
    BY <1>2, <1>3 DEF Clean

LEMMA OpenClean ==
    ASSUME IInv, Clean, ~ AnyRename, NEW t \in Threads, Open(t), ~ raced'
    PROVE  Clean'
  <1>1. /\ TypeOK /\ thr[t].pc = "idle" /\ \A u \in Threads : thr[u].pc \notin RenamePCs
        /\ UNCHANGED <<inode, hashmap>>
    BY MayCallIs DEF IInv, Open
  <1>20. PICK p \in Paths :
            /\ Begins("open", p)
            /\ \E f : thr' = [thr EXCEPT ![t] = [Idle EXCEPT !.pc = "search", !.path = p,
                                                            !.fd = calls + 1, !.file = f]]
    BY DEF Open
  <1>2. PICK f :
           /\ Begins("open", p)
           /\ thr' = [thr EXCEPT ![t] = [Idle EXCEPT !.pc = "search", !.path = p,
                                                     !.fd = calls + 1, !.file = f]]
    BY <1>20
  <1>3. Others(t) /\ thr'[t].pc = "search" /\ thr'[t].path = p
    <2>1. thr' \in [Threads -> ThreadRec]
      BY OpenStep DEF IInv, TypeOK, ThreadRec
    <2>2. thr'[t] = [Idle EXCEPT !.pc = "search", !.path = p, !.fd = calls + 1, !.file = f]
      BY <1>1, <1>2 DEF TypeOK
    <2>3. \A u \in Threads : u # t => thr'[u] = thr[u]
      BY <1>1, <1>2 DEF TypeOK
    <2> QED
      BY <2>1, <2>2, <2>3 DEF Others, Idle
  <1>4. Path(t)' = p
    BY <1>3, PathAssumption DEF Path
  <1>5. Ordered(t)' /\ Holds(t)' /\ thr'[t].pc \notin RenamePCs
    BY <1>3 DEF Ordered, Holds, UnlinkPCs, ClosePCs, RenamePCs
  <1> QED
    BY <1>1, <1>2, <1>3, <1>4, <1>5, BeginClean

LEMMA UnlinkClean ==
    ASSUME IInv, Clean, ~ AnyRename, NEW t \in Threads, Unlink(t), ~ raced'
    PROVE  Clean'
  <1>1. /\ TypeOK /\ thr[t].pc = "idle" /\ \A u \in Threads : thr[u].pc \notin RenamePCs
        /\ UNCHANGED <<inode, hashmap>>
    BY MayCallIs DEF IInv, Unlink
  <1>2. PICK p \in Paths : /\ Begins("unlink", p)
                           /\ thr' = [thr EXCEPT ![t] = [Idle EXCEPT !.pc = "find", !.path = p]]
    BY DEF Unlink
  <1>3. [Idle EXCEPT !.pc = "find", !.path = p] \in ThreadRec
    BY DEF Idle, ThreadRec, PCs, UnlinkPCs
  <1>4. Others(t) /\ thr'[t] = [Idle EXCEPT !.pc = "find", !.path = p]
    BY <1>1, <1>2, <1>3, BecomesIs
  <1>5. thr'[t].pc = "find" /\ thr'[t].path = p
    BY <1>4 DEF Idle
  <1>6. Path(t)' = p
    BY <1>5, PathAssumption DEF Path
  <1>7. \A u \in Threads : u # t => thr'[u] = thr[u] /\ Path(u)' = Path(u)
    BY <1>1, <1>4 DEF Others, Path
  <1>8. Sole(t)'
    <2>1. \A u \in Threads : thr[u].pc # "idle" => Path(u) # p
      BY <1>1, <1>2, BeginsAlone
    <2> QED
      BY <1>6, <1>7, <2>1 DEF Sole
  <1>9. Ordered(t)' /\ Holds(t)' /\ thr'[t].pc \notin RenamePCs
    BY <1>5, <1>8 DEF Ordered, Holds, RenamePCs
  <1> QED
    BY <1>1, <1>2, <1>4, <1>6, <1>9, BeginClean

LEMMA CloseClean ==
    ASSUME IInv, Clean, ~ AnyRename, NEW t \in Threads, Close(t), ~ raced'
    PROVE  Clean'
  <1>1. /\ TypeOK /\ thr[t].pc = "idle" /\ \A u \in Threads : thr[u].pc \notin RenamePCs
        /\ UNCHANGED <<inode, hashmap>>
    BY MayCallIs DEF IInv, Close
  <1>2. PICK h \in fds : /\ Begins("close", inode[h.ino].path)
                         /\ thr' = [thr EXCEPT ![t] = [Idle EXCEPT !.pc = "check", !.fd = h.fd,
                                                    !.file = h.file, !.ino = h.ino]]
    BY DEF Close
  <1>3. h \in Refs
    BY RefsIs
  <1> PICK i \in Ids, p \in Paths :
          i = h.ino /\ p = inode[i].path /\ inode[i].memory = "live"
    BY <1>3, RefFound
  <1>4. [Idle EXCEPT !.pc = "check", !.fd = h.fd, !.file = h.file, !.ino = h.ino] \in ThreadRec
    BY <1>1 DEF TypeOK, Idle, ThreadRec, PCs, ClosePCs
  <1>5. /\ Others(t)
        /\ thr'[t] = [Idle EXCEPT !.pc = "check", !.fd = h.fd, !.file = h.file, !.ino = h.ino]
    BY <1>1, <1>2, <1>4, BecomesIs
  <1>6. thr'[t].pc = "check" /\ thr'[t].path = None /\ thr'[t].ino = i
    BY <1>5 DEF Idle
  <1>7. Path(t)' = p
    BY <1>1, <1>6 DEF Path
  <1>8. \A u \in Threads : u # t => thr'[u] = thr[u] /\ Path(u)' = Path(u)
    BY <1>1, <1>5 DEF Others, Path
  <1>9. ASSUME inode[i].reclaim
        PROVE  Sole(t)'
    <2>1. Unlinked(p)
      BY <1>9, UnlinkedIs
    <2>2. \A u \in Threads : thr[u].pc # "idle" => Path(u) # p
      BY <1>1, <1>2, <2>1, BeginsAlone
    <2> QED
      BY <1>7, <1>8, <2>2 DEF Sole
  <1>10. Ordered(t)'
    BY <1>1, <1>6, <1>9 DEF Ordered, UnlinkPCs
  <1>11. Holds(t)' /\ thr'[t].pc \notin RenamePCs
    BY <1>6 DEF Holds, RenamePCs
  <1> QED
    BY <1>1, <1>2, <1>5, <1>7, <1>10, <1>11, BeginClean

(* A rename that has not reached the kernel changes nothing here. *)
LEMMA RenamingClean ==
    ASSUME IInv, Clean, NEW t \in Threads, Others(t), UNCHANGED <<inode, hashmap>>,
           \A u \in Threads : u # t => thr[u].pc = "idle",
           thr[t].pc # "hashrename", thr'[t].pc \in {"idle", "rename", "krename"}
    PROVE  Clean'
  <1>0. inode' = inode /\ hashmap' = hashmap
    OBVIOUS
  <1>1. \A u \in Threads : thr'[u].pc \in {"idle", "rename", "krename"}
    BY DEF Others
  <1>2. \A u \in Threads : Ordered(u)' /\ Holds(u)'
    BY <1>1 DEF Ordered, Holds, UnlinkPCs, ClosePCs
  <1>3. ASSUME NEW q \in Paths
        PROVE  Mapped(q)'
    <2>1. \A u \in Threads : thr[u].pc # "hashrename"
      OBVIOUS
    <2>2. Mapped(q)
      BY DEF Clean
    <2> QED
      BY <1>0, <2>1, <2>2 DEF Mapped
  <1> QED
    BY <1>2, <1>3 DEF Clean

LEMMA RenameClean ==
    ASSUME IInv, Clean, ~ AnyRename, NEW t \in Threads, Rename(t)
    PROVE  Clean'
  <1>1. TypeOK /\ thr[t].pc = "idle" /\ UNCHANGED <<inode, hashmap>>
    BY MayCallIs DEF IInv, Rename
  <1>2. PICK p \in Paths, q \in Paths :
           /\ Alone(t, q)
           /\ thr' = [thr EXCEPT ![t] = [Idle EXCEPT !.pc = "rename", !.path = p, !.to = q]]
    BY DEF Rename
  <1>3. [Idle EXCEPT !.pc = "rename", !.path = p, !.to = q] \in ThreadRec
    BY DEF Idle, ThreadRec, PCs, RenamePCs
  <1>4. Others(t) /\ thr'[t] = [Idle EXCEPT !.pc = "rename", !.path = p, !.to = q]
    BY <1>1, <1>2, <1>3, BecomesIs
  <1>5. thr'[t].pc = "rename"
    BY <1>4 DEF Idle
  <1>6. \A u \in Threads : u # t => thr[u].pc = "idle"
    BY <1>2 DEF Alone
  <1> QED
    BY <1>1, <1>4, <1>5, <1>6, RenamingClean

LEMMA RenameFilesClean ==
    ASSUME IInv, Clean, NEW t \in Threads, RenameFiles(t)
    PROVE  Clean'
  <1>1. /\ TypeOK /\ thr[t].pc = "rename" /\ UNCHANGED <<inode, hashmap>>
        /\ \A u \in Threads : u # t => thr[u].pc = "idle"
    BY DEF IInv, RenameFiles, At, Locals, Renames, RenamePCs
  <1>2. CASE Return(t)
    <2>1. Others(t) /\ thr'[t].pc = "idle"
      BY <1>1, <1>2, ReturnIs
    <2> QED
      BY <1>1, <2>1, RenamingClean
  <1>3. CASE Goto(t, "krename")
    <2>1. Others(t) /\ thr'[t].pc = "krename"
      BY <1>1, <1>3, GotoIs, PCsAre DEF RenamePCs
    <2> QED
      BY <1>1, <2>1, RenamingClean
  <1> QED
    BY <1>2, <1>3 DEF RenameFiles

LEMMA polyos_renameClean ==
    ASSUME IInv, Clean, NEW t \in Threads, polyos_rename(t)
    PROVE  Clean'
  <1>1. /\ TypeOK /\ Tables /\ thr[t].pc = "krename" /\ Goto(t, "hashrename")
        /\ "hashrename" \in PCs /\ hashmap' = hashmap
        /\ thr[t].path \in Paths /\ thr[t].to \in Paths /\ thr[t].path # thr[t].to
        /\ \A u \in Threads : u # t => thr[u].pc = "idle"
    BY PCsAre DEF IInv, polyos_rename, At, Locals, Renames, RenamePCs
  <1> PICK p \in Paths, q \in Paths : p = thr[t].path /\ q = thr[t].to /\ p # q
    BY <1>1
  <1> PICK i \in Ids \cup {None} : i = i_hashtable_search(p)
    BY <1>1, SearchIs DEF Tables
  <1>2. Others(t) /\ thr'[t].pc = "hashrename" /\ thr'[t].path = p /\ thr'[t].to = q
    BY <1>1, GotoIs
  <1>3. None \notin Ids /\ \A j \in Ids : inode[j].memory = "live" /\ inode[j].path = p <=> i = j
    <2>1. KeysOnce(table)
      BY <1>1 DEF Tables
    <2>2. None \notin Ids /\ \A j \in Ids : Entry(table, p, j) <=> i = j
      BY <1>1, <2>1, SearchIs, BoundAssumption DEF Ids
    <2> QED
      BY <1>1, <2>2 DEF Tables
  <1>4. /\ \A j \in Ids : j # i => inode'[j] = inode[j]
        /\ i # None => inode'[i].path = q /\ inode'[i].memory = inode[i].memory
    <2>1. inode \in [Ids -> InodeRec]
      BY <1>1 DEF TypeOK, InodeRec
    <2>2. CASE i = None
      BY <1>3, <2>2 DEF polyos_rename
    <2>3. CASE i # None
      <3>1. i \in Ids /\ inode[i] \in InodeRec /\ inode' = [inode EXCEPT ![i].path = q]
        BY <2>1, <2>3 DEF polyos_rename
      <3> QED
        BY <2>1, <3>1 DEF InodeRec
    <2> QED
      BY <2>2, <2>3
  <1>5. \A u \in Threads : u # t => thr'[u].pc = "idle"
    BY <1>1, <1>2 DEF Others
  <1>6. \A u \in Threads : u # t => Ordered(u)' /\ Holds(u)'
    BY <1>5 DEF Ordered, Holds, UnlinkPCs, ClosePCs
  <1>7. ASSUME NEW j \in Ids, inode'[j].memory = "live"
        PROVE  inode'[j].path # p
    <2>1. CASE j = i
      BY <1>3, <1>4, <2>1
    <2>2. CASE j # i
      BY <1>3, <1>4, <1>7, <2>2
    <2> QED
      BY <2>1, <2>2
  <1>8. Ordered(t)' /\ Holds(t)'
    BY <1>2, <1>7 DEF Ordered, Holds, UnlinkPCs, ClosePCs
  <1>9. ASSUME NEW r \in Paths, hashmap[r] # None
        PROVE  Mapped(r)'
    <2> PICK j \in Ids : j = hashmap[r]
      BY <1>1, <1>9 DEF TypeOK
    <2>1. inode[j].memory = "live" /\ inode[j].path = r
      <3>1. \A u \in Threads : thr[u].pc # "hashrename"
        BY <1>1
      <3> QED
        BY <1>9, <3>1 DEF Clean, Mapped
    <2>2. CASE j = i
      <3>1. r = p /\ inode'[j].memory = "live" /\ inode'[j].path = q
        BY <1>3, <1>4, <2>1, <2>2
      <3> QED
        BY <1>1, <1>2, <3>1 DEF Mapped
    <2>3. CASE j # i
      <3>1. inode'[j] = inode[j]
        BY <1>4, <2>3
      <3> QED
        BY <1>1, <2>1, <3>1 DEF Mapped
    <2> QED
      BY <2>2, <2>3
  <1>10. ASSUME NEW r \in Paths, hashmap[r] = None
         PROVE  Mapped(r)'
    BY <1>1, <1>10 DEF Mapped
  <1> QED
    BY <1>6, <1>8, <1>9, <1>10 DEF Clean

LEMMA HashmapRenameClean ==
    ASSUME IInv, Clean, NEW t \in Threads, HashmapRename(t)
    PROVE  Clean'
  <1>1. /\ TypeOK /\ thr[t].pc = "hashrename" /\ Return(t) /\ inode' = inode
        /\ thr[t].path \in Paths /\ thr[t].to \in Paths /\ thr[t].path # thr[t].to
        /\ \A u \in Threads : u # t => thr[u].pc = "idle"
    BY DEF IInv, HashmapRename, At, Locals, Renames, RenamePCs
  <1> PICK p \in Paths, q \in Paths : p = thr[t].path /\ q = thr[t].to /\ p # q
    BY <1>1
  <1>2. Others(t) /\ thr'[t].pc = "idle"
    BY <1>1, ReturnIs
  <1>3. \A u \in Threads : thr'[u].pc = "idle"
    BY <1>1, <1>2 DEF Others
  <1>4. \A u \in Threads : Ordered(u)' /\ Holds(u)'
    BY <1>3 DEF Ordered, Holds, UnlinkPCs, ClosePCs
  <1>5. /\ hashmap'[p] = None
        /\ hashmap'[q] = hashmap[q] \/ (hashmap'[q] = hashmap[p] /\ hashmap[p] # None)
        /\ \A r \in Paths : r # p /\ r # q => hashmap'[r] = hashmap[r]
    BY <1>1 DEF HashmapRename, TypeOK
  <1>6. ASSUME NEW r \in Paths, r # p, hashmap[r] # None
        PROVE  inode[hashmap[r]].memory = "live" /\ inode[hashmap[r]].path = r
    <2>1. \A u \in Threads : thr[u].pc = "hashrename" => thr[u].path # r
      BY <1>1, <1>6
    <2> QED
      BY <1>6, <2>1 DEF Clean, Mapped
  <1>7. ASSUME hashmap[p] # None
        PROVE  inode[hashmap[p]].memory = "live" /\ inode[hashmap[p]].path = q
    <2>1. hashmap[p] \in Ids
      BY <1>1, <1>7 DEF TypeOK
    <2>2. inode[hashmap[p]].memory = "live"
      BY <1>7 DEF Clean, Mapped
    <2>3. inode[hashmap[p]].path # p
      BY <1>1, <2>1, <2>2 DEF Clean, Holds
    <2>4. \A u \in Threads : thr[u].pc = "hashrename" => u = t
      BY <1>1
    <2>5. inode[hashmap[p]].path = q
      BY <1>7, <2>3, <2>4 DEF Clean, Mapped
    <2> QED
      BY <2>2, <2>5
  <1>8. ASSUME NEW r \in Paths
        PROVE  Mapped(r)'
    <2>1. CASE r = p
      BY <1>5, <2>1 DEF Mapped
    <2>2. CASE r = q
      BY <1>1, <1>5, <1>6, <1>7, <2>2 DEF Mapped
    <2>3. CASE r # p /\ r # q
      BY <1>1, <1>5, <1>6, <2>3 DEF Mapped
    <2> QED
      BY <2>1, <2>2, <2>3
  <1> QED
    BY <1>4, <1>8 DEF Clean

(* Until a race is recorded no call is about to use freed memory. *)
LEMMA NoneFreed ==
    ASSUME IInv, Clean, NEW t \in Threads, NEW i \in Uses(t)
    PROVE  ~ Freed(i)
  <1>0. TypeOK /\ Tables /\ Knows(t) /\ Renames(t) /\ Holds(t)
    BY DEF IInv, Locals, Clean
  <1>1. ASSUME thr[t].pc \in ClosePCs
        PROVE  inode[thr[t].ino].memory = "live"
    <2>1. Ref(t) \in Refs /\ Ref(t).ino = thr[t].ino
      BY <1>1, RefsIs, RefIs
    <2> QED
      BY <2>1, RefFound
  <1>2. CASE thr[t].pc = "count"
    <2>1. i = thr[t].ino
      BY <1>2 DEF Uses
    <2> QED
      BY <1>0, <1>2, <2>1 DEF Holds, Freed
  <1>3. CASE thr[t].pc \in {"check", "closedrop", "closecmd"}
    <2>1. i = thr[t].ino
      BY <1>3 DEF Uses
    <2> QED
      BY <1>1, <1>3, <2>1 DEF ClosePCs, Freed
  <1>4. CASE thr[t].pc = "drop"
    <2>1. i = thr[t].ino
      BY <1>4 DEF Uses
    <2>2. thr[t].path \in Paths /\ i = hashmap[thr[t].path] /\ i # None
      BY <1>0, <1>4, <2>1, BoundAssumption DEF Holds, Knows, UnlinkPCs, Ids
    <2>3. inode[i].memory = "live"
      BY <2>2 DEF Clean, Mapped
    <2> QED
      BY <2>3 DEF Freed
  <1>5. CASE thr[t].pc = "closed"
    <2>1. i = thr[t].found
      BY <1>5 DEF Uses
    <2> QED
      BY <1>0, <1>1, <1>5, <2>1 DEF Knows, ClosePCs, Freed
  <1>6. CASE thr[t].pc = "unlinked"
    <2>1. i = thr[t].found
      BY <1>6 DEF Uses
    <2> QED
      BY <1>0, <1>6, <2>1 DEF Holds, Freed
  <1>7. CASE thr[t].pc \in {"find", "hashrename"}
    <2>1. i = hashmap[thr[t].path] /\ i # None
      BY <1>7 DEF Uses
    <2>2. thr[t].path \in Paths
      BY <1>0, <1>7 DEF Knows, Renames, UnlinkPCs, RenamePCs
    <2>3. inode[i].memory = "live"
      BY <2>1, <2>2 DEF Clean, Mapped
    <2> QED
      BY <2>3 DEF Freed
  <1>8. CASE thr[t].pc = "krename"
    <2>1. i = i_hashtable_search(thr[t].path) /\ i # None
      BY <1>8 DEF Uses
    <2>2. thr[t].path \in Paths
      BY <1>0, <1>8 DEF Renames, RenamePCs
    <2> PICK p \in Paths : p = thr[t].path
      BY <2>2
    <2>3. KeysOnce(table)
      BY <1>0 DEF Tables
    <2>4. i \in Ids /\ Entry(table, p, i)
      BY <1>0, <2>1, <2>3, SearchIs
    <2>5. inode[i].memory = "live"
      BY <1>0, <2>4 DEF Tables
    <2> QED
      BY <2>5 DEF Freed
  <1>9. CASE thr[t].pc \in {"idle", "search", "insert", "closefind", "unlink", "unlinkfind", "rename"}
    <2>1. Uses(t) = {}
      BY <1>9 DEF Uses
    <2> QED
      BY <2>1
  <1> QED
    BY <1>0, <1>2, <1>3, <1>4, <1>5, <1>6, <1>7, <1>8, <1>9
       DEF TypeOK, PCs, OpenPCs, ClosePCs, UnlinkPCs, RenamePCs

LEMMA InitCareful ==
    ASSUME Init
    PROVE  Careful
  <1>1. \A t \in Threads : thr[t].pc = "idle"
    BY IdleIs DEF Init
  <1>2. \A t \in Threads : Ordered(t) /\ Holds(t)
    BY <1>1 DEF Ordered, Holds, UnlinkPCs, ClosePCs
  <1>3. \A p \in Paths : Mapped(p)
    BY DEF Init, Mapped
  <1>4. ~ undefined
    BY Zenon DEF Init
  <1> QED
    BY <1>2, <1>3, <1>4, Zenon DEF Careful, Clean

(* A race once recorded stays recorded, and only a use of freed memory     *)
(* sets the flag.                                                          *)
LEMMA ThreadFlags ==
    ASSUME NEW t \in Threads, Thread(t), ~ raced'
    PROVE  ~ raced /\ (~ undefined => ~ undefined')
  <1>1. undefined' = undefined
    BY Zenon DEF Thread, Open, Search, Insert, Count, Close, CheckLast, CloseDrop, CloseCmd,
       CloseFind, polyos_close, Unlink, FindUnused, DropUnused, UnlinkFiles, UnlinkFind,
       polyos_unlink, Rename, RenameFiles, polyos_rename, HashmapRename
  <1>2. raced' = raced \/ \E w, p : Begins(w, p)
    BY Zenon DEF Thread, Open, Search, Insert, Count, Close, CheckLast, CloseDrop, CloseCmd,
       CloseFind, polyos_close, Unlink, FindUnused, DropUnused, UnlinkFiles, UnlinkFind,
       polyos_unlink, Rename, RenameFiles, polyos_rename, HashmapRename
  <1>3. ASSUME NEW w, NEW p, Begins(w, p)
        PROVE  ~ raced
    BY <1>3, Zenon DEF Begins
  <1>4. ~ raced
    <2>1. CASE raced' = raced
      BY <2>1, Zenon
    <2>2. CASE \E w, p : Begins(w, p)
      BY <1>3, <2>2, Zenon
    <2> QED
      BY <1>2, <2>1, <2>2, Zenon
  <1>5. ASSUME ~ undefined
        PROVE  ~ undefined'
    BY <1>1, <1>5, Zenon
  <1> QED
    BY <1>4, <1>5, Zenon

LEMMA NextCareful ==
    ASSUME ~ AnyRename, IInv, Careful, [Next]_vars
    PROVE  Careful'
  <1> SUFFICES ASSUME ~ raced'
               PROVE  Clean' /\ ~ undefined'
    BY Zenon DEF Careful
  <1>1. CASE UNCHANGED vars
    <2>1. ~ raced /\ undefined' = undefined
      BY <1>1, Zenon DEF vars
    <2>2. Clean /\ ~ undefined
      BY <2>1, Zenon DEF Careful
    <2>3. inode' = inode /\ hashmap' = hashmap /\ thr' = thr
      BY <1>1 DEF vars
    <2>4. \A t \in Threads : Path(t)' = Path(t)
      BY <2>3 DEF Path
    <2>5. \A t \in Threads : Ordered(t)' /\ Holds(t)'
      BY <2>2, <2>3, <2>4 DEF Clean, Ordered, Sole, Holds
    <2>6. \A p \in Paths : Mapped(p)'
      BY <2>2, <2>3 DEF Clean, Mapped
    <2>7. Clean'
      BY <2>5, <2>6 DEF Clean
    <2> QED
      BY <2>1, <2>2, <2>7, Zenon
  <1>2. CASE UseFreedInode
    <2>1. ~ raced
      BY <1>2, Zenon DEF UseFreedInode
    <2>2. Clean
      BY <2>1, Zenon DEF Careful
    <2> QED
      BY <1>2, <2>2, NoneFreed DEF UseFreedInode
  <1>3. ASSUME NEW t \in Threads, Thread(t)
        PROVE  Clean' /\ ~ undefined'
    <2>1. ~ raced /\ (~ undefined => ~ undefined')
      BY <1>3, ThreadFlags
    <2>2. Clean /\ ~ undefined
      BY <2>1, Zenon DEF Careful
    <2>3. Clean'
      BY <1>3, <2>2, OpenClean, SearchClean, InsertClean, CountClean, CloseClean,
         CheckLastClean, CloseDropClean, CloseCmdClean, CloseFindClean, polyos_closeClean,
         UnlinkClean, FindUnusedClean, DropUnusedClean, UnlinkFilesClean, UnlinkFindClean,
         polyos_unlinkClean, RenameClean, RenameFilesClean, polyos_renameClean,
         HashmapRenameClean DEF Thread
    <2> QED
      BY <2>1, <2>2, <2>3, Zenon
  <1> QED
    BY <1>1, <1>2, <1>3 DEF Next

(* A freed inode is used only after an unlink overlapped another call on   *)
(* its path, or a close a call on an unlinked file: the checks of the      *)
(* count that unlink, close and polyos_unlink make without a lock in       *)
(* common are enough for every other program.                              *)
THEOREM FreedUseNeedsRace ==
    ASSUME ~ AnyRename
    PROVE  Spec => []NoFreedUse
  <1>1. Init => Careful
    BY InitCareful
  <1>2. IInv /\ Careful /\ [Next]_vars => Careful'
    BY NextCareful
  <1>3. Careful => NoFreedUse
    BY Zenon DEF Careful, NoFreedUse
  <1> QED
    BY <1>1, <1>2, <1>3, Invariance, PTL DEF Spec
=============================================================================
