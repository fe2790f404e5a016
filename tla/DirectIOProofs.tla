--------------------------- MODULE DirectIOProofs ----------------------------
(***************************************************************************)
(* Proofs about DirectIO, for any number of threads and calls and any size *)
(* of a node: the call's buffer is in step with the file, extents do not   *)
(* overlap, the calls implement FileStore, and appends only add to what is *)
(* stored, even when their I/O fails.                                      *)
(***************************************************************************)
EXTENDS DirectIO, WellFoundedInduction, FiniteSetTheorems,
        SequenceTheorems, TLAPS

UserRec == [pc : {"idle", "lock", "chunk", "next", "scanned", "fill", "new", "insert",
                  "size", "store", "more"},
            op : {"read", "write", "append"}, seq : BOOLEAN, count : Nat,
            lo : Nat, start : Nat, end : Int, copied : Nat, val : Values,
            cur : Node \cup {None}, snap : Nat, remain : Nat]

-----------------------------------------------------------------------------
(* What the theorems ask of the application. *)

(* Either all threads append, or one at most grows the file while the      *)
(* others write inside of it.                                              *)
Disciplined ==
    \A r \in Roles :
        \/ \A u \in Users : r[u] = "append"
        \/ /\ \A u \in Users : r[u] \in {"grow", "overwrite"}
           /\ \A u, v \in Users : r[u] = "grow" /\ r[v] = "grow" => u = v

(* Lengths and places are even, so that no range has one byte left in the  *)
(* loop of io_direct.c that fills it.                                      *)
Even(n) == n % 2 = 0
EvenSizes == Even(NodeSize) /\ Even(Unit) /\ Even(Chunk) /\ \A n \in Counts : Even(n)

Orderly == Disciplined /\ EvenSizes /\ ~ IOErrors

(* Threads that append do not share the file with threads that write at    *)
(* places of their own.                                                    *)
AppendersAlone ==
    \A r \in Roles : (\E u \in Users : r[u] = "append") => \A u \in Users : r[u] = "append"

-----------------------------------------------------------------------------
(* The inductive invariant. *)

WalkPCs == {"chunk", "next", "scanned"}
FillPCs == {"fill", "new", "insert"}

(* The node a call has in hand, and what is left of its range. *)
Grasp(u) ==
    /\ usr[u].pc = "chunk" => /\ usr[u].cur \in Node /\ usr[u].start <= Last(usr[u].cur)
                              /\ usr[u].start <= usr[u].end
    /\ usr[u].pc \in {"new", "insert"} => usr[u].cur \in Node /\ usr[u].start < usr[u].end

TInv == TypeOK /\ \A u \in Users : Grasp(u)

(* Which calls a thread makes. *)
Ops(u) ==
    /\ usr[u].op = "append" => role[u] = "append"
    /\ usr[u].op = "write" => role[u] \in {"grow", "overwrite"}
    /\ role[u] = "overwrite" => usr[u].remain = 0 /\ usr[u].pc # "more"
    /\ usr[u].pc \in FillPCs \cup {"size"} => usr[u].op # "read"
    /\ usr[u].pc \in {"store", "more"} => usr[u].op = "write"
    /\ usr[u].pc = "more" => usr[u].remain > 0
    /\ usr[u].remain > 0 => usr[u].op = "write"

(* Who holds the tree lock. *)
Holds(u) ==
    /\ u \in treelock.writer <=>
          usr[u].op = "append" /\ usr[u].pc \in WalkPCs \cup FillPCs \cup {"size"}
    /\ u \in treelock.readers <=> usr[u].op # "append" /\ usr[u].pc \in WalkPCs
Locks ==
    /\ \A u \in Users : Holds(u)
    /\ \A u, v \in Users : u \in treelock.writer =>
          v \notin treelock.readers /\ (v \in treelock.writer => u = v)

(* A call is inside of its range. *)
InRange(u) ==
    usr[u].pc \notin {"idle", "more"} =>
        /\ usr[u].count > 0 /\ usr[u].end + 1 = usr[u].lo + usr[u].count
        /\ usr[u].lo <= usr[u].start /\ usr[u].start <= usr[u].end + 1
        /\ usr[u].pc = "lock" => usr[u].start = usr[u].lo /\ usr[u].copied = 0

(* Every place is even. *)
EvenCall(u) ==
    /\ Even(off[u]) /\ Even(usr[u].remain) /\ Even(usr[u].snap) /\ Even(usr[u].count)
    /\ Even(usr[u].start) /\ Even(usr[u].end + 1)
    /\ usr[u].pc \in {"new", "insert"} => Even(usr[u].cur.start) /\ Even(usr[u].cur.offset)
EvenFile ==
    /\ Even(isize)
    /\ \A d \in Devices : Even(Len(dev[d]))
    /\ \A i \in DOMAIN tree : Even(tree[i].start) /\ Even(tree[i].offset)

(* The nodes are the intervals of the file from its front, in order, each  *)
(* with an extent of its own in which something was written.               *)
Cover == Len(tree) * NodeSize
Extent(n) == n.offset % NodeSize = 0
Apart(m, n) == m.place = n.place =>
                   m.offset + NodeSize <= n.offset \/ n.offset + NodeSize <= m.offset
Shape ==
    /\ \A i \in DOMAIN tree :
          /\ tree[i].start = (i - 1) * NodeSize
          /\ Extent(tree[i]) /\ tree[i].offset < Len(dev[tree[i].place])
    /\ \A i, j \in DOMAIN tree : i # j => Apart(tree[i], tree[j])

(* Every position below p has a byte of a physical file. *)
Stored(p) ==
    /\ p <= Cover
    /\ \A i \in DOMAIN tree, x \in 0 .. (NodeSize - 1) :
          tree[i].start + x < p => tree[i].offset + x < Len(dev[tree[i].place])
StoredOrFull(p) == Stored(p) \/ ~ NodesLeft

(* So have the positions below the size, and all but those of the last     *)
(* node.                                                                   *)
Contents ==
    /\ StoredOrFull(isize)
    /\ tree # <<>> => Stored(Cover - NodeSize)

(* How far a call is: it has stored, or has found stored, what is below    *)
(* its position; it leaves the walk where the nodes end.                   *)
Progress(u) ==
    /\ usr[u].op = "write" \/ (usr[u].op = "append" /\ usr[u].pc # "lock") =>
          /\ usr[u].pc \in WalkPCs \cup FillPCs \cup {"lock"} => StoredOrFull(usr[u].start)
          /\ usr[u].pc \in {"size", "store"} => StoredOrFull(usr[u].end + 1)
    /\ usr[u].op = "write" /\ role[u] = "overwrite" => StoredOrFull(usr[u].end + 1)
    /\ usr[u].pc = "store" => StoredOrFull(usr[u].snap)
    /\ usr[u].pc \in WalkPCs \cup FillPCs /\ usr[u].op # "read" =>
          usr[u].copied = usr[u].start - usr[u].lo
    /\ usr[u].pc = "chunk" =>
          /\ usr[u].copied = usr[u].start - usr[u].lo
          /\ \E k \in DOMAIN tree : usr[u].cur = tree[k]
          /\ usr[u].cur.start <= usr[u].start
    /\ usr[u].pc = "next" /\ usr[u].op = "read" =>
          \/ usr[u].copied = usr[u].start - usr[u].lo
          \/ usr[u].start > usr[u].end \/ usr[u].start >= Cover
    /\ usr[u].pc \in {"scanned", "fill"} /\ usr[u].op # "read" =>
          usr[u].start > usr[u].end \/ usr[u].start = Cover \/ ~ NodesLeft
    /\ usr[u].pc = "fill" /\ role[u] = "overwrite" =>
          usr[u].start > usr[u].end \/ ~ NodesLeft

(* A node that is about to be inserted. *)
Fresh(u) ==
    usr[u].pc \in {"new", "insert"} =>
        /\ role[u] # "overwrite" /\ usr[u].start = Cover /\ Stored(Cover)
        /\ usr[u].cur.start = Cover /\ Extent(usr[u].cur)
        /\ \A i \in DOMAIN tree : Apart(tree[i], usr[u].cur)
        /\ usr[u].pc = "insert" =>
              usr[u].cur.offset + NewCount(usr[u]) <= Len(dev[usr[u].cur.place])

Local(u) == Ops(u) /\ InRange(u) /\ EvenCall(u) /\ Progress(u) /\ Fresh(u)
IInv == TInv /\ Locks /\ EvenFile /\ Shape /\ Contents /\ \A u \in Users : Local(u)

-----------------------------------------------------------------------------
(* Arithmetic of intervals and extents. *)

LEMMA MaxOfTwo ==
    ASSUME NEW a \in Int, NEW b \in Int
    PROVE  Max({a, b}) = IF a >= b THEN a ELSE b
  <1>1. \E x \in {a, b} : \A y \in {a, b} : x >= y
    OBVIOUS
  <1>2. Max({a, b}) \in {a, b} /\ \A y \in {a, b} : Max({a, b}) >= y
    BY <1>1 DEF Max
  <1> QED
    BY <1>2

LEMMA MinOfTwo ==
    ASSUME NEW a \in Int, NEW b \in Int
    PROVE  Min({a, b}) = IF a <= b THEN a ELSE b
  <1>1. \E x \in {a, b} : \A y \in {a, b} : x <= y
    OBVIOUS
  <1>2. Min({a, b}) \in {a, b} /\ \A y \in {a, b} : Min({a, b}) <= y
    BY <1>1 DEF Min
  <1> QED
    BY <1>2

LEMMA Multiples ==
    ASSUME NEW n \in Nat \ {0}, NEW i \in Nat, NEW k \in Nat, i <= k
    PROVE  i * n <= k * n
  <1>1. k * n = i * n + (k - i) * n
    OBVIOUS
  <1>2. (k - i) * n >= 0
    OBVIOUS
  <1>3. i * n \in Nat /\ k * n \in Nat /\ (k - i) * n \in Nat
    OBVIOUS
  <1> QED
    BY <1>1, <1>2, <1>3

LEMMA Remainder ==
    ASSUME NEW n \in Nat \ {0}, NEW p \in Nat
    PROVE  /\ p \div n \in Nat /\ p % n \in 0 .. (n - 1)
           /\ p = (p \div n) * n + (p % n)
  OBVIOUS

LEMMA NodeMultiple ==
    ASSUME NEW n \in Nat \ {0}, NEW k \in Nat
    PROVE  (k * n) % n = 0 /\ k * n \in Nat
  <1>0. k * n \in Nat
    OBVIOUS
  <1> DEFINE q == (k * n) \div n
             r == (k * n) % n
  <1>1. q \in Nat /\ r \in 0 .. (n - 1) /\ k * n = q * n + r
    BY <1>0, Remainder
  <1> HIDE DEF q, r
  <1>2. q = k
    <2>1. CASE q < k
      <3>1. (q + 1) * n <= k * n
        BY <2>1, <1>1, Multiples
      <3>2. (q + 1) * n = q * n + n
        BY <1>1
      <3> QED
        BY <3>1, <3>2, <1>1
    <2>2. CASE q > k
      <3>1. (k + 1) * n <= q * n
        BY <2>2, <1>1, Multiples
      <3>2. (k + 1) * n = k * n + n
        OBVIOUS
      <3> QED
        BY <3>1, <3>2, <1>1
    <2> QED
      BY <2>1, <2>2, <1>1
  <1>3. r = 0
    BY <1>1, <1>2
  <1> QED
    BY <1>0, <1>3 DEF r

(* A position is in one interval only. *)
LEMMA OneInterval ==
    ASSUME NEW n \in Nat \ {0}, NEW i \in Nat, NEW k \in Nat, NEW p \in Int,
           i * n <= p, p <= i * n + n - 1, k * n <= p, p <= k * n + n - 1
    PROVE  i = k
  <1>1. CASE i < k
    <2>1. (i + 1) * n <= k * n /\ (i + 1) * n = i * n + n
      BY <1>1, Multiples
    <2> QED
      BY <2>1
  <1>2. CASE k < i
    <2>1. (k + 1) * n <= i * n /\ (k + 1) * n = k * n + n
      BY <1>2, Multiples
    <2> QED
      BY <2>1
  <1> QED
    BY <1>1, <1>2

(* Rounding up to the start of an extent passes every extent in which      *)
(* something was written.                                                  *)
LEMMA CeilingIs ==
    ASSUME NEW p \in Nat
    PROVE  /\ Ceiling(p) \in Nat /\ Ceiling(p) % NodeSize = 0 /\ p <= Ceiling(p)
           /\ \A m \in Nat : m % NodeSize = 0 /\ m < p => m + NodeSize <= Ceiling(p)
  <1>n. NodeSize \in Nat \ {0}
    BY SizesAssumption
  <1> DEFINE q == p \div NodeSize
             r == p % NodeSize
  <1>1. q \in Nat /\ r \in 0 .. (NodeSize - 1) /\ p = q * NodeSize + r
    BY <1>n, Remainder
  <1>2. Ceiling(p) = IF r = 0 THEN p ELSE (q + 1) * NodeSize
    BY DEF Ceiling
  <1> HIDE DEF q
  <1>3. (q + 1) * NodeSize = q * NodeSize + NodeSize
    BY <1>1, <1>n
  <1>4. q * NodeSize \in Nat /\ (q + 1) * NodeSize \in Nat /\ ((q + 1) * NodeSize) % NodeSize = 0
    BY <1>1, <1>n, NodeMultiple
  <1>5. ASSUME NEW m \in Nat, m % NodeSize = 0, m < p
        PROVE  m + NodeSize <= Ceiling(p)
    <2> DEFINE s == m \div NodeSize
    <2>1. s \in Nat /\ m = s * NodeSize + (m % NodeSize)
      BY <1>n, Remainder
    <2> HIDE DEF s
    <2>2. m = s * NodeSize
      BY <2>1, <1>5, <1>n
    <2>3. (s + 1) * NodeSize = s * NodeSize + NodeSize
      BY <2>1, <1>n
    <2>4. s <= q
      <3>1. CASE q < s
        <4>1. (q + 1) * NodeSize <= s * NodeSize
          BY <3>1, <1>1, <2>1, <1>n, Multiples
        <4> QED
          BY <4>1, <1>1, <1>3, <1>4, <1>5, <2>2, <1>n
      <3> QED
        BY <3>1, <1>1, <2>1
    <2>5. CASE r = 0
      <3>1. s # q
        BY <2>5, <1>1, <1>5, <2>2, <1>4
      <3>2. (s + 1) * NodeSize <= q * NodeSize
        BY <3>1, <2>4, <1>1, <2>1, <1>n, Multiples
      <3> QED
        BY <3>2, <2>3, <2>2, <2>5, <1>1, <1>2, <1>4
    <2>6. CASE r # 0
      <3>1. (s + 1) * NodeSize <= (q + 1) * NodeSize
        BY <2>4, <1>1, <2>1, <1>n, Multiples
      <3> QED
        BY <3>1, <2>3, <2>2, <2>6, <1>2
    <2> QED
      BY <2>5, <2>6
  <1>6. Ceiling(p) \in Nat /\ Ceiling(p) % NodeSize = 0 /\ p <= Ceiling(p)
    BY <1>1, <1>2, <1>3, <1>4, <1>n
  <1> QED
    BY <1>5, <1>6

-----------------------------------------------------------------------------
(* Operators of the model. *)

(* A set of natural numbers has a least one. *)
LEMMA Least ==
    ASSUME NEW S \in SUBSET Nat, S # {}
    PROVE  \E x \in S : \A y \in S : x <= y
  <1>1. \E x \in S : \A y \in S : ~ (<<y, x>> \in OpToRel(<, Nat))
    BY NatLessThanWellFounded, WFMin, Zenon
  <1>2. \A x, y \in Nat : ~ (<<y, x>> \in OpToRel(<, Nat)) => x <= y
    <2> SUFFICES ASSUME NEW x \in Nat, NEW y \in Nat, ~ (x <= y)
                 PROVE  <<y, x>> \in OpToRel(<, Nat)
      OBVIOUS
    <2>1. y < x
      OBVIOUS
    <2> QED
      BY <2>1 DEF OpToRel
  <1> QED
    BY <1>1, <1>2

(* A lookup finds a node that overlaps the range, and one with the least   *)
(* start, if there is any; of several such nodes the one inserted first.   *)
Hits(lo, hi) == {i \in DOMAIN tree : tree[i].start <= hi /\ lo <= Last(tree[i])}
LEMMA LookupFirst ==
    ASSUME tree \in Seq(Node), NEW lo \in Nat, NEW hi \in Int
    PROVE  \/ Lookup(lo, hi) = None /\ (lo > hi \/ Hits(lo, hi) = {})
           \/ /\ lo <= hi
              /\ \E k \in Hits(lo, hi) : /\ Lookup(lo, hi) = tree[k]
                                         /\ \A j \in Hits(lo, hi) :
                                               \/ tree[k].start < tree[j].start
                                               \/ tree[k].start = tree[j].start /\ k <= j
  <1>1. CASE lo > hi \/ Hits(lo, hi) = {}
    BY <1>1 DEF Lookup, Hits
  <1>2. CASE ~ (lo > hi \/ Hits(lo, hi) = {})
    <2> DEFINE H == Hits(lo, hi)
               Before(i, j) == \/ tree[i].start < tree[j].start
                               \/ tree[i].start = tree[j].start /\ i <= j
    <2>1. H # {} /\ lo <= hi
      BY <1>2
    <2>2. H \subseteq DOMAIN tree /\ DOMAIN tree \subseteq Nat
          /\ \A i \in DOMAIN tree : tree[i].start \in Nat
      <3>1. \A i \in DOMAIN tree : tree[i] \in Node
        OBVIOUS
      <3>2. DOMAIN tree = 1 .. Len(tree) /\ Len(tree) \in Nat
        OBVIOUS
      <3>3. H \subseteq DOMAIN tree
        BY DEF Hits
      <3> QED
        BY <3>1, <3>2, <3>3 DEF Node
    <2> HIDE DEF H
    <2>3. PICK m \in H : \A j \in H : tree[m].start <= tree[j].start
      <3>1. {tree[i].start : i \in H} \in SUBSET Nat /\ {tree[i].start : i \in H} # {}
        BY <2>1, <2>2
      <3>2. PICK x \in {tree[i].start : i \in H} : \A y \in {tree[i].start : i \in H} : x <= y
        BY <3>1, Least
      <3> QED
        BY <3>2
    <2>4. PICK k \in {i \in H : tree[i].start = tree[m].start} :
              \A j \in {i \in H : tree[i].start = tree[m].start} : k <= j
      <3>1. /\ {i \in H : tree[i].start = tree[m].start} \in SUBSET Nat
            /\ {i \in H : tree[i].start = tree[m].start} # {}
        BY <2>2, <2>3
      <3> QED
        BY <3>1, Least
    <2>5. k \in H /\ \A j \in H : Before(k, j)
      BY <2>2, <2>3, <2>4
    <2> DEFINE c == CHOOSE i \in H : \A j \in H : Before(i, j)
    <2>6. c \in H /\ \A j \in H : Before(c, j)
      BY <2>5
    <2>7. Lookup(lo, hi) = tree[c]
      BY <2>1 DEF Lookup, Hits, H
    <2> HIDE DEF c
    <2> QED
      BY <2>1, <2>6, <2>7 DEF H
  <1> QED
    BY <1>1, <1>2

LEMMA LookupHits ==
    ASSUME tree \in Seq(Node), NEW lo \in Nat, NEW hi \in Int
    PROVE  \/ Lookup(lo, hi) = None /\ (lo > hi \/ Hits(lo, hi) = {})
           \/ /\ lo <= hi
              /\ \E k \in Hits(lo, hi) : /\ Lookup(lo, hi) = tree[k]
                                         /\ \A j \in Hits(lo, hi) : tree[k].start <= tree[j].start
  <1>1. \A j \in DOMAIN tree : tree[j] \in Node
    OBVIOUS
  <1>2. \A j \in Hits(lo, hi) : tree[j].start \in Nat
    BY <1>1 DEF Hits, Node
  <1> QED
    BY <1>2, LookupFirst

LEMMA LookupType ==
    ASSUME tree \in Seq(Node), NEW lo \in Nat, NEW hi \in Int
    PROVE  /\ Lookup(lo, hi) \in Node \cup {None}
           /\ Lookup(lo, hi) # None =>
                 /\ \E k \in DOMAIN tree : Lookup(lo, hi) = tree[k]
                 /\ Lookup(lo, hi).start <= hi /\ lo <= Last(Lookup(lo, hi)) /\ lo <= hi
  BY LookupHits DEF Hits

(* The nodes cover the file from its front. *)
LEMMA Covered ==
    ASSUME tree \in Seq(Node), Shape, NEW p \in Nat
    PROVE  p < Cover <=> \E k \in DOMAIN tree : tree[k].start <= p /\ p <= Last(tree[k])
  <1>n. NodeSize \in Nat \ {0} /\ Len(tree) \in Nat /\ DOMAIN tree = 1 .. Len(tree)
    BY SizesAssumption
  <1>1. ASSUME p < Cover
        PROVE  \E k \in DOMAIN tree : tree[k].start <= p /\ p <= Last(tree[k])
    <2> DEFINE q == p \div NodeSize
    <2>1. q \in Nat /\ q * NodeSize <= p /\ p <= q * NodeSize + NodeSize - 1
      <3>1. /\ p \div NodeSize \in Nat /\ p % NodeSize \in 0 .. (NodeSize - 1)
            /\ p = (p \div NodeSize) * NodeSize + (p % NodeSize)
        BY <1>n, Remainder
      <3>2. q * NodeSize \in Nat
        BY <3>1, <1>n
      <3> HIDE DEF q
      <3>3. p = q * NodeSize + (p % NodeSize)
        BY <3>1 DEF q
      <3>4. q \in Nat
        BY <3>1 DEF q
      <3> QED
        BY <3>1, <3>2, <3>3, <3>4, <1>n
    <2> HIDE DEF q
    <2>2. q < Len(tree)
      <3>1. CASE Len(tree) <= q
        <4>1. Len(tree) * NodeSize <= q * NodeSize
          BY <3>1, <2>1, <1>n, Multiples
        <4>2. q * NodeSize \in Nat /\ Len(tree) * NodeSize \in Nat
          BY <2>1, <1>n
        <4> QED
          BY <4>1, <4>2, <2>1, <1>1 DEF Cover
      <3> QED
        BY <3>1, <2>1, <1>n
    <2>3. q + 1 \in DOMAIN tree
      BY <2>1, <2>2, <1>n
    <2>4. PICK j \in DOMAIN tree : j = q + 1
      BY <2>3
    <2>5. tree[j].start = (j - 1) * NodeSize /\ j - 1 = q
      BY <2>1, <2>4 DEF Shape
    <2>6. tree[j].start = q * NodeSize
      BY <2>5
    <2> QED
      BY <2>1, <2>6, <1>n DEF Last
  <1>2. ASSUME NEW k \in DOMAIN tree, tree[k].start <= p, p <= Last(tree[k])
        PROVE  p < Cover
    <2>1. tree[k].start = (k - 1) * NodeSize /\ k \in Nat /\ k <= Len(tree) /\ k - 1 \in Nat
      BY <1>n DEF Shape
    <2>2. k * NodeSize = (k - 1) * NodeSize + NodeSize
      BY <2>1, <1>n
    <2>3. k * NodeSize <= Len(tree) * NodeSize
      BY <2>1, <1>n, Multiples
    <2>4. (k - 1) * NodeSize \in Nat /\ Len(tree) * NodeSize \in Nat
      BY <2>1, <1>n
    <2> QED
      BY <1>2, <2>1, <2>2, <2>3, <2>4, <1>n, SMTT(60) DEF Cover, Last
  <1> QED
    BY <1>1, <1>2

(* Two nodes of the tree do not overlap. *)
LEMMA NodesDiffer ==
    ASSUME tree \in Seq(Node), Shape, NEW i \in DOMAIN tree, NEW k \in DOMAIN tree, NEW p \in Int,
           tree[i].start <= p, p <= Last(tree[i]), tree[k].start <= p, p <= Last(tree[k])
    PROVE  i = k
  <1>n. NodeSize \in Nat \ {0} /\ DOMAIN tree = 1 .. Len(tree) /\ Len(tree) \in Nat
    BY SizesAssumption
  <1>1. tree[i].start = (i - 1) * NodeSize /\ tree[k].start = (k - 1) * NodeSize
    BY DEF Shape
  <1>2. i - 1 \in Nat /\ k - 1 \in Nat
    BY <1>n
  <1>3. i - 1 = k - 1
    BY <1>1, <1>2, <1>n, OneInterval DEF Last
  <1> QED
    BY <1>3, <1>n

LEMMA PwriteIs ==
    ASSUME NEW s \in Seq(Values), NEW pos \in Int, NEW n \in Nat, NEW v \in Values
    PROVE  /\ Pwrite(s, pos, n, v) \in Seq(Values)
           /\ Len(Pwrite(s, pos, n, v)) = IF Len(s) >= pos + n THEN Len(s) ELSE pos + n
  <1> DEFINE m == IF Len(s) >= pos + n THEN Len(s) ELSE pos + n
             f == [i \in 1 .. m |->
                     IF i \in (pos + 1) .. (pos + n) THEN v ELSE IF i <= Len(s) THEN s[i] ELSE 0]
  <1>1. Len(s) \in Nat /\ m \in Nat
    OBVIOUS
  <1>2. Pwrite(s, pos, n, v) = f
    BY <1>1, MaxOfTwo DEF Pwrite
  <1> HIDE DEF m
  <1>3. 0 \in Values
    BY SizesAssumption DEF Values
  <1>4. f \in [1 .. m -> Values]
    BY <1>1, <1>3
  <1> HIDE DEF f
  <1>5. f \in Seq(Values) /\ Len(f) = m
    BY <1>1, <1>4
  <1> QED
    BY <1>2, <1>5 DEF m

LEMMA PreadIs ==
    ASSUME NEW s \in Seq(Values), NEW pos \in Int, NEW n \in Nat
    PROVE  /\ PreadCount(s, pos, n) \in Nat
           /\ pos + n <= Len(s) => PreadCount(s, pos, n) = n
           /\ Len(s) < pos + n => PreadCount(s, pos, n) = IF pos <= Len(s) THEN Len(s) - pos ELSE 0
  <1>1. Len(s) \in Nat
    OBVIOUS
  <1>2. Min({n, Len(s) - pos}) = IF n <= Len(s) - pos THEN n ELSE Len(s) - pos
    BY <1>1, MinOfTwo
  <1>3. PICK m \in Int : m = Min({n, Len(s) - pos})
    BY <1>1, <1>2
  <1>4. PreadCount(s, pos, n) = IF 0 >= m THEN 0 ELSE m
    <2>1. PreadCount(s, pos, n) = Max({0, m})
      BY <1>3, Zenon DEF PreadCount
    <2>2. 0 \in Int
      OBVIOUS
    <2> QED
      BY <2>1, <2>2, MaxOfTwo
  <1> QED
    BY <1>1, <1>2, <1>3, <1>4

(* The record of a call after a step that goes on with the same range. *)
SameCall(q, r) ==
    /\ q.op = r.op /\ q.seq = r.seq /\ q.count = r.count /\ q.val = r.val
    /\ q.lo = r.lo /\ q.end = r.end /\ q.snap = r.snap /\ q.remain = r.remain
Walked(q, r) ==
    /\ SameCall(q, r) /\ q.start = r.start /\ q.copied = r.copied
    /\ q.cur = Lookup(r.start, r.end)
    /\ q.pc = IF Lookup(r.start, r.end) = None THEN "scanned" ELSE "chunk"

LEMMA WalkIs ==
    ASSUME tree \in Seq(Node), NEW r \in UserRec
    PROVE  Walk(r) \in UserRec /\ Walked(Walk(r), r)
  <1>1. Lookup(r.start, r.end) \in Node \cup {None}
    BY LookupType DEF UserRec
  <1>2. PICK n \in Node \cup {None} : n = Lookup(r.start, r.end)
    BY <1>1
  <1>3. PICK p \in {"scanned", "chunk"} : p = IF n = None THEN "scanned" ELSE "chunk"
    OBVIOUS
  <1>4. Walk(r) = [r EXCEPT !.cur = n, !.pc = p]
    BY <1>2, <1>3, Zenon DEF Walk
  <1>5. PICK q : q = [r EXCEPT !.cur = n, !.pc = p]
    OBVIOUS
  <1>6. q \in UserRec /\ SameCall(q, r) /\ q.start = r.start /\ q.copied = r.copied
        /\ q.cur = n /\ q.pc = p
    BY <1>5 DEF UserRec, SameCall
  <1> QED
    BY <1>2, <1>3, <1>4, <1>5, <1>6 DEF Walked

LEMMA SetRangeIs ==
    ASSUME NEW r \in UserRec, NEW from \in Nat
    PROVE  /\ SetRange(r, from) \in UserRec
           /\ SetRange(r, from).lo = from /\ SetRange(r, from).start = from
           /\ SetRange(r, from).end = from + r.count - 1
           /\ SetRange(r, from).pc = r.pc /\ SetRange(r, from).op = r.op
           /\ SetRange(r, from).seq = r.seq /\ SetRange(r, from).count = r.count
           /\ SetRange(r, from).val = r.val /\ SetRange(r, from).copied = r.copied
           /\ SetRange(r, from).cur = r.cur /\ SetRange(r, from).snap = r.snap
           /\ SetRange(r, from).remain = r.remain
  <1>1. r.count \in Nat
    BY DEF UserRec
  <1>2. PICK e \in Int : e = from + r.count - 1
    BY <1>1
  <1>3. PICK q : q = [r EXCEPT !.lo = from, !.start = from, !.end = e]
    OBVIOUS
  <1>4. SetRange(r, from) = q
    BY <1>2, <1>3, Zenon DEF SetRange
  <1>5. q \in UserRec
    BY <1>3 DEF UserRec
  <1>6. /\ q.lo = from /\ q.start = from /\ q.end = e /\ q.pc = r.pc /\ q.op = r.op
        /\ q.seq = r.seq /\ q.count = r.count /\ q.val = r.val /\ q.copied = r.copied
        /\ q.cur = r.cur /\ q.snap = r.snap /\ q.remain = r.remain
    BY <1>3 DEF UserRec
  <1> QED
    BY <1>2, <1>4, <1>5, <1>6

LEMMA IdleType == IdleUser \in UserRec
  <1>1. 0 \in Values
    BY SizesAssumption DEF Values
  <1> QED
    BY <1>1 DEF IdleUser, UserRec

(* What the types say. *)
LEMMA TypeFacts ==
    TypeOK <=>
        /\ dev \in [Devices -> Seq(Values)]
        /\ tree \in Seq(Node) /\ next \in Nat
        /\ treelock \in [readers : SUBSET Users, writer : SUBSET Users]
        /\ isize \in Nat /\ placed \in BOOLEAN
        /\ off \in [Users -> Nat]
        /\ usr \in [Users -> UserRec]
        /\ role \in Roles /\ ops \in 0 .. MaxOps
  BY DEF TypeOK, UserRec

LEMMA TypeNext ==
    ASSUME dev' \in [Devices -> Seq(Values)],
           tree' \in Seq(Node), next' \in Nat,
           treelock' \in [readers : SUBSET Users, writer : SUBSET Users],
           isize' \in Nat, placed' \in BOOLEAN, off' \in [Users -> Nat],
           usr' \in [Users -> UserRec], role' \in Roles, ops' \in 0 .. MaxOps
    PROVE  TypeOK'
  BY DEF TypeOK, UserRec

LEMMA UserFacts ==
    ASSUME TypeOK, NEW u \in Users
    PROVE  /\ usr[u] \in UserRec /\ usr[u].op \in {"read", "write", "append"}
           /\ usr[u].count \in Nat /\ usr[u].lo \in Nat /\ usr[u].start \in Nat
           /\ usr[u].end \in Int /\ usr[u].copied \in Nat /\ usr[u].val \in Values
           /\ usr[u].cur \in Node \cup {None} /\ usr[u].snap \in Nat /\ usr[u].remain \in Nat
  <1>1. usr[u] \in UserRec
    BY TypeFacts
  <1> QED
    BY <1>1 DEF UserRec

LEMMA FileFacts ==
    ASSUME TypeOK
    PROVE  /\ \A d \in Devices : Len(dev[d]) \in Nat
           /\ tree \in Seq(Node) /\ Len(tree) \in Nat /\ DOMAIN tree = 1 .. Len(tree)
           /\ \A i \in DOMAIN tree : /\ tree[i] \in Node /\ tree[i].start \in Nat
                                     /\ tree[i].offset \in Nat /\ tree[i].place \in Devices
           /\ NodeSize \in Nat \ {0} /\ Cover \in Nat /\ isize \in Nat
  <1>1. dev \in [Devices -> Seq(Values)] /\ tree \in Seq(Node) /\ isize \in Nat
    BY TypeFacts
  <1>2. \A d \in Devices : Len(dev[d]) \in Nat
    BY <1>1
  <1>3. Len(tree) \in Nat /\ DOMAIN tree = 1 .. Len(tree) /\ \A i \in DOMAIN tree : tree[i] \in Node
    BY <1>1
  <1>4. \A m \in Node : m.start \in Nat /\ m.offset \in Nat /\ m.place \in Devices
    BY DEF Node
  <1>5. NodeSize \in Nat \ {0} /\ Cover \in Nat
    BY <1>3, SizesAssumption DEF Cover
  <1> QED
    BY <1>1, <1>2, <1>3, <1>4, <1>5

LEMMA LensNext ==
    ASSUME TypeOK'
    PROVE  \A d \in Devices : Len(dev'[d]) \in Nat
  <1>1. dev' \in [Devices -> Seq(Values)]
    BY DEF TypeOK
  <1> QED
    BY <1>1

(* A step of u on its own record. *)
LEMMA StepIs ==
    ASSUME usr \in [Users -> UserRec], NEW u \in Users, NEW r \in UserRec, Step(u, r)
    PROVE  /\ usr' \in [Users -> UserRec] /\ usr'[u] = r
           /\ \A v \in Users : v # u => usr'[v] = usr[v]
  BY DEF Step

Others(u) == \A v \in Users : v # u => usr'[v] = usr[v]

-----------------------------------------------------------------------------
(* What each step does, and that it keeps the types. *)

(* A call begins. *)
Began(u, o, n, from) ==
    /\ usr[u].pc = "idle" /\ Others(u)
    /\ usr'[u].pc = "lock" /\ usr'[u].op = o /\ usr'[u].count = n
    /\ usr'[u].lo = from /\ usr'[u].start = from /\ usr'[u].end = from + n - 1
    /\ usr'[u].copied = 0 /\ usr'[u].cur = None /\ usr'[u].snap = 0 /\ usr'[u].remain = 0
    /\ usr'[u].val = IF o = "read" THEN 0 ELSE ops + 1
    /\ ops' = ops + 1 /\ UNCHANGED <<dev, tree, next, treelock, isize, off, role>>

LEMMA BeginIs ==
    ASSUME TypeOK, NEW u \in Users, NEW o \in {"read", "write", "append"}, NEW n \in Nat,
           NEW s, s.seq \in BOOLEAN, s.from \in Nat, Begin(u, o, n, s)
    PROVE  /\ Began(u, o, n, s.from)
           /\ usr' \in [Users -> UserRec] /\ ops' \in 0 .. MaxOps
  <1>1. PICK v \in Values : v = IF o = "read" THEN 0 ELSE ops + 1
    BY SizesAssumption, TypeFacts DEF Begin, Values
  <1>2. PICK b \in BOOLEAN : b = s.seq
    OBVIOUS
  <1>3. PICK f \in Nat : f = s.from
    OBVIOUS
  <1>4. PICK r : r = [IdleUser EXCEPT !.pc = "lock", !.op = o, !.seq = b, !.count = n, !.val = v]
    OBVIOUS
  <1>5. r \in UserRec
    BY <1>4, IdleType DEF UserRec
  <1>6. r.pc = "lock" /\ r.op = o /\ r.count = n /\ r.copied = 0 /\ r.cur = None
        /\ r.snap = 0 /\ r.remain = 0 /\ r.val = v
    BY <1>4 DEF IdleUser
  <1>7. Step(u, SetRange(r, f))
    BY <1>1, <1>2, <1>3, <1>4, Zenon DEF Begin
  <1>8. PICK q \in UserRec : q = SetRange(r, f)
    BY <1>5, SetRangeIs
  <1>9. /\ q.lo = f /\ q.start = f /\ q.end = f + n - 1
        /\ q.pc = "lock" /\ q.op = o /\ q.count = n /\ q.copied = 0 /\ q.cur = None
        /\ q.snap = 0 /\ q.remain = 0 /\ q.val = v
    BY <1>5, <1>6, <1>8, SetRangeIs, ZenonT(60)
  <1>10. usr' \in [Users -> UserRec] /\ usr'[u] = q /\ Others(u)
    BY <1>7, <1>8, StepIs, TypeFacts DEF Others
  <1>11. ops' = ops + 1 /\ ops' \in 0 .. MaxOps
    <2>1. ops < MaxOps /\ ops' = ops + 1
      BY DEF Begin
    <2>2. ops \in 0 .. MaxOps
      BY DEF TypeOK
    <2> QED
      BY <2>1, <2>2, SizesAssumption
  <1>12. usr[u].pc = "idle" /\ UNCHANGED <<dev, tree, next, treelock, isize, off, role>>
    BY DEF Begin, At, index
  <1> QED
    BY <1>1, <1>3, <1>9, <1>10, <1>11, <1>12 DEF Began

LEMMA StartsAre ==
    ASSUME TypeOK, NEW u \in Users, NEW s \in Starts(u)
    PROVE  /\ s.seq \in BOOLEAN /\ s.from \in Nat
           /\ ~ s.seq => s.from % Unit = 0
           /\ s.seq => s.from = off[u]
  <1>1. CASE s = [seq |-> TRUE, from |-> off[u]]
    BY <1>1, TypeFacts
  <1>2. CASE \E p \in {q \in Positions : q % Unit = 0} : s = [seq |-> FALSE, from |-> p]
    <2>1. PICK p \in Positions : p % Unit = 0 /\ s = [seq |-> FALSE, from |-> p]
      BY <1>2
    <2>2. p \in Nat
      BY DEF Positions
    <2> QED
      BY <2>1, <2>2
  <1> QED
    BY <1>1, <1>2 DEF Starts

LEMMA ReadCallIs ==
    ASSUME TypeOK, NEW u \in Users, ReadCall(u)
    PROVE  /\ \E n \in Counts, s \in Starts(u) : Began(u, "read", n, s.from)
           /\ TypeOK'
  <1>1. PICK n \in Counts, s \in Starts(u) : Begin(u, "read", n, s)
    BY DEF ReadCall
  <1>2. n \in Nat /\ s.seq \in BOOLEAN /\ s.from \in Nat
    BY SizesAssumption, StartsAre
  <1>3. Began(u, "read", n, s.from) /\ usr' \in [Users -> UserRec] /\ ops' \in 0 .. MaxOps
    BY <1>1, <1>2, BeginIs
  <1>4. placed' = placed
    BY DEF ReadCall
  <1>5. TypeOK'
    BY <1>3, <1>4, TypeFacts, TypeNext DEF Began
  <1> QED
    BY <1>3, <1>5

LEMMA WriteCallIs ==
    ASSUME TypeOK, NEW u \in Users, WriteCall(u)
    PROVE  /\ \E n \in Counts, s \in Starts(u) :
                 /\ Allowed(u, s.from, n)
                 /\ IF role[u] = "append" THEN Began(u, "append", n, s.from)
                    ELSE Began(u, "write", n, s.from)
           /\ TypeOK'
  <1>1. PICK n \in Counts, s \in Starts(u) :
            /\ Allowed(u, s.from, n)
            /\ IF role[u] = "append" THEN Begin(u, "append", n, s) ELSE Begin(u, "write", n, s)
    BY Zenon DEF WriteCall
  <1>2. n \in Nat /\ s.seq \in BOOLEAN /\ s.from \in Nat
    BY SizesAssumption, StartsAre
  <1>3. CASE role[u] = "append"
    <2>1. Began(u, "append", n, s.from) /\ usr' \in [Users -> UserRec] /\ ops' \in 0 .. MaxOps
      BY <1>1, <1>2, <1>3, BeginIs
    <2>2. placed' = TRUE
      BY DEF WriteCall
    <2>3. TypeOK'
      BY <2>1, <2>2, TypeFacts, TypeNext DEF Began
    <2> QED
      BY <1>1, <1>3, <2>1, <2>3
  <1>4. CASE role[u] # "append"
    <2>1. Began(u, "write", n, s.from) /\ usr' \in [Users -> UserRec] /\ ops' \in 0 .. MaxOps
      BY <1>1, <1>2, <1>4, BeginIs
    <2>2. placed' = TRUE
      BY DEF WriteCall
    <2>3. TypeOK'
      BY <2>1, <2>2, TypeFacts, TypeNext DEF Began
    <2> QED
      BY <1>1, <1>4, <2>1, <2>3
  <1> QED
    BY <1>3, <1>4

LEMMA TruncateCallIs ==
    ASSUME TypeOK, NEW u \in Users, TruncateCall(u)
    PROVE  /\ usr[u].pc = "idle" /\ Others(u) /\ role[u] \in {"grow", "anywhere"}
           /\ usr'[u].pc = "more" /\ usr'[u].op = "write" /\ usr'[u].remain \in Counts
           /\ usr'[u].cur = None /\ usr'[u].snap = 0 /\ usr'[u].lo = 0 /\ usr'[u].start = 0
           /\ usr'[u].end = -1 /\ usr'[u].count = 0 /\ usr'[u].val = ops + 1
           /\ ops' = ops + 1 /\ UNCHANGED <<dev, tree, next, treelock, isize, off, role>>
           /\ TypeOK'
  <1>1. PICK n \in Counts :
            Step(u, [IdleUser EXCEPT !.pc = "more", !.op = "write", !.val = ops + 1, !.remain = n])
    BY DEF TruncateCall
  <1>2. PICK v \in Values : v = ops + 1
    BY SizesAssumption, TypeFacts DEF TruncateCall, Values
  <1>3. PICK r : r = [IdleUser EXCEPT !.pc = "more", !.op = "write", !.val = v, !.remain = n]
    OBVIOUS
  <1>4. r \in UserRec
    BY <1>3, IdleType, SizesAssumption DEF UserRec
  <1>5. r.pc = "more" /\ r.op = "write" /\ r.remain = n /\ r.cur = None /\ r.snap = 0
        /\ r.lo = 0 /\ r.start = 0 /\ r.end = -1 /\ r.count = 0 /\ r.val = v
    BY <1>3 DEF IdleUser
  <1>6. usr' \in [Users -> UserRec] /\ usr'[u] = r /\ Others(u)
    BY <1>1, <1>2, <1>3, <1>4, StepIs, TypeFacts DEF Others
  <1>7. ops' = ops + 1 /\ ops' \in 0 .. MaxOps
    BY SizesAssumption, TypeFacts DEF TruncateCall
  <1>8. UNCHANGED <<dev, tree, next, treelock, isize, placed, off, role>> /\ usr[u].pc = "idle"
        /\ role[u] \in {"grow", "anywhere"}
    BY DEF TruncateCall, At, index
  <1>9. TypeOK'
    BY <1>6, <1>7, <1>8, TypeFacts, TypeNext
  <1> QED
    BY <1>2, <1>5, <1>6, <1>7, <1>8, <1>9

LEMMA NextChunkIs ==
    ASSUME TypeOK, NEW u \in Users, NextChunk(u)
    PROVE  /\ usr[u].pc = "more" /\ Others(u)
           /\ \E n \in Nat :
                 /\ n = IF Chunk <= usr[u].remain THEN Chunk ELSE usr[u].remain
                 /\ usr'[u].count = n /\ usr'[u].remain = usr[u].remain - n
           /\ usr'[u].pc = "lock" /\ usr'[u].op = usr[u].op /\ usr'[u].copied = 0
           /\ usr'[u].cur = usr[u].cur /\ usr'[u].snap = usr[u].snap
           /\ usr'[u].val = usr[u].val /\ usr'[u].lo = isize /\ usr'[u].start = isize
           /\ usr'[u].end = isize + usr'[u].count - 1
           /\ UNCHANGED <<dev, tree, next, treelock, isize, off, role>>
           /\ TypeOK'
  <1>0. Chunk \in Nat /\ usr[u].remain \in Nat /\ isize \in Nat /\ usr[u] \in UserRec
    BY SizesAssumption, TypeFacts DEF UserRec
  <1>1. PICK n \in Nat : n = IF Chunk <= usr[u].remain THEN Chunk ELSE usr[u].remain
    BY <1>0
  <1>2. n = Min({Chunk, usr[u].remain})
    BY <1>0, <1>1, MinOfTwo
  <1>3. PICK m \in Nat : m = usr[u].remain - n
    BY <1>0, <1>1
  <1>4. PICK r : r = [usr[u] EXCEPT !.pc = "lock", !.count = n, !.copied = 0, !.remain = m]
    OBVIOUS
  <1>5. r \in UserRec
    BY <1>0, <1>4 DEF UserRec
  <1>6. r.pc = "lock" /\ r.op = usr[u].op /\ r.count = n /\ r.copied = 0 /\ r.remain = m
        /\ r.cur = usr[u].cur /\ r.snap = usr[u].snap /\ r.val = usr[u].val
    BY <1>0, <1>4 DEF UserRec
  <1>7. Step(u, SetRange(r, isize))
    BY <1>2, <1>3, <1>4 DEF NextChunk
  <1>8. PICK q \in UserRec : q = SetRange(r, isize)
    BY <1>0, <1>5, SetRangeIs
  <1>9. /\ q.lo = isize /\ q.start = isize /\ q.end = isize + n - 1
        /\ q.pc = "lock" /\ q.op = usr[u].op /\ q.count = n /\ q.copied = 0 /\ q.remain = m
        /\ q.cur = usr[u].cur /\ q.snap = usr[u].snap /\ q.val = usr[u].val
    BY <1>0, <1>5, <1>6, <1>8, SetRangeIs, ZenonT(60)
  <1>10. usr' \in [Users -> UserRec] /\ usr'[u] = q /\ Others(u)
    BY <1>7, <1>8, StepIs, TypeFacts DEF Others
  <1>11. usr[u].pc = "more" /\ UNCHANGED <<dev, tree, next, treelock, isize, placed, off, role, ops>>
    BY DEF NextChunk, At, index
  <1>12. TypeOK'
    BY <1>10, <1>11, TypeFacts, TypeNext
  <1> QED
    BY <1>1, <1>3, <1>9, <1>10, <1>11, <1>12

LEMMA SeekIs ==
    ASSUME TypeOK, NEW u \in Users, polystore_lseek(u)
    PROVE  /\ \E p \in Nat : p % Unit = 0 /\ off' = [off EXCEPT ![u] = p]
           /\ UNCHANGED <<dev, tree, next, treelock, isize, usr, role>>
           /\ TypeOK'
  <1>1. PICK p \in 0 .. isize : p % Unit = 0 /\ off' = [off EXCEPT ![u] = p]
    BY DEF polystore_lseek
  <1>2. p \in Nat
    BY TypeFacts
  <1>3. off' \in [Users -> Nat]
    BY <1>1, <1>2, TypeFacts
  <1>4. ops' \in 0 .. MaxOps
    BY SizesAssumption, TypeFacts DEF polystore_lseek
  <1>5. UNCHANGED <<dev, tree, next, treelock, isize, placed, usr, role>>
    BY DEF polystore_lseek, index
  <1>6. TypeOK'
    BY <1>3, <1>4, <1>5, TypeFacts, TypeNext
  <1> QED
    BY <1>1, <1>2, <1>5, <1>6

(* The tree lock. *)
Read(u)   == treelock'.writer = treelock.writer /\ treelock'.readers = treelock.readers \cup {u}
Freed(u)  == /\ treelock'.writer = treelock.writer \ {u}
             /\ treelock'.readers = treelock.readers \ {u}

LEMMA LockReadIs ==
    ASSUME TypeOK, NEW u \in Users, LockRead(u)
    PROVE  /\ usr[u].pc = "lock" /\ usr[u].op \in {"read", "write"} /\ Others(u)
           /\ treelock.writer = {} /\ Read(u)
           /\ Walked(usr'[u], usr[u])
           /\ UNCHANGED <<dev, tree, next, isize, off, role>>
           /\ TypeOK'
  <1>1. PICK q \in UserRec : q = Walk(usr[u]) /\ Walked(q, usr[u])
    BY WalkIs, TypeFacts
  <1>2. usr' \in [Users -> UserRec] /\ usr'[u] = q /\ Others(u)
    BY <1>1, StepIs, TypeFacts DEF LockRead, Others
  <1>3. usr[u].pc = "lock" /\ usr[u].op \in {"read", "write"} /\ treelock.writer = {}
    BY DEF LockRead, At, MayRead
  <1>4. Read(u) /\ treelock' \in [readers : SUBSET Users, writer : SUBSET Users]
    BY TypeFacts DEF LockRead, ReadLocked, Read
  <1>5. UNCHANGED <<dev, tree, next, isize, placed, off, role, ops>>
    BY DEF LockRead, index
  <1>6. TypeOK'
    BY <1>2, <1>4, <1>5, TypeFacts, TypeNext
  <1> QED
    BY <1>1, <1>2, <1>3, <1>4, <1>5, <1>6

LEMMA LockWriteIs ==
    ASSUME TypeOK, NEW u \in Users, LockWrite(u)
    PROVE  /\ usr[u].pc = "lock" /\ usr[u].op = "append" /\ Others(u)
           /\ treelock.readers = {} /\ treelock.writer \subseteq {u}
           /\ treelock'.readers = treelock.readers /\ treelock'.writer = {u}
           /\ \E r \in UserRec :
                 /\ r.lo = isize /\ r.start = isize /\ r.end = isize + usr[u].count - 1
                 /\ r.op = usr[u].op /\ r.seq = usr[u].seq /\ r.count = usr[u].count
                 /\ r.val = usr[u].val /\ r.copied = usr[u].copied
                 /\ r.snap = usr[u].snap /\ r.remain = usr[u].remain
                 /\ Walked(usr'[u], r)
           /\ UNCHANGED <<dev, tree, next, isize, off, role>>
           /\ TypeOK'
  <1>1. PICK r \in UserRec :
            /\ r = SetRange(usr[u], isize)
            /\ r.lo = isize /\ r.start = isize /\ r.end = isize + usr[u].count - 1
            /\ r.op = usr[u].op /\ r.seq = usr[u].seq /\ r.count = usr[u].count
            /\ r.val = usr[u].val /\ r.copied = usr[u].copied
            /\ r.snap = usr[u].snap /\ r.remain = usr[u].remain
    BY SetRangeIs, TypeFacts, ZenonT(60)
  <1>2. PICK q \in UserRec : q = Walk(r) /\ Walked(q, r)
    BY WalkIs, TypeFacts
  <1>3. Step(u, q)
    BY <1>1, <1>2, Zenon DEF LockWrite
  <1>4. usr' \in [Users -> UserRec] /\ usr'[u] = q /\ Others(u)
    BY <1>3, StepIs, TypeFacts DEF Others
  <1>5. /\ usr[u].pc = "lock" /\ usr[u].op = "append"
        /\ treelock.readers = {} /\ treelock.writer \subseteq {u}
    BY DEF LockWrite, At, MayWrite
  <1>6. /\ treelock'.readers = treelock.readers /\ treelock'.writer = {u}
        /\ treelock' \in [readers : SUBSET Users, writer : SUBSET Users]
    BY TypeFacts DEF LockWrite
  <1>7. UNCHANGED <<dev, tree, next, isize, placed, off, role, ops>>
    BY DEF LockWrite, index
  <1>8. TypeOK'
    BY <1>4, <1>6, <1>7, TypeFacts, TypeNext
  <1> QED
    BY <1>1, <1>2, <1>4, <1>5, <1>6, <1>7, <1>8

LEMMA NextNodeIs ==
    ASSUME TypeOK, NEW u \in Users, NextNode(u)
    PROVE  /\ usr[u].pc = "next" /\ Others(u) /\ Walked(usr'[u], usr[u])
           /\ UNCHANGED <<dev, tree, next, treelock, isize, off, role>>
           /\ TypeOK'
  <1>1. PICK q \in UserRec : q = Walk(usr[u]) /\ Walked(q, usr[u])
    BY WalkIs, TypeFacts
  <1>2. usr' \in [Users -> UserRec] /\ usr'[u] = q /\ Others(u)
    BY <1>1, StepIs, TypeFacts DEF NextNode, Others
  <1>3. usr[u].pc = "next" /\ UNCHANGED <<dev, tree, next, treelock, isize, placed, off, role, ops>>
    BY DEF NextNode, At, index
  <1>4. TypeOK'
    BY <1>2, <1>3, TypeFacts, TypeNext
  <1> QED
    BY <1>1, <1>2, <1>3, <1>4

(* The part of a range in one node. *)
LEMMA ChunkIs ==
    ASSUME NEW r \in UserRec, r.cur \in Node, r.start <= Last(r.cur), r.start <= r.end
    PROVE  /\ ChunkCount(r) \in Nat \ {0} /\ Position(r) \in Int /\ Last(r.cur) \in Nat
           /\ \E s \in Nat : /\ s = r.start + ChunkCount(r)
                             /\ s = IF Last(r.cur) < r.end THEN Last(r.cur) + 1 ELSE r.end + 1
  <1>1. NodeSize \in Nat \ {0} /\ r.cur.start \in Nat /\ r.cur.offset \in Nat
        /\ r.start \in Nat /\ r.end \in Int
    BY SizesAssumption DEF Node, UserRec
  <1>2. Last(r.cur) \in Nat
    BY <1>1 DEF Last
  <1> QED
    BY <1>1, <1>2 DEF ChunkCount, Position

(* The call after n bytes in its node. *)
Advanced(u, n) ==
    /\ SameCall(usr'[u], usr[u]) /\ usr'[u].pc = "next" /\ usr'[u].cur = usr[u].cur
    /\ usr'[u].copied = usr[u].copied + n
    /\ usr'[u].start = usr[u].start + ChunkCount(usr[u])
GaveUp(u) ==
    /\ SameCall(usr'[u], usr[u]) /\ usr'[u].pc = "scanned" /\ usr'[u].cur = usr[u].cur
    /\ usr'[u].copied = usr[u].copied /\ usr'[u].start = usr[u].start
OffMoved(u, n) ==
    /\ off'[u] \in {off[u], off[u] + n}
    /\ \A v \in Users : v # u => off'[v] = off[v]

LEMMA AdvanceOffIs ==
    ASSUME TypeOK, NEW u \in Users, NEW n \in Nat, AdvanceOff(u, n)
    PROVE  off' \in [Users -> Nat] /\ OffMoved(u, n)
  BY TypeFacts DEF AdvanceOff, OffMoved

LEMMA AdvanceIs ==
    ASSUME TypeOK, NEW u \in Users, Grasp(u), usr[u].pc = "chunk", NEW n \in Nat,
           Step(u, Advance(usr[u], n))
    PROVE  usr' \in [Users -> UserRec] /\ Others(u) /\ Advanced(u, n)
  <1>1. usr[u] \in UserRec
    BY TypeFacts
  <1>2. PICK s \in Nat : /\ s = usr[u].start + ChunkCount(usr[u])
                         /\ s = IF Last(usr[u].cur) < usr[u].end
                                THEN Last(usr[u].cur) + 1 ELSE usr[u].end + 1
    BY <1>1, ChunkIs DEF Grasp
  <1>3. PICK c \in Nat : c = usr[u].copied + n
    BY <1>1 DEF UserRec
  <1>4. PICK q : q = [usr[u] EXCEPT !.copied = c, !.pc = "next", !.start = s]
    OBVIOUS
  <1>5. Advance(usr[u], n) = q
    BY <1>2, <1>3, <1>4, Zenon DEF Advance
  <1>6. q \in UserRec
    BY <1>1, <1>4 DEF UserRec
  <1>7. SameCall(q, usr[u]) /\ q.pc = "next" /\ q.cur = usr[u].cur /\ q.copied = c /\ q.start = s
    BY <1>1, <1>4 DEF UserRec, SameCall
  <1>8. usr' \in [Users -> UserRec] /\ usr'[u] = q /\ Others(u)
    BY <1>5, <1>6, StepIs, TypeFacts DEF Others
  <1> QED
    BY <1>2, <1>3, <1>7, <1>8 DEF Advanced

LEMMA GiveUpIs ==
    ASSUME TypeOK, NEW u \in Users, Step(u, [usr[u] EXCEPT !.pc = "scanned"])
    PROVE  usr' \in [Users -> UserRec] /\ Others(u) /\ GaveUp(u)
  <1>1. usr[u] \in UserRec
    BY TypeFacts
  <1>2. PICK q : q = [usr[u] EXCEPT !.pc = "scanned"]
    OBVIOUS
  <1>3. q \in UserRec /\ SameCall(q, usr[u]) /\ q.pc = "scanned" /\ q.cur = usr[u].cur
        /\ q.copied = usr[u].copied /\ q.start = usr[u].start
    BY <1>1, <1>2 DEF UserRec, SameCall
  <1>4. usr' \in [Users -> UserRec] /\ usr'[u] = q /\ Others(u)
    BY <1>2, <1>3, StepIs, TypeFacts DEF Others
  <1> QED
    BY <1>3, <1>4 DEF GaveUp

LEMMA ReadChunkIs ==
    ASSUME TypeOK, NEW u \in Users, Grasp(u), ReadChunk(u)
    PROVE  /\ usr[u].pc = "chunk" /\ usr[u].op = "read" /\ Others(u)
           /\ \/ IOErrors /\ GaveUp(u) /\ OffMoved(u, 0)
              \/ LET n == PreadCount(dev[usr[u].cur.place], Position(usr[u]), ChunkCount(usr[u]))
                 IN  Advanced(u, n) /\ OffMoved(u, n)
           /\ UNCHANGED <<dev, tree, next, treelock, isize, role>>
           /\ TypeOK'
  <1>1. usr[u].pc = "chunk" /\ usr[u].op = "read"
        /\ UNCHANGED <<dev, tree, next, treelock, isize, placed, role, ops>>
    BY DEF ReadChunk, At, index
  <1>2. /\ usr[u] \in UserRec /\ usr[u].cur \in Node
        /\ ChunkCount(usr[u]) \in Nat /\ Position(usr[u]) \in Int
    BY <1>1, ChunkIs, TypeFacts DEF Grasp
  <1>3. dev[usr[u].cur.place] \in Seq(Values)
    BY <1>2, TypeFacts DEF Node
  <1>4. PICK c \in Nat :
            c = PreadCount(dev[usr[u].cur.place], Position(usr[u]), ChunkCount(usr[u]))
    BY <1>2, <1>3, PreadIs
  <1>5. PICK n \in Results(c) :
            /\ Step(u, IF n < 0 THEN [usr[u] EXCEPT !.pc = "scanned"] ELSE Advance(usr[u], n))
            /\ AdvanceOff(u, Max({0, n}))
    BY <1>4, Zenon DEF ReadChunk
  <1>6. n = c \/ (IOErrors /\ n = -1)
    BY SizesAssumption DEF Results
  <1>7. CASE n = c
    <2>1. Max({0, n}) = c
      BY <1>7, MaxOfTwo
    <2>2. Step(u, Advance(usr[u], c))
      BY <1>5, <1>7
    <2>3. usr' \in [Users -> UserRec] /\ Others(u) /\ Advanced(u, c)
      BY <1>1, <2>2, AdvanceIs
    <2>4. off' \in [Users -> Nat] /\ OffMoved(u, c)
      BY <1>5, <2>1, AdvanceOffIs
    <2>5. TypeOK'
      BY <1>1, <2>3, <2>4, TypeFacts, TypeNext
    <2> QED
      BY <1>1, <1>4, <2>3, <2>4, <2>5
  <1>8. CASE IOErrors /\ n = -1
    <2>1. Max({0, n}) = 0
      BY <1>8, MaxOfTwo
    <2>2. Step(u, [usr[u] EXCEPT !.pc = "scanned"])
      BY <1>5, <1>8
    <2>3. usr' \in [Users -> UserRec] /\ Others(u) /\ GaveUp(u)
      BY <2>2, GiveUpIs
    <2>4. off' \in [Users -> Nat] /\ OffMoved(u, 0)
      BY <1>5, <2>1, AdvanceOffIs
    <2>5. TypeOK'
      BY <1>1, <2>3, <2>4, TypeFacts, TypeNext
    <2> QED
      BY <1>1, <1>8, <2>3, <2>4, <2>5
  <1> QED
    BY <1>6, <1>7, <1>8

(* n bytes are written at pos of the physical file on d. *)
Wrote(d, pos, n, v) == dev' = [dev EXCEPT ![d] = Pwrite(dev[d], pos, n, v)]

LEMMA WroteIs ==
    ASSUME TypeOK, NEW d \in Devices, NEW pos \in Int, NEW n \in Nat, NEW v \in Values,
           Wrote(d, pos, n, v)
    PROVE  /\ dev' \in [Devices -> Seq(Values)]
           /\ \A e \in Devices : e # d => dev'[e] = dev[e]
           /\ dev'[d] = Pwrite(dev[d], pos, n, v)
           /\ Len(dev'[d]) = IF Len(dev[d]) >= pos + n THEN Len(dev[d]) ELSE pos + n
  <1>1. dev[d] \in Seq(Values)
    BY TypeFacts
  <1>2. /\ Pwrite(dev[d], pos, n, v) \in Seq(Values)
        /\ Len(Pwrite(dev[d], pos, n, v)) = IF Len(dev[d]) >= pos + n THEN Len(dev[d]) ELSE pos + n
    BY <1>1, PwriteIs
  <1>3. PICK w \in Seq(Values) : w = Pwrite(dev[d], pos, n, v)
    BY <1>2
  <1>4. dev' = [dev EXCEPT ![d] = w]
    BY <1>3 DEF Wrote
  <1>5. dev' \in [Devices -> Seq(Values)] /\ dev'[d] = w /\ \A e \in Devices : e # d => dev'[e] = dev[e]
    BY <1>4, TypeFacts
  <1> QED
    BY <1>2, <1>3, <1>5

LEMMA WriteChunkIs ==
    ASSUME TypeOK, NEW u \in Users, Grasp(u), WriteChunk(u)
    PROVE  /\ usr[u].pc = "chunk" /\ usr[u].op # "read" /\ Others(u)
           /\ \/ IOErrors /\ GaveUp(u) /\ OffMoved(u, 0) /\ dev' = dev
              \/ /\ Advanced(u, ChunkCount(usr[u])) /\ OffMoved(u, ChunkCount(usr[u]))
                 /\ Wrote(usr[u].cur.place, Position(usr[u]), ChunkCount(usr[u]), usr[u].val)
           /\ UNCHANGED <<tree, next, treelock, isize, role>>
           /\ TypeOK'
  <1>1. usr[u].pc = "chunk" /\ usr[u].op # "read"
        /\ UNCHANGED <<tree, next, treelock, isize, placed, role, ops>>
    BY DEF WriteChunk, At, index
  <1>2. /\ usr[u] \in UserRec /\ usr[u].cur \in Node
        /\ ChunkCount(usr[u]) \in Nat /\ Position(usr[u]) \in Int
    BY <1>1, ChunkIs, TypeFacts DEF Grasp
  <1>3. usr[u].cur.place \in Devices /\ usr[u].val \in Values
    BY <1>2 DEF Node, UserRec
  <1>4. PICK c \in Nat : c = ChunkCount(usr[u])
    BY <1>2
  <1>5. PICK n \in Results(c) :
            /\ dev' = IF n < 0 THEN dev
                      ELSE [dev EXCEPT ![usr[u].cur.place] =
                              Pwrite(dev[usr[u].cur.place], Position(usr[u]), n, usr[u].val)]
            /\ Step(u, IF n < 0 THEN [usr[u] EXCEPT !.pc = "scanned"] ELSE Advance(usr[u], n))
            /\ AdvanceOff(u, Max({0, n}))
    BY <1>4, Zenon DEF WriteChunk
  <1>6. n = c \/ (IOErrors /\ n = -1)
    BY SizesAssumption DEF Results
  <1>7. CASE n = c
    <2>1. Max({0, n}) = c
      BY <1>7, MaxOfTwo
    <2>2. Step(u, Advance(usr[u], c)) /\ Wrote(usr[u].cur.place, Position(usr[u]), c, usr[u].val)
      BY <1>5, <1>7 DEF Wrote
    <2>3. usr' \in [Users -> UserRec] /\ Others(u) /\ Advanced(u, c)
      BY <1>1, <2>2, AdvanceIs
    <2>4. off' \in [Users -> Nat] /\ OffMoved(u, c)
      BY <1>5, <2>1, AdvanceOffIs
    <2>5. dev' \in [Devices -> Seq(Values)]
      BY <1>2, <1>3, <2>2, WroteIs
    <2>6. TypeOK'
      BY <1>1, <2>3, <2>4, <2>5, TypeFacts, TypeNext
    <2> QED
      BY <1>1, <1>4, <2>2, <2>3, <2>4, <2>6
  <1>8. CASE IOErrors /\ n = -1
    <2>1. Max({0, n}) = 0
      BY <1>8, MaxOfTwo
    <2>2. Step(u, [usr[u] EXCEPT !.pc = "scanned"]) /\ dev' = dev
      BY <1>5, <1>8
    <2>3. usr' \in [Users -> UserRec] /\ Others(u) /\ GaveUp(u)
      BY <2>2, GiveUpIs
    <2>4. off' \in [Users -> Nat] /\ OffMoved(u, 0)
      BY <1>5, <2>1, AdvanceOffIs
    <2>5. TypeOK'
      BY <1>1, <2>2, <2>3, <2>4, TypeFacts, TypeNext
    <2> QED
      BY <1>1, <1>8, <2>2, <2>3, <2>4, <2>5
  <1> QED
    BY <1>6, <1>7, <1>8

LEMMA UnlockedIs ==
    ASSUME TypeOK, NEW u \in Users, Unlocked(u)
    PROVE  Freed(u) /\ treelock' \in [readers : SUBSET Users, writer : SUBSET Users]
  BY TypeFacts DEF Unlocked, Freed

LEMMA ScannedIs ==
    ASSUME TypeOK, NEW u \in Users, Scanned(u)
    PROVE  /\ usr[u].pc = "scanned" /\ Others(u)
           /\ IF usr[u].op = "append" THEN treelock' = treelock ELSE Freed(u)
           /\ \/ usr[u].op = "read" /\ usr'[u] = IdleUser
              \/ /\ usr[u].op # "read" /\ SameCall(usr'[u], usr[u]) /\ usr'[u].pc = "fill"
                 /\ usr'[u].cur = None /\ usr'[u].copied = usr[u].copied
                 /\ usr'[u].start = usr[u].start
           /\ UNCHANGED <<dev, tree, next, isize, off, role>>
           /\ TypeOK'
  <1>1. /\ usr[u].pc = "scanned"
        /\ UNCHANGED <<dev, tree, next, isize, placed, off, role, ops>>
    BY DEF Scanned, At, index
  <1>2. /\ treelock' \in [readers : SUBSET Users, writer : SUBSET Users]
        /\ IF usr[u].op = "append" THEN treelock' = treelock ELSE Freed(u)
    <2>1. CASE usr[u].op = "append"
      BY <2>1, TypeFacts DEF Scanned
    <2>2. CASE usr[u].op # "append"
      BY <2>2, UnlockedIs DEF Scanned
    <2> QED
      BY <2>1, <2>2
  <1>3. usr[u] \in UserRec
    BY TypeFacts
  <1>4. CASE usr[u].op = "read"
    <2>1. usr' \in [Users -> UserRec] /\ usr'[u] = IdleUser /\ Others(u)
      BY <1>4, IdleType, StepIs, TypeFacts DEF Scanned, Others
    <2>2. TypeOK'
      BY <1>1, <1>2, <2>1, TypeFacts, TypeNext
    <2> QED
      BY <1>1, <1>2, <1>4, <2>1, <2>2
  <1>5. CASE usr[u].op # "read"
    <2>1. PICK q : q = [usr[u] EXCEPT !.pc = "fill", !.cur = None]
      OBVIOUS
    <2>2. q \in UserRec
      BY <1>3, <2>1 DEF UserRec
    <2>3. SameCall(q, usr[u]) /\ q.pc = "fill" /\ q.cur = None /\ q.copied = usr[u].copied
          /\ q.start = usr[u].start
      BY <1>3, <2>1 DEF UserRec, SameCall
    <2>4. usr' \in [Users -> UserRec] /\ usr'[u] = q /\ Others(u)
      BY <1>5, <2>1, <2>2, StepIs, TypeFacts DEF Scanned, Others
    <2>5. TypeOK'
      BY <1>1, <1>2, <2>4, TypeFacts, TypeNext
    <2> QED
      BY <1>1, <1>2, <1>5, <2>3, <2>4, <2>5
  <1> QED
    BY <1>4, <1>5

LEMMA NewNodeIs ==
    ASSUME TypeOK, NEW from \in Nat, NEW d \in Devices
    PROVE  /\ NewNode(from, d) \in Node /\ NewNode(from, d).place = d
           /\ NewNode(from, d).start = from - (from % NodeSize)
           /\ NewNode(from, d).offset = Ceiling(Len(dev[d]))
  <1>1. NodeSize \in Nat \ {0}
    BY SizesAssumption
  <1>2. Len(dev[d]) \in Nat
    BY TypeFacts
  <1>3. Ceiling(Len(dev[d])) \in Nat
    BY <1>2, CeilingIs
  <1>4. from - (from % NodeSize) \in Nat
    <2>1. /\ from \div NodeSize \in Nat /\ from % NodeSize \in 0 .. (NodeSize - 1)
          /\ from = (from \div NodeSize) * NodeSize + (from % NodeSize)
      BY <1>1, Remainder
    <2>2. (from \div NodeSize) * NodeSize \in Nat
      BY <1>1, <2>1
    <2> QED
      BY <1>1, <2>1, <2>2
  <1> QED
    BY <1>3, <1>4 DEF NewNode, Node

(* The loop that fills a range: a node is made, or the loop ends. *)
LEMMA AllocateIs ==
    ASSUME TypeOK, NEW u \in Users, Allocate(u)
    PROVE  /\ usr[u].pc = "fill" /\ Others(u) /\ SameCall(usr'[u], usr[u])
           /\ usr'[u].copied = usr[u].copied /\ usr'[u].start = usr[u].start
           /\ next' >= next
           /\ \/ /\ usr[u].start < usr[u].end /\ NodesLeft /\ usr'[u].pc = "new"
                 /\ \E d \in Devices : usr'[u].cur = NewNode(usr[u].start, d)
              \/ /\ usr[u].start < usr[u].end => ~ NodesLeft
                 /\ usr'[u].pc = "size" /\ usr'[u].cur = usr[u].cur
           /\ UNCHANGED <<dev, tree, treelock, isize, off, role>>
           /\ TypeOK'
  <1>1. /\ usr[u].pc = "fill"
        /\ UNCHANGED <<dev, tree, treelock, isize, placed, off, role, ops>>
    BY DEF Allocate, At
  <1>2. usr[u] \in UserRec /\ usr[u].start \in Nat /\ usr[u].end \in Int
    BY TypeFacts DEF UserRec
  <1>3. next' \in Nat /\ next' >= next
    <2>1. next \in Nat
      BY TypeFacts
    <2>2. next' = next + 1 \/ next' = next
      BY Zenon DEF Allocate
    <2> QED
      BY <2>1, <2>2
  <1>4. CASE /\ usr[u].start < usr[u].end /\ NodesLeft
             /\ \E d \in Devices :
                   Step(u, [usr[u] EXCEPT !.pc = "new", !.cur = NewNode(usr[u].start, d)])
    <2>1. PICK d \in Devices :
              Step(u, [usr[u] EXCEPT !.pc = "new", !.cur = NewNode(usr[u].start, d)])
      BY <1>4
    <2>2. PICK m \in Node : m = NewNode(usr[u].start, d)
      BY <1>2, NewNodeIs
    <2>3. PICK q : q = [usr[u] EXCEPT !.pc = "new", !.cur = m]
      OBVIOUS
    <2>4. q \in UserRec
      BY <1>2, <2>3 DEF UserRec
    <2>5. SameCall(q, usr[u]) /\ q.pc = "new" /\ q.cur = m /\ q.copied = usr[u].copied
          /\ q.start = usr[u].start
      BY <1>2, <2>3 DEF UserRec, SameCall
    <2>6. Step(u, q)
      BY <2>1, <2>2, <2>3
    <2>7. usr' \in [Users -> UserRec] /\ usr'[u] = q /\ Others(u)
      BY <2>4, <2>6, StepIs, TypeFacts DEF Others
    <2>8. TypeOK'
      BY <1>1, <1>3, <2>7, TypeFacts, TypeNext
    <2> QED
      BY <1>1, <1>3, <1>4, <2>2, <2>5, <2>7, <2>8
  <1>5. CASE /\ usr[u].start < usr[u].end => ~ NodesLeft
             /\ Step(u, [usr[u] EXCEPT !.pc = "size"])
    <2>1. PICK q : q = [usr[u] EXCEPT !.pc = "size"]
      OBVIOUS
    <2>2. q \in UserRec
      BY <1>2, <2>1 DEF UserRec
    <2>3. SameCall(q, usr[u]) /\ q.pc = "size" /\ q.cur = usr[u].cur /\ q.copied = usr[u].copied
          /\ q.start = usr[u].start
      BY <1>2, <2>1 DEF UserRec, SameCall
    <2>4. usr' \in [Users -> UserRec] /\ usr'[u] = q /\ Others(u)
      BY <1>5, <2>1, <2>2, StepIs, TypeFacts DEF Others
    <2>5. TypeOK'
      BY <1>1, <1>3, <2>4, TypeFacts, TypeNext
    <2> QED
      BY <1>1, <1>3, <1>5, <2>3, <2>4, <2>5
  <1> QED
    <2>1. \/ /\ usr[u].start < usr[u].end /\ NodesLeft
             /\ \E d \in Devices :
                   Step(u, [usr[u] EXCEPT !.pc = "new", !.cur = NewNode(usr[u].start, d)])
          \/ /\ usr[u].start < usr[u].end /\ ~ NodesLeft
             /\ Step(u, [usr[u] EXCEPT !.pc = "size"])
          \/ /\ usr[u].start >= usr[u].end
             /\ Step(u, [usr[u] EXCEPT !.pc = "size"])
      BY Zenon DEF Allocate
    <2>2. usr[u].start >= usr[u].end => ~ (usr[u].start < usr[u].end)
      BY <1>2
    <2> QED
      BY <1>4, <1>5, <2>1, <2>2, Zenon

LEMMA NewCountIs ==
    ASSUME NEW r \in UserRec, r.start < r.end
    PROVE  /\ NewCount(r) \in Nat \ {0}
           /\ NewCount(r) = IF r.end - r.start + 1 <= NodeSize THEN r.end - r.start + 1 ELSE NodeSize
  <1>1. NodeSize \in Nat \ {0} /\ r.start \in Nat /\ r.end \in Int /\ r.end - r.start + 1 \in Int
    BY SizesAssumption DEF UserRec
  <1>2. NewCount(r) = IF r.end - r.start + 1 <= NodeSize THEN r.end - r.start + 1 ELSE NodeSize
    BY <1>1, MinOfTwo DEF NewCount
  <1> QED
    BY <1>1, <1>2

LEMMA WriteNewIs ==
    ASSUME TypeOK, NEW u \in Users, Grasp(u), WriteNew(u)
    PROVE  /\ usr[u].pc = "new" /\ Others(u) /\ SameCall(usr'[u], usr[u])
           /\ usr'[u].pc = "insert" /\ usr'[u].cur = usr[u].cur
           /\ usr'[u].copied = usr[u].copied /\ usr'[u].start = usr[u].start
           /\ \/ IOErrors /\ dev' = dev
              \/ Wrote(usr[u].cur.place, usr[u].cur.offset, NewCount(usr[u]), usr[u].val)
           /\ UNCHANGED <<tree, next, treelock, isize, off, role>>
           /\ TypeOK'
  <1>1. /\ usr[u].pc = "new"
        /\ UNCHANGED <<tree, next, treelock, isize, placed, off, role, ops>>
    BY DEF WriteNew, At, index
  <1>2. /\ usr[u] \in UserRec /\ usr[u].cur \in Node /\ usr[u].cur.place \in Devices
        /\ usr[u].val \in Values /\ usr[u].cur.offset \in Nat /\ usr[u].start < usr[u].end
    BY <1>1, TypeFacts DEF Grasp, UserRec, Node
  <1>3. PICK c \in Nat : c = NewCount(usr[u])
    BY <1>2, NewCountIs
  <1>4. PICK n \in Results(c) :
            dev' = IF n < 0 THEN dev
                   ELSE [dev EXCEPT ![usr[u].cur.place] =
                           Pwrite(dev[usr[u].cur.place], usr[u].cur.offset, n, usr[u].val)]
    BY <1>3, Zenon DEF WriteNew
  <1>5. n = c \/ (IOErrors /\ n = -1)
    BY SizesAssumption DEF Results
  <1>6. \/ IOErrors /\ dev' = dev
        \/ Wrote(usr[u].cur.place, usr[u].cur.offset, c, usr[u].val)
    <2>1. CASE n = c
      <3>1. ~ (n < 0)
        BY <2>1
      <3> QED
        BY <1>4, <2>1, <3>1, Zenon DEF Wrote
    <2>2. CASE IOErrors /\ n = -1
      BY <1>4, <2>2
    <2> QED
      BY <1>5, <2>1, <2>2
  <1>7. dev' \in [Devices -> Seq(Values)]
    <2>1. CASE dev' = dev
      BY <2>1, TypeFacts
    <2>2. CASE Wrote(usr[u].cur.place, usr[u].cur.offset, c, usr[u].val)
      BY <1>2, <2>2, WroteIs
    <2> QED
      BY <1>6, <2>1, <2>2
  <1>8. PICK q : q = [usr[u] EXCEPT !.pc = "insert"]
    OBVIOUS
  <1>9. q \in UserRec
    BY <1>2, <1>8 DEF UserRec
  <1>10. SameCall(q, usr[u]) /\ q.pc = "insert" /\ q.cur = usr[u].cur
         /\ q.copied = usr[u].copied /\ q.start = usr[u].start
    BY <1>2, <1>8 DEF UserRec, SameCall
  <1>11. usr' \in [Users -> UserRec] /\ usr'[u] = q /\ Others(u)
    BY <1>8, <1>9, StepIs, TypeFacts DEF WriteNew, Others
  <1>12. TypeOK'
    BY <1>1, <1>7, <1>11, TypeFacts, TypeNext
  <1> QED
    BY <1>1, <1>3, <1>6, <1>10, <1>11, <1>12

LEMMA InsertNodeIs ==
    ASSUME TypeOK, NEW u \in Users, Grasp(u), InsertNode(u)
    PROVE  /\ usr[u].pc = "insert" /\ Others(u) /\ SameCall(usr'[u], usr[u])
           /\ treelock.readers = {} /\ treelock.writer \subseteq {u}
           /\ tree' = Append(tree, usr[u].cur)
           /\ usr'[u].pc = "fill" /\ usr'[u].cur = None
           /\ usr'[u].copied = usr[u].copied + NewCount(usr[u])
           /\ usr'[u].start = usr[u].start + NewCount(usr[u])
           /\ OffMoved(u, NewCount(usr[u]))
           /\ UNCHANGED <<dev, next, treelock, isize, role>>
           /\ TypeOK'
  <1>1. /\ usr[u].pc = "insert" /\ treelock.readers = {} /\ treelock.writer \subseteq {u}
        /\ tree' = Append(tree, usr[u].cur)
        /\ UNCHANGED <<dev, next, treelock, isize, placed, role, ops>>
    BY DEF InsertNode, At, MayWrite
  <1>2. /\ usr[u] \in UserRec /\ usr[u].cur \in Node /\ usr[u].start \in Nat
        /\ usr[u].copied \in Nat /\ usr[u].start < usr[u].end
    BY <1>1, TypeFacts DEF Grasp, UserRec
  <1>3. PICK n \in Nat : n = NewCount(usr[u])
    BY <1>2, NewCountIs
  <1>4. PICK c \in Nat : c = usr[u].copied + n
    BY <1>2
  <1>5. PICK s \in Nat : s = usr[u].start + n
    BY <1>2
  <1>6. PICK q : q = [usr[u] EXCEPT !.pc = "fill", !.cur = None, !.copied = c, !.start = s]
    OBVIOUS
  <1>7. q \in UserRec
    BY <1>2, <1>6 DEF UserRec
  <1>8. SameCall(q, usr[u]) /\ q.pc = "fill" /\ q.cur = None /\ q.copied = c /\ q.start = s
    BY <1>2, <1>6 DEF UserRec, SameCall
  <1>9. Step(u, q) /\ AdvanceOff(u, n)
    BY <1>3, <1>4, <1>5, <1>6 DEF InsertNode
  <1>10. usr' \in [Users -> UserRec] /\ usr'[u] = q /\ Others(u)
    BY <1>7, <1>9, StepIs, TypeFacts DEF Others
  <1>11. off' \in [Users -> Nat] /\ OffMoved(u, n)
    BY <1>9, AdvanceOffIs
  <1>12. tree' \in Seq(Node)
    BY <1>1, <1>2, TypeFacts
  <1>13. TypeOK'
    BY <1>1, <1>10, <1>11, <1>12, TypeFacts, TypeNext
  <1> QED
    BY <1>1, <1>3, <1>4, <1>5, <1>8, <1>10, <1>11, <1>13

LEMMA SizeAppendIs ==
    ASSUME TypeOK, NEW u \in Users, SizeAppend(u)
    PROVE  /\ usr[u].pc = "size" /\ usr[u].op = "append" /\ Others(u)
           /\ usr'[u] = IdleUser /\ Freed(u)
           /\ isize' = IF usr[u].end + 1 >= isize THEN usr[u].end + 1 ELSE isize
           /\ UNCHANGED <<dev, tree, next, off, role>>
           /\ TypeOK'
  <1>1. /\ usr[u].pc = "size" /\ usr[u].op = "append"
        /\ UNCHANGED <<dev, tree, next, placed, off, role, ops>>
    BY DEF SizeAppend, At, index
  <1>2. usr[u].end \in Int /\ isize \in Nat
    BY TypeFacts DEF UserRec
  <1>3. isize' = IF usr[u].end + 1 >= isize THEN usr[u].end + 1 ELSE isize
    <2>1. PICK e \in Int : e = usr[u].end + 1
      BY <1>2
    <2>2. isize' = Max({e, isize}) /\ isize \in Int
      BY <1>2, <2>1 DEF SizeAppend
    <2> QED
      BY <2>1, <2>2, MaxOfTwo
  <1>4. isize' \in Nat
    BY <1>2, <1>3
  <1>5. Freed(u) /\ treelock' \in [readers : SUBSET Users, writer : SUBSET Users]
    BY UnlockedIs DEF SizeAppend
  <1>6. usr' \in [Users -> UserRec] /\ usr'[u] = IdleUser /\ Others(u)
    BY IdleType, StepIs, TypeFacts DEF SizeAppend, Others
  <1>7. TypeOK'
    BY <1>1, <1>4, <1>5, <1>6, TypeFacts, TypeNext
  <1> QED
    BY <1>1, <1>3, <1>5, <1>6, <1>7

LEMMA LoadSizeIs ==
    ASSUME TypeOK, NEW u \in Users, LoadSize(u)
    PROVE  /\ usr[u].pc = "size" /\ usr[u].op = "write" /\ Others(u)
           /\ usr'[u].pc = "store" /\ usr'[u].snap = isize /\ usr'[u].op = "write"
           /\ usr'[u].count = usr[u].count /\ usr'[u].lo = usr[u].lo
           /\ usr'[u].end = usr[u].end /\ usr'[u].remain = usr[u].remain
           /\ usr'[u].start = usr[u].start /\ usr'[u].copied = usr[u].copied
           /\ usr'[u].val = usr[u].val /\ usr'[u].cur = usr[u].cur
           /\ UNCHANGED <<dev, tree, next, treelock, isize, off, role>>
           /\ TypeOK'
  <1>1. /\ usr[u].pc = "size" /\ usr[u].op = "write"
        /\ UNCHANGED <<dev, tree, next, treelock, isize, placed, off, role, ops>>
    BY DEF LoadSize, At, index
  <1>2. usr[u] \in UserRec /\ isize \in Nat
    BY TypeFacts
  <1>3. PICK q : q = [usr[u] EXCEPT !.pc = "store", !.snap = isize]
    OBVIOUS
  <1>4. q \in UserRec
    BY <1>2, <1>3 DEF UserRec
  <1>5. /\ q.pc = "store" /\ q.snap = isize /\ q.op = usr[u].op
        /\ q.count = usr[u].count /\ q.lo = usr[u].lo
        /\ q.end = usr[u].end /\ q.remain = usr[u].remain
        /\ q.start = usr[u].start /\ q.copied = usr[u].copied
        /\ q.val = usr[u].val /\ q.cur = usr[u].cur
    BY <1>2, <1>3 DEF UserRec
  <1>6. usr' \in [Users -> UserRec] /\ usr'[u] = q /\ Others(u)
    BY <1>3, <1>4, StepIs, TypeFacts DEF LoadSize, Others
  <1>7. TypeOK'
    BY <1>1, <1>6, TypeFacts, TypeNext
  <1> QED
    BY <1>1, <1>5, <1>6, <1>7

LEMMA StoreSizeIs ==
    ASSUME TypeOK, NEW u \in Users, StoreSize(u)
    PROVE  /\ usr[u].pc = "store" /\ Others(u)
           /\ isize' = IF usr[u].end + 1 >= usr[u].snap THEN usr[u].end + 1 ELSE usr[u].snap
           /\ \/ ~ (usr[u].remain > 0) /\ usr'[u] = IdleUser
              \/ /\ usr[u].remain > 0 /\ SameCall(usr'[u], usr[u]) /\ usr'[u].pc = "more"
                 /\ usr'[u].start = usr[u].start /\ usr'[u].cur = usr[u].cur
           /\ UNCHANGED <<dev, tree, next, treelock, off, role>>
           /\ TypeOK'
  <1>1. /\ usr[u].pc = "store"
        /\ UNCHANGED <<dev, tree, next, treelock, placed, off, role, ops>>
    BY DEF StoreSize, At, index
  <1>2. usr[u] \in UserRec /\ usr[u].end \in Int /\ usr[u].snap \in Nat
    BY TypeFacts DEF UserRec
  <1>3. isize' = IF usr[u].end + 1 >= usr[u].snap THEN usr[u].end + 1 ELSE usr[u].snap
    <2>1. PICK e \in Int : e = usr[u].end + 1
      BY <1>2
    <2>2. isize' = Max({e, usr[u].snap}) /\ usr[u].snap \in Int
      BY <1>2, <2>1 DEF StoreSize
    <2> QED
      BY <2>1, <2>2, MaxOfTwo
  <1>4. isize' \in Nat
    BY <1>2, <1>3
  <1>5. CASE ~ (usr[u].remain > 0)
    <2>1. usr' \in [Users -> UserRec] /\ usr'[u] = IdleUser /\ Others(u)
      BY <1>5, IdleType, StepIs, TypeFacts DEF StoreSize, Others
    <2>2. TypeOK'
      BY <1>1, <1>4, <2>1, TypeFacts, TypeNext
    <2> QED
      BY <1>1, <1>3, <1>5, <2>1, <2>2
  <1>6. CASE usr[u].remain > 0
    <2>1. PICK q : q = [usr[u] EXCEPT !.pc = "more"]
      OBVIOUS
    <2>2. q \in UserRec
      BY <1>2, <2>1 DEF UserRec
    <2>3. SameCall(q, usr[u]) /\ q.pc = "more" /\ q.start = usr[u].start /\ q.cur = usr[u].cur
      BY <1>2, <2>1 DEF UserRec, SameCall
    <2>4. usr' \in [Users -> UserRec] /\ usr'[u] = q /\ Others(u)
      BY <1>6, <2>1, <2>2, StepIs, TypeFacts DEF StoreSize, Others
    <2>5. TypeOK'
      BY <1>1, <1>4, <2>4, TypeFacts, TypeNext
    <2> QED
      BY <1>1, <1>3, <1>6, <2>3, <2>4, <2>5
  <1> QED
    BY <1>5, <1>6

-----------------------------------------------------------------------------
(* The types, for any use of the file and with or without errors. *)

LEMMA WalkedGrasp ==
    ASSUME TypeOK, NEW u \in Users, NEW r \in UserRec, Walked(usr'[u], r)
    PROVE  Grasp(u)'
  <1>1. CASE Lookup(r.start, r.end) = None
    BY <1>1 DEF Grasp, Walked
  <1>2. CASE Lookup(r.start, r.end) # None
    <2>1. PICK n : n = Lookup(r.start, r.end)
      OBVIOUS
    <2>2. /\ n \in Node /\ r.start <= Last(n) /\ r.start <= r.end
      BY <1>2, <2>1, LookupType, TypeFacts DEF UserRec
    <2>3. usr'[u].pc = "chunk" /\ usr'[u].cur = n /\ usr'[u].start = r.start /\ usr'[u].end = r.end
      BY <1>2, <2>1 DEF Walked, SameCall
    <2> QED
      BY <2>2, <2>3 DEF Grasp, Last
  <1> QED
    BY <1>1, <1>2

LEMMA OthersGrasp ==
    ASSUME TInv, NEW u \in Users, Others(u), Grasp(u)'
    PROVE  \A v \in Users : Grasp(v)'
  <1>1. ASSUME NEW v \in Users, v # u
        PROVE  Grasp(v)'
    BY <1>1 DEF TInv, Grasp, Others, Last
  <1> QED
    BY <1>1

LEMMA TypeStep ==
    ASSUME TInv, [Next]_vars
    PROVE  TInv'
  <1>0. TypeOK /\ \A v \in Users : Grasp(v)
    BY DEF TInv
  <1>1. CASE UNCHANGED vars
    BY <1>0, <1>1 DEF TInv, TypeOK, Grasp, vars, Last
  <1>2. ASSUME NEW u \in Users, ReadCall(u)
        PROVE  TInv'
    <2>1. TypeOK' /\ Others(u) /\ usr'[u].pc = "lock"
      BY <1>0, <1>2, ReadCallIs DEF Began
    <2> QED
      BY <2>1, OthersGrasp DEF TInv, Grasp
  <1>3. ASSUME NEW u \in Users, WriteCall(u)
        PROVE  TInv'
    <2>1. TypeOK' /\ Others(u) /\ usr'[u].pc = "lock"
      BY <1>0, <1>3, WriteCallIs DEF Began
    <2> QED
      BY <2>1, OthersGrasp DEF TInv, Grasp
  <1>4. ASSUME NEW u \in Users, TruncateCall(u)
        PROVE  TInv'
    <2>1. TypeOK' /\ Others(u) /\ usr'[u].pc = "more"
      BY <1>0, <1>4, TruncateCallIs
    <2> QED
      BY <2>1, OthersGrasp DEF TInv, Grasp
  <1>5. ASSUME NEW u \in Users, polystore_lseek(u)
        PROVE  TInv'
    BY <1>0, <1>5, SeekIs DEF TInv, Grasp, Last
  <1>6. ASSUME NEW u \in Users, NextChunk(u)
        PROVE  TInv'
    <2>1. TypeOK' /\ Others(u) /\ usr'[u].pc = "lock"
      BY <1>0, <1>6, NextChunkIs
    <2> QED
      BY <2>1, OthersGrasp DEF TInv, Grasp
  <1>7. ASSUME NEW u \in Users, LockRead(u)
        PROVE  TInv'
    <2>1. TypeOK' /\ Others(u) /\ Walked(usr'[u], usr[u]) /\ usr[u] \in UserRec
      BY <1>0, <1>7, LockReadIs, TypeFacts
    <2> QED
      BY <1>0, <2>1, WalkedGrasp, OthersGrasp DEF TInv
  <1>8. ASSUME NEW u \in Users, LockWrite(u)
        PROVE  TInv'
    <2>1. TypeOK' /\ Others(u) /\ \E r \in UserRec : Walked(usr'[u], r)
      BY <1>0, <1>8, LockWriteIs
    <2> QED
      BY <1>0, <2>1, WalkedGrasp, OthersGrasp DEF TInv
  <1>9. ASSUME NEW u \in Users, NextNode(u)
        PROVE  TInv'
    <2>1. TypeOK' /\ Others(u) /\ Walked(usr'[u], usr[u]) /\ usr[u] \in UserRec
      BY <1>0, <1>9, NextNodeIs, TypeFacts
    <2> QED
      BY <1>0, <2>1, WalkedGrasp, OthersGrasp DEF TInv
  <1>10. ASSUME NEW u \in Users, ReadChunk(u)
         PROVE  TInv'
    <2>1. TypeOK' /\ Others(u) /\ usr'[u].pc \in {"next", "scanned"}
      BY <1>0, <1>10, ReadChunkIs DEF Advanced, GaveUp
    <2> QED
      BY <2>1, OthersGrasp DEF TInv, Grasp
  <1>11. ASSUME NEW u \in Users, WriteChunk(u)
         PROVE  TInv'
    <2>1. TypeOK' /\ Others(u) /\ usr'[u].pc \in {"next", "scanned"}
      BY <1>0, <1>11, WriteChunkIs DEF Advanced, GaveUp
    <2> QED
      BY <2>1, OthersGrasp DEF TInv, Grasp
  <1>12. ASSUME NEW u \in Users, Scanned(u)
         PROVE  TInv'
    <2>1. TypeOK' /\ Others(u) /\ usr'[u].pc \in {"idle", "fill"}
      BY <1>0, <1>12, ScannedIs DEF IdleUser
    <2> QED
      BY <2>1, OthersGrasp DEF TInv, Grasp
  <1>13. ASSUME NEW u \in Users, Allocate(u)
         PROVE  TInv'
    <2>1. TypeOK' /\ Others(u) /\ usr'[u].start = usr[u].start /\ usr'[u].end = usr[u].end
          /\ \/ usr'[u].pc = "size"
             \/ /\ usr'[u].pc = "new" /\ usr[u].start < usr[u].end
                /\ \E d \in Devices : usr'[u].cur = NewNode(usr[u].start, d)
      BY <1>0, <1>13, AllocateIs DEF SameCall
    <2>2. usr[u].start \in Nat
      BY <1>0, TypeFacts DEF UserRec
    <2>3. usr'[u].pc = "size" \/ (usr'[u].pc = "new" /\ usr'[u].cur \in Node
                                  /\ usr'[u].start < usr'[u].end)
      BY <1>0, <2>1, <2>2, NewNodeIs
    <2>4. Grasp(u)'
      BY <2>3 DEF Grasp
    <2> QED
      BY <2>1, <2>4, OthersGrasp DEF TInv
  <1>14. ASSUME NEW u \in Users, WriteNew(u)
         PROVE  TInv'
    <2>1. TypeOK' /\ Others(u) /\ usr'[u].start = usr[u].start /\ usr'[u].end = usr[u].end
          /\ usr[u].pc = "new" /\ usr'[u].pc = "insert" /\ usr'[u].cur = usr[u].cur
      BY <1>0, <1>14, WriteNewIs DEF SameCall
    <2>2. Grasp(u)'
      BY <1>0, <2>1 DEF Grasp
    <2> QED
      BY <2>1, <2>2, OthersGrasp DEF TInv
  <1>15. ASSUME NEW u \in Users, InsertNode(u)
         PROVE  TInv'
    <2>1. TypeOK' /\ Others(u) /\ usr'[u].pc = "fill"
      BY <1>0, <1>15, InsertNodeIs
    <2> QED
      BY <2>1, OthersGrasp DEF TInv, Grasp
  <1>16. ASSUME NEW u \in Users, SizeAppend(u)
         PROVE  TInv'
    <2>1. TypeOK' /\ Others(u) /\ usr'[u].pc = "idle"
      BY <1>0, <1>16, SizeAppendIs DEF IdleUser
    <2> QED
      BY <2>1, OthersGrasp DEF TInv, Grasp
  <1>17. ASSUME NEW u \in Users, LoadSize(u)
         PROVE  TInv'
    <2>1. TypeOK' /\ Others(u) /\ usr'[u].pc = "store"
      BY <1>0, <1>17, LoadSizeIs
    <2> QED
      BY <2>1, OthersGrasp DEF TInv, Grasp
  <1>18. ASSUME NEW u \in Users, StoreSize(u)
         PROVE  TInv'
    <2>1. TypeOK' /\ Others(u) /\ usr'[u].pc \in {"idle", "more"}
      BY <1>0, <1>18, StoreSizeIs DEF IdleUser
    <2> QED
      BY <2>1, OthersGrasp DEF TInv, Grasp
  <1> QED
    BY <1>1, <1>2, <1>3, <1>4, <1>5, <1>6, <1>7, <1>8, <1>9, <1>10, <1>11, <1>12, <1>13, <1>14,
       <1>15, <1>16, <1>17, <1>18, Zenon DEF Next, UserStep, Done

LEMMA InitTInv == Init => TInv
  <1> SUFFICES ASSUME Init
               PROVE  TInv
    OBVIOUS
  <1>1. usr \in [Users -> UserRec] /\ \A u \in Users : usr[u].pc = "idle"
    BY IdleType DEF Init, IdleUser
  <1>2. dev \in [Devices -> Seq(Values)] /\ tree \in Seq(Node)
    BY DEF Init
  <1>3. ops \in 0 .. MaxOps
    BY SizesAssumption DEF Init
  <1>4. /\ next \in Nat /\ isize \in Nat /\ placed \in BOOLEAN /\ off \in [Users -> Nat]
        /\ role \in Roles /\ treelock \in [readers : SUBSET Users, writer : SUBSET Users]
    BY DEF Init
  <1>5. TypeOK
    BY <1>1, <1>2, <1>3, <1>4, TypeFacts
  <1> QED
    BY <1>1, <1>5 DEF TInv, Grasp

(* Whatever the threads do with the file, and whether calls of the file    *)
(* system fail or not, every local of io_direct.c keeps its range: no walk *)
(* goes back, no count of bytes to move is negative.                       *)
THEOREM TypeCorrect == Spec => []TypeOK
  <1>1. TInv => TypeOK
    BY DEF TInv
  <1> QED
    BY <1>1, InitTInv, TypeStep, PTL DEF Spec

-----------------------------------------------------------------------------
(* The index and the bytes behind it, as they grow. *)

LEMMA LookupShape ==
    ASSUME tree \in Seq(Node), Shape, NEW lo \in Nat, NEW hi \in Int
    PROVE  /\ Lookup(lo, hi) = None => lo > hi \/ lo >= Cover
           /\ Lookup(lo, hi) # None =>
                 /\ lo <= hi /\ lo < Cover
                 /\ \E k \in DOMAIN tree : /\ Lookup(lo, hi) = tree[k]
                                           /\ tree[k].start <= lo /\ lo <= Last(tree[k])
  <1>n. NodeSize \in Nat \ {0} /\ Cover \in Nat
    BY SizesAssumption DEF Cover
  <1>t. \A i \in DOMAIN tree : tree[i] \in Node /\ tree[i].start \in Nat /\ Last(tree[i]) \in Nat
    <2>1. \A i \in DOMAIN tree : tree[i] \in Node
      OBVIOUS
    <2>2. \A m \in Node : m.start \in Nat /\ Last(m) \in Nat
      BY <1>n DEF Node, Last
    <2> QED
      BY <2>1, <2>2
  <1>1. ASSUME lo <= hi, lo < Cover
        PROVE  /\ Lookup(lo, hi) # None
               /\ \E k \in DOMAIN tree : /\ Lookup(lo, hi) = tree[k]
                                         /\ tree[k].start <= lo /\ lo <= Last(tree[k])
    <2>1. PICK j \in DOMAIN tree : tree[j].start <= lo /\ lo <= Last(tree[j])
      BY <1>1, Covered
    <2>2. j \in Hits(lo, hi)
      BY <1>1, <1>t, <2>1 DEF Hits
    <2>3. PICK k \in Hits(lo, hi) : /\ Lookup(lo, hi) = tree[k]
                                    /\ \A i \in Hits(lo, hi) : tree[k].start <= tree[i].start
      BY <1>1, <2>2, LookupHits
    <2>4. k \in DOMAIN tree /\ lo <= Last(tree[k]) /\ tree[k].start <= tree[j].start
      BY <2>2, <2>3 DEF Hits
    <2>5. tree[k].start <= lo
      BY <1>t, <2>1, <2>4
    <2> QED
      BY <1>t, <2>3, <2>4, <2>5, NoneAssumption
  <1>2. ASSUME lo <= hi, lo >= Cover
        PROVE  Lookup(lo, hi) = None
    <2>1. ASSUME NEW k \in Hits(lo, hi)
          PROVE  FALSE
      <3>1. k \in DOMAIN tree /\ lo <= Last(tree[k])
        BY DEF Hits
      <3>2. PICK p \in Nat : p = Last(tree[k])
        BY <1>t, <3>1
      <3>3. tree[k].start <= p
        BY <1>t, <1>n, <3>1, <3>2 DEF Last
      <3>4. p < Cover
        BY <3>1, <3>2, <3>3, Covered
      <3> QED
        BY <1>n, <1>2, <3>1, <3>2, <3>4
    <2> QED
      BY <2>1, LookupHits
  <1>3. lo > hi => Lookup(lo, hi) = None
    BY DEF Lookup
  <1> QED
    BY <1>1, <1>2, <1>3, <1>n

LEMMA StoredBelow ==
    ASSUME TypeOK, NEW q \in Int, NEW p \in Int, p <= q, Stored(q)
    PROVE  Stored(p)
  <1>1. Cover \in Nat /\ \A i \in DOMAIN tree : tree[i].start \in Nat
    <2>1. tree \in Seq(Node) /\ Len(tree) \in Nat /\ NodeSize \in Nat
      BY SizesAssumption, TypeFacts
    <2>2. \A i \in DOMAIN tree : tree[i] \in Node
      BY <2>1
    <2>3. \A m \in Node : m.start \in Nat
      BY DEF Node
    <2> QED
      BY <2>1, <2>2, <2>3 DEF Cover
  <1>2. \A x \in 0 .. (NodeSize - 1) : x \in Int
    OBVIOUS
  <1> QED
    BY <1>1, <1>2 DEF Stored

(* Physical files, the tree and the numbers of nodes only grow; a node is  *)
(* inserted where the others end.                                          *)
Inserted == \E n \in Node : tree' = Append(tree, n) /\ n.start = Cover
Extends ==
    /\ \A d \in Devices : Len(dev[d]) <= Len(dev'[d])
    /\ next <= next' /\ role' = role
    /\ tree' = tree \/ Inserted

LEMMA CoverGrows ==
    ASSUME TypeOK, TypeOK', Extends
    PROVE  /\ Cover \in Nat /\ Cover' \in Nat /\ Cover <= Cover'
           /\ Inserted => Cover' = Cover + NodeSize
           /\ tree' = tree => Cover' = Cover
           /\ \A i \in DOMAIN tree : i \in DOMAIN tree' /\ tree'[i] = tree[i]
           /\ Inserted => \A i \in DOMAIN tree' : i \notin DOMAIN tree =>
                             i = Len(tree) + 1 /\ tree'[i].start = Cover
           /\ ~ NodesLeft => ~ NodesLeft'
  <1>1. /\ NodeSize \in Nat \ {0} /\ Len(tree) \in Nat /\ next \in Nat /\ next' \in Nat
        /\ IndexNr \in Nat /\ tree \in Seq(Node) /\ tree' \in Seq(Node)
        /\ Len(tree') \in Nat
    BY SizesAssumption, TypeFacts DEF TypeOK
  <1>2. Cover \in Nat /\ Cover' \in Nat
    BY <1>1 DEF Cover
  <1>3. ~ NodesLeft => ~ NodesLeft'
    BY <1>1 DEF Extends, NodesLeft
  <1>4. CASE tree' = tree
    <2>1. ~ Inserted
      BY <1>1, <1>4 DEF Inserted
    <2>2. Cover' = Cover
      BY <1>4 DEF Cover
    <2> QED
      BY <1>2, <1>3, <1>4, <2>1, <2>2
  <1>5. CASE Inserted
    <2>1. PICK n \in Node : tree' = Append(tree, n) /\ n.start = Cover
      BY <1>5 DEF Inserted
    <2>2. Len(tree') = Len(tree) + 1 /\ DOMAIN tree = 1 .. Len(tree)
          /\ DOMAIN tree' = 1 .. (Len(tree) + 1)
      BY <1>1, <2>1
    <2>3. /\ \A i \in DOMAIN tree : i \in DOMAIN tree' /\ tree'[i] = tree[i]
          /\ tree'[Len(tree) + 1] = n
      BY <1>1, <2>1, <2>2
    <2>4. (Len(tree) + 1) * NodeSize = Len(tree) * NodeSize + NodeSize
      BY <1>1
    <2>5. Cover' = Cover + NodeSize
      BY <2>2, <2>4 DEF Cover
    <2>6. tree' # tree
      BY <1>1, <2>2
    <2>7. \A i \in DOMAIN tree' : i \notin DOMAIN tree => i = Len(tree) + 1
      BY <1>1, <2>2
    <2>8. Cover <= Cover'
      BY <1>1, <1>2, <2>5
    <2> QED
      BY <1>2, <1>3, <2>1, <2>3, <2>5, <2>6, <2>7, <2>8
  <1> QED
    BY <1>4, <1>5 DEF Extends

LEMMA StoredKept ==
    ASSUME TypeOK, TypeOK', Extends, NEW p \in Int, Stored(p)
    PROVE  Stored(p)'
  <1>1. /\ Cover \in Nat /\ Cover' \in Nat /\ Cover <= Cover'
        /\ \A i \in DOMAIN tree : i \in DOMAIN tree' /\ tree'[i] = tree[i]
        /\ \A i \in DOMAIN tree' : i \notin DOMAIN tree => tree'[i].start = Cover
    BY CoverGrows DEF Extends
  <1>2. p <= Cover'
    BY <1>1 DEF Stored
  <1>3. ASSUME NEW i \in DOMAIN tree', NEW x \in 0 .. (NodeSize - 1), tree'[i].start + x < p
        PROVE  tree'[i].offset + x < Len(dev'[tree'[i].place])
    <2>1. CASE i \in DOMAIN tree
      <3>1. tree'[i] = tree[i] /\ tree[i].offset + x < Len(dev[tree[i].place])
        BY <1>1, <1>3, <2>1 DEF Stored
      <3>2. tree[i] \in Node
        BY <2>1, TypeFacts
      <3>3. tree[i].place \in Devices /\ tree[i].offset \in Nat
        BY <3>2 DEF Node
      <3>4. /\ Len(dev[tree[i].place]) <= Len(dev'[tree[i].place])
            /\ Len(dev[tree[i].place]) \in Nat
        BY <3>3, TypeFacts DEF Extends
      <3>5. Len(dev'[tree[i].place]) \in Nat /\ x \in Int
        BY <3>3, SizesAssumption DEF TypeOK
      <3> QED
        BY <3>1, <3>3, <3>4, <3>5
    <2>2. CASE i \notin DOMAIN tree
      <3>1. tree'[i].start = Cover /\ p <= Cover
        BY <1>1, <2>2 DEF Stored
      <3>2. x \in Nat
        BY SizesAssumption
      <3> QED
        BY <1>1, <1>3, <3>1, <3>2
    <2> QED
      BY <2>1, <2>2
  <1> QED
    BY <1>2, <1>3 DEF Stored

LEMMA StoredOrFullKept ==
    ASSUME TypeOK, TypeOK', Extends, NEW p \in Int, StoredOrFull(p)
    PROVE  StoredOrFull(p)'
  BY StoredKept, CoverGrows DEF StoredOrFull

-----------------------------------------------------------------------------
(* What a step of one thread leaves true of the others. *)

LEMMA Discipline ==
    ASSUME Orderly, TypeOK
    PROVE  \/ \A u \in Users : role[u] = "append"
           \/ /\ \A u \in Users : role[u] \in {"grow", "overwrite"}
              /\ \A u, v \in Users : role[u] = "grow" /\ role[v] = "grow" => u = v
  BY TypeFacts DEF Orderly, Disciplined

(* While one thread inserts a node nobody walks the index, and nobody else *)
(* fills a range but for a write that has found all of its own.            *)
LEMMA AloneInserts ==
    ASSUME Orderly, IInv, NEW u \in Users, usr[u].pc = "insert",
           treelock.readers = {}, treelock.writer \subseteq {u}, NEW v \in Users, v # u
    PROVE  /\ usr[v].pc \notin WalkPCs
           /\ usr[v].pc \in FillPCs =>
                 /\ usr[v].pc = "fill" /\ role[v] = "overwrite" /\ usr[v].op = "write"
                 /\ usr[v].start > usr[v].end \/ ~ NodesLeft
  <1>1. TypeOK /\ Holds(v) /\ Ops(v) /\ Ops(u) /\ Progress(v) /\ Fresh(u) /\ Fresh(v)
    BY DEF IInv, TInv, Locks, Local
  <1>2. v \notin treelock.writer /\ v \notin treelock.readers
    OBVIOUS
  <1>3. usr[v].op \in {"read", "write", "append"} /\ usr[u].op \in {"read", "write", "append"}
    BY <1>1, TypeFacts DEF UserRec
  <1>4. usr[v].pc \notin WalkPCs
    BY <1>1, <1>2, <1>3 DEF Holds
  <1>5. ASSUME usr[v].pc \in FillPCs
        PROVE  usr[v].op = "write" /\ role[v] = "overwrite"
    <2>1. usr[v].op = "write"
      BY <1>1, <1>2, <1>3, <1>5 DEF Holds, Ops
    <2>2. role[v] \in {"grow", "overwrite"}
      BY <1>1, <2>1 DEF Ops
    <2>3. usr[u].op # "read"
      BY <1>1 DEF Ops, FillPCs
    <2>4. role[u] \in {"append", "grow"}
      BY <1>1, <1>3, <2>3 DEF Ops, Fresh
    <2>5. role[v] # "grow"
      BY <1>1, <2>2, <2>4, Discipline
    <2> QED
      BY <2>1, <2>2, <2>5
  <1>6. ASSUME usr[v].pc \in FillPCs
        PROVE  usr[v].pc = "fill"
    BY <1>1, <1>5, <1>6 DEF Fresh, FillPCs
  <1>7. ASSUME usr[v].pc \in FillPCs
        PROVE  usr[v].start > usr[v].end \/ ~ NodesLeft
    BY <1>1, <1>5, <1>6, <1>7 DEF Progress
  <1> QED
    BY <1>4, <1>5, <1>6, <1>7

OthersOff(u) == \A v \in Users : v # u => off'[v] = off[v]
Guarded(u) ==
    tree' = tree \/ (usr[u].pc = "insert" /\ treelock.readers = {} /\ treelock.writer \subseteq {u})

LEMMA OthersProgress ==
    ASSUME Orderly, IInv, TypeOK', NEW u \in Users, Others(u), Extends, Guarded(u),
           NEW v \in Users, v # u
    PROVE  Progress(v)'
  <1>0. TypeOK /\ Progress(v) /\ role' = role /\ usr'[v] = usr[v]
    BY DEF IInv, TInv, Local, Extends, Others
  <1>1. usr[v].start \in Nat /\ usr[v].end \in Int /\ usr[v].end + 1 \in Int /\ usr[v].snap \in Nat
    BY <1>0, UserFacts
  <1>2. PICK s \in Int, e \in Int, n \in Int :
            s = usr[v].start /\ e = usr[v].end + 1 /\ n = usr[v].snap
    BY <1>1
  <1>3. /\ StoredOrFull(s) => StoredOrFull(s)'
        /\ StoredOrFull(e) => StoredOrFull(e)'
        /\ StoredOrFull(n) => StoredOrFull(n)'
        /\ ~ NodesLeft => ~ NodesLeft'
        /\ \A i \in DOMAIN tree : i \in DOMAIN tree' /\ tree'[i] = tree[i]
    BY <1>0, StoredOrFullKept, CoverGrows
  <1>4. /\ usr[v].pc \in WalkPCs => tree' = tree
        /\ usr[v].pc = "fill" => \/ tree' = tree
                                 \/ usr[v].start > usr[v].end \/ ~ NodesLeft
    <2>1. CASE tree' = tree
      BY <2>1
    <2>2. CASE usr[u].pc = "insert" /\ treelock.readers = {} /\ treelock.writer \subseteq {u}
      BY <2>2, AloneInserts DEF FillPCs
    <2> QED
      BY <2>1, <2>2 DEF Guarded
  <1>5. tree' = tree => Cover' = Cover
    BY DEF Cover
  <1>6. /\ (usr[v].op = "write" \/ (usr[v].op = "append" /\ usr[v].pc # "lock")) =>
              /\ usr[v].pc \in WalkPCs \cup FillPCs \cup {"lock"} => StoredOrFull(s)'
              /\ usr[v].pc \in {"size", "store"} => StoredOrFull(e)'
        /\ usr[v].op = "write" /\ role[v] = "overwrite" => StoredOrFull(e)'
        /\ usr[v].pc = "store" => StoredOrFull(n)'
    BY <1>0, <1>2, <1>3, Zenon DEF Progress
  <1>7. usr[v].pc = "chunk" => \E k \in DOMAIN tree' : usr[v].cur = tree'[k]
    BY <1>0, <1>3 DEF Progress
  <1>8. /\ usr[v].pc = "next" /\ usr[v].op = "read" =>
              \/ usr[v].copied = usr[v].start - usr[v].lo
              \/ usr[v].start > usr[v].end \/ usr[v].start >= Cover'
        /\ usr[v].pc \in {"scanned", "fill"} /\ usr[v].op # "read" =>
              usr[v].start > usr[v].end \/ usr[v].start = Cover' \/ ~ NodesLeft'
        /\ usr[v].pc = "fill" /\ role[v] = "overwrite" =>
              usr[v].start > usr[v].end \/ ~ NodesLeft'
    BY <1>0, <1>3, <1>4, <1>5 DEF Progress, WalkPCs
  <1>9. /\ (usr'[v].op = "write" \/ (usr'[v].op = "append" /\ usr'[v].pc # "lock")) =>
              /\ usr'[v].pc \in WalkPCs \cup FillPCs \cup {"lock"} => StoredOrFull(usr[v].start)'
              /\ usr'[v].pc \in {"size", "store"} => StoredOrFull(usr[v].end + 1)'
        /\ usr'[v].op = "write" /\ role'[v] = "overwrite" => StoredOrFull(usr[v].end + 1)'
        /\ usr'[v].pc = "store" => StoredOrFull(usr[v].snap)'
    BY <1>0, <1>2, <1>6, Zenon
  <1> QED
    BY <1>0, <1>7, <1>8, <1>9 DEF Progress

LEMMA OthersFresh ==
    ASSUME Orderly, IInv, TypeOK', NEW u \in Users, Others(u), Extends, Guarded(u),
           NEW v \in Users, v # u
    PROVE  Fresh(v)'
  <1>0. TypeOK /\ Fresh(v) /\ Grasp(v) /\ role' = role /\ usr'[v] = usr[v]
    BY DEF IInv, TInv, Local, Extends, Others
  <1>1. ASSUME usr[v].pc \in {"new", "insert"}
        PROVE  Fresh(v)'
    <2>1. tree' = tree
      <3>1. CASE usr[u].pc = "insert" /\ treelock.readers = {} /\ treelock.writer \subseteq {u}
        BY <1>1, <3>1, AloneInserts DEF FillPCs
      <3> QED
        BY <3>1 DEF Guarded
    <2>2. Cover' = Cover
      BY <2>1 DEF Cover
    <2>3. PICK c \in Int : c = Cover
      BY <1>0, CoverGrows
    <2>4. Stored(c)'
      BY <1>0, <1>1, <2>3, StoredKept DEF Fresh
    <2>5. Stored(Cover)'
      BY <2>2, <2>3, <2>4
    <2>6. usr[v].cur \in Node /\ usr[v] \in UserRec /\ usr[v].start < usr[v].end
      BY <1>0, <1>1, TypeFacts DEF Grasp
    <2>7. usr[v].cur.place \in Devices /\ usr[v].cur.offset \in Nat /\ NewCount(usr[v]) \in Nat
      BY <2>6, NewCountIs DEF Node
    <2>8. /\ Len(dev[usr[v].cur.place]) <= Len(dev'[usr[v].cur.place])
          /\ Len(dev[usr[v].cur.place]) \in Nat /\ Len(dev'[usr[v].cur.place]) \in Nat
      BY <1>0, <2>7, FileFacts, LensNext DEF Extends
    <2>9. usr[v].pc = "insert" =>
              usr[v].cur.offset + NewCount(usr[v]) <= Len(dev'[usr[v].cur.place])
      BY <1>0, <2>7, <2>8, SMTT(60) DEF Fresh
    <2>10. /\ role[v] # "overwrite" /\ usr[v].start = Cover /\ usr[v].cur.start = Cover
           /\ Extent(usr[v].cur) /\ \A i \in DOMAIN tree : Apart(tree[i], usr[v].cur)
      BY <1>0, <1>1 DEF Fresh
    <2>11. \A i \in DOMAIN tree' : Apart(tree'[i], usr'[v].cur)
      BY <1>0, <2>1, <2>10
    <2>12. (usr'[v].pc = "insert" =>
              usr'[v].cur.offset + NewCount(usr'[v]) <= Len(dev'[usr'[v].cur.place]))
      BY <1>0, <2>9
    <2> QED
      BY <1>0, <2>2, <2>5, <2>10, <2>11, <2>12 DEF Fresh, Extent, Apart, NewCount
  <1> QED
    BY <1>0, <1>1 DEF Fresh

LEMMA OthersLocal ==
    ASSUME Orderly, IInv, TypeOK', NEW u \in Users, Others(u), OthersOff(u), Extends, Guarded(u),
           Local(u)'
    PROVE  \A v \in Users : Local(v)'
  <1>1. ASSUME NEW v \in Users, v # u
        PROVE  Ops(v)' /\ InRange(v)' /\ EvenCall(v)'
    <2>1. Ops(v) /\ InRange(v) /\ EvenCall(v) /\ role' = role /\ usr'[v] = usr[v] /\ off'[v] = off[v]
      BY <1>1 DEF IInv, Local, Extends, Others, OthersOff
    <2> QED
      BY <2>1 DEF Ops, InRange, EvenCall, Even
  <1> QED
    BY <1>1, OthersProgress, OthersFresh DEF Local

LEMMA QuietFile ==
    ASSUME Orderly, IInv, TInv', UNCHANGED <<dev, tree, next, isize, role>>
    PROVE  EvenFile' /\ Shape' /\ Contents' /\ Extends /\ \A u \in Users : Guarded(u)
  <1>1. TypeOK /\ EvenFile /\ Shape /\ Contents
    BY DEF IInv, TInv
  <1>2. EvenFile' /\ Shape'
    BY <1>1 DEF EvenFile, Shape, Extent, Apart, Even
  <1>3. Contents'
    BY <1>1 DEF Contents, StoredOrFull, Stored, NodesLeft, Cover
  <1>4. \A d \in Devices : Len(dev[d]) \in Nat
    BY <1>1, FileFacts
  <1>5. next \in Nat
    BY <1>1, TypeFacts
  <1>6. Extends
    BY <1>4, <1>5 DEF Extends
  <1> QED
    BY <1>2, <1>3, <1>6 DEF Guarded

LEMMA QuietStep ==
    ASSUME Orderly, IInv, TInv', UNCHANGED <<dev, tree, next, isize, role>>,
           NEW u \in Users, Others(u), OthersOff(u), Local(u)', Locks'
    PROVE  IInv'
  <1>1. EvenFile' /\ Shape' /\ Contents' /\ Extends /\ Guarded(u) /\ TypeOK'
    BY QuietFile DEF TInv
  <1> QED
    BY <1>1, OthersLocal DEF IInv

(* The lock, when a thread keeps what it holds, takes it or gives it up. *)
LEMMA LocksKept ==
    ASSUME Locks, treelock' = treelock, NEW u \in Users, Others(u), Holds(u)'
    PROVE  Locks'
  BY DEF Locks, Holds, Others

LEMMA LocksFreed ==
    ASSUME Locks, NEW u \in Users, Freed(u), Others(u), Holds(u)'
    PROVE  Locks'
  BY DEF Locks, Holds, Others, Freed

LEMMA LocksRead ==
    ASSUME Locks, NEW u \in Users, treelock.writer = {}, Read(u), Others(u), Holds(u)'
    PROVE  Locks'
  BY DEF Locks, Holds, Others, Read

LEMMA LocksWritten ==
    ASSUME Locks, NEW u \in Users, treelock.readers = {}, treelock.writer \subseteq {u},
           treelock'.readers = treelock.readers, treelock'.writer = {u}, Others(u), Holds(u)'
    PROVE  Locks'
  BY DEF Locks, Holds, Others

(* A call that is not in a walk or filling a range holds nothing. *)
LEMMA HoldsNothing ==
    ASSUME Locks, NEW u \in Users, usr[u].pc \in {"idle", "lock", "store", "more"},
           treelock' = treelock, usr'[u].pc \in {"idle", "lock", "store", "more"}
    PROVE  Holds(u)'
  BY DEF Locks, Holds, WalkPCs, FillPCs

(* Even numbers. *)
LEMMA EvenSum ==
    ASSUME NEW a \in Int, NEW b \in Int, Even(a), Even(b)
    PROVE  Even(a + b) /\ Even(a - b)
  BY DEF Even

LEMMA EvenMultiple ==
    ASSUME NEW n \in Nat, NEW k \in Nat, n % 2 = 0
    PROVE  (k * n) % 2 = 0
  <1>1. PICK m \in Nat : n = 2 * m
    <2>1. n \div 2 \in Nat /\ n = 2 * (n \div 2)
      OBVIOUS
    <2> QED
      BY <2>1
  <1>2. k * n = 2 * (k * m) /\ k * m \in Nat
    BY <1>1
  <1>3. \A z \in Nat : (2 * z) % 2 = 0
    OBVIOUS
  <1> QED
    BY <1>2, <1>3

LEMMA EvenUnits ==
    ASSUME Orderly, NEW p \in Nat, p % Unit = 0
    PROVE  Even(p)
  <1>1. Unit \in Nat \ {0} /\ Unit % 2 = 0
    BY SizesAssumption DEF Orderly, EvenSizes, Even
  <1>2. /\ p \div Unit \in Nat /\ p % Unit \in 0 .. (Unit - 1)
        /\ p = (p \div Unit) * Unit + (p % Unit)
    BY <1>1, Remainder
  <1>3. PICK q \in Nat : q = p \div Unit
    BY <1>2
  <1>4. p = q * Unit
    <2>1. q * Unit \in Nat /\ p = q * Unit + 0
      BY <1>1, <1>2, <1>3
    <2> QED
      BY <2>1
  <1>5. (q * Unit) % 2 = 0
    BY <1>1, EvenMultiple
  <1> QED
    BY <1>4, <1>5 DEF Even

-----------------------------------------------------------------------------
(* The invariant is kept: calls and their locals. *)

LEMMA IdleLocal ==
    ASSUME NEW u \in Users, usr'[u] = IdleUser, Even(off[u])', TypeOK'
    PROVE  Local(u)'
  <1>1. /\ usr'[u].pc = "idle" /\ usr'[u].op = "read" /\ usr'[u].remain = 0 /\ usr'[u].snap = 0
        /\ usr'[u].count = 0 /\ usr'[u].start = 0 /\ usr'[u].end = -1
    BY DEF IdleUser
  <1>2. Ops(u)' /\ InRange(u)' /\ Fresh(u)'
    BY <1>1 DEF Ops, InRange, Fresh, FillPCs
  <1>3. EvenCall(u)'
    BY <1>1 DEF EvenCall, Even
  <1>4. Progress(u)'
    BY <1>1 DEF Progress, WalkPCs, FillPCs
  <1> QED
    BY <1>2, <1>3, <1>4 DEF Local

LEMMA StepReadCall ==
    ASSUME Orderly, IInv, TInv', NEW u \in Users, ReadCall(u)
    PROVE  IInv'
  <1>0. TypeOK /\ Locks /\ Local(u)
    BY DEF IInv, TInv
  <1>1. PICK n \in Counts, s \in Starts(u) : Began(u, "read", n, s.from)
    BY <1>0, ReadCallIs
  <1>2. PICK f \in Nat : f = s.from
    BY <1>0, StartsAre
  <1>3. n \in Nat \ {0} /\ Even(n)
    BY SizesAssumption DEF Orderly, EvenSizes
  <1>4. Even(f)
    BY <1>0, <1>2, StartsAre, EvenUnits DEF Local, EvenCall
  <1>5. Even(f + n)
    BY <1>3, <1>4, EvenSum
  <1>6. /\ usr[u].pc = "idle" /\ Others(u)
        /\ usr'[u].pc = "lock" /\ usr'[u].op = "read" /\ usr'[u].count = n
        /\ usr'[u].lo = f /\ usr'[u].start = f /\ usr'[u].end = f + n - 1
        /\ usr'[u].copied = 0 /\ usr'[u].cur = None /\ usr'[u].snap = 0 /\ usr'[u].remain = 0
        /\ UNCHANGED <<dev, tree, next, treelock, isize, off, role>>
    BY <1>1, <1>2 DEF Began
  <1>7. Ops(u)' /\ InRange(u)' /\ Fresh(u)' /\ Progress(u)'
    BY <1>3, <1>6 DEF Ops, InRange, Fresh, Progress, FillPCs, WalkPCs
  <1>8. EvenCall(u)'
    <2>1. usr'[u].end + 1 = f + n
      BY <1>3, <1>6
    <2>2. Even(off[u])' /\ Even(0)
      BY <1>0, <1>6 DEF Local, EvenCall, Even
    <2> QED
      BY <1>3, <1>4, <1>5, <1>6, <2>1, <2>2 DEF EvenCall, Even
  <1>9. Locks'
    BY <1>0, <1>6, HoldsNothing, LocksKept
  <1> QED
    BY <1>6, <1>7, <1>8, <1>9, QuietStep DEF Local, OthersOff

LEMMA StepWriteCall ==
    ASSUME Orderly, IInv, TInv', NEW u \in Users, WriteCall(u)
    PROVE  IInv'
  <1>0. TypeOK /\ Locks /\ Local(u) /\ Contents
    BY DEF IInv, TInv
  <1>1. PICK n \in Counts, s \in Starts(u) :
            /\ Allowed(u, s.from, n)
            /\ IF role[u] = "append" THEN Began(u, "append", n, s.from)
               ELSE Began(u, "write", n, s.from)
    BY <1>0, WriteCallIs
  <1>2. PICK f \in Nat : f = s.from
    BY <1>0, StartsAre
  <1>3. n \in Nat \ {0} /\ Even(n)
    BY SizesAssumption DEF Orderly, EvenSizes
  <1>4. Even(f)
    BY <1>0, <1>2, StartsAre, EvenUnits DEF Local, EvenCall
  <1>5. Even(f + n)
    BY <1>3, <1>4, EvenSum
  <1>6. PICK o \in {"write", "append"} : /\ Began(u, o, n, f)
                                         /\ o = "append" <=> role[u] = "append"
    BY <1>1, <1>2
  <1>7. /\ usr[u].pc = "idle" /\ Others(u)
        /\ usr'[u].pc = "lock" /\ usr'[u].op = o /\ usr'[u].count = n
        /\ usr'[u].lo = f /\ usr'[u].start = f /\ usr'[u].end = f + n - 1
        /\ usr'[u].copied = 0 /\ usr'[u].cur = None /\ usr'[u].snap = 0 /\ usr'[u].remain = 0
        /\ UNCHANGED <<dev, tree, next, treelock, isize, off, role>>
    BY <1>6 DEF Began
  <1>8. role[u] \in {"append", "grow", "overwrite"}
    BY <1>0, Discipline
  <1>9. Ops(u)' /\ InRange(u)' /\ Fresh(u)'
    BY <1>3, <1>6, <1>7, <1>8 DEF Ops, InRange, Fresh, FillPCs
  <1>10. EvenCall(u)'
    <2>1. usr'[u].end + 1 = f + n
      BY <1>3, <1>7
    <2>2. Even(off[u])' /\ Even(0)
      BY <1>0, <1>7 DEF Local, EvenCall, Even
    <2> QED
      BY <1>3, <1>4, <1>5, <1>7, <2>1, <2>2 DEF EvenCall, Even
  <1>11. Progress(u)'
    <2>1. isize \in Nat /\ StoredOrFull(isize)
      BY <1>0, TypeFacts DEF Contents
    <2>2. ASSUME o = "write"
          PROVE  StoredOrFull(f)' /\ (role[u] = "overwrite" => StoredOrFull(f + n)')
      <3>1. f <= isize /\ (role[u] = "overwrite" => f + n <= isize)
        <4>1. Allowed(u, f, n) /\ role[u] \in {"grow", "overwrite"}
          BY <1>1, <1>2, <1>6, <1>8, <2>2
        <4>2. CASE role[u] = "grow"
          BY <4>1, <4>2 DEF Allowed
        <4>3. CASE role[u] = "overwrite"
          <5>1. f + n <= isize
            BY <4>1, <4>3 DEF Allowed
          <5> QED
            BY <1>3, <2>1, <5>1
        <4> QED
          BY <4>1, <4>2, <4>3
      <3>2. StoredOrFull(f)
        BY <1>0, <2>1, <3>1, StoredBelow DEF StoredOrFull
      <3>3. role[u] = "overwrite" => StoredOrFull(f + n)
        BY <1>0, <1>3, <2>1, <3>1, StoredBelow DEF StoredOrFull
      <3> QED
        BY <1>7, <3>2, <3>3 DEF StoredOrFull, Stored, NodesLeft, Cover
    <2>3. f = usr'[u].start /\ f + n = usr'[u].end + 1
      BY <1>3, <1>7
    <2>4. o = "write" => /\ StoredOrFull(usr[u].start)'
                         /\ role[u] = "overwrite" => StoredOrFull(usr[u].end + 1)'
      BY <2>2, <2>3
    <2> QED
      BY <1>7, <2>4 DEF Progress, WalkPCs, FillPCs
  <1>12. Locks'
    BY <1>0, <1>7, HoldsNothing, LocksKept
  <1> QED
    BY <1>7, <1>9, <1>10, <1>11, <1>12, QuietStep DEF Local, OthersOff

LEMMA StepTruncateCall ==
    ASSUME Orderly, IInv, TInv', NEW u \in Users, TruncateCall(u)
    PROVE  IInv'
  <1>0. TypeOK /\ Locks /\ Local(u)
    BY DEF IInv, TInv
  <1>1. /\ usr[u].pc = "idle" /\ Others(u) /\ role[u] \in {"grow", "anywhere"}
        /\ usr'[u].pc = "more" /\ usr'[u].op = "write" /\ usr'[u].remain \in Counts
        /\ usr'[u].cur = None /\ usr'[u].snap = 0 /\ usr'[u].lo = 0 /\ usr'[u].start = 0
        /\ usr'[u].end = -1 /\ usr'[u].count = 0
        /\ UNCHANGED <<dev, tree, next, treelock, isize, off, role>>
    BY <1>0, TruncateCallIs
  <1>2. role[u] = "grow"
    BY <1>0, <1>1, Discipline
  <1>3. usr'[u].remain \in Nat \ {0} /\ Even(usr'[u].remain)
    BY <1>1, SizesAssumption DEF Orderly, EvenSizes
  <1>4. Ops(u)' /\ InRange(u)' /\ Fresh(u)' /\ Progress(u)'
    BY <1>1, <1>2, <1>3 DEF Ops, InRange, Fresh, Progress, FillPCs, WalkPCs
  <1>5. EvenCall(u)'
    BY <1>0, <1>1, <1>3 DEF Local, EvenCall, Even
  <1>6. Locks'
    BY <1>0, <1>1, HoldsNothing, LocksKept
  <1> QED
    BY <1>1, <1>4, <1>5, <1>6, QuietStep DEF Local, OthersOff

LEMMA StepNextChunk ==
    ASSUME Orderly, IInv, TInv', NEW u \in Users, NextChunk(u)
    PROVE  IInv'
  <1>0. TypeOK /\ Locks /\ Local(u) /\ Contents /\ EvenFile
    BY DEF IInv, TInv
  <1>1. PICK n \in Nat :
            /\ n = IF Chunk <= usr[u].remain THEN Chunk ELSE usr[u].remain
            /\ usr'[u].count = n /\ usr'[u].remain = usr[u].remain - n
    BY <1>0, NextChunkIs
  <1>2. /\ usr[u].pc = "more" /\ Others(u)
        /\ usr'[u].pc = "lock" /\ usr'[u].op = usr[u].op /\ usr'[u].copied = 0
        /\ usr'[u].cur = usr[u].cur /\ usr'[u].snap = usr[u].snap
        /\ usr'[u].lo = isize /\ usr'[u].start = isize
        /\ usr'[u].end = isize + usr'[u].count - 1
        /\ UNCHANGED <<dev, tree, next, treelock, isize, off, role>>
    BY <1>0, NextChunkIs
  <1>3. /\ usr[u].op = "write" /\ usr[u].remain > 0 /\ role[u] # "overwrite"
        /\ role[u] \in {"grow", "overwrite"}
    BY <1>0, <1>2 DEF Local, Ops
  <1>4. /\ isize \in Nat /\ usr[u].remain \in Nat /\ Chunk \in Nat \ {0}
        /\ Even(isize) /\ Even(usr[u].remain) /\ Even(Chunk)
    BY <1>0, UserFacts, TypeFacts, SizesAssumption DEF Local, EvenCall, EvenFile, Orderly, EvenSizes
  <1>5. n > 0 /\ Even(n) /\ usr[u].remain - n \in Nat /\ Even(usr[u].remain - n) /\ Even(isize + n)
    BY <1>1, <1>3, <1>4 DEF Even
  <1>6. usr'[u].end = isize + n - 1 /\ usr'[u].end + 1 = isize + n
    BY <1>1, <1>2, <1>4
  <1>7. Ops(u)' /\ Fresh(u)'
    BY <1>1, <1>2, <1>3, <1>5 DEF Ops, Fresh, FillPCs
  <1>8. InRange(u)'
    BY <1>1, <1>2, <1>4, <1>5, <1>6 DEF InRange
  <1>9. EvenCall(u)'
    BY <1>0, <1>1, <1>2, <1>4, <1>5, <1>6 DEF Local, EvenCall, Even
  <1>10. Progress(u)'
    <2>1. StoredOrFull(isize)'
      BY <1>0, <1>2 DEF Contents, StoredOrFull, Stored, NodesLeft, Cover
    <2>2. isize' = usr'[u].start
      BY <1>2
    <2>3. StoredOrFull(usr[u].start)'
      BY <2>1, <2>2 DEF StoredOrFull, Stored
    <2> QED
      BY <1>2, <1>3, <2>3 DEF Progress, WalkPCs, FillPCs
  <1>11. Locks'
    BY <1>0, <1>2, HoldsNothing, LocksKept
  <1> QED
    BY <1>2, <1>7, <1>8, <1>9, <1>10, <1>11, QuietStep DEF Local, OthersOff

LEMMA StepSeek ==
    ASSUME Orderly, IInv, TInv', NEW u \in Users, polystore_lseek(u)
    PROVE  IInv'
  <1>0. TypeOK /\ Locks /\ Local(u)
    BY DEF IInv, TInv
  <1>1. PICK p \in Nat : p % Unit = 0 /\ off' = [off EXCEPT ![u] = p]
    BY <1>0, SeekIs
  <1>2. UNCHANGED <<dev, tree, next, treelock, isize, usr, role>>
    BY <1>0, SeekIs
  <1>3. Even(off[u])' /\ OthersOff(u)
    BY <1>0, <1>1, EvenUnits, TypeFacts DEF OthersOff
  <1>4. Others(u)
    BY <1>2 DEF Others
  <1>5. Ops(u)' /\ InRange(u)' /\ EvenCall(u)'
    BY <1>0, <1>2, <1>3 DEF Local, Ops, InRange, EvenCall, Even
  <1>6. Progress(u)' /\ Fresh(u)'
    BY <1>0, <1>2 DEF Local, Progress, Fresh, StoredOrFull, Stored, NodesLeft, Cover, Extent, Apart,
                      Last, NewCount
  <1>7. Locks'
    BY <1>0, <1>2 DEF Locks, Holds
  <1> QED
    BY <1>2, <1>3, <1>4, <1>5, <1>6, <1>7, QuietStep DEF Local

(* The walk has gone on to a node or ended. *)
LEMMA WalkedLocal ==
    ASSUME Orderly, IInv, TInv', NEW u \in Users, NEW r \in UserRec, Walked(usr'[u], r),
           UNCHANGED <<dev, tree, next, isize, off, role>>,
           r.op = usr[u].op, r.remain = usr[u].remain,
           Even(r.count), Even(r.start), Even(r.end + 1), Even(r.snap),
           r.count > 0, r.end + 1 = r.lo + r.count, r.lo <= r.start, r.start <= r.end + 1,
           r.op # "read" => StoredOrFull(r.start) /\ r.copied = r.start - r.lo,
           r.op = "write" /\ role[u] = "overwrite" => StoredOrFull(r.end + 1),
           \/ r.copied = r.start - r.lo \/ r.start > r.end \/ r.start >= Cover
    PROVE  Local(u)'
  <1>0. TypeOK /\ Shape /\ Local(u) /\ Ops(u) /\ EvenCall(u)
    BY DEF IInv, TInv, Local
  <1>1. PICK q : q = usr'[u]
    OBVIOUS
  <1>2. /\ q.op = r.op /\ q.count = r.count /\ q.lo = r.lo /\ q.end = r.end
        /\ q.snap = r.snap /\ q.remain = r.remain /\ q.start = r.start /\ q.copied = r.copied
        /\ q.cur = Lookup(r.start, r.end)
        /\ q.pc = IF Lookup(r.start, r.end) = None THEN "scanned" ELSE "chunk"
    BY <1>1 DEF Walked, SameCall
  <1>3. /\ r.start \in Nat /\ r.end \in Int /\ r.lo \in Nat /\ r.count \in Nat
        /\ r.op \in {"read", "write", "append"} /\ Cover \in Nat
    BY <1>0, FileFacts DEF UserRec
  <1>4. q.pc \in {"scanned", "chunk"}
    BY <1>2
  <1>5. Ops(u)' /\ Fresh(u)'
    BY <1>0, <1>1, <1>2, <1>4 DEF Ops, Fresh, FillPCs
  <1>6. InRange(u)' /\ EvenCall(u)'
    BY <1>0, <1>1, <1>2, <1>3, <1>4 DEF InRange, EvenCall
  <1>7. Progress(u)'
    <2>1. tree \in Seq(Node)
      BY <1>0, TypeFacts
    <2>2. r.op # "read" => StoredOrFull(usr[u].start)'
      BY <1>1, <1>2 DEF StoredOrFull, Stored, NodesLeft, Cover
    <2>3. r.op = "write" /\ role[u] = "overwrite" => StoredOrFull(usr[u].end + 1)'
      BY <1>1, <1>2 DEF StoredOrFull, Stored, NodesLeft, Cover
    <2>4. CASE Lookup(r.start, r.end) = None
      <3>1. r.start > r.end \/ r.start >= Cover
        BY <1>0, <1>3, <2>1, <2>4, LookupShape
      <3>2. r.op # "read" => r.start > r.end \/ r.start = Cover \/ ~ NodesLeft
        BY <1>3, <3>1 DEF StoredOrFull, Stored
      <3>3. r.op # "read" => r.start > r.end \/ r.start = Cover' \/ ~ NodesLeft'
        BY <3>2 DEF Cover, NodesLeft
      <3>4. q.pc = "scanned"
        BY <1>2, <2>4
      <3> QED
        BY <1>1, <1>2, <1>3, <2>2, <2>3, <3>3, <3>4 DEF Progress, WalkPCs, FillPCs
    <2>5. CASE Lookup(r.start, r.end) # None
      <3>1. /\ r.start <= r.end /\ r.start < Cover
            /\ \E k \in DOMAIN tree : /\ Lookup(r.start, r.end) = tree[k]
                                      /\ tree[k].start <= r.start /\ r.start <= Last(tree[k])
        BY <1>0, <1>3, <2>1, <2>5, LookupShape
      <3>2. q.pc = "chunk" /\ q.copied = q.start - q.lo
        BY <1>2, <1>3, <2>5, <3>1
      <3>3. /\ \E k \in DOMAIN tree' : q.cur = tree'[k]
            /\ q.cur.start <= q.start
        BY <1>2, <3>1
      <3> QED
        BY <1>1, <1>2, <1>3, <2>2, <2>3, <3>2, <3>3 DEF Progress, WalkPCs, FillPCs
    <2> QED
      BY <2>4, <2>5
  <1> QED
    BY <1>5, <1>6, <1>7 DEF Local

LEMMA WalkedHolds ==
    ASSUME NEW u \in Users, NEW r, Walked(usr'[u], r), r.op \in {"read", "write", "append"},
           u \in treelock'.writer <=> r.op = "append",
           u \in treelock'.readers <=> r.op # "append"
    PROVE  Holds(u)'
  <1>1. usr'[u].op = r.op /\ usr'[u].pc \in {"scanned", "chunk"}
    BY DEF Walked, SameCall
  <1> QED
    BY <1>1 DEF Holds, WalkPCs

LEMMA StepLockRead ==
    ASSUME Orderly, IInv, TInv', NEW u \in Users, LockRead(u)
    PROVE  IInv'
  <1>0. TypeOK /\ Locks /\ Local(u)
    BY DEF IInv, TInv
  <1>1. /\ usr[u].pc = "lock" /\ usr[u].op \in {"read", "write"} /\ Others(u)
        /\ treelock.writer = {} /\ Read(u)
        /\ Walked(usr'[u], usr[u])
        /\ UNCHANGED <<dev, tree, next, isize, off, role>>
    BY <1>0, LockReadIs
  <1>2. Ops(u) /\ InRange(u) /\ EvenCall(u) /\ Progress(u)
    BY <1>0 DEF Local
  <1>3. /\ usr[u] \in UserRec /\ usr[u].start \in Nat /\ usr[u].lo \in Nat
        /\ usr[u].op \in {"read", "write", "append"}
    BY <1>0, UserFacts
  <1>4. /\ Even(usr[u].count) /\ Even(usr[u].start) /\ Even(usr[u].end + 1) /\ Even(usr[u].snap)
    BY <1>2 DEF EvenCall
  <1>5. /\ usr[u].count > 0 /\ usr[u].end + 1 = usr[u].lo + usr[u].count
        /\ usr[u].lo <= usr[u].start /\ usr[u].start <= usr[u].end + 1
        /\ usr[u].start = usr[u].lo /\ usr[u].copied = 0
    BY <1>1, <1>2 DEF InRange
  <1>6. usr[u].copied = usr[u].start - usr[u].lo
    BY <1>3, <1>5
  <1>7. /\ usr[u].op # "read" => StoredOrFull(usr[u].start)
        /\ usr[u].op = "write" /\ role[u] = "overwrite" => StoredOrFull(usr[u].end + 1)
    BY <1>1, <1>2 DEF Progress
  <1>8. Local(u)'
    BY <1>1, <1>3, <1>4, <1>5, <1>6, <1>7, WalkedLocal
  <1>9. Holds(u)'
    <2>1. u \notin treelock'.writer /\ u \in treelock'.readers
      BY <1>1 DEF Read
    <2> QED
      BY <1>1, <1>3, <2>1, WalkedHolds
  <1>10. Locks'
    BY <1>0, <1>1, <1>9, LocksRead
  <1> QED
    BY <1>1, <1>8, <1>10, QuietStep DEF OthersOff

LEMMA StepLockWrite ==
    ASSUME Orderly, IInv, TInv', NEW u \in Users, LockWrite(u)
    PROVE  IInv'
  <1>0. TypeOK /\ Locks /\ Local(u) /\ Contents /\ EvenFile
    BY DEF IInv, TInv
  <1>1. PICK r \in UserRec :
            /\ r.lo = isize /\ r.start = isize /\ r.end = isize + usr[u].count - 1
            /\ r.op = usr[u].op /\ r.seq = usr[u].seq /\ r.count = usr[u].count
            /\ r.val = usr[u].val /\ r.copied = usr[u].copied
            /\ r.snap = usr[u].snap /\ r.remain = usr[u].remain
            /\ Walked(usr'[u], r)
    BY <1>0, LockWriteIs
  <1>2. /\ usr[u].pc = "lock" /\ usr[u].op = "append" /\ Others(u)
        /\ treelock.readers = {} /\ treelock.writer \subseteq {u}
        /\ treelock'.readers = treelock.readers /\ treelock'.writer = {u}
        /\ UNCHANGED <<dev, tree, next, isize, off, role>>
    BY <1>0, LockWriteIs
  <1>3. Ops(u) /\ InRange(u) /\ EvenCall(u)
    BY <1>0 DEF Local
  <1>4. isize \in Nat /\ Even(isize) /\ StoredOrFull(isize) /\ usr[u].count \in Nat
    BY <1>0, TypeFacts, UserFacts DEF EvenFile, Contents
  <1>5. usr[u].count > 0 /\ usr[u].copied = 0 /\ Even(usr[u].count) /\ Even(usr[u].snap)
    BY <1>2, <1>3 DEF InRange, EvenCall
  <1>6. r.end + 1 = r.lo + r.count /\ Even(r.end + 1) /\ r.copied = r.start - r.lo
        /\ r.start <= r.end + 1 /\ r.lo <= r.start
    <2>1. r.end + 1 = isize + usr[u].count
      BY <1>1, <1>4
    <2>2. Even(isize + usr[u].count)
      <3>1. isize \in Int /\ usr[u].count \in Int
        BY <1>4
      <3> QED
        BY <1>4, <1>5, <3>1, EvenSum, Zenon
    <2>3. Even(r.end + 1)
      BY <2>1, <2>2
    <2> QED
      BY <1>1, <1>4, <1>5, <2>1, <2>3
  <1>7. StoredOrFull(r.start)
    BY <1>1, <1>4
  <1>8. Local(u)'
    BY <1>1, <1>2, <1>4, <1>5, <1>6, <1>7, WalkedLocal
  <1>9. Holds(u)'
    <2>1. u \in treelock'.writer /\ u \notin treelock'.readers
      BY <1>2
    <2> QED
      BY <1>1, <1>2, <2>1, WalkedHolds
  <1>10. Locks'
    BY <1>0, <1>2, <1>9, LocksWritten
  <1> QED
    BY <1>2, <1>8, <1>10, QuietStep DEF OthersOff

LEMMA StepNextNode ==
    ASSUME Orderly, IInv, TInv', NEW u \in Users, NextNode(u)
    PROVE  IInv'
  <1>0. TypeOK /\ Locks /\ Local(u) /\ Holds(u)
    BY DEF IInv, TInv, Locks
  <1>1. /\ usr[u].pc = "next" /\ Others(u) /\ Walked(usr'[u], usr[u])
        /\ UNCHANGED <<dev, tree, next, treelock, isize, off, role>>
    BY <1>0, NextNodeIs
  <1>2. Ops(u) /\ InRange(u) /\ EvenCall(u) /\ Progress(u)
    BY <1>0 DEF Local
  <1>3. /\ usr[u] \in UserRec /\ usr[u].start \in Nat /\ usr[u].lo \in Nat
        /\ usr[u].op \in {"read", "write", "append"}
    BY <1>0, UserFacts
  <1>4. /\ Even(usr[u].count) /\ Even(usr[u].start) /\ Even(usr[u].end + 1) /\ Even(usr[u].snap)
    BY <1>2 DEF EvenCall
  <1>5. /\ usr[u].count > 0 /\ usr[u].end + 1 = usr[u].lo + usr[u].count
        /\ usr[u].lo <= usr[u].start /\ usr[u].start <= usr[u].end + 1
    BY <1>1, <1>2 DEF InRange
  <1>6. usr[u].op # "read" =>
            StoredOrFull(usr[u].start) /\ usr[u].copied = usr[u].start - usr[u].lo
    BY <1>1, <1>2, <1>3 DEF Progress, WalkPCs
  <1>7. /\ usr[u].op = "write" /\ role[u] = "overwrite" => StoredOrFull(usr[u].end + 1)
        /\ \/ usr[u].copied = usr[u].start - usr[u].lo
           \/ usr[u].start > usr[u].end \/ usr[u].start >= Cover
    BY <1>1, <1>2, <1>6 DEF Progress
  <1>8. Local(u)'
    BY <1>1, <1>3, <1>4, <1>5, <1>6, <1>7, WalkedLocal
  <1>9. Holds(u)'
    <2>1. /\ u \in treelock'.writer <=> usr[u].op = "append"
          /\ u \in treelock'.readers <=> usr[u].op # "append"
      BY <1>0, <1>1 DEF Holds, WalkPCs
    <2> QED
      BY <1>1, <1>3, <2>1, WalkedHolds
  <1>10. Locks'
    BY <1>0, <1>1, <1>9, LocksKept
  <1> QED
    BY <1>1, <1>8, <1>10, QuietStep DEF OthersOff

(* What the part of a range in a node is, in the invariant. *)
LEMMA ChunkFacts ==
    ASSUME Orderly, IInv, NEW u \in Users, usr[u].pc = "chunk"
    PROVE  \E k \in DOMAIN tree, c \in Nat, s \in Nat :
              /\ usr[u].cur = tree[k] /\ tree[k].start <= usr[u].start
              /\ c = ChunkCount(usr[u]) /\ c > 0 /\ s = usr[u].start + c
              /\ s <= usr[u].end + 1 /\ s <= tree[k].start + NodeSize
              /\ s = tree[k].start + NodeSize \/ s > usr[u].end
              /\ Position(usr[u]) = tree[k].offset + (usr[u].start - tree[k].start)
              /\ Even(c) /\ Even(s)
  <1>0. TypeOK /\ Local(u) /\ Grasp(u) /\ EvenFile
    BY DEF IInv, TInv
  <1>1. PICK k \in DOMAIN tree : usr[u].cur = tree[k]
    BY <1>0 DEF Local, Progress
  <1>2. /\ usr[u].cur.start <= usr[u].start /\ usr[u].start <= Last(usr[u].cur)
        /\ usr[u].start <= usr[u].end /\ usr[u].cur \in Node
    BY <1>0 DEF Local, Progress, Grasp
  <1>3. /\ usr[u] \in UserRec /\ usr[u].start \in Nat /\ usr[u].end \in Int
        /\ NodeSize \in Nat \ {0} /\ tree[k].start \in Nat /\ tree[k].offset \in Nat
    BY <1>0, UserFacts, FileFacts
  <1>4. PICK c \in Nat : c = ChunkCount(usr[u]) /\ c > 0
    BY <1>2, <1>3, ChunkIs
  <1>5. PICK s \in Nat : /\ s = usr[u].start + c
                         /\ s = IF Last(usr[u].cur) < usr[u].end
                                THEN Last(usr[u].cur) + 1 ELSE usr[u].end + 1
    BY <1>2, <1>3, <1>4, ChunkIs
  <1>6. /\ s <= usr[u].end + 1 /\ s <= tree[k].start + NodeSize
        /\ s = tree[k].start + NodeSize \/ s > usr[u].end
        /\ s \in {tree[k].start + NodeSize, usr[u].end + 1}
    <2>1. PICK l \in Nat : l = Last(usr[u].cur) /\ l = tree[k].start + NodeSize - 1
      BY <1>1, <1>3 DEF Last
    <2>2. s = IF l < usr[u].end THEN l + 1 ELSE usr[u].end + 1
      BY <1>5, <2>1
    <2>3. CASE l < usr[u].end
      BY <1>3, <2>1, <2>2, <2>3
    <2>4. CASE ~ (l < usr[u].end)
      BY <1>3, <2>1, <2>2, <2>4
    <2> QED
      BY <2>3, <2>4
  <1>7. Even(tree[k].start + NodeSize) /\ Even(usr[u].end + 1) /\ Even(usr[u].start)
    <2>1. Even(tree[k].start) /\ Even(NodeSize) /\ Even(usr[u].end + 1) /\ Even(usr[u].start)
      BY <1>0 DEF EvenFile, Orderly, EvenSizes, Local, EvenCall
    <2>2. tree[k].start \in Int /\ NodeSize \in Int
      BY <1>3
    <2>3. Even(tree[k].start + NodeSize)
      BY <2>1, <2>2, EvenSum
    <2> QED
      BY <2>1, <2>3
  <1>8. Even(s)
    BY <1>6, <1>7
  <1>9. Even(c)
    <2>1. c = s - usr[u].start
      BY <1>3, <1>5
    <2>2. s \in Int /\ usr[u].start \in Int
      BY <1>3
    <2>3. Even(s - usr[u].start)
      BY <1>7, <1>8, <2>2, EvenSum, Zenon
    <2> QED
      BY <2>1, <2>3
  <1>10. Position(usr[u]) = tree[k].offset + (usr[u].start - tree[k].start)
    BY <1>1 DEF Position
  <1> QED
    BY <1>1, <1>2, <1>4, <1>5, <1>6, <1>8, <1>9, <1>10

LEMMA StepReadChunk ==
    ASSUME Orderly, IInv, TInv', NEW u \in Users, ReadChunk(u)
    PROVE  IInv'
  <1>0. TypeOK /\ Locks /\ Local(u) /\ Grasp(u) /\ EvenFile /\ Shape /\ Contents /\ Holds(u)
    BY DEF IInv, TInv, Locks
  <1>1. PICK n : n = PreadCount(dev[usr[u].cur.place], Position(usr[u]), ChunkCount(usr[u]))
    OBVIOUS
  <1>2. /\ usr[u].pc = "chunk" /\ usr[u].op = "read" /\ Others(u)
        /\ Advanced(u, n) /\ OffMoved(u, n)
        /\ UNCHANGED <<dev, tree, next, treelock, isize, role>>
    BY <1>0, <1>1, ReadChunkIs DEF Orderly
  <1>3. PICK k \in DOMAIN tree, c \in Nat, s \in Nat :
              /\ usr[u].cur = tree[k] /\ tree[k].start <= usr[u].start
              /\ c = ChunkCount(usr[u]) /\ c > 0 /\ s = usr[u].start + c
              /\ s <= usr[u].end + 1 /\ s <= tree[k].start + NodeSize
              /\ s = tree[k].start + NodeSize \/ s > usr[u].end
              /\ Position(usr[u]) = tree[k].offset + (usr[u].start - tree[k].start)
              /\ Even(c) /\ Even(s)
    BY <1>2, ChunkFacts
  <1>4. /\ usr[u].start \in Nat /\ usr[u].end \in Int /\ usr[u].lo \in Nat /\ usr[u].copied \in Nat
        /\ NodeSize \in Nat \ {0} /\ Cover \in Nat
        /\ tree[k].start \in Nat /\ tree[k].offset \in Nat /\ tree[k].place \in Devices
        /\ Len(tree) \in Nat /\ DOMAIN tree = 1 .. Len(tree)
    BY <1>0, UserFacts, FileFacts
  <1>5. PICK w \in Seq(Values) : w = dev[tree[k].place]
    BY <1>0, <1>4, TypeFacts
  <1>a. PICK a \in Nat : a = usr[u].start
    BY <1>4
  <1>l. PICK l \in Nat : l = usr[u].lo
    BY <1>4
  <1>e. PICK e \in Int : e = usr[u].end
    BY <1>4
  <1>y. PICK y \in Nat : y = tree[k].start
    BY <1>4
  <1>z. PICK z \in Nat : z = tree[k].offset
    BY <1>4
  <1>c. y <= a /\ s = a + c /\ s <= e + 1 /\ s <= y + NodeSize /\ NodeSize \in Nat
    BY <1>3, <1>4, <1>a, <1>e, <1>y
  <1>6. PICK p \in Nat : p = z + (a - y)
    BY <1>c
  <1>7. n = PreadCount(w, p, c) /\ Len(w) \in Nat
    BY <1>1, <1>3, <1>5, <1>6, <1>a, <1>y, <1>z
  <1>8. /\ n \in Nat
        /\ p + c <= Len(w) => n = c
        /\ Len(w) < p + c => n = IF p <= Len(w) THEN Len(w) - p ELSE 0
    BY <1>7, PreadIs
  <1>9. Even(n)
    <2>1. Even(Len(w)) /\ Even(tree[k].offset) /\ Even(tree[k].start) /\ Even(usr[u].start)
      BY <1>0, <1>4, <1>5 DEF EvenFile, Local, EvenCall
    <2>2. Even(p)
      <3>1. Even(z) /\ Even(y) /\ Even(a)
        BY <2>1, <1>a, <1>y, <1>z
      <3> QED
        BY <1>6, <3>1 DEF Even
    <2>3. Even(Len(w) - p) /\ Even(0)
      <3>1. Even(Len(w) - p)
        BY <1>7, <2>1, <2>2, EvenSum
      <3> QED
        BY <3>1 DEF Even
    <2>4. n = c \/ n = Len(w) - p \/ n = 0
      BY <1>7, <1>8
    <2> QED
      BY <1>3, <2>3, <2>4
  <1>10. /\ SameCall(usr'[u], usr[u]) /\ usr'[u].pc = "next" /\ usr'[u].cur = usr[u].cur
         /\ usr'[u].copied = usr[u].copied + n /\ usr'[u].start = s
    BY <1>2, <1>3 DEF Advanced
  <1>11. \/ usr'[u].copied = usr'[u].start - usr[u].lo
         \/ s > usr[u].end \/ s >= Cover
    <2>1. CASE k = Len(tree)
      <3>1. tree[k].start = (k - 1) * NodeSize
        BY <1>0 DEF Shape
      <3>2. k \in Nat /\ k - 1 \in Nat
        BY <1>4
      <3>3. k * NodeSize = (k - 1) * NodeSize + NodeSize
        BY <1>4, <3>2
      <3>4. Cover = tree[k].start + NodeSize
        BY <2>1, <3>1, <3>3 DEF Cover
      <3> QED
        BY <1>3, <1>4, <3>4
    <2>2. CASE k < Len(tree)
      <3>1. tree # <<>>
        BY <1>4
      <3>2. Stored(Cover - NodeSize)
        BY <1>0, <3>1 DEF Contents
      <3>3. tree[k].start + NodeSize <= Cover - NodeSize
        <4>1. tree[k].start = (k - 1) * NodeSize
          BY <1>0 DEF Shape
        <4>2. k \in Nat /\ k - 1 \in Nat /\ k + 1 \in Nat /\ k + 1 <= Len(tree)
          BY <1>4, <2>2
        <4>3. (k + 1) * NodeSize = (k - 1) * NodeSize + NodeSize + NodeSize
          BY <1>4, <4>2
        <4>4. (k + 1) * NodeSize <= Len(tree) * NodeSize
          BY <1>4, <4>2, Multiples
        <4> QED
          BY <1>4, <4>1, <4>3, <4>4 DEF Cover
      <3>4. PICK x \in 0 .. (NodeSize - 1) : x = NodeSize - 1
        BY <1>4
      <3>5. tree[k].start + x < Cover - NodeSize
        BY <1>4, <3>3, <3>4
      <3>6. tree[k].offset + x < Len(dev[tree[k].place])
        BY <3>2, <3>5 DEF Stored
      <3>7. p + c <= Len(w)
        <4>1. z + x < Len(w)
          BY <1>5, <1>z, <3>6
        <4> QED
          BY <1>c, <1>6, <1>7, <3>4, <4>1
      <3>8. usr[u].copied = usr[u].start - usr[u].lo
        BY <1>0, <1>2 DEF Local, Progress
      <3>9. usr'[u].copied = usr'[u].start - usr[u].lo
        <4>1. n = c /\ usr[u].copied = a - l
          BY <1>8, <1>a, <1>l, <3>7, <3>8
        <4>2. usr'[u].copied = (a - l) + c
          BY <1>10, <4>1
        <4>3. usr'[u].copied = s - l
          BY <1>c, <4>2
        <4> QED
          BY <1>10, <1>l, <4>3
      <3> QED
        BY <3>9
    <2> QED
      BY <1>4, <2>1, <2>2
  <1>12. OthersOff(u) /\ Even(off[u])'
    <2>1. Even(off[u]) /\ off[u] \in Nat
      BY <1>0, TypeFacts DEF Local, EvenCall
    <2>2. Even(off[u] + n)
      <3>1. off[u] \in Int /\ n \in Int
        BY <1>8, <2>1
      <3> QED
        BY <1>9, <2>1, <3>1, EvenSum, Zenon
    <2> QED
      BY <1>2, <2>1, <2>2 DEF OffMoved, OthersOff, Even
  <1>13. Ops(u)' /\ Fresh(u)'
    BY <1>0, <1>2, <1>10 DEF Local, Ops, Fresh, SameCall, FillPCs
  <1>14. InRange(u)'
    <2>1. /\ usr[u].count > 0 /\ usr[u].end + 1 = usr[u].lo + usr[u].count
          /\ usr[u].lo <= usr[u].start
      BY <1>0, <1>2 DEF Local, InRange
    <2>2. l <= s /\ s <= e + 1
      BY <1>a, <1>c, <1>l, <2>1
    <2> QED
      BY <1>10, <1>e, <1>l, <2>1, <2>2 DEF InRange, SameCall
  <1>15. EvenCall(u)'
    BY <1>0, <1>2, <1>3, <1>10, <1>12 DEF Local, EvenCall, SameCall, Even
  <1>16. Progress(u)'
    <2>1. Cover' = Cover
      BY <1>2 DEF Cover
    <2>2. /\ usr'[u].op = "read" /\ usr'[u].pc = "next" /\ usr'[u].lo = usr[u].lo
          /\ usr'[u].end = usr[u].end /\ usr'[u].start = s
      BY <1>2, <1>10 DEF SameCall
    <2> QED
      BY <1>11, <2>1, <2>2 DEF Progress
  <1>17. Locks'
    <2>1. Holds(u)'
      BY <1>0, <1>2, <1>10 DEF Holds, SameCall, WalkPCs
    <2> QED
      BY <1>0, <1>2, <2>1, LocksKept
  <1> QED
    BY <1>2, <1>12, <1>13, <1>14, <1>15, <1>16, <1>17, QuietStep DEF Local

LEMMA StepScanned ==
    ASSUME Orderly, IInv, TInv', NEW u \in Users, Scanned(u)
    PROVE  IInv'
  <1>0. TypeOK /\ Locks /\ Local(u) /\ Holds(u)
    BY DEF IInv, TInv, Locks
  <1>1. /\ usr[u].pc = "scanned" /\ Others(u)
        /\ usr[u].op = "append" => treelock' = treelock
        /\ usr[u].op # "append" => Freed(u)
        /\ UNCHANGED <<dev, tree, next, isize, off, role>> /\ TypeOK'
    BY <1>0, ScannedIs
  <1>2. \/ usr[u].op = "read" /\ usr'[u] = IdleUser
        \/ /\ usr[u].op # "read" /\ SameCall(usr'[u], usr[u]) /\ usr'[u].pc = "fill"
           /\ usr'[u].cur = None /\ usr'[u].copied = usr[u].copied
           /\ usr'[u].start = usr[u].start
    BY <1>0, ScannedIs
  <1>3. usr[u].op \in {"read", "write", "append"} /\ usr[u].start \in Nat /\ usr[u].end \in Int
    BY <1>0, UserFacts
  <1>4. CASE usr[u].op = "read" /\ usr'[u] = IdleUser
    <2>1. Local(u)'
      BY <1>0, <1>1, <1>4, IdleLocal DEF Local, EvenCall, Even
    <2>2. Holds(u)'
      BY <1>0, <1>1, <1>4 DEF Holds, Freed, IdleUser, WalkPCs, FillPCs
    <2>3. Locks'
      BY <1>0, <1>1, <1>4, <2>2, LocksFreed
    <2> QED
      BY <1>1, <2>1, <2>3, QuietStep DEF OthersOff
  <1>5. CASE /\ usr[u].op # "read" /\ SameCall(usr'[u], usr[u]) /\ usr'[u].pc = "fill"
             /\ usr'[u].cur = None /\ usr'[u].copied = usr[u].copied
             /\ usr'[u].start = usr[u].start
    <2>1. PICK q : q = usr'[u]
      OBVIOUS
    <2>2. /\ q.op = usr[u].op /\ q.count = usr[u].count /\ q.lo = usr[u].lo /\ q.end = usr[u].end
          /\ q.snap = usr[u].snap /\ q.remain = usr[u].remain /\ q.pc = "fill"
          /\ q.start = usr[u].start /\ q.copied = usr[u].copied
      BY <1>5, <2>1 DEF SameCall
    <2>3. Ops(u)' /\ Fresh(u)' /\ InRange(u)' /\ EvenCall(u)'
      BY <1>0, <1>1, <1>5, <2>1, <2>2 DEF Local, Ops, Fresh, InRange, EvenCall, Even, FillPCs
    <2>4. /\ StoredOrFull(usr[u].start) /\ usr[u].copied = usr[u].start - usr[u].lo
          /\ usr[u].start > usr[u].end \/ usr[u].start = Cover \/ ~ NodesLeft
          /\ usr[u].op = "write" /\ role[u] = "overwrite" => StoredOrFull(usr[u].end + 1)
      BY <1>0, <1>1, <1>3, <1>5 DEF Local, Progress, WalkPCs
    <2>5. role[u] = "overwrite" => usr[u].start > usr[u].end \/ ~ NodesLeft
      <3>1. role[u] = "overwrite" => usr[u].op = "write"
        BY <1>0, <1>3, <1>5 DEF Local, Ops
      <3>2. Cover \in Nat
        BY <1>0, FileFacts
      <3> QED
        BY <1>3, <2>4, <3>1, <3>2 DEF StoredOrFull, Stored
    <2>6. /\ StoredOrFull(usr[u].start)'
          /\ usr[u].op = "write" /\ role[u] = "overwrite" => StoredOrFull(usr[u].end + 1)'
      BY <1>1, <2>1, <2>2, <2>4 DEF StoredOrFull, Stored, NodesLeft, Cover
    <2>7. /\ usr[u].start > usr[u].end \/ usr[u].start = Cover' \/ ~ NodesLeft'
          /\ role[u] = "overwrite" => usr[u].start > usr[u].end \/ ~ NodesLeft'
      BY <1>1, <2>4, <2>5 DEF NodesLeft, Cover
    <2>8. Progress(u)'
      BY <1>1, <1>5, <2>1, <2>2, <2>4, <2>6, <2>7 DEF Progress, WalkPCs, FillPCs
    <2>9. Locks'
      <3>1. CASE usr[u].op = "append"
        <4>1. Holds(u)'
          BY <1>0, <1>1, <2>1, <2>2, <3>1 DEF Holds, WalkPCs, FillPCs
        <4> QED
          BY <1>0, <1>1, <3>1, <4>1, LocksKept
      <3>2. CASE usr[u].op # "append"
        <4>1. Holds(u)'
          BY <1>0, <1>1, <2>1, <2>2, <3>2 DEF Holds, Freed, WalkPCs, FillPCs
        <4> QED
          BY <1>0, <1>1, <3>2, <4>1, LocksFreed
      <3> QED
        BY <3>1, <3>2
    <2> QED
      BY <1>1, <2>3, <2>8, <2>9, QuietStep DEF Local, OthersOff
  <1> QED
    BY <1>2, <1>4, <1>5

LEMMA StepLoadSize ==
    ASSUME Orderly, IInv, TInv', NEW u \in Users, LoadSize(u)
    PROVE  IInv'
  <1>0. TypeOK /\ Locks /\ Local(u) /\ Holds(u) /\ Contents /\ EvenFile
    BY DEF IInv, TInv, Locks
  <1>1. PICK q : q = usr'[u]
    OBVIOUS
  <1>2. /\ usr[u].pc = "size" /\ usr[u].op = "write" /\ Others(u)
        /\ q.pc = "store" /\ q.snap = isize /\ q.op = "write"
        /\ q.count = usr[u].count /\ q.lo = usr[u].lo
        /\ q.end = usr[u].end /\ q.remain = usr[u].remain
        /\ q.start = usr[u].start /\ q.copied = usr[u].copied
        /\ UNCHANGED <<dev, tree, next, treelock, isize, off, role>>
    BY <1>0, <1>1, LoadSizeIs
  <1>3. Ops(u)' /\ Fresh(u)' /\ InRange(u)' /\ EvenCall(u)'
    BY <1>0, <1>1, <1>2 DEF Local, Ops, Fresh, InRange, EvenCall, EvenFile, Even, FillPCs
  <1>4. StoredOrFull(usr[u].end + 1) /\ StoredOrFull(isize)
    BY <1>0, <1>2 DEF Local, Progress, Contents
  <1>5. StoredOrFull(usr[u].end + 1)' /\ StoredOrFull(usr[u].snap)'
    BY <1>1, <1>2, <1>4 DEF StoredOrFull, Stored, NodesLeft, Cover
  <1>6. Progress(u)'
    BY <1>1, <1>2, <1>5 DEF Progress, WalkPCs, FillPCs
  <1>7. Holds(u)'
    BY <1>0, <1>1, <1>2 DEF Holds, WalkPCs, FillPCs
  <1>8. Locks'
    BY <1>0, <1>2, <1>7, LocksKept
  <1> QED
    BY <1>2, <1>3, <1>6, <1>8, QuietStep DEF Local, OthersOff

-----------------------------------------------------------------------------
(* The invariant is kept: the file grows. *)

(* The parts of the invariant about a file in which something has been     *)
(* stored, or its size set to where something has been stored.             *)
LEMMA GrownFile ==
    ASSUME Orderly, IInv, TInv', tree' = tree, role' = role, next <= next',
           \A d \in Devices : Len(dev[d]) <= Len(dev'[d]) /\ Even(Len(dev'[d])),
           Even(isize'), StoredOrFull(isize)'
    PROVE  EvenFile' /\ Shape' /\ Contents' /\ Extends /\ \A u \in Users : Guarded(u)
  <1>1. TypeOK /\ TypeOK' /\ EvenFile /\ Shape /\ Contents
    BY DEF IInv, TInv
  <1>2. EvenFile'
    BY <1>1 DEF EvenFile, Even
  <1>3. \A i \in DOMAIN tree : tree[i].offset < Len(dev'[tree[i].place])
    <2>1. ASSUME NEW i \in DOMAIN tree
          PROVE  tree[i].offset < Len(dev'[tree[i].place])
      <3>1. tree[i].offset \in Nat /\ tree[i].place \in Devices
            /\ Len(dev[tree[i].place]) \in Nat /\ Len(dev'[tree[i].place]) \in Nat
        BY <1>1, FileFacts, LensNext
      <3>2. tree[i].offset < Len(dev[tree[i].place])
        BY <1>1 DEF Shape
      <3> QED
        BY <3>1, <3>2
    <2> QED
      BY <2>1
  <1>4. Shape'
    BY <1>1, <1>3 DEF Shape, Extent, Apart
  <1>5. Extends
    BY DEF Extends
  <1>6. Contents'
    <2>1. Cover' = Cover
      BY DEF Cover
    <2>2. ASSUME tree # <<>>
          PROVE  Stored(Cover - NodeSize)'
      <3>1. Stored(Cover - NodeSize) /\ Cover - NodeSize \in Int
        BY <1>1, <2>2, FileFacts DEF Contents
      <3>2. PICK p \in Int : p = Cover - NodeSize
        BY <3>1
      <3>3. Stored(p)'
        BY <1>1, <1>5, <3>1, <3>2, StoredKept
      <3> QED
        BY <2>1, <3>2, <3>3
    <2> QED
      BY <2>2 DEF Contents
  <1> QED
    BY <1>2, <1>4, <1>5, <1>6 DEF Guarded

LEMMA GrownStep ==
    ASSUME Orderly, IInv, TInv', tree' = tree, role' = role, next <= next',
           \A d \in Devices : Len(dev[d]) <= Len(dev'[d]) /\ Even(Len(dev'[d])),
           Even(isize'), StoredOrFull(isize)',
           NEW u \in Users, Others(u), OthersOff(u), Local(u)', Locks'
    PROVE  IInv'
  <1>1. EvenFile' /\ Shape' /\ Contents' /\ Extends /\ Guarded(u) /\ TypeOK'
    BY GrownFile DEF TInv
  <1> QED
    BY <1>1, OthersLocal DEF IInv

LEMMA FileSame ==
    ASSUME IInv, UNCHANGED dev
    PROVE  \A d \in Devices : Len(dev[d]) <= Len(dev'[d]) /\ Even(Len(dev'[d]))
  <1>1. TypeOK /\ EvenFile
    BY DEF IInv, TInv
  <1>2. \A d \in Devices : Len(dev[d]) \in Nat
    BY <1>1, FileFacts
  <1>3. \A d \in Devices : Even(Len(dev[d]))
    BY <1>1 DEF EvenFile
  <1>4. ASSUME NEW d \in Devices
        PROVE  Len(dev[d]) <= Len(dev'[d]) /\ Even(Len(dev'[d]))
    BY <1>2, <1>3
  <1> QED
    BY <1>4

LEMMA FileWritten ==
    ASSUME IInv, NEW d \in Devices, NEW pos \in Int, NEW n \in Nat, NEW v \in Values,
           Wrote(d, pos, n, v), Even(pos + n)
    PROVE  /\ \A e \in Devices : Len(dev[e]) <= Len(dev'[e]) /\ Even(Len(dev'[e]))
           /\ pos + n <= Len(dev'[d])
  <1>1. TypeOK /\ EvenFile
    BY DEF IInv, TInv
  <1>2. \A e \in Devices : Len(dev[e]) \in Nat
    BY <1>1, FileFacts
  <1>3. /\ \A e \in Devices : e # d => dev'[e] = dev[e]
        /\ Len(dev'[d]) = IF Len(dev[d]) >= pos + n THEN Len(dev[d]) ELSE pos + n
    BY <1>1, WroteIs
  <1>4. \A e \in Devices : Even(Len(dev[e]))
    BY <1>1 DEF EvenFile
  <1>5. Len(dev[d]) <= Len(dev'[d]) /\ Even(Len(dev'[d])) /\ pos + n <= Len(dev'[d])
    <2>1. PICK z \in Nat : z = Len(dev[d])
      BY <1>2
    <2>2. Len(dev'[d]) = IF z >= pos + n THEN z ELSE pos + n
      BY <1>3, <2>1
    <2>3. Even(z)
      BY <1>4, <2>1
    <2>4. CASE z >= pos + n
      BY <2>1, <2>2, <2>3, <2>4
    <2>5. CASE ~ (z >= pos + n)
      BY <2>1, <2>2, <2>5
    <2> QED
      BY <2>4, <2>5
  <1>6. ASSUME NEW e \in Devices, e # d
        PROVE  Len(dev[e]) <= Len(dev'[e]) /\ Even(Len(dev'[e]))
    BY <1>2, <1>3, <1>4, <1>6
  <1> QED
    BY <1>5, <1>6

(* The size is still behind what has been stored. *)
LEMMA SizeStored ==
    ASSUME IInv, TInv', tree' = tree, role' = role, next <= next', isize' = isize,
           \A d \in Devices : Len(dev[d]) <= Len(dev'[d])
    PROVE  Even(isize') /\ StoredOrFull(isize)' /\ Extends
  <1>1. TypeOK /\ TypeOK' /\ Even(isize) /\ StoredOrFull(isize) /\ isize \in Nat
    BY TypeFacts DEF IInv, TInv, EvenFile, Contents
  <1>2. Extends
    BY DEF Extends
  <1>3. PICK p \in Int : p = isize
    BY <1>1
  <1>4. StoredOrFull(p)'
    BY <1>1, <1>2, <1>3, StoredOrFullKept
  <1> QED
    BY <1>1, <1>2, <1>3, <1>4 DEF Even

LEMMA StepSizeAppend ==
    ASSUME Orderly, IInv, TInv', NEW u \in Users, SizeAppend(u)
    PROVE  IInv'
  <1>0. TypeOK /\ TypeOK' /\ Locks /\ Local(u) /\ Contents /\ EvenFile
    BY DEF IInv, TInv
  <1>1. /\ usr[u].pc = "size" /\ usr[u].op = "append" /\ Others(u)
        /\ usr'[u] = IdleUser /\ Freed(u)
        /\ isize' = IF usr[u].end + 1 >= isize THEN usr[u].end + 1 ELSE isize
        /\ UNCHANGED <<dev, tree, next, off, role>>
    BY <1>0, SizeAppendIs
  <1>2. StoredOrFull(usr[u].end + 1) /\ StoredOrFull(isize) /\ Even(usr[u].end + 1) /\ Even(isize)
    BY <1>0, <1>1 DEF Local, Progress, Contents, EvenCall, EvenFile
  <1>3. isize' = usr[u].end + 1 \/ isize' = isize
    BY <1>1
  <1>4. Even(isize') /\ StoredOrFull(isize')
    BY <1>2, <1>3
  <1>5. StoredOrFull(isize)'
    BY <1>1, <1>4 DEF StoredOrFull, Stored, NodesLeft, Cover
  <1>6. Local(u)'
    BY <1>0, <1>1, IdleLocal DEF Local, EvenCall, Even
  <1>7. Holds(u)'
    BY <1>1 DEF Holds, Freed, IdleUser, WalkPCs, FillPCs
  <1>8. Locks'
    BY <1>0, <1>1, <1>7, LocksFreed
  <1>9. next <= next' /\ \A d \in Devices : Len(dev[d]) <= Len(dev'[d]) /\ Even(Len(dev'[d]))
    BY <1>0, <1>1, FileSame, TypeFacts
  <1> QED
    BY <1>1, <1>4, <1>5, <1>6, <1>8, <1>9, GrownStep DEF OthersOff

LEMMA StepStoreSize ==
    ASSUME Orderly, IInv, TInv', NEW u \in Users, StoreSize(u)
    PROVE  IInv'
  <1>0. TypeOK /\ TypeOK' /\ Locks /\ Local(u) /\ EvenFile
    BY DEF IInv, TInv
  <1>1. /\ usr[u].pc = "store" /\ Others(u)
        /\ isize' = IF usr[u].end + 1 >= usr[u].snap THEN usr[u].end + 1 ELSE usr[u].snap
        /\ UNCHANGED <<dev, tree, next, treelock, off, role>>
    BY <1>0, StoreSizeIs
  <1>2. \/ ~ (usr[u].remain > 0) /\ usr'[u] = IdleUser
        \/ /\ usr[u].remain > 0 /\ SameCall(usr'[u], usr[u]) /\ usr'[u].pc = "more"
           /\ usr'[u].start = usr[u].start /\ usr'[u].cur = usr[u].cur
    BY <1>0, StoreSizeIs
  <1>3. /\ StoredOrFull(usr[u].end + 1) /\ StoredOrFull(usr[u].snap)
        /\ Even(usr[u].end + 1) /\ Even(usr[u].snap) /\ usr[u].op = "write"
    BY <1>0, <1>1 DEF Local, Progress, EvenCall, Ops
  <1>4. isize' = usr[u].end + 1 \/ isize' = usr[u].snap
    BY <1>1
  <1>5. Even(isize') /\ StoredOrFull(isize')
    BY <1>3, <1>4
  <1>6. StoredOrFull(isize)'
    BY <1>1, <1>5 DEF StoredOrFull, Stored, NodesLeft, Cover
  <1>7. Local(u)'
    <2>1. CASE usr'[u] = IdleUser
      BY <1>0, <1>1, <2>1, IdleLocal DEF Local, EvenCall, Even
    <2>2. CASE /\ usr[u].remain > 0 /\ SameCall(usr'[u], usr[u]) /\ usr'[u].pc = "more"
               /\ usr'[u].start = usr[u].start /\ usr'[u].cur = usr[u].cur
      <3>1. Ops(u)' /\ InRange(u)' /\ Fresh(u)' /\ EvenCall(u)'
        BY <1>0, <1>1, <2>2 DEF Local, Ops, InRange, Fresh, EvenCall, Even, SameCall, FillPCs
      <3>2. role[u] # "overwrite"
        BY <1>0, <2>2 DEF Local, Ops
      <3>3. Progress(u)'
        BY <1>1, <2>2, <3>2 DEF Progress, WalkPCs, FillPCs
      <3> QED
        BY <3>1, <3>3 DEF Local
    <2> QED
      BY <1>2, <2>1, <2>2
  <1>8. Locks'
    <2>1. usr'[u].pc \in {"idle", "more"}
      BY <1>2 DEF IdleUser
    <2> QED
      BY <1>0, <1>1, <2>1, HoldsNothing, LocksKept
  <1>9. next <= next' /\ \A d \in Devices : Len(dev[d]) <= Len(dev'[d]) /\ Even(Len(dev'[d]))
    BY <1>0, <1>1, FileSame, TypeFacts
  <1> QED
    BY <1>1, <1>5, <1>6, <1>7, <1>8, <1>9, GrownStep DEF OthersOff

LEMMA CeilingEven ==
    ASSUME Orderly, NEW p \in Nat, Even(p)
    PROVE  Even(Ceiling(p))
  <1>1. NodeSize \in Nat \ {0} /\ NodeSize % 2 = 0
    BY SizesAssumption DEF Orderly, EvenSizes, Even
  <1>2. PICK k \in Nat : k = (p \div NodeSize) + 1
    <2>1. p \div NodeSize \in Nat
      BY <1>1, Remainder
    <2> QED
      BY <2>1
  <1>3. (k * NodeSize) % 2 = 0
    BY <1>1, EvenMultiple
  <1> QED
    BY <1>2, <1>3 DEF Ceiling, Even

(* A new node starts where the nodes end, with an extent no node has. *)
LEMMA NewNodeFresh ==
    ASSUME Orderly, IInv, NEW d \in Devices
    PROVE  /\ NewNode(Cover, d).start = Cover /\ Extent(NewNode(Cover, d))
           /\ Even(NewNode(Cover, d).offset)
           /\ \A i \in DOMAIN tree : Apart(tree[i], NewNode(Cover, d))
  <1>0. TypeOK /\ EvenFile /\ Shape
    BY DEF IInv, TInv
  <1>1. /\ Len(dev[d]) \in Nat /\ NodeSize \in Nat \ {0} /\ Cover \in Nat /\ Len(tree) \in Nat
        /\ \A i \in DOMAIN tree : tree[i].offset \in Nat
    BY <1>0, FileFacts
  <1>2. PICK z \in Nat : z = Len(dev[d])
    BY <1>1
  <1>3. PICK c \in Nat : c = Ceiling(z)
    BY CeilingIs
  <1>4. PICK m : m = NewNode(Cover, d)
    OBVIOUS
  <1>5. m.place = d /\ m.start = Cover - (Cover % NodeSize) /\ m.offset = c
    BY <1>0, <1>1, <1>2, <1>3, <1>4, NewNodeIs
  <1>6. Cover % NodeSize = 0
    BY <1>1, NodeMultiple DEF Cover
  <1>7. m.start = Cover
    BY <1>1, <1>5, <1>6
  <1>8. Extent(m)
    BY <1>3, <1>5, CeilingIs DEF Extent
  <1>9. Even(m.offset)
    <2>1. Even(z)
      BY <1>0, <1>2 DEF EvenFile
    <2>2. Even(c)
      BY <1>3, <2>1, CeilingEven
    <2> QED
      BY <1>5, <2>2
  <1>10. ASSUME NEW i \in DOMAIN tree, tree[i].place = d
         PROVE  tree[i].offset + NodeSize <= c
    <2>1. tree[i].offset % NodeSize = 0 /\ tree[i].offset < z
      BY <1>0, <1>2, <1>10 DEF Shape, Extent
    <2> QED
      BY <1>1, <1>3, <2>1, CeilingIs
  <1>11. \A i \in DOMAIN tree : Apart(tree[i], m)
    BY <1>5, <1>10 DEF Apart
  <1> QED
    BY <1>4, <1>7, <1>8, <1>9, <1>11

LEMMA StepAllocate ==
    ASSUME Orderly, IInv, TInv', NEW u \in Users, Allocate(u)
    PROVE  IInv'
  <1>0. TypeOK /\ TypeOK' /\ Locks /\ Local(u) /\ Holds(u)
    BY DEF IInv, TInv, Locks
  <1>1. PICK q : q = usr'[u]
    OBVIOUS
  <1>2. /\ usr[u].pc = "fill" /\ Others(u)
        /\ q.op = usr[u].op /\ q.count = usr[u].count /\ q.lo = usr[u].lo /\ q.end = usr[u].end
        /\ q.snap = usr[u].snap /\ q.remain = usr[u].remain
        /\ q.copied = usr[u].copied /\ q.start = usr[u].start
        /\ next <= next'
        /\ UNCHANGED <<dev, tree, treelock, isize, off, role>>
    BY <1>0, <1>1, AllocateIs, TypeFacts DEF SameCall, TypeOK
  <1>3. \/ /\ usr[u].start < usr[u].end /\ NodesLeft /\ q.pc = "new"
           /\ \E d \in Devices : q.cur = NewNode(usr[u].start, d)
        \/ (usr[u].start < usr[u].end => ~ NodesLeft) /\ q.pc = "size"
    BY <1>0, <1>1, AllocateIs
  <1>4. /\ usr[u].op \in {"read", "write", "append"} /\ usr[u].start \in Nat /\ usr[u].end \in Int
        /\ usr[u].lo \in Nat /\ usr[u].copied \in Nat
    BY <1>0, UserFacts
  <1>5. q.pc \in {"new", "size"} /\ usr[u].op # "read"
    BY <1>0, <1>2, <1>3 DEF Local, Ops, FillPCs
  <1>6. \A d \in Devices : Len(dev[d]) <= Len(dev'[d]) /\ Even(Len(dev'[d]))
    BY <1>2, FileSame
  <1>7. Even(isize') /\ StoredOrFull(isize)' /\ Extends
    BY <1>2, <1>6, SizeStored
  <1>8. Ops(u)' /\ InRange(u)'
    BY <1>0, <1>1, <1>2, <1>5 DEF Local, Ops, InRange, FillPCs
  <1>9. Locks'
    <2>1. Holds(u)'
      BY <1>0, <1>1, <1>2, <1>5 DEF Holds, WalkPCs, FillPCs
    <2> QED
      BY <1>0, <1>2, <2>1, LocksKept
  <1>10. /\ StoredOrFull(usr[u].start) /\ usr[u].copied = usr[u].start - usr[u].lo
         /\ usr[u].start > usr[u].end \/ usr[u].start = Cover \/ ~ NodesLeft
         /\ role[u] = "overwrite" => usr[u].start > usr[u].end \/ ~ NodesLeft
         /\ usr[u].op = "write" /\ role[u] = "overwrite" => StoredOrFull(usr[u].end + 1)
    BY <1>0, <1>2, <1>4, <1>5 DEF Local, Progress, FillPCs
  <1>11. Even(usr[u].start) /\ Even(usr[u].end + 1)
    BY <1>0 DEF Local, EvenCall
  <1>12. PICK s \in Int, e \in Int : s = usr[u].start /\ e = usr[u].end + 1
    BY <1>4, SMTT(60)
  <1>13. /\ StoredOrFull(s) => StoredOrFull(s)'
         /\ StoredOrFull(e) => StoredOrFull(e)'
    BY <1>0, <1>7, StoredOrFullKept
  <1>14. CASE /\ usr[u].start < usr[u].end /\ NodesLeft /\ q.pc = "new"
              /\ \E d \in Devices : q.cur = NewNode(usr[u].start, d)
    <2>1. PICK d \in Devices : q.cur = NewNode(usr[u].start, d)
      BY <1>14
    <2>2. usr[u].start = Cover /\ role[u] # "overwrite" /\ Stored(Cover)
      BY <1>4, <1>10, <1>14 DEF StoredOrFull
    <2>3. /\ q.cur.start = Cover /\ Extent(q.cur) /\ Even(q.cur.offset)
          /\ \A i \in DOMAIN tree : Apart(tree[i], q.cur)
      BY <2>1, <2>2, NewNodeFresh
    <2>4. Even(q.cur.start)
      BY <1>11, <2>2, <2>3
    <2>5. EvenCall(u)'
      BY <1>0, <1>1, <1>2, <2>3, <2>4 DEF Local, EvenCall, Even
    <2>6. Cover' = Cover /\ Stored(Cover)'
      BY <1>2, <2>2 DEF Stored, Cover
    <2>7. Fresh(u)'
      BY <1>1, <1>2, <1>14, <2>2, <2>3, <2>6 DEF Fresh, Extent, Apart
    <2>8. StoredOrFull(usr[u].start)'
      BY <1>1, <1>2, <1>10, <1>12, <1>13
    <2>9. Progress(u)'
      BY <1>1, <1>2, <1>10, <1>14, <2>2, <2>8 DEF Progress, WalkPCs, FillPCs
    <2>10. Local(u)'
      BY <1>8, <2>5, <2>7, <2>9 DEF Local
    <2> QED
      BY <1>2, <1>6, <1>7, <1>9, <2>10, GrownStep DEF OthersOff
  <1>15. CASE (usr[u].start < usr[u].end => ~ NodesLeft) /\ q.pc = "size"
    <2>1. EvenCall(u)' /\ Fresh(u)'
      BY <1>0, <1>1, <1>2, <1>15 DEF Local, EvenCall, Even, Fresh
    <2>2. StoredOrFull(e)
      <3>1. CASE usr[u].start < usr[u].end
        BY <1>15, <3>1 DEF StoredOrFull
      <3>2. CASE ~ (usr[u].start < usr[u].end)
        <4>1. s <= e
          BY <1>0, <1>2, <1>12 DEF Local, InRange
        <4>2. s >= e - 1
          BY <1>4, <1>12, <3>2
        <4>3. s % 2 = 0 /\ e % 2 = 0
          BY <1>11, <1>12 DEF Even
        <4>4. s = e
          BY <4>1, <4>2, <4>3
        <4> QED
          BY <1>10, <1>12, <4>4
      <3> QED
        BY <3>1, <3>2
    <2>3. StoredOrFull(usr[u].end + 1)'
      BY <1>1, <1>2, <1>12, <1>13, <2>2
    <2>4. Progress(u)'
      BY <1>1, <1>2, <1>15, <2>3 DEF Progress, WalkPCs, FillPCs
    <2>5. Local(u)'
      BY <1>8, <2>1, <2>4 DEF Local
    <2> QED
      BY <1>2, <1>6, <1>7, <1>9, <2>5, GrownStep DEF OthersOff
  <1> QED
    BY <1>3, <1>14, <1>15

(* What is stored up to a in the nodes, and up to s in the node at a, is   *)
(* stored up to s.                                                         *)
LEMMA StoredMore ==
    ASSUME TypeOK', Shape', NEW k \in DOMAIN tree', NEW a \in Nat, NEW s \in Nat,
           tree'[k].start <= a, a <= s, s <= tree'[k].start + NodeSize, Stored(a)',
           tree'[k].offset + (s - tree'[k].start) <= Len(dev'[tree'[k].place])
    PROVE  Stored(s)'
  <1>1. /\ NodeSize \in Nat \ {0} /\ tree' \in Seq(Node) /\ Len(tree') \in Nat
        /\ DOMAIN tree' = 1 .. Len(tree')
    BY SizesAssumption DEF TypeOK
  <1>2. \A i \in DOMAIN tree' : tree'[i] \in Node
    BY <1>1
  <1>3. \A i \in DOMAIN tree' : /\ tree'[i].start \in Nat /\ tree'[i].offset \in Nat
                                /\ tree'[i].place \in Devices
    BY <1>2 DEF Node
  <1>4. \A i \in DOMAIN tree' : tree'[i].start = (i - 1) * NodeSize /\ i - 1 \in Nat
    BY <1>1 DEF Shape
  <1>5. s <= Cover'
    <2>1. k * NodeSize = (k - 1) * NodeSize + NodeSize
      BY <1>1
    <2>2. k * NodeSize <= Len(tree') * NodeSize
      BY <1>1, Multiples
    <2>3. Cover' = Len(tree') * NodeSize
      BY DEF Cover
    <2>4. k * NodeSize \in Nat /\ Len(tree') * NodeSize \in Nat
      BY <1>1
    <2>5. tree'[k].start + NodeSize = k * NodeSize
      BY <1>4, <2>1
    <2> QED
      BY <2>2, <2>3, <2>4, <2>5
  <1>6. ASSUME NEW i \in DOMAIN tree', NEW x \in 0 .. (NodeSize - 1), tree'[i].start + x < s
        PROVE  tree'[i].offset + x < Len(dev'[tree'[i].place])
    <2>0. x \in Nat /\ x <= NodeSize - 1
      BY <1>1
    <2>1. CASE tree'[i].start + x < a
      BY <2>1 DEF Stored
    <2>2. CASE ~ (tree'[i].start + x < a)
      <3>1. PICK p \in Nat : p = tree'[i].start + x
        BY <1>3, <2>0
      <3>2. PICK y \in Nat : y = tree'[k].start
        BY <1>3
      <3>3. PICK z \in Nat : z = tree'[k].offset
        BY <1>3
      <3>4. p >= a /\ p < s /\ y <= a /\ s <= y + NodeSize
        BY <1>6, <2>2, <3>1, <3>2
      <3>5. /\ (i - 1) * NodeSize <= p /\ p <= (i - 1) * NodeSize + NodeSize - 1
            /\ (k - 1) * NodeSize <= p /\ p <= (k - 1) * NodeSize + NodeSize - 1
        <4>1. (i - 1) * NodeSize = tree'[i].start /\ (k - 1) * NodeSize = y
          BY <1>4, <3>2
        <4>2. tree'[i].start <= p /\ p <= tree'[i].start + NodeSize - 1
          BY <1>1, <1>3, <2>0, <3>1, SMTT(60)
        <4>3. y <= p /\ p <= y + NodeSize - 1
          BY <1>1, <3>4
        <4> QED
          BY <4>1, <4>2, <4>3
      <3>6. i - 1 = k - 1
        <4>1. PICK j \in Nat : j = i - 1
          BY <1>4
        <4>2. PICK m \in Nat : m = k - 1
          BY <1>4
        <4>3. j * NodeSize <= p /\ p <= j * NodeSize + NodeSize - 1
          BY <3>5, <4>1
        <4>4. m * NodeSize <= p /\ p <= m * NodeSize + NodeSize - 1
          BY <3>5, <4>2
        <4>5. p \in Int
          OBVIOUS
        <4>6. j = m
          BY <1>1, <4>3, <4>4, <4>5, OneInterval
        <4> QED
          BY <4>1, <4>2, <4>6
      <3>7. i = k
        BY <1>1, <3>6
      <3>8. PICK w \in Nat : w = Len(dev'[tree'[k].place])
        BY <1>3, LensNext
      <3>9. z + x < w
        <4>1. z + (s - y) <= w
          BY <3>2, <3>3, <3>8
        <4>2. p = y + x
          BY <3>1, <3>2, <3>7
        <4> QED
          BY <2>0, <3>4, <4>1, <4>2
      <3> QED
        BY <3>3, <3>7, <3>8, <3>9
    <2> QED
      BY <2>1, <2>2
  <1> QED
    BY <1>5, <1>6 DEF Stored

LEMMA StepWriteChunk ==
    ASSUME Orderly, IInv, TInv', NEW u \in Users, WriteChunk(u)
    PROVE  IInv'
  <1>0. TypeOK /\ TypeOK' /\ Locks /\ Local(u) /\ Grasp(u) /\ EvenFile /\ Holds(u)
    BY DEF IInv, TInv, Locks
  <1>1. PICK q : q = usr'[u]
    OBVIOUS
  <1>2. /\ usr[u].pc = "chunk" /\ usr[u].op # "read" /\ Others(u)
        /\ Advanced(u, ChunkCount(usr[u])) /\ OffMoved(u, ChunkCount(usr[u]))
        /\ Wrote(usr[u].cur.place, Position(usr[u]), ChunkCount(usr[u]), usr[u].val)
        /\ UNCHANGED <<tree, next, treelock, isize, role>>
    BY <1>0, WriteChunkIs DEF Orderly
  <1>3. PICK k \in DOMAIN tree, c \in Nat, s \in Nat :
              /\ usr[u].cur = tree[k] /\ tree[k].start <= usr[u].start
              /\ c = ChunkCount(usr[u]) /\ c > 0 /\ s = usr[u].start + c
              /\ s <= usr[u].end + 1 /\ s <= tree[k].start + NodeSize
              /\ s = tree[k].start + NodeSize \/ s > usr[u].end
              /\ Position(usr[u]) = tree[k].offset + (usr[u].start - tree[k].start)
              /\ Even(c) /\ Even(s)
    BY <1>2, ChunkFacts
  <1>4. /\ usr[u].start \in Nat /\ usr[u].end \in Int /\ usr[u].lo \in Nat /\ usr[u].copied \in Nat
        /\ NodeSize \in Nat \ {0} /\ usr[u].val \in Values
        /\ usr[u].op \in {"read", "write", "append"}
        /\ tree[k].start \in Nat /\ tree[k].offset \in Nat /\ tree[k].place \in Devices
    BY <1>0, UserFacts, FileFacts
  <1>a. PICK a \in Nat : a = usr[u].start
    BY <1>4
  <1>l. PICK l \in Nat : l = usr[u].lo
    BY <1>4
  <1>e. PICK e \in Int : e = usr[u].end
    BY <1>4
  <1>y. PICK y \in Nat : y = tree[k].start
    BY <1>4
  <1>z. PICK z \in Nat : z = tree[k].offset
    BY <1>4
  <1>c. y <= a /\ s = a + c /\ s <= e + 1 /\ s <= y + NodeSize /\ NodeSize \in Nat
    BY <1>3, <1>4, <1>a, <1>e, <1>y
  <1>6. PICK p \in Nat : p = z + (a - y)
    BY <1>c
  <1>7. Wrote(tree[k].place, p, c, usr[u].val)
    BY <1>2, <1>3, <1>6, <1>a, <1>y, <1>z
  <1>8. Even(p + c)
    <2>1. Even(z) /\ Even(y) /\ Even(a)
      BY <1>0, <1>a, <1>y, <1>z DEF EvenFile, Local, EvenCall
    <2> QED
      BY <1>3, <1>6, <2>1 DEF Even
  <1>9. /\ \A d \in Devices : Len(dev[d]) <= Len(dev'[d]) /\ Even(Len(dev'[d]))
        /\ p + c <= Len(dev'[tree[k].place])
    BY <1>4, <1>7, <1>8, FileWritten
  <1>10. /\ q.op = usr[u].op /\ q.count = usr[u].count /\ q.lo = usr[u].lo /\ q.end = usr[u].end
         /\ q.snap = usr[u].snap /\ q.remain = usr[u].remain
         /\ q.pc = "next" /\ q.copied = usr[u].copied + c /\ q.start = s
    BY <1>1, <1>2, <1>3 DEF Advanced, SameCall
  <1>11. next <= next'
    BY <1>0, <1>2, TypeFacts
  <1>12. Even(isize') /\ StoredOrFull(isize)' /\ Extends
    BY <1>2, <1>9, <1>11, SizeStored
  <1>13. Shape'
    BY <1>2, <1>9, <1>11, <1>12, GrownFile
  <1>14. OthersOff(u) /\ Even(off[u])'
    <2>1. Even(off[u]) /\ off[u] \in Nat
      BY <1>0, TypeFacts DEF Local, EvenCall
    <2>2. Even(off[u] + c)
      <3>1. off[u] \in Int /\ c \in Int
        BY <2>1
      <3> QED
        BY <1>3, <2>1, <3>1, EvenSum, Zenon
    <2> QED
      BY <1>2, <1>3, <2>1, <2>2 DEF OffMoved, OthersOff, Even
  <1>15. Ops(u)' /\ Fresh(u)'
    BY <1>0, <1>1, <1>2, <1>10 DEF Local, Ops, Fresh, FillPCs
  <1>16. InRange(u)'
    <2>1. /\ usr[u].count > 0 /\ usr[u].end + 1 = usr[u].lo + usr[u].count
          /\ usr[u].lo <= usr[u].start
      BY <1>0, <1>2 DEF Local, InRange
    <2>2. l <= s /\ s <= e + 1
      BY <1>a, <1>c, <1>l, <2>1
    <2> QED
      BY <1>1, <1>10, <1>e, <1>l, <2>1, <2>2 DEF InRange
  <1>17. EvenCall(u)'
    BY <1>0, <1>1, <1>3, <1>10, <1>14 DEF Local, EvenCall, Even
  <1>18. StoredOrFull(s)'
    <2>1. StoredOrFull(a)
      BY <1>0, <1>2, <1>4, <1>a DEF Local, Progress, WalkPCs
    <2>2. StoredOrFull(a)'
      BY <1>0, <1>12, <2>1, StoredOrFullKept
    <2>3. CASE Stored(a)'
      <3>1. /\ tree' = tree /\ k \in DOMAIN tree' /\ tree'[k].start = y /\ tree'[k].offset = z
        BY <1>2, <1>y, <1>z
      <3>2. z + (s - y) = p + c
        BY <1>6, <1>c
      <3>3. z + (s - y) <= Len(dev'[tree'[k].place])
        BY <1>9, <3>1, <3>2
      <3>4. a <= s
        BY <1>c
      <3>5. Stored(s)'
        BY <1>0, <1>13, <1>c, <2>3, <3>1, <3>3, <3>4, StoredMore
      <3> QED
        BY <3>5 DEF StoredOrFull
    <2> QED
      BY <2>2, <2>3 DEF StoredOrFull
  <1>19. Progress(u)'
    <2>1. usr[u].op = "write" /\ role[u] = "overwrite" => StoredOrFull(e + 1)
      BY <1>0, <1>e DEF Local, Progress
    <2>2. PICK f \in Int : f = e + 1
      OBVIOUS
    <2>3. StoredOrFull(f) => StoredOrFull(f)'
      BY <1>0, <1>12, StoredOrFullKept
    <2>4. usr[u].op = "write" /\ role[u] = "overwrite" => StoredOrFull(usr[u].end + 1)'
      BY <1>1, <1>10, <1>e, <2>1, <2>2, <2>3
    <2>5. StoredOrFull(usr[u].start)'
      BY <1>1, <1>10, <1>18
    <2>6. usr[u].copied + c = s - usr[u].lo
      <3>1. usr[u].copied = a - l
        BY <1>0, <1>2, <1>a, <1>l DEF Local, Progress
      <3> QED
        BY <1>c, <1>l, <3>1
    <2> QED
      BY <1>1, <1>2, <1>10, <2>4, <2>5, <2>6 DEF Progress
  <1>20. Locks'
    <2>1. Holds(u)'
      BY <1>0, <1>1, <1>2, <1>10 DEF Holds, WalkPCs
    <2> QED
      BY <1>0, <1>2, <2>1, LocksKept
  <1>21. Local(u)'
    BY <1>15, <1>16, <1>17, <1>19 DEF Local
  <1> QED
    BY <1>2, <1>9, <1>11, <1>12, <1>14, <1>20, <1>21, GrownStep

(* How much of its range a new node takes. *)
LEMMA NewFacts ==
    ASSUME Orderly, IInv, NEW u \in Users, usr[u].pc \in {"new", "insert"}
    PROVE  \E n \in Nat : /\ n = NewCount(usr[u]) /\ n > 0 /\ n <= NodeSize
                          /\ n = NodeSize \/ n = (usr[u].end + 1) - usr[u].start
                          /\ usr[u].start + n <= usr[u].end + 1 /\ Even(n)
  <1>0. TypeOK /\ Local(u) /\ Grasp(u)
    BY DEF IInv, TInv
  <1>1. /\ usr[u] \in UserRec /\ usr[u].start \in Nat /\ usr[u].end \in Int
        /\ NodeSize \in Nat \ {0} /\ usr[u].start < usr[u].end
    BY <1>0, UserFacts, FileFacts DEF Grasp
  <1>2. PICK n \in Nat : n = NewCount(usr[u]) /\ n > 0
    BY <1>1, NewCountIs
  <1>3. PICK a \in Nat, e \in Int : a = usr[u].start /\ e = usr[u].end + 1
    BY <1>1
  <1>4. n = IF e - a <= NodeSize THEN e - a ELSE NodeSize
    <2>1. n = IF usr[u].end - usr[u].start + 1 <= NodeSize
              THEN usr[u].end - usr[u].start + 1 ELSE NodeSize
      BY <1>1, <1>2, NewCountIs
    <2>2. usr[u].end - usr[u].start + 1 = e - a
      BY <1>1, <1>3
    <2> QED
      BY <2>1, <2>2
  <1>5. Even(NodeSize) /\ Even(a) /\ Even(e)
    BY <1>0, <1>3 DEF Orderly, EvenSizes, Local, EvenCall
  <1>6. Even(n)
    <2>1. a \in Int /\ e \in Int
      OBVIOUS
    <2>2. Even(e - a)
      BY <1>5, <2>1, EvenSum
    <2> QED
      BY <1>4, <1>5, <2>2
  <1>7. n <= NodeSize /\ (n = NodeSize \/ n = e - a) /\ a + n <= e
    BY <1>1, <1>4
  <1>8. n = NodeSize \/ n = (usr[u].end + 1) - usr[u].start
    BY <1>3, <1>7
  <1>9. usr[u].start + n <= usr[u].end + 1 /\ n <= NodeSize
    BY <1>3, <1>7
  <1> QED
    BY <1>2, <1>6, <1>8, <1>9

LEMMA StepWriteNew ==
    ASSUME Orderly, IInv, TInv', NEW u \in Users, WriteNew(u)
    PROVE  IInv'
  <1>0. TypeOK /\ TypeOK' /\ Locks /\ Local(u) /\ Grasp(u) /\ Holds(u)
    BY DEF IInv, TInv, Locks
  <1>1. PICK q : q = usr'[u]
    OBVIOUS
  <1>2. /\ usr[u].pc = "new" /\ Others(u) /\ q.pc = "insert" /\ q.cur = usr[u].cur
        /\ q.op = usr[u].op /\ q.count = usr[u].count /\ q.lo = usr[u].lo /\ q.end = usr[u].end
        /\ q.snap = usr[u].snap /\ q.remain = usr[u].remain
        /\ q.copied = usr[u].copied /\ q.start = usr[u].start
        /\ Wrote(usr[u].cur.place, usr[u].cur.offset, NewCount(usr[u]), usr[u].val)
        /\ UNCHANGED <<tree, next, treelock, isize, off, role>>
    BY <1>0, <1>1, WriteNewIs DEF Orderly, SameCall
  <1>3. PICK n \in Nat : n = NewCount(usr[u]) /\ Even(n)
    BY <1>2, NewFacts
  <1>4. usr[u].cur \in Node /\ usr[u].val \in Values /\ usr[u].op \in {"read", "write", "append"}
    BY <1>0, <1>2, UserFacts DEF Grasp
  <1>5. PICK p \in Nat, d \in Devices : p = usr[u].cur.offset /\ d = usr[u].cur.place
    BY <1>4 DEF Node
  <1>6. Even(p + n)
    <2>1. Even(p) /\ p \in Int /\ n \in Int
      BY <1>0, <1>2, <1>5 DEF Local, EvenCall
    <2> QED
      BY <1>3, <2>1, EvenSum, Zenon
  <1>7. /\ \A e \in Devices : Len(dev[e]) <= Len(dev'[e]) /\ Even(Len(dev'[e]))
        /\ p + n <= Len(dev'[d])
    <2>1. Wrote(d, p, n, usr[u].val) /\ p \in Int
      BY <1>2, <1>3, <1>5
    <2> QED
      BY <1>4, <1>6, <2>1, FileWritten
  <1>8. next <= next'
    BY <1>0, <1>2, TypeFacts
  <1>9. Even(isize') /\ StoredOrFull(isize)' /\ Extends
    BY <1>2, <1>7, <1>8, SizeStored
  <1>10. usr[u].op # "read"
    BY <1>0, <1>2 DEF Local, Ops, FillPCs
  <1>11. Ops(u)' /\ InRange(u)' /\ EvenCall(u)'
    BY <1>0, <1>1, <1>2, <1>10 DEF Local, Ops, InRange, EvenCall, Even, FillPCs
  <1>12. /\ role[u] # "overwrite" /\ usr[u].start = Cover /\ Stored(Cover)
         /\ usr[u].cur.start = Cover /\ Extent(usr[u].cur)
         /\ \A i \in DOMAIN tree : Apart(tree[i], usr[u].cur)
    BY <1>0, <1>2 DEF Local, Fresh
  <1>13. PICK c \in Nat : c = Cover
    BY <1>0, FileFacts
  <1>14. Stored(c)' /\ Cover' = c
    <2>1. c \in Int /\ Stored(c)
      BY <1>12, <1>13
    <2> QED
      BY <1>0, <1>2, <1>9, <1>13, <2>1, StoredKept DEF Cover
  <1>15. Fresh(u)'
    <2>1. NewCount(usr'[u]) = n
      BY <1>1, <1>2, <1>3 DEF NewCount
    <2>2. usr'[u].cur.offset + NewCount(usr'[u]) <= Len(dev'[usr'[u].cur.place])
      BY <1>1, <1>2, <1>5, <1>7, <2>1
    <2>3. Stored(Cover)'
      BY <1>14
    <2>4. NewCount(usr[u])' = NewCount(usr'[u])
      BY DEF NewCount
    <2> QED
      BY <1>1, <1>2, <1>12, <1>13, <1>14, <2>2, <2>3, <2>4 DEF Fresh, Extent, Apart
  <1>16. Progress(u)'
    <2>1. StoredOrFull(usr[u].start)'
      BY <1>1, <1>2, <1>12, <1>13, <1>14 DEF StoredOrFull
    <2>2. usr[u].copied = usr[u].start - usr[u].lo
      BY <1>0, <1>2, <1>10 DEF Local, Progress, FillPCs
    <2> QED
      BY <1>1, <1>2, <1>12, <2>1, <2>2 DEF Progress, WalkPCs, FillPCs
  <1>17. Locks'
    <2>1. Holds(u)'
      BY <1>0, <1>1, <1>2 DEF Holds, WalkPCs, FillPCs
    <2> QED
      BY <1>0, <1>2, <2>1, LocksKept
  <1>18. Local(u)'
    BY <1>11, <1>15, <1>16 DEF Local
  <1> QED
    BY <1>2, <1>7, <1>8, <1>9, <1>17, <1>18, GrownStep DEF OthersOff

LEMMA StepInsertNode ==
    ASSUME Orderly, IInv, TInv', NEW u \in Users, InsertNode(u)
    PROVE  IInv'
  <1>0. /\ TypeOK /\ TypeOK' /\ Locks /\ Local(u) /\ Grasp(u) /\ Holds(u)
        /\ EvenFile /\ Shape /\ Contents
    BY DEF IInv, TInv, Locks
  <1>1. PICK q : q = usr'[u]
    OBVIOUS
  <1>2. /\ usr[u].pc = "insert" /\ Others(u)
        /\ treelock.readers = {} /\ treelock.writer \subseteq {u}
        /\ q.pc = "fill"
        /\ q.op = usr[u].op /\ q.count = usr[u].count /\ q.lo = usr[u].lo /\ q.end = usr[u].end
        /\ q.snap = usr[u].snap /\ q.remain = usr[u].remain
        /\ q.copied = usr[u].copied + NewCount(usr[u]) /\ q.start = usr[u].start + NewCount(usr[u])
        /\ OffMoved(u, NewCount(usr[u]))
        /\ UNCHANGED <<dev, next, treelock, isize, role>>
    BY <1>0, <1>1, InsertNodeIs DEF SameCall
  <1>3. PICK m \in Node : m = usr[u].cur
    BY <1>0, <1>2 DEF Grasp
  <1>4. tree' = Append(tree, m)
    BY <1>0, <1>3, InsertNodeIs
  <1>5. PICK n \in Nat : /\ n = NewCount(usr[u]) /\ n > 0 /\ n <= NodeSize
                         /\ n = NodeSize \/ n = (usr[u].end + 1) - usr[u].start
                         /\ usr[u].start + n <= usr[u].end + 1 /\ Even(n)
    BY <1>2, NewFacts
  <1>6. /\ role[u] # "overwrite" /\ usr[u].start = Cover /\ Stored(Cover)
        /\ m.start = Cover /\ Extent(m)
        /\ \A i \in DOMAIN tree : Apart(tree[i], m)
        /\ m.offset + n <= Len(dev[m.place])
    BY <1>0, <1>2, <1>3, <1>5 DEF Local, Fresh
  <1>7. /\ usr[u].start \in Nat /\ usr[u].end \in Int /\ usr[u].lo \in Nat /\ usr[u].copied \in Nat
        /\ NodeSize \in Nat \ {0} /\ Len(tree) \in Nat /\ DOMAIN tree = 1 .. Len(tree)
        /\ tree \in Seq(Node) /\ m.offset \in Nat /\ m.place \in Devices
        /\ usr[u].op \in {"read", "write", "append"} /\ usr[u].op # "read"
    <2>1. usr[u].op # "read"
      BY <1>0, <1>2 DEF Local, Ops, FillPCs
    <2>2. m.offset \in Nat /\ m.place \in Devices
      BY DEF Node
    <2> QED
      BY <1>0, <2>1, <2>2, UserFacts, FileFacts
  <1>c. PICK c \in Nat : c = Cover
    BY <1>0, FileFacts
  <1>e. PICK e \in Int : e = usr[u].end + 1
    BY <1>7
  <1>8. Inserted /\ Extends /\ Guarded(u)
    <2>1. Inserted
      BY <1>4, <1>6 DEF Inserted
    <2>2. \A d \in Devices : Len(dev[d]) \in Nat
      BY <1>0, FileFacts
    <2>3. next \in Nat
      BY <1>0, TypeFacts
    <2> QED
      BY <1>2, <2>1, <2>2, <2>3 DEF Extends, Guarded
  <1>9. /\ Cover' = c + NodeSize /\ Len(tree) + 1 \in DOMAIN tree' /\ tree'[Len(tree) + 1] = m
        /\ \A i \in DOMAIN tree : tree'[i] = tree[i]
        /\ \A i \in DOMAIN tree' : i \in DOMAIN tree \/ i = Len(tree) + 1
    <2>1. Cover' = c + NodeSize
      BY <1>0, <1>8, <1>c, CoverGrows
    <2>2. DOMAIN tree' = 1 .. (Len(tree) + 1) /\ tree'[Len(tree) + 1] = m
          /\ \A i \in 1 .. Len(tree) : tree'[i] = tree[i]
      BY <1>4, <1>7
    <2>3. Len(tree) + 1 \in 1 .. (Len(tree) + 1)
          /\ \A i \in 1 .. (Len(tree) + 1) : i \in 1 .. Len(tree) \/ i = Len(tree) + 1
      BY <1>7
    <2> QED
      BY <1>7, <2>1, <2>2, <2>3
  <1>10. EvenFile'
    <2>1. Even(m.start) /\ Even(m.offset)
      BY <1>0, <1>2, <1>3 DEF Local, EvenCall
    <2>2. \A i \in DOMAIN tree' : Even(tree'[i].start) /\ Even(tree'[i].offset)
      BY <1>0, <1>9, <2>1 DEF EvenFile
    <2> QED
      BY <1>0, <1>2, <2>2 DEF EvenFile, Even
  <1>11. Shape'
    <2>1. ASSUME NEW i \in DOMAIN tree'
          PROVE  /\ tree'[i].start = (i - 1) * NodeSize
                 /\ Extent(tree'[i]) /\ tree'[i].offset < Len(dev'[tree'[i].place])
      <3>1. CASE i \in DOMAIN tree
        BY <1>0, <1>2, <1>9, <3>1 DEF Shape
      <3>2. CASE i = Len(tree) + 1
        <4>1. i - 1 = Len(tree)
          BY <1>7, <3>2
        <4>2. m.start = (i - 1) * NodeSize
          BY <1>6, <4>1 DEF Cover
        <4>3. Len(dev[m.place]) \in Nat
          BY <1>0, <1>7, FileFacts
        <4>4. m.offset < Len(dev[m.place])
          BY <1>5, <1>6, <1>7, <4>3
        <4> QED
          BY <1>2, <1>6, <1>9, <3>2, <4>2, <4>4
      <3> QED
        BY <1>9, <3>1, <3>2
    <2>2. ASSUME NEW i \in DOMAIN tree', NEW j \in DOMAIN tree', i # j
          PROVE  Apart(tree'[i], tree'[j])
      <3>1. CASE i \in DOMAIN tree /\ j \in DOMAIN tree
        BY <1>0, <1>9, <2>2, <3>1 DEF Shape
      <3>2. CASE i \in DOMAIN tree /\ j = Len(tree) + 1
        BY <1>6, <1>9, <3>2
      <3>3. CASE i = Len(tree) + 1 /\ j \in DOMAIN tree
        <4>1. Apart(tree[j], m)
          BY <1>6, <3>3
        <4>2. Apart(m, tree[j])
          BY <4>1 DEF Apart
        <4> QED
          BY <1>9, <3>3, <4>2
      <3> QED
        BY <1>9, <2>2, <3>1, <3>2, <3>3
    <2>3. \A i \in DOMAIN tree' : Extent(tree[i])' <=> Extent(tree'[i])
      BY DEF Extent
    <2>4. \A i, j \in DOMAIN tree' : Apart(tree[i], tree[j])' <=> Apart(tree'[i], tree'[j])
      BY DEF Apart
    <2> QED
      BY <2>1, <2>2, <2>3, <2>4 DEF Shape
  <1>12. Stored(c)'
    <2>1. c \in Int /\ Stored(c)
      BY <1>6, <1>c
    <2> QED
      BY <1>0, <1>8, <2>1, StoredKept
  <1>13. Contents'
    <2>1. PICK p \in Int : p = isize
      BY <1>0, TypeFacts
    <2>2. StoredOrFull(p)'
      BY <1>0, <1>8, <2>1, StoredOrFullKept DEF Contents
    <2>3. StoredOrFull(isize)'
      BY <1>2, <2>1, <2>2
    <2>4. Cover' - NodeSize = c
      BY <1>7, <1>9
    <2>5. Stored(Cover - NodeSize)'
      BY <1>12, <2>4
    <2> QED
      BY <2>3, <2>5 DEF Contents
  <1>14. PICK s \in Nat : s = c + n
    OBVIOUS
  <1>15. q.start = s /\ s <= e /\ (s = e \/ s = c + NodeSize) /\ q.copied = usr[u].copied + n
    <2>1. usr[u].start = c
      BY <1>6, <1>c
    <2>2. c + n <= e /\ (n = NodeSize \/ n = e - c)
      <3>1. usr[u].start + n = c + n /\ (usr[u].end + 1) - usr[u].start = e - c
        BY <1>e, <2>1
      <3> QED
        BY <1>5, <1>e, <3>1
    <2> QED
      BY <1>2, <1>5, <1>14, <2>1, <2>2
  <1>16. Stored(s)'
    <2>1. PICK k \in DOMAIN tree' : tree'[k] = m
      BY <1>9
    <2>2. tree'[k].start = c /\ c <= s /\ s <= tree'[k].start + NodeSize
      BY <1>5, <1>6, <1>7, <1>14, <1>c, <2>1, SMTT(60)
    <2>3. tree'[k].offset + (s - tree'[k].start) <= Len(dev'[tree'[k].place])
      <3>1. s - c = n
        BY <1>14
      <3> QED
        BY <1>2, <1>6, <2>1, <2>2, <3>1
    <2>4. tree'[k].start <= c
      BY <2>2
    <2> QED
      BY <1>0, <1>11, <1>12, <2>2, <2>3, <2>4, StoredMore
  <1>17. OthersOff(u) /\ Even(off[u])'
    <2>1. Even(off[u]) /\ off[u] \in Nat
      BY <1>0, TypeFacts DEF Local, EvenCall
    <2>2. Even(off[u] + n)
      <3>1. off[u] \in Int /\ n \in Int
        BY <2>1
      <3> QED
        BY <1>5, <2>1, <3>1, EvenSum, Zenon
    <2> QED
      BY <1>2, <1>5, <2>1, <2>2 DEF OffMoved, OthersOff, Even
  <1>18. Ops(u)' /\ Fresh(u)'
    BY <1>0, <1>1, <1>2, <1>7 DEF Local, Ops, Fresh, FillPCs
  <1>19. InRange(u)'
    <2>1. /\ usr[u].count > 0 /\ usr[u].end + 1 = usr[u].lo + usr[u].count
          /\ usr[u].lo <= usr[u].start
      BY <1>0, <1>2 DEF Local, InRange
    <2>2. PICK l \in Nat : l = usr[u].lo
      BY <1>7
    <2>3. l <= s
      BY <1>6, <1>14, <1>c, <2>1, <2>2
    <2> QED
      BY <1>1, <1>2, <1>15, <1>e, <2>1, <2>2, <2>3 DEF InRange
  <1>20. EvenCall(u)'
    <2>1. Even(s)
      <3>1. Even(c) /\ c \in Int /\ n \in Int
        BY <1>0, <1>6, <1>c DEF Local, EvenCall
      <3> QED
        BY <1>5, <1>14, <3>1, EvenSum, Zenon
    <2> QED
      BY <1>0, <1>1, <1>2, <1>15, <1>17, <2>1 DEF Local, EvenCall, Even
  <1>21. Progress(u)'
    <2>1. StoredOrFull(usr[u].start)'
      BY <1>1, <1>15, <1>16 DEF StoredOrFull
    <2>2. q.copied = q.start - usr[u].lo
      <3>1. usr[u].copied = usr[u].start - usr[u].lo
        BY <1>0, <1>2, <1>7 DEF Local, Progress, FillPCs
      <3>2. PICK l \in Nat : l = usr[u].lo
        BY <1>7
      <3>3. usr[u].copied = c - l
        BY <1>6, <1>c, <3>1, <3>2
      <3> QED
        BY <1>14, <1>15, <3>2, <3>3
    <2>3. s > usr[u].end \/ s = Cover'
      BY <1>7, <1>9, <1>15, <1>e
    <2> QED
      BY <1>1, <1>2, <1>6, <1>15, <2>1, <2>2, <2>3 DEF Progress, WalkPCs, FillPCs
  <1>22. Locks'
    <2>1. Holds(u)'
      BY <1>0, <1>1, <1>2 DEF Holds, WalkPCs, FillPCs
    <2> QED
      BY <1>0, <1>2, <2>1, LocksKept
  <1>23. Local(u)'
    BY <1>18, <1>19, <1>20, <1>21 DEF Local
  <1>24. \A v \in Users : Local(v)'
    BY <1>0, <1>2, <1>8, <1>17, <1>23, OthersLocal
  <1> QED
    BY <1>10, <1>11, <1>13, <1>22, <1>24 DEF IInv

-----------------------------------------------------------------------------
(* The theorems. *)

LEMMA InitIInv ==
    ASSUME Orderly, Init
    PROVE  IInv
  <1>1. TInv /\ TypeOK
    BY InitTInv DEF TInv
  <1>2. \A u \in Users : usr[u] = IdleUser /\ off[u] = 0
    BY DEF Init
  <1>3. Locks
    BY <1>2 DEF Init, Locks, Holds, IdleUser, WalkPCs, FillPCs
  <1>4. EvenFile
    BY DEF Init, EvenFile, Even
  <1>5. tree = <<>> /\ isize = 0 /\ DOMAIN tree = {}
    BY DEF Init
  <1>6. Shape
    BY <1>5 DEF Shape
  <1>7. Contents
    <2>1. Cover \in Nat
      BY <1>1, FileFacts
    <2>2. Stored(0)
      BY <1>5, <2>1 DEF Stored
    <2> QED
      BY <1>5, <2>2 DEF Contents, StoredOrFull
  <1>8. ASSUME NEW u \in Users
        PROVE  Local(u)
    <2>1. /\ usr[u].pc = "idle" /\ usr[u].op = "read" /\ usr[u].remain = 0 /\ usr[u].snap = 0
          /\ usr[u].count = 0 /\ usr[u].start = 0 /\ usr[u].end = -1 /\ off[u] = 0
      BY <1>2 DEF IdleUser
    <2>2. Ops(u) /\ InRange(u) /\ Fresh(u)
      BY <2>1 DEF Ops, InRange, Fresh, FillPCs
    <2>3. EvenCall(u)
      BY <2>1 DEF EvenCall, Even
    <2>4. Progress(u)
      BY <2>1 DEF Progress, WalkPCs, FillPCs
    <2> QED
      BY <2>2, <2>3, <2>4 DEF Local
  <1> QED
    BY <1>1, <1>3, <1>4, <1>6, <1>7, <1>8 DEF IInv

LEMMA NextIInv ==
    ASSUME Orderly, IInv, [Next]_vars
    PROVE  IInv'
  <1>1. TInv'
    BY TypeStep DEF IInv
  <1>2. CASE UNCHANGED vars
    <2>1. EvenFile' /\ Shape' /\ Contents' /\ Extends /\ \A u \in Users : Guarded(u)
      BY <1>1, <1>2, QuietFile DEF vars
    <2>2. Locks'
      BY <1>2 DEF IInv, vars, Locks, Holds
    <2>3. ASSUME NEW u \in Users
          PROVE  Local(u)'
      <3>1. Local(u)
        BY DEF IInv
      <3>2. Ops(u)' /\ InRange(u)' /\ EvenCall(u)'
        BY <1>2, <3>1 DEF vars, Local, Ops, InRange, EvenCall, Even
      <3>3. Progress(u)'
        BY <1>2, <3>1 DEF vars, Local, Progress, StoredOrFull, Stored, NodesLeft, Cover
      <3>4. Fresh(u)'
        BY <1>2, <3>1 DEF vars, Local, Fresh, Stored, Cover, Extent, Apart, NewCount
      <3> QED
        BY <3>2, <3>3, <3>4 DEF Local
    <2> QED
      BY <1>1, <2>1, <2>2, <2>3 DEF IInv
  <1>3. CASE Done
    BY <1>2, <1>3 DEF Done
  <1>4. ASSUME NEW u \in Users, ReadCall(u) \/ WriteCall(u) \/ TruncateCall(u) \/ polystore_lseek(u)
        PROVE  IInv'
    BY <1>1, <1>4, StepReadCall, StepWriteCall, StepTruncateCall, StepSeek
  <1>5. ASSUME NEW u \in Users, UserStep(u)
        PROVE  IInv'
    BY <1>1, <1>5, StepLockRead, StepLockWrite, StepReadChunk, StepWriteChunk, StepNextNode,
       StepScanned, StepAllocate, StepWriteNew, StepInsertNode, StepSizeAppend, StepLoadSize,
       StepStoreSize, StepNextChunk DEF UserStep
  <1> QED
    BY <1>2, <1>3, <1>4, <1>5, Zenon DEF Next

LEMMA Invariance ==
    ASSUME Orderly
    PROVE  Spec => []IInv
  <1>1. Init => IInv
    BY InitIInv
  <1>2. IInv /\ [Next]_vars => IInv'
    BY NextIInv
  <1> QED
    BY <1>1, <1>2, PTL DEF Spec

(* Byte i of the caller's buffer stands for byte lo + i of the file in     *)
(* every walk and every fill of io_direct.c: a pread that is short at the  *)
(* end of a physical file is the last of its call, and a write fills its   *)
(* range from where its walk ended.                                        *)
THEOREM BuffersInStep ==
    ASSUME Orderly
    PROVE  Spec => []BufferInStep
  <1>1. IInv => BufferInStep
    <2> SUFFICES ASSUME IInv, NEW u \in Users, usr[u].pc \in {"chunk", "fill", "new", "insert"}
                 PROVE  usr[u].copied = usr[u].start - usr[u].lo
      BY DEF BufferInStep
    <2>1. Ops(u) /\ Progress(u)
      BY DEF IInv, Local
    <2> QED
      BY <2>1 DEF Ops, Progress, WalkPCs, FillPCs
  <1> QED
    BY <1>1, Invariance, PTL

(* At most one thread has a node that is not yet in the tree. *)
LEMMA OneFresh ==
    ASSUME Orderly, IInv, NEW u \in Users, NEW v \in Users,
           usr[u].pc \in {"new", "insert"}, usr[v].pc \in {"new", "insert"}
    PROVE  u = v
  <1>1. TypeOK /\ Locks /\ Ops(u) /\ Ops(v) /\ Fresh(u) /\ Fresh(v) /\ Holds(u) /\ Holds(v)
    BY DEF IInv, TInv, Local, Locks
  <1>2. /\ usr[u].op \in {"write", "append"} /\ usr[v].op \in {"write", "append"}
        /\ role[u] # "overwrite" /\ role[v] # "overwrite"
    BY <1>1, UserFacts DEF Ops, Fresh, FillPCs
  <1>3. CASE usr[u].op = "append" /\ usr[v].op = "append"
    BY <1>1, <1>3 DEF Holds, Locks, FillPCs
  <1>4. CASE usr[u].op = "write" \/ usr[v].op = "write"
    <2>1. role[u] = "grow" /\ role[v] = "grow"
      BY <1>1, <1>2, <1>4, Discipline DEF Ops
    <2> QED
      BY <1>1, <2>1, Discipline
  <1> QED
    BY <1>2, <1>3, <1>4

(* The end of the physical file, rounded up, is past every extent that was *)
(* handed out ("Determine the offset in corresponding physical files",     *)
(* io_direct.c), and no interval of the file has two nodes: the fill of a  *)
(* range starts where the nodes end and nobody else inserts one.           *)
THEOREM ExtentsAreDisjoint ==
    ASSUME Orderly
    PROVE  Spec => []ExtentsDisjoint
  <1>1. ASSUME IInv
        PROVE  ExtentsDisjoint
    <2>0. TypeOK /\ Shape /\ \A u \in Users : Fresh(u)
      BY <1>1 DEF IInv, TInv, Local
    <2> DEFINE news  == {v \in Users : usr[v].pc \in {"new", "insert"}}
               known == {tree[i] : i \in DOMAIN tree} \cup {usr[u].cur : u \in news}
    <2>1. ASSUME NEW m \in known, NEW n \in known, m # n
          PROVE  Apart(m, n)
      <3>1. CASE \E i, j \in DOMAIN tree : m = tree[i] /\ n = tree[j]
        BY <2>0, <2>1, <3>1 DEF Shape
      <3>2. CASE \E i \in DOMAIN tree, u \in news : m = tree[i] /\ n = usr[u].cur
        BY <2>0, <3>2 DEF Fresh
      <3>3. CASE \E i \in DOMAIN tree, u \in news : n = tree[i] /\ m = usr[u].cur
        <4>1. Apart(n, m)
          BY <2>0, <3>3 DEF Fresh
        <4> QED
          BY <4>1 DEF Apart
      <3>4. CASE \E u, v \in news : m = usr[u].cur /\ n = usr[v].cur
        BY <1>1, <2>1, <3>4, OneFresh
      <3> QED
        BY <3>1, <3>2, <3>3, <3>4
    <2>2. ASSUME NEW i \in DOMAIN tree, NEW j \in DOMAIN tree, tree[i].start = tree[j].start
          PROVE  i = j
      <3>1. /\ NodeSize \in Nat \ {0} /\ tree[i].start \in Int /\ tree \in Seq(Node)
            /\ tree[i].start \in Nat
        BY <2>0, FileFacts
      <3> QED
        BY <2>0, <2>2, <3>1, NodesDiffer DEF Last
    <2> QED
      BY <2>1, <2>2 DEF ExtentsDisjoint, Apart
  <1> QED
    BY <1>1, Invariance, PTL

-----------------------------------------------------------------------------
(* The bytes of the file. *)

(* Byte x of the extent of node n. *)
Byte(n, x) == ByteAt(dev[n.place], n.offset + x)

(* The byte at p, by the node p is in. *)
LEMMA ViewIs ==
    TypeOK /\ Shape =>
        \A p \in Nat :
            /\ \A k \in DOMAIN tree :
                  tree[k].start <= p /\ p <= Last(tree[k]) =>
                      View(p) = Byte(tree[k], p - tree[k].start)
            /\ p >= Cover => View(p) = 0
  <1> SUFFICES ASSUME TypeOK, Shape, NEW p \in Nat
               PROVE  /\ \A k \in DOMAIN tree :
                            tree[k].start <= p /\ p <= Last(tree[k]) =>
                                View(p) = Byte(tree[k], p - tree[k].start)
                      /\ p >= Cover => View(p) = 0
    OBVIOUS
  <1>0. tree \in Seq(Node) /\ Cover \in Nat /\ p \in Int
    BY FileFacts
  <1>1. ASSUME NEW k \in DOMAIN tree, tree[k].start <= p, p <= Last(tree[k])
        PROVE  View(p) = Byte(tree[k], p - tree[k].start)
    <2>1. k \in Hits(p, p)
      BY <1>1 DEF Hits
    <2>2. PICK j \in Hits(p, p) : Lookup(p, p) = tree[j]
      BY <1>0, <2>1, LookupHits
    <2>3. j = k
      BY <1>0, <1>1, <2>2, NodesDiffer DEF Hits
    <2>4. tree[k] # None
      BY <1>0, NoneAssumption
    <2>5. Lookup(p, p) = tree[k]
      BY <2>2, <2>3
    <2> QED
      BY <2>4, <2>5 DEF View, Byte
  <1>2. ASSUME p >= Cover
        PROVE  View(p) = 0
    <2>1. ~ \E k \in DOMAIN tree : tree[k].start <= p /\ p <= Last(tree[k])
      BY <1>0, <1>2, Covered
    <2>2. Hits(p, p) = {}
      BY <2>1 DEF Hits
    <2>3. Lookup(p, p) = None
      BY <1>0, <2>2, LookupHits
    <2> QED
      BY <2>3 DEF View
  <1> QED
    BY <1>1, <1>2

LEMMA ViewNext ==
    TypeOK' /\ Shape' =>
        (\A p \in Nat :
            /\ \A k \in DOMAIN tree :
                  tree[k].start <= p /\ p <= Last(tree[k]) =>
                      View(p) = Byte(tree[k], p - tree[k].start)
            /\ p >= Cover => View(p) = 0)'
  BY ViewIs, PTL

LEMMA CoveredNext ==
    TypeOK' /\ Shape' =>
        (\A p \in Nat :
            p < Cover <=> \E k \in DOMAIN tree : tree[k].start <= p /\ p <= Last(tree[k]))'
  <1>1. TypeOK /\ Shape =>
            \A p \in Nat :
                p < Cover <=> \E k \in DOMAIN tree : tree[k].start <= p /\ p <= Last(tree[k])
    BY Covered, FileFacts
  <1> QED
    BY <1>1, PTL

LEMMA ViewSame ==
    ASSUME UNCHANGED <<dev, tree>>
    PROVE  \A p \in Nat : View(p)' = View(p)
  BY DEF View, Lookup, Last, ByteAt

(* What pwrite does to the bytes of a physical file. *)
LEMMA PwriteBytes ==
    ASSUME NEW s \in Seq(Values), NEW pos \in Nat, NEW n \in Nat, NEW v \in Values, NEW i \in Nat
    PROVE  ByteAt(Pwrite(s, pos, n, v), i) =
              IF pos <= i /\ i < pos + n THEN v ELSE ByteAt(s, i)
  <1>1. PICK l \in Nat : l = Len(s)
    OBVIOUS
  <1>2. PICK w : w = Pwrite(s, pos, n, v)
    OBVIOUS
  <1>3. w \in Seq(Values) /\ Len(w) = IF l >= pos + n THEN l ELSE pos + n
    <2>1. pos \in Int
      OBVIOUS
    <2> QED
      BY <1>1, <1>2, <2>1, PwriteIs
  <1>4. PICK m \in Nat : m = Len(w) /\ m >= l /\ m >= pos + n
    BY <1>3
  <1>5. PICK j \in Nat : j = i + 1
    OBVIOUS
  <1>6. ASSUME i < m
        PROVE  w[j] = IF j \in (pos + 1) .. (pos + n) THEN v ELSE IF j <= l THEN s[j] ELSE 0
    <2>1. Max({l, pos + n}) = m
      BY <1>1, <1>3, <1>4, MaxOfTwo
    <2>2. w = [k \in 1 .. m |->
                 IF k \in (pos + 1) .. (pos + n) THEN v ELSE IF k <= l THEN s[k] ELSE 0]
      BY <1>1, <1>2, <2>1 DEF Pwrite
    <2>3. j \in 1 .. m
      BY <1>5, <1>6
    <2> QED
      BY <2>2, <2>3
  <1>7. j \in (pos + 1) .. (pos + n) <=> pos <= i /\ i < pos + n
    BY <1>5
  <1>8. j <= l <=> i < l
    BY <1>5
  <1>9. CASE i < m
    BY <1>1, <1>2, <1>4, <1>5, <1>6, <1>7, <1>8, <1>9 DEF ByteAt
  <1>10. CASE ~ (i < m)
    BY <1>1, <1>2, <1>4, <1>5, <1>7, <1>8, <1>10 DEF ByteAt
  <1> QED
    BY <1>9, <1>10

LEMMA WroteBytes ==
    ASSUME TypeOK, NEW d \in Devices, NEW pos \in Nat, NEW n \in Nat, NEW v \in Values,
           Wrote(d, pos, n, v), NEW e \in Devices, NEW i \in Nat
    PROVE  ByteAt(dev'[e], i) = IF e = d /\ pos <= i /\ i < pos + n THEN v ELSE ByteAt(dev[e], i)
  <1>1. /\ \A f \in Devices : f # d => dev'[f] = dev[f]
        /\ dev'[d] = Pwrite(dev[d], pos, n, v)
    <2>1. pos \in Int
      OBVIOUS
    <2> QED
      BY <2>1, WroteIs
  <1>2. dev[d] \in Seq(Values)
    BY TypeFacts
  <1>3. CASE e = d
    BY <1>1, <1>2, <1>3, PwriteBytes
  <1>4. CASE e # d
    BY <1>1, <1>4
  <1> QED
    BY <1>3, <1>4

(* The first n bytes of what is left of a call's range have been stored, *)
(* and no other byte of the file has changed.                              *)
Changed(u, n) ==
    \A p \in Nat :
        View(p)' = IF usr[u].start <= p /\ p < usr[u].start + n THEN usr[u].val ELSE View(p)
Stores(u) ==
    \E n \in Nat :
        /\ n > 0 /\ usr[u].start + n <= usr[u].end + 1
        /\ usr'[u].copied = usr[u].copied + n /\ usr'[u].start = usr[u].start + n
        /\ Changed(u, n)

(* The bytes of an extent apart from the one that is written to. *)
LEMMA ApartBytes ==
    ASSUME TypeOK, NEW k \in Node, NEW a \in Nat, NEW c \in Nat, a + c <= NodeSize, NEW v \in Values,
           Wrote(k.place, k.offset + a, c, v), NEW m \in Node, Apart(k, m),
           NEW x \in 0 .. (NodeSize - 1)
    PROVE  ByteAt(dev'[m.place], m.offset + x) = ByteAt(dev[m.place], m.offset + x)
  <1>1. /\ k.place \in Devices /\ m.place \in Devices /\ k.offset \in Nat /\ m.offset \in Nat
        /\ NodeSize \in Nat /\ x \in Nat
    BY SizesAssumption DEF Node
  <1>2. PICK z \in Nat, y \in Nat : z = k.offset /\ y = m.offset
    BY <1>1
  <1>3. PICK i \in Nat, pos \in Nat : i = y + x /\ pos = z + a
    BY <1>1
  <1>4. ByteAt(dev'[m.place], i) =
            IF m.place = k.place /\ pos <= i /\ i < pos + c THEN v ELSE ByteAt(dev[m.place], i)
    BY <1>1, <1>2, <1>3, WroteBytes
  <1>5. m.place = k.place => ~ (pos <= i /\ i < pos + c)
    <2>1. m.place = k.place => z + NodeSize <= y \/ y + NodeSize <= z
      BY <1>2 DEF Apart
    <2>2. x <= NodeSize - 1
      BY <1>1
    <2> QED
      BY <1>1, <1>3, <2>1, <2>2
  <1> QED
    BY <1>2, <1>3, <1>4, <1>5

LEMMA ChunkStores ==
    ASSUME Orderly, IInv, IInv', NEW u \in Users, WriteChunk(u)
    PROVE  /\ Stores(u)
           /\ \A m \in Node : (\A i \in DOMAIN tree : Apart(tree[i], m)) =>
                 \A x \in 0 .. (NodeSize - 1) :
                     ByteAt(dev'[m.place], m.offset + x) = ByteAt(dev[m.place], m.offset + x)
  <1>0. TypeOK /\ TypeOK' /\ Shape /\ Shape' /\ Local(u) /\ Grasp(u)
    BY DEF IInv, TInv
  <1>1. /\ usr[u].pc = "chunk" /\ Advanced(u, ChunkCount(usr[u]))
        /\ Wrote(usr[u].cur.place, Position(usr[u]), ChunkCount(usr[u]), usr[u].val)
        /\ tree' = tree
    BY <1>0, WriteChunkIs DEF Orderly
  <1>2. PICK k \in DOMAIN tree, c \in Nat, s \in Nat :
              /\ usr[u].cur = tree[k] /\ tree[k].start <= usr[u].start
              /\ c = ChunkCount(usr[u]) /\ c > 0 /\ s = usr[u].start + c
              /\ s <= usr[u].end + 1 /\ s <= tree[k].start + NodeSize
              /\ Position(usr[u]) = tree[k].offset + (usr[u].start - tree[k].start)
    BY <1>1, ChunkFacts
  <1>3. /\ usr[u].start \in Nat /\ NodeSize \in Nat \ {0} /\ usr[u].val \in Values
        /\ tree[k] \in Node /\ tree[k].start \in Nat /\ tree[k].offset \in Nat
        /\ tree[k].place \in Devices /\ Cover \in Nat
        /\ \A i \in DOMAIN tree : tree[i] \in Node /\ tree[i].start \in Nat
                                  /\ tree[i].offset \in Nat /\ tree[i].place \in Devices
    BY <1>0, UserFacts, FileFacts
  <1>a. PICK a \in Nat, y \in Nat, z \in Nat :
            a = usr[u].start /\ y = tree[k].start /\ z = tree[k].offset
    BY <1>3
  <1>b. y <= a /\ s = a + c /\ s <= y + NodeSize
    BY <1>2, <1>a
  <1>c. PICK b \in Nat : b = a - y
    BY <1>b
  <1>d. b + c <= NodeSize /\ s = y + (b + c)
    BY <1>3, <1>b, <1>c
  <1>4. PICK m \in Node : m = tree[k]
    BY <1>3
  <1>5. Wrote(m.place, m.offset + b, c, usr[u].val)
    BY <1>1, <1>2, <1>4, <1>a, <1>c
  <1>6. ASSUME NEW n \in Node, \A i \in DOMAIN tree : Apart(tree[i], n),
               NEW x \in 0 .. (NodeSize - 1)
        PROVE  ByteAt(dev'[n.place], n.offset + x) = ByteAt(dev[n.place], n.offset + x)
    <2>1. Apart(m, n)
      BY <1>4, <1>6
    <2> QED
      BY <1>0, <1>3, <1>5, <1>d, <2>1, ApartBytes
  <1>7. ASSUME NEW p \in Nat
        PROVE  View(p)' = IF a <= p /\ p < s THEN usr[u].val ELSE View(p)
    <2>1. CASE p >= Cover
      <3>1. View(p) = 0
        BY <1>0, <2>1, ViewIs
      <3>2. View(p)' = 0
        <4>1. Cover' = Cover
          BY <1>1 DEF Cover
        <4> QED
          BY <1>0, <2>1, <4>1, ViewNext
      <3>3. ~ (p < s)
        <4>1. y + NodeSize - 1 < Cover
          <5>1. y + NodeSize - 1 \in Nat /\ y <= y + NodeSize - 1
            BY <1>3
          <5>2. PICK w \in Nat : w = y + NodeSize - 1
            BY <5>1
          <5>3. tree[k].start <= w /\ w <= Last(tree[k])
            BY <1>a, <5>1, <5>2 DEF Last
          <5> QED
            BY <1>0, <5>2, <5>3, Covered, FileFacts
        <4> QED
          BY <1>3, <1>b, <2>1, <4>1
      <3> QED
        BY <3>1, <3>2, <3>3
    <2>2. CASE p < Cover
      <3>1. PICK i \in DOMAIN tree : tree[i].start <= p /\ p <= Last(tree[i])
        BY <1>0, <2>2, Covered, FileFacts
      <3>2. PICK n \in Node : n = tree[i]
        BY <1>3
      <3>3. n.start \in Nat /\ n.offset \in Nat /\ n.place \in Devices
        BY DEF Node
      <3>4. PICK x \in Nat : x = p - n.start
        BY <3>1, <3>2, <3>3
      <3>5. x \in 0 .. (NodeSize - 1) /\ p = n.start + x
        <4>1. p <= n.start + NodeSize - 1
          BY <3>1, <3>2 DEF Last
        <4> QED
          BY <1>3, <3>3, <3>4, <4>1
      <3>6. View(p) = ByteAt(dev[n.place], n.offset + x)
        BY <1>0, <3>1, <3>2, <3>4, ViewIs DEF Byte
      <3>7. View(p)' = ByteAt(dev'[n.place], n.offset + x)
        <4>1. i \in DOMAIN tree' /\ tree'[i] = n /\ (n.start <= p /\ p <= Last(n))
          BY <1>1, <3>1, <3>2
        <4>2. Last(tree[i])' = Last(n)
          BY <4>1 DEF Last
        <4>3. View(p)' = Byte(tree[i], p - tree[i].start)'
          BY <1>0, <4>1, <4>2, ViewNext
        <4> QED
          BY <3>4, <4>1, <4>3 DEF Byte
      <3>8. CASE i = k
        <4>1. n = m /\ n.start = y /\ n.offset = z
          BY <1>4, <1>a, <3>2, <3>8
        <4>2. PICK j \in Nat, pos \in Nat : j = n.offset + x /\ pos = n.offset + b
          BY <3>3
        <4>3. ByteAt(dev'[n.place], j) =
                  IF n.place = n.place /\ pos <= j /\ j < pos + c
                  THEN usr[u].val ELSE ByteAt(dev[n.place], j)
          BY <1>0, <1>3, <1>5, <3>3, <4>1, <4>2, WroteBytes
        <4>4. (pos <= j /\ j < pos + c) <=> (a <= p /\ p < s)
          BY <1>b, <1>c, <3>3, <3>5, <4>1, <4>2
        <4> QED
          BY <3>6, <3>7, <4>2, <4>3, <4>4
      <3>9. CASE i # k
        <4>1. Apart(m, n)
          BY <1>0, <1>4, <3>2, <3>9 DEF Shape
        <4>2. ByteAt(dev'[n.place], n.offset + x) = ByteAt(dev[n.place], n.offset + x)
          BY <1>0, <1>3, <1>5, <1>d, <3>5, <4>1, ApartBytes
        <4>3. ~ (a <= p /\ p < s)
          <5>1. ASSUME a <= p, p < s
                PROVE  FALSE
            <6>1. tree[k].start <= p /\ p <= Last(tree[k]) /\ p \in Int
              BY <1>3, <1>a, <1>b, <5>1 DEF Last
            <6> QED
              BY <1>0, <3>1, <3>9, <6>1, NodesDiffer, FileFacts
          <5> QED
            BY <5>1
        <4> QED
          BY <3>6, <3>7, <4>2, <4>3
      <3> QED
        BY <3>8, <3>9
    <2> QED
      BY <1>3, <2>1, <2>2
  <1>8. Stores(u)
    <2>1. Changed(u, c)
      BY <1>2, <1>7, <1>a DEF Changed
    <2>2. usr'[u].copied = usr[u].copied + c /\ usr'[u].start = usr[u].start + c
      BY <1>1, <1>2 DEF Advanced
    <2>3. usr[u].start + c <= usr[u].end + 1
      BY <1>2
    <2> QED
      BY <1>2, <2>1, <2>2, <2>3 DEF Stores
  <1> QED
    BY <1>6, <1>8

(* What is in the extent of a node that is about to be inserted. *)
FreshBytes(u) ==
    usr[u].pc \in {"new", "insert"} =>
        \A x \in 0 .. (NodeSize - 1) :
            Byte(usr[u].cur, x) =
                IF usr[u].pc = "insert" /\ x < NewCount(usr[u]) THEN usr[u].val ELSE 0

LEMMA AllocateBytes ==
    ASSUME TypeOK, NEW u \in Users, Allocate(u)
    PROVE  FreshBytes(u)'
  <1>1. usr'[u].pc = "size" \/ (usr'[u].pc = "new"
            /\ \E d \in Devices : usr'[u].cur = NewNode(usr[u].start, d))
    BY AllocateIs
  <1>2. CASE usr'[u].pc = "size"
    BY <1>2 DEF FreshBytes
  <1>3. ASSUME usr'[u].pc = "new", NEW d \in Devices, usr'[u].cur = NewNode(usr[u].start, d)
        PROVE  FreshBytes(u)'
    <2>1. usr[u].start \in Nat /\ Len(dev[d]) \in Nat /\ dev' = dev /\ NodeSize \in Nat
      BY UserFacts, FileFacts, AllocateIs
    <2>2. PICK m : m = usr'[u].cur
      OBVIOUS
    <2>3. m.place = d /\ m.offset = Ceiling(Len(dev[d]))
      BY <1>3, <2>1, <2>2, NewNodeIs
    <2>4. m.offset \in Nat /\ Len(dev[d]) <= m.offset
      BY <2>1, <2>3, CeilingIs
    <2>5. ASSUME NEW x \in 0 .. (NodeSize - 1)
          PROVE  ByteAt(dev'[m.place], m.offset + x) = 0
      <3>1. x \in Nat
        BY <2>1
      <3>2. ~ (m.offset + x < Len(dev[d]))
        BY <2>1, <2>4, <3>1
      <3> QED
        BY <2>1, <2>3, <3>2 DEF ByteAt
    <2> QED
      BY <1>3, <2>2, <2>5 DEF FreshBytes, Byte
  <1> QED
    BY <1>1, <1>2, <1>3

LEMMA NewBytes ==
    ASSUME Orderly, IInv, IInv', NEW u \in Users, WriteNew(u), FreshBytes(u)
    PROVE  FreshBytes(u)' /\ \A p \in Nat : View(p)' = View(p)
  <1>0. TypeOK /\ TypeOK' /\ Shape /\ Shape' /\ Local(u) /\ Grasp(u)
    BY DEF IInv, TInv
  <1>1. PICK q : q = usr'[u]
    OBVIOUS
  <1>2. /\ usr[u].pc = "new" /\ q.pc = "insert" /\ q.cur = usr[u].cur
        /\ q.end = usr[u].end /\ q.start = usr[u].start /\ q.val = usr[u].val
        /\ Wrote(usr[u].cur.place, usr[u].cur.offset, NewCount(usr[u]), usr[u].val)
        /\ tree' = tree
    BY <1>0, <1>1, WriteNewIs DEF Orderly, SameCall
  <1>3. PICK n \in Nat : n = NewCount(usr[u]) /\ n <= NodeSize
    BY <1>2, NewFacts
  <1>4. PICK m \in Node : m = usr[u].cur
    BY <1>0, <1>2 DEF Grasp
  <1>5. /\ m.place \in Devices /\ m.offset \in Nat /\ usr[u].val \in Values /\ NodeSize \in Nat \ {0}
        /\ Cover \in Nat /\ Cover' = Cover
        /\ \A i \in DOMAIN tree : tree[i] \in Node /\ tree[i].start \in Nat
    BY <1>0, <1>2, UserFacts, FileFacts DEF Node, Cover
  <1>6. \A i \in DOMAIN tree : Apart(tree[i], m)
    BY <1>0, <1>2, <1>4 DEF Local, Fresh
  <1>7. FreshBytes(u)'
    <2>1. ASSUME NEW x \in 0 .. (NodeSize - 1)
          PROVE  ByteAt(dev'[m.place], m.offset + x) = IF x < n THEN usr[u].val ELSE 0
      <3>1. PICK z \in Nat, i \in Nat : z = m.offset /\ i = z + x
        BY <1>5
      <3>2. ByteAt(dev'[m.place], i) =
                IF m.place = m.place /\ z <= i /\ i < z + n THEN usr[u].val ELSE ByteAt(dev[m.place], i)
        BY <1>0, <1>2, <1>3, <1>4, <1>5, <3>1, WroteBytes
      <3>3. (z <= i /\ i < z + n) <=> x < n
        BY <1>5, <3>1
      <3>4. ByteAt(dev[m.place], i) = 0
        BY <1>2, <1>4, <3>1 DEF FreshBytes, Byte
      <3> QED
        BY <3>1, <3>2, <3>3, <3>4
    <2>2. NewCount(usr[u])' = n
      BY <1>1, <1>2, <1>3 DEF NewCount
    <2>3. \A x \in 0 .. (NodeSize - 1) : Byte(usr[u].cur, x)' = ByteAt(dev'[m.place], m.offset + x)
      BY <1>1, <1>2, <1>4 DEF Byte
    <2> QED
      BY <1>1, <1>2, <2>1, <2>2, <2>3 DEF FreshBytes
  <1>8. ASSUME NEW p \in Nat
        PROVE  View(p)' = View(p)
    <2>1. CASE p >= Cover
      BY <1>0, <1>5, <2>1, ViewIs, ViewNext
    <2>2. CASE p < Cover
      <3>1. PICK i \in DOMAIN tree : tree[i].start <= p /\ p <= Last(tree[i])
        BY <1>0, <2>2, Covered, FileFacts
      <3>2. PICK k \in Node : k = tree[i]
        BY <1>5
      <3>3. k.start \in Nat /\ k.offset \in Nat /\ k.place \in Devices
        BY DEF Node
      <3>4. PICK x \in 0 .. (NodeSize - 1) : x = p - k.start
        <4>1. p <= k.start + NodeSize - 1 /\ k.start <= p
          BY <3>1, <3>2 DEF Last
        <4> QED
          BY <1>5, <3>3, <4>1
      <3>5. View(p) = ByteAt(dev[k.place], k.offset + x)
        BY <1>0, <3>1, <3>2, <3>4, ViewIs DEF Byte
      <3>6. View(p)' = ByteAt(dev'[k.place], k.offset + x)
        <4>1. i \in DOMAIN tree' /\ tree'[i] = k /\ (k.start <= p /\ p <= Last(k))
          BY <1>2, <3>1, <3>2
        <4>2. Last(tree[i])' = Last(k)
          BY <4>1 DEF Last
        <4>3. View(p)' = Byte(tree[i], p - tree[i].start)'
          BY <1>0, <4>1, <4>2, ViewNext
        <4> QED
          BY <3>4, <4>1, <4>3 DEF Byte
      <3>7. Apart(m, k)
        BY <1>6, <3>2 DEF Apart
      <3>8. Wrote(m.place, m.offset + 0, n, usr[u].val) /\ 0 + n <= NodeSize
        BY <1>2, <1>3, <1>4, <1>5
      <3>9. 0 \in Nat
        OBVIOUS
      <3>10. ByteAt(dev'[k.place], k.offset + x) = ByteAt(dev[k.place], k.offset + x)
        BY <1>0, <1>5, <3>7, <3>8, <3>9, ApartBytes
      <3> QED
        BY <3>5, <3>6, <3>10
    <2> QED
      BY <1>5, <2>1, <2>2
  <1> QED
    BY <1>7, <1>8

LEMMA InsertStores ==
    ASSUME Orderly, IInv, IInv', NEW u \in Users, InsertNode(u), FreshBytes(u)
    PROVE  Stores(u)
  <1>0. TypeOK /\ TypeOK' /\ Shape /\ Shape' /\ Local(u) /\ Grasp(u)
    BY DEF IInv, TInv
  <1>1. /\ usr[u].pc = "insert"
        /\ usr'[u].copied = usr[u].copied + NewCount(usr[u])
        /\ usr'[u].start = usr[u].start + NewCount(usr[u]) /\ dev' = dev
    BY <1>0, InsertNodeIs
  <1>2. PICK n \in Nat : /\ n = NewCount(usr[u]) /\ n > 0 /\ n <= NodeSize
                         /\ usr[u].start + n <= usr[u].end + 1
    BY <1>1, NewFacts
  <1>3. PICK m \in Node : m = usr[u].cur /\ tree' = Append(tree, m)
    BY <1>0, <1>1, InsertNodeIs DEF Grasp
  <1>4. /\ NodeSize \in Nat \ {0} /\ Len(tree) \in Nat /\ DOMAIN tree = 1 .. Len(tree)
        /\ tree \in Seq(Node) /\ usr[u].start = Cover /\ m.start = Cover
        /\ \A i \in DOMAIN tree : tree[i] \in Node /\ tree[i].start \in Nat
    BY <1>0, <1>1, <1>3, FileFacts DEF Local, Fresh
  <1>5. PICK c \in Nat : c = Cover
    BY <1>0, FileFacts
  <1>6. Cover' = c + NodeSize
    <2>1. Len(tree') = Len(tree) + 1
      BY <1>3, <1>4
    <2>2. (Len(tree) + 1) * NodeSize = Len(tree) * NodeSize + NodeSize
      BY <1>4
    <2> QED
      BY <1>5, <2>1, <2>2 DEF Cover
  <1>7. /\ \A i \in DOMAIN tree : i \in DOMAIN tree' /\ tree'[i] = tree[i]
        /\ Len(tree) + 1 \in DOMAIN tree' /\ tree'[Len(tree) + 1] = m
    BY <1>3, <1>4
  <1>8. ASSUME NEW p \in Nat, NEW i \in DOMAIN tree', NEW k \in Node, k = tree'[i],
               k.start <= p, p <= Last(k)
        PROVE  View(p)' = ByteAt(dev[k.place], k.offset + (p - k.start))
    <2>1. Last(tree[i])' = Last(k)
      BY <1>8 DEF Last
    <2>2. View(p)' = Byte(tree[i], p - tree[i].start)'
      BY <1>0, <1>8, <2>1, ViewNext
    <2> QED
      BY <1>1, <1>8, <2>2 DEF Byte
  <1>9. ASSUME NEW p \in Nat
        PROVE  View(p)' = IF c <= p /\ p < c + n THEN usr[u].val ELSE View(p)
    <2>1. CASE p < c
      <3>1. PICK i \in DOMAIN tree : tree[i].start <= p /\ p <= Last(tree[i])
        BY <1>0, <1>5, <2>1, Covered, FileFacts
      <3>2. PICK k \in Node : k = tree[i]
        BY <1>4
      <3>3. View(p) = ByteAt(dev[k.place], k.offset + (p - k.start))
        BY <1>0, <3>1, <3>2, ViewIs DEF Byte
      <3>4. View(p)' = ByteAt(dev[k.place], k.offset + (p - k.start))
        BY <1>7, <1>8, <3>1, <3>2
      <3> QED
        BY <2>1, <3>3, <3>4
    <2>2. CASE c <= p /\ p < c + NodeSize
      <3>1. View(p) = 0
        BY <1>0, <1>5, <2>2, ViewIs
      <3>2. m.start = c /\ p <= Last(m)
        BY <1>4, <1>5, <2>2 DEF Last
      <3>3. PICK x \in 0 .. (NodeSize - 1) : x = p - c
        BY <1>4, <2>2
      <3>4. View(p)' = ByteAt(dev[m.place], m.offset + x)
        BY <1>7, <1>8, <2>2, <3>2, <3>3
      <3>5. ByteAt(dev[m.place], m.offset + x) = IF x < n THEN usr[u].val ELSE 0
        BY <1>1, <1>2, <1>3 DEF FreshBytes, Byte
      <3>6. x < n <=> p < c + n
        BY <3>3, <2>2
      <3> QED
        BY <2>2, <3>1, <3>4, <3>5, <3>6
    <2>3. CASE p >= c + NodeSize
      <3>1. View(p) = 0
        BY <1>0, <1>4, <1>5, <2>3, ViewIs
      <3>2. View(p)' = 0
        BY <1>0, <1>6, <2>3, ViewNext
      <3>3. ~ (p < c + n)
        BY <1>2, <1>4, <2>3
      <3> QED
        BY <3>1, <3>2, <3>3
    <2> QED
      BY <1>4, <2>1, <2>2, <2>3
  <1>10. Changed(u, n)
    BY <1>4, <1>5, <1>9 DEF Changed
  <1> QED
    BY <1>1, <1>2, <1>10 DEF Stores

-----------------------------------------------------------------------------
(* The positions calls may come to. *)

Longest == Max(Counts)

(* A finite set of numbers has a greatest one. *)
LEMMA Greatest ==
    ASSUME NEW S \in SUBSET Nat, S # {}, IsFiniteSet(S)
    PROVE  \E x \in S : \A y \in S : x >= y
  <1> DEFINE Bad == {c \in Nat : \E T \in SUBSET Nat :
                        /\ T # {} /\ IsFiniteSet(T) /\ Cardinality(T) = c
                        /\ ~ \E x \in T : \A y \in T : x >= y}
  <1>1. ASSUME Bad # {}
        PROVE  FALSE
    <2>1. PICK c \in Bad : \A d \in Bad : c <= d
      BY <1>1, Least
    <2>2. PICK T \in SUBSET Nat : /\ T # {} /\ IsFiniteSet(T) /\ Cardinality(T) = c
                                  /\ ~ \E x \in T : \A y \in T : x >= y
      OBVIOUS
    <2>3. PICK t \in T : TRUE
      BY <2>2
    <2>4. PICK R : R = T \ {t}
      OBVIOUS
    <2>5. IsFiniteSet(R) /\ Cardinality(R) = c - 1 /\ Cardinality(R) \in Nat /\ c \in Nat
      BY <2>2, <2>3, <2>4, FS_RemoveElement, FS_CardinalityType
    <2>6. R # {}
      <3>1. ASSUME R = {}
            PROVE  FALSE
        <4>1. \A y \in T : y = t
          BY <2>4, <3>1
        <4>2. t \in Nat
          BY <2>3
        <4> QED
          BY <2>2, <2>3, <4>1, <4>2
      <3> QED
        BY <3>1
    <2>7. R \in SUBSET Nat /\ t \in Nat
      BY <2>3, <2>4
    <2>8. Cardinality(R) \notin Bad
      <3>1. ~ (c <= c - 1)
        BY <2>5
      <3> QED
        BY <2>1, <2>5, <3>1
    <2>9. PICK x \in R : \A y \in R : x >= y
      BY <2>5, <2>6, <2>7, <2>8
    <2>10. \A y \in T : y \in R \/ y = t
      BY <2>4
    <2>11. x \in T /\ x \in Nat
      BY <2>4, <2>7
    <2>12. CASE x >= t
      BY <2>2, <2>9, <2>10, <2>11, <2>12
    <2>13. CASE ~ (x >= t)
      <3>1. \A y \in R : y \in Nat /\ t >= y
        BY <2>7, <2>9, <2>11, <2>13
      <3>2. t >= t
        BY <2>7
      <3> QED
        BY <2>2, <2>3, <2>10, <3>1, <3>2
    <2> QED
      BY <2>12, <2>13
  <1>2. IsFiniteSet(S) => Cardinality(S) \in Nat
    BY FS_CardinalityType
  <1> QED
    BY <1>1, <1>2

LEMMA LongestIs ==
    /\ Longest \in Nat \ {0} /\ \A n \in Counts : n <= Longest
    /\ Positions = 0 .. (MaxOps * Longest - 1)
  <1>1. Counts \in SUBSET Nat /\ Counts # {} /\ IsFiniteSet(Counts) /\ 0 \notin Counts
    BY SizesAssumption
  <1>2. \E x \in Counts : \A y \in Counts : x >= y
    BY <1>1, Greatest
  <1>3. Longest \in Counts /\ \A y \in Counts : Longest >= y
    BY <1>2 DEF Longest, Max
  <1> QED
    BY <1>1, <1>3 DEF Positions, Longest

(* Calls have numbers; a call that is about to return has stored its range *)
(* or has run out of nodes.                                                *)
Finish(u) ==
    /\ usr[u].op # "read" => usr[u].val > 0
    /\ usr[u].pc = "idle" => usr[u].op = "read"
    /\ usr[u].pc \in {"size", "store"} =>
          usr[u].copied = (usr[u].end + 1) - usr[u].lo \/ ~ NodesLeft

(* How far the file may grow by the calls under way: appends, which start  *)
(* where the file ends when they have the lock, and, of other writes, the  *)
(* ones of an enlarging truncate that are still to come.                   *)
Appending == {u \in Users : usr[u].op = "append"}
AppendRoom ==
    (\A u \in Users : role[u] = "append") =>
        /\ IsFiniteSet(Appending)
        /\ isize + Cardinality(Appending) * Longest <= ops * Longest
        /\ \A u \in Appending : /\ usr[u].count <= Longest
                                /\ usr[u].pc # "lock" => usr[u].lo = isize
GrowRoom ==
    (\A u \in Users : role[u] # "append") =>
        \A u, v \in Users :
            /\ isize + usr[v].remain <= ops * Longest
            /\ usr[u].op = "write" =>
                  /\ (usr[u].end + 1) + usr[v].remain <= ops * Longest
                  /\ usr[u].pc = "store" => usr[u].snap + usr[v].remain <= ops * Longest

Deep ==
    /\ \A u \in Users : FreshBytes(u) /\ Finish(u)
    /\ AppendRoom /\ GrowRoom

-----------------------------------------------------------------------------
(* Steps as the abstract file sees them. *)

NoCall == [lo |-> 0, hi |-> -1, val |-> 0, done |-> 0]
Call(u) ==
    IF InCall(u)
    THEN [lo |-> usr[u].lo, hi |-> usr[u].end, val |-> usr[u].val, done |-> usr[u].copied]
    ELSE NoCall
Calls == [u \in Users |-> Call(u)]
Bytes == [p \in Positions |-> View(p)]

LEMMA CallsNext ==
    ASSUME NEW u \in Users, Others(u)
    PROVE  Calls' = [Calls EXCEPT ![u] = Call(u)']
  <1>1. \A v \in Users : v # u => Call(v)' = Call(v)
    BY DEF Call, InCall, Others
  <1> QED
    BY <1>1 DEF Calls

LEMMA BytesSame ==
    ASSUME \A p \in Nat : View(p)' = View(p)
    PROVE  Bytes' = Bytes
  <1>1. \A p \in Positions : p \in Nat
    BY DEF Positions
  <1> QED
    BY <1>1 DEF Bytes

LEMMA Stutters ==
    ASSUME NEW u \in Users, Others(u), Call(u)' = Call(u), \A p \in Nat : View(p)' = View(p),
           NodesLeft' = NodesLeft
    PROVE  UNCHANGED Store!vars
  <1>1. Calls' = Calls
    BY CallsNext DEF Calls
  <1>2. Bytes' = Bytes
    BY BytesSame
  <1> QED
    BY <1>1, <1>2 DEF Calls, Bytes, Call, NoCall, Store!vars

LEMMA CallStarts ==
    ASSUME NEW u \in Users, Others(u), ~ InCall(u), InCall(u)',
           usr'[u].lo \in Positions, usr'[u].end \in Positions, usr'[u].lo <= usr'[u].end,
           usr'[u].val \in Values \ {0}, usr'[u].copied = 0,
           \A p \in Nat : View(p)' = View(p), NodesLeft' = NodesLeft
    PROVE  Store!Next
  <1>1. PICK c : c = Call(u)'
    OBVIOUS
  <1>2. c = [lo |-> usr'[u].lo, hi |-> usr'[u].end, val |-> usr'[u].val, done |-> 0]
    BY <1>1 DEF Call
  <1>3. c \in Store!Write
    BY <1>2 DEF Store!Write
  <1>4. Calls' = [Calls EXCEPT ![u] = c] /\ Calls[u] = NoCall /\ Calls'[u] = c
    <2>1. Calls' = [Calls EXCEPT ![u] = c]
      BY <1>1, CallsNext
    <2> QED
      BY <2>1 DEF Calls, Call
  <1>5. Bytes' = Bytes
    BY BytesSame
  <1>6. Store!Start(u)
    BY <1>3, <1>4, <1>5 DEF Store!Start, Calls, Call, NoCall, Bytes, Store!Idle
  <1> QED
    BY <1>6 DEF Store!Next

LEMMA Returns ==
    ASSUME NEW u \in Users, Others(u), InCall(u), ~ InCall(u)', usr[u].end # -1,
           usr[u].copied = (usr[u].end - usr[u].lo) + 1 \/ ~ NodesLeft,
           \A p \in Nat : View(p)' = View(p), NodesLeft' = NodesLeft
    PROVE  Store!Next
  <1>1. Calls' = [Calls EXCEPT ![u] = NoCall] /\ Calls'[u] = NoCall
    <2>1. Calls' = [Calls EXCEPT ![u] = Call(u)'] /\ Call(u)' = NoCall
      BY CallsNext DEF Call
    <2> QED
      BY <2>1 DEF Calls
  <1>2. /\ Calls[u].hi = usr[u].end /\ Calls[u].lo = usr[u].lo /\ Calls[u].done = usr[u].copied
        /\ Calls[u] # NoCall
    BY DEF Calls, Call, NoCall
  <1>3. Bytes' = Bytes
    BY BytesSame
  <1>4. Store!Return(u)
    BY <1>1, <1>2, <1>3 DEF Store!Return, Calls, Call, NoCall, Bytes, Store!Idle
  <1> QED
    BY <1>4 DEF Store!Next

LEMMA CallStores ==
    ASSUME TypeOK, NEW u \in Users, Others(u), InCall(u), InCall(u)', SameCall(usr'[u], usr[u]),
           usr[u].copied = usr[u].start - usr[u].lo, Stores(u), NodesLeft' = NodesLeft
    PROVE  Store!Next
  <1>1. PICK n \in Nat : /\ n > 0 /\ usr[u].start + n <= usr[u].end + 1
                         /\ usr'[u].copied = usr[u].copied + n
                         /\ Changed(u, n)
    BY DEF Stores
  <1>2. /\ usr[u].lo \in Nat /\ usr[u].end \in Int /\ usr[u].start \in Nat /\ usr[u].copied \in Nat
    BY UserFacts
  <1>3. PICK l \in Nat, e \in Int, a \in Nat, d \in Nat :
            l = usr[u].lo /\ e = usr[u].end /\ a = usr[u].start /\ d = usr[u].copied
    BY <1>2
  <1>4. PICK v : v = usr[u].val
    OBVIOUS
  <1>5. d = a - l /\ a + n <= e + 1
    BY <1>1, <1>3
  <1>6. PICK f \in Nat : f = d + n
    OBVIOUS
  <1>7. /\ Calls[u] = [lo |-> l, hi |-> e, val |-> v, done |-> d]
        /\ Call(u)' = [lo |-> l, hi |-> e, val |-> v, done |-> f]
    BY <1>1, <1>3, <1>4, <1>6 DEF Calls, Call, SameCall
  <1>8. Calls' = [Calls EXCEPT ![u].done = f] /\ Calls'[u].done = f
    <2>1. Calls' = [Calls EXCEPT ![u] = [lo |-> l, hi |-> e, val |-> v, done |-> f]]
      BY <1>7, CallsNext
    <2>2. [[lo |-> l, hi |-> e, val |-> v, done |-> d] EXCEPT !.done = f] =
              [lo |-> l, hi |-> e, val |-> v, done |-> f]
      OBVIOUS
    <2>3. Calls' = [Calls EXCEPT ![u].done = f]
      BY <1>7, <2>1, <2>2
    <2> QED
      BY <2>1, <2>3 DEF Calls
  <1>9. /\ Calls[u].lo = l /\ Calls[u].hi = e /\ Calls[u].val = v /\ Calls[u].done = d
        /\ f - d = n
    BY <1>6, <1>7
  <1>10. n \in 1 .. (e - l + 1 - d)
    BY <1>1, <1>5
  <1>11. Bytes' = [p \in Positions |->
                     IF p \in (l + d) .. (l + d + n - 1) THEN v ELSE Bytes[p]]
    <2>1. ASSUME NEW p \in Positions
          PROVE  View(p)' = IF p \in (l + d) .. (l + d + n - 1) THEN v ELSE View(p)
      <3>1. p \in Nat
        BY DEF Positions
      <3>2. View(p)' = IF a <= p /\ p < a + n THEN v ELSE View(p)
        BY <1>1, <1>3, <1>4, <3>1 DEF Changed
      <3>3. (a <= p /\ p < a + n) <=> p \in (l + d) .. (l + d + n - 1)
        BY <1>5, <3>1
      <3> QED
        BY <3>2, <3>3
    <2> QED
      BY <2>1 DEF Bytes
  <1>12. Store!Store(u)
    <2>1. Calls'[u].done - Calls[u].done = n
      BY <1>8, <1>9
    <2>2. Calls' = [Calls EXCEPT ![u].done = @ + n]
      BY <1>6, <1>8, <1>9
    <2> QED
      BY <1>9, <1>10, <1>11, <2>1, <2>2
      DEF Store!Store, Calls, Call, NoCall, Bytes
  <1> QED
    BY <1>12 DEF Store!Next

LEMMA RunsOut ==
    ASSUME NEW u \in Users, Others(u), Call(u)' = Call(u), \A p \in Nat : View(p)' = View(p),
           NodesLeft, ~ NodesLeft'
    PROVE  Store!Next
  <1>1. Calls' = Calls
    BY CallsNext DEF Calls
  <1>2. Bytes' = Bytes
    BY BytesSame
  <1>3. Store!RunOut
    BY <1>1, <1>2 DEF Calls, Bytes, Call, NoCall, Store!RunOut
  <1> QED
    BY <1>3 DEF Store!Next

(* A write begins in the abstract file when it has the lock. *)
LEMMA WithinPositions ==
    ASSUME TypeOK, NEW l \in Nat, NEW e \in Int, l <= e, e + 1 <= ops * Longest
    PROVE  l \in Positions /\ e \in Positions
  <1>1. /\ Longest \in Nat \ {0} /\ ops \in Nat /\ MaxOps \in Nat /\ ops <= MaxOps
        /\ Positions = 0 .. (MaxOps * Longest - 1)
    BY LongestIs, SizesAssumption, TypeFacts
  <1>2. ops * Longest <= MaxOps * Longest
    BY <1>1, Multiples
  <1>3. ops * Longest \in Nat /\ MaxOps * Longest \in Nat
    BY <1>1
  <1> QED
    BY <1>1, <1>2, <1>3

LEMMA LockReadRefines ==
    ASSUME Orderly, IInv, IInv', Deep, NEW u \in Users, LockRead(u)
    PROVE  Store!Next \/ UNCHANGED Store!vars
  <1>0. TypeOK /\ TypeOK' /\ Local(u) /\ Finish(u) /\ GrowRoom
    BY DEF IInv, TInv, Deep
  <1>1. /\ usr[u].pc = "lock" /\ usr[u].op \in {"read", "write"} /\ Others(u)
        /\ Walked(usr'[u], usr[u]) /\ UNCHANGED <<dev, tree, next>>
    BY <1>0, LockReadIs
  <1>2. /\ \A p \in Nat : View(p)' = View(p)
        /\ NodesLeft' = NodesLeft
    BY <1>1, ViewSame DEF NodesLeft
  <1>3. ~ InCall(u) /\ usr'[u].op = usr[u].op /\ usr'[u].pc \in {"scanned", "chunk"}
        /\ usr'[u].lo = usr[u].lo /\ usr'[u].end = usr[u].end /\ usr'[u].val = usr[u].val
        /\ usr'[u].copied = usr[u].copied
    BY <1>1 DEF InCall, Walked, SameCall
  <1>4. CASE usr[u].op = "read"
    <2>1. Call(u)' = Call(u)
      BY <1>3, <1>4 DEF Call, InCall
    <2> QED
      BY <1>1, <1>2, <2>1, Stutters
  <1>5. CASE usr[u].op = "write"
    <2>1. InCall(u)'
      BY <1>3, <1>5 DEF InCall
    <2>2. /\ usr[u].count > 0 /\ usr[u].end + 1 = usr[u].lo + usr[u].count /\ usr[u].copied = 0
      BY <1>0, <1>1 DEF Local, InRange
    <2>3. /\ usr[u].count \in Nat /\ usr[u].lo \in Nat /\ usr[u].end \in Int
          /\ usr[u].val \in Values /\ usr[u].remain \in Nat
      BY <1>0, UserFacts
    <2>4. \A v \in Users : role[v] # "append"
      BY <1>0, <1>5, Discipline DEF Local, Ops
    <2>5. (usr[u].end + 1) + usr[u].remain <= ops * Longest
      BY <1>0, <1>5, <2>4 DEF GrowRoom
    <2>6. usr[u].end + 1 <= ops * Longest /\ usr[u].lo <= usr[u].end
      <3>1. ops * Longest \in Nat
        <4>1. ops \in Nat /\ Longest \in Nat
          BY <1>0, LongestIs, TypeFacts
        <4> QED
          BY <4>1
      <3> QED
        BY <2>2, <2>3, <2>5, <3>1
    <2>7. usr[u].lo \in Positions /\ usr[u].end \in Positions
      BY <1>0, <2>3, <2>6, WithinPositions
    <2>8. usr[u].val \in Values \ {0}
      BY <1>0, <1>5, <2>3 DEF Finish, Values
    <2> QED
      BY <1>1, <1>2, <1>3, <2>1, <2>2, <2>6, <2>7, <2>8, CallStarts
  <1> QED
    BY <1>1, <1>4, <1>5

LEMMA LockWriteRefines ==
    ASSUME Orderly, IInv, IInv', Deep, NEW u \in Users, LockWrite(u)
    PROVE  Store!Next \/ UNCHANGED Store!vars
  <1>0. TypeOK /\ TypeOK' /\ Local(u) /\ Finish(u) /\ AppendRoom
    BY DEF IInv, TInv, Deep
  <1>1. /\ usr[u].pc = "lock" /\ usr[u].op = "append" /\ Others(u)
        /\ UNCHANGED <<dev, tree, next>>
    BY <1>0, LockWriteIs
  <1>2. /\ \A p \in Nat : View(p)' = View(p)
        /\ NodesLeft' = NodesLeft
    BY <1>1, ViewSame DEF NodesLeft
  <1>3. /\ usr'[u].op = "append" /\ usr'[u].pc \in {"scanned", "chunk"}
        /\ usr'[u].lo = isize /\ usr'[u].end = isize + usr[u].count - 1
        /\ usr'[u].val = usr[u].val /\ usr'[u].copied = usr[u].copied
    BY <1>0, LockWriteIs DEF Walked, SameCall
  <1>4. ~ InCall(u) /\ InCall(u)'
    BY <1>1, <1>3 DEF InCall
  <1>5. usr[u].count > 0 /\ usr[u].copied = 0
    BY <1>0, <1>1 DEF Local, InRange
  <1>6. usr[u].count \in Nat /\ usr[u].val \in Values /\ isize \in Nat
    BY <1>0, UserFacts, TypeFacts
  <1>7. \A v \in Users : role[v] = "append"
    BY <1>0, <1>1, Discipline DEF Local, Ops
  <1>8. /\ IsFiniteSet(Appending) /\ isize + Cardinality(Appending) * Longest <= ops * Longest
        /\ u \in Appending /\ usr[u].count <= Longest
    BY <1>0, <1>1, <1>7 DEF AppendRoom, Appending
  <1>9. PICK k \in Nat : k = Cardinality(Appending) /\ k >= 1
    BY <1>8, FS_CardinalityType, FS_EmptySet
  <1>10. Longest \in Nat \ {0} /\ ops \in Nat /\ ops * Longest \in Nat /\ k * Longest \in Nat
    BY <1>0, LongestIs, TypeFacts
  <1>11. 1 * Longest <= k * Longest
    BY <1>9, <1>10, Multiples
  <1>12. PICK e \in Int : e = isize + usr[u].count - 1
    BY <1>6
  <1>13. isize <= e /\ e + 1 <= ops * Longest
    BY <1>5, <1>6, <1>8, <1>9, <1>10, <1>11, <1>12
  <1>14. isize \in Positions /\ e \in Positions
    BY <1>0, <1>6, <1>13, WithinPositions
  <1>15. usr[u].val \in Values \ {0}
    BY <1>0, <1>1, <1>6 DEF Finish, Values
  <1> QED
    BY <1>1, <1>2, <1>3, <1>4, <1>5, <1>12, <1>13, <1>14, <1>15, CallStarts

LEMMA ReturnRefines ==
    ASSUME Orderly, IInv, IInv', Deep, NEW u \in Users, SizeAppend(u) \/ StoreSize(u)
    PROVE  Store!Next
  <1>0. TypeOK /\ Local(u) /\ Finish(u)
    BY DEF IInv, TInv, Deep
  <1>1. /\ usr[u].pc \in {"size", "store"} /\ Others(u) /\ UNCHANGED <<dev, tree, next>>
        /\ usr[u].op # "read"
    BY <1>0, SizeAppendIs, StoreSizeIs DEF Local, Ops
  <1>2. usr'[u].pc \in {"idle", "more"}
    BY <1>0, SizeAppendIs, StoreSizeIs DEF IdleUser
  <1>3. InCall(u) /\ ~ InCall(u)'
    BY <1>1, <1>2 DEF InCall
  <1>4. /\ \A p \in Nat : View(p)' = View(p)
        /\ NodesLeft' = NodesLeft
    BY <1>1, ViewSame DEF NodesLeft
  <1>5. /\ usr[u].count \in Nat /\ usr[u].lo \in Nat /\ usr[u].end \in Int
    BY <1>0, UserFacts
  <1>6. usr[u].count > 0 /\ usr[u].end + 1 = usr[u].lo + usr[u].count
    BY <1>0, <1>1 DEF Local, InRange
  <1>7. usr[u].end # -1
    BY <1>5, <1>6
  <1>8. usr[u].copied = (usr[u].end - usr[u].lo) + 1 \/ ~ NodesLeft
    <2>1. usr[u].copied = (usr[u].end + 1) - usr[u].lo \/ ~ NodesLeft
      BY <1>0, <1>1 DEF Finish
    <2>2. (usr[u].end + 1) - usr[u].lo = (usr[u].end - usr[u].lo) + 1
      BY <1>5
    <2> QED
      BY <2>1, <2>2
  <1> QED
    BY <1>1, <1>3, <1>4, <1>7, <1>8, Returns

LEMMA StoreRefines ==
    ASSUME Orderly, IInv, IInv', Deep, NEW u \in Users, WriteChunk(u) \/ InsertNode(u)
    PROVE  Store!Next
  <1>0. TypeOK /\ Local(u) /\ FreshBytes(u) /\ Grasp(u)
    BY DEF IInv, TInv, Deep
  <1>1. Stores(u)
    BY <1>0, ChunkStores, InsertStores
  <1>2. /\ usr[u].pc \in {"chunk", "insert"} /\ usr[u].op # "read" /\ Others(u)
        /\ usr'[u].pc \in {"next", "fill"} /\ SameCall(usr'[u], usr[u]) /\ next' = next
    <2>1. CASE WriteChunk(u)
      BY <1>0, <2>1, WriteChunkIs DEF Orderly, Advanced
    <2>2. CASE InsertNode(u)
      BY <1>0, <2>2, InsertNodeIs DEF Local, Ops, FillPCs
    <2> QED
      BY <2>1, <2>2
  <1>3. InCall(u) /\ InCall(u)'
    BY <1>2 DEF InCall, SameCall
  <1>4. usr[u].copied = usr[u].start - usr[u].lo
    BY <1>0, <1>2 DEF Local, Progress, WalkPCs, FillPCs
  <1>5. NodesLeft' = NodesLeft
    BY <1>2 DEF NodesLeft
  <1> QED
    BY <1>0, <1>1, <1>2, <1>3, <1>4, <1>5, CallStores

LEMMA AllocateRefines ==
    ASSUME Orderly, IInv, IInv', Deep, NEW u \in Users, Allocate(u)
    PROVE  Store!Next \/ UNCHANGED Store!vars
  <1>0. TypeOK /\ TypeOK' /\ Local(u)
    BY DEF IInv, TInv
  <1>1. /\ usr[u].pc = "fill" /\ Others(u) /\ SameCall(usr'[u], usr[u])
        /\ usr'[u].copied = usr[u].copied /\ usr'[u].pc \in {"new", "size"}
        /\ next' >= next /\ UNCHANGED <<dev, tree>>
    BY <1>0, AllocateIs
  <1>2. Call(u)' = Call(u)
    BY <1>1 DEF Call, InCall, SameCall
  <1>3. \A p \in Nat : View(p)' = View(p)
    BY <1>1, ViewSame
  <1>4. next \in Nat /\ next' \in Nat /\ IndexNr \in Nat
    BY <1>0, SizesAssumption, TypeFacts DEF TypeOK
  <1>5. NodesLeft' => NodesLeft
    BY <1>1, <1>4 DEF NodesLeft
  <1>6. CASE NodesLeft' = NodesLeft
    BY <1>1, <1>2, <1>3, <1>6, Stutters
  <1>7. CASE NodesLeft /\ ~ NodesLeft'
    BY <1>1, <1>2, <1>3, <1>7, RunsOut
  <1>8. NodesLeft \in BOOLEAN /\ NodesLeft' \in BOOLEAN
    BY DEF NodesLeft
  <1> QED
    BY <1>5, <1>6, <1>7, <1>8

(* The steps that the abstract file does not see. *)
LEMMA BeginRefines ==
    ASSUME Orderly, IInv, NEW u \in Users,
           ReadCall(u) \/ WriteCall(u) \/ TruncateCall(u) \/ NextChunk(u)
    PROVE  UNCHANGED Store!vars
  <1>0. TypeOK
    BY DEF IInv, TInv
  <1>1. /\ usr[u].pc \in {"idle", "more"} /\ usr'[u].pc \in {"lock", "more"} /\ Others(u)
        /\ UNCHANGED <<dev, tree, next>>
    BY <1>0, ReadCallIs, WriteCallIs, TruncateCallIs, NextChunkIs DEF Began
  <1>2. Call(u)' = Call(u)
    BY <1>1 DEF Call, InCall
  <1>3. NodesLeft' = NodesLeft
    BY <1>1 DEF NodesLeft
  <1> QED
    BY <1>1, <1>2, <1>3, ViewSame, Stutters

LEMMA SeekRefines ==
    ASSUME Orderly, IInv, NEW u \in Users, polystore_lseek(u)
    PROVE  UNCHANGED Store!vars
  <1>1. UNCHANGED <<dev, tree, next, usr>>
    BY SeekIs DEF IInv, TInv
  <1>2. Others(u) /\ Call(u)' = Call(u)
    BY <1>1 DEF Call, InCall, Others
  <1>3. NodesLeft' = NodesLeft
    BY <1>1 DEF NodesLeft
  <1> QED
    BY <1>1, <1>2, <1>3, ViewSame, Stutters

LEMMA WalkRefines ==
    ASSUME Orderly, IInv, NEW u \in Users,
           ReadChunk(u) \/ NextNode(u) \/ Scanned(u) \/ LoadSize(u)
    PROVE  UNCHANGED Store!vars
  <1>0. TypeOK /\ Grasp(u)
    BY DEF IInv, TInv
  <1>1. Others(u) /\ UNCHANGED <<dev, tree, next>>
    BY <1>0, ReadChunkIs, NextNodeIs, ScannedIs, LoadSizeIs
  <1>2. Call(u)' = Call(u)
    <2>1. CASE ReadChunk(u)
      <3>1. usr[u].op = "read" /\ SameCall(usr'[u], usr[u])
        BY <1>0, <2>1, ReadChunkIs DEF Advanced, GaveUp
      <3> QED
        BY <3>1 DEF Call, InCall, SameCall
    <2>2. CASE NextNode(u)
      <3>1. usr[u].pc = "next" /\ usr'[u].pc \in {"scanned", "chunk"} /\ SameCall(usr'[u], usr[u])
            /\ usr'[u].copied = usr[u].copied
        BY <1>0, <2>2, NextNodeIs DEF Walked
      <3> QED
        BY <3>1 DEF Call, InCall, SameCall
    <2>3. CASE Scanned(u)
      <3>1. usr[u].pc = "scanned"
            /\ \/ usr[u].op = "read" /\ usr'[u].op = "read"
               \/ /\ usr[u].op # "read" /\ SameCall(usr'[u], usr[u]) /\ usr'[u].pc = "fill"
                  /\ usr'[u].copied = usr[u].copied
        BY <1>0, <2>3, ScannedIs DEF IdleUser
      <3> QED
        BY <3>1 DEF Call, InCall, SameCall
    <2>4. CASE LoadSize(u)
      <3>1. /\ usr[u].pc = "size" /\ usr'[u].pc = "store" /\ usr'[u].op = usr[u].op
            /\ usr'[u].lo = usr[u].lo /\ usr'[u].end = usr[u].end
            /\ usr'[u].copied = usr[u].copied /\ usr'[u].val = usr[u].val
        BY <1>0, <2>4, LoadSizeIs
      <3> QED
        BY <3>1 DEF Call, InCall
    <2> QED
      BY <2>1, <2>2, <2>3, <2>4
  <1>3. NodesLeft' = NodesLeft
    BY <1>1 DEF NodesLeft
  <1> QED
    BY <1>1, <1>2, <1>3, ViewSame, Stutters

LEMMA NewRefines ==
    ASSUME Orderly, IInv, IInv', Deep, NEW u \in Users, WriteNew(u)
    PROVE  UNCHANGED Store!vars
  <1>0. TypeOK /\ Grasp(u) /\ FreshBytes(u)
    BY DEF IInv, TInv, Deep
  <1>1. /\ usr[u].pc = "new" /\ usr'[u].pc = "insert" /\ Others(u) /\ SameCall(usr'[u], usr[u])
        /\ usr'[u].copied = usr[u].copied /\ next' = next
    BY <1>0, WriteNewIs
  <1>2. Call(u)' = Call(u)
    BY <1>1 DEF Call, InCall, SameCall
  <1>3. NodesLeft' = NodesLeft
    BY <1>1 DEF NodesLeft
  <1>4. \A p \in Nat : View(p)' = View(p)
    BY <1>0, NewBytes
  <1> QED
    BY <1>1, <1>2, <1>3, <1>4, Stutters

(* Every step of DirectIO is a step of FileStore, or none. *)
LEMMA StepRefines ==
    ASSUME Orderly, IInv, IInv', Deep, [Next]_vars
    PROVE  [Store!Next]_(Store!vars)
  <1>1. CASE UNCHANGED vars
    <2>1. UNCHANGED <<dev, tree, next, usr>>
      BY <1>1 DEF vars
    <2>2. Calls' = Calls
      BY <2>1 DEF Calls, Call, InCall
    <2>3. Bytes' = Bytes
      BY <2>1, ViewSame, BytesSame
    <2>4. NodesLeft' = NodesLeft
      BY <2>1 DEF NodesLeft
    <2> QED
      BY <2>2, <2>3, <2>4 DEF Calls, Bytes, Call, NoCall, Store!vars
  <1>2. CASE Done
    BY <1>1, <1>2 DEF Done
  <1>3. ASSUME NEW u \in Users, ReadCall(u) \/ WriteCall(u) \/ TruncateCall(u) \/ polystore_lseek(u)
        PROVE  UNCHANGED Store!vars
    BY <1>3, BeginRefines, SeekRefines, Zenon
  <1>4. ASSUME NEW u \in Users, UserStep(u)
        PROVE  Store!Next \/ UNCHANGED Store!vars
    BY <1>4, LockReadRefines, LockWriteRefines, StoreRefines, WalkRefines, AllocateRefines,
       NewRefines, ReturnRefines, BeginRefines, Zenon DEF UserStep
  <1> QED
    BY <1>1, <1>2, <1>3, <1>4, Zenon DEF Next

LEMMA InitRefines ==
    ASSUME Orderly, Init
    PROVE  Store!Init
  <1>1. TypeOK /\ Shape
    BY InitIInv DEF IInv, TInv
  <1>2. Cover = 0
    <2>1. Len(tree) = 0 /\ NodeSize \in Nat
      BY SizesAssumption DEF Init
    <2> QED
      BY <2>1 DEF Cover
  <1>3. Bytes = [p \in Positions |-> 0]
    <2>1. \A p \in Positions : p \in Nat /\ p >= 0
      BY DEF Positions
    <2>2. \A p \in Positions : View(p) = 0
      BY <1>1, <1>2, <2>1, ViewIs
    <2> QED
      BY <2>2 DEF Bytes
  <1>4. Calls = [u \in Users |-> NoCall]
    <2>1. \A u \in Users : ~ InCall(u)
      BY DEF Init, InCall, IdleUser
    <2> QED
      BY <2>1 DEF Calls, Call
  <1>5. NodesLeft
    BY SizesAssumption DEF Init, NodesLeft
  <1> QED
    BY <1>3, <1>4, <1>5 DEF Calls, Bytes, Call, NoCall, Store!Init, Store!Idle

-----------------------------------------------------------------------------
(* Deep is kept. *)

LEMMA OthersDeep ==
    ASSUME TypeOK, TypeOK', Deep, NEW u \in Users, Others(u), next <= next',
           NEW v \in Users, v # u
    PROVE  Finish(v)' /\ (dev' = dev => FreshBytes(v)')
  <1>1. usr'[v] = usr[v] /\ Finish(v) /\ FreshBytes(v)
    BY DEF Others, Deep
  <1>2. NodesLeft' => NodesLeft
    <2>1. next \in Nat /\ next' \in Nat /\ IndexNr \in Nat
      BY SizesAssumption, TypeFacts DEF TypeOK
    <2> QED
      BY <2>1 DEF NodesLeft
  <1>3. Finish(v)'
    BY <1>1, <1>2 DEF Finish
  <1>4. dev' = dev => FreshBytes(v)'
    BY <1>1 DEF FreshBytes, Byte, NewCount
  <1> QED
    BY <1>3, <1>4

(* A step that neither lengthens a call nor the file leaves room for what  *)
(* is to come.                                                             *)
Keeps(u) ==
    /\ Others(u) /\ role' = role /\ isize' = isize /\ ops <= ops'
    /\ usr'[u].remain <= usr[u].remain
    /\ usr'[u].op # "read" =>
          /\ usr'[u].op = usr[u].op /\ usr'[u].count = usr[u].count
          /\ usr'[u].lo = usr[u].lo /\ usr'[u].end = usr[u].end
          /\ usr'[u].pc # "lock" => usr[u].pc # "lock" \/ usr[u].op = "write"
          /\ usr'[u].pc = "store" => usr'[u].snap = isize

LEMMA RoomFacts ==
    ASSUME TypeOK, TypeOK', ops <= ops'
    PROVE  /\ Longest \in Nat \ {0} /\ ops \in Nat /\ ops' \in Nat /\ isize \in Nat /\ isize' \in Nat
           /\ ops * Longest \in Nat /\ ops' * Longest \in Nat
           /\ ops * Longest <= ops' * Longest
  <1>1. Longest \in Nat \ {0} /\ Longest \in Nat /\ ops \in Nat /\ ops' \in Nat
        /\ isize \in Nat /\ isize' \in Nat
    BY LongestIs, SizesAssumption, TypeFacts DEF TypeOK
  <1>2. ops * Longest <= ops' * Longest
    BY <1>1, Multiples
  <1>3. ops * Longest \in Nat /\ ops' * Longest \in Nat
    <2>1. \A a, b \in Nat : a * b \in Nat
      OBVIOUS
    <2> QED
      BY <1>1, <2>1, Zenon
  <1> QED
    BY <1>1, <1>2, <1>3

LEMMA RoomKept ==
    ASSUME TypeOK, TypeOK', AppendRoom, GrowRoom, NEW u \in Users, Keeps(u)
    PROVE  AppendRoom' /\ GrowRoom'
  <1>0. /\ Longest \in Nat \ {0} /\ isize \in Nat /\ isize' = isize
        /\ ops * Longest \in Nat /\ ops' * Longest \in Nat
        /\ ops * Longest <= ops' * Longest /\ role' = role
    BY RoomFacts DEF Keeps
  <1>r. PICK w \in Nat, z \in Nat : w = ops * Longest /\ z = ops' * Longest /\ w <= z
    BY <1>0
  <1>1. ASSUME \A v \in Users : role[v] = "append"
        PROVE  /\ IsFiniteSet(Appending')
               /\ isize' + Cardinality(Appending') * Longest <= ops' * Longest
               /\ \A v \in Appending' : /\ usr'[v].count <= Longest
                                        /\ usr'[v].pc # "lock" => usr'[v].lo = isize'
    <2>1. /\ IsFiniteSet(Appending)
          /\ isize + Cardinality(Appending) * Longest <= ops * Longest
          /\ \A v \in Appending : /\ usr[v].count <= Longest
                                  /\ usr[v].pc # "lock" => usr[v].lo = isize
      BY <1>1 DEF AppendRoom
    <2>2. Appending' \subseteq Appending
      BY DEF Appending, Keeps, Others
    <2>3. /\ IsFiniteSet(Appending') /\ Cardinality(Appending') <= Cardinality(Appending)
          /\ Cardinality(Appending') \in Nat /\ Cardinality(Appending) \in Nat
      BY <2>1, <2>2, FS_Subset, FS_CardinalityType
    <2>4. PICK a \in Nat, b \in Nat :
              a = Cardinality(Appending') /\ b = Cardinality(Appending) /\ a <= b
      BY <2>3
    <2>5. a * Longest <= b * Longest /\ a * Longest \in Nat /\ b * Longest \in Nat
      BY <1>0, <2>4, Multiples
    <2>6. isize + a * Longest <= z
      BY <1>0, <1>r, <2>1, <2>4, <2>5
    <2>7. ASSUME NEW v \in Appending'
          PROVE  /\ usr'[v].count <= Longest
                 /\ usr'[v].pc # "lock" => usr'[v].lo = isize
      <3>1. v \in Users /\ usr'[v].op = "append" /\ v \in Appending /\ usr[v].op = "append"
        BY <2>2, <2>7 DEF Appending
      <3>2. CASE v = u
        BY <2>1, <3>1, <3>2 DEF Keeps
      <3>3. CASE v # u
        BY <2>1, <3>1, <3>3 DEF Keeps, Others
      <3> QED
        BY <3>2, <3>3
    <2> QED
      BY <1>0, <1>r, <2>3, <2>4, <2>6, <2>7
  <1>2. ASSUME \A v \in Users : role[v] # "append", NEW x \in Users, NEW y \in Users
        PROVE  /\ isize' + usr'[y].remain <= ops' * Longest
               /\ usr'[x].op = "write" =>
                     /\ (usr'[x].end + 1) + usr'[y].remain <= ops' * Longest
                     /\ usr'[x].pc = "store" => usr'[x].snap + usr'[y].remain <= ops' * Longest
    <2>1. /\ isize + usr[y].remain <= w
          /\ usr[x].op = "write" =>
                /\ (usr[x].end + 1) + usr[y].remain <= w
                /\ usr[x].pc = "store" => usr[x].snap + usr[y].remain <= w
      BY <1>2, <1>r DEF GrowRoom
    <2>2. /\ usr[y].remain \in Nat /\ usr[x].end \in Int /\ usr[x].snap \in Nat
          /\ usr'[y].remain \in Nat
      BY UserFacts DEF TypeOK
    <2>3. PICK m \in Nat, n \in Nat : m = usr'[y].remain /\ n = usr[y].remain /\ m <= n
      BY <2>2 DEF Keeps, Others
    <2>4. isize + m <= z
      BY <1>0, <1>r, <2>1, <2>3
    <2>5. ASSUME usr'[x].op = "write"
          PROVE  /\ (usr'[x].end + 1) + m <= z
                 /\ usr'[x].pc = "store" => usr'[x].snap + m <= z
      <3>1. usr[x].op = "write" /\ usr'[x].end = usr[x].end
        BY <2>5 DEF Keeps, Others
      <3>2. PICK e \in Int : e = usr[x].end
        BY <2>2
      <3>3. (e + 1) + n <= w
        BY <2>1, <2>3, <3>1, <3>2
      <3>4. (e + 1) + m <= z
        BY <1>r, <2>3, <3>3
      <3>5. ASSUME usr'[x].pc = "store"
            PROVE  usr'[x].snap + m <= z
        <4>1. CASE x = u
          <5>1. usr'[x].snap = isize
            BY <2>5, <3>5, <4>1 DEF Keeps
          <5> QED
            BY <2>4, <5>1
        <4>2. CASE x # u
          <5>1. usr'[x] = usr[x]
            BY <4>2 DEF Keeps, Others
          <5>2. usr[x].snap + n <= w
            BY <2>1, <2>3, <3>1, <3>5, <5>1
          <5> QED
            BY <1>r, <2>2, <2>3, <5>1, <5>2
        <4> QED
          BY <4>1, <4>2
      <3> QED
        BY <3>1, <3>2, <3>4, <3>5
    <2> QED
      BY <1>0, <1>r, <2>3, <2>4, <2>5
  <1>3. AppendRoom'
    BY <1>0, <1>1 DEF AppendRoom
  <1>4. GrowRoom'
    BY <1>0, <1>2 DEF GrowRoom
  <1> QED
    BY <1>3, <1>4

LEMMA OpsKept ==
    ASSUME NEW u \in Users, UserStep(u)
    PROVE  ops' = ops
  BY DEF UserStep, LockRead, LockWrite, ReadChunk, WriteChunk, NextNode, Scanned, Allocate,
         WriteNew, InsertNode, SizeAppend, LoadSize, StoreSize, NextChunk

LEMMA DeepStep ==
    ASSUME TypeOK, TypeOK', Deep, NEW u \in Users, Others(u), dev' = dev, next <= next',
           FreshBytes(u)', Finish(u)', AppendRoom', GrowRoom'
    PROVE  Deep'
  <1>1. \A v \in Users : FreshBytes(v)' /\ Finish(v)'
    BY OthersDeep
  <1> QED
    BY <1>1 DEF Deep

LEMMA QuietDeep ==
    ASSUME TypeOK, TypeOK', Deep, NEW u \in Users, Keeps(u), UNCHANGED <<dev, tree>>, next <= next',
           FreshBytes(u)', Finish(u)'
    PROVE  Deep'
  <1>1. AppendRoom' /\ GrowRoom'
    BY RoomKept DEF Deep
  <1> QED
    BY <1>1, DeepStep DEF Keeps

LEMMA NextIs ==
    ASSUME TypeOK, next' = next
    PROVE  next <= next'
  BY TypeFacts

LEMMA DeepReadCall ==
    ASSUME Orderly, IInv, IInv', Deep, NEW u \in Users, ReadCall(u)
    PROVE  Deep'
  <1>0. TypeOK /\ TypeOK' /\ Holds(u) /\ usr[u].remain \in Nat /\ ops \in Nat
    BY UserFacts, TypeFacts DEF IInv, TInv, Locks
  <1>1. /\ usr[u].pc = "idle" /\ usr'[u].pc = "lock" /\ usr'[u].op = "read" /\ Others(u)
        /\ usr'[u].remain = 0 /\ ops' = ops + 1
        /\ UNCHANGED <<dev, tree, next, treelock, isize, role>>
    BY <1>0, ReadCallIs DEF Began
  <1>2. Keeps(u)
    BY <1>0, <1>1 DEF Keeps
  <1>3. FreshBytes(u)' /\ Finish(u)'
    BY <1>1 DEF FreshBytes, Finish
  <1>4. u \notin treelock.writer
    BY <1>0, <1>1 DEF Holds, WalkPCs, FillPCs
  <1> QED
    BY <1>0, <1>1, <1>2, <1>3, <1>4, NextIs, QuietDeep

LEMMA DeepSeek ==
    ASSUME Orderly, IInv, IInv', Deep, NEW u \in Users, polystore_lseek(u)
    PROVE  Deep'
  <1>0. TypeOK /\ TypeOK' /\ usr[u].remain \in Nat /\ ops \in Nat /\ FreshBytes(u) /\ Finish(u)
    BY UserFacts, TypeFacts DEF IInv, TInv, Deep
  <1>1. usr[u].pc = "idle" /\ ops' = ops + 1
        /\ UNCHANGED <<dev, tree, next, treelock, isize, role, usr>>
    BY <1>0, SeekIs DEF polystore_lseek, At
  <1>2. Keeps(u)
    BY <1>0, <1>1 DEF Keeps, Others
  <1>3. FreshBytes(u)' /\ Finish(u)'
    BY <1>1, <1>0 DEF FreshBytes, Finish
  <1> QED
    BY <1>0, <1>1, <1>2, <1>3, NextIs, QuietDeep

LEMMA DeepLockRead ==
    ASSUME Orderly, IInv, IInv', Deep, NEW u \in Users, LockRead(u)
    PROVE  Deep'
  <1>0. TypeOK /\ TypeOK' /\ usr[u].remain \in Nat /\ ops \in Nat /\ Finish(u)
    BY UserFacts, TypeFacts DEF IInv, TInv, Deep
  <1>1. /\ usr[u].op \in {"read", "write"} /\ Others(u) /\ ops' = ops
        /\ treelock'.writer = treelock.writer /\ Walked(usr'[u], usr[u])
        /\ UNCHANGED <<dev, tree, next, isize, role>>
    BY <1>0, LockReadIs, OpsKept DEF UserStep, Read
  <1>2. SameCall(usr'[u], usr[u]) /\ usr'[u].start = usr[u].start /\ usr'[u].pc \in {"scanned", "chunk"}
    BY <1>1 DEF Walked
  <1>3. Keeps(u)
    BY <1>0, <1>1, <1>2 DEF Keeps, SameCall
  <1>4. FreshBytes(u)' /\ Finish(u)'
    BY <1>0, <1>2 DEF FreshBytes, Finish, SameCall
  <1> QED
    BY <1>0, <1>1, <1>2, <1>3, <1>4, NextIs, QuietDeep

LEMMA DeepReadChunk ==
    ASSUME Orderly, IInv, IInv', Deep, NEW u \in Users, ReadChunk(u)
    PROVE  Deep'
  <1>0. TypeOK /\ TypeOK' /\ Grasp(u) /\ Holds(u) /\ usr[u].remain \in Nat /\ ops \in Nat
    BY UserFacts, TypeFacts DEF IInv, TInv, Locks
  <1>1. /\ usr[u].op = "read" /\ Others(u) /\ ops' = ops
        /\ UNCHANGED <<dev, tree, next, treelock, isize, role>>
    BY <1>0, ReadChunkIs, OpsKept DEF UserStep
  <1>2. SameCall(usr'[u], usr[u]) /\ usr'[u].pc \in {"next", "scanned"}
    BY <1>0, ReadChunkIs DEF Advanced, GaveUp
  <1>3. Keeps(u)
    BY <1>0, <1>1, <1>2 DEF Keeps, SameCall
  <1>4. FreshBytes(u)' /\ Finish(u)'
    BY <1>1, <1>2 DEF FreshBytes, Finish, SameCall
  <1>5. u \notin treelock.writer
    BY <1>0, <1>1 DEF Holds
  <1> QED
    BY <1>0, <1>1, <1>3, <1>4, <1>5, NextIs, QuietDeep

LEMMA DeepNextNode ==
    ASSUME Orderly, IInv, IInv', Deep, NEW u \in Users, NextNode(u)
    PROVE  Deep'
  <1>0. TypeOK /\ TypeOK' /\ usr[u].remain \in Nat /\ ops \in Nat /\ Finish(u)
    BY UserFacts, TypeFacts DEF IInv, TInv, Deep
  <1>1. /\ usr[u].pc = "next" /\ Others(u) /\ ops' = ops /\ Walked(usr'[u], usr[u])
        /\ UNCHANGED <<dev, tree, next, treelock, isize, role>>
    BY <1>0, NextNodeIs, OpsKept DEF UserStep
  <1>2. SameCall(usr'[u], usr[u]) /\ usr'[u].start = usr[u].start /\ usr'[u].pc \in {"scanned", "chunk"}
    BY <1>1 DEF Walked
  <1>3. Keeps(u)
    BY <1>0, <1>1, <1>2 DEF Keeps, SameCall
  <1>4. FreshBytes(u)' /\ Finish(u)'
    BY <1>0, <1>2 DEF FreshBytes, Finish, SameCall
  <1> QED
    BY <1>0, <1>1, <1>2, <1>3, <1>4, NextIs, QuietDeep

LEMMA DeepScanned ==
    ASSUME Orderly, IInv, IInv', Deep, NEW u \in Users, Scanned(u)
    PROVE  Deep'
  <1>0. TypeOK /\ TypeOK' /\ Holds(u) /\ usr[u].remain \in Nat /\ ops \in Nat /\ Finish(u)
    BY UserFacts, TypeFacts DEF IInv, TInv, Locks, Deep
  <1>1. /\ usr[u].pc = "scanned" /\ Others(u) /\ ops' = ops
        /\ UNCHANGED <<dev, tree, next, isize, role>>
    BY <1>0, ScannedIs, OpsKept DEF UserStep
  <1>2. treelock.writer \subseteq treelock'.writer
    BY <1>0, ScannedIs DEF Freed, Holds
  <1>3. CASE usr[u].op = "read"
    <2>1. usr'[u].pc = "idle" /\ usr'[u].op = "read" /\ usr'[u].remain = 0
      BY <1>0, <1>3, ScannedIs DEF IdleUser
    <2>2. Keeps(u)
      BY <1>0, <1>1, <2>1 DEF Keeps
    <2>3. FreshBytes(u)' /\ Finish(u)'
      BY <2>1 DEF FreshBytes, Finish
    <2>4. u \notin treelock.writer
      BY <1>0, <1>3 DEF Holds
    <2> QED
      BY <1>0, <1>1, <1>2, <2>2, <2>3, <2>4, NextIs, QuietDeep
  <1>4. CASE usr[u].op # "read"
    <2>1. SameCall(usr'[u], usr[u]) /\ usr'[u].pc = "fill" /\ usr'[u].start = usr[u].start
      BY <1>0, <1>4, ScannedIs
    <2>2. Keeps(u)
      BY <1>0, <1>1, <2>1 DEF Keeps, SameCall
    <2>3. FreshBytes(u)' /\ Finish(u)'
      BY <1>0, <2>1 DEF FreshBytes, Finish, SameCall
    <2> QED
      BY <1>0, <1>1, <1>2, <2>1, <2>2, <2>3, NextIs, QuietDeep
  <1> QED
    BY <1>3, <1>4

LEMMA DeepLoadSize ==
    ASSUME Orderly, IInv, IInv', Deep, NEW u \in Users, LoadSize(u)
    PROVE  Deep'
  <1>0. TypeOK /\ TypeOK' /\ usr[u].remain \in Nat /\ ops \in Nat /\ Finish(u)
    BY UserFacts, TypeFacts DEF IInv, TInv, Deep
  <1>1. /\ usr[u].pc = "size" /\ usr[u].op = "write" /\ Others(u) /\ ops' = ops
        /\ usr'[u].pc = "store" /\ usr'[u].snap = isize /\ usr'[u].op = "write"
        /\ usr'[u].count = usr[u].count /\ usr'[u].lo = usr[u].lo
        /\ usr'[u].end = usr[u].end /\ usr'[u].remain = usr[u].remain
        /\ usr'[u].start = usr[u].start /\ usr'[u].copied = usr[u].copied
        /\ usr'[u].val = usr[u].val
        /\ UNCHANGED <<dev, tree, next, treelock, isize, role>>
    BY <1>0, LoadSizeIs, OpsKept DEF UserStep
  <1>2. Keeps(u)
    BY <1>0, <1>1 DEF Keeps
  <1>3. FreshBytes(u)'
    BY <1>1 DEF FreshBytes
  <1>4. Finish(u)'
    BY <1>0, <1>1 DEF Finish, NodesLeft
  <1> QED
    BY <1>0, <1>1, <1>2, <1>3, <1>4, NextIs, QuietDeep

LEMMA DeepAllocate ==
    ASSUME Orderly, IInv, IInv', Deep, NEW u \in Users, Allocate(u)
    PROVE  Deep'
  <1>0. TypeOK /\ TypeOK' /\ Local(u) /\ Finish(u)
    BY DEF IInv, TInv, Deep
  <1>1. /\ usr[u].pc = "fill" /\ Others(u) /\ SameCall(usr'[u], usr[u]) /\ ops' = ops
        /\ usr'[u].copied = usr[u].copied /\ usr'[u].start = usr[u].start
        /\ usr'[u].pc \in {"new", "size"}
        /\ usr'[u].pc = "size" => (usr[u].start < usr[u].end => ~ NodesLeft)
        /\ UNCHANGED <<dev, tree, treelock, isize, role>>
    BY <1>0, AllocateIs, OpsKept DEF UserStep
  <1>2. /\ usr[u].start \in Nat /\ usr[u].end \in Int /\ usr[u].lo \in Nat /\ usr[u].remain \in Nat
        /\ ops \in Nat /\ next \in Nat /\ next' \in Nat /\ IndexNr \in Nat
    <2>1. next' \in Nat
      BY <1>0 DEF TypeOK
    <2> QED
      BY <1>0, <2>1, UserFacts, TypeFacts, SizesAssumption
  <1>3. next <= next'
    BY <1>0, <1>2, AllocateIs
  <1>4. NodesLeft' => NodesLeft
    BY <1>2, <1>3 DEF NodesLeft
  <1>5. Keeps(u)
    BY <1>1, <1>2 DEF Keeps, SameCall
  <1>6. Finish(u)'
    <2>1. usr'[u].op # "read" => usr'[u].val > 0
      BY <1>0, <1>1 DEF Finish, SameCall
    <2>2. ASSUME usr'[u].pc = "size"
          PROVE  usr[u].copied = (usr[u].end + 1) - usr[u].lo \/ ~ NodesLeft
      <3>1. CASE usr[u].start < usr[u].end
        BY <1>1, <2>2, <3>1
      <3>2. CASE ~ (usr[u].start < usr[u].end)
        <4>1. PICK s \in Int, e \in Int : s = usr[u].start /\ e = usr[u].end + 1
          BY <1>2
        <4>2. s <= e
          BY <1>0, <1>1, <4>1 DEF Local, InRange
        <4>3. s >= e - 1
          BY <1>2, <3>2, <4>1
        <4>4. s % 2 = 0 /\ e % 2 = 0
          BY <1>0, <4>1 DEF Local, EvenCall, Even
        <4>5. s = e
          BY <4>2, <4>3, <4>4
        <4>6. usr[u].copied = usr[u].start - usr[u].lo
          BY <1>0, <1>1 DEF Local, Ops, Progress, FillPCs
        <4> QED
          BY <4>1, <4>5, <4>6
      <3> QED
        BY <3>1, <3>2
    <2> QED
      BY <1>1, <1>4, <2>1, <2>2 DEF Finish, SameCall
  <1>7. FreshBytes(u)'
    BY <1>0, AllocateBytes
  <1> QED
    BY <1>0, <1>1, <1>3, <1>5, <1>6, <1>7, QuietDeep

LEMMA DeepWriteChunk ==
    ASSUME Orderly, IInv, IInv', Deep, NEW u \in Users, WriteChunk(u)
    PROVE  Deep'
  <1>0. TypeOK /\ TypeOK' /\ Grasp(u) /\ usr[u].remain \in Nat /\ ops \in Nat /\ Finish(u)
    BY UserFacts, TypeFacts DEF IInv, TInv, Deep
  <1>1. /\ usr[u].pc = "chunk" /\ usr[u].op # "read" /\ Others(u) /\ ops' = ops
        /\ SameCall(usr'[u], usr[u]) /\ usr'[u].pc = "next"
        /\ UNCHANGED <<tree, next, treelock, isize, role>>
    BY <1>0, WriteChunkIs, OpsKept DEF UserStep, Orderly, Advanced
  <1>2. AppendRoom' /\ GrowRoom'
    <2>1. Keeps(u)
      BY <1>0, <1>1 DEF Keeps, SameCall
    <2> QED
      BY <1>0, <2>1, RoomKept DEF Deep
  <1>3. ASSUME NEW v \in Users
        PROVE  FreshBytes(v)' /\ Finish(v)'
    <2>1. CASE v = u
      BY <1>0, <1>1, <2>1 DEF FreshBytes, Finish, SameCall
    <2>2. CASE v # u
      <3>1. Finish(v)' /\ usr'[v] = usr[v] /\ FreshBytes(v) /\ Fresh(v) /\ Grasp(v)
        BY <1>0, <1>1, <2>2, NextIs, OthersDeep DEF Others, Deep, IInv, TInv, Local
      <3>2. ASSUME usr[v].pc \in {"new", "insert"}
            PROVE  FreshBytes(v)'
        <4>1. usr[v].cur \in Node /\ \A i \in DOMAIN tree : Apart(tree[i], usr[v].cur)
          BY <3>1, <3>2 DEF Grasp, Fresh
        <4>2. PICK m \in Node : m = usr[v].cur
          BY <4>1
        <4>3. \A x \in 0 .. (NodeSize - 1) :
                  ByteAt(dev'[m.place], m.offset + x) = ByteAt(dev[m.place], m.offset + x)
          BY <4>1, <4>2, ChunkStores
        <4> QED
          BY <3>1, <3>2, <4>2, <4>3 DEF FreshBytes, Byte, NewCount
      <3>3. CASE usr[v].pc \notin {"new", "insert"}
        BY <3>1, <3>3 DEF FreshBytes
      <3> QED
        BY <3>1, <3>2, <3>3
    <2> QED
      BY <2>1, <2>2
  <1> QED
    BY <1>2, <1>3 DEF Deep

LEMMA DeepWriteNew ==
    ASSUME Orderly, IInv, IInv', Deep, NEW u \in Users, WriteNew(u)
    PROVE  Deep'
  <1>0. TypeOK /\ TypeOK' /\ Grasp(u) /\ usr[u].remain \in Nat /\ ops \in Nat /\ Finish(u)
        /\ FreshBytes(u)
    BY UserFacts, TypeFacts DEF IInv, TInv, Deep
  <1>1. /\ usr[u].pc = "new" /\ Others(u) /\ ops' = ops
        /\ SameCall(usr'[u], usr[u]) /\ usr'[u].pc = "insert" /\ usr'[u].start = usr[u].start
        /\ UNCHANGED <<tree, next, treelock, isize, role>>
    BY <1>0, WriteNewIs, OpsKept DEF UserStep
  <1>2. AppendRoom' /\ GrowRoom'
    <2>1. Keeps(u)
      BY <1>0, <1>1 DEF Keeps, SameCall
    <2> QED
      BY <1>0, <2>1, RoomKept DEF Deep
  <1>3. FreshBytes(u)' /\ \A p \in Nat : View(p)' = View(p)
    BY <1>0, NewBytes
  <1>4. ASSUME NEW v \in Users
        PROVE  FreshBytes(v)' /\ Finish(v)'
    <2>1. CASE v = u
      BY <1>0, <1>1, <1>3, <2>1 DEF Finish, SameCall
    <2>2. CASE v # u
      <3>1. Finish(v)' /\ usr'[v] = usr[v]
        BY <1>0, <1>1, <2>2, NextIs, OthersDeep DEF Others
      <3>2. usr[v].pc \notin {"new", "insert"}
        BY <1>1, <2>2, OneFresh
      <3> QED
        BY <3>1, <3>2 DEF FreshBytes
    <2> QED
      BY <2>1, <2>2
  <1> QED
    BY <1>2, <1>4 DEF Deep

LEMMA DeepInsertNode ==
    ASSUME Orderly, IInv, IInv', Deep, NEW u \in Users, InsertNode(u)
    PROVE  Deep'
  <1>0. TypeOK /\ TypeOK' /\ Grasp(u) /\ usr[u].remain \in Nat /\ ops \in Nat /\ Finish(u)
        /\ FreshBytes(u) /\ Local(u)
    BY UserFacts, TypeFacts DEF IInv, TInv, Deep
  <1>1. /\ usr[u].pc = "insert" /\ Others(u) /\ ops' = ops
        /\ SameCall(usr'[u], usr[u]) /\ usr'[u].pc = "fill"
        /\ UNCHANGED <<dev, next, treelock, isize, role>>
    BY <1>0, InsertNodeIs, OpsKept DEF UserStep
  <1>2. AppendRoom' /\ GrowRoom'
    <2>1. Keeps(u)
      BY <1>0, <1>1 DEF Keeps, SameCall
    <2> QED
      BY <1>0, <2>1, RoomKept DEF Deep
  <1>3. FreshBytes(u)' /\ Finish(u)'
    BY <1>0, <1>1 DEF FreshBytes, Finish, SameCall
  <1> QED
    BY <1>0, <1>1, <1>2, <1>3, NextIs, DeepStep

LEMMA GrowStep ==
    ASSUME TypeOK, TypeOK', GrowRoom, NEW u \in Users, Others(u), role' = role, ops <= ops',
           NEW d \in Nat, ops' * Longest = ops * Longest + d,
           usr'[u].remain <= usr[u].remain + d,
           \A y \in Users : isize' + usr'[y].remain <= ops' * Longest,
           usr'[u].op = "write" =>
               /\ usr'[u].pc # "store"
               /\ \A y \in Users : (usr'[u].end + 1) + usr'[y].remain <= ops' * Longest
    PROVE  GrowRoom'
  <1> SUFFICES ASSUME \A v \in Users : role[v] # "append", NEW x \in Users, NEW y \in Users
               PROVE  /\ isize' + usr'[y].remain <= ops' * Longest
                      /\ usr'[x].op = "write" =>
                            /\ (usr'[x].end + 1) + usr'[y].remain <= ops' * Longest
                            /\ usr'[x].pc = "store" =>
                                  usr'[x].snap + usr'[y].remain <= ops' * Longest
    BY DEF GrowRoom
  <1>1. CASE x = u
    BY <1>1
  <1>2. CASE x # u
    <2>1. PICK w \in Nat : w = ops * Longest
      BY RoomFacts
    <2>2. /\ usr[x].op = "write" =>
                /\ (usr[x].end + 1) + usr[y].remain <= w
                /\ usr[x].pc = "store" => usr[x].snap + usr[y].remain <= w
      BY <2>1 DEF GrowRoom
    <2>3. usr'[x] = usr[x]
      BY <1>2 DEF Others
    <2>4. /\ usr[x].end \in Int /\ usr[x].snap \in Nat /\ usr[y].remain \in Nat
      BY UserFacts
    <2>5. usr'[y].remain \in Nat
      BY DEF TypeOK
    <2>6. PICK m \in Nat, n \in Nat : m = usr'[y].remain /\ n = usr[y].remain /\ m <= n + d
      <3>1. CASE y = u
        BY <2>4, <2>5, <3>1
      <3>2. CASE y # u
        <4>1. usr'[y] = usr[y]
          BY <3>2 DEF Others
        <4> QED
          BY <2>4, <4>1
      <3> QED
        BY <3>1, <3>2
    <2>7. PICK e \in Int, s \in Nat : e = usr[x].end + 1 /\ s = usr[x].snap
      BY <2>4
    <2>8. /\ usr[x].op = "write" =>
                /\ e + m <= w + d
                /\ usr[x].pc = "store" => s + m <= w + d
      BY <2>2, <2>6, <2>7
    <2> QED
      BY <2>1, <2>3, <2>6, <2>7, <2>8
  <1> QED
    BY <1>1, <1>2

LEMMA MoreRoom ==
    ASSUME TypeOK, TypeOK', ops' = ops + 1
    PROVE  ops' * Longest = ops * Longest + Longest /\ ops <= ops' /\ Longest \in Nat
  <1>1. ops \in Nat /\ Longest \in Nat
    BY LongestIs, TypeFacts
  <1>2. \A a, b \in Nat : (a + 1) * b = a * b + b
    OBVIOUS
  <1> QED
    BY <1>1, <1>2

LEMMA DeepWriteCall ==
    ASSUME Orderly, IInv, IInv', Deep, NEW u \in Users, WriteCall(u)
    PROVE  Deep'
  <1>0. TypeOK /\ TypeOK' /\ Holds(u) /\ AppendRoom /\ GrowRoom
        /\ ops \in Nat /\ usr[u].remain \in Nat
    BY UserFacts, TypeFacts DEF IInv, TInv, Locks, Deep
  <1>1. PICK n \in Counts, s \in Starts(u) :
            /\ Allowed(u, s.from, n)
            /\ IF role[u] = "append" THEN Began(u, "append", n, s.from)
               ELSE Began(u, "write", n, s.from)
    BY <1>0, WriteCallIs
  <1>2. n \in Nat /\ n <= Longest /\ s.from \in Nat /\ Longest \in Nat
    BY <1>0, SizesAssumption, LongestIs, StartsAre
  <1>3. /\ usr[u].pc = "idle" /\ Others(u) /\ usr'[u].pc = "lock" /\ usr'[u].count = n
        /\ usr'[u].op = (IF role[u] = "append" THEN "append" ELSE "write")
        /\ usr'[u].end = s.from + n - 1 /\ usr'[u].remain = 0 /\ usr'[u].val = ops + 1
        /\ ops' = ops + 1 /\ UNCHANGED <<dev, tree, next, treelock, isize, role>>
    BY <1>1 DEF Began
  <1>4. FreshBytes(u)' /\ Finish(u)'
    BY <1>0, <1>3 DEF FreshBytes, Finish
  <1>5. PICK w \in Nat : w = ops * Longest /\ ops' * Longest = w + Longest
    BY <1>0, <1>3, RoomFacts, MoreRoom
  <1>6. isize \in Nat
    BY <1>0, TypeFacts
  <1>7. CASE role[u] = "append"
    <2>1. GrowRoom'
      BY <1>3, <1>7 DEF GrowRoom
    <2>2. \A v \in Users : role[v] = "append"
      BY <1>0, <1>7, Discipline
    <2>3. /\ IsFiniteSet(Appending)
          /\ isize + Cardinality(Appending) * Longest <= w
          /\ \A v \in Appending : /\ usr[v].count <= Longest
                                  /\ usr[v].pc # "lock" => usr[v].lo = isize
      BY <1>0, <1>5, <2>2 DEF AppendRoom
    <2>4. Appending' \subseteq Appending \cup {u}
      BY <1>3 DEF Appending, Others
    <2>5. PICK k \in Nat : k = Cardinality(Appending)
      BY <2>3, FS_CardinalityType
    <2>6. IsFiniteSet(Appending \cup {u}) /\ Cardinality(Appending \cup {u}) \in {k, k + 1}
      BY <2>3, <2>5, FS_AddElement
    <2>7. PICK j \in Nat : j = Cardinality(Appending') /\ j <= k + 1
      <3>1. IsFiniteSet(Appending') /\ Cardinality(Appending') <= Cardinality(Appending \cup {u})
        BY <2>4, <2>6, FS_Subset
      <3>2. Cardinality(Appending') \in Nat
        BY <3>1, FS_CardinalityType
      <3> QED
        BY <2>6, <3>1, <3>2
    <2>8. IsFiniteSet(Appending')
      BY <2>4, <2>6, FS_Subset
    <2>9. j * Longest <= k * Longest + Longest /\ j * Longest \in Nat /\ k * Longest \in Nat
      <3>1. k + 1 \in Nat /\ Longest \in Nat \ {0}
        BY LongestIs
      <3>2. j * Longest <= (k + 1) * Longest
        BY <2>7, <3>1, Multiples
      <3>3. \A a, b \in Nat : (a + 1) * b = a * b + b /\ a * b \in Nat
        OBVIOUS
      <3> QED
        BY <1>2, <3>2, <3>3
    <2>10. isize' + j * Longest <= ops' * Longest
      BY <1>2, <1>3, <1>5, <1>6, <2>3, <2>5, <2>9
    <2>11. \A v \in Appending' : /\ usr'[v].count <= Longest
                                 /\ usr'[v].pc # "lock" => usr'[v].lo = isize'
      <3>1. ASSUME NEW v \in Appending'
            PROVE  /\ usr'[v].count <= Longest
                   /\ usr'[v].pc # "lock" => usr'[v].lo = isize'
        <4>1. CASE v = u
          BY <1>2, <1>3, <4>1
        <4>2. CASE v # u
          <5>1. v \in Users /\ v \in Appending /\ usr'[v] = usr[v]
            BY <1>3, <2>4, <3>1, <4>2 DEF Appending, Others
          <5> QED
            BY <1>3, <2>3, <5>1
        <4> QED
          BY <4>1, <4>2
      <3> QED
        BY <3>1
    <2>12. AppendRoom'
      BY <2>7, <2>8, <2>10, <2>11 DEF AppendRoom
    <2> QED
      BY <1>0, <1>3, <1>4, <2>1, <2>12, NextIs, DeepStep
  <1>8. CASE role[u] # "append"
    <2>1. AppendRoom'
      BY <1>3, <1>8 DEF AppendRoom
    <2>2. \A v \in Users : role[v] # "append"
      BY <1>0, <1>8, Discipline
    <2>3. s.from + n <= isize + n
      <3>1. role[u] \in {"grow", "overwrite"}
        BY <1>0, <1>8, Discipline
      <3>2. s.from <= isize \/ s.from + n <= isize
        BY <1>1, <3>1 DEF Allowed
      <3> QED
        BY <1>2, <1>6, <3>2
    <2>4. \A y \in Users : isize + usr[y].remain <= w /\ usr[y].remain \in Nat
      BY <1>0, <1>5, <2>2, UserFacts DEF GrowRoom
    <2>5. \A y \in Users : usr'[y].remain \in Nat /\ usr'[y].remain <= usr[y].remain
      BY <1>0, <1>3, <2>4 DEF Others
    <2>6. ASSUME NEW y \in Users
          PROVE  /\ isize' + usr'[y].remain <= ops' * Longest
                 /\ (usr'[u].end + 1) + usr'[y].remain <= ops' * Longest
      <3>1. PICK a \in Nat, b \in Nat : a = usr'[y].remain /\ b = usr[y].remain /\ a <= b
        BY <2>4, <2>5
      <3>2. isize + b <= w
        BY <2>4, <3>1
      <3>3. PICK f \in Nat : f = s.from
        BY <1>2
      <3>4. usr'[u].end + 1 = f + n
        BY <1>2, <1>3, <3>3
      <3>5. isize + a <= w + Longest /\ (f + n) + a <= w + Longest
        BY <1>2, <1>6, <2>3, <3>1, <3>2, <3>3
      <3> QED
        BY <1>3, <1>5, <3>1, <3>4, <3>5
    <2>7. GrowRoom'
      <3>1. usr'[u].remain <= usr[u].remain + Longest /\ ops <= ops'
        BY <1>0, <1>2, <1>3
      <3> QED
        BY <1>0, <1>2, <1>3, <1>5, <2>6, <3>1, GrowStep
    <2> QED
      BY <1>0, <1>3, <1>4, <2>1, <2>7, NextIs, DeepStep
  <1> QED
    BY <1>7, <1>8

LEMMA DeepTruncateCall ==
    ASSUME Orderly, IInv, IInv', Deep, NEW u \in Users, TruncateCall(u)
    PROVE  Deep'
  <1>0. TypeOK /\ TypeOK' /\ Holds(u) /\ GrowRoom /\ ops \in Nat /\ usr[u].remain \in Nat
        /\ isize \in Nat
    BY UserFacts, TypeFacts DEF IInv, TInv, Locks, Deep
  <1>1. /\ usr[u].pc = "idle" /\ Others(u) /\ role[u] \in {"grow", "anywhere"}
        /\ usr'[u].pc = "more" /\ usr'[u].op = "write" /\ usr'[u].remain \in Counts
        /\ usr'[u].end = -1 /\ usr'[u].val = ops + 1
        /\ ops' = ops + 1 /\ UNCHANGED <<dev, tree, next, treelock, isize, role>>
    BY <1>0, TruncateCallIs
  <1>2. PICK n \in Nat : n = usr'[u].remain /\ n <= Longest /\ Longest \in Nat
    BY <1>1, SizesAssumption, LongestIs
  <1>3. FreshBytes(u)' /\ Finish(u)'
    BY <1>0, <1>1 DEF FreshBytes, Finish
  <1>4. AppendRoom'
    BY <1>1 DEF AppendRoom
  <1>5. \A v \in Users : role[v] # "append"
    BY <1>0, <1>1, Discipline
  <1>6. PICK w \in Nat : w = ops * Longest /\ ops' * Longest = w + Longest
    BY <1>0, <1>1, RoomFacts, MoreRoom
  <1>7. ASSUME NEW y \in Users
        PROVE  /\ isize' + usr'[y].remain <= ops' * Longest
               /\ (usr'[u].end + 1) + usr'[y].remain <= ops' * Longest
    <2>1. isize + usr[y].remain <= w /\ usr[y].remain \in Nat
      BY <1>0, <1>5, <1>6, UserFacts DEF GrowRoom
    <2>2. PICK a \in Nat : a = usr'[y].remain /\ (a <= usr[y].remain \/ a <= Longest)
      BY <1>1, <1>2, <2>1 DEF Others
    <2>3. isize + a <= w + Longest
      BY <1>0, <1>2, <2>1, <2>2
    <2> QED
      BY <1>0, <1>1, <1>2, <1>6, <2>2, <2>3
  <1>8. GrowRoom'
    <2>1. usr'[u].remain <= usr[u].remain + Longest /\ ops <= ops'
      BY <1>0, <1>1, <1>2
    <2> QED
      BY <1>0, <1>1, <1>2, <1>6, <1>7, <2>1, GrowStep
  <1> QED
    BY <1>0, <1>1, <1>3, <1>4, <1>8, NextIs, DeepStep

LEMMA DeepNextChunk ==
    ASSUME Orderly, IInv, IInv', Deep, NEW u \in Users, NextChunk(u)
    PROVE  Deep'
  <1>0. /\ TypeOK /\ TypeOK' /\ Holds(u) /\ GrowRoom /\ usr[u].remain \in Nat
        /\ isize \in Nat /\ ops \in Nat /\ Finish(u) /\ \A v \in Users : Ops(v)
    BY UserFacts, TypeFacts DEF IInv, TInv, Locks, Deep, Local
  <1>1. /\ usr[u].pc = "more" /\ Others(u) /\ ops' = ops
        /\ usr'[u].pc = "lock" /\ usr'[u].op = usr[u].op /\ usr'[u].val = usr[u].val
        /\ UNCHANGED <<dev, tree, next, treelock, isize, role>>
    BY <1>0, NextChunkIs, OpsKept DEF UserStep
  <1>2. PICK n \in Nat : /\ n <= usr[u].remain
                         /\ usr'[u].remain = usr[u].remain - n
                         /\ usr'[u].end = isize + n - 1
    BY <1>0, NextChunkIs
  <1>3. FreshBytes(u)' /\ Finish(u)'
    BY <1>0, <1>1 DEF FreshBytes, Finish
  <1>4. role[u] = "grow"
    BY <1>0, <1>1 DEF Ops
  <1>5. AppendRoom'
    BY <1>1, <1>4 DEF AppendRoom
  <1>6. \A v \in Users : role[v] # "append" /\ (v # u => role[v] = "overwrite")
    BY <1>0, <1>4, Discipline
  <1>7. PICK w \in Nat : w = ops * Longest /\ ops' * Longest = w
    BY <1>0, <1>1, RoomFacts
  <1>8. ASSUME NEW y \in Users
        PROVE  /\ isize' + usr'[y].remain <= ops' * Longest
               /\ (usr'[u].end + 1) + usr'[y].remain <= ops' * Longest
    <2>1. isize + usr[u].remain <= w
      BY <1>0, <1>6, <1>7 DEF GrowRoom
    <2>2. PICK a \in Nat : a = usr[u].remain
      BY <1>0
    <2>3. usr'[u].end + 1 = isize + n
      BY <1>0, <1>2
    <2>4. CASE y = u
      <3>1. usr'[y].remain = a - n
        BY <1>2, <2>2, <2>4
      <3> QED
        BY <1>0, <1>1, <1>2, <1>7, <2>1, <2>2, <2>3, <3>1
    <2>5. CASE y # u
      <3>1. usr'[y].remain = 0
        BY <1>0, <1>1, <1>6, <2>5 DEF Ops, Others
      <3> QED
        BY <1>0, <1>1, <1>2, <1>7, <2>1, <2>2, <2>3, <3>1
    <2> QED
      BY <2>4, <2>5
  <1>9. GrowRoom'
    <2>1. usr'[u].remain <= usr[u].remain + 0 /\ ops <= ops' /\ 0 \in Nat
          /\ ops' * Longest = ops * Longest + 0
      BY <1>0, <1>1, <1>2, <1>7
    <2> QED
      BY <1>0, <1>1, <1>8, <2>1, GrowStep
  <1> QED
    BY <1>0, <1>1, <1>3, <1>5, <1>9, NextIs, DeepStep

LEMMA DeepLockWrite ==
    ASSUME Orderly, IInv, IInv', Deep, NEW u \in Users, LockWrite(u)
    PROVE  Deep'
  <1>0. /\ TypeOK /\ TypeOK' /\ Holds(u) /\ Ops(u) /\ AppendRoom /\ Finish(u)
        /\ isize \in Nat /\ ops \in Nat
    BY TypeFacts DEF IInv, TInv, Locks, Deep, Local
  <1>1. /\ usr[u].pc = "lock" /\ usr[u].op = "append" /\ Others(u) /\ ops' = ops
        /\ treelock.writer \subseteq {u}
        /\ UNCHANGED <<dev, tree, next, isize, role>>
    BY <1>0, LockWriteIs, OpsKept DEF UserStep
  <1>2. /\ usr'[u].op = "append" /\ usr'[u].pc \in {"scanned", "chunk"}
        /\ usr'[u].lo = isize /\ usr'[u].count = usr[u].count /\ usr'[u].val = usr[u].val
    BY <1>0, LockWriteIs DEF Walked, SameCall
  <1>3. FreshBytes(u)' /\ Finish(u)'
    BY <1>0, <1>1, <1>2 DEF FreshBytes, Finish
  <1>4. role[u] = "append"
    BY <1>0, <1>1 DEF Ops
  <1>5. GrowRoom'
    BY <1>1, <1>4 DEF GrowRoom
  <1>6. AppendRoom'
    <2>1. Appending' = Appending
      BY <1>1, <1>2 DEF Appending, Others
    <2>2. \A v \in Appending : v \in Users /\ (v # u => usr'[v] = usr[v])
      BY <1>1 DEF Appending, Others
    <2>3. u \in Appending
      BY <1>1 DEF Appending
    <2>4. ASSUME \A v \in Users : role[v] = "append"
          PROVE  /\ IsFiniteSet(Appending)
                 /\ isize + Cardinality(Appending) * Longest <= ops * Longest
                 /\ \A v \in Appending : /\ usr'[v].count <= Longest
                                         /\ usr'[v].pc # "lock" => usr'[v].lo = isize
      BY <1>0, <1>2, <2>2, <2>3, <2>4 DEF AppendRoom
    <2> QED
      BY <1>1, <2>1, <2>4 DEF AppendRoom
  <1> QED
    BY <1>0, <1>1, <1>3, <1>5, <1>6, NextIs, DeepStep

LEMMA DeepSizeAppend ==
    ASSUME Orderly, IInv, IInv', Deep, NEW u \in Users, SizeAppend(u)
    PROVE  Deep'
  <1>0. /\ TypeOK /\ TypeOK' /\ Locks /\ AppendRoom
        /\ isize \in Nat /\ ops \in Nat /\ Local(u)
        /\ \A v \in Users : Holds(v) /\ Ops(v) /\ Finish(v)
    BY TypeFacts DEF IInv, TInv, Locks, Deep, Local
  <1>1. /\ usr[u].pc = "size" /\ usr[u].op = "append" /\ Others(u) /\ ops' = ops
        /\ usr'[u] = IdleUser
        /\ isize' = IF usr[u].end + 1 >= isize THEN usr[u].end + 1 ELSE isize
        /\ UNCHANGED <<dev, tree, next, role>>
    BY <1>0, SizeAppendIs, OpsKept DEF UserStep
  <1>2. usr'[u].op = "read" /\ usr'[u].pc = "idle"
    BY <1>1 DEF IdleUser
  <1>3. FreshBytes(u)' /\ Finish(u)'
    BY <1>2 DEF FreshBytes, Finish
  <1>4. role[u] = "append"
    BY <1>0, <1>1 DEF Ops
  <1>5. GrowRoom'
    BY <1>1, <1>4 DEF GrowRoom
  <1>6. \A v \in Users : role[v] = "append"
    BY <1>0, <1>4, Discipline
  <1>7. /\ IsFiniteSet(Appending)
        /\ isize + Cardinality(Appending) * Longest <= ops * Longest
        /\ \A v \in Appending : /\ usr[v].count <= Longest
                                /\ usr[v].pc # "lock" => usr[v].lo = isize
    BY <1>0, <1>6 DEF AppendRoom
  <1>8. u \in Appending
    BY <1>1 DEF Appending
  <1>9. /\ usr[u].count \in Nat /\ usr[u].end \in Int /\ usr[u].start \in Nat
        /\ usr[u].start <= usr[u].end + 1 /\ usr[u].end + 1 = usr[u].lo + usr[u].count
        /\ usr[u].count <= Longest /\ usr[u].lo = isize
    BY <1>0, <1>1, <1>7, <1>8, UserFacts DEF Local, InRange
  <1>10. PICK e \in Int : e = usr[u].end + 1 /\ e = isize + usr[u].count /\ usr[u].start <= e
    BY <1>9
  <1>11. isize' = e /\ e \in Nat /\ e >= isize
    BY <1>0, <1>1, <1>9, <1>10
  <1>12. AppendRoom'
    <2>1. Appending' = Appending \ {u}
      BY <1>1, <1>2 DEF Appending, Others
    <2>2. PICK k \in Nat : k = Cardinality(Appending)
      BY <1>7, FS_CardinalityType
    <2>3. IsFiniteSet(Appending') /\ Cardinality(Appending') = k - 1
          /\ Cardinality(Appending') \in Nat
      BY <1>7, <1>8, <2>1, <2>2, FS_RemoveElement, FS_CardinalityType
    <2>4. PICK j \in Nat : j = Cardinality(Appending') /\ k = j + 1
      BY <2>2, <2>3
    <2>5. Longest \in Nat /\ k * Longest = j * Longest + Longest /\ j * Longest \in Nat
          /\ k * Longest \in Nat
      <3>1. Longest \in Nat
        BY LongestIs
      <3>2. \A a, b \in Nat : (a + 1) * b = a * b + b /\ a * b \in Nat
        OBVIOUS
      <3> QED
        BY <2>4, <3>1, <3>2
    <2>6. PICK w \in Nat : w = ops * Longest /\ ops' * Longest = w
      <3>1. \A a, b \in Nat : a * b \in Nat
        OBVIOUS
      <3> QED
        BY <1>0, <1>1, <2>5, <3>1
    <2>7. isize' + j * Longest <= ops' * Longest
      <3>1. isize + k * Longest <= w
        BY <1>7, <2>2, <2>6
      <3> QED
        BY <1>0, <1>9, <1>10, <1>11, <2>5, <2>6, <3>1
    <2>8. ASSUME NEW v \in Appending'
          PROVE  usr'[v].count <= Longest /\ usr'[v].pc = "lock"
      <3>1. v \in Users /\ v # u /\ v \in Appending /\ usr'[v] = usr[v] /\ usr[v].op = "append"
        BY <1>1, <2>1, <2>8 DEF Appending, Others
      <3>2. v \notin treelock.writer
        BY <1>0, <1>1, <3>1 DEF Holds, Locks
      <3>3. usr[v].pc \notin WalkPCs \cup FillPCs \cup {"size", "store", "more", "idle"}
        BY <1>0, <3>1, <3>2 DEF Holds, Ops, Finish
      <3>4. usr[v].pc \in {"idle", "lock", "chunk", "next", "scanned", "fill", "new", "insert",
                           "size", "store", "more"}
        BY <1>0, <3>1 DEF TypeOK
      <3>5. usr[v].pc = "lock"
        BY <3>3, <3>4 DEF WalkPCs, FillPCs
      <3> QED
        BY <1>7, <3>1, <3>5
    <2> QED
      BY <2>3, <2>4, <2>7, <2>8 DEF AppendRoom
  <1> QED
    BY <1>0, <1>1, <1>3, <1>5, <1>12, NextIs, DeepStep

LEMMA DeepStoreSize ==
    ASSUME Orderly, IInv, IInv', Deep, NEW u \in Users, StoreSize(u)
    PROVE  Deep'
  <1>0. /\ TypeOK /\ TypeOK' /\ Ops(u) /\ GrowRoom /\ Finish(u)
        /\ isize \in Nat /\ ops \in Nat
        /\ usr[u].remain \in Nat /\ usr[u].end \in Int /\ usr[u].snap \in Nat
    BY UserFacts, TypeFacts DEF IInv, TInv, Deep, Local
  <1>1. /\ usr[u].pc = "store" /\ Others(u) /\ ops' = ops
        /\ isize' = IF usr[u].end + 1 >= usr[u].snap THEN usr[u].end + 1 ELSE usr[u].snap
        /\ UNCHANGED <<dev, tree, next, role>>
    BY <1>0, StoreSizeIs, OpsKept DEF UserStep
  <1>2. \/ /\ usr'[u].pc = "idle" /\ usr'[u].op = "read" /\ usr'[u].remain = 0
        \/ /\ usr'[u].pc = "more" /\ usr'[u].op = usr[u].op /\ usr'[u].val = usr[u].val
           /\ usr'[u].remain = usr[u].remain /\ usr'[u].end = usr[u].end
    BY <1>0, StoreSizeIs DEF IdleUser, SameCall
  <1>3. FreshBytes(u)' /\ Finish(u)'
    BY <1>0, <1>2 DEF FreshBytes, Finish
  <1>4. usr[u].op = "write" /\ role[u] # "append"
    BY <1>0, <1>1 DEF Ops
  <1>5. AppendRoom'
    BY <1>1, <1>4 DEF AppendRoom
  <1>6. \A v \in Users : role[v] # "append"
    BY <1>0, <1>4, Discipline
  <1>7. PICK w \in Nat : w = ops * Longest /\ ops' * Longest = w
    BY <1>0, <1>1, RoomFacts
  <1>8. ASSUME NEW y \in Users
        PROVE  /\ isize' + usr'[y].remain <= ops' * Longest
               /\ (usr[u].end + 1) + usr'[y].remain <= ops' * Longest
    <2>1. (usr[u].end + 1) + usr[y].remain <= w /\ usr[u].snap + usr[y].remain <= w
      BY <1>0, <1>1, <1>4, <1>6, <1>7 DEF GrowRoom
    <2>2. PICK a \in Nat, b \in Nat : a = usr'[y].remain /\ b = usr[y].remain /\ a <= b
      <3>1. usr[y].remain \in Nat
        BY <1>0, UserFacts
      <3>2. usr'[y].remain = usr[y].remain \/ usr'[y].remain = 0
        BY <1>1, <1>2 DEF Others
      <3> QED
        BY <3>1, <3>2
    <2> QED
      BY <1>0, <1>1, <1>7, <2>1, <2>2
  <1>9. GrowRoom'
    <2>1. usr'[u].remain <= usr[u].remain + 0 /\ ops <= ops' /\ 0 \in Nat
          /\ ops' * Longest = ops * Longest + 0
      BY <1>0, <1>1, <1>2, <1>7
    <2>2. usr'[u].op = "write" => usr'[u].pc # "store" /\ usr'[u].end = usr[u].end
      BY <1>2
    <2> QED
      BY <1>0, <1>1, <1>8, <2>1, <2>2, GrowStep
  <1> QED
    BY <1>0, <1>1, <1>3, <1>5, <1>9, NextIs, DeepStep

LEMMA NextDeep ==
    ASSUME Orderly, IInv, IInv', Deep, [Next]_vars
    PROVE  Deep'
  <1>1. CASE UNCHANGED vars
    <2>1. UNCHANGED <<dev, tree, next, treelock, isize, usr, role, ops>>
      BY <1>1 DEF vars
    <2>2. \A v \in Users : FreshBytes(v)' /\ Finish(v)'
      BY <2>1 DEF Deep, FreshBytes, Byte, NewCount, Finish, NodesLeft
    <2>3. AppendRoom' /\ GrowRoom'
      BY <2>1 DEF Deep, AppendRoom, Appending, GrowRoom
    <2> QED
      BY <2>2, <2>3 DEF Deep
  <1>2. CASE Done
    BY <1>1, <1>2 DEF Done
  <1>3. ASSUME NEW u \in Users, ReadCall(u) \/ WriteCall(u) \/ TruncateCall(u) \/ polystore_lseek(u)
        PROVE  Deep'
    BY <1>3, DeepReadCall, DeepWriteCall, DeepTruncateCall, DeepSeek
  <1>4. ASSUME NEW u \in Users, UserStep(u)
        PROVE  Deep'
    BY <1>4, DeepLockRead, DeepLockWrite, DeepReadChunk, DeepWriteChunk, DeepNextNode, DeepScanned,
       DeepAllocate, DeepWriteNew, DeepInsertNode, DeepSizeAppend, DeepLoadSize, DeepStoreSize,
       DeepNextChunk DEF UserStep
  <1> QED
    BY <1>1, <1>2, <1>3, <1>4, Zenon DEF Next

LEMMA InitDeep ==
    ASSUME Orderly, Init
    PROVE  Deep
  <1>1. TypeOK /\ Shape
    BY InitIInv DEF IInv, TInv
  <1>2. \A u \in Users : /\ usr[u].pc = "idle" /\ usr[u].op = "read" /\ usr[u].remain = 0
    BY DEF Init, IdleUser
  <1>3. isize = 0 /\ ops = 0 /\ Longest \in Nat
    BY LongestIs DEF Init
  <1>4. \A u \in Users : FreshBytes(u) /\ Finish(u)
    BY <1>2 DEF FreshBytes, Finish
  <1>5. AppendRoom
    <2>1. Appending = {}
      BY <1>2 DEF Appending
    <2>2. IsFiniteSet(Appending) /\ Cardinality(Appending) = 0
      BY <2>1, FS_EmptySet
    <2> QED
      BY <1>3, <2>1, <2>2 DEF AppendRoom
  <1>6. GrowRoom
    BY <1>2, <1>3 DEF GrowRoom
  <1> QED
    BY <1>4, <1>5, <1>6 DEF Deep

LEMMA DeepInvariance ==
    ASSUME Orderly
    PROVE  Spec => [](IInv /\ Deep)
  <1>1. Init => IInv /\ Deep
    BY InitIInv, InitDeep
  <1>2. IInv /\ Deep /\ [Next]_vars => IInv' /\ Deep'
    <2>1. IInv /\ [Next]_vars => IInv'
      BY NextIInv
    <2> QED
      BY <2>1, NextDeep
  <1> QED
    BY <1>1, <1>2, PTL DEF Spec

(* The calls of io_direct.c, whatever nodes and extents their bytes come   *)
(* to be in, do to the file what FileStore promises: a call stores its own *)
(* range from the front, is whole when it returns unless the numbers of    *)
(* nodes have run out, and no step changes a byte outside of the range of  *)
(* the call that takes it.                                                 *)
THEOREM ImplementsFile ==
    ASSUME Orderly
    PROVE  Spec => StoresFile
  <1>1. Init => Store!Init
    BY InitRefines
  <1>2. (IInv /\ Deep) /\ (IInv /\ Deep)' /\ [Next]_vars => [Store!Next]_(Store!vars)
    BY StepRefines
  <1>3. Spec => [](IInv /\ Deep)
    BY DeepInvariance
  <1> QED
    BY <1>1, <1>2, <1>3, PTL DEF Spec, StoresFile, Store!Spec

-----------------------------------------------------------------------------
(* Appends by any number of threads, of any lengths, with I/O that may     *)
(* fail: what is left of the invariant, and enough that nothing is lost.   *)

(* Which calls a thread makes, for any role. *)
CallKind(u) ==
    /\ usr[u].op = "append" => role[u] = "append"
    /\ usr[u].op = "write" => role[u] # "append"
    /\ usr[u].pc \in FillPCs \cup {"size"} => usr[u].op # "read"
    /\ usr[u].pc \in {"store", "more"} => usr[u].op = "write"
Kinds == TInv /\ Locks /\ \A u \in Users : CallKind(u)

(* The append that holds the lock, and how far it has come. *)
Working(u) == usr[u].op = "append" /\ usr[u].pc \in WalkPCs \cup FillPCs \cup {"size"}
Reached(u) ==
    IF usr[u].pc = "insert" THEN usr[u].start + NewCount(usr[u]) ELSE usr[u].start

(* Nodes are intervals, begin before p, and hold nothing from p on.  Two   *)
(* of them may be the same interval or have the same extent, after a       *)
(* pwrite that failed.                                                     *)
BlankFrom(p) ==
    \A i \in DOMAIN tree :
        /\ tree[i].start % NodeSize = 0 /\ tree[i].offset % NodeSize = 0 /\ tree[i].start < p
        /\ \A x \in 0 .. (NodeSize - 1) : tree[i].start + x >= p => Byte(tree[i], x) = 0
Frontier ==
    /\ (\A u \in Users : ~ Working(u)) => BlankFrom(isize)
    /\ \A u \in Users : Working(u) => BlankFrom(Reached(u))

(* The node in the hand of the append that holds the lock. *)
InHand(u) ==
    /\ usr[u].start <= usr[u].end + 1
    /\ usr[u].pc = "chunk" => \E i \in DOMAIN tree : usr[u].cur = tree[i]
    /\ usr[u].pc \in {"new", "insert"} =>
          /\ usr[u].cur.start = usr[u].start - (usr[u].start % NodeSize)
          /\ usr[u].cur.offset % NodeSize = 0
    /\ usr[u].pc = "new" => Len(dev[usr[u].cur.place]) <= usr[u].cur.offset
    /\ usr[u].pc = "insert" =>
          \A x \in 0 .. (NodeSize - 1) : x >= NewCount(usr[u]) => Byte(usr[u].cur, x) = 0

OnlyAppends == \A u \in Users : role[u] = "append"
AInv == Kinds /\ (OnlyAppends => Frontier /\ \A u \in Users : Working(u) => InHand(u))

LEMMA KindsKept ==
    ASSUME Kinds, TInv', NEW u \in Users, Others(u), role' = role, Locks', CallKind(u)'
    PROVE  Kinds'
  <1>1. \A v \in Users : CallKind(v)'
    BY DEF Kinds, CallKind, Others
  <1> QED
    BY <1>1 DEF Kinds

LEMMA KindsStep ==
    ASSUME Kinds, [Next]_vars
    PROVE  Kinds'
  <1>0. TypeOK /\ TInv /\ TInv' /\ Locks /\ \A u \in Users : Grasp(u) /\ CallKind(u)
    BY TypeStep DEF Kinds, TInv
  <1>i. IdleUser.op = "read" /\ IdleUser.pc = "idle"
    BY DEF IdleUser
  <1>1. ASSUME NEW u \in Users, ReadCall(u) PROVE Kinds'
    <2>1. PICK n \in Counts, s \in Starts(u) : Began(u, "read", n, s.from)
      BY <1>0, <1>1, ReadCallIs
    <2>2. Holds(u)'
      BY <1>0, <2>1, HoldsNothing DEF Began
    <2>3. Locks'
      BY <1>0, <2>1, <2>2, LocksKept DEF Began
    <2>4. CallKind(u)'
      BY <2>1 DEF Began, CallKind, FillPCs
    <2> QED
      BY <1>0, <2>1, <2>3, <2>4, KindsKept DEF Began
  <1>2. ASSUME NEW u \in Users, WriteCall(u) PROVE Kinds'
    <2>1. PICK n \in Counts, s \in Starts(u) :
              IF role[u] = "append" THEN Began(u, "append", n, s.from)
              ELSE Began(u, "write", n, s.from)
      BY <1>0, <1>2, WriteCallIs
    <2>2. Holds(u)'
      BY <1>0, <2>1, HoldsNothing DEF Began
    <2>3. Locks'
      BY <1>0, <2>1, <2>2, LocksKept DEF Began
    <2>4. CallKind(u)'
      BY <2>1 DEF Began, CallKind, FillPCs
    <2> QED
      BY <1>0, <2>1, <2>3, <2>4, KindsKept DEF Began
  <1>3. ASSUME NEW u \in Users, TruncateCall(u) PROVE Kinds'
    <2>1. /\ usr[u].pc = "idle" /\ Others(u) /\ role[u] \in {"grow", "anywhere"}
          /\ usr'[u].pc = "more" /\ usr'[u].op = "write"
          /\ UNCHANGED <<treelock, role>>
      BY <1>0, <1>3, TruncateCallIs
    <2>2. Holds(u)'
      BY <1>0, <2>1, HoldsNothing
    <2>3. Locks'
      BY <1>0, <2>1, <2>2, LocksKept
    <2>4. CallKind(u)'
      BY <2>1 DEF CallKind, FillPCs
    <2> QED
      BY <1>0, <2>1, <2>3, <2>4, KindsKept
  <1>4. ASSUME NEW u \in Users, NextChunk(u) PROVE Kinds'
    <2>1. /\ usr[u].pc = "more" /\ Others(u)
          /\ usr'[u].pc = "lock" /\ usr'[u].op = usr[u].op
          /\ UNCHANGED <<treelock, role>>
      BY <1>0, <1>4, NextChunkIs
    <2>2. Holds(u)'
      BY <1>0, <2>1, HoldsNothing
    <2>3. Locks'
      BY <1>0, <2>1, <2>2, LocksKept
    <2>4. CallKind(u)'
      BY <1>0, <2>1 DEF CallKind, FillPCs
    <2> QED
      BY <1>0, <2>1, <2>3, <2>4, KindsKept
  <1>5. ASSUME NEW u \in Users, polystore_lseek(u) PROVE Kinds'
    <2>1. UNCHANGED <<treelock, role, usr>>
      BY <1>0, <1>5, SeekIs
    <2>2. Locks' /\ \A v \in Users : CallKind(v)'
      BY <1>0, <2>1 DEF Locks, Holds, CallKind
    <2> QED
      BY <1>0, <2>2 DEF Kinds
  <1>6. ASSUME NEW u \in Users, LockRead(u) PROVE Kinds'
    <2>1. /\ usr[u].op \in {"read", "write"} /\ Others(u)
          /\ treelock.writer = {} /\ Read(u)
          /\ usr'[u].op = usr[u].op /\ usr'[u].pc \in {"scanned", "chunk"}
          /\ UNCHANGED role
      BY <1>0, <1>6, LockReadIs DEF Walked, SameCall
    <2>2. Holds(u)'
      BY <2>1 DEF Holds, WalkPCs, Read
    <2>3. Locks'
      BY <1>0, <2>1, <2>2, LocksRead
    <2>4. CallKind(u)'
      BY <1>0, <2>1 DEF CallKind, FillPCs
    <2> QED
      BY <1>0, <2>1, <2>3, <2>4, KindsKept
  <1>7. ASSUME NEW u \in Users, LockWrite(u) PROVE Kinds'
    <2>1. /\ usr[u].op = "append" /\ Others(u)
          /\ treelock.readers = {} /\ treelock.writer \subseteq {u}
          /\ treelock'.readers = treelock.readers /\ treelock'.writer = {u}
          /\ usr'[u].op = usr[u].op /\ usr'[u].pc \in {"scanned", "chunk"}
          /\ UNCHANGED role
      BY <1>0, <1>7, LockWriteIs DEF Walked, SameCall
    <2>2. Holds(u)'
      BY <2>1 DEF Holds, WalkPCs
    <2>3. Locks'
      BY <1>0, <2>1, <2>2, LocksWritten
    <2>4. CallKind(u)'
      BY <1>0, <2>1 DEF CallKind, FillPCs
    <2> QED
      BY <1>0, <2>1, <2>3, <2>4, KindsKept
  (* Steps inside of a walk or of the loop that fills a range. *)
  <1>8. ASSUME NEW u \in Users, Others(u), UNCHANGED <<treelock, role>>,
               usr'[u].op = usr[u].op,
               \/ usr[u].pc \in WalkPCs /\ usr'[u].pc \in WalkPCs
               \/ usr[u].pc \in FillPCs /\ usr'[u].pc \in FillPCs \cup {"size"}
        PROVE  Kinds'
    <2>1. Holds(u) /\ CallKind(u)
      BY <1>0 DEF Locks
    <2>2. Holds(u)'
      BY <1>8, <2>1 DEF Holds, WalkPCs, FillPCs
    <2>3. Locks'
      BY <1>0, <1>8, <2>2, LocksKept
    <2>4. CallKind(u)'
      BY <1>8, <2>1 DEF CallKind, WalkPCs, FillPCs
    <2> QED
      BY <1>0, <1>8, <2>3, <2>4, KindsKept
  <1>9. ASSUME NEW u \in Users, ReadChunk(u) \/ WriteChunk(u) PROVE Kinds'
    <2>1. /\ Others(u) /\ UNCHANGED <<treelock, role>> /\ usr'[u].op = usr[u].op
          /\ usr[u].pc = "chunk" /\ usr'[u].pc \in {"next", "scanned"}
      BY <1>0, <1>9, ReadChunkIs, WriteChunkIs DEF Advanced, GaveUp, SameCall
    <2> QED
      BY <1>8, <2>1 DEF WalkPCs
  <1>10. ASSUME NEW u \in Users, NextNode(u) PROVE Kinds'
    <2>1. /\ Others(u) /\ UNCHANGED <<treelock, role>> /\ usr'[u].op = usr[u].op
          /\ usr[u].pc = "next" /\ usr'[u].pc \in {"chunk", "scanned"}
      BY <1>0, <1>10, NextNodeIs DEF Walked, SameCall
    <2> QED
      BY <1>8, <2>1 DEF WalkPCs
  <1>11. ASSUME NEW u \in Users, Allocate(u) \/ WriteNew(u) \/ InsertNode(u) PROVE Kinds'
    <2>1. /\ Others(u) /\ UNCHANGED <<treelock, role>> /\ usr'[u].op = usr[u].op
          /\ usr[u].pc \in {"fill", "new", "insert"}
          /\ usr'[u].pc \in {"fill", "new", "insert", "size"}
      BY <1>0, <1>11, AllocateIs, WriteNewIs, InsertNodeIs DEF SameCall
    <2> QED
      BY <1>8, <2>1 DEF FillPCs
  <1>12. ASSUME NEW u \in Users, Scanned(u) PROVE Kinds'
    <2>1. /\ usr[u].pc = "scanned" /\ Others(u) /\ UNCHANGED role
          /\ IF usr[u].op = "append" THEN treelock' = treelock ELSE Freed(u)
          /\ \/ usr[u].op = "read" /\ usr'[u] = IdleUser
             \/ usr[u].op # "read" /\ usr'[u].op = usr[u].op /\ usr'[u].pc = "fill"
      BY <1>0, <1>12, ScannedIs DEF SameCall
    <2>2. Holds(u) /\ CallKind(u)
      BY <1>0 DEF Locks
    <2>3. Holds(u)'
      BY <1>i, <2>1, <2>2 DEF Holds, WalkPCs, FillPCs, Freed
    <2>4. Locks'
      BY <1>0, <2>1, <2>3, LocksKept, LocksFreed
    <2>5. CallKind(u)'
      BY <1>i, <2>1, <2>2 DEF CallKind, FillPCs
    <2> QED
      BY <1>0, <2>1, <2>4, <2>5, KindsKept
  <1>13. ASSUME NEW u \in Users, SizeAppend(u) PROVE Kinds'
    <2>1. Others(u) /\ usr'[u] = IdleUser /\ Freed(u) /\ UNCHANGED role
      BY <1>0, <1>13, SizeAppendIs
    <2>2. Holds(u)'
      BY <1>i, <2>1 DEF Holds, WalkPCs, FillPCs, Freed
    <2>3. Locks' /\ CallKind(u)'
      BY <1>0, <1>i, <2>1, <2>2, LocksFreed DEF CallKind, FillPCs
    <2> QED
      BY <1>0, <2>1, <2>3, KindsKept
  <1>14. ASSUME NEW u \in Users, LoadSize(u) \/ StoreSize(u) PROVE Kinds'
    <2>1. /\ usr[u].pc \in {"size", "store"} /\ Others(u) /\ UNCHANGED <<treelock, role>>
          /\ usr[u].op = "write"
          /\ \/ usr'[u] = IdleUser
             \/ usr'[u].op = "write" /\ usr'[u].pc \in {"store", "more"}
      BY <1>0, <1>14, LoadSizeIs, StoreSizeIs DEF CallKind, SameCall
    <2>2. Holds(u) /\ CallKind(u)
      BY <1>0 DEF Locks
    <2>3. Holds(u)'
      BY <1>i, <2>1, <2>2 DEF Holds, WalkPCs, FillPCs
    <2>4. Locks' /\ CallKind(u)'
      BY <1>0, <1>i, <2>1, <2>2, <2>3, LocksKept DEF CallKind, FillPCs
    <2> QED
      BY <1>0, <2>1, <2>4, KindsKept
  <1>15. ASSUME UNCHANGED vars PROVE Kinds'
    <2>1. UNCHANGED <<treelock, role, usr>>
      BY <1>15 DEF vars
    <2>2. Locks' /\ \A v \in Users : CallKind(v)'
      BY <1>0, <2>1 DEF Locks, Holds, CallKind
    <2> QED
      BY <1>0, <2>2 DEF Kinds
  <1> QED
    BY <1>1, <1>2, <1>3, <1>4, <1>5, <1>6, <1>7, <1>9, <1>10, <1>11, <1>12, <1>13, <1>14, <1>15,
       Zenon DEF Next, UserStep, Done

-----------------------------------------------------------------------------
(* A byte that is not zero stays as it is. *)
StoredStays ==
    \A d \in Devices : \A i \in Nat : ByteAt(dev[d], i) # 0 => ByteAt(dev'[d], i) = ByteAt(dev[d], i)

(* Only one append works at a time. *)
LEMMA OneWorks ==
    Kinds => \A u, v \in Users : Working(u) /\ Working(v) => u = v
  BY DEF Kinds, Locks, Holds, Working

LEMMA OneWorksNext ==
    Kinds' => (\A u, v \in Users : Working(u) /\ Working(v) => u = v)'
  BY OneWorks, PTL

(* A place further on. *)
LEMMA BlankFurther ==
    ASSUME TypeOK, NEW p \in Int, NEW q \in Int, p <= q, BlankFrom(p)
    PROVE  BlankFrom(q)
  <1>1. \A i \in DOMAIN tree : tree[i].start \in Nat
    BY FileFacts
  <1>2. NodeSize \in Nat
    BY FileFacts
  <1> SUFFICES ASSUME NEW i \in DOMAIN tree
               PROVE  /\ tree[i].start % NodeSize = 0 /\ tree[i].offset % NodeSize = 0
                      /\ tree[i].start < q
                      /\ \A x \in 0 .. (NodeSize - 1) : tree[i].start + x >= q => Byte(tree[i], x) = 0
    BY DEF BlankFrom
  <1>3. PICK a \in Nat : a = tree[i].start
    BY <1>1
  <1>4. \A x \in 0 .. (NodeSize - 1) : a + x >= q => a + x >= p
    BY <1>2
  <1> QED
    BY <1>3, <1>4 DEF BlankFrom

LEMMA BlankSame ==
    ASSUME NEW p, BlankFrom(p), UNCHANGED <<dev, tree>>
    PROVE  BlankFrom(p)'
  BY DEF BlankFrom, Byte, ByteAt

(* The invariant after a step of u, with u at work, or with nobody. *)
LEMMA WorkGoesOn ==
    ASSUME AInv, OnlyAppends, [Next]_vars, NEW u \in Users, Others(u), Working(u)', NEW p,
           p = Reached(u)', BlankFrom(p)', InHand(u)'
    PROVE  AInv'
  <1>1. Kinds'
    BY KindsStep DEF AInv
  <1>2. \A v \in Users : Working(v)' => v = u
    BY <1>1, OneWorksNext
  <1>3. BlankFrom(Reached(u))'
    BY DEF BlankFrom
  <1>4. Frontier' /\ \A v \in Users : Working(v)' => InHand(v)'
    BY <1>2, <1>3, Zenon DEF Frontier
  <1> QED
    BY <1>1, <1>4 DEF AInv

LEMMA AtRest ==
    ASSUME AInv, OnlyAppends, [Next]_vars, NEW u \in Users, Others(u),
           UNCHANGED <<dev, tree, isize>>, ~ Working(u), ~ Working(u)'
    PROVE  AInv'
  <1>1. Kinds' /\ Frontier /\ \A v \in Users : Working(v) => InHand(v)
    BY KindsStep DEF AInv
  <1>2. \A v \in Users : Working(v)' <=> Working(v)
    BY DEF Working, Others
  <1>3. \A v \in Users : Working(v) => Reached(v)' = Reached(v) /\ (InHand(v) => InHand(v)')
    BY DEF Reached, InHand, Others, Byte, ByteAt, NewCount
  <1>4. BlankFrom(isize) => BlankFrom(isize)'
    BY DEF BlankFrom, Byte, ByteAt
  <1>5. \A v \in Users : Working(v) /\ BlankFrom(Reached(v)) => BlankFrom(Reached(v))'
    BY <1>3 DEF BlankFrom, Byte, ByteAt
  <1>6. Frontier'
    BY <1>1, <1>2, <1>4, <1>5, Zenon DEF Frontier
  <1> QED
    BY <1>1, <1>2, <1>3, <1>6, Zenon DEF AInv

LEMMA AtWork ==
    ASSUME AInv, OnlyAppends, [Next]_vars, NEW u \in Users, Others(u), UNCHANGED <<dev, tree>>,
           Working(u), Working(u)', Reached(u)' = Reached(u), InHand(u)'
    PROVE  AInv'
  <1>1. BlankFrom(Reached(u))
    BY DEF AInv, Frontier
  <1>2. PICK p : p = Reached(u)
    OBVIOUS
  <1>3. BlankFrom(p)'
    BY <1>1, <1>2, BlankSame
  <1> QED
    BY <1>2, <1>3, WorkGoesOn

(* What is known of the append at work. *)
LEMMA WorkFacts ==
    ASSUME AInv, OnlyAppends
    PROVE  /\ TypeOK /\ Locks
           /\ \A u \in Users : Grasp(u) /\ CallKind(u) /\ role[u] = "append" /\ usr[u].op # "write"
           /\ \A u \in Users : Working(u) => InHand(u) /\ BlankFrom(Reached(u))
           /\ (\A u \in Users : ~ Working(u)) => BlankFrom(isize)
  BY DEF AInv, Kinds, TInv, OnlyAppends, Frontier, CallKind

(* The walk of an append finds nodes of the tree. *)
LEMMA WalkedInHand ==
    ASSUME TypeOK, NEW u \in Users, NEW r \in UserRec, Walked(usr'[u], r), tree' = tree,
           r.start <= r.end + 1
    PROVE  InHand(u)'
  <1>1. /\ usr'[u].start = r.start /\ usr'[u].end = r.end /\ usr'[u].cur = Lookup(r.start, r.end)
        /\ usr'[u].pc = IF Lookup(r.start, r.end) = None THEN "scanned" ELSE "chunk"
    BY DEF Walked, SameCall
  <1>2. tree \in Seq(Node) /\ r.start \in Nat /\ r.end \in Int
    BY TypeFacts DEF UserRec
  <1>3. Lookup(r.start, r.end) # None => \E k \in DOMAIN tree : Lookup(r.start, r.end) = tree[k]
    BY <1>2, LookupType
  <1> QED
    BY <1>1, <1>3 DEF InHand

LEMMA AppendLockWrite ==
    ASSUME AInv, OnlyAppends, NEW u \in Users, LockWrite(u), [Next]_vars
    PROVE  AInv'
  <1>1. PICK r \in UserRec :
            /\ r.start = isize /\ r.end = isize + usr[u].count - 1 /\ r.op = usr[u].op
            /\ Walked(usr'[u], r)
    BY WorkFacts, LockWriteIs
  <1>2. /\ usr[u].pc = "lock" /\ usr[u].op = "append" /\ Others(u) /\ UNCHANGED <<dev, tree, isize>>
        /\ treelock.writer \subseteq {u}
    BY WorkFacts, LockWriteIs
  <1>3. \A v \in Users : ~ Working(v)
    BY <1>2, WorkFacts DEF Locks, Holds, Working, WalkPCs, FillPCs
  <1>4. BlankFrom(isize) /\ TypeOK
    BY <1>3, WorkFacts
  <1>5. /\ usr'[u].op = "append" /\ usr'[u].pc \in {"chunk", "scanned"} /\ usr'[u].start = isize
    BY <1>1, <1>2 DEF Walked, SameCall
  <1>6. Working(u)' /\ Reached(u)' = isize
    BY <1>5 DEF Working, Reached, WalkPCs
  <1>7. r.start <= r.end + 1
    <2>1. usr[u].count \in Nat /\ isize \in Nat
      BY <1>4, UserFacts, TypeFacts
    <2> QED
      BY <1>1, <2>1
  <1>8. InHand(u)'
    BY <1>1, <1>2, <1>4, <1>7, WalkedInHand
  <1>9. PICK p : p = isize
    OBVIOUS
  <1>10. BlankFrom(p)'
    BY <1>2, <1>4, <1>9, BlankSame
  <1> QED
    BY <1>2, <1>6, <1>8, <1>9, <1>10, WorkGoesOn

LEMMA AppendNextNode ==
    ASSUME AInv, OnlyAppends, NEW u \in Users, NextNode(u), [Next]_vars
    PROVE  AInv'
  <1>0. TypeOK /\ (Working(u) => InHand(u)) /\ usr[u] \in UserRec
    BY WorkFacts, UserFacts
  <1>1. usr[u].pc = "next" /\ Others(u) /\ Walked(usr'[u], usr[u]) /\ UNCHANGED <<dev, tree, isize>>
    BY <1>0, NextNodeIs
  <1>2. /\ usr'[u].op = usr[u].op /\ usr'[u].pc \in {"chunk", "scanned"}
        /\ usr'[u].start = usr[u].start
    BY <1>1 DEF Walked, SameCall
  <1>3. CASE usr[u].op # "append"
    BY <1>1, <1>2, <1>3, AtRest DEF Working
  <1>4. CASE usr[u].op = "append"
    <2>1. Working(u) /\ Working(u)' /\ Reached(u)' = Reached(u)
      BY <1>1, <1>2, <1>4 DEF Working, Reached, WalkPCs
    <2>2. usr[u].start <= usr[u].end + 1
      BY <1>0, <2>1 DEF InHand
    <2>3. InHand(u)'
      BY <1>0, <1>1, <2>2, WalkedInHand
    <2> QED
      BY <1>1, <2>1, <2>3, AtWork
  <1> QED
    BY <1>3, <1>4

LEMMA AppendScanned ==
    ASSUME AInv, OnlyAppends, NEW u \in Users, Scanned(u), [Next]_vars
    PROVE  AInv'
  <1>0. TypeOK /\ (Working(u) => InHand(u)) /\ usr[u].op # "write"
        /\ usr[u].op \in {"read", "write", "append"}
    BY WorkFacts, UserFacts
  <1>1. usr[u].pc = "scanned" /\ Others(u) /\ UNCHANGED <<dev, tree, isize>>
    BY <1>0, ScannedIs
  <1>2. CASE usr[u].op = "read"
    <2>1. usr'[u] = IdleUser
      BY <1>0, <1>2, ScannedIs
    <2> QED
      BY <1>1, <1>2, <2>1, AtRest DEF Working, IdleUser
  <1>3. CASE usr[u].op = "append"
    <2>1. /\ usr'[u].op = "append" /\ usr'[u].pc = "fill" /\ usr'[u].start = usr[u].start
          /\ usr'[u].end = usr[u].end
      BY <1>0, <1>3, ScannedIs DEF SameCall
    <2>2. Working(u) /\ Working(u)' /\ Reached(u)' = Reached(u)
      BY <1>1, <1>3, <2>1 DEF Working, Reached, WalkPCs, FillPCs
    <2>3. InHand(u)'
      BY <1>0, <2>1, <2>2 DEF InHand
    <2> QED
      BY <1>1, <2>2, <2>3, AtWork
  <1> QED
    BY <1>0, <1>2, <1>3

(* A new node begins the interval its part of the range starts in, behind  *)
(* the last byte of the physical file.                                     *)
LEMMA AppendAllocate ==
    ASSUME AInv, OnlyAppends, NEW u \in Users, Allocate(u), [Next]_vars
    PROVE  AInv'
  <1>0. TypeOK /\ (Working(u) => InHand(u)) /\ usr[u].op # "write" /\ CallKind(u)
        /\ usr[u].op \in {"read", "write", "append"} /\ usr[u].start \in Nat
    BY WorkFacts, UserFacts
  <1>1. /\ usr[u].pc = "fill" /\ Others(u) /\ SameCall(usr'[u], usr[u])
        /\ usr'[u].start = usr[u].start /\ UNCHANGED <<dev, tree, isize>>
        /\ \/ usr'[u].pc = "new" /\ \E d \in Devices : usr'[u].cur = NewNode(usr[u].start, d)
           \/ usr'[u].pc = "size"
    BY <1>0, AllocateIs
  <1>2. usr[u].op = "append" /\ usr'[u].op = "append" /\ usr'[u].end = usr[u].end
    BY <1>0, <1>1 DEF CallKind, FillPCs, SameCall
  <1>3. Working(u) /\ Working(u)' /\ Reached(u)' = Reached(u)
    BY <1>1, <1>2 DEF Working, Reached, FillPCs
  <1>4. ASSUME NEW d \in Devices, usr'[u].cur = NewNode(usr[u].start, d)
        PROVE  /\ usr'[u].cur.start = usr[u].start - (usr[u].start % NodeSize)
               /\ usr'[u].cur.offset % NodeSize = 0
               /\ Len(dev[usr'[u].cur.place]) <= usr'[u].cur.offset
    <2>1. Len(dev[d]) \in Nat
      BY <1>0, FileFacts
    <2>2. /\ usr'[u].cur.place = d /\ usr'[u].cur.offset = Ceiling(Len(dev[d]))
          /\ usr'[u].cur.start = usr[u].start - (usr[u].start % NodeSize)
      BY <1>0, <1>4, NewNodeIs
    <2> QED
      BY <2>1, <2>2, CeilingIs
  <1>5. InHand(u)'
    BY <1>0, <1>1, <1>2, <1>3, <1>4 DEF InHand
  <1> QED
    BY <1>1, <1>3, <1>5, AtWork

(* Multiples of the size of a node. *)
LEMMA SameExtent ==
    ASSUME NEW n \in Nat \ {0}, NEW a \in Nat, NEW b \in Nat, a % n = 0, b % n = 0
    PROVE  /\ a < b => a + n <= b
           /\ \A x, y \in 0 .. (n - 1) : a + x = b + y => a = b /\ x = y
  <1>1. PICK i \in Nat : a = i * n
    <2>1. a \div n \in Nat /\ a = (a \div n) * n + (a % n)
      BY Remainder
    <2>2. a = (a \div n) * n
      BY <2>1
    <2> QED
      BY <2>1, <2>2, Zenon
  <1>2. PICK k \in Nat : b = k * n
    <2>1. b \div n \in Nat /\ b = (b \div n) * n + (b % n)
      BY Remainder
    <2>2. b = (b \div n) * n
      BY <2>1
    <2> QED
      BY <2>1, <2>2, Zenon
  <1>3. ASSUME a < b PROVE a + n <= b
    <2>1. i < k
      <3>1. CASE k <= i
        BY <1>1, <1>2, <1>3, <3>1, Multiples
      <3> QED
        BY <3>1
    <2>2. (i + 1) * n <= k * n /\ (i + 1) * n = i * n + n
      BY <2>1, Multiples
    <2> QED
      BY <1>1, <1>2, <2>2
  <1>4. ASSUME NEW x \in 0 .. (n - 1), NEW y \in 0 .. (n - 1), a + x = b + y
        PROVE  a = b /\ x = y
    <2>1. a <= a + x /\ a + x <= a + n - 1 /\ b <= a + x /\ a + x <= b + n - 1
      BY <1>4
    <2>2. PICK p \in Int : p = a + x
      OBVIOUS
    <2>3. i * n <= p /\ p <= i * n + n - 1 /\ k * n <= p /\ p <= k * n + n - 1
      BY <1>1, <1>2, <2>1, <2>2
    <2>4. i = k
      BY <2>3, OneInterval
    <2> QED
      BY <1>1, <1>2, <1>4, <2>4
  <1> QED
    BY <1>3, <1>4

(* The part of the file's last node that an append writes over is blank.   *)
LEMMA ChunkBlank ==
    ASSUME AInv, OnlyAppends, NEW u \in Users, Working(u), usr[u].pc = "chunk"
    PROVE  /\ \E i \in DOMAIN tree : usr[u].cur = tree[i]
           /\ usr[u].cur \in Node /\ usr[u].cur.start < usr[u].start
           /\ usr[u].start - usr[u].cur.start \in Nat
           /\ ChunkCount(usr[u]) \in Nat \ {0}
           /\ (usr[u].start - usr[u].cur.start) + ChunkCount(usr[u]) <= NodeSize
           /\ \A x \in 0 .. (NodeSize - 1) :
                 x >= usr[u].start - usr[u].cur.start => Byte(usr[u].cur, x) = 0
  <1>0. TypeOK /\ InHand(u) /\ Grasp(u) /\ BlankFrom(Reached(u)) /\ usr[u] \in UserRec
        /\ usr[u].start \in Nat /\ usr[u].end \in Int
    BY WorkFacts, UserFacts
  <1>1. PICK i \in DOMAIN tree : usr[u].cur = tree[i]
    BY <1>0 DEF InHand
  <1>2. BlankFrom(usr[u].start)
    BY <1>0 DEF Reached
  <1>3. usr[u].cur \in Node /\ usr[u].start <= Last(usr[u].cur) /\ usr[u].start <= usr[u].end
    BY <1>0 DEF Grasp
  <1>4. /\ usr[u].cur.start < usr[u].start
        /\ \A x \in 0 .. (NodeSize - 1) : usr[u].cur.start + x >= usr[u].start => Byte(usr[u].cur, x) = 0
    BY <1>1, <1>2 DEF BlankFrom
  <1>5. PICK a \in Nat : a = usr[u].cur.start
    BY <1>3 DEF Node
  <1>6. PICK s \in Nat, e \in Int : s = usr[u].start /\ e = usr[u].end
    BY <1>0
  <1>7. NodeSize \in Nat \ {0}
    BY SizesAssumption
  <1>8. PICK l \in Int : l = Last(usr[u].cur) /\ l = a + NodeSize - 1
    BY <1>5, <1>7 DEF Last
  <1>9. PICK c \in Nat \ {0} : c = ChunkCount(usr[u])
    BY <1>0, <1>3, ChunkIs
  <1>10. c = IF l < e THEN l - s + 1 ELSE e - s + 1
    BY <1>6, <1>8, <1>9 DEF ChunkCount
  <1>11. (s - a) + c <= NodeSize /\ a < s /\ s - a \in Nat
    BY <1>4, <1>5, <1>6, <1>7, <1>8, <1>10
  <1>12. \A x \in 0 .. (NodeSize - 1) : x >= s - a => a + x >= s
    BY <1>7
  <1> QED
    BY <1>1, <1>3, <1>4, <1>5, <1>6, <1>9, <1>11, <1>12

LEMMA AppendWriteChunk ==
    ASSUME AInv, OnlyAppends, NEW u \in Users, WriteChunk(u), [Next]_vars
    PROVE  AInv' /\ StoredStays
  <1>0. TypeOK /\ Grasp(u) /\ CallKind(u) /\ usr[u].op # "write" /\ usr[u] \in UserRec
        /\ usr[u].op \in {"read", "write", "append"} /\ usr[u].start \in Nat /\ usr[u].end \in Int
        /\ usr[u].val \in Values /\ NodeSize \in Nat \ {0}
    BY WorkFacts, UserFacts, SizesAssumption
  <1>1. usr[u].pc = "chunk" /\ usr[u].op = "append" /\ Others(u) /\ UNCHANGED <<tree, isize>>
    BY <1>0, WriteChunkIs
  <1>2. Working(u) /\ InHand(u) /\ BlankFrom(usr[u].start) /\ Reached(u) = usr[u].start
    BY <1>1, WorkFacts DEF Working, WalkPCs, Reached
  <1>3. CASE GaveUp(u) /\ dev' = dev
    <2>1. /\ usr'[u].op = "append" /\ usr'[u].pc = "scanned" /\ usr'[u].start = usr[u].start
          /\ usr'[u].end = usr[u].end
      BY <1>1, <1>3 DEF GaveUp, SameCall
    <2>2. Working(u)' /\ Reached(u)' = Reached(u) /\ InHand(u)'
      BY <1>2, <2>1 DEF Working, WalkPCs, Reached, InHand
    <2>3. StoredStays
      BY <1>3 DEF StoredStays
    <2> QED
      BY <1>1, <1>2, <1>3, <2>2, <2>3, AtWork
  <1>4. CASE /\ Advanced(u, ChunkCount(usr[u]))
             /\ Wrote(usr[u].cur.place, Position(usr[u]), ChunkCount(usr[u]), usr[u].val)
    <2>1. PICK i \in DOMAIN tree : usr[u].cur = tree[i]
      BY <1>1, <1>2, ChunkBlank
    <2>2. PICK c \in Nat \ {0} : c = ChunkCount(usr[u])
      BY <1>1, <1>2, ChunkBlank
    <2>3. PICK y \in Nat : y = usr[u].start - usr[u].cur.start
      BY <1>1, <1>2, ChunkBlank
    <2>4. /\ y + c <= NodeSize
          /\ \A x \in 0 .. (NodeSize - 1) : x >= y => Byte(usr[u].cur, x) = 0
      BY <1>1, <1>2, <2>2, <2>3, ChunkBlank
    <2>5. PICK o \in Nat, d \in Devices, a \in Nat :
              o = usr[u].cur.offset /\ d = usr[u].cur.place /\ a = usr[u].cur.start
      BY <1>1, <1>2, ChunkBlank DEF Node
    <2>6. Position(usr[u]) = o + y
      BY <2>3, <2>5 DEF Position
    <2>7. \A e \in Devices : \A k \in Nat :
             ByteAt(dev'[e], k) = IF e = d /\ o + y <= k /\ k < (o + y) + c THEN usr[u].val
                                  ELSE ByteAt(dev[e], k)
      <3>1. Wrote(d, o + y, c, usr[u].val) /\ o + y \in Nat /\ c \in Nat
        BY <1>4, <2>2, <2>5, <2>6
      <3> QED
        BY <1>0, <3>1, WroteBytes
    <2>8. StoredStays
      <3> SUFFICES ASSUME NEW k \in Nat, o + y <= k, k < (o + y) + c
                   PROVE  ByteAt(dev[d], k) = 0
        BY <2>7, Zenon DEF StoredStays
      <3>1. k - o \in 0 .. (NodeSize - 1) /\ k - o >= y /\ o + (k - o) = k
        BY <1>0, <2>4
      <3>2. Byte(usr[u].cur, k - o) = 0
        BY <2>4, <3>1
      <3> QED
        BY <2>5, <3>1, <3>2 DEF Byte
    <2>9. PICK s \in Nat : s = usr[u].start
      BY <1>0
    <2>10. PICK p \in Nat : p = s + c
      OBVIOUS
    <2>11. /\ usr'[u].op = "append" /\ usr'[u].pc = "next" /\ usr'[u].start = p
           /\ usr'[u].end = usr[u].end
      BY <1>1, <1>4, <2>2, <2>9, <2>10 DEF Advanced, SameCall
    <2>12. p <= usr[u].end + 1
      <3>1. usr[u].cur \in Node /\ usr[u].start <= Last(usr[u].cur) /\ usr[u].start <= usr[u].end
        BY <1>0, <1>1 DEF Grasp
      <3>2. PICK q \in Nat : /\ q = usr[u].start + ChunkCount(usr[u])
                             /\ q = IF Last(usr[u].cur) < usr[u].end THEN Last(usr[u].cur) + 1
                                    ELSE usr[u].end + 1
        BY <1>0, <3>1, ChunkIs
      <3>3. Last(usr[u].cur) \in Nat
        BY <1>0, <3>1, ChunkIs
      <3> QED
        BY <1>0, <2>2, <2>9, <2>10, <3>2, <3>3
    <2>13. Working(u)' /\ p = Reached(u)' /\ InHand(u)'
      BY <2>11, <2>12 DEF Working, WalkPCs, Reached, InHand
    (* No node that begins after the one written to shares its extent. *)
    <2>14. BlankFrom(p)'
      <3> SUFFICES ASSUME NEW j \in DOMAIN tree
                   PROVE  /\ tree[j].start % NodeSize = 0 /\ tree[j].offset % NodeSize = 0
                          /\ tree[j].start < p
                          /\ \A x \in 0 .. (NodeSize - 1) :
                                tree[j].start + x >= p => ByteAt(dev'[tree[j].place], tree[j].offset + x) = 0
        BY <1>1 DEF BlankFrom, Byte
      <3>1. PICK b \in Nat, w \in Nat, e \in Devices :
                b = tree[j].start /\ w = tree[j].offset /\ e = tree[j].place
        BY <1>0, FileFacts
      <3>2. /\ b % NodeSize = 0 /\ w % NodeSize = 0 /\ b < s
            /\ \A x \in 0 .. (NodeSize - 1) : b + x >= s => ByteAt(dev[e], w + x) = 0
        BY <1>2, <2>9, <3>1 DEF BlankFrom, Byte
      <3>3. a % NodeSize = 0 /\ o % NodeSize = 0 /\ s = a + y
        BY <1>2, <2>1, <2>3, <2>5, <2>9 DEF BlankFrom
      <3>4. ASSUME NEW x \in 0 .. (NodeSize - 1), b + x >= p
            PROVE  ByteAt(dev'[e], w + x) = 0
        <4>1. w + x \in Nat /\ b + x >= s
          BY <1>0, <2>10, <3>4
        <4>2. ByteAt(dev[e], w + x) = 0
          BY <3>2, <4>1
        <4>3. ~ (o + y <= w + x /\ w + x < (o + y) + c)
          <5> SUFFICES ASSUME o + y <= w + x, w + x < (o + y) + c
                       PROVE  FALSE
            OBVIOUS
          <5>1. PICK z \in 0 .. (NodeSize - 1) : z = (w + x) - o /\ z < y + c
            <6>1. (w + x) - o \in 0 .. (NodeSize - 1) /\ (w + x) - o < y + c
              BY <1>0, <2>4
            <6> QED
              BY <6>1
          <5>2. o + z = w + x
            BY <1>0, <5>1
          <5>3. x = z
            BY <1>0, <3>2, <3>3, <5>2, SameExtent
          <5>4. a < b
            BY <1>0, <2>10, <3>3, <3>4, <5>1, <5>3
          <5>5. a + NodeSize <= b
            BY <1>0, <3>2, <3>3, <5>4, SameExtent
          <5> QED
            BY <1>0, <2>4, <3>2, <3>3, <5>5
        <4> QED
          BY <2>7, <4>1, <4>2, <4>3
      <3>5. b < p
        BY <2>10, <3>2
      <3> QED
        BY <3>1, <3>2, <3>4, <3>5
    <2>15. AInv'
      BY <1>1, <2>13, <2>14, WorkGoesOn
    <2> QED
      BY <2>8, <2>15
  <1> QED
    BY <1>0, <1>3, <1>4, WriteChunkIs

LEMMA AppendWriteNew ==
    ASSUME AInv, OnlyAppends, NEW u \in Users, WriteNew(u), [Next]_vars
    PROVE  AInv' /\ StoredStays
  <1>0. TypeOK /\ Grasp(u) /\ CallKind(u) /\ usr[u].op # "write" /\ usr[u] \in UserRec
        /\ usr[u].op \in {"read", "write", "append"} /\ usr[u].start \in Nat /\ usr[u].end \in Int
        /\ usr[u].val \in Values /\ NodeSize \in Nat \ {0}
    BY WorkFacts, UserFacts, SizesAssumption
  <1>1. /\ usr[u].pc = "new" /\ Others(u) /\ SameCall(usr'[u], usr[u])
        /\ usr'[u].pc = "insert" /\ usr'[u].cur = usr[u].cur /\ usr'[u].start = usr[u].start
        /\ \/ dev' = dev
           \/ Wrote(usr[u].cur.place, usr[u].cur.offset, NewCount(usr[u]), usr[u].val)
        /\ UNCHANGED <<tree, isize>>
    BY <1>0, WriteNewIs
  <1>2. usr[u].op = "append" /\ usr'[u].op = "append" /\ usr'[u].end = usr[u].end
    BY <1>0, <1>1 DEF CallKind, FillPCs, SameCall
  <1>3. Working(u) /\ InHand(u) /\ BlankFrom(usr[u].start) /\ Working(u)'
    <2>1. Working(u) /\ Working(u)' /\ Reached(u) = usr[u].start
      BY <1>1, <1>2 DEF Working, FillPCs, Reached
    <2> QED
      BY <2>1, WorkFacts
  <1>4. usr[u].cur \in Node /\ usr[u].start < usr[u].end
    BY <1>0, <1>1 DEF Grasp
  <1>5. PICK o \in Nat, d \in Devices : o = usr[u].cur.offset /\ d = usr[u].cur.place
    BY <1>4 DEF Node
  <1>6. PICK n \in Nat \ {0} : n = NewCount(usr[u]) /\ n <= NodeSize /\ NewCount(usr'[u]) = n
    <2>1. /\ NewCount(usr[u]) \in Nat \ {0}
          /\ NewCount(usr[u]) = IF usr[u].end - usr[u].start + 1 <= NodeSize
                                THEN usr[u].end - usr[u].start + 1 ELSE NodeSize
      BY <1>0, <1>4, NewCountIs
    <2>2. NewCount(usr[u]) <= NodeSize
      BY <1>0, <2>1
    <2>3. NewCount(usr'[u]) = NewCount(usr[u])
      BY <1>1, <1>2 DEF NewCount
    <2> QED
      BY <2>1, <2>2, <2>3
  <1>7. PICK s \in Nat, p \in Nat : s = usr[u].start /\ p = s + n
    BY <1>0
  <1>8. o % NodeSize = 0 /\ Len(dev[d]) <= o /\ Len(dev[d]) \in Nat
    BY <1>0, <1>1, <1>3, <1>5, FileFacts DEF InHand
  (* Nothing is stored in the extent, and afterwards in its front only. *)
  <1>9. \A k \in Nat : k >= o => ByteAt(dev[d], k) = 0
    BY <1>8 DEF ByteAt
  <1>10. \A e \in Devices : \A k \in Nat :
            ByteAt(dev'[e], k) = ByteAt(dev[e], k) \/ (e = d /\ o <= k /\ k < o + n)
    <2>1. CASE dev' = dev
      BY <2>1
    <2>2. CASE Wrote(usr[u].cur.place, usr[u].cur.offset, NewCount(usr[u]), usr[u].val)
      <3>1. Wrote(d, o, n, usr[u].val) /\ n \in Nat
        BY <1>5, <1>6, <2>2
      <3> QED
        BY <1>0, <3>1, WroteBytes
    <2> QED
      BY <1>1, <2>1, <2>2
  <1>11. StoredStays
    BY <1>9, <1>10 DEF StoredStays
  <1>12. \A x \in 0 .. (NodeSize - 1) : x >= n => ByteAt(dev'[d], o + x) = 0
    <2> SUFFICES ASSUME NEW x \in 0 .. (NodeSize - 1), x >= n
                 PROVE  ByteAt(dev'[d], o + x) = 0
      OBVIOUS
    <2>1. o + x \in Nat /\ o + x >= o /\ ~ (o + x < o + n)
      BY <1>0
    <2> QED
      BY <1>9, <1>10, <2>1
  <1>13. p = Reached(u)'
    BY <1>1, <1>6, <1>7 DEF Reached
  <1>14. InHand(u)'
    <2>1. /\ usr'[u].start <= usr'[u].end + 1
          /\ usr'[u].cur.start = usr'[u].start - (usr'[u].start % NodeSize)
          /\ usr'[u].cur.offset % NodeSize = 0
      BY <1>1, <1>2, <1>3 DEF InHand
    <2>2. \A x \in 0 .. (NodeSize - 1) :
             x >= NewCount(usr'[u]) => ByteAt(dev'[usr'[u].cur.place], usr'[u].cur.offset + x) = 0
      BY <1>1, <1>5, <1>6, <1>12
    <2> QED
      BY <1>1, <2>1, <2>2 DEF InHand, Byte
  (* Another node may have the same extent, but it begins below. *)
  <1>15. BlankFrom(p)'
    <2> SUFFICES ASSUME NEW j \in DOMAIN tree
                 PROVE  /\ tree[j].start % NodeSize = 0 /\ tree[j].offset % NodeSize = 0
                        /\ tree[j].start < p
                        /\ \A x \in 0 .. (NodeSize - 1) :
                              tree[j].start + x >= p => ByteAt(dev'[tree[j].place], tree[j].offset + x) = 0
      BY <1>1 DEF BlankFrom, Byte
    <2>1. PICK b \in Nat, w \in Nat, e \in Devices :
              b = tree[j].start /\ w = tree[j].offset /\ e = tree[j].place
      BY <1>0, FileFacts
    <2>2. /\ b % NodeSize = 0 /\ w % NodeSize = 0 /\ b < s
          /\ \A x \in 0 .. (NodeSize - 1) : b + x >= s => ByteAt(dev[e], w + x) = 0
      BY <1>3, <1>7, <2>1 DEF BlankFrom, Byte
    <2>3. ASSUME NEW x \in 0 .. (NodeSize - 1), b + x >= p
          PROVE  ByteAt(dev'[e], w + x) = 0
      <3>1. w + x \in Nat /\ b + x >= s
        BY <1>0, <1>7, <2>3
      <3>2. ByteAt(dev[e], w + x) = 0
        BY <2>2, <3>1
      <3>3. ~ (o <= w + x /\ w + x < o + n)
        <4> SUFFICES ASSUME o <= w + x, w + x < o + n
                     PROVE  FALSE
          OBVIOUS
        <4>1. PICK z \in 0 .. (NodeSize - 1) : z = (w + x) - o /\ z < n
          <5>1. (w + x) - o \in 0 .. (NodeSize - 1) /\ (w + x) - o < n
            BY <1>0, <1>6
          <5> QED
            BY <5>1
        <4>2. o + z = w + x
          BY <1>0, <4>1
        <4>3. x = z
          BY <1>0, <1>8, <2>2, <4>2, SameExtent
        <4> QED
          BY <1>0, <1>7, <2>2, <2>3, <4>1, <4>3
      <3> QED
        BY <1>10, <3>1, <3>2, <3>3
    <2>4. b < p
      BY <1>7, <2>2
    <2> QED
      BY <2>1, <2>2, <2>3, <2>4
  <1>16. AInv'
    BY <1>1, <1>3, <1>13, <1>14, <1>15, WorkGoesOn
  <1> QED
    BY <1>11, <1>16

LEMMA AppendInsertNode ==
    ASSUME AInv, OnlyAppends, NEW u \in Users, InsertNode(u), [Next]_vars
    PROVE  /\ AInv' /\ dev' = dev /\ tree' = Append(tree, usr[u].cur)
           /\ usr[u].cur \in Node /\ usr[u].cur.start % NodeSize = 0
           /\ \A i \in DOMAIN tree : tree[i].start % NodeSize = 0
  <1>0. TypeOK /\ Grasp(u) /\ CallKind(u) /\ usr[u].op # "write" /\ usr[u] \in UserRec
        /\ usr[u].op \in {"read", "write", "append"} /\ usr[u].start \in Nat /\ usr[u].end \in Int
        /\ NodeSize \in Nat \ {0} /\ tree \in Seq(Node)
    BY WorkFacts, UserFacts, SizesAssumption, TypeFacts
  <1>1. /\ usr[u].pc = "insert" /\ Others(u) /\ SameCall(usr'[u], usr[u])
        /\ tree' = Append(tree, usr[u].cur)
        /\ usr'[u].pc = "fill"
        /\ usr'[u].start = usr[u].start + NewCount(usr[u])
        /\ UNCHANGED <<dev, isize>>
    BY <1>0, InsertNodeIs
  <1>2. usr[u].op = "append" /\ usr'[u].op = "append" /\ usr'[u].end = usr[u].end
    BY <1>0, <1>1 DEF CallKind, FillPCs, SameCall
  <1>3. Working(u) /\ InHand(u) /\ BlankFrom(usr[u].start + NewCount(usr[u])) /\ Working(u)'
    <2>1. Working(u) /\ Working(u)' /\ Reached(u) = usr[u].start + NewCount(usr[u])
      BY <1>1, <1>2 DEF Working, FillPCs, Reached
    <2> QED
      BY <2>1, WorkFacts
  <1>4. usr[u].cur \in Node /\ usr[u].start < usr[u].end
    BY <1>0, <1>1 DEF Grasp
  <1>5. PICK n \in Nat \ {0} : n = NewCount(usr[u]) /\ n <= usr[u].end - usr[u].start + 1
    <2>1. /\ NewCount(usr[u]) \in Nat \ {0}
          /\ NewCount(usr[u]) = IF usr[u].end - usr[u].start + 1 <= NodeSize
                                THEN usr[u].end - usr[u].start + 1 ELSE NodeSize
      BY <1>0, <1>4, NewCountIs
    <2> QED
      BY <1>0, <2>1
  <1>6. PICK s \in Nat, p \in Nat : s = usr[u].start /\ p = s + n
    BY <1>0
  <1>7. PICK a \in Nat : a = usr[u].cur.start
    BY <1>4 DEF Node
  <1>8. a <= s /\ a % NodeSize = 0 /\ usr[u].cur.offset % NodeSize = 0
    <2>1. a = s - (s % NodeSize) /\ usr[u].cur.offset % NodeSize = 0
      BY <1>1, <1>3, <1>6, <1>7 DEF InHand
    <2>2. PICK k \in Nat, r \in 0 .. (NodeSize - 1) : r = s % NodeSize /\ s = k * NodeSize + r
      <3>1. s \div NodeSize \in Nat /\ s % NodeSize \in 0 .. (NodeSize - 1)
            /\ s = (s \div NodeSize) * NodeSize + (s % NodeSize)
        BY <1>0, Remainder
      <3> QED
        BY <3>1, Zenon
    <2>3. (k * NodeSize) % NodeSize = 0 /\ k * NodeSize \in Nat
      BY <1>0, NodeMultiple
    <2>4. a = k * NodeSize
      BY <2>1, <2>2, <2>3
    <2>5. a % NodeSize = 0
      BY <2>3, <2>4, Zenon
    <2>6. a <= s
      BY <1>0, <2>1, <2>2
    <2> QED
      BY <2>1, <2>5, <2>6
  <1>9. p = Reached(u)' /\ InHand(u)'
    <2>1. usr'[u].start = p /\ p <= usr'[u].end + 1
      BY <1>0, <1>1, <1>2, <1>5, <1>6
    <2> QED
      BY <1>1, <2>1 DEF Reached, InHand
  <1>10. BlankFrom(p)
    BY <1>3, <1>5, <1>6
  <1>11. BlankFrom(p)'
    <2>1. \A i \in DOMAIN tree' : (i \in DOMAIN tree /\ tree'[i] = tree[i]) \/ tree'[i] = usr[u].cur
      BY <1>0, <1>1, <1>4
    <2> SUFFICES ASSUME NEW j \in DOMAIN tree'
                 PROVE  /\ tree'[j].start % NodeSize = 0 /\ tree'[j].offset % NodeSize = 0
                        /\ tree'[j].start < p
                        /\ \A x \in 0 .. (NodeSize - 1) :
                              tree'[j].start + x >= p => ByteAt(dev[tree'[j].place], tree'[j].offset + x) = 0
      BY <1>1 DEF BlankFrom, Byte
    <2>2. CASE j \in DOMAIN tree /\ tree'[j] = tree[j]
      BY <1>10, <2>2 DEF BlankFrom, Byte
    <2>3. CASE tree'[j] = usr[u].cur
      <3>1. ASSUME NEW x \in 0 .. (NodeSize - 1), a + x >= p
            PROVE  ByteAt(dev[usr[u].cur.place], usr[u].cur.offset + x) = 0
        <4>1. x >= n
          BY <1>0, <1>6, <1>8, <3>1
        <4> QED
          BY <1>1, <1>3, <1>5, <4>1 DEF InHand, Byte
      <3>2. a < p
        BY <1>6, <1>8
      <3> QED
        BY <1>7, <1>8, <2>3, <3>1, <3>2
    <2> QED
      BY <2>1, <2>2, <2>3
  <1>12. AInv'
    BY <1>1, <1>3, <1>9, <1>11, WorkGoesOn
  <1>13. \A i \in DOMAIN tree : tree[i].start % NodeSize = 0
    BY <1>10 DEF BlankFrom
  <1> QED
    BY <1>1, <1>4, <1>7, <1>8, <1>12, <1>13

LEMMA AppendSizeAppend ==
    ASSUME AInv, OnlyAppends, NEW u \in Users, SizeAppend(u), [Next]_vars
    PROVE  AInv'
  <1>0. TypeOK /\ usr[u].start \in Nat /\ usr[u].end \in Int /\ isize \in Nat /\ Kinds
    BY WorkFacts, UserFacts, TypeFacts DEF AInv
  <1>1. /\ usr[u].pc = "size" /\ usr[u].op = "append" /\ Others(u) /\ usr'[u] = IdleUser
        /\ isize' = IF usr[u].end + 1 >= isize THEN usr[u].end + 1 ELSE isize
        /\ UNCHANGED <<dev, tree>>
    BY <1>0, SizeAppendIs
  <1>2. Working(u) /\ Reached(u) = usr[u].start
    BY <1>1 DEF Working, Reached
  <1>3. InHand(u) /\ BlankFrom(usr[u].start)
    BY <1>2, WorkFacts
  <1>4. PICK q \in Int : q = isize' /\ usr[u].start <= q
    BY <1>0, <1>1, <1>3 DEF InHand
  <1>5. BlankFrom(q)
    BY <1>0, <1>3, <1>4, BlankFurther
  <1>6. BlankFrom(isize)'
    BY <1>1, <1>4, <1>5 DEF BlankFrom, Byte, ByteAt
  <1>7. \A v \in Users : ~ Working(v)'
    <2>1. \A v \in Users : Working(v) => v = u
      BY <1>0, <1>2, OneWorks
    <2>2. ~ Working(u)'
      BY <1>1 DEF Working, IdleUser
    <2> QED
      BY <1>1, <2>1, <2>2 DEF Working, Others
  <1>8. Kinds'
    BY <1>0, KindsStep
  <1> QED
    BY <1>6, <1>7, <1>8, Zenon DEF AInv, Frontier

-----------------------------------------------------------------------------
(* What a step does to the bytes the index leads to. *)

LEMMA ViewStays ==
    ASSUME TypeOK, tree' = tree, StoredStays, NEW p \in Nat, View(p) # 0
    PROVE  View(p)' = View(p)
  <1>1. tree \in Seq(Node)
    BY TypeFacts
  <1>2. PICK n : n = Lookup(p, p)
    OBVIOUS
  <1>3. Lookup(p, p)' = n
    BY <1>2 DEF Lookup, Last
  <1>4. n # None
    BY <1>2 DEF View
  <1>5. n \in Node /\ n.start <= p
    BY <1>1, <1>2, <1>4, LookupType
  <1>6. n.place \in Devices /\ n.offset \in Nat /\ n.start \in Nat
    BY <1>5 DEF Node
  <1>7. n.offset + p - n.start \in Nat
    BY <1>5, <1>6
  <1>8. View(p) = ByteAt(dev[n.place], n.offset + p - n.start)
    BY <1>2, <1>4 DEF View
  <1>9. View(p)' = ByteAt(dev'[n.place], n.offset + p - n.start)
    BY <1>3, <1>4 DEF View
  <1> QED
    BY <1>6, <1>7, <1>8, <1>9 DEF StoredStays

(* The node a position leads to: the first one inserted, of those it is in. *)
LEMMA LookupAt ==
    tree \in Seq(Node) =>
        \A p \in Nat :
            \/ Lookup(p, p) = None /\ Hits(p, p) = {}
            \/ \E k \in Hits(p, p) : /\ Lookup(p, p) = tree[k]
                                     /\ \A j \in Hits(p, p) :
                                           \/ tree[k].start < tree[j].start
                                           \/ tree[k].start = tree[j].start /\ k <= j
  <1> SUFFICES ASSUME tree \in Seq(Node), NEW p \in Nat
               PROVE  \/ Lookup(p, p) = None /\ Hits(p, p) = {}
                      \/ \E k \in Hits(p, p) : /\ Lookup(p, p) = tree[k]
                                               /\ \A j \in Hits(p, p) :
                                                     \/ tree[k].start < tree[j].start
                                                     \/ tree[k].start = tree[j].start /\ k <= j
    OBVIOUS
  <1>1. p \in Int /\ ~ (p > p)
    OBVIOUS
  <1> QED
    BY <1>1, LookupFirst

LEMMA LookupAtNext ==
    (tree \in Seq(Node))' =>
        (\A p \in Nat :
            \/ Lookup(p, p) = None /\ Hits(p, p) = {}
            \/ \E k \in Hits(p, p) : /\ Lookup(p, p) = tree[k]
                                     /\ \A j \in Hits(p, p) :
                                           \/ tree[k].start < tree[j].start
                                           \/ tree[k].start = tree[j].start /\ k <= j)'
  BY LookupAt, PTL

(* An insertion hides no node, not even in the interval of another one. *)
LEMMA ViewInserted ==
    ASSUME TypeOK, dev' = dev, NEW c \in Node, tree' = Append(tree, c), c.start % NodeSize = 0,
           \A i \in DOMAIN tree : tree[i].start % NodeSize = 0, NEW p \in Nat, View(p) # 0
    PROVE  View(p)' = View(p)
  <1>1. tree \in Seq(Node) /\ tree' \in Seq(Node) /\ NodeSize \in Nat \ {0}
    BY TypeFacts, SizesAssumption
  <1>2. Lookup(p, p) # None
    BY DEF View
  <1>3. PICK k \in Hits(p, p) : /\ Lookup(p, p) = tree[k]
                                /\ \A j \in Hits(p, p) :
                                      \/ tree[k].start < tree[j].start
                                      \/ tree[k].start = tree[j].start /\ k <= j
    BY <1>1, <1>2, LookupAt
  <1>4. /\ DOMAIN tree = 1 .. Len(tree) /\ Len(tree) \in Nat
        /\ DOMAIN tree' = 1 .. (Len(tree) + 1) /\ tree'[Len(tree) + 1] = c
        /\ \A j \in 1 .. Len(tree) : tree'[j] = tree[j] /\ tree[j] \in Node
    BY <1>1
  <1>5. /\ k \in 1 .. Len(tree) /\ tree[k].start <= p /\ p <= Last(tree[k]) /\ tree'[k] = tree[k]
        /\ tree[k].start \in Nat
    BY <1>3, <1>4 DEF Hits, Node
  <1>6. \A m : m \in Hits(p, p)' <=> m \in DOMAIN tree' /\ tree'[m].start <= p /\ p <= Last(tree'[m])
    BY DEF Hits, Last
  <1>7. k \in Hits(p, p)'
    BY <1>4, <1>5, <1>6
  <1>8. PICK m \in Hits(p, p)' : /\ Lookup(p, p)' = tree'[m]
                                 /\ \A j \in Hits(p, p)' :
                                       \/ tree'[m].start < tree'[j].start
                                       \/ tree'[m].start = tree'[j].start /\ m <= j
    BY <1>1, <1>7, LookupAtNext
  <1>9. m \in 1 .. (Len(tree) + 1) /\ tree'[m].start <= p /\ p <= Last(tree'[m])
    BY <1>4, <1>6
  <1>10. \/ tree'[m].start < tree[k].start
         \/ tree'[m].start = tree[k].start /\ m <= k
    BY <1>5, <1>7, <1>8
  <1>11. CASE m \in 1 .. Len(tree)
    <2>1. tree'[m] = tree[m] /\ m \in Hits(p, p) /\ tree[m].start \in Nat
      BY <1>4, <1>9, <1>11 DEF Hits, Node
    <2>2. \/ tree[k].start < tree[m].start
          \/ tree[k].start = tree[m].start /\ k <= m
      BY <1>3, <2>1
    <2>3. m = k
      BY <1>5, <1>10, <1>11, <2>1, <2>2
    <2> QED
      BY <1>2, <1>3, <1>5, <1>8, <2>3 DEF View
  <1>12. CASE m = Len(tree) + 1
    <2>1. PICK a \in Nat, b \in Nat : a = c.start /\ b = tree[k].start
      BY <1>5 DEF Node
    <2>2. a % NodeSize = 0 /\ b % NodeSize = 0
      BY <1>4, <1>5, <2>1
    <2>3. a <= p /\ p <= a + NodeSize - 1 /\ b <= p /\ p <= b + NodeSize - 1
      BY <1>4, <1>5, <1>9, <1>12, <2>1 DEF Last
    <2>4. PICK x \in 0 .. (NodeSize - 1), y \in 0 .. (NodeSize - 1) : a + x = b + y
      <3>1. /\ p - a \in 0 .. (NodeSize - 1) /\ p - b \in 0 .. (NodeSize - 1)
            /\ a + (p - a) = b + (p - b)
        BY <1>1, <2>3
      <3> QED
        BY <3>1, Zenon
    <2>5. a = b
      BY <1>1, <2>2, <2>4, SameExtent
    <2>6. a < b \/ (a = b /\ m <= k)
      BY <1>4, <1>10, <1>12, <2>1
    <2> QED
      BY <1>4, <1>5, <1>12, <2>5, <2>6
  <1> QED
    BY <1>4, <1>9, <1>11, <1>12

-----------------------------------------------------------------------------
LEMMA RolesStay ==
    ASSUME TInv, [Next]_vars
    PROVE  role' = role
  BY ZenonT(60) DEF Next, UserStep, Done, vars, ReadCall, WriteCall, Begin, TruncateCall, polystore_lseek,
         LockRead, LockWrite, ReadChunk, WriteChunk, NextNode, Scanned, Allocate, WriteNew,
         InsertNode, SizeAppend, LoadSize, StoreSize, NextChunk

(* Calls that begin, reads, and steps that change no record. *)
LEMMA AppendOthers ==
    ASSUME AInv, OnlyAppends, [Next]_vars, NEW u \in Users,
           \/ ReadCall(u) \/ WriteCall(u) \/ TruncateCall(u) \/ NextChunk(u) \/ LockRead(u)
           \/ ReadChunk(u) \/ LoadSize(u) \/ StoreSize(u)
    PROVE  AInv' /\ UNCHANGED <<dev, tree>>
  <1>0. TypeOK /\ Grasp(u) /\ CallKind(u) /\ role[u] = "append" /\ usr[u].op # "write"
    BY WorkFacts
  <1>1. CASE ReadCall(u)
    <2>1. PICK n \in Counts, s \in Starts(u) : Began(u, "read", n, s.from)
      BY <1>0, <1>1, ReadCallIs
    <2> QED
      BY <2>1, AtRest DEF Began, Working, WalkPCs, FillPCs
  <1>2. CASE WriteCall(u)
    <2>1. PICK n \in Counts, s \in Starts(u) : Began(u, "append", n, s.from)
      BY <1>0, <1>2, WriteCallIs
    <2> QED
      BY <2>1, AtRest DEF Began, Working, WalkPCs, FillPCs
  <1>3. CASE TruncateCall(u)
    BY <1>0, <1>3, TruncateCallIs
  <1>4. CASE NextChunk(u) \/ LoadSize(u) \/ StoreSize(u)
    BY <1>0, <1>4, NextChunkIs, LoadSizeIs, StoreSizeIs DEF CallKind
  <1>5. CASE LockRead(u)
    <2>1. /\ usr[u].op \in {"read", "write"} /\ usr'[u].op = usr[u].op /\ Others(u)
          /\ UNCHANGED <<dev, tree, isize>>
      BY <1>0, <1>5, LockReadIs DEF Walked, SameCall
    <2> QED
      BY <2>1, AtRest DEF Working
  <1>6. CASE ReadChunk(u)
    <2>1. /\ usr[u].op = "read" /\ usr'[u].op = usr[u].op /\ Others(u)
          /\ UNCHANGED <<dev, tree, isize>>
      BY <1>0, <1>6, ReadChunkIs DEF Advanced, GaveUp, SameCall
    <2> QED
      BY <2>1, AtRest DEF Working
  <1> QED
    BY <1>1, <1>2, <1>3, <1>4, <1>5, <1>6

LEMMA AppendStill ==
    ASSUME AInv, OnlyAppends, [Next]_vars, UNCHANGED <<dev, tree, isize, usr>>
    PROVE  AInv'
  <1>1. CASE Users = {}
    <2>1. BlankFrom(isize)'
      BY <1>1 DEF AInv, Frontier, BlankFrom, Byte, ByteAt
    <2> QED
      BY <1>1, <2>1, KindsStep DEF AInv, Frontier
  <1>2. ASSUME NEW u \in Users PROVE AInv'
    <2>1. Others(u)
      BY DEF Others
    <2>2. CASE ~ Working(u)
      BY <2>1, <2>2, AtRest DEF Working
    <2>3. CASE Working(u)
      <3>1. InHand(u)
        BY <2>3, WorkFacts
      <3>2. Working(u)' /\ Reached(u)' = Reached(u) /\ InHand(u)'
        BY <2>3, <3>1 DEF Working, Reached, InHand, Byte, ByteAt, NewCount
      <3> QED
        BY <2>1, <2>3, <3>2, AtWork
    <2> QED
      BY <2>2, <2>3
  <1> QED
    BY <1>1, <1>2

(* Every step, and what it does to stored bytes. *)
LEMMA AppendStep ==
    ASSUME AInv, OnlyAppends, [Next]_vars
    PROVE  AInv' /\ \A p \in Nat : View(p) # 0 => View(p)' = View(p)
  <1>0. TypeOK
    BY WorkFacts
  <1>1. ASSUME AInv', UNCHANGED <<dev, tree>>
        PROVE  AInv' /\ \A p \in Nat : View(p) # 0 => View(p)' = View(p)
    BY <1>1, ViewSame
  <1>2. ASSUME NEW u \in Users,
               \/ ReadCall(u) \/ WriteCall(u) \/ TruncateCall(u) \/ NextChunk(u) \/ LockRead(u)
               \/ ReadChunk(u) \/ LoadSize(u) \/ StoreSize(u)
        PROVE  AInv' /\ \A p \in Nat : View(p) # 0 => View(p)' = View(p)
    BY <1>1, <1>2, AppendOthers
  <1>3. ASSUME NEW u \in Users, LockWrite(u) \/ NextNode(u) \/ Scanned(u) \/ Allocate(u) \/ SizeAppend(u)
        PROVE  AInv' /\ \A p \in Nat : View(p) # 0 => View(p)' = View(p)
    <2>1. UNCHANGED <<dev, tree>>
      BY <1>3 DEF LockWrite, NextNode, Scanned, Allocate, SizeAppend, index
    <2> QED
      BY <1>1, <1>3, <2>1, AppendLockWrite, AppendNextNode, AppendScanned, AppendAllocate,
         AppendSizeAppend
  <1>4. ASSUME NEW u \in Users, WriteChunk(u) \/ WriteNew(u)
        PROVE  AInv' /\ \A p \in Nat : View(p) # 0 => View(p)' = View(p)
    <2>1. AInv' /\ StoredStays
      BY <1>4, AppendWriteChunk, AppendWriteNew
    <2>2. tree' = tree
      BY <1>4 DEF WriteChunk, WriteNew, index
    <2> QED
      BY <1>0, <2>1, <2>2, ViewStays
  <1>5. ASSUME NEW u \in Users, InsertNode(u)
        PROVE  AInv' /\ \A p \in Nat : View(p) # 0 => View(p)' = View(p)
    BY <1>0, <1>5, AppendInsertNode, ViewInserted
  <1>6. ASSUME UNCHANGED vars \/ \E u \in Users : polystore_lseek(u)
        PROVE  AInv' /\ \A p \in Nat : View(p) # 0 => View(p)' = View(p)
    <2>1. UNCHANGED <<dev, tree, isize, usr>>
      BY <1>6 DEF vars, polystore_lseek, index
    <2> QED
      BY <1>1, <2>1, AppendStill
  <1> QED
    BY <1>2, <1>3, <1>4, <1>5, <1>6, Zenon DEF Next, UserStep, Done

LEMMA NextAInv ==
    ASSUME AInv, [Next]_vars
    PROVE  AInv'
  <1>1. CASE OnlyAppends
    BY <1>1, AppendStep
  <1>2. CASE ~ OnlyAppends
    <2>1. role' = role
      BY RolesStay DEF AInv, Kinds
    <2>2. ~ OnlyAppends'
      BY <1>2, <2>1 DEF OnlyAppends
    <2> QED
      BY <2>2, KindsStep DEF AInv
  <1> QED
    BY <1>1, <1>2

LEMMA InitAInv == Init => AInv
  <1> SUFFICES ASSUME Init
               PROVE  AInv
    OBVIOUS
  <1>1. TInv
    BY InitTInv
  <1>2. \A u \in Users : usr[u] = IdleUser
    BY DEF Init
  <1>3. IdleUser.op = "read" /\ IdleUser.pc = "idle"
    BY DEF IdleUser
  <1>4. treelock.readers = {} /\ treelock.writer = {} /\ tree = <<>>
    BY DEF Init
  <1>5. Locks /\ \A u \in Users : CallKind(u) /\ ~ Working(u)
    BY <1>2, <1>3, <1>4 DEF Locks, Holds, CallKind, Working, WalkPCs, FillPCs
  <1>6. BlankFrom(isize)
    BY <1>4 DEF BlankFrom
  <1> QED
    BY <1>1, <1>5, <1>6 DEF AInv, Kinds, Frontier

(* polystore_append_iter decides where it starts only once it has the tree *)
(* lock for writing: what it then stores is behind everything any append   *)
(* has stored, so no byte of the file is written over, for any number of   *)
(* appenders and any lengths, and although failed calls of pwrite leave    *)
(* nodes that share an interval or an extent.                              *)
THEOREM AppendsOnlyAdd ==
    ASSUME AppendersAlone
    PROVE  Spec => AppendsAdd
  <1>1. ASSUME AInv, [Next]_vars
        PROVE  [\A u \in Users : usr[u].op = "append" /\ usr'[u] # usr[u] =>
                   \A p \in Positions : View(p) # 0 => View(p)' = View(p)]_vars
    <2> SUFFICES ASSUME NEW u \in Users, usr[u].op = "append"
                 PROVE  \A p \in Positions : View(p) # 0 => View(p)' = View(p)
      OBVIOUS
    <2>1. role \in Roles /\ role[u] = "append"
      BY <1>1, TypeFacts DEF AInv, Kinds, TInv, CallKind
    <2>2. OnlyAppends
      BY <2>1 DEF AppendersAlone, OnlyAppends
    <2>3. Positions \subseteq Nat
      BY DEF Positions
    <2> QED
      BY <1>1, <2>2, <2>3, AppendStep
  <1> QED
    BY <1>1, InitAInv, NextAInv, PTL DEF Spec, AppendsAdd
=============================================================================
