--------------------------- MODULE PolyCacheProofs ---------------------------
(***************************************************************************)
(* Proofs about PolyCache, for any number of nodes, files, users, workers  *)
(* and calls: where a node is linked, who owns an interval, that the last  *)
(* write is kept, which calls can make a second node for an interval, that *)
(* the exit misses no interval unless one of two races of calls was run,   *)
(* and that the cache then implements WriteBack.                           *)
(***************************************************************************)
EXTENDS PolyCache, TLAPS, WellFoundedInduction, SequenceTheorems

LockedPCs == {"cold", "admit", "copy"}  \* the user holds the interval
AtNodePCs == LockedPCs \cup {"lock"}
NewbornPCs == {"link", "insert"}        \* the node is not in the tree yet

-----------------------------------------------------------------------------
(* The inductive invariant. *)

(* A call keeps its file live, an unlink keeps it "dropping" and alone. *)
Calls ==
    /\ \A u \in Users :
          /\ usr[u].pc = "idle" => usr[u] = IdleUser
          /\ usr[u].pc # "idle" => usr[u].file \in Files
          /\ usr[u].op = "drop" <=> usr[u].pc \in DropPCs
          /\ usr[u].pc \notin DropPCs \cup {"idle"} => fstate[usr[u].file] = "live"
          /\ usr[u].pc \in DropPCs => fstate[usr[u].file] = "dropping"
    /\ \A u, v \in Users :
          usr[u].pc \in DropPCs /\ usr[v].pc \in DropPCs /\ u # v =>
              usr[u].file # usr[v].file

(* What a call has in hand: nodes of its file that a lookup found, a node  *)
(* it made and nobody can find yet, nodes of the file it has yet to make.  *)
Grasp(u) ==
    /\ usr[u].pc \in AtNodePCs => usr[u].cur \in usr[u].todo
    /\ usr[u].pc \in ScanPCs => usr[u].todo \subseteq Tree
    /\ usr[u].pc \in ScanPCs \cup DropPCs => \A e \in usr[u].todo : FileOf[e] = usr[u].file
    /\ usr[u].pc \in NewbornPCs =>
          usr[u].cur \in allocated /\ FileOf[usr[u].cur] = usr[u].file
    /\ usr[u].pc = "make" => usr[u].new # {}
    /\ \A e \in usr[u].new : FileOf[e] = usr[u].file

(* Two calls may have the same nodes to make, but each is made once. *)
Intervals ==
    /\ \A u \in Users : Grasp(u)
    /\ \A u, v \in Users :
          u # v /\ usr[u].pc \in NewbornPCs /\ usr[v].pc \in NewbornPCs =>
              usr[u].cur # usr[v].cur

(* The dispatcher's snapshot of the size stays a natural number. *)
Sizes ==
    \A u \in Users :
        /\ usr[u].pc \in {"tas", "snap"} => size >= 1
        /\ usr[u].pc \in {"spin", "pick", "queue"} => usr[u].snap >= 1
        /\ usr[u].pc = "store" => usr[u].snap \in Nodes \cup {0}

(* Calls are over when the exit begins, workers when it frees. *)
Phases ==
    /\ phase # "run" => \A u \in Users : usr[u].pc = "idle"
    /\ phase \in {"free", "done"} =>
          jobs = <<>> /\ \A w \in Flushers : fl[w].pc = "idle"

(* Who owns an interval, and a queue. *)
Owners ==
    /\ \A u \in Users : usr[u].pc \in LockedPCs => lock[usr[u].cur] = u
    /\ \A w \in Flushers :
          /\ fl[w].pc \in {"scan", "lock", "evict"} => qmutex[fl[w].q] = w
          /\ fl[w].pc \in {"lock", "evict"} => queue[fl[w].q] # <<>>
          /\ fl[w].pc = "evict" => lock[Head(queue[fl[w].q])] = w

(* A node e on a list; in a queue; in the dispatcher's hand; about to be   *)
(* put on the cold list by the user that has just given it a buffer.       *)
Has(l, e)       == \E i \in DOMAIN l : l[i] = e
Once(l)         == \A i, j \in DOMAIN l : l[i] = l[j] => i = j
InQueues(qs, e) == \E q \in Queues : Has(qs[q], e)
Handed(us, e)   == \E u \in Users : us[u].pc = "queue" /\ us[u].cur = e
Awaited(us, e)  == \E u \in Users : us[u].pc \in {"cold", "link"} /\ us[u].cur = e
Linked(e)       == Has(cold, e) \/ InQueues(queue, e) \/ Handed(usr, e)

(* The dispatcher has a node between the two lists. *)
Hands == \A u \in Users : usr[u].pc = "queue" => usr[u].cur # None

(* No node is linked twice, and only allocated ones are. *)
Lists ==
    /\ Once(cold) /\ \A q \in Queues : Once(queue[q])
    /\ \A q, r \in Queues, e \in Nodes : Has(queue[q], e) /\ Has(queue[r], e) => q = r
    /\ \A e \in Nodes :
          /\ ~ (Has(cold, e) /\ InQueues(queue, e))
          /\ Handed(usr, e) => ~ Has(cold, e) /\ ~ InQueues(queue, e)
          /\ Linked(e) => e \in allocated

(* A node is linked exactly when it has a buffer, and a user that works on *)
(* an interval keeps its buffer.                                           *)
Homes ==
    /\ \A e \in Nodes :
          /\ node[e].removed => fstate[FileOf[e]] # "live"
          /\ ~ node[e].removed =>
                (Linked(e) <=> node[e].buf # "null" /\ ~ Awaited(usr, e))
    /\ \A u \in Users :
          usr[u].pc \in LockedPCs \cup {"link"} => node[usr[u].cur].buf # "null"

(* The content of intervals when I/O does not fail. *)
Contents ==
    /\ LastWriteKept
    /\ \A e \in Nodes : node[e].dirty => node[e].present
    /\ \A u \in Users : usr[u].pc = "copy" =>
          /\ node[usr[u].cur].present
          /\ usr[u].op # "read" => node[usr[u].cur].dirty

IInv ==
    /\ TypeOK /\ OneDispatcher /\ Calls /\ Intervals /\ Sizes /\ Phases /\ Owners
    /\ Hands /\ Lists /\ Homes

-----------------------------------------------------------------------------
(* Operators of the model. *)

UserRec == [pc : UserPCs, op : {"read", "write", "append", "drop"},
            file : Files \cup {None}, cur : Nodes \cup {None},
            todo : SUBSET Nodes, new : SUBSET Nodes, end : Nodes \cup {0},
            rr : Nat, snap : Nat]
NodeRec == [buf : {"null", "stale", "fresh"}, disk : {"stale", "fresh"},
            present : BOOLEAN, dirty : BOOLEAN, cache_size : {0, 1},
            removed : BOOLEAN]

(* The least of a set of nodes is one of them. *)
LEMMA MinNode ==
    ASSUME NEW S \in SUBSET Nodes, S # {}
    PROVE  Min(S) \in S
  <1>1. S \subseteq Nat
    BY SetsAssumption
  <1>2. \E x \in S : \A y \in S : ~ (<<y, x>> \in OpToRel(<, Nat))
    BY <1>1, NatLessThanWellFounded, WFMin, Zenon
  <1>3. \A x, y \in Nat : ~ (<<y, x>> \in OpToRel(<, Nat)) => x =< y
    <2> SUFFICES ASSUME NEW x \in Nat, NEW y \in Nat, ~ (x =< y)
                 PROVE  <<y, x>> \in OpToRel(<, Nat)
      OBVIOUS
    <2>1. y < x
      OBVIOUS
    <2> QED
      BY <2>1 DEF OpToRel
  <1>4. \E x \in S : \A y \in S : x =< y
    BY <1>1, <1>2, <1>3
  <1> QED
    BY <1>4 DEF Min

(* The user's record after a statement that keeps its call and its file. *)
Becomes(u, p, c, t, n, s) ==
    /\ \A v \in Users : v # u => usr'[v] = usr[v]
    /\ usr'[u].pc = p /\ usr'[u].cur = c /\ usr'[u].todo = t /\ usr'[u].new = n
    /\ usr'[u].snap = s /\ usr'[u].op = usr[u].op /\ usr'[u].file = usr[u].file

Returns(u) ==
    /\ \A v \in Users : v # u => usr'[v] = usr[v]
    /\ usr'[u] = IdleUser

LEMMA GotoStep ==
    ASSUME TypeOK, NEW u \in Users, NEW p \in UserPCs \ {"idle"}, Goto(u, p)
    PROVE  /\ usr' \in [Users -> UserRec]
           /\ Becomes(u, p, usr[u].cur, usr[u].todo, usr[u].new, usr[u].snap)
  <1>1. usr \in [Users -> UserRec] /\ usr[u] \in UserRec
    BY DEF TypeOK, UserRec
  <1>2. [usr[u] EXCEPT !.pc = p] \in UserRec
    BY <1>1 DEF UserRec
  <1>3. usr' = [usr EXCEPT ![u] = [usr[u] EXCEPT !.pc = p]]
    BY DEF Goto
  <1> QED
    BY <1>1, <1>2, <1>3 DEF Becomes, UserRec

LEMMA GotoIdle ==
    ASSUME TypeOK, NEW u \in Users, Goto(u, "idle")
    PROVE  usr' \in [Users -> UserRec] /\ Returns(u)
  <1>1. usr \in [Users -> UserRec]
    BY DEF TypeOK, UserRec
  <1>2. IdleUser \in UserRec
    BY DEF UserRec, IdleUser, UserPCs
  <1>3. usr' = [usr EXCEPT ![u] = IdleUser]
    BY DEF Goto
  <1> QED
    BY <1>1, <1>2, <1>3 DEF Returns

LEMMA ScanStep ==
    ASSUME TypeOK, NEW u \in Users, NEW S \in SUBSET Nodes, NEW r \in UserRec
    PROVE  /\ Scan(r, S) \in UserRec /\ Scan(r, S).todo = S /\ Scan(r, S).new = r.new
           /\ Scan(r, S).op = r.op /\ Scan(r, S).file = r.file
           /\ Scan(r, S).snap = r.snap
           /\ \/ S = {} /\ Scan(r, S).pc = "scanned" /\ Scan(r, S).cur = None
              \/ S # {} /\ Scan(r, S).pc = "lock" /\ Scan(r, S).cur \in S
  <1>1. CASE S = {}
    BY <1>1 DEF Scan, UserRec, UserPCs, ScanPCs
  <1>2. CASE S # {}
    <2>1. Min(S) \in S /\ Min(S) \in Nodes
      BY <1>2, MinNode
    <2>2. Scan(r, S) = [r EXCEPT !.todo = S, !.cur = Min(S), !.pc = "lock"]
      BY <1>2 DEF Scan
    <2> QED
      BY <1>2, <2>1, <2>2 DEF UserRec, UserPCs, ScanPCs
  <1> QED
    BY <1>1, <1>2

-----------------------------------------------------------------------------
(* What each statement does to the variables, field by field. *)

Keeps(u, p) == Becomes(u, p, usr[u].cur, usr[u].todo, usr[u].new, usr[u].snap)

NodeBecomes(e, b, d, p, y, r) ==
    /\ \A x \in Nodes : x # e => node'[x] = node[x]
    /\ node'[e].buf = b /\ node'[e].disk = d /\ node'[e].present = p
    /\ node'[e].dirty = y /\ node'[e].removed = r

LEMMA CurIsNode ==
    ASSUME IInv, NEW u \in Users, usr[u].pc \in AtNodePCs
    PROVE  /\ usr[u].cur \in Nodes /\ usr[u].cur \in usr[u].todo /\ usr[u].cur \in Tree
           /\ usr[u].cur \in allocated /\ FileOf[usr[u].cur] = usr[u].file
           /\ fstate[usr[u].file] = "live"
  <1>1. usr[u].cur \in usr[u].todo /\ usr[u].todo \subseteq Tree
        /\ FileOf[usr[u].cur] = usr[u].file
    BY DEF IInv, Intervals, Grasp, AtNodePCs, LockedPCs, ScanPCs
  <1>2. Tree \subseteq allocated /\ allocated \subseteq Nodes
    BY DEF Tree, IInv, TypeOK
  <1>3. fstate[usr[u].file] = "live"
    BY DEF IInv, Calls, AtNodePCs, LockedPCs, DropPCs
  <1> QED
    BY <1>1, <1>2, <1>3

LEMMA LockNodeEffect ==
    ASSUME IInv, NEW u \in Users, LockNode(u)
    PROVE  /\ TypeOK'
           /\ usr[u].pc = "lock" /\ usr[u].cur \in Nodes /\ lock[usr[u].cur] = None
           /\ lock' = [lock EXCEPT ![usr[u].cur] = u]
           /\ \/ /\ node[usr[u].cur].buf = "null" /\ Keeps(u, "cold")
                 /\ NodeBecomes(usr[u].cur, "stale", node[usr[u].cur].disk,
                                node[usr[u].cur].present, node[usr[u].cur].dirty,
                                node[usr[u].cur].removed)
              \/ node[usr[u].cur].buf # "null" /\ Keeps(u, "admit") /\ node' = node
           /\ UNCHANGED <<allocated, cold, queue, qmutex, size, indicator, fstate, phase, fl>>
  <1>1. usr[u].pc = "lock" /\ usr[u].cur \in Nodes
    <2>1. usr[u].pc = "lock"
      BY DEF LockNode, UserAt
    <2> QED
      BY <2>1, CurIsNode DEF AtNodePCs
  <1> PICK e \in Nodes : e = usr[u].cur
    BY <1>1
  <1>0. TypeOK /\ node \in [Nodes -> NodeRec] /\ node[e] \in NodeRec
    BY DEF IInv, TypeOK, NodeRec
  <1>2. lock[e] = None /\ lock' = [lock EXCEPT ![e] = u]
    BY DEF LockNode
  <1>3. UNCHANGED <<index, treelock, spin, qmutex, lists, size, indicator, jobs,
                    fstate, undefined, phase, fl, ops>>
    BY DEF LockNode
  <1>4. /\ usr' \in [Users -> UserRec] /\ node' \in [Nodes -> NodeRec]
        /\ \/ /\ node[e].buf = "null" /\ Keeps(u, "cold")
              /\ NodeBecomes(e, "stale", node[e].disk, node[e].present, node[e].dirty,
                             node[e].removed)
           \/ node[e].buf # "null" /\ Keeps(u, "admit") /\ node' = node
    <2>1. CASE node[e].buf = "null" /\ node' = [node EXCEPT ![e].buf = "stale"] /\ Goto(u, "cold")
      <3>1. usr' \in [Users -> UserRec] /\ Keeps(u, "cold")
        BY <1>0, <2>1, GotoStep DEF Keeps, UserPCs, ScanPCs
      <3>2. node' \in [Nodes -> NodeRec]
        BY <1>0, <2>1 DEF NodeRec
      <3>3. NodeBecomes(e, "stale", node[e].disk, node[e].present, node[e].dirty,
                        node[e].removed)
        BY <1>0, <2>1 DEF NodeRec, NodeBecomes
      <3> QED
        BY <2>1, <3>1, <3>2, <3>3
    <2>2. CASE node[e].buf # "null" /\ Goto(u, "admit") /\ UNCHANGED node
      BY <1>0, <2>2, GotoStep DEF Keeps, UserPCs, ScanPCs
    <2> QED
      BY <2>1, <2>2 DEF LockNode
  <1>5. TypeOK'
    BY <1>0, <1>2, <1>3, <1>4 DEF TypeOK, UserRec, NodeRec, index, lists
  <1> QED
    BY <1>1, <1>2, <1>3, <1>4, <1>5 DEF index, lists

LEMMA AddColdEffect ==
    ASSUME IInv, NEW u \in Users, AddCold(u)
    PROVE  /\ TypeOK'
           /\ usr[u].pc \in {"cold", "link"} /\ usr[u].cur \in Nodes
           /\ cold' = Append(cold, usr[u].cur)
           /\ \/ usr[u].pc = "cold" /\ Keeps(u, "admit")
              \/ usr[u].pc = "link" /\ Keeps(u, "insert")
           /\ UNCHANGED <<node, allocated, lock, queue, qmutex, size, indicator, fstate,
                          phase, fl>>
  <1>1. usr[u].pc \in {"cold", "link"}
    BY DEF AddCold, UserAt
  <1>2. usr[u].cur \in Nodes
    BY <1>1, CurIsNode DEF AtNodePCs, LockedPCs, IInv, Intervals, Grasp, NewbornPCs, TypeOK
  <1>3. cold' = Append(cold, usr[u].cur)
    BY DEF AddCold
  <1>4. UNCHANGED <<node, index, locks, queue, size, indicator, jobs, fstate,
                    undefined, phase, fl, ops>>
    BY DEF AddCold
  <1>5. /\ usr' \in [Users -> UserRec]
        /\ \/ usr[u].pc = "cold" /\ Keeps(u, "admit")
           \/ usr[u].pc = "link" /\ Keeps(u, "insert")
    <2>1. CASE usr[u].pc = "cold"
      <3>1. Goto(u, "admit")
        BY <2>1 DEF AddCold
      <3> QED
        BY <2>1, <3>1, GotoStep DEF IInv, Keeps, UserPCs, ScanPCs
    <2>2. CASE usr[u].pc = "link"
      <3>1. Goto(u, "insert")
        BY <2>2 DEF AddCold
      <3> QED
        BY <2>2, <3>1, GotoStep DEF IInv, Keeps, UserPCs, NewPCs
    <2> QED
      BY <1>1, <2>1, <2>2
  <1>6. TypeOK'
    BY <1>2, <1>3, <1>4, <1>5, SMTT(60) DEF IInv, TypeOK, UserRec, index, locks
  <1> QED
    BY <1>1, <1>2, <1>3, <1>4, <1>5, <1>6 DEF index, locks

LEMMA AdmitEffect ==
    ASSUME IInv, NEW u \in Users, poly_cache_admit(u)
    PROVE  /\ TypeOK' /\ usr[u].pc = "admit" /\ usr[u].cur \in Nodes
           /\ size' >= size /\ Keeps(u, "copy")
           /\ \E b \in {"stale", "fresh"} :
                 /\ ~ IOErrors => b = node[usr[u].cur].disk
                 /\ NodeBecomes(usr[u].cur,
                                IF node[usr[u].cur].present THEN node[usr[u].cur].buf ELSE b,
                                node[usr[u].cur].disk, TRUE,
                                node[usr[u].cur].dirty \/ usr[u].op # "read",
                                node[usr[u].cur].removed)
           /\ UNCHANGED <<allocated, lock, cold, queue, qmutex, indicator, fstate, phase, fl>>
  <1>1. usr[u].pc = "admit" /\ usr[u].cur \in Nodes
    <2>1. usr[u].pc = "admit"
      BY DEF poly_cache_admit, UserAt
    <2> QED
      BY <2>1, CurIsNode DEF AtNodePCs, LockedPCs
  <1> PICK e \in Nodes : e = usr[u].cur
    BY <1>1
  <1>0. TypeOK /\ node \in [Nodes -> NodeRec] /\ node[e] \in NodeRec
    BY DEF IInv, TypeOK, NodeRec
  <1>2. UNCHANGED <<index, locks, lists, indicator, jobs, fstate, undefined, phase, fl, ops>>
    BY DEF poly_cache_admit
  <1>3. size' = size + (1 - node[e].cache_size) /\ size' \in Nat /\ size' >= size
    BY <1>0 DEF poly_cache_admit, TypeOK, NodeRec
  <1>4. usr' \in [Users -> UserRec] /\ Keeps(u, "copy")
    BY <1>0, GotoStep DEF poly_cache_admit, Keeps, UserPCs, ScanPCs
  <1>5. PICK b \in {node[e].disk} \cup (IF IOErrors THEN {"stale"} ELSE {}) :
            node' = [node EXCEPT ![e] =
                [node[e] EXCEPT !.buf = IF node[e].present THEN @ ELSE b, !.present = TRUE,
                                !.dirty = @ \/ usr[u].op # "read", !.cache_size = 1]]
    <2>1. PICK m \in Admitted(node[e], usr[u].op) : node' = [node EXCEPT ![e] = m]
      BY DEF poly_cache_admit
    <2> QED
      BY <2>1, Zenon DEF Admitted
  <1>6. b \in {"stale", "fresh"} /\ (~ IOErrors => b = node[e].disk)
    BY <1>0, SetsAssumption DEF NodeRec
  <1> DEFINE n == [node[e] EXCEPT !.buf = IF node[e].present THEN @ ELSE b, !.present = TRUE,
                                  !.dirty = @ \/ usr[u].op # "read", !.cache_size = 1]
  <1>7. /\ n \in NodeRec /\ n.buf = (IF node[e].present THEN node[e].buf ELSE b)
        /\ n.disk = node[e].disk /\ n.present = TRUE
        /\ n.dirty = (node[e].dirty \/ usr[u].op # "read") /\ n.removed = node[e].removed
    BY <1>0, <1>6 DEF NodeRec
  <1>8. node' = [node EXCEPT ![e] = n]
    BY <1>5
  <1> HIDE DEF n
  <1>9. /\ node' \in [Nodes -> NodeRec]
        /\ NodeBecomes(e, IF node[e].present THEN node[e].buf ELSE b, node[e].disk, TRUE,
                       node[e].dirty \/ usr[u].op # "read", node[e].removed)
    BY <1>0, <1>7, <1>8 DEF NodeBecomes
  <1>10. TypeOK'
    BY <1>0, <1>2, <1>3, <1>4, <1>9 DEF TypeOK, UserRec, NodeRec, index, locks, lists
  <1> QED
    BY <1>1, <1>2, <1>3, <1>4, <1>6, <1>9, <1>10 DEF index, locks, lists

LEMMA CopyEffect ==
    ASSUME IInv, NEW u \in Users, CopyOut(u) \/ CopyIn(u)
    PROVE  /\ TypeOK' /\ usr[u].pc = "copy" /\ usr[u].cur \in Nodes
           /\ lock' = [lock EXCEPT ![usr[u].cur] = None]
           /\ \E p, c : /\ Becomes(u, p, c, usr[u].todo \ {usr[u].cur}, usr[u].new, usr[u].snap)
                        /\ \/ p = "scanned"
                           \/ p = "lock" /\ c \in usr[u].todo \ {usr[u].cur}
           /\ \/ node' = node
              \/ /\ usr[u].op # "read"
                 /\ NodeBecomes(usr[u].cur, node[usr[u].cur].buf, "stale",
                                node[usr[u].cur].present, node[usr[u].cur].dirty,
                                node[usr[u].cur].removed)
           /\ UNCHANGED <<allocated, cold, queue, qmutex, size, indicator, fstate, phase, fl>>
  <1>1. usr[u].pc = "copy" /\ usr[u].cur \in Nodes
    <2>1. usr[u].pc = "copy"
      BY DEF CopyOut, CopyIn, UserAt
    <2> QED
      BY <2>1, CurIsNode DEF AtNodePCs, LockedPCs
  <1> PICK e \in Nodes : e = usr[u].cur
    BY <1>1
  <1>0. /\ TypeOK /\ node \in [Nodes -> NodeRec] /\ node[e] \in NodeRec
        /\ usr \in [Users -> UserRec] /\ usr[u] \in UserRec
    BY DEF IInv, TypeOK, NodeRec, UserRec
  <1>2. lock' = [lock EXCEPT ![e] = None]
    BY DEF CopyOut, CopyIn
  <1>3. UNCHANGED <<index, treelock, spin, qmutex, lists, size, indicator, jobs,
                    fstate, undefined, phase, fl, ops>>
    BY DEF CopyOut, CopyIn
  <1> PICK S \in SUBSET Nodes : S = usr[u].todo \ {e}
    BY <1>0 DEF UserRec
  <1> DEFINE r == Scan(usr[u], S)
  <1>4. usr' = [usr EXCEPT ![u] = r]
    BY DEF CopyOut, CopyIn
  <1>5. /\ r \in UserRec /\ r.todo = S /\ r.new = usr[u].new /\ r.op = usr[u].op
        /\ r.file = usr[u].file /\ r.snap = usr[u].snap
        /\ r.pc = "scanned" \/ (r.pc = "lock" /\ r.cur \in S)
    BY <1>0, ScanStep
  <1> HIDE DEF r
  <1>6. usr' \in [Users -> UserRec] /\ Becomes(u, r.pc, r.cur, S, usr[u].new, usr[u].snap)
    BY <1>0, <1>4, <1>5 DEF Becomes
  <1>7. /\ node' \in [Nodes -> NodeRec]
        /\ \/ node' = node
           \/ /\ usr[u].op # "read"
              /\ NodeBecomes(e, node[e].buf, "stale", node[e].present, node[e].dirty,
                             node[e].removed)
    <2>1. CASE node' = node
      BY <1>0, <2>1
    <2>2. CASE usr[u].op \in {"write", "append"} /\ node' = [node EXCEPT ![e].disk = "stale"]
      <3>1. node' \in [Nodes -> NodeRec]
        BY <1>0, <2>2 DEF NodeRec
      <3>2. NodeBecomes(e, node[e].buf, "stale", node[e].present, node[e].dirty,
                        node[e].removed)
        BY <1>0, <2>2 DEF NodeRec, NodeBecomes
      <3> QED
        BY <2>2, <3>1, <3>2
    <2> QED
      BY <2>1, <2>2 DEF CopyOut, CopyIn
  <1>8. TypeOK'
    BY <1>0, <1>2, <1>3, <1>6, <1>7 DEF TypeOK, UserRec, NodeRec, index, lists
  <1> QED
    BY <1>1, <1>2, <1>3, <1>5, <1>6, <1>7, <1>8 DEF index, lists

LEMMA UnlockTreeType ==
    ASSUME TypeOK, NEW u \in Users, usr[u].file \in Files, UnlockTree(u)
    PROVE  treelock' \in [Files -> [readers : SUBSET Users, writer : Users \cup {None}]]
  <1> PICK f \in Files : f = usr[u].file
    OBVIOUS
  <1> DEFINE t == [readers |-> treelock[f].readers \ {u},
                   writer |-> IF treelock[f].writer = u THEN None ELSE treelock[f].writer]
  <1>1. treelock[f] \in [readers : SUBSET Users, writer : Users \cup {None}]
    BY DEF TypeOK
  <1>2. t \in [readers : SUBSET Users, writer : Users \cup {None}]
    BY <1>1
  <1>3. treelock' = [treelock EXCEPT ![f] = t]
    BY DEF UnlockTree
  <1> QED
    BY <1>2, <1>3 DEF TypeOK

LEMMA LockTreeType ==
    ASSUME TypeOK, NEW u \in Users, NEW f \in Files,
           \/ treelock' = [treelock EXCEPT ![f].readers = @ \cup {u}]
           \/ treelock' = [treelock EXCEPT ![f].writer = u]
    PROVE  treelock' \in [Files -> [readers : SUBSET Users, writer : Users \cup {None}]]
  <1> DEFINE r == [treelock[f] EXCEPT !.readers = @ \cup {u}]
             w == [treelock[f] EXCEPT !.writer = u]
  <1>1. treelock[f] \in [readers : SUBSET Users, writer : Users \cup {None}]
    BY DEF TypeOK
  <1>2. /\ r \in [readers : SUBSET Users, writer : Users \cup {None}]
        /\ w \in [readers : SUBSET Users, writer : Users \cup {None}]
    BY <1>1
  <1>3. treelock' = [treelock EXCEPT ![f] = r] \/ treelock' = [treelock EXCEPT ![f] = w]
    OBVIOUS
  <1> HIDE DEF r, w
  <1> QED
    BY <1>2, <1>3, ZenonT(60) DEF TypeOK

LEMMA ScannedEffect ==
    ASSUME IInv, NEW u \in Users, Scanned(u)
    PROVE  /\ TypeOK' /\ usr[u].pc = "scanned"
           /\ \/ Returns(u)
              \/ Keeps(u, "make") /\ usr[u].new # {}
              \/ Keeps(u, "size")
           /\ UNCHANGED <<node, allocated, lock, cold, queue, qmutex, size, indicator, fstate,
                          phase, fl>>
  <1>1. usr[u].pc = "scanned" /\ usr[u].file \in Files
    BY DEF Scanned, UserAt, IInv, Calls
  <1>2. UNCHANGED <<node, index, lock, spin, qmutex, lists, size, indicator, jobs,
                    fstate, undefined, phase, fl, ops>>
    BY DEF Scanned
  <1>3. treelock' \in [Files -> [readers : SUBSET Users, writer : Users \cup {None}]]
    <2>1. CASE UNCHANGED treelock
      BY <2>1 DEF IInv, TypeOK
    <2>2. CASE UnlockTree(u)
      BY <1>1, <2>2, UnlockTreeType DEF IInv
    <2> QED
      BY <2>1, <2>2 DEF Scanned
  <1>4. /\ usr' \in [Users -> UserRec]
        /\ Returns(u) \/ (Keeps(u, "make") /\ usr[u].new # {}) \/ Keeps(u, "size")
    <2>1. CASE Goto(u, "idle")
      BY <2>1, GotoIdle DEF IInv
    <2>2. CASE Goto(u, "make") /\ usr[u].new # {}
      BY <2>2, GotoStep DEF IInv, Keeps, UserPCs, NewPCs
    <2>3. CASE Goto(u, "size")
      BY <2>3, GotoStep DEF IInv, Keeps, UserPCs, NewPCs
    <2> QED
      BY <2>1, <2>2, <2>3 DEF Scanned
  <1>5. TypeOK'
    BY <1>2, <1>3, <1>4 DEF IInv, TypeOK, UserRec, index, lists
  <1> QED
    BY <1>1, <1>2, <1>4, <1>5 DEF index, lists

LEMMA MakeNodeEffect ==
    ASSUME IInv, NEW u \in Users, MakeNode(u)
    PROVE  /\ TypeOK' /\ usr[u].pc = "make" /\ size' >= size
           /\ usr'[u].pc \in {"link", "size"} /\ \A v \in Users : v # u => usr'[v] = usr[v]
           /\ \/ \E e \in usr[u].new :
                    /\ e \in Nodes \ allocated /\ allocated' = allocated \cup {e}
                    /\ NodeBecomes(e, "fresh", "stale", TRUE, TRUE, FALSE)
                    /\ Becomes(u, "link", e, usr[u].todo, usr[u].new \ {e}, usr[u].snap)
              \/ /\ UNCHANGED <<node, allocated, size>>
                 /\ Becomes(u, "size", usr[u].cur, usr[u].todo, {}, usr[u].snap)
           /\ UNCHANGED <<lock, cold, queue, qmutex, indicator, fstate, phase, fl>>
  <1>1. usr[u].pc = "make" /\ usr[u].new # {}
    BY DEF MakeNode, UserAt, IInv, Intervals, Grasp
  <1>0. /\ TypeOK /\ node \in [Nodes -> NodeRec] /\ usr \in [Users -> UserRec]
        /\ usr[u] \in UserRec /\ usr[u].new \in SUBSET Nodes
    BY DEF IInv, TypeOK, NodeRec, UserRec
  <1>2. PICK e \in usr[u].new : e \in Nodes /\ e = Min(usr[u].new)
    BY <1>0, <1>1, MinNode
  <1>3. UNCHANGED <<isize, locks, lists, indicator, jobs, fstate, undefined, phase, fl, ops>>
    BY DEF MakeNode
  <1>4. CASE /\ e \notin allocated /\ allocated' = allocated \cup {e}
             /\ node' = [node EXCEPT ![e] = NewNode]
             /\ size' = size + 1
             /\ usr' = [usr EXCEPT ![u].cur = e, ![u].new = @ \ {e}, ![u].pc = "link"]
    <2> DEFINE r == [usr[u] EXCEPT !.cur = e, !.new = @ \ {e}, !.pc = "link"]
    <2>1. r \in UserRec
      BY <1>0, <1>2 DEF UserRec, UserPCs, NewPCs
    <2>2. usr' = [usr EXCEPT ![u] = r]
      BY <1>0, <1>4 DEF UserRec
    <2>3. /\ usr' \in [Users -> UserRec]
          /\ Becomes(u, "link", e, usr[u].todo, usr[u].new \ {e}, usr[u].snap)
      BY <1>0, <2>1, <2>2 DEF Becomes, UserRec
    <2>4. NewNode \in NodeRec
      BY DEF NewNode, NodeRec
    <2>5. node' \in [Nodes -> NodeRec] /\ NodeBecomes(e, "fresh", "stale", TRUE, TRUE, FALSE)
      BY <1>0, <1>2, <1>4, <2>4 DEF NodeBecomes, NewNode
    <2>6. size' \in Nat /\ size' >= size
      BY <1>0, <1>4 DEF TypeOK
    <2>a. allocated' \subseteq Nodes
      BY <1>0, <1>2, <1>4 DEF TypeOK
    <2> HIDE DEF r
    <2>7. TypeOK'
      BY <1>0, <1>3, <2>3, <2>5, <2>6, <2>a, Zenon DEF TypeOK, UserRec, NodeRec, locks, lists
    <2> QED
      BY <1>1, <1>2, <1>3, <1>4, <2>3, <2>5, <2>6, <2>7 DEF locks, lists, Becomes
  <1>5. CASE /\ usr' = [usr EXCEPT ![u].new = {}, ![u].pc = "size"]
             /\ UNCHANGED <<node, allocated, size>>
    <2> DEFINE r == [usr[u] EXCEPT !.new = {}, !.pc = "size"]
    <2>1. r \in UserRec
      BY <1>0 DEF UserRec, UserPCs, NewPCs
    <2>2. usr' = [usr EXCEPT ![u] = r]
      BY <1>0, <1>5 DEF UserRec
    <2>3. /\ usr' \in [Users -> UserRec]
          /\ Becomes(u, "size", usr[u].cur, usr[u].todo, {}, usr[u].snap)
      BY <1>0, <2>1, <2>2 DEF Becomes, UserRec
    <2>4. TypeOK'
      BY <1>0, <1>3, <1>5, <2>3 DEF TypeOK, UserRec, locks, lists
    <2>5. size' >= size
      BY <1>0, <1>5 DEF TypeOK
    <2> QED
      BY <1>1, <1>3, <1>5, <2>3, <2>4, <2>5 DEF locks, lists, Becomes
  <1> QED
    BY <1>2, <1>4, <1>5 DEF MakeNode

LEMMA InsertNodeEffect ==
    ASSUME IInv, NEW u \in Users, InsertNode(u)
    PROVE  /\ TypeOK' /\ usr[u].pc = "insert"
           /\ \/ /\ usr[u].new = {}
                 /\ Becomes(u, "size", None, usr[u].todo, usr[u].new, usr[u].snap)
              \/ /\ usr[u].new # {}
                 /\ Becomes(u, "make", None, usr[u].todo, usr[u].new, usr[u].snap)
           /\ UNCHANGED <<node, allocated, lock, cold, queue, qmutex, size, indicator, fstate,
                          phase, fl>>
  <1>1. usr[u].pc = "insert"
    BY DEF InsertNode, UserAt
  <1>0. TypeOK /\ usr \in [Users -> UserRec] /\ usr[u] \in UserRec
    BY DEF IInv, TypeOK, UserRec
  <1>2. UNCHANGED <<node, index, locks, lists, size, indicator, jobs, fstate, undefined,
                    phase, fl, ops>>
    BY DEF InsertNode
  <1> PICK p \in {"size", "make"} : p = IF usr[u].new = {} THEN "size" ELSE "make"
    OBVIOUS
  <1> DEFINE r == [usr[u] EXCEPT !.cur = None, !.pc = p]
  <1>3. r \in UserRec
    BY <1>0, ZenonT(60) DEF UserRec, UserPCs, NewPCs
  <1>4. usr' = [usr EXCEPT ![u] = r]
    BY <1>0 DEF InsertNode, UserRec
  <1>5. /\ usr' \in [Users -> UserRec]
        /\ Becomes(u, p, None, usr[u].todo, usr[u].new, usr[u].snap)
    BY <1>0, <1>3, <1>4 DEF Becomes, UserRec
  <1>6. TypeOK'
    BY <1>0, <1>2, <1>5 DEF TypeOK, UserRec, index, locks, lists
  <1> QED
    BY <1>1, <1>2, <1>5, <1>6 DEF index, locks, lists

LEMMA MaxOfTwo ==
    ASSUME NEW a \in Nodes \cup {0}, NEW b \in Nodes \cup {0}
    PROVE  Max({a, b}) \in Nodes \cup {0}
  <1>1. a \in Nat /\ b \in Nat
    BY SetsAssumption
  <1>2. \E x \in {a, b} : \A y \in {a, b} : x >= y
    BY <1>1
  <1>3. Max({a, b}) \in {a, b}
    BY <1>2 DEF Max
  <1> QED
    BY <1>3

LEMMA SetSizeEffect ==
    ASSUME IInv, NEW u \in Users, SetSize(u)
    PROVE  /\ TypeOK' /\ usr[u].pc = "size" /\ usr[u].file \in Files
           /\ isize[usr[u].file] \in Nodes \cup {0}
           /\ Becomes(u, "store", usr[u].cur, usr[u].todo, usr[u].new, isize[usr[u].file])
           /\ UNCHANGED <<node, allocated, isize, treelock, lock, cold, queue, qmutex, size,
                          indicator, fstate, phase, fl>>
  <1>1. usr[u].pc = "size" /\ usr[u].file \in Files
    BY DEF SetSize, UserAt, IInv, Calls
  <1> PICK f \in Files : f = usr[u].file
    BY <1>1
  <1>0. /\ TypeOK /\ usr \in [Users -> UserRec] /\ usr[u] \in UserRec
        /\ isize[f] \in Nodes \cup {0}
    BY DEF IInv, TypeOK, UserRec
  <1>2. UNCHANGED <<node, index, locks, lists, size, indicator, jobs, fstate, undefined,
                    phase, fl, ops>>
    BY DEF SetSize
  <1> DEFINE r == [usr[u] EXCEPT !.snap = isize[f], !.pc = "store"]
  <1>3. isize[f] \in Nat
    <2>1. \A x \in Nodes \cup {0} : x \in Nat
      BY SetsAssumption
    <2> QED
      BY <1>0, <2>1
  <1>4. r \in UserRec
    BY <1>0, <1>3 DEF UserRec, UserPCs, NewPCs
  <1>5. usr' = [usr EXCEPT ![u] = r]
    BY <1>0 DEF UserRec, SetSize
  <1>6. /\ usr' \in [Users -> UserRec]
        /\ Becomes(u, "store", usr[u].cur, usr[u].todo, usr[u].new, isize[f])
    BY <1>0, <1>4, <1>5 DEF Becomes, UserRec
  <1>7. TypeOK'
    BY <1>0, <1>2, <1>6 DEF TypeOK, UserRec, index, locks, lists
  <1> QED
    BY <1>0, <1>1, <1>2, <1>6, <1>7 DEF index, locks, lists

LEMMA StoreSizeEffect ==
    ASSUME IInv, NEW u \in Users, StoreSize(u)
    PROVE  /\ TypeOK' /\ usr[u].pc = "store" /\ Keeps(u, "check")
           /\ UNCHANGED <<node, allocated, lock, cold, queue, qmutex, size, indicator, fstate,
                          phase, fl>>
  <1>1. usr[u].pc = "store" /\ usr[u].file \in Files /\ usr[u].snap \in Nodes \cup {0}
    BY DEF StoreSize, UserAt, IInv, Calls, Sizes
  <1> PICK f \in Files : f = usr[u].file
    BY <1>1
  <1>0. /\ TypeOK /\ isize \in [Files -> Nodes \cup {0}] /\ usr[u].end \in Nodes \cup {0}
    BY DEF IInv, TypeOK
  <1>2. UNCHANGED <<node, allocated, lock, spin, qmutex, lists, size, indicator, jobs,
                    fstate, undefined, phase, fl, ops>>
    BY DEF StoreSize
  <1>3. isize' \in [Files -> Nodes \cup {0}]
    <2>1. Max({usr[u].snap, usr[u].end}) \in Nodes \cup {0}
      BY <1>0, <1>1, MaxOfTwo
    <2> QED
      BY <1>0, <2>1 DEF StoreSize
  <1>4. treelock' \in [Files -> [readers : SUBSET Users, writer : Users \cup {None}]]
    <2>1. CASE UNCHANGED treelock
      BY <1>0, <2>1 DEF TypeOK
    <2>2. CASE UnlockTree(u)
      BY <1>0, <1>1, <2>2, UnlockTreeType
    <2> QED
      BY <2>1, <2>2 DEF StoreSize
  <1>5. usr' \in [Users -> UserRec] /\ Keeps(u, "check")
    BY <1>0, GotoStep DEF StoreSize, Keeps, UserPCs
  <1>6. TypeOK'
    BY <1>0, <1>2, <1>3, <1>4, <1>5 DEF TypeOK, UserRec, lists
  <1> QED
    BY <1>1, <1>2, <1>5, <1>6 DEF lists

LEMMA CheckSizeEffect ==
    ASSUME IInv, NEW u \in Users, CheckSize(u)
    PROVE  /\ TypeOK' /\ usr[u].pc = "check"
           /\ Returns(u) \/ (Keeps(u, "tas") /\ size >= 1)
           /\ UNCHANGED <<node, allocated, lock, cold, queue, qmutex, size, indicator, fstate,
                          phase, fl>>
  <1>1. usr[u].pc = "check" /\ TypeOK
    BY DEF CheckSize, UserAt, IInv
  <1>2. UNCHANGED <<node, index, locks, lists, size, indicator, jobs, fstate,
                    undefined, phase, fl, ops>>
    BY DEF CheckSize
  <1>3. usr' \in [Users -> UserRec] /\ (Returns(u) \/ (Keeps(u, "tas") /\ size >= 1))
    <2>1. CASE Goto(u, "idle")
      BY <1>1, <2>1, GotoIdle
    <2>2. CASE Goto(u, "tas") /\ size > FlushBegin
      <3>1. size >= 1
        BY <1>1, <2>2, ThresholdAssumption DEF TypeOK
      <3> QED
        BY <1>1, <2>2, <3>1, GotoStep DEF Keeps, UserPCs
    <2> QED
      BY <2>1, <2>2 DEF CheckSize
  <1>4. TypeOK'
    BY <1>1, <1>2, <1>3 DEF TypeOK, UserRec, index, locks, lists
  <1> QED
    BY <1>1, <1>2, <1>3, <1>4 DEF index, locks, lists

LEMMA TestAndSetEffect ==
    ASSUME IInv, NEW u \in Users, TestAndSet(u)
    PROVE  /\ TypeOK' /\ usr[u].pc = "tas" /\ indicator' = 1
           /\ Returns(u) \/ (Keeps(u, "snap") /\ indicator = 0)
           /\ UNCHANGED <<node, allocated, lock, cold, queue, qmutex, size, fstate, phase, fl>>
  <1>1. usr[u].pc = "tas" /\ TypeOK /\ indicator' = 1
    BY DEF TestAndSet, UserAt, IInv
  <1>2. UNCHANGED <<node, index, locks, lists, size, jobs, fstate, undefined, phase, fl, ops>>
    BY DEF TestAndSet
  <1>3. usr' \in [Users -> UserRec] /\ (Returns(u) \/ (Keeps(u, "snap") /\ indicator = 0))
    <2>1. CASE Goto(u, "idle")
      BY <1>1, <2>1, GotoIdle
    <2>2. CASE Goto(u, "snap") /\ indicator = 0
      BY <1>1, <2>2, GotoStep DEF Keeps, UserPCs, DispatchPCs
    <2> QED
      BY <2>1, <2>2 DEF TestAndSet
  <1>4. TypeOK'
    BY <1>1, <1>2, <1>3 DEF TypeOK, UserRec, index, locks, lists
  <1> QED
    BY <1>1, <1>2, <1>3, <1>4 DEF index, locks, lists

LEMMA SnapshotEffect ==
    ASSUME IInv, NEW u \in Users, Snapshot(u)
    PROVE  /\ TypeOK' /\ usr[u].pc = "snap"
           /\ Becomes(u, "spin", usr[u].cur, usr[u].todo, usr[u].new, size)
           /\ UNCHANGED <<node, allocated, lock, cold, queue, qmutex, size, indicator, fstate,
                          phase, fl>>
  <1>1. usr[u].pc = "snap"
    BY DEF Snapshot, UserAt
  <1>0. TypeOK /\ usr \in [Users -> UserRec] /\ usr[u] \in UserRec /\ size \in Nat
    BY DEF IInv, TypeOK, UserRec
  <1>2. UNCHANGED <<node, index, locks, lists, size, indicator, jobs, fstate, undefined,
                    phase, fl, ops>>
    BY DEF Snapshot
  <1> DEFINE r == [usr[u] EXCEPT !.snap = size, !.rr = 0, !.pc = "spin"]
  <1>3. r \in UserRec
    BY <1>0 DEF UserRec, UserPCs, DispatchPCs
  <1>4. usr' = [usr EXCEPT ![u] = r]
    BY <1>0 DEF Snapshot, UserRec
  <1>5. /\ usr' \in [Users -> UserRec]
        /\ Becomes(u, "spin", usr[u].cur, usr[u].todo, usr[u].new, size)
    BY <1>0, <1>3, <1>4 DEF Becomes, UserRec
  <1>6. TypeOK'
    BY <1>0, <1>2, <1>5 DEF TypeOK, UserRec, index, locks, lists
  <1> QED
    BY <1>1, <1>2, <1>5, <1>6 DEF index, locks, lists

LEMMA LockColdEffect ==
    ASSUME IInv, NEW u \in Users, LockCold(u)
    PROVE  /\ TypeOK' /\ usr[u].pc = "spin" /\ Keeps(u, "pick")
           /\ UNCHANGED <<node, allocated, lock, cold, queue, qmutex, size, indicator, fstate,
                          phase, fl>>
  <1>1. usr[u].pc = "spin" /\ TypeOK /\ spin' = u
    BY DEF LockCold, UserAt, IInv
  <1>2. UNCHANGED <<node, index, lock, treelock, qmutex, lists, size, indicator, jobs,
                    fstate, undefined, phase, fl, ops>>
    BY DEF LockCold
  <1>3. usr' \in [Users -> UserRec] /\ Keeps(u, "pick")
    BY <1>1, GotoStep DEF LockCold, Keeps, UserPCs, DispatchPCs
  <1>4. TypeOK'
    BY <1>1, <1>2, <1>3 DEF TypeOK, UserRec, index, lists
  <1> QED
    BY <1>1, <1>2, <1>3, <1>4 DEF index, lists

LEMMA PickVictimEffect ==
    ASSUME IInv, NEW u \in Users, PickVictim(u)
    PROVE  /\ TypeOK' /\ usr[u].pc = "pick"
           /\ \/ cold' = cold /\ Keeps(u, "reset")
              \/ /\ cold # <<>> /\ cold' = Tail(cold)
                 /\ \/ usr' = usr /\ node[Head(cold)].removed
                    \/ Becomes(u, "queue", Head(cold), usr[u].todo, usr[u].new, usr[u].snap)
           /\ UNCHANGED <<node, allocated, lock, queue, qmutex, size, indicator, fstate,
                          phase, fl>>
  <1>1. usr[u].pc = "pick"
    BY DEF PickVictim, UserAt
  <1>0. TypeOK /\ usr \in [Users -> UserRec] /\ usr[u] \in UserRec /\ cold \in Seq(Nodes)
    BY DEF IInv, TypeOK, UserRec
  <1>2. UNCHANGED <<node, index, lock, treelock, qmutex, queue, size, indicator, jobs,
                    fstate, undefined, phase, fl, ops>>
    BY DEF PickVictim
  <1>3. CASE spin' = None /\ Goto(u, "reset") /\ UNCHANGED cold
    <2>1. usr' \in [Users -> UserRec] /\ Keeps(u, "reset")
      BY <1>0, <1>3, GotoStep DEF Keeps, UserPCs, DispatchPCs
    <2>2. TypeOK'
      BY <1>0, <1>2, <1>3, <2>1 DEF TypeOK, UserRec, index
    <2> QED
      BY <1>1, <1>2, <1>3, <2>1, <2>2 DEF index
  <1>4. CASE /\ cold # <<>> /\ cold' = Tail(cold) /\ node[Head(cold)].removed /\ usr' = usr
             /\ UNCHANGED spin
    <2>1. cold' \in Seq(Nodes)
      BY <1>0, <1>4
    <2>2. TypeOK'
      BY <1>0, <1>2, <1>4, <2>1 DEF TypeOK, index
    <2> QED
      BY <1>1, <1>2, <1>4, <2>2 DEF index
  <1>5. CASE /\ cold # <<>> /\ cold' = Tail(cold)
             /\ usr' = [usr EXCEPT ![u].cur = Head(cold), ![u].pc = "queue"]
             /\ UNCHANGED spin
    <2>1. cold' \in Seq(Nodes) /\ Head(cold) \in Nodes
      BY <1>0, <1>5
    <2> DEFINE r == [usr[u] EXCEPT !.cur = Head(cold), !.pc = "queue"]
    <2>2. r \in UserRec
      BY <1>0, <2>1 DEF UserRec, UserPCs, DispatchPCs
    <2>3. usr' = [usr EXCEPT ![u] = r]
      BY <1>0, <1>5 DEF UserRec
    <2>4. /\ usr' \in [Users -> UserRec]
          /\ Becomes(u, "queue", Head(cold), usr[u].todo, usr[u].new, usr[u].snap)
      BY <1>0, <2>2, <2>3 DEF Becomes, UserRec
    <2>5. TypeOK'
      BY <1>0, <1>2, <1>5, <2>1, <2>4 DEF TypeOK, UserRec, index
    <2> QED
      BY <1>1, <1>2, <1>5, <2>4, <2>5 DEF index
  <1> QED
    BY <1>3, <1>4, <1>5 DEF PickVictim

LEMMA EnqueueVictimEffect ==
    ASSUME IInv, NEW u \in Users, EnqueueVictim(u)
    PROVE  /\ TypeOK' /\ usr[u].pc = "queue" /\ usr[u].cur \in Nodes
           /\ \E q \in Queues : /\ qmutex[q] = None
                                /\ queue' = [queue EXCEPT ![q] = Append(@, usr[u].cur)]
           /\ \E s \in Nat :
                 \/ Becomes(u, "reset", None, usr[u].todo, usr[u].new, s)
                 \/ s >= 1 /\ Becomes(u, "pick", None, usr[u].todo, usr[u].new, s)
           /\ UNCHANGED <<node, allocated, lock, cold, qmutex, size, indicator, fstate,
                          phase, fl>>
  <1>1. usr[u].pc = "queue" /\ usr[u].snap >= 1
    BY DEF EnqueueVictim, UserAt, IInv, Sizes
  <1>2. usr[u].cur \in Nodes
    <2>1. usr[u].cur \in Nodes \cup {None}
      BY DEF IInv, TypeOK
    <2>2. usr[u].cur # None
      BY <1>1 DEF IInv, Hands
    <2> QED
      BY <2>1, <2>2
  <1> PICK e \in Nodes : e = usr[u].cur
    BY <1>2
  <1>0. /\ TypeOK /\ usr \in [Users -> UserRec] /\ usr[u] \in UserRec
        /\ queue \in [Queues -> Seq(Nodes)]
        /\ usr[u].rr \in Nat /\ usr[u].snap \in Nat
    BY DEF IInv, TypeOK, UserRec
  <1>3. UNCHANGED <<node, index, lock, treelock, qmutex, cold, size, indicator,
                    jobs, fstate, undefined, phase, fl, ops>>
    BY DEF EnqueueVictim
  <1>4. PICK q \in Queues : q = QueueOf(u)
    BY <1>0, QueueAssumption DEF QueueOf, Queues
  <1>5. /\ qmutex[q] = None /\ queue' = [queue EXCEPT ![q] = Append(@, e)]
        /\ queue' \in [Queues -> Seq(Nodes)]
    BY <1>0, <1>4 DEF EnqueueVictim
  <1>a. PICK cache_size \in {0, 1} :
          LET left == usr[u].snap - cache_size
              enough == left < FlushEnd
          IN  /\ spin' = IF enough THEN None ELSE spin
              /\ usr' = [usr EXCEPT ![u].cur = None, ![u].rr = @ + 1, ![u].snap = left,
                                    ![u].pc = IF enough THEN "reset" ELSE "pick"]
    BY DEF EnqueueVictim
  <1>6. PICK s \in Nat : s = usr[u].snap - cache_size
    BY <1>0, <1>1
  <1>7. PICK p \in {"reset", "pick"} : p = IF s < FlushEnd THEN "reset" ELSE "pick"
    OBVIOUS
  <1>8. p = "pick" => s >= 1
    BY <1>7, ThresholdAssumption
  <1>9. spin' \in Users \cup {None}
    BY <1>0, <1>a DEF TypeOK
  <1> PICK k \in Nat : k = usr[u].rr + 1
    BY <1>0
  <1> DEFINE r == [usr[u] EXCEPT !.cur = None, !.rr = k, !.snap = s, !.pc = p]
  <1>10. r \in UserRec
    BY <1>0, ZenonT(60) DEF UserRec, UserPCs, DispatchPCs
  <1>11. usr' = [usr EXCEPT ![u] = r]
    BY <1>0, <1>6, <1>7, <1>a DEF UserRec
  <1>12. usr' \in [Users -> UserRec] /\ Becomes(u, p, None, usr[u].todo, usr[u].new, s)
    BY <1>0, <1>10, <1>11 DEF Becomes, UserRec
  <1>13. TypeOK'
    BY <1>0, <1>3, <1>5, <1>9, <1>12 DEF TypeOK, UserRec, index
  <1> QED
    BY <1>1, <1>2, <1>3, <1>5, <1>8, <1>12, <1>13 DEF index

LEMMA ResetSizeEffect ==
    ASSUME IInv, NEW u \in Users, ResetSize(u)
    PROVE  /\ TypeOK' /\ usr[u].pc = "reset" /\ Keeps(u, "launch") /\ size' >= 1
           /\ UNCHANGED <<node, allocated, lock, cold, queue, qmutex, indicator, fstate,
                          phase, fl>>
  <1>1. usr[u].pc = "reset" /\ TypeOK
    BY DEF ResetSize, UserAt, IInv
  <1>2. UNCHANGED <<node, index, locks, lists, indicator, jobs, fstate, undefined, phase,
                    fl, ops>>
    BY DEF ResetSize
  <1>3. size' \in Nat /\ size' >= 1
    BY ThresholdAssumption DEF ResetSize
  <1>4. usr' \in [Users -> UserRec] /\ Keeps(u, "launch")
    BY <1>1, GotoStep DEF ResetSize, Keeps, UserPCs, DispatchPCs
  <1>5. TypeOK'
    BY <1>1, <1>2, <1>3, <1>4 DEF TypeOK, UserRec, index, locks, lists
  <1> QED
    BY <1>1, <1>2, <1>3, <1>4, <1>5 DEF index, locks, lists

LEMMA LaunchEffect ==
    ASSUME IInv, NEW u \in Users, Launch(u)
    PROVE  /\ TypeOK' /\ usr[u].pc = "launch" /\ Returns(u) /\ indicator' = 0
           /\ UNCHANGED <<node, allocated, lock, cold, queue, qmutex, size, fstate,
                          phase, fl>>
  <1>1. usr[u].pc = "launch" /\ TypeOK /\ indicator' = 0
    BY DEF Launch, UserAt, IInv
  <1>2. UNCHANGED <<node, index, locks, lists, size, fstate, undefined, phase, fl, ops>>
    BY DEF Launch
  <1>3. jobs' \in Seq(Queues)
    <2> DEFINE s == [i \in 1 .. QueueNr |-> i - 1]
    <2>1. s \in Seq(Queues)
      <3>1. QueueNr \in Nat /\ \A i \in 1 .. QueueNr : i - 1 \in Queues
        BY QueueAssumption DEF Queues
      <3> QED
        BY <3>1, IsASeq
    <2>2. jobs' = jobs \o s
      BY DEF Launch
    <2> HIDE DEF s
    <2> QED
      BY <1>1, <2>1, <2>2 DEF TypeOK
  <1>4. usr' \in [Users -> UserRec] /\ Returns(u)
    BY <1>1, GotoIdle DEF Launch
  <1>5. TypeOK'
    BY <1>1, <1>2, <1>3, <1>4 DEF TypeOK, UserRec, index, locks, lists
  <1> QED
    BY <1>1, <1>2, <1>4, <1>5 DEF index, locks, lists

LEMMA DropNodeEffect ==
    ASSUME IInv, NEW u \in Users, DropNode(u)
    PROVE  /\ TypeOK' /\ usr[u].pc = "drop"
           /\ \E e \in usr[u].todo :
                 /\ e \in Nodes /\ lock[e] = None
                 /\ NodeBecomes(e, "null", node[e].disk, node[e].present, node[e].dirty, TRUE)
                 /\ \E p \in {"drop", "dropped"} :
                       Becomes(u, p, usr[u].cur, usr[u].todo \ {e}, usr[u].new, usr[u].snap)
           /\ UNCHANGED <<allocated, lock, cold, queue, qmutex, size, indicator, fstate,
                          phase, fl>>
  <1>1. usr[u].pc = "drop"
    BY DEF DropNode, UserAt
  <1>0. /\ TypeOK /\ usr \in [Users -> UserRec] /\ usr[u] \in UserRec
        /\ node \in [Nodes -> NodeRec] /\ usr[u].todo \in SUBSET Nodes
    BY DEF IInv, TypeOK, UserRec, NodeRec
  <1>2. UNCHANGED <<index, locks, lists, size, indicator, jobs, fstate, undefined,
                    phase, fl, ops>>
    BY DEF DropNode
  <1>3. PICK e \in usr[u].todo :
          /\ lock[e] = None
          /\ node' = [node EXCEPT ![e].buf = "null", ![e].removed = TRUE]
          /\ NextDrop(u, usr[u].todo \ {e})
    BY DEF DropNode
  <1>4. e \in Nodes /\ node[e] \in NodeRec
    BY <1>0
  <1>5. PICK p \in {"drop", "dropped"} :
            p = IF usr[u].todo \ {e} = {} THEN "dropped" ELSE "drop"
    OBVIOUS
  <1> DEFINE r == [usr[u] EXCEPT !.todo = usr[u].todo \ {e}, !.pc = p]
  <1>6. r \in UserRec
    BY <1>0 DEF UserRec, UserPCs, DropPCs
  <1>7. usr' = [usr EXCEPT ![u] = r]
    BY <1>0, <1>3, <1>5 DEF NextDrop, UserRec
  <1>8. /\ usr' \in [Users -> UserRec]
        /\ Becomes(u, p, usr[u].cur, usr[u].todo \ {e}, usr[u].new, usr[u].snap)
    BY <1>0, <1>6, <1>7 DEF Becomes, UserRec
  <1> DEFINE n == [node[e] EXCEPT !.buf = "null", !.removed = TRUE]
  <1>9. n \in NodeRec
    BY <1>4 DEF NodeRec
  <1>10. node' = [node EXCEPT ![e] = n]
    BY <1>0, <1>3, <1>4 DEF NodeRec
  <1>11. /\ node' \in [Nodes -> NodeRec]
         /\ NodeBecomes(e, "null", node[e].disk, node[e].present, node[e].dirty, TRUE)
    BY <1>0, <1>4, <1>9, <1>10 DEF NodeBecomes, NodeRec
  <1>12. TypeOK'
    BY <1>0, <1>2, <1>8, <1>11 DEF TypeOK, UserRec, NodeRec, index, locks, lists
  <1> QED
    BY <1>1, <1>2, <1>3, <1>4, <1>8, <1>11, <1>12 DEF index, locks, lists

LEMMA EndDropEffect ==
    ASSUME IInv, NEW u \in Users, EndDrop(u)
    PROVE  /\ TypeOK' /\ usr[u].pc = "dropped" /\ Keeps(u, "free")
           /\ UNCHANGED <<node, allocated, lock, cold, queue, qmutex, size, indicator, fstate,
                          phase, fl>>
  <1>1. usr[u].pc = "dropped" /\ TypeOK /\ usr[u].file \in Files
    BY DEF EndDrop, UserAt, IInv, Calls
  <1>2. UNCHANGED <<node, index, lock, spin, qmutex, lists, size, indicator, jobs,
                    fstate, undefined, phase, fl, ops>>
    BY DEF EndDrop
  <1>3. treelock' \in [Files -> [readers : SUBSET Users, writer : Users \cup {None}]]
    BY <1>1, UnlockTreeType DEF EndDrop
  <1>4. usr' \in [Users -> UserRec] /\ Keeps(u, "free")
    BY <1>1, GotoStep DEF EndDrop, Keeps, UserPCs, DropPCs
  <1>5. TypeOK'
    BY <1>1, <1>2, <1>3, <1>4 DEF TypeOK, UserRec, index, lists
  <1> QED
    BY <1>1, <1>2, <1>4, <1>5 DEF index, lists

LEMMA FreeIndexEffect ==
    ASSUME IInv, NEW u \in Users, FreeIndex(u)
    PROVE  /\ TypeOK' /\ usr[u].pc = "free" /\ usr[u].file \in Files /\ Returns(u)
           /\ fstate' = [fstate EXCEPT ![usr[u].file] = "freed"]
           /\ UNCHANGED <<node, allocated, lock, cold, queue, qmutex, size, indicator,
                          phase, fl>>
  <1>1. usr[u].pc = "free" /\ TypeOK /\ usr[u].file \in Files
    BY DEF FreeIndex, UserAt, IInv, Calls
  <1>2. UNCHANGED <<node, index, locks, lists, size, indicator, jobs, undefined, phase,
                    fl, ops>>
    BY DEF FreeIndex
  <1>3. fstate' = [fstate EXCEPT ![usr[u].file] = "freed"]
    BY DEF FreeIndex
  <1>4. usr' \in [Users -> UserRec] /\ Returns(u)
    BY <1>1, GotoIdle DEF FreeIndex
  <1>5. TypeOK'
    BY <1>1, <1>2, <1>3, <1>4 DEF TypeOK, UserRec, index, locks, lists
  <1> QED
    BY <1>1, <1>2, <1>3, <1>4, <1>5 DEF index, locks, lists

(* A call starts: its file is live, the nodes S were found in the index,   *)
(* the nodes N were not, and are for this call to make.                    *)
Starts(u, o, f, S, N) ==
    /\ fstate[f] = "live" /\ S \subseteq Tree
    /\ \A e \in S : FileOf[e] = f
    /\ \A e \in N : FileOf[e] = f /\ e \notin Tree
    /\ \A v \in Users : v # u => usr'[v] = usr[v]
    /\ usr'[u].op = o /\ usr'[u].file = f /\ usr'[u].todo = S /\ usr'[u].new = N
    /\ usr'[u].pc = "scanned" \/ (usr'[u].pc = "lock" /\ usr'[u].cur \in S)

LEMMA BeginStep ==
    ASSUME IInv, NEW u \in Users, NEW o \in {"read", "write", "append"}, NEW f \in Files,
           Begin(u, o, f)
    PROVE  /\ usr' \in [Users -> UserRec] /\ usr[u].pc = "idle" /\ phase = "run"
           /\ ops' \in 0 .. MaxOps
           /\ \E S, N \in SUBSET Nodes : Starts(u, o, f, S, N)
           /\ UNCHANGED <<node, index, lock, spin, qmutex, lists, size, indicator, jobs,
                          fstate, undefined, phase, fl>>
  <1>0. TypeOK /\ usr \in [Users -> UserRec] /\ usr[u] \in UserRec
    BY DEF IInv, TypeOK, UserRec
  <1>1. /\ usr[u].pc = "idle" /\ phase = "run" /\ fstate[f] = "live"
        /\ UNCHANGED <<node, index, lock, spin, qmutex, lists, size, indicator, jobs,
                       fstate, undefined, phase, fl>>
    BY DEF Begin, UserAt
  <1>2. ops' \in 0 .. MaxOps
    BY <1>0, SetsAssumption DEF Begin, TypeOK
  <1>3. PICK lo, hi \in {e \in Nodes : FileOf[e] = f} :
          LET range == {e \in lo .. hi : e \in Nodes /\ FileOf[e] = f}
              found == range \cap TreeOf(f)
              new   == range \ found
          IN  usr' = [usr EXCEPT ![u] =
                  Scan([@ EXCEPT !.op = o, !.file = f, !.new = new, !.end = hi], found)]
    BY DEF Begin
  <1> DEFINE range == {e \in lo .. hi : e \in Nodes /\ FileOf[e] = f}
  <1>4. PICK S \in SUBSET Nodes : S = range \cap TreeOf(f)
    OBVIOUS
  <1>5. PICK N \in SUBSET Nodes : N = range \ S
    OBVIOUS
  <1>6. PICK r \in UserRec : r = [usr[u] EXCEPT !.op = o, !.file = f, !.new = N, !.end = hi]
    BY <1>0 DEF UserRec
  <1>7. r.op = o /\ r.file = f /\ r.new = N
    BY <1>0, <1>6 DEF UserRec
  <1>8. usr' = [usr EXCEPT ![u] = Scan(r, S)]
    BY <1>3, <1>4, <1>5, <1>6
  <1>9. /\ Scan(r, S) \in UserRec /\ Scan(r, S).todo = S /\ Scan(r, S).new = N
        /\ Scan(r, S).op = o /\ Scan(r, S).file = f
        /\ Scan(r, S).pc = "scanned" \/ (Scan(r, S).pc = "lock" /\ Scan(r, S).cur \in S)
    BY <1>0, <1>7, ScanStep
  <1>10. S \subseteq Tree /\ \A e \in S : FileOf[e] = f
    BY <1>4 DEF TreeOf
  <1>11. \A e \in N : FileOf[e] = f /\ e \notin Tree
    BY <1>4, <1>5 DEF TreeOf
  <1>12. usr' \in [Users -> UserRec] /\ Starts(u, o, f, S, N)
    BY <1>0, <1>1, <1>8, <1>9, <1>10, <1>11 DEF Starts
  <1> QED
    BY <1>1, <1>2, <1>12

LEMMA BeginEffect ==
    ASSUME IInv, NEW u \in Users, BeginRead(u) \/ BeginWrite(u) \/ BeginAppend(u)
    PROVE  /\ TypeOK' /\ usr[u].pc = "idle" /\ phase = "run"
           /\ \E o \in {"read", "write", "append"}, f \in Files, S, N \in SUBSET Nodes :
                 Starts(u, o, f, S, N)
           /\ UNCHANGED <<node, allocated, lock, cold, queue, qmutex, size, indicator, jobs,
                          fstate, phase, fl>>
  <1>1. PICK f \in Files, o \in {"read", "write", "append"} :
          /\ \/ treelock' = [treelock EXCEPT ![f].readers = @ \cup {u}]
             \/ treelock' = [treelock EXCEPT ![f].writer = u]
          /\ Begin(u, o, f)
    BY DEF BeginRead, BeginWrite, BeginAppend, ReadLock
  <1>2. treelock' \in [Files -> [readers : SUBSET Users, writer : Users \cup {None}]]
    BY <1>1, LockTreeType DEF IInv
  <1>3. /\ usr' \in [Users -> UserRec] /\ usr[u].pc = "idle" /\ phase = "run"
        /\ ops' \in 0 .. MaxOps
        /\ \E S, N \in SUBSET Nodes : Starts(u, o, f, S, N)
        /\ UNCHANGED <<node, index, lock, spin, qmutex, lists, size, indicator, jobs,
                       fstate, undefined, phase, fl>>
    BY <1>1, BeginStep
  <1>4. TypeOK'
    BY <1>2, <1>3 DEF IInv, TypeOK, UserRec, index, lists
  <1> QED
    BY <1>3, <1>4 DEF index, lists

LEMMA BeginDropEffect ==
    ASSUME IInv, NEW u \in Users, BeginDrop(u)
    PROVE  /\ TypeOK' /\ usr[u].pc = "idle" /\ phase = "run"
           /\ \E f \in Files :
                 /\ fstate[f] = "live" /\ fstate' = [fstate EXCEPT ![f] = "dropping"]
                 /\ \A v \in Users : usr[v].file = f => usr[v].pc = "idle"
                 /\ \A v \in Users : v # u => usr'[v] = usr[v]
                 /\ usr'[u].pc \in {"drop", "dropped"} /\ usr'[u].op = "drop"
                 /\ usr'[u].file = f /\ usr'[u].new = usr[u].new
                 /\ \A e \in usr'[u].todo : FileOf[e] = f
           /\ UNCHANGED <<node, allocated, lock, cold, queue, qmutex, size, indicator,
                          phase, fl>>
  <1>0. /\ TypeOK /\ usr \in [Users -> UserRec] /\ usr[u] \in UserRec
        /\ usr[u].pc = "idle" /\ phase = "run"
    BY DEF IInv, TypeOK, UserRec, BeginDrop, UserAt
  <1>1. UNCHANGED <<node, index, lock, spin, qmutex, lists, size, indicator, jobs,
                    undefined, phase, fl>>
    BY DEF BeginDrop
  <1>2. ops' \in 0 .. MaxOps
    BY <1>0, SetsAssumption DEF BeginDrop, TypeOK
  <1>3. PICK f \in Droppable :
          /\ fstate[f] = "live"
          /\ \A v \in Users : usr[v].file = f => usr[v].pc = "idle"
          /\ treelock' = [treelock EXCEPT ![f].writer = u]
          /\ fstate' = [fstate EXCEPT ![f] = "dropping"]
          /\ usr' = [usr EXCEPT ![u] =
                [@ EXCEPT !.op = "drop", !.file = f, !.todo = Covered(f),
                          !.pc = IF Covered(f) = {} THEN "dropped" ELSE "drop"]]
    BY DEF BeginDrop
  <1>4. f \in Files
    BY SetsAssumption
  <1>5. PICK S \in SUBSET Nodes : S = Covered(f) /\ \A e \in S : FileOf[e] = f
    <2>1. Covered(f) \subseteq TreeOf(f) /\ TreeOf(f) \subseteq allocated
      BY DEF Covered, TreeOf, Tree
    <2>2. Covered(f) \in SUBSET Nodes
      BY <1>0, <2>1 DEF TypeOK
    <2> QED
      BY <2>1, <2>2 DEF TreeOf
  <1>6. PICK p \in {"drop", "dropped"} : p = IF S = {} THEN "dropped" ELSE "drop"
    OBVIOUS
  <1> DEFINE r == [usr[u] EXCEPT !.op = "drop", !.file = f, !.todo = S, !.pc = p]
  <1>7. r \in UserRec
    BY <1>0, <1>4 DEF UserRec, UserPCs, DropPCs
  <1>8. usr' = [usr EXCEPT ![u] = r]
    BY <1>3, <1>5, <1>6
  <1>9. /\ usr' \in [Users -> UserRec] /\ usr'[u].pc = p /\ usr'[u].op = "drop"
        /\ usr'[u].file = f /\ usr'[u].todo = S /\ usr'[u].new = usr[u].new
        /\ \A v \in Users : v # u => usr'[v] = usr[v]
    BY <1>0, <1>7, <1>8 DEF UserRec
  <1>10. treelock' \in [Files -> [readers : SUBSET Users, writer : Users \cup {None}]]
    BY <1>0, <1>3, <1>4, LockTreeType
  <1>11. TypeOK'
    BY <1>0, <1>1, <1>2, <1>3, <1>4, <1>9, <1>10 DEF TypeOK, UserRec, index, lists
  <1> QED
    BY <1>0, <1>1, <1>3, <1>4, <1>5, <1>6, <1>9, <1>11, ZenonT(60) DEF index, lists

FlushRec == [pc : {"idle", "qlock", "scan", "lock", "evict"}, q : Queues]

WorkerBecomes(w, p, q) ==
    /\ \A x \in Flushers : x # w => fl'[x] = fl[x]
    /\ fl'[w].pc = p /\ fl'[w].q = q

LEMMA FGotoStep ==
    ASSUME TypeOK, NEW w \in Flushers,
           NEW p \in {"idle", "qlock", "scan", "lock", "evict"}, FGoto(w, p)
    PROVE  fl' \in [Flushers -> FlushRec] /\ WorkerBecomes(w, p, fl[w].q)
  <1>1. fl \in [Flushers -> FlushRec] /\ fl[w] \in FlushRec
    BY DEF TypeOK, FlushRec
  <1>2. [fl[w] EXCEPT !.pc = p] \in FlushRec
    BY <1>1 DEF FlushRec
  <1>3. fl' = [fl EXCEPT ![w] = [fl[w] EXCEPT !.pc = p]]
    BY <1>1 DEF FGoto, FlushRec
  <1> QED
    BY <1>1, <1>2, <1>3 DEF WorkerBecomes, FlushRec

LEMMA TakeJobEffect ==
    ASSUME IInv, NEW w \in Flushers, TakeJob(w)
    PROVE  /\ TypeOK' /\ fl[w].pc = "idle" /\ jobs # <<>>
           /\ \E q \in Queues : WorkerBecomes(w, "qlock", q)
           /\ UNCHANGED <<node, allocated, lock, cold, queue, qmutex, size, indicator, fstate,
                          phase, usr>>
  <1>0. TypeOK /\ fl \in [Flushers -> FlushRec] /\ fl[w] \in FlushRec
    BY DEF IInv, TypeOK, FlushRec
  <1>1. fl[w].pc = "idle" /\ jobs # <<>> /\ jobs' = Tail(jobs)
    BY DEF TakeJob, FlusherAt
  <1>2. UNCHANGED <<node, index, locks, lists, size, indicator, fstate, undefined,
                    phase, usr, ops>>
    BY DEF TakeJob
  <1>3. Head(jobs) \in Queues /\ jobs' \in Seq(Queues)
    BY <1>0, <1>1 DEF TypeOK
  <1> PICK q \in Queues : q = Head(jobs)
    BY <1>3
  <1> DEFINE r == [fl[w] EXCEPT !.pc = "qlock", !.q = q]
  <1>4. r \in FlushRec
    BY <1>0 DEF FlushRec
  <1>5. fl' = [fl EXCEPT ![w] = r]
    BY <1>0 DEF TakeJob, FlushRec
  <1>6. fl' \in [Flushers -> FlushRec] /\ WorkerBecomes(w, "qlock", q)
    BY <1>0, <1>4, <1>5 DEF WorkerBecomes, FlushRec
  <1>7. TypeOK'
    BY <1>0, <1>2, <1>3, <1>6 DEF TypeOK, FlushRec, index, locks, lists
  <1> QED
    BY <1>1, <1>2, <1>6, <1>7 DEF index, locks, lists

LEMMA LockQueueEffect ==
    ASSUME IInv, NEW w \in Flushers, LockQueue(w)
    PROVE  /\ TypeOK' /\ fl[w].pc = "qlock" /\ fl[w].q \in Queues /\ qmutex[fl[w].q] = None
           /\ qmutex' = [qmutex EXCEPT ![fl[w].q] = w]
           /\ WorkerBecomes(w, "scan", fl[w].q)
           /\ UNCHANGED <<node, allocated, lock, cold, queue, size, indicator, jobs, fstate,
                          phase, usr>>
  <1>0. TypeOK /\ fl[w].q \in Queues
    BY DEF IInv, TypeOK
  <1>1. /\ fl[w].pc = "qlock" /\ qmutex[fl[w].q] = None
        /\ qmutex' = [qmutex EXCEPT ![fl[w].q] = w]
    BY DEF LockQueue, FlusherAt
  <1>2. UNCHANGED <<node, index, lock, treelock, spin, lists, size, indicator, jobs,
                    fstate, undefined, phase, usr, ops>>
    BY DEF LockQueue
  <1>3. fl' \in [Flushers -> FlushRec] /\ WorkerBecomes(w, "scan", fl[w].q)
    BY <1>0, FGotoStep DEF LockQueue
  <1>4. TypeOK'
    BY <1>0, <1>1, <1>2, <1>3 DEF TypeOK, FlushRec, index, lists
  <1> QED
    BY <1>0, <1>1, <1>2, <1>3, <1>4 DEF index, lists

LEMMA ScanQueueEffect ==
    ASSUME IInv, NEW w \in Flushers, ScanQueue(w)
    PROVE  /\ TypeOK' /\ fl[w].pc = "scan" /\ fl[w].q \in Queues
           /\ \/ /\ qmutex' = [qmutex EXCEPT ![fl[w].q] = None] /\ queue' = queue
                 /\ WorkerBecomes(w, "idle", 0)
              \/ /\ queue[fl[w].q] # <<>> /\ node[Head(queue[fl[w].q])].removed
                 /\ queue' = [queue EXCEPT ![fl[w].q] = Tail(@)]
                 /\ fl' = fl /\ qmutex' = qmutex
              \/ /\ queue[fl[w].q] # <<>> /\ queue' = queue /\ qmutex' = qmutex
                 /\ WorkerBecomes(w, "lock", fl[w].q)
           /\ UNCHANGED <<node, allocated, lock, cold, size, indicator, jobs, fstate,
                          phase, usr>>
  <1>0. /\ TypeOK /\ fl[w].q \in Queues /\ fl \in [Flushers -> FlushRec] /\ fl[w] \in FlushRec
        /\ queue \in [Queues -> Seq(Nodes)] /\ 0 \in Queues
    BY QueueAssumption DEF IInv, TypeOK, FlushRec, Queues
  <1>1. fl[w].pc = "scan"
    BY DEF ScanQueue, FlusherAt
  <1>2. UNCHANGED <<node, index, lock, treelock, spin, cold, size, indicator, jobs,
                    fstate, undefined, phase, usr, ops>>
    BY DEF ScanQueue
  <1> PICK q \in Queues : q = fl[w].q
    BY <1>0
  <1>3. CASE /\ qmutex' = [qmutex EXCEPT ![q] = None]
             /\ fl' = [fl EXCEPT ![w].pc = "idle", ![w].q = 0] /\ UNCHANGED queue
    <2> DEFINE r == [fl[w] EXCEPT !.pc = "idle", !.q = 0]
    <2>1. r \in FlushRec
      BY <1>0 DEF FlushRec
    <2>2. fl' = [fl EXCEPT ![w] = r]
      BY <1>0, <1>3 DEF FlushRec
    <2>3. fl' \in [Flushers -> FlushRec] /\ WorkerBecomes(w, "idle", 0)
      BY <1>0, <2>1, <2>2 DEF WorkerBecomes, FlushRec
    <2>4. TypeOK'
      BY <1>0, <1>2, <1>3, <2>3 DEF TypeOK, FlushRec, index
    <2> QED
      BY <1>1, <1>2, <1>3, <2>3, <2>4 DEF index
  <1>4. CASE /\ queue[q] # <<>> /\ node[Head(queue[q])].removed
             /\ queue' = [queue EXCEPT ![q] = Tail(@)] /\ UNCHANGED fl /\ UNCHANGED qmutex
    <2>1. queue' \in [Queues -> Seq(Nodes)]
      BY <1>0, <1>4
    <2>2. TypeOK'
      BY <1>0, <1>2, <1>4, <2>1 DEF TypeOK, FlushRec, index
    <2> QED
      BY <1>1, <1>2, <1>4, <2>2 DEF index
  <1>5. CASE /\ queue[q] # <<>> /\ FGoto(w, "lock") /\ UNCHANGED queue /\ UNCHANGED qmutex
    <2>1. fl' \in [Flushers -> FlushRec] /\ WorkerBecomes(w, "lock", q)
      BY <1>0, <1>5, FGotoStep
    <2>2. TypeOK'
      BY <1>0, <1>2, <1>5, <2>1 DEF TypeOK, FlushRec, index
    <2> QED
      BY <1>1, <1>2, <1>5, <2>1, <2>2 DEF index
  <1> QED
    BY <1>3, <1>4, <1>5 DEF ScanQueue

LEMMA LockVictimEffect ==
    ASSUME IInv, NEW w \in Flushers, LockVictim(w)
    PROVE  /\ TypeOK' /\ fl[w].pc = "lock" /\ fl[w].q \in Queues
           /\ Head(queue[fl[w].q]) \in Nodes /\ lock[Head(queue[fl[w].q])] = None
           /\ lock' = [lock EXCEPT ![Head(queue[fl[w].q])] = w]
           /\ WorkerBecomes(w, "evict", fl[w].q)
           /\ UNCHANGED <<node, allocated, cold, queue, qmutex, size, indicator, jobs, fstate,
                          phase, usr>>
  <1>1. fl[w].pc = "lock"
    BY DEF LockVictim, FlusherAt
  <1>0. /\ TypeOK /\ fl[w].q \in Queues /\ queue[fl[w].q] # <<>>
        /\ queue[fl[w].q] \in Seq(Nodes)
    BY <1>1 DEF IInv, TypeOK, Owners
  <1>2. UNCHANGED <<node, index, treelock, spin, qmutex, lists, size, indicator,
                    jobs, fstate, undefined, phase, usr, ops>>
    BY DEF LockVictim
  <1> PICK e \in Nodes : e = Head(queue[fl[w].q])
    BY <1>0
  <1>3. lock[e] = None /\ lock' = [lock EXCEPT ![e] = w]
    BY DEF LockVictim
  <1>4. fl' \in [Flushers -> FlushRec] /\ WorkerBecomes(w, "evict", fl[w].q)
    BY <1>0, FGotoStep DEF LockVictim
  <1>5. TypeOK'
    BY <1>0, <1>2, <1>3, <1>4 DEF TypeOK, FlushRec, index, lists
  <1> QED
    BY <1>0, <1>1, <1>2, <1>3, <1>4, <1>5 DEF index, lists

(* What an eviction makes of a node. *)
Cleans(e) ==
    \E d \in {"stale", "fresh"} :
        /\ ~ IOErrors =>
              d = (IF node[e].dirty /\ node[e].buf # "null" THEN node[e].buf ELSE node[e].disk)
        /\ NodeBecomes(e, "null", d, FALSE, FALSE, node[e].removed)

LEMMA EvictedStep ==
    ASSUME TypeOK, NEW e \in Nodes, NEW n \in Evicted(node[e]), node' = [node EXCEPT ![e] = n]
    PROVE  node' \in [Nodes -> NodeRec] /\ Cleans(e)
  <1>0. node \in [Nodes -> NodeRec] /\ node[e] \in NodeRec
    BY DEF TypeOK, NodeRec
  <1>1. PICK d \in {IF node[e].dirty /\ node[e].buf # "null" THEN node[e].buf ELSE node[e].disk}
                   \cup (IF IOErrors THEN {node[e].disk} ELSE {}) :
            n = [node[e] EXCEPT !.disk = d, !.buf = "null", !.present = FALSE,
                                !.dirty = FALSE, !.cache_size = 0]
    BY Zenon DEF Evicted
  <1>2. /\ d \in {"stale", "fresh"}
        /\ ~ IOErrors =>
              d = (IF node[e].dirty /\ node[e].buf # "null" THEN node[e].buf ELSE node[e].disk)
    BY <1>0, SetsAssumption DEF NodeRec
  <1>3. /\ n \in NodeRec /\ n.buf = "null" /\ n.disk = d /\ n.present = FALSE
        /\ n.dirty = FALSE /\ n.removed = node[e].removed
    BY <1>0, <1>1, <1>2 DEF NodeRec
  <1>4. node' \in [Nodes -> NodeRec] /\ NodeBecomes(e, "null", d, FALSE, FALSE, node[e].removed)
    BY <1>0, <1>3 DEF NodeBecomes
  <1> QED
    BY <1>2, <1>4 DEF Cleans

LEMMA EvictEffect ==
    ASSUME IInv, NEW w \in Flushers, poly_cache_evict(w)
    PROVE  /\ TypeOK' /\ fl[w].pc = "evict" /\ fl[w].q \in Queues
           /\ queue[fl[w].q] # <<>> /\ Head(queue[fl[w].q]) \in Nodes
           /\ Cleans(Head(queue[fl[w].q]))
           /\ queue' = [queue EXCEPT ![fl[w].q] = Tail(@)]
           /\ lock' = [lock EXCEPT ![Head(queue[fl[w].q])] = None]
           /\ WorkerBecomes(w, "scan", fl[w].q)
           /\ UNCHANGED <<allocated, cold, qmutex, size, indicator, jobs, fstate, phase, usr>>
  <1>1. fl[w].pc = "evict"
    BY DEF poly_cache_evict, FlusherAt
  <1>0. /\ TypeOK /\ fl[w].q \in Queues /\ queue[fl[w].q] # <<>>
        /\ queue[fl[w].q] \in Seq(Nodes) /\ queue \in [Queues -> Seq(Nodes)]
    BY <1>1 DEF IInv, TypeOK, Owners
  <1>2. UNCHANGED <<index, treelock, spin, qmutex, cold, size, indicator, jobs,
                    fstate, undefined, phase, usr, ops>>
    BY DEF poly_cache_evict
  <1> PICK e \in Nodes : e = Head(queue[fl[w].q])
    BY <1>0
  <1>3. /\ lock' = [lock EXCEPT ![e] = None] /\ queue' = [queue EXCEPT ![fl[w].q] = Tail(@)]
        /\ \E n \in Evicted(node[e]) : node' = [node EXCEPT ![e] = n]
    BY DEF poly_cache_evict
  <1>4. queue' \in [Queues -> Seq(Nodes)]
    BY <1>0, <1>3
  <1>5. node' \in [Nodes -> NodeRec] /\ Cleans(e)
    BY <1>0, <1>3, EvictedStep
  <1>6. fl' \in [Flushers -> FlushRec] /\ WorkerBecomes(w, "scan", fl[w].q)
    BY <1>0, FGotoStep DEF poly_cache_evict
  <1>7. TypeOK'
    BY <1>0, <1>2, <1>3, <1>4, <1>5, <1>6 DEF TypeOK, FlushRec, NodeRec, index
  <1>8. Cleans(Head(queue[fl[w].q]))
    BY <1>5
  <1> QED
    BY <1>0, <1>1, <1>2, <1>3, <1>6, <1>7, <1>8 DEF index

(* What the list operations do to a list on which no node is twice. *)
LEMMA AppendStep ==
    ASSUME NEW l \in Seq(Nodes), NEW e \in Nodes, Once(l), ~ Has(l, e)
    PROVE  /\ Once(Append(l, e))
           /\ \A x \in Nodes : Has(Append(l, e), x) <=> Has(l, x) \/ x = e
  <1>1. /\ DOMAIN Append(l, e) = 1 .. Len(l) + 1 /\ DOMAIN l = 1 .. Len(l)
        /\ Append(l, e)[Len(l) + 1] = e /\ Len(l) \in Nat
        /\ \A i \in 1 .. Len(l) : Append(l, e)[i] = l[i]
    OBVIOUS
  <1>2. \A i \in 1 .. Len(l) + 1 : i \in 1 .. Len(l) \/ i = Len(l) + 1
    BY <1>1
  <1>3. Once(Append(l, e))
    BY <1>1, <1>2 DEF Once, Has
  <1>4. \A x \in Nodes : Has(Append(l, e), x) <=> Has(l, x) \/ x = e
    BY <1>1, <1>2 DEF Has
  <1> QED
    BY <1>3, <1>4

LEMMA TailStep ==
    ASSUME NEW l \in Seq(Nodes), l # <<>>, Once(l)
    PROVE  /\ Once(Tail(l)) /\ Has(l, Head(l)) /\ Head(l) \in Nodes
           /\ \A x \in Nodes : Has(Tail(l), x) <=> Has(l, x) /\ x # Head(l)
  <1>1. /\ DOMAIN Tail(l) = 1 .. Len(l) - 1 /\ DOMAIN l = 1 .. Len(l) /\ Head(l) = l[1]
        /\ Len(l) \in Nat /\ Len(l) >= 1 /\ Head(l) \in Nodes
        /\ \A i \in 1 .. Len(l) - 1 : Tail(l)[i] = l[i + 1]
    OBVIOUS
  <1>2. Once(Tail(l))
    BY <1>1 DEF Once
  <1>3. Has(l, Head(l))
    BY <1>1 DEF Has
  <1>4. ASSUME NEW x \in Nodes, Has(Tail(l), x) PROVE Has(l, x) /\ x # Head(l)
    BY <1>1, <1>4 DEF Has, Once
  <1>5. ASSUME NEW x \in Nodes, Has(l, x), x # Head(l) PROVE Has(Tail(l), x)
    <2>1. PICK i \in 1 .. Len(l) : l[i] = x
      BY <1>1, <1>5 DEF Has
    <2>2. i - 1 \in 1 .. Len(l) - 1 /\ (i - 1) + 1 = i
      BY <1>1, <1>5, <2>1
    <2>3. Tail(l)[i - 1] = x
      BY <1>1, <2>1, <2>2
    <2> QED
      BY <1>1, <2>2, <2>3 DEF Has
  <1> QED
    BY <1>1, <1>2, <1>3, <1>4, <1>5

LEMMA UnlinkedStep ==
    ASSUME NEW l \in Seq(Nodes), NEW e \in Nodes, Once(l)
    PROVE  /\ Unlinked(l, e) \in Seq(Nodes) /\ Once(Unlinked(l, e))
           /\ \A x \in Nodes : Has(Unlinked(l, e), x) <=> Has(l, x) /\ x # e
  <1>1. CASE ~ Has(l, e)
    <2>1. Unlinked(l, e) = l
      BY <1>1 DEF Unlinked, Has
    <2> QED
      BY <1>1, <2>1
  <1>2. CASE Has(l, e)
    <2>1. PICK i \in DOMAIN l : l[i] = e /\ Unlinked(l, e) = RemoveAt(l, i)
      BY <1>2 DEF Unlinked, Has
    <2>2. DOMAIN l = 1 .. Len(l) /\ Len(l) \in Nat
      OBVIOUS
    <2> DEFINE a == SubSeq(l, 1, i - 1)
               b == SubSeq(l, i + 1, Len(l))
    <2>3. /\ a \in Seq(Nodes) /\ Len(a) = i - 1 /\ \A k \in 1 .. i - 1 : a[k] = l[k]
      BY <2>1, <2>2
    <2>4. /\ b \in Seq(Nodes) /\ Len(b) = Len(l) - i
          /\ \A k \in 1 .. Len(l) - i : b[k] = l[i + k]
      BY <2>1, <2>2
    <2>5. Unlinked(l, e) = a \o b
      BY <2>1 DEF RemoveAt
    <2> HIDE DEF a, b
    <2> DEFINE r == a \o b
    <2>6. /\ r \in Seq(Nodes) /\ Len(r) = Len(l) - 1 /\ DOMAIN r = 1 .. Len(l) - 1
          /\ \A k \in 1 .. Len(l) - 1 : r[k] = IF k <= i - 1 THEN a[k] ELSE b[k - (i - 1)]
      <3>1. /\ r \in Seq(Nodes) /\ Len(r) = Len(a) + Len(b)
            /\ \A k \in 1 .. Len(a) + Len(b) :
                  r[k] = IF k <= Len(a) THEN a[k] ELSE b[k - Len(a)]
        BY <2>3, <2>4, SMTT(60)
      <3>2. Len(a) = i - 1 /\ Len(a) + Len(b) = Len(l) - 1
        BY <2>1, <2>2, <2>3, <2>4
      <3>3. DOMAIN r = 1 .. Len(r)
        BY <3>1
      <3> HIDE DEF r
      <3> QED
        BY <3>1, <3>2, <3>3
    <2>7. \A k \in 1 .. Len(l) - 1 : r[k] = IF k < i THEN l[k] ELSE l[k + 1]
      <3> SUFFICES ASSUME NEW k \in 1 .. Len(l) - 1
                   PROVE  r[k] = IF k < i THEN l[k] ELSE l[k + 1]
        OBVIOUS
      <3>1. CASE k < i
        <4>1. k \in 1 .. i - 1 /\ k <= i - 1
          BY <2>1, <2>2, <3>1
        <4>2. r[k] = a[k]
          BY <2>6, <4>1
        <4> QED
          BY <2>3, <3>1, <4>1, <4>2
      <3>2. CASE ~ (k < i)
        <4>1. k - (i - 1) \in 1 .. Len(l) - i /\ i + (k - (i - 1)) = k + 1 /\ ~ (k <= i - 1)
          BY <2>1, <2>2, <3>2
        <4>2. r[k] = b[k - (i - 1)]
          BY <2>6, <4>1
        <4>3. b[k - (i - 1)] = l[i + (k - (i - 1))]
          BY <2>4, <4>1
        <4> QED
          BY <3>2, <4>1, <4>2, <4>3
      <3> QED
        BY <3>1, <3>2
    <2> HIDE DEF r
    <2> DEFINE m(k) == IF k < i THEN k ELSE k + 1
    <2>0. /\ \A k \in 1 .. Len(l) - 1 : r[k] = l[m(k)] /\ m(k) \in 1 .. Len(l) /\ m(k) # i
          /\ \A j, k \in 1 .. Len(l) - 1 : m(j) = m(k) => j = k
      BY <2>1, <2>2, <2>7
    <2> HIDE DEF m
    <2>8. Once(r)
      <3> SUFFICES ASSUME NEW j \in 1 .. Len(l) - 1, NEW k \in 1 .. Len(l) - 1, r[j] = r[k]
                   PROVE  j = k
        BY <2>6 DEF Once
      <3>1. l[m(j)] = l[m(k)] /\ m(j) \in DOMAIN l /\ m(k) \in DOMAIN l
        BY <2>0, <2>2
      <3>2. m(j) = m(k)
        BY <3>1 DEF Once
      <3> QED
        BY <2>0, <3>2
    <2>9. ASSUME NEW x \in Nodes, Has(r, x) PROVE Has(l, x) /\ x # e
      BY <2>0, <2>1, <2>2, <2>6, <2>9 DEF Has, Once
    <2>10. ASSUME NEW x \in Nodes, Has(l, x), x # e PROVE Has(r, x)
      <3>1. PICK j \in 1 .. Len(l) : l[j] = x
        BY <2>2, <2>10 DEF Has
      <3>2. CASE j < i
        <4>1. j \in 1 .. Len(l) - 1
          BY <2>1, <2>2, <3>1, <3>2
        <4>2. r[j] = x
          BY <2>7, <3>1, <3>2, <4>1
        <4> QED
          BY <2>6, <4>1, <4>2 DEF Has
      <3>3. CASE j > i
        <4>1. j - 1 \in 1 .. Len(l) - 1 /\ (j - 1) + 1 = j /\ ~ (j - 1 < i)
          BY <2>1, <2>2, <3>1, <3>3
        <4>2. r[j - 1] = x
          BY <2>7, <3>1, <4>1
        <4> QED
          BY <2>6, <4>1, <4>2 DEF Has
      <3>4. j # i
        BY <2>1, <2>10, <3>1
      <3> QED
        BY <2>1, <2>2, <3>1, <3>2, <3>3, <3>4
    <2>11. Unlinked(l, e) = r
      BY <2>5 DEF r
    <2> QED
      BY <2>6, <2>8, <2>9, <2>10, <2>11
  <1> QED
    BY <1>1, <1>2

LEMMA FreeEffect ==
    ASSUME IInv, poly_cache_free
    PROVE  /\ TypeOK' /\ phase = "free"
           /\ \E e \in Nodes : /\ Cleans(e) /\ cold' = Unlinked(cold, e)
                               /\ queue' = [q \in Queues |-> Unlinked(queue[q], e)]
           /\ UNCHANGED <<allocated, lock, qmutex, size, indicator, jobs, fstate, phase, usr,
                          fl>>
  <1>0. /\ TypeOK /\ cold \in Seq(Nodes) /\ queue \in [Queues -> Seq(Nodes)]
        /\ Once(cold) /\ \A q \in Queues : Once(queue[q])
    BY DEF IInv, TypeOK, Lists
  <1>1. phase = "free"
    BY DEF poly_cache_free, ProcessAt
  <1>2. PICK e \in Buffered :
          /\ \E n \in Evicted(node[e]) : node' = [node EXCEPT ![e] = n]
          /\ cold' = Unlinked(cold, e)
          /\ queue' = [q \in Queues |-> Unlinked(queue[q], e)]
    BY DEF poly_cache_free
  <1>3. e \in Nodes
    BY <1>0 DEF Buffered, Covered, TreeOf, Tree, TypeOK
  <1>4. node' \in [Nodes -> NodeRec] /\ Cleans(e)
    BY <1>0, <1>2, <1>3, EvictedStep
  <1>5. cold' \in Seq(Nodes)
    BY <1>0, <1>2, <1>3, UnlinkedStep
  <1>6. queue' \in [Queues -> Seq(Nodes)]
    <2>1. \A q \in Queues : Unlinked(queue[q], e) \in Seq(Nodes)
      BY <1>0, <1>3, UnlinkedStep
    <2> QED
      BY <1>2, <2>1
  <1>7. UNCHANGED <<index, locks, size, indicator, jobs, fstate, undefined, phase,
                    usr, fl, ops>>
    BY DEF poly_cache_free
  <1>8. TypeOK'
    BY <1>0, <1>4, <1>5, <1>6, <1>7 DEF TypeOK, NodeRec, index, locks
  <1> QED
    BY <1>1, <1>2, <1>3, <1>4, <1>7, <1>8 DEF index, locks

LEMMA ExitEffect ==
    ASSUME IInv, ExitBegin \/ ExitWait \/ ExitEnd \/ UseFreedMemory \/ UNCHANGED vars
    PROVE  /\ TypeOK'
           /\ phase # "run" => phase' # "run"
           /\ phase' # "run" /\ phase = "run" => \A u \in Users : usr[u].pc = "idle"
           /\ phase' \in {"free", "done"} /\ phase \notin {"free", "done"} =>
                 jobs = <<>> /\ \A w \in Flushers : fl[w].pc = "idle"
           /\ UNCHANGED <<node, allocated, lock, cold, queue, qmutex, size, indicator, jobs,
                          fstate, usr, fl>>
  <1>0. TypeOK
    BY DEF IInv
  <1>1. UNCHANGED <<node, index, locks, lists, size, indicator, jobs, fstate, usr, fl, ops>>
    BY DEF ExitBegin, ExitWait, ExitEnd, UseFreedMemory, vars
  <1>2. phase' \in {"run", "wait", "free", "done"} /\ undefined' \in BOOLEAN
    BY <1>0 DEF TypeOK, ExitBegin, ExitWait, ExitEnd, UseFreedMemory, vars
  <1>3. TypeOK'
    BY <1>0, <1>1, <1>2 DEF TypeOK, index, locks, lists
  <1>4. /\ phase # "run" => phase' # "run"
        /\ phase' # "run" /\ phase = "run" => \A u \in Users : usr[u].pc = "idle"
        /\ phase' \in {"free", "done"} /\ phase \notin {"free", "done"} =>
              jobs = <<>> /\ \A w \in Flushers : fl[w].pc = "idle"
    BY DEF ExitBegin, ExitWait, ExitEnd, UseFreedMemory, vars, ProcessAt
  <1> QED
    BY <1>1, <1>3, <1>4 DEF index, locks, lists

(* The statements that touch neither a node nor a list nor an interval's   *)
(* lock: the user only moves on.                                           *)
Quiet(u) ==
    \/ Scanned(u) \/ InsertNode(u) \/ SetSize(u) \/ StoreSize(u) \/ CheckSize(u)
    \/ TestAndSet(u) \/ Snapshot(u) \/ LockCold(u) \/ ResetSize(u) \/ Launch(u) \/ EndDrop(u)
QuietTo == {"make", "size", "store", "check", "tas", "snap", "spin", "pick", "launch", "free"}

LEMMA QuietEffect ==
    ASSUME IInv, NEW u \in Users, Quiet(u)
    PROVE  /\ TypeOK'
           /\ usr[u].pc \in {"scanned", "insert", "size", "store", "check", "tas", "snap",
                             "spin", "reset", "launch", "dropped"}
           /\ \/ Returns(u)
              \/ \E p \in QuietTo : \E c, s :
                    /\ Becomes(u, p, c, usr[u].todo, usr[u].new, s)
                    /\ p = "make" => usr[u].new # {}
                    /\ p = "free" <=> usr[u].pc = "dropped"
           /\ UNCHANGED <<node, allocated, lock, cold, queue, qmutex, fstate, phase, fl>>
  <1>1. CASE Scanned(u)
    BY <1>1, ScannedEffect DEF Keeps, QuietTo
  <1>2. CASE InsertNode(u)
    BY <1>2, InsertNodeEffect DEF QuietTo
  <1>3. CASE SetSize(u)
    BY <1>3, SetSizeEffect DEF Keeps, QuietTo
  <1>4. CASE StoreSize(u)
    BY <1>4, StoreSizeEffect DEF Keeps, QuietTo
  <1>5. CASE CheckSize(u)
    BY <1>5, CheckSizeEffect DEF Keeps, QuietTo
  <1>6. CASE TestAndSet(u)
    BY <1>6, TestAndSetEffect DEF Keeps, QuietTo
  <1>7. CASE Snapshot(u)
    BY <1>7, SnapshotEffect DEF QuietTo
  <1>8. CASE LockCold(u)
    BY <1>8, LockColdEffect DEF Keeps, QuietTo
  <1>9. CASE ResetSize(u)
    BY <1>9, ResetSizeEffect DEF Keeps, QuietTo
  <1>10. CASE Launch(u)
    BY <1>10, LaunchEffect
  <1>11. CASE EndDrop(u)
    BY <1>11, EndDropEffect DEF Keeps, QuietTo
  <1> QED
    BY <1>1, <1>2, <1>3, <1>4, <1>5, <1>6, <1>7, <1>8, <1>9, <1>10, <1>11 DEF Quiet

(* Every step is one of these. *)
LEMMA NextCases ==
    ASSUME [Next]_vars
    PROVE  \/ \E u \in Users :
                 \/ Quiet(u) \/ LockNode(u) \/ AddCold(u) \/ poly_cache_admit(u)
                 \/ CopyOut(u) \/ CopyIn(u) \/ MakeNode(u) \/ PickVictim(u)
                 \/ EnqueueVictim(u) \/ DropNode(u) \/ FreeIndex(u)
                 \/ BeginRead(u) \/ BeginWrite(u) \/ BeginAppend(u) \/ BeginDrop(u)
           \/ \E w \in Flushers :
                 \/ TakeJob(w) \/ LockQueue(w) \/ ScanQueue(w) \/ LockVictim(w)
                 \/ poly_cache_evict(w)
           \/ poly_cache_free
           \/ ExitBegin \/ ExitWait \/ ExitEnd \/ UseFreedMemory \/ UNCHANGED vars
  BY Zenon DEF Next, User, Quiet, Flusher, Exiting, Ended

-----------------------------------------------------------------------------
(* Each part of the invariant is kept by every step. *)

LEMMA TypeStep ==
    ASSUME IInv, [Next]_vars
    PROVE  TypeOK'
  <1>1. ASSUME NEW u \in Users, Quiet(u) \/ LockNode(u) \/ AddCold(u) \/ poly_cache_admit(u)
                                \/ CopyOut(u) \/ CopyIn(u) \/ MakeNode(u)
        PROVE  TypeOK'
    BY <1>1, QuietEffect, LockNodeEffect, AddColdEffect, AdmitEffect, CopyEffect,
       MakeNodeEffect
  <1>2. ASSUME NEW u \in Users, PickVictim(u) \/ EnqueueVictim(u) \/ DropNode(u) \/ FreeIndex(u)
        PROVE  TypeOK'
    BY <1>2, PickVictimEffect, EnqueueVictimEffect, DropNodeEffect, FreeIndexEffect
  <1>3. ASSUME NEW u \in Users, BeginRead(u) \/ BeginWrite(u) \/ BeginAppend(u) \/ BeginDrop(u)
        PROVE  TypeOK'
    BY <1>3, BeginEffect, BeginDropEffect
  <1>4. ASSUME NEW w \in Flushers, TakeJob(w) \/ LockQueue(w) \/ ScanQueue(w) \/ LockVictim(w)
                                   \/ poly_cache_evict(w)
        PROVE  TypeOK'
    BY <1>4, TakeJobEffect, LockQueueEffect, ScanQueueEffect, LockVictimEffect, EvictEffect
  <1>5. CASE poly_cache_free
    BY <1>5, FreeEffect
  <1>6. CASE ExitBegin \/ ExitWait \/ ExitEnd \/ UseFreedMemory \/ UNCHANGED vars
    BY <1>6, ExitEffect
  <1> QED
    BY <1>1, <1>2, <1>3, <1>4, <1>5, <1>6, NextCases

(* A statement in the middle of a call. *)
SameCall(u) ==
    /\ \A v \in Users : v # u => usr'[v] = usr[v]
    /\ usr'[u].op = usr[u].op /\ usr'[u].file = usr[u].file
    /\ usr[u].pc # "idle" /\ usr'[u].pc # "idle"
    /\ usr'[u].pc \in DropPCs <=> usr[u].pc \in DropPCs
    /\ fstate' = fstate

LEMMA SameCallStep ==
    ASSUME IInv, NEW u \in Users,
           Quiet(u) \/ LockNode(u) \/ AddCold(u) \/ poly_cache_admit(u) \/ CopyOut(u)
           \/ CopyIn(u) \/ MakeNode(u) \/ PickVictim(u) \/ EnqueueVictim(u) \/ DropNode(u)
    PROVE  SameCall(u) \/ (Returns(u) /\ fstate' = fstate) \/ UNCHANGED <<usr, fstate>>
  <1>1. CASE Quiet(u)
    BY <1>1, QuietEffect DEF SameCall, Becomes, DropPCs, QuietTo
  <1>2. CASE LockNode(u)
    BY <1>2, LockNodeEffect DEF SameCall, Keeps, Becomes, DropPCs
  <1>3. CASE AddCold(u)
    BY <1>3, AddColdEffect DEF SameCall, Keeps, Becomes, DropPCs
  <1>4. CASE poly_cache_admit(u)
    <2>1. usr[u].pc = "admit" /\ Keeps(u, "copy") /\ fstate' = fstate
      BY <1>4, AdmitEffect
    <2> QED
      BY <2>1 DEF SameCall, Keeps, Becomes, DropPCs
  <1>5. CASE CopyOut(u) \/ CopyIn(u)
    BY <1>5, CopyEffect DEF SameCall, Becomes, DropPCs
  <1>6. CASE MakeNode(u)
    BY <1>6, MakeNodeEffect DEF SameCall, Becomes, DropPCs
  <1>7. CASE PickVictim(u)
    BY <1>7, PickVictimEffect DEF SameCall, Keeps, Becomes, DropPCs
  <1>8. CASE EnqueueVictim(u)
    BY <1>8, EnqueueVictimEffect DEF SameCall, Becomes, DropPCs
  <1>9. CASE DropNode(u)
    BY <1>9, DropNodeEffect DEF SameCall, Becomes, DropPCs
  <1> QED
    BY <1>1, <1>2, <1>3, <1>4, <1>5, <1>6, <1>7, <1>8, <1>9

(* An idle user has no file. *)
LEMMA IdleFields ==
    /\ IdleUser.pc = "idle" /\ IdleUser.op = "read" /\ IdleUser.file = None
    /\ IdleUser.cur = None /\ IdleUser.todo = {} /\ IdleUser.new = {}
  BY DEF IdleUser

LEMMA CallsStep ==
    ASSUME IInv, [Next]_vars
    PROVE  Calls'
  <1>0. Calls /\ fstate \in [Files -> {"live", "dropping", "freed"}] /\ None \notin Files
    BY SetsAssumption DEF IInv, TypeOK
  <1>1. ASSUME NEW u \in Users, SameCall(u)
        PROVE  Calls'
    BY <1>0, <1>1 DEF Calls, SameCall
  <1>2. ASSUME NEW u \in Users, Returns(u), fstate' = fstate
        PROVE  Calls'
    BY <1>0, <1>2, IdleFields DEF Calls, Returns, DropPCs
  <1>3. ASSUME UNCHANGED <<usr, fstate>>
        PROVE  Calls'
    BY <1>0, <1>3 DEF Calls
  <1>4. ASSUME NEW u \in Users, FreeIndex(u)
        PROVE  Calls'
    <2>1. /\ usr[u].pc = "free" /\ Returns(u) /\ usr[u].file \in Files
          /\ fstate' = [fstate EXCEPT ![usr[u].file] = "freed"]
      BY <1>4, FreeIndexEffect
    <2>2. \A v \in Users : v # u /\ usr[v].pc # "idle" =>
              usr[v].file # usr[u].file /\ fstate'[usr[v].file] = fstate[usr[v].file]
      BY <1>0, <2>1 DEF Calls, DropPCs
    <2> QED
      BY <1>0, <2>1, <2>2, IdleFields DEF Calls, Returns, DropPCs
  <1>5. ASSUME NEW u \in Users, BeginRead(u) \/ BeginWrite(u) \/ BeginAppend(u)
        PROVE  Calls'
    BY <1>0, <1>5, BeginEffect DEF Calls, Starts, DropPCs
  <1>6. ASSUME NEW u \in Users, BeginDrop(u)
        PROVE  Calls'
    <2>1. PICK f \in Files :
             /\ fstate[f] = "live" /\ fstate' = [fstate EXCEPT ![f] = "dropping"]
             /\ \A v \in Users : usr[v].file = f => usr[v].pc = "idle"
             /\ \A v \in Users : v # u => usr'[v] = usr[v]
             /\ usr'[u].pc \in {"drop", "dropped"} /\ usr'[u].op = "drop"
             /\ usr'[u].file = f
      BY <1>6, BeginDropEffect
    <2>2. \A v \in Users : v # u /\ usr[v].pc # "idle" =>
              usr[v].file # f /\ fstate'[usr[v].file] = fstate[usr[v].file]
      BY <1>0, <2>1 DEF Calls
    <2>3. fstate'[f] = "dropping"
      BY <1>0, <2>1
    <2> QED
      BY <1>0, <2>1, <2>2, <2>3 DEF Calls, DropPCs
  <1>7. ASSUME NEW w \in Flushers, TakeJob(w) \/ LockQueue(w) \/ ScanQueue(w) \/ LockVictim(w)
                                   \/ poly_cache_evict(w)
        PROVE  UNCHANGED <<usr, fstate>>
    BY <1>7, TakeJobEffect, LockQueueEffect, ScanQueueEffect, LockVictimEffect, EvictEffect
  <1> QED
    BY <1>1, <1>2, <1>3, <1>4, <1>5, <1>6, <1>7, NextCases, SameCallStep, FreeEffect, ExitEffect

(* What a user's statement does to its part in dispatching and to the size. *)
SameRole(u) ==
    /\ \A v \in Users : v # u => usr'[v] = usr[v]
    /\ usr'[u].pc \in DispatchPCs => usr[u].pc \in DispatchPCs
    /\ indicator' = indicator

SizesKept(u) ==
    /\ \A v \in Users : v # u => usr'[v] = usr[v]
    /\ size >= 1 => size' >= 1
    /\ usr'[u].pc \in {"tas", "snap"} => size' >= 1
    /\ usr'[u].pc \in {"spin", "pick", "queue"} => usr'[u].snap >= 1
    /\ usr'[u].pc = "store" => usr'[u].snap \in Nodes \cup {0}

LEMMA RoleStep ==
    ASSUME IInv, NEW u \in Users,
           \/ Quiet(u) \/ LockNode(u) \/ AddCold(u) \/ poly_cache_admit(u) \/ CopyOut(u)
           \/ CopyIn(u) \/ MakeNode(u) \/ PickVictim(u) \/ EnqueueVictim(u) \/ DropNode(u)
           \/ FreeIndex(u) \/ BeginRead(u) \/ BeginWrite(u) \/ BeginAppend(u) \/ BeginDrop(u)
    PROVE  /\ SizesKept(u)
           /\ \/ SameRole(u)
              \/ /\ Returns(u) /\ indicator' = 1
              \/ /\ Returns(u) /\ usr[u].pc \in DispatchPCs
              \/ /\ indicator = 0 /\ indicator' = 1
                 /\ \A v \in Users : v # u => usr'[v] = usr[v]
  <1>0. /\ Sizes /\ IdleUser.pc = "idle" /\ size \in Nat
        /\ \A v \in Users : usr[v].snap \in Nat
    BY IdleFields DEF IInv, TypeOK
  <1>1. CASE Scanned(u)
    BY <1>0, <1>1, ScannedEffect DEF SizesKept, SameRole, Keeps, Becomes, Returns, DispatchPCs
  <1>2. CASE InsertNode(u)
    BY <1>0, <1>2, InsertNodeEffect DEF SizesKept, SameRole, Becomes, DispatchPCs
  <1>3. CASE SetSize(u)
    BY <1>0, <1>3, SetSizeEffect DEF SizesKept, SameRole, Keeps, Becomes, DispatchPCs
  <1>4. CASE StoreSize(u)
    BY <1>0, <1>4, StoreSizeEffect DEF SizesKept, SameRole, Keeps, Becomes, DispatchPCs
  <1>5. CASE CheckSize(u)
    BY <1>0, <1>5, CheckSizeEffect DEF SizesKept, SameRole, Keeps, Becomes, Returns, DispatchPCs
  <1>6. CASE TestAndSet(u)
    BY <1>0, <1>6, TestAndSetEffect DEF SizesKept, Sizes, Keeps, Becomes, Returns
  <1>7. CASE Snapshot(u)
    BY <1>0, <1>7, SnapshotEffect DEF SizesKept, Sizes, SameRole, Becomes, DispatchPCs
  <1>8. CASE LockCold(u)
    BY <1>0, <1>8, LockColdEffect DEF SizesKept, Sizes, SameRole, Keeps, Becomes, DispatchPCs
  <1>9. CASE ResetSize(u)
    BY <1>0, <1>9, ResetSizeEffect DEF SizesKept, SameRole, Keeps, Becomes, DispatchPCs
  <1>10. CASE Launch(u)
    BY <1>0, <1>10, LaunchEffect DEF SizesKept, Returns, DispatchPCs
  <1>11. CASE EndDrop(u)
    BY <1>0, <1>11, EndDropEffect DEF SizesKept, SameRole, Keeps, Becomes, DispatchPCs
  <1>12. CASE LockNode(u)
    BY <1>0, <1>12, LockNodeEffect DEF SizesKept, SameRole, Keeps, Becomes, DispatchPCs
  <1>13. CASE AddCold(u)
    BY <1>0, <1>13, AddColdEffect DEF SizesKept, SameRole, Keeps, Becomes, DispatchPCs
  <1>14. CASE poly_cache_admit(u)
    <2>1. Keeps(u, "copy") /\ size' >= size /\ indicator' = indicator /\ size' \in Nat
      BY <1>14, AdmitEffect DEF TypeOK
    <2> QED
      BY <1>0, <2>1 DEF SizesKept, SameRole, Keeps, Becomes, DispatchPCs
  <1>15. CASE CopyOut(u) \/ CopyIn(u)
    BY <1>0, <1>15, CopyEffect DEF SizesKept, SameRole, Becomes, DispatchPCs
  <1>16. CASE MakeNode(u)
    <2>1. /\ size' >= size /\ indicator' = indicator /\ size' \in Nat
          /\ usr'[u].pc \in {"link", "size"} /\ \A v \in Users : v # u => usr'[v] = usr[v]
      BY <1>16, MakeNodeEffect DEF TypeOK
    <2> QED
      BY <1>0, <2>1 DEF SizesKept, SameRole, DispatchPCs
  <1>17. CASE PickVictim(u)
    <2>1. /\ \A v \in Users : v # u => usr'[v] = usr[v]
          /\ usr[u].pc = "pick" /\ usr'[u].pc \in {"pick", "queue", "reset"}
          /\ usr'[u].snap = usr[u].snap /\ size' = size /\ indicator' = indicator
      BY <1>17, PickVictimEffect DEF Keeps, Becomes
    <2> QED
      BY <1>0, <2>1 DEF SizesKept, Sizes, SameRole, DispatchPCs
  <1>18. CASE EnqueueVictim(u)
    BY <1>0, <1>18, EnqueueVictimEffect DEF SizesKept, SameRole, Becomes, DispatchPCs
  <1>19. CASE DropNode(u)
    BY <1>0, <1>19, DropNodeEffect DEF SizesKept, SameRole, Becomes, DispatchPCs
  <1>20. CASE FreeIndex(u)
    BY <1>0, <1>20, FreeIndexEffect DEF SizesKept, SameRole, Returns, DispatchPCs
  <1>21. CASE BeginRead(u) \/ BeginWrite(u) \/ BeginAppend(u)
    BY <1>0, <1>21, BeginEffect DEF SizesKept, SameRole, Starts, DispatchPCs
  <1>22. CASE BeginDrop(u)
    BY <1>0, <1>22, BeginDropEffect DEF SizesKept, SameRole, DispatchPCs
  <1> QED
    BY <1>1, <1>2, <1>3, <1>4, <1>5, <1>6, <1>7, <1>8, <1>9, <1>10, <1>11, <1>12, <1>13,
       <1>14, <1>15, <1>16, <1>17, <1>18, <1>19, <1>20, <1>21, <1>22 DEF Quiet

(* Workers and the exit leave users, size and indicator alone. *)
LEMMA OtherSteps ==
    ASSUME IInv,
           \/ \E w \in Flushers : TakeJob(w) \/ LockQueue(w) \/ ScanQueue(w) \/ LockVictim(w)
                                  \/ poly_cache_evict(w)
           \/ poly_cache_free
           \/ ExitBegin \/ ExitWait \/ ExitEnd \/ UseFreedMemory \/ UNCHANGED vars
    PROVE  UNCHANGED <<usr, size, indicator, fstate, allocated>>
  BY TakeJobEffect, LockQueueEffect, ScanQueueEffect, LockVictimEffect, EvictEffect, FreeEffect,
     ExitEffect

LEMMA DispatchStep ==
    ASSUME IInv, [Next]_vars
    PROVE  OneDispatcher' /\ Sizes'
  <1>0. OneDispatcher /\ Sizes /\ IdleUser.pc = "idle"
    BY IdleFields DEF IInv
  <1>1. ASSUME NEW u \in Users, SizesKept(u)
        PROVE  Sizes'
    BY <1>0, <1>1 DEF Sizes, SizesKept
  <1>2. ASSUME NEW u \in Users, SameRole(u)
        PROVE  OneDispatcher'
    BY <1>0, <1>2 DEF OneDispatcher, SameRole
  <1>3. ASSUME NEW u \in Users, Returns(u), indicator' = 1
        PROVE  OneDispatcher'
    BY <1>0, <1>3 DEF OneDispatcher, Returns, DispatchPCs
  <1>4. ASSUME NEW u \in Users, Returns(u), usr[u].pc \in DispatchPCs
        PROVE  OneDispatcher'
    BY <1>0, <1>4 DEF OneDispatcher, Returns, DispatchPCs
  <1>5. ASSUME NEW u \in Users, indicator = 0, indicator' = 1,
               \A v \in Users : v # u => usr'[v] = usr[v]
        PROVE  OneDispatcher'
    BY <1>0, <1>5 DEF OneDispatcher
  <1>6. ASSUME UNCHANGED <<usr, size, indicator>>
        PROVE  OneDispatcher' /\ Sizes'
    BY <1>0, <1>6 DEF OneDispatcher, Sizes
  <1> QED
    BY <1>1, <1>2, <1>3, <1>4, <1>5, <1>6, NextCases, RoleStep, OtherSteps

LEMMA PhasesStep ==
    ASSUME IInv, [Next]_vars
    PROVE  Phases'
  <1>0. Phases
    BY DEF IInv
  <1>1. ASSUME NEW u \in Users, usr[u].pc # "idle" \/ phase = "run", phase' = phase
        PROVE  Phases'
    BY <1>0, <1>1 DEF Phases
  <1>2. ASSUME NEW w \in Flushers, fl[w].pc # "idle" \/ jobs # <<>>, UNCHANGED <<phase, usr>>
        PROVE  Phases'
    BY <1>0, <1>2 DEF Phases
  <1>3. ASSUME NEW u \in Users,
               Quiet(u) \/ LockNode(u) \/ AddCold(u) \/ poly_cache_admit(u) \/ CopyOut(u)
               \/ CopyIn(u) \/ MakeNode(u)
        PROVE  Phases'
    BY <1>1, <1>3, QuietEffect, LockNodeEffect, AddColdEffect, AdmitEffect, CopyEffect,
       MakeNodeEffect
  <1>4. ASSUME NEW u \in Users,
               PickVictim(u) \/ EnqueueVictim(u) \/ DropNode(u) \/ FreeIndex(u)
               \/ BeginRead(u) \/ BeginWrite(u) \/ BeginAppend(u) \/ BeginDrop(u)
        PROVE  Phases'
    BY <1>1, <1>4, PickVictimEffect, EnqueueVictimEffect, DropNodeEffect, FreeIndexEffect,
       BeginEffect, BeginDropEffect
  <1>5. ASSUME NEW w \in Flushers, TakeJob(w) \/ LockQueue(w) \/ ScanQueue(w) \/ LockVictim(w)
                                   \/ poly_cache_evict(w)
        PROVE  Phases'
    BY <1>2, <1>5, TakeJobEffect, LockQueueEffect, ScanQueueEffect, LockVictimEffect, EvictEffect
  <1>6. CASE poly_cache_free
    BY <1>0, <1>6, FreeEffect DEF Phases
  <1>7. CASE ExitBegin \/ ExitWait \/ ExitEnd \/ UseFreedMemory \/ UNCHANGED vars
    BY <1>0, <1>7, ExitEffect DEF Phases
  <1> QED
    BY <1>3, <1>4, <1>5, <1>6, <1>7, NextCases

(* A node that a lookup finds is found until the process ends. *)
LEMMA TreeGrows ==
    ASSUME NEW u \in Users, allocated \subseteq allocated',
           \A v \in Users : v # u => usr'[v] = usr[v],
           usr'[u].pc \in NewbornPCs =>
              \/ usr[u].pc \in NewbornPCs /\ usr'[u].cur = usr[u].cur
              \/ usr'[u].cur \notin allocated
    PROVE  Tree \subseteq Tree'
  BY DEF Tree, NewbornPCs

(* A statement that takes no new node in hand. *)
SameGrasp(u) ==
    /\ \A v \in Users : v # u => usr'[v] = usr[v]
    /\ allocated' = allocated
    /\ usr'[u].pc \in NewbornPCs => usr[u].pc \in NewbornPCs /\ usr'[u].cur = usr[u].cur
    /\ usr'[u].new \subseteq usr[u].new
    /\ usr'[u].pc \in AtNodePCs => usr'[u].cur \in usr'[u].todo
    /\ usr'[u].pc = "make" => usr'[u].new # {}
    /\ \/ usr'[u].new = {} /\ usr'[u].pc \notin ScanPCs \cup DropPCs \cup NewbornPCs
       \/ /\ usr'[u].file = usr[u].file /\ usr'[u].todo \subseteq usr[u].todo
          /\ usr'[u].pc \in ScanPCs => usr[u].pc \in ScanPCs
          /\ usr'[u].pc \in DropPCs => usr[u].pc \in DropPCs

LEMMA SameGraspStep ==
    ASSUME IInv, NEW u \in Users, SameGrasp(u)
    PROVE  Intervals'
  <1>1. Intervals /\ Grasp(u)
    BY DEF IInv, Intervals
  <1>2. Tree \subseteq Tree'
    BY TreeGrows DEF SameGrasp
  <1>3. Grasp(u)'
    <2>1. /\ usr'[u].pc \in AtNodePCs => usr'[u].cur \in usr'[u].todo
          /\ usr'[u].pc = "make" => usr'[u].new # {}
          /\ usr'[u].pc \in NewbornPCs =>
                usr'[u].cur \in allocated' /\ FileOf[usr'[u].cur] = usr'[u].file
      BY <1>1 DEF SameGrasp, Grasp
    <2>2. /\ usr'[u].pc \in ScanPCs => usr'[u].todo \subseteq Tree'
          /\ usr'[u].pc \in ScanPCs \cup DropPCs =>
                \A e \in usr'[u].todo : FileOf[e] = usr'[u].file
          /\ \A e \in usr'[u].new : FileOf[e] = usr'[u].file
      BY <1>1, <1>2 DEF SameGrasp, Grasp
    <2> QED
      BY <2>1, <2>2 DEF Grasp
  <1>4. ASSUME NEW v \in Users, v # u
        PROVE  Grasp(v)'
    <2>1. usr'[v] = usr[v] /\ allocated' = allocated /\ Grasp(v)
      BY <1>1, <1>4 DEF SameGrasp, Intervals
    <2> QED
      BY <1>2, <2>1 DEF Grasp
  <1>5. ASSUME NEW x \in Users, NEW y \in Users, x # y
        PROVE  usr'[x].pc \in NewbornPCs /\ usr'[y].pc \in NewbornPCs =>
                   usr'[x].cur # usr'[y].cur
    BY <1>1, <1>5 DEF SameGrasp, Intervals
  <1> QED
    BY <1>3, <1>4, <1>5 DEF Intervals

(* The statements of a call that make no node. *)
LEMMA GraspKept ==
    ASSUME IInv, NEW u \in Users,
           \/ Quiet(u) \/ LockNode(u) \/ AddCold(u) \/ poly_cache_admit(u) \/ CopyOut(u)
           \/ CopyIn(u) \/ PickVictim(u) \/ EnqueueVictim(u) \/ DropNode(u) \/ FreeIndex(u)
    PROVE  SameGrasp(u)
  <1>1. CASE Quiet(u)
    <2>1. CASE Returns(u)
      <3>1. usr[u].new \in SUBSET Nodes /\ allocated' = allocated
        BY <1>1, QuietEffect DEF IInv, TypeOK
      <3> QED
        BY <2>1, <3>1, IdleFields DEF SameGrasp, Returns, NewbornPCs, AtNodePCs, LockedPCs,
           ScanPCs, DropPCs
    <2>2. CASE ~ Returns(u)
      BY <1>1, <2>2, QuietEffect DEF SameGrasp, Becomes, NewbornPCs, AtNodePCs, LockedPCs,
         ScanPCs, DropPCs, QuietTo
    <2> QED
      BY <2>1, <2>2
  <1>2. CASE LockNode(u)
    <2>1. usr[u].pc = "lock" /\ usr[u].cur \in usr[u].todo
      BY <1>2, LockNodeEffect, CurIsNode DEF AtNodePCs
    <2> QED
      BY <1>2, <2>1, LockNodeEffect DEF SameGrasp, Keeps, Becomes, NewbornPCs, ScanPCs, DropPCs
  <1>3. CASE AddCold(u)
    <2>1. usr[u].pc = "cold" => usr[u].cur \in usr[u].todo
      BY CurIsNode DEF AtNodePCs, LockedPCs
    <2> QED
      BY <1>3, <2>1, AddColdEffect DEF SameGrasp, Keeps, Becomes, NewbornPCs, ScanPCs, DropPCs,
         AtNodePCs, LockedPCs
  <1>4. CASE poly_cache_admit(u)
    <2>1. usr[u].pc = "admit" /\ Keeps(u, "copy") /\ allocated' = allocated
      BY <1>4, AdmitEffect
    <2>2. usr[u].cur \in usr[u].todo
      BY <2>1, CurIsNode DEF AtNodePCs, LockedPCs
    <2> QED
      BY <2>1, <2>2 DEF SameGrasp, Keeps, Becomes, NewbornPCs, ScanPCs, DropPCs
  <1>5. CASE CopyOut(u) \/ CopyIn(u)
    BY <1>5, CopyEffect DEF SameGrasp, Becomes, NewbornPCs, ScanPCs, DropPCs, AtNodePCs, LockedPCs
  <1>6. CASE PickVictim(u)
    BY <1>6, PickVictimEffect DEF SameGrasp, Keeps, Becomes, NewbornPCs, ScanPCs, DropPCs,
       AtNodePCs, LockedPCs
  <1>7. CASE EnqueueVictim(u)
    BY <1>7, EnqueueVictimEffect DEF SameGrasp, Becomes, NewbornPCs, ScanPCs, DropPCs,
       AtNodePCs, LockedPCs
  <1>8. CASE DropNode(u)
    BY <1>8, DropNodeEffect DEF SameGrasp, Becomes, NewbornPCs, ScanPCs, DropPCs,
       AtNodePCs, LockedPCs
  <1>9. CASE FreeIndex(u)
    <2>1. Returns(u) /\ allocated' = allocated /\ usr[u].new \in SUBSET Nodes
      BY <1>9, FreeIndexEffect DEF IInv, TypeOK
    <2> QED
      BY <2>1, IdleFields DEF SameGrasp, Returns, NewbornPCs, AtNodePCs, LockedPCs,
         ScanPCs, DropPCs
  <1> QED
    BY <1>1, <1>2, <1>3, <1>4, <1>5, <1>6, <1>7, <1>8, <1>9

LEMMA IntervalsStep ==
    ASSUME IInv, [Next]_vars
    PROVE  Intervals'
  <1>0. Intervals /\ Calls
    BY DEF IInv
  <1>1. ASSUME NEW u \in Users, SameGrasp(u)
        PROVE  Intervals'
    BY <1>1, SameGraspStep
  <1>2. ASSUME NEW u \in Users, MakeNode(u)
        PROVE  Intervals'
    <2>1. CASE allocated' = allocated /\ Becomes(u, "size", usr[u].cur, usr[u].todo, {}, usr[u].snap)
      <3>1. SameGrasp(u)
        BY <2>1 DEF SameGrasp, Becomes, NewbornPCs, AtNodePCs, LockedPCs, ScanPCs, DropPCs
      <3> QED
        BY <3>1, SameGraspStep
    <2>2. CASE \E e \in usr[u].new :
                  /\ e \in Nodes \ allocated /\ allocated' = allocated \cup {e}
                  /\ Becomes(u, "link", e, usr[u].todo, usr[u].new \ {e}, usr[u].snap)
      <3>1. PICK e \in usr[u].new :
                  /\ e \in Nodes \ allocated /\ allocated' = allocated \cup {e}
                  /\ \A v \in Users : v # u => usr'[v] = usr[v]
                  /\ usr'[u].pc = "link" /\ usr'[u].cur = e /\ usr'[u].new = usr[u].new \ {e}
                  /\ usr'[u].file = usr[u].file
        BY <2>2 DEF Becomes
      <3>2. e \notin allocated /\ FileOf[e] = usr[u].file /\ Grasp(u)
        BY <1>0, <3>1 DEF Intervals, Grasp
      <3>3. Tree \subseteq Tree'
        BY <3>1, <3>2, TreeGrows
      <3>4. Grasp(u)'
        BY <3>1, <3>2 DEF Grasp, NewbornPCs, AtNodePCs, LockedPCs, ScanPCs, DropPCs
      <3>5. ASSUME NEW v \in Users, v # u
            PROVE  Grasp(v)' /\ (usr[v].pc \in NewbornPCs => usr[v].cur # e)
        <4>1. Grasp(v) /\ usr'[v] = usr[v]
          BY <1>0, <3>1, <3>5 DEF Intervals
        <4>2. Grasp(v)'
          BY <3>1, <3>3, <4>1 DEF Grasp
        <4> QED
          BY <3>2, <4>1, <4>2 DEF Grasp
      <3>6. ASSUME NEW x \in Users, NEW y \in Users, x # y
            PROVE  usr'[x].pc \in NewbornPCs /\ usr'[y].pc \in NewbornPCs =>
                   usr'[x].cur # usr'[y].cur
        BY <1>0, <3>1, <3>5, <3>6 DEF Intervals
      <3> QED
        BY <3>4, <3>5, <3>6 DEF Intervals
    <2> QED
      BY <1>2, <2>1, <2>2, MakeNodeEffect
  <1>3. ASSUME NEW u \in Users, BeginRead(u) \/ BeginWrite(u) \/ BeginAppend(u)
        PROVE  Intervals'
    <2>1. PICK f \in Files, S, N \in SUBSET Nodes :
             /\ S \subseteq Tree /\ \A e \in S : FileOf[e] = f
             /\ \A e \in N : FileOf[e] = f
             /\ \A v \in Users : v # u => usr'[v] = usr[v]
             /\ usr'[u].file = f /\ usr'[u].todo = S /\ usr'[u].new = N
             /\ usr'[u].pc = "scanned" \/ (usr'[u].pc = "lock" /\ usr'[u].cur \in S)
      <3>1. PICK o \in {"read", "write", "append"}, f \in Files, S, N \in SUBSET Nodes :
               Starts(u, o, f, S, N)
        BY <1>3, BeginEffect
      <3> QED
        BY <3>1 DEF Starts
    <2>2. allocated' = allocated
      BY <1>3, BeginEffect
    <2>3. Tree \subseteq Tree'
      BY <2>1, <2>2, TreeGrows DEF NewbornPCs
    <2>4. Grasp(u)'
      BY <2>1, <2>2, <2>3 DEF Grasp, NewbornPCs, AtNodePCs, LockedPCs, ScanPCs, DropPCs
    <2>5. ASSUME NEW v \in Users, v # u
          PROVE  Grasp(v)'
      <3>1. Grasp(v) /\ usr'[v] = usr[v]
        BY <1>0, <2>1, <2>5 DEF Intervals
      <3> QED
        BY <2>2, <2>3, <3>1 DEF Grasp
    <2>6. ASSUME NEW x \in Users, NEW y \in Users, x # y
          PROVE  usr'[x].pc \in NewbornPCs /\ usr'[y].pc \in NewbornPCs =>
                   usr'[x].cur # usr'[y].cur
      BY <1>0, <2>1, <2>6 DEF Intervals, NewbornPCs
    <2> QED
      BY <2>4, <2>5, <2>6 DEF Intervals
  <1>4. ASSUME NEW u \in Users, BeginDrop(u)
        PROVE  Intervals'
    <2>1. PICK f \in Files :
             /\ \A v \in Users : v # u => usr'[v] = usr[v]
             /\ usr'[u].pc \in {"drop", "dropped"} /\ usr'[u].file = f
             /\ usr'[u].new = usr[u].new /\ \A e \in usr'[u].todo : FileOf[e] = f
      BY <1>4, BeginDropEffect
    <2>2. allocated' = allocated /\ usr[u].new = {}
      BY <1>0, <1>4, BeginDropEffect, IdleFields DEF Calls
    <2>3. Tree \subseteq Tree'
      BY <2>1, <2>2, TreeGrows DEF NewbornPCs
    <2>4. Grasp(u)'
      BY <2>1, <2>2 DEF Grasp, NewbornPCs, AtNodePCs, LockedPCs, ScanPCs, DropPCs
    <2>5. ASSUME NEW v \in Users, v # u
          PROVE  Grasp(v)'
      <3>1. Grasp(v) /\ usr'[v] = usr[v]
        BY <1>0, <2>1, <2>5 DEF Intervals
      <3> QED
        BY <2>2, <2>3, <3>1 DEF Grasp
    <2>6. ASSUME NEW x \in Users, NEW y \in Users, x # y
          PROVE  usr'[x].pc \in NewbornPCs /\ usr'[y].pc \in NewbornPCs =>
                   usr'[x].cur # usr'[y].cur
      BY <1>0, <2>1, <2>6 DEF Intervals, NewbornPCs
    <2> QED
      BY <2>4, <2>5, <2>6 DEF Intervals
  <1>5. ASSUME UNCHANGED <<usr, allocated>>
        PROVE  Intervals'
    BY <1>0, <1>5 DEF Intervals, Grasp, Tree
  <1> QED
    BY <1>1, <1>2, <1>3, <1>4, <1>5, NextCases, GraspKept, OtherSteps

(* The two halves of Owners: what users and what workers hold. *)
UserOwns == \A u \in Users : usr[u].pc \in LockedPCs => lock[usr[u].cur] = u
WorkerOwns ==
    \A w \in Flushers :
        /\ fl[w].pc \in {"scan", "lock", "evict"} => qmutex[fl[w].q] = w
        /\ fl[w].pc \in {"lock", "evict"} => queue[fl[w].q] # <<>>
        /\ fl[w].pc = "evict" => lock[Head(queue[fl[w].q])] = w

LEMMA OwnersHalves == Owners <=> UserOwns /\ WorkerOwns
  BY DEF Owners, UserOwns, WorkerOwns

(* The head of a worker's queue is a node. *)
LEMMA HeadIsNode ==
    ASSUME IInv, NEW w \in Flushers, fl[w].pc \in {"lock", "evict"}
    PROVE  /\ fl[w].q \in Queues /\ queue[fl[w].q] \in Seq(Nodes) /\ queue[fl[w].q] # <<>>
           /\ Head(queue[fl[w].q]) \in Nodes
  <1>1. fl[w].q \in Queues /\ queue[fl[w].q] \in Seq(Nodes) /\ queue[fl[w].q] # <<>>
    BY DEF IInv, TypeOK, Owners
  <1> QED
    BY <1>1

LEMMA OwnersStep ==
    ASSUME IInv, [Next]_vars
    PROVE  Owners'
  <1>0. /\ UserOwns /\ WorkerOwns /\ None \notin Users /\ None \notin Flushers
        /\ Users \cap Flushers = {} /\ lock \in [Nodes -> Users \cup Flushers \cup {None}]
        /\ qmutex \in [Queues -> Flushers \cup {None}] /\ queue \in [Queues -> Seq(Nodes)]
        /\ \A w \in Flushers : fl[w].q \in Queues
    BY SetsAssumption, OwnersHalves DEF IInv, TypeOK
  <1>cur. \A v \in Users : usr[v].pc \in LockedPCs => usr[v].cur \in Nodes
    BY CurIsNode DEF AtNodePCs
  <1>head. \A w \in Flushers : fl[w].pc = "evict" => Head(queue[fl[w].q]) \in Nodes
    BY HeadIsNode
  <1>1. ASSUME NEW u \in Users, \A v \in Users : v # u => usr'[v] = usr[v], lock' = lock,
               usr'[u].pc \in LockedPCs => usr[u].pc \in LockedPCs /\ usr'[u].cur = usr[u].cur
        PROVE  UserOwns'
    BY <1>0, <1>1 DEF UserOwns
  <1>2. ASSUME UNCHANGED <<lock, queue, qmutex, fl>>
        PROVE  WorkerOwns'
    BY <1>0, <1>2 DEF WorkerOwns
  <1>3. ASSUME NEW u \in Users, Quiet(u)
        PROVE  UserOwns' /\ WorkerOwns'
    <2>1. /\ \A v \in Users : v # u => usr'[v] = usr[v]
          /\ usr'[u].pc \notin LockedPCs /\ UNCHANGED <<lock, queue, qmutex, fl>>
      BY <1>3, QuietEffect, IdleFields DEF Becomes, Returns, LockedPCs, QuietTo
    <2> QED
      BY <1>1, <1>2, <2>1
  <1>4. ASSUME NEW u \in Users, LockNode(u)
        PROVE  UserOwns' /\ WorkerOwns'
    <2>1. /\ usr[u].cur \in Nodes /\ lock[usr[u].cur] = None
          /\ lock' = [lock EXCEPT ![usr[u].cur] = u]
          /\ \A v \in Users : v # u => usr'[v] = usr[v]
          /\ usr'[u].cur = usr[u].cur /\ UNCHANGED <<queue, qmutex, fl>>
      BY <1>4, LockNodeEffect DEF Keeps, Becomes
    <2>2. \A x \in Nodes : lock[x] # None => lock'[x] = lock[x]
      BY <1>0, <2>1
    <2>3. lock'[usr[u].cur] = u
      BY <1>0, <2>1
    <2>4. UserOwns'
      BY <1>0, <1>cur, <2>1, <2>2, <2>3 DEF UserOwns
    <2>5. WorkerOwns'
      BY <1>0, <1>head, <2>1, <2>2 DEF WorkerOwns
    <2> QED
      BY <2>4, <2>5
  <1>5. ASSUME NEW u \in Users, AddCold(u)
        PROVE  UserOwns' /\ WorkerOwns'
    BY <1>1, <1>2, <1>5, AddColdEffect DEF Keeps, Becomes, LockedPCs
  <1>6. ASSUME NEW u \in Users, poly_cache_admit(u)
        PROVE  UserOwns' /\ WorkerOwns'
    <2>1. usr[u].pc = "admit" /\ Keeps(u, "copy") /\ UNCHANGED <<lock, queue, qmutex, fl>>
      BY <1>6, AdmitEffect
    <2> QED
      BY <1>1, <1>2, <2>1 DEF Keeps, Becomes, LockedPCs
  <1>7. ASSUME NEW u \in Users, CopyOut(u) \/ CopyIn(u)
        PROVE  UserOwns' /\ WorkerOwns'
    <2>1. /\ usr[u].pc = "copy" /\ usr[u].cur \in Nodes /\ lock[usr[u].cur] = u
          /\ lock' = [lock EXCEPT ![usr[u].cur] = None]
          /\ \A v \in Users : v # u => usr'[v] = usr[v]
          /\ usr'[u].pc \notin LockedPCs /\ UNCHANGED <<queue, qmutex, fl>>
      BY <1>0, <1>7, CopyEffect DEF Becomes, LockedPCs, UserOwns
    <2>2. \A x \in Nodes : lock[x] # u => lock'[x] = lock[x]
      BY <1>0, <2>1
    <2>3. UserOwns'
      BY <1>0, <1>cur, <2>1, <2>2 DEF UserOwns
    <2>4. WorkerOwns'
      BY <1>0, <1>head, <2>1, <2>2 DEF WorkerOwns
    <2> QED
      BY <2>3, <2>4
  <1>8. ASSUME NEW u \in Users, MakeNode(u)
        PROVE  UserOwns' /\ WorkerOwns'
    <2>1. /\ usr'[u].pc \in {"link", "size"} /\ \A v \in Users : v # u => usr'[v] = usr[v]
          /\ UNCHANGED <<lock, queue, qmutex, fl>>
      BY <1>8, MakeNodeEffect
    <2> QED
      BY <1>1, <1>2, <2>1 DEF LockedPCs
  <1>9. ASSUME NEW u \in Users, PickVictim(u)
        PROVE  UserOwns' /\ WorkerOwns'
    BY <1>1, <1>2, <1>9, PickVictimEffect DEF Keeps, Becomes, LockedPCs
  <1>10. ASSUME NEW u \in Users, EnqueueVictim(u)
         PROVE  UserOwns' /\ WorkerOwns'
    <2>1. /\ \A v \in Users : v # u => usr'[v] = usr[v]
          /\ usr'[u].pc \notin LockedPCs /\ UNCHANGED <<lock, qmutex, fl>>
      BY <1>10, EnqueueVictimEffect DEF Becomes, LockedPCs
    <2>2. \A r \in Queues : qmutex[r] # None => queue'[r] = queue[r]
      BY <1>0, <1>10, EnqueueVictimEffect
    <2>3. WorkerOwns'
      BY <1>0, <2>1, <2>2 DEF WorkerOwns
    <2> QED
      BY <1>1, <2>1, <2>3
  <1>11. ASSUME NEW u \in Users, DropNode(u)
         PROVE  UserOwns' /\ WorkerOwns'
    <2>1. /\ \A v \in Users : v # u => usr'[v] = usr[v]
          /\ usr'[u].pc \notin LockedPCs /\ UNCHANGED <<lock, queue, qmutex, fl>>
      BY <1>11, DropNodeEffect DEF Becomes, LockedPCs
    <2> QED
      BY <1>1, <1>2, <2>1
  <1>12. ASSUME NEW u \in Users, FreeIndex(u)
         PROVE  UserOwns' /\ WorkerOwns'
    BY <1>1, <1>2, <1>12, FreeIndexEffect, IdleFields DEF Returns, LockedPCs
  <1>13. ASSUME NEW u \in Users, BeginRead(u) \/ BeginWrite(u) \/ BeginAppend(u)
         PROVE  UserOwns' /\ WorkerOwns'
    <2>1. /\ \A v \in Users : v # u => usr'[v] = usr[v]
          /\ usr'[u].pc \notin LockedPCs /\ UNCHANGED <<lock, queue, qmutex, fl>>
      BY <1>13, BeginEffect DEF Starts, LockedPCs
    <2> QED
      BY <1>1, <1>2, <2>1
  <1>14. ASSUME NEW u \in Users, BeginDrop(u)
         PROVE  UserOwns' /\ WorkerOwns'
    <2>1. /\ \A v \in Users : v # u => usr'[v] = usr[v]
          /\ usr'[u].pc \notin LockedPCs /\ UNCHANGED <<lock, queue, qmutex, fl>>
      BY <1>14, BeginDropEffect DEF LockedPCs
    <2> QED
      BY <1>1, <1>2, <2>1
  <1>15. ASSUME UNCHANGED <<usr, lock>>
         PROVE  UserOwns'
    BY <1>0, <1>15 DEF UserOwns
  <1>16. ASSUME NEW w \in Flushers, TakeJob(w)
         PROVE  UserOwns' /\ WorkerOwns'
    <2>1. /\ \A x \in Flushers : x # w => fl'[x] = fl[x]
          /\ fl'[w].pc = "qlock" /\ UNCHANGED <<usr, lock, queue, qmutex>>
      BY <1>16, TakeJobEffect DEF WorkerBecomes
    <2> QED
      BY <1>0, <1>15, <2>1 DEF WorkerOwns
  <1>17. ASSUME NEW w \in Flushers, LockQueue(w)
         PROVE  UserOwns' /\ WorkerOwns'
    <2>1. /\ \A x \in Flushers : x # w => fl'[x] = fl[x]
          /\ fl'[w].pc = "scan" /\ fl'[w].q = fl[w].q /\ fl[w].q \in Queues
          /\ qmutex[fl[w].q] = None /\ qmutex' = [qmutex EXCEPT ![fl[w].q] = w]
          /\ UNCHANGED <<usr, lock, queue>>
      BY <1>17, LockQueueEffect DEF WorkerBecomes
    <2>2. qmutex'[fl[w].q] = w /\ \A r \in Queues : qmutex[r] # None => qmutex'[r] = qmutex[r]
      BY <1>0, <2>1
    <2> QED
      BY <1>0, <1>15, <2>1, <2>2 DEF WorkerOwns
  <1>18. ASSUME NEW w \in Flushers, ScanQueue(w)
         PROVE  UserOwns' /\ WorkerOwns'
    <2>0. /\ fl[w].pc = "scan" /\ fl[w].q \in Queues /\ qmutex[fl[w].q] = w
          /\ UNCHANGED <<usr, lock>>
      BY <1>0, <1>18, ScanQueueEffect DEF WorkerOwns
    <2>1. \A x \in Flushers : x # w /\ fl[x].pc \in {"scan", "lock", "evict"} =>
              fl[x].q # fl[w].q
      BY <1>0, <2>0 DEF WorkerOwns
    <2>2. CASE /\ qmutex' = [qmutex EXCEPT ![fl[w].q] = None] /\ queue' = queue
               /\ WorkerBecomes(w, "idle", 0)
      BY <1>0, <1>15, <2>0, <2>1, <2>2 DEF WorkerOwns, WorkerBecomes
    <2>3. CASE /\ queue' = [queue EXCEPT ![fl[w].q] = Tail(@)]
               /\ fl' = fl /\ qmutex' = qmutex
      <3>1. \A r \in Queues : r # fl[w].q => queue'[r] = queue[r]
        BY <1>0, <2>3
      <3> QED
        BY <1>0, <1>15, <2>0, <2>1, <2>3, <3>1 DEF WorkerOwns
    <2>4. CASE /\ queue[fl[w].q] # <<>> /\ queue' = queue /\ qmutex' = qmutex
               /\ WorkerBecomes(w, "lock", fl[w].q)
      BY <1>0, <1>15, <2>0, <2>4 DEF WorkerOwns, WorkerBecomes
    <2> QED
      BY <1>18, <2>2, <2>3, <2>4, ScanQueueEffect
  <1>19. ASSUME NEW w \in Flushers, LockVictim(w)
         PROVE  UserOwns' /\ WorkerOwns'
    <2>1. /\ \A x \in Flushers : x # w => fl'[x] = fl[x]
          /\ fl[w].pc = "lock" /\ fl'[w].pc = "evict" /\ fl'[w].q = fl[w].q
          /\ UNCHANGED <<usr, queue, qmutex>>
      BY <1>19, LockVictimEffect DEF WorkerBecomes
    <2>2. PICK e \in Nodes : /\ e = Head(queue[fl[w].q]) /\ lock[e] = None
                             /\ lock' = [lock EXCEPT ![e] = w]
      BY <1>19, LockVictimEffect
    <2>3. lock'[e] = w /\ \A x \in Nodes : lock[x] # None => lock'[x] = lock[x]
      BY <1>0, <2>2
    <2>4. UserOwns'
      BY <1>0, <1>cur, <2>1, <2>3 DEF UserOwns
    <2>5. WorkerOwns'
      BY <1>0, <1>head, <2>1, <2>2, <2>3 DEF WorkerOwns
    <2> QED
      BY <2>4, <2>5
  <1>20. ASSUME NEW w \in Flushers, poly_cache_evict(w)
         PROVE  UserOwns' /\ WorkerOwns'
    <2>1. /\ \A x \in Flushers : x # w => fl'[x] = fl[x]
          /\ fl[w].pc = "evict" /\ fl'[w].pc = "scan" /\ fl'[w].q = fl[w].q
          /\ fl[w].q \in Queues /\ queue' = [queue EXCEPT ![fl[w].q] = Tail(@)]
          /\ UNCHANGED <<usr, qmutex>>
      BY <1>20, EvictEffect DEF WorkerBecomes
    <2>2. PICK e \in Nodes : e = Head(queue[fl[w].q]) /\ lock' = [lock EXCEPT ![e] = None]
      BY <1>20, EvictEffect
    <2>3. lock[e] = w /\ \A x \in Nodes : lock[x] # w => lock'[x] = lock[x]
      BY <1>0, <2>1, <2>2 DEF WorkerOwns
    <2>4. /\ \A x \in Flushers : x # w /\ fl[x].pc \in {"scan", "lock", "evict"} =>
                fl[x].q # fl[w].q
          /\ \A r \in Queues : r # fl[w].q => queue'[r] = queue[r]
      BY <1>0, <2>1 DEF WorkerOwns
    <2>5. UserOwns'
      BY <1>0, <1>cur, <2>1, <2>3 DEF UserOwns
    <2>6. WorkerOwns'
      <3> SUFFICES ASSUME NEW x \in Flushers
                   PROVE  /\ fl'[x].pc \in {"scan", "lock", "evict"} => qmutex'[fl'[x].q] = x
                          /\ fl'[x].pc \in {"lock", "evict"} => queue'[fl'[x].q] # <<>>
                          /\ fl'[x].pc = "evict" => lock'[Head(queue'[fl'[x].q])] = x
        BY DEF WorkerOwns
      <3>1. CASE x = w
        BY <1>0, <2>1, <3>1 DEF WorkerOwns
      <3>2. CASE x # w
        <4>1. fl'[x] = fl[x] /\ fl[x].q \in Queues
          BY <1>0, <2>1, <3>2
        <4>2. fl[x].pc \in {"scan", "lock", "evict"} => queue'[fl[x].q] = queue[fl[x].q]
          BY <2>4, <3>2, <4>1
        <4> QED
          BY <1>0, <1>head, <2>1, <2>3, <3>2, <4>1, <4>2 DEF WorkerOwns
      <3> QED
        BY <3>1, <3>2
    <2> QED
      BY <2>5, <2>6
  <1>21. ASSUME poly_cache_free
         PROVE  UserOwns' /\ WorkerOwns'
    <2>1. phase = "free" /\ UNCHANGED <<usr, fl, lock, qmutex>>
      BY <1>21, FreeEffect
    <2>2. \A w \in Flushers : fl[w].pc = "idle"
      BY <2>1 DEF IInv, Phases
    <2> QED
      BY <1>15, <2>1, <2>2 DEF WorkerOwns
  <1>22. ASSUME ExitBegin \/ ExitWait \/ ExitEnd \/ UseFreedMemory \/ UNCHANGED vars
         PROVE  UserOwns' /\ WorkerOwns'
    BY <1>2, <1>15, <1>22, ExitEffect
  <1>23. UserOwns' /\ WorkerOwns'
    BY <1>3, <1>4, <1>5, <1>6, <1>7, <1>8, <1>9, <1>10, <1>11, <1>12, <1>13, <1>14, <1>16,
       <1>17, <1>18, <1>19, <1>20, <1>21, <1>22, NextCases
  <1> QED
    BY <1>23 DEF Owners, UserOwns, WorkerOwns

LEMMA HandsStep ==
    ASSUME IInv, [Next]_vars
    PROVE  Hands'
  <1>0. Hands /\ IdleUser.pc = "idle"
    BY IdleFields DEF IInv
  <1>1. ASSUME NEW u \in Users, \A v \in Users : v # u => usr'[v] = usr[v],
               usr'[u].pc = "queue" => usr'[u].cur # None
        PROVE  Hands'
    BY <1>0, <1>1 DEF Hands
  <1>2. ASSUME NEW u \in Users, Quiet(u) \/ FreeIndex(u)
        PROVE  Hands'
    BY <1>0, <1>1, <1>2, QuietEffect, FreeIndexEffect DEF Becomes, Returns, QuietTo
  <1>3. ASSUME NEW u \in Users, LockNode(u)
        PROVE  Hands'
    BY <1>1, <1>3, LockNodeEffect DEF Keeps, Becomes
  <1>4. ASSUME NEW u \in Users, AddCold(u)
        PROVE  Hands'
    BY <1>1, <1>4, AddColdEffect DEF Keeps, Becomes
  <1>5. ASSUME NEW u \in Users, poly_cache_admit(u)
        PROVE  Hands'
    <2>1. Keeps(u, "copy")
      BY <1>5, AdmitEffect
    <2> QED
      BY <1>1, <2>1 DEF Keeps, Becomes
  <1>6. ASSUME NEW u \in Users, CopyOut(u) \/ CopyIn(u)
        PROVE  Hands'
    BY <1>1, <1>6, CopyEffect DEF Becomes
  <1>7. ASSUME NEW u \in Users, MakeNode(u)
        PROVE  Hands'
    BY <1>1, <1>7, MakeNodeEffect
  <1>8. ASSUME NEW u \in Users, PickVictim(u)
        PROVE  Hands'
    <2>1. cold # <<>> => Head(cold) \in Nodes /\ Head(cold) # None
      BY SetsAssumption DEF IInv, TypeOK
    <2> QED
      BY <1>0, <1>1, <1>8, <2>1, PickVictimEffect DEF Keeps, Becomes, Hands
  <1>9. ASSUME NEW u \in Users, EnqueueVictim(u)
        PROVE  Hands'
    BY <1>1, <1>9, EnqueueVictimEffect DEF Becomes
  <1>10. ASSUME NEW u \in Users, DropNode(u)
         PROVE  Hands'
    BY <1>1, <1>10, DropNodeEffect DEF Becomes
  <1>11. ASSUME NEW u \in Users, BeginRead(u) \/ BeginWrite(u) \/ BeginAppend(u)
         PROVE  Hands'
    BY <1>1, <1>11, BeginEffect DEF Starts
  <1>12. ASSUME NEW u \in Users, BeginDrop(u)
         PROVE  Hands'
    BY <1>1, <1>12, BeginDropEffect
  <1>13. ASSUME usr' = usr
         PROVE  Hands'
    BY <1>0, <1>13 DEF Hands
  <1> QED
    BY <1>2, <1>3, <1>4, <1>5, <1>6, <1>7, <1>8, <1>9, <1>10, <1>11, <1>12, <1>13,
       NextCases, OtherSteps

(* A user that works on a node keeps it from being removed; one about to   *)
(* link it finds it unlinked, and is the only one about to.                *)
LEMMA CurKept ==
    ASSUME IInv, NEW u \in Users, usr[u].pc \in AtNodePCs \cup {"link"}
    PROVE  /\ usr[u].cur \in Nodes /\ usr[u].cur \in allocated /\ ~ node[usr[u].cur].removed
           /\ fstate[FileOf[usr[u].cur]] = "live"
  <1>1. /\ usr[u].cur \in Nodes /\ usr[u].cur \in allocated
        /\ fstate[FileOf[usr[u].cur]] = "live"
    <2>1. CASE usr[u].pc \in AtNodePCs
      BY <2>1, CurIsNode
    <2>2. CASE usr[u].pc = "link"
      BY <2>2 DEF IInv, Intervals, Grasp, NewbornPCs, TypeOK, Calls, DropPCs
    <2> QED
      BY <2>1, <2>2
  <1>2. node[usr[u].cur].removed \in BOOLEAN
    BY <1>1 DEF IInv, TypeOK
  <1> QED
    BY <1>1, <1>2 DEF IInv, Homes

LEMMA AwaitedUnlinked ==
    ASSUME IInv, NEW u \in Users, usr[u].pc \in {"cold", "link"}
    PROVE  /\ ~ Linked(usr[u].cur)
           /\ \A v \in Users : v # u /\ usr[v].pc \in {"cold", "link"} => usr[v].cur # usr[u].cur
  <1>1. usr[u].cur \in Nodes /\ ~ node[usr[u].cur].removed
    BY CurKept DEF AtNodePCs, LockedPCs
  <1>2. ~ Linked(usr[u].cur)
    BY <1>1 DEF IInv, Homes, Awaited
  <1>3. ASSUME NEW v \in Users, v # u, usr[v].pc \in {"cold", "link"}, usr[v].cur = usr[u].cur
        PROVE  FALSE
    <2>1. CASE usr[u].pc = "cold" /\ usr[v].pc = "cold"
      BY <1>3, <2>1 DEF IInv, Owners, LockedPCs
    <2>2. CASE usr[u].pc = "link" /\ usr[v].pc = "link"
      BY <1>3, <2>2 DEF IInv, Intervals, NewbornPCs
    <2>3. CASE usr[u].pc = "cold" /\ usr[v].pc = "link"
      <3>1. usr[u].cur \in Tree
        BY <2>3, CurIsNode DEF AtNodePCs, LockedPCs
      <3> QED
        BY <1>3, <2>3, <3>1 DEF Tree
    <2>4. CASE usr[u].pc = "link" /\ usr[v].pc = "cold"
      <3>1. usr[v].cur \in Tree
        BY <2>4, CurIsNode DEF AtNodePCs, LockedPCs
      <3> QED
        BY <1>3, <2>4, <3>1 DEF Tree
    <2> QED
      BY <1>3, <2>1, <2>2, <2>3, <2>4
  <1> QED
    BY <1>2, <1>3

(* Steps that change no list and take no node in hand. *)
LEMMA ListsFrame ==
    ASSUME IInv, UNCHANGED <<cold, queue>>, allocated \subseteq allocated',
           NEW u \in Users, \A v \in Users : v # u => usr'[v] = usr[v],
           usr[u].pc # "queue", usr'[u].pc # "queue"
    PROVE  Lists' /\ \A x \in Nodes : Handed(usr', x) <=> Handed(usr, x)
  <1>1. \A x \in Nodes : Handed(usr', x) <=> Handed(usr, x)
    BY DEF Handed
  <1>2. Lists
    BY DEF IInv
  <1> QED
    BY <1>1, <1>2 DEF Lists, Linked

LEMMA AwaitedFrame ==
    ASSUME NEW u \in Users, \A v \in Users : v # u => usr'[v] = usr[v],
           usr[u].pc \notin {"cold", "link"}, usr'[u].pc \notin {"cold", "link"}
    PROVE  \A x \in Nodes : Awaited(usr', x) <=> Awaited(usr, x)
  BY DEF Awaited

LEMMA SameUsers ==
    ASSUME usr' = usr
    PROVE  \A x \in Nodes : /\ Handed(usr', x) <=> Handed(usr, x)
                            /\ Awaited(usr', x) <=> Awaited(usr, x)
  BY DEF Handed, Awaited

(* The lists after each step that changes one, or the dispatcher's hand. *)
LEMMA AddColdLists ==
    ASSUME IInv, NEW u \in Users, AddCold(u)
    PROVE  /\ Lists'
           /\ \A x \in Nodes : /\ Linked(x)' <=> Linked(x) \/ x = usr[u].cur
                               /\ Awaited(usr', x) <=> Awaited(usr, x) /\ x # usr[u].cur
  <1> PICK e \in Nodes : e = usr[u].cur
    BY AddColdEffect
  <1>0. Lists /\ cold \in Seq(Nodes)
    BY DEF IInv, TypeOK
  <1>1. /\ usr[u].pc \in {"cold", "link"} /\ usr'[u].pc \in {"admit", "insert"}
        /\ \A v \in Users : v # u => usr'[v] = usr[v]
        /\ cold' = Append(cold, e) /\ UNCHANGED <<queue, allocated>>
    BY AddColdEffect DEF Keeps, Becomes
  <1>2. /\ ~ Linked(e) /\ e \in allocated
        /\ \A v \in Users : v # u /\ usr[v].pc \in {"cold", "link"} => usr[v].cur # e
    BY <1>1, AwaitedUnlinked, CurKept DEF AtNodePCs, LockedPCs
  <1>3. Once(cold') /\ \A x \in Nodes : Has(cold', x) <=> Has(cold, x) \/ x = e
    BY <1>0, <1>1, <1>2, AppendStep DEF Lists, Linked
  <1>4. \A x \in Nodes : Handed(usr', x) <=> Handed(usr, x)
    BY <1>1 DEF Handed
  <1>5. \A x \in Nodes : Awaited(usr', x) <=> Awaited(usr, x) /\ x # e
    BY <1>1, <1>2 DEF Awaited
  <1>6. Lists'
    BY <1>0, <1>1, <1>2, <1>3, <1>4 DEF Lists, Linked
  <1>7. \A x \in Nodes : Linked(x)' <=> Linked(x) \/ x = e
    BY <1>1, <1>3, <1>4 DEF Linked
  <1> QED
    BY <1>5, <1>6, <1>7

LEMMA PickVictimLists ==
    ASSUME IInv, NEW u \in Users, PickVictim(u)
    PROVE  /\ Lists'
           /\ \A x \in Nodes : Awaited(usr', x) <=> Awaited(usr, x)
           /\ \A x \in Nodes : ~ node[x].removed => (Linked(x)' <=> Linked(x))
  <1>0. Lists /\ cold \in Seq(Nodes) /\ OneDispatcher
    BY DEF IInv, TypeOK
  <1>1. /\ usr[u].pc = "pick" /\ UNCHANGED <<queue, allocated>>
        /\ \A v \in Users : v # u => usr'[v] = usr[v]
        /\ usr'[u].pc \in {"pick", "queue", "reset"}
    BY PickVictimEffect DEF Keeps, Becomes
  <1>2. \A x \in Nodes : Awaited(usr', x) <=> Awaited(usr, x)
    BY <1>1, AwaitedFrame
  <1>3. CASE cold' = cold /\ usr'[u].pc = "reset"
    <2>1. Lists' /\ \A x \in Nodes : Handed(usr', x) <=> Handed(usr, x)
      BY <1>1, <1>3, ListsFrame
    <2> QED
      BY <1>1, <1>2, <1>3, <2>1 DEF Linked
  <1>4. CASE cold # <<>> /\ cold' = Tail(cold) /\ usr' = usr /\ node[Head(cold)].removed
    <2>1. Once(cold') /\ \A x \in Nodes : Has(cold', x) <=> Has(cold, x) /\ x # Head(cold)
      BY <1>0, <1>4, TailStep DEF Lists
    <2>2. \A x \in Nodes : Handed(usr', x) <=> Handed(usr, x)
      BY <1>4, SameUsers
    <2>3. Lists'
      BY <1>0, <1>1, <2>1, <2>2 DEF Lists, Linked
    <2> QED
      BY <1>1, <1>2, <1>4, <2>1, <2>2, <2>3 DEF Linked
  <1>5. CASE cold # <<>> /\ cold' = Tail(cold) /\ usr'[u].pc = "queue" /\ usr'[u].cur = Head(cold)
    <2>1. /\ Once(cold') /\ Has(cold, Head(cold)) /\ Head(cold) \in Nodes
          /\ \A x \in Nodes : Has(cold', x) <=> Has(cold, x) /\ x # Head(cold)
      BY <1>0, <1>5, TailStep DEF Lists
    <2>2. \A x \in Nodes : Handed(usr', x) <=> x = Head(cold)
      <3>1. \A v \in Users : v # u => usr[v].pc # "queue"
        BY <1>0, <1>1 DEF OneDispatcher, DispatchPCs
      <3> QED
        BY <1>1, <1>5, <3>1 DEF Handed
    <2>3. \A x \in Nodes : ~ Handed(usr, x)
      BY <1>0, <1>1 DEF Handed, OneDispatcher, DispatchPCs
    <2>4. Lists'
      BY <1>0, <1>1, <2>1, <2>2 DEF Lists, Linked
    <2>5. \A x \in Nodes : Linked(x)' <=> Linked(x)
      BY <1>1, <2>1, <2>2, <2>3 DEF Linked
    <2> QED
      BY <1>2, <2>4, <2>5
  <1> QED
    BY <1>1, <1>3, <1>4, <1>5, PickVictimEffect DEF Keeps, Becomes

LEMMA EnqueueVictimLists ==
    ASSUME IInv, NEW u \in Users, EnqueueVictim(u)
    PROVE  /\ Lists'
           /\ \A x \in Nodes : Awaited(usr', x) <=> Awaited(usr, x)
           /\ \A x \in Nodes : Linked(x)' <=> Linked(x)
  <1>0. Lists /\ queue \in [Queues -> Seq(Nodes)] /\ OneDispatcher
    BY DEF IInv, TypeOK
  <1>1. /\ usr[u].pc = "queue" /\ usr[u].cur \in Nodes /\ UNCHANGED <<cold, allocated>>
        /\ \A v \in Users : v # u => usr'[v] = usr[v]
        /\ usr'[u].pc \in {"reset", "pick"}
    BY EnqueueVictimEffect DEF Becomes
  <1> PICK e \in Nodes : e = usr[u].cur
    BY <1>1
  <1>2. PICK q \in Queues : queue' = [queue EXCEPT ![q] = Append(queue[q], e)]
    BY EnqueueVictimEffect
  <1>3. \A v \in Users : v # u => usr[v].pc # "queue"
    BY <1>0, <1>1 DEF OneDispatcher, DispatchPCs
  <1>4. /\ \A x \in Nodes : ~ Handed(usr', x)
        /\ \A x \in Nodes : Handed(usr, x) <=> x = e
    BY <1>1, <1>3 DEF Handed
  <1>5. \A x \in Nodes : Awaited(usr', x) <=> Awaited(usr, x)
    BY <1>1, AwaitedFrame
  <1>6. ~ Has(cold, e) /\ ~ InQueues(queue, e) /\ e \in allocated
    BY <1>0, <1>4 DEF Lists, Linked
  <1>7. queue'[q] = Append(queue[q], e) /\ \A r \in Queues : r # q => queue'[r] = queue[r]
    BY <1>0, <1>2
  <1>8. /\ Once(queue'[q])
        /\ \A x \in Nodes : Has(queue'[q], x) <=> Has(queue[q], x) \/ x = e
    BY <1>0, <1>6, <1>7, AppendStep DEF Lists, InQueues
  <1>9. \A x \in Nodes : InQueues(queue', x) <=> InQueues(queue, x) \/ x = e
    BY <1>7, <1>8 DEF InQueues
  <1>10. /\ \A r \in Queues : Once(queue'[r])
         /\ \A r, s \in Queues, x \in Nodes : Has(queue'[r], x) /\ Has(queue'[s], x) => r = s
    BY <1>0, <1>6, <1>7, <1>8, ZenonT(60) DEF Lists, InQueues
  <1>11. Lists'
    BY <1>0, <1>1, <1>4, <1>6, <1>9, <1>10 DEF Lists, Linked
  <1>12. \A x \in Nodes : Linked(x)' <=> Linked(x)
    BY <1>1, <1>4, <1>9 DEF Linked
  <1> QED
    BY <1>5, <1>11, <1>12

(* A worker takes the head off its queue. *)
LEMMA UnqueueLists ==
    ASSUME IInv, NEW q \in Queues, queue[q] # <<>>,
           queue' = [queue EXCEPT ![q] = Tail(queue[q])], UNCHANGED <<cold, usr, allocated>>
    PROVE  /\ Lists' /\ Linked(Head(queue[q])) /\ Head(queue[q]) \in Nodes
           /\ \A x \in Nodes : Linked(x)' <=> Linked(x) /\ x # Head(queue[q])
  <1>0. Lists /\ queue \in [Queues -> Seq(Nodes)] /\ queue[q] \in Seq(Nodes)
    BY DEF IInv, TypeOK
  <1>1. queue'[q] = Tail(queue[q]) /\ \A r \in Queues : r # q => queue'[r] = queue[r]
    BY <1>0
  <1>2. /\ Once(queue'[q]) /\ Has(queue[q], Head(queue[q])) /\ Head(queue[q]) \in Nodes
        /\ \A x \in Nodes : Has(queue'[q], x) <=> Has(queue[q], x) /\ x # Head(queue[q])
    BY <1>0, <1>1, TailStep DEF Lists
  <1> PICK e \in Nodes : e = Head(queue[q])
    BY <1>2
  <1>3. \A x \in Nodes : InQueues(queue', x) <=> InQueues(queue, x) /\ x # e
    BY <1>0, <1>1, <1>2 DEF InQueues, Lists
  <1>4. /\ \A r \in Queues : Once(queue'[r])
        /\ \A r, s \in Queues, x \in Nodes : Has(queue'[r], x) /\ Has(queue'[s], x) => r = s
    BY <1>0, <1>1, <1>2 DEF Lists
  <1>5. Linked(e) /\ ~ Has(cold, e) /\ ~ Handed(usr, e)
    BY <1>0, <1>2 DEF Linked, Lists, InQueues
  <1>6. \A x \in Nodes : Handed(usr', x) <=> Handed(usr, x)
    BY SameUsers
  <1>7. Lists'
    BY <1>0, <1>3, <1>4, <1>6 DEF Lists, Linked
  <1>8. \A x \in Nodes : Linked(x)' <=> Linked(x) /\ x # e
    BY <1>3, <1>5, <1>6 DEF Linked
  <1> QED
    BY <1>2, <1>5, <1>7, <1>8

LEMMA FreeLists ==
    ASSUME IInv, NEW e \in Nodes, cold' = Unlinked(cold, e),
           queue' = [q \in Queues |-> Unlinked(queue[q], e)], UNCHANGED <<usr, allocated>>,
           \A u \in Users : usr[u].pc = "idle"
    PROVE  /\ Lists'
           /\ \A x \in Nodes : Linked(x)' <=> Linked(x) /\ x # e
  <1>0. /\ Lists /\ queue \in [Queues -> Seq(Nodes)] /\ cold \in Seq(Nodes)
    BY DEF IInv, TypeOK
  <1>1. Once(cold') /\ \A x \in Nodes : Has(cold', x) <=> Has(cold, x) /\ x # e
    BY <1>0, UnlinkedStep DEF Lists
  <1>2. \A q \in Queues :
           /\ Once(queue'[q])
           /\ \A x \in Nodes : Has(queue'[q], x) <=> Has(queue[q], x) /\ x # e
    <2> SUFFICES ASSUME NEW q \in Queues
                 PROVE  /\ Once(queue'[q])
                        /\ \A x \in Nodes : Has(queue'[q], x) <=> Has(queue[q], x) /\ x # e
      OBVIOUS
    <2>1. queue'[q] = Unlinked(queue[q], e) /\ queue[q] \in Seq(Nodes) /\ Once(queue[q])
      BY <1>0 DEF Lists
    <2> QED
      BY <2>1, UnlinkedStep
  <1>3. \A x \in Nodes : InQueues(queue', x) <=> InQueues(queue, x) /\ x # e
    BY <1>2 DEF InQueues
  <1>4. \A x \in Nodes : ~ Handed(usr', x) /\ ~ Handed(usr, x)
    BY DEF Handed
  <1>5. Lists'
    BY <1>0, <1>1, <1>2, <1>3, <1>4 DEF Lists, Linked
  <1>6. \A x \in Nodes : Linked(x)' <=> Linked(x) /\ x # e
    BY <1>1, <1>3, <1>4 DEF Linked
  <1> QED
    BY <1>5, <1>6

(* Steps that link no node, take none in hand and give none a buffer. *)
Plain(u) ==
    /\ \A v \in Users : v # u => usr'[v] = usr[v]
    /\ usr[u].pc \notin {"queue", "cold", "link"} /\ usr'[u].pc \notin {"queue", "cold", "link"}
    /\ UNCHANGED <<cold, queue, allocated>>

LEMMA PlainStep ==
    ASSUME IInv, NEW u \in Users,
           \/ Quiet(u) \/ poly_cache_admit(u) \/ CopyOut(u) \/ CopyIn(u) \/ DropNode(u)
           \/ FreeIndex(u) \/ BeginRead(u) \/ BeginWrite(u) \/ BeginAppend(u) \/ BeginDrop(u)
    PROVE  Plain(u)
  <1>1. CASE Quiet(u) \/ FreeIndex(u)
    BY <1>1, QuietEffect, FreeIndexEffect, IdleFields DEF Plain, Becomes, Returns, QuietTo
  <1>2. CASE poly_cache_admit(u)
    <2>1. usr[u].pc = "admit" /\ Keeps(u, "copy") /\ UNCHANGED <<cold, queue, allocated>>
      BY <1>2, AdmitEffect
    <2> QED
      BY <2>1 DEF Plain, Keeps, Becomes
  <1>3. CASE CopyOut(u) \/ CopyIn(u)
    BY <1>3, CopyEffect DEF Plain, Becomes
  <1>4. CASE DropNode(u)
    BY <1>4, DropNodeEffect DEF Plain, Becomes
  <1>5. CASE BeginRead(u) \/ BeginWrite(u) \/ BeginAppend(u)
    BY <1>5, BeginEffect DEF Plain, Starts
  <1>6. CASE BeginDrop(u)
    BY <1>6, BeginDropEffect DEF Plain
  <1> QED
    BY <1>1, <1>2, <1>3, <1>4, <1>5, <1>6

LEMMA PlainLists ==
    ASSUME IInv, NEW u \in Users, Plain(u)
    PROVE  /\ Lists'
           /\ \A x \in Nodes : /\ Linked(x)' <=> Linked(x)
                               /\ Awaited(usr', x) <=> Awaited(usr, x)
  <1>1. Lists' /\ \A x \in Nodes : Handed(usr', x) <=> Handed(usr, x)
    BY ListsFrame DEF Plain
  <1>2. \A x \in Nodes : Awaited(usr', x) <=> Awaited(usr, x)
    BY AwaitedFrame DEF Plain
  <1>3. \A x \in Nodes : Linked(x)' <=> Linked(x)
    BY <1>1 DEF Linked, Plain
  <1> QED
    BY <1>1, <1>2, <1>3

(* Steps that leave the lists and the users alone. *)
LEMMA StillLists ==
    ASSUME IInv, UNCHANGED <<cold, queue, usr, allocated>>
    PROVE  /\ Lists'
           /\ \A x \in Nodes : /\ Linked(x)' <=> Linked(x)
                               /\ Awaited(usr', x) <=> Awaited(usr, x)
  <1>1. \A x \in Nodes : /\ Handed(usr', x) <=> Handed(usr, x)
                         /\ Awaited(usr', x) <=> Awaited(usr, x)
    BY SameUsers
  <1>2. \A x \in Nodes : Linked(x)' <=> Linked(x)
    BY <1>1 DEF Linked
  <1>3. Lists'
    BY <1>1 DEF IInv, Lists, Linked
  <1> QED
    BY <1>1, <1>2, <1>3

(* Steps that give a node a buffer, or find that it has one. *)
LEMMA LockNodeLists ==
    ASSUME IInv, NEW u \in Users, LockNode(u)
    PROVE  /\ Lists'
           /\ \A x \in Nodes : Linked(x)' <=> Linked(x)
           /\ \A x \in Nodes : Awaited(usr', x) <=>
                                 \/ Awaited(usr, x)
                                 \/ node[usr[u].cur].buf = "null" /\ x = usr[u].cur
  <1>1. /\ UNCHANGED <<cold, queue, allocated>> /\ usr[u].pc = "lock"
        /\ \A v \in Users : v # u => usr'[v] = usr[v]
        /\ usr'[u].cur = usr[u].cur
        /\ \/ node[usr[u].cur].buf = "null" /\ usr'[u].pc = "cold"
           \/ node[usr[u].cur].buf # "null" /\ usr'[u].pc = "admit"
    BY LockNodeEffect DEF Keeps, Becomes
  <1>2. Lists' /\ \A x \in Nodes : Handed(usr', x) <=> Handed(usr, x)
    BY <1>1, ListsFrame
  <1>3. \A x \in Nodes : Linked(x)' <=> Linked(x)
    BY <1>1, <1>2 DEF Linked
  <1>4. \A x \in Nodes : Awaited(usr', x) <=>
                            Awaited(usr, x) \/ (node[usr[u].cur].buf = "null" /\ x = usr[u].cur)
    BY <1>1 DEF Awaited
  <1> QED
    BY <1>2, <1>3, <1>4

LEMMA MakeNodeLists ==
    ASSUME IInv, NEW u \in Users, MakeNode(u)
    PROVE  /\ Lists'
           /\ \A x \in Nodes : Linked(x)' <=> Linked(x)
           /\ \A x \in Nodes : Awaited(usr', x) <=>
                                 Awaited(usr, x) \/ (usr'[u].pc = "link" /\ x = usr'[u].cur)
  <1>1. /\ UNCHANGED <<cold, queue>> /\ usr[u].pc = "make" /\ allocated \subseteq allocated'
        /\ \A v \in Users : v # u => usr'[v] = usr[v]
        /\ usr'[u].pc \in {"link", "size"}
    BY MakeNodeEffect
  <1>2. Lists' /\ \A x \in Nodes : Handed(usr', x) <=> Handed(usr, x)
    BY <1>1, ListsFrame
  <1>3. \A x \in Nodes : Linked(x)' <=> Linked(x)
    BY <1>1, <1>2 DEF Linked
  <1>4. \A x \in Nodes : Awaited(usr', x) <=>
                            Awaited(usr, x) \/ (usr'[u].pc = "link" /\ x = usr'[u].cur)
    BY <1>1 DEF Awaited
  <1> QED
    BY <1>2, <1>3, <1>4

LEMMA ListsStep ==
    ASSUME IInv, [Next]_vars
    PROVE  Lists'
  <1>1. ASSUME NEW u \in Users,
               \/ Quiet(u) \/ poly_cache_admit(u) \/ CopyOut(u) \/ CopyIn(u) \/ DropNode(u)
               \/ FreeIndex(u) \/ BeginRead(u) \/ BeginWrite(u) \/ BeginAppend(u) \/ BeginDrop(u)
        PROVE  Lists'
    BY <1>1, PlainStep, PlainLists
  <1>2. ASSUME NEW u \in Users, LockNode(u) \/ AddCold(u) \/ MakeNode(u) \/ PickVictim(u)
                                \/ EnqueueVictim(u)
        PROVE  Lists'
    BY <1>2, LockNodeLists, AddColdLists, MakeNodeLists, PickVictimLists, EnqueueVictimLists
  <1>3. ASSUME NEW w \in Flushers, TakeJob(w) \/ LockQueue(w) \/ LockVictim(w)
        PROVE  Lists'
    <2>1. UNCHANGED <<cold, queue, usr, allocated>>
      BY <1>3, TakeJobEffect, LockQueueEffect, LockVictimEffect
    <2> QED
      BY <2>1, StillLists
  <1>4. ASSUME NEW w \in Flushers, ScanQueue(w) \/ poly_cache_evict(w)
        PROVE  Lists'
    <2>1. /\ UNCHANGED <<cold, usr, allocated>> /\ fl[w].q \in Queues
          /\ \/ queue' = queue
             \/ /\ queue[fl[w].q] # <<>>
                /\ queue' = [queue EXCEPT ![fl[w].q] = Tail(queue[fl[w].q])]
      BY <1>4, ScanQueueEffect, EvictEffect
    <2> QED
      BY <2>1, StillLists, UnqueueLists
  <1>5. CASE poly_cache_free
    <2>1. PICK e \in Nodes : /\ cold' = Unlinked(cold, e)
                             /\ queue' = [q \in Queues |-> Unlinked(queue[q], e)]
      BY <1>5, FreeEffect
    <2>2. UNCHANGED <<usr, allocated>> /\ \A u \in Users : usr[u].pc = "idle"
      BY <1>5, FreeEffect DEF IInv, Phases
    <2> QED
      BY <2>1, <2>2, FreeLists
  <1>6. CASE ExitBegin \/ ExitWait \/ ExitEnd \/ UseFreedMemory \/ UNCHANGED vars
    <2>1. UNCHANGED <<cold, queue, usr, allocated>>
      BY <1>6, ExitEffect
    <2> QED
      BY <2>1, StillLists
  <1> QED
    BY <1>1, <1>2, <1>3, <1>4, <1>5, <1>6, NextCases

(* The two halves of Homes: where nodes are, and what users rely on. *)
NodesHoused ==
    \A e \in Nodes :
        /\ node[e].removed => fstate[FileOf[e]] # "live"
        /\ ~ node[e].removed => (Linked(e) <=> node[e].buf # "null" /\ ~ Awaited(usr, e))
BuffersHeld ==
    \A u \in Users : usr[u].pc \in LockedPCs \cup {"link"} => node[usr[u].cur].buf # "null"

LEMMA HomesHalves == Homes <=> NodesHoused /\ BuffersHeld
  BY DEF Homes, NodesHoused, BuffersHeld

(* No buffer comes or goes, and no file becomes live. *)
SameBuffers ==
    \A x \in Nodes : /\ node'[x].buf = "null" <=> node[x].buf = "null"
                     /\ node'[x].removed = node[x].removed
                     /\ fstate'[FileOf[x]] = "live" => fstate[FileOf[x]] = "live"

LEMMA NodesHousedFrame ==
    ASSUME IInv, SameBuffers,
           \A x \in Nodes : ~ node[x].removed => (Linked(x)' <=> Linked(x)),
           \A x \in Nodes : Awaited(usr', x) <=> Awaited(usr, x)
    PROVE  NodesHoused'
  <1>1. NodesHoused
    BY HomesHalves DEF IInv
  <1> QED
    BY <1>1 DEF NodesHoused, SameBuffers

LEMMA BuffersHeldFrame ==
    ASSUME IInv, SameBuffers, NEW u \in Users, \A v \in Users : v # u => usr'[v] = usr[v],
           usr'[u].pc \in LockedPCs \cup {"link"} =>
              usr'[u].cur = usr[u].cur /\ usr[u].pc \in LockedPCs \cup {"link"}
    PROVE  BuffersHeld'
  <1>1. BuffersHeld
    BY HomesHalves DEF IInv
  <1>2. \A v \in Users : usr[v].pc \in LockedPCs \cup {"link"} => usr[v].cur \in Nodes
    BY CurKept DEF AtNodePCs
  <1> QED
    BY <1>1, <1>2 DEF BuffersHeld, SameBuffers

(* The steps that touch no node. *)
LEMMA QuietHomes ==
    ASSUME IInv, NEW u \in Users,
           \/ Quiet(u) \/ FreeIndex(u) \/ BeginRead(u) \/ BeginWrite(u) \/ BeginAppend(u)
           \/ BeginDrop(u)
    PROVE  Homes'
  <1>1. Plain(u)
    BY PlainStep
  <1>2. /\ \A x \in Nodes : Linked(x)' <=> Linked(x)
        /\ \A x \in Nodes : Awaited(usr', x) <=> Awaited(usr, x)
    BY <1>1, PlainLists
  <1>3. fstate \in [Files -> {"live", "dropping", "freed"}]
    BY DEF IInv, TypeOK
  <1>4. /\ node' = node /\ \A f \in Files : fstate'[f] = "live" => fstate[f] = "live"
        /\ usr'[u].pc \notin LockedPCs \cup {"link"}
    <2>1. CASE Quiet(u)
      BY <2>1, QuietEffect, IdleFields DEF Becomes, Returns, LockedPCs, QuietTo
    <2>2. CASE FreeIndex(u)
      BY <1>3, <2>2, FreeIndexEffect, IdleFields DEF Returns, LockedPCs
    <2>3. CASE BeginRead(u) \/ BeginWrite(u) \/ BeginAppend(u)
      BY <2>3, BeginEffect DEF Starts, LockedPCs
    <2>4. CASE BeginDrop(u)
      BY <1>3, <2>4, BeginDropEffect DEF LockedPCs
    <2> QED
      BY <2>1, <2>2, <2>3, <2>4
  <1>5. SameBuffers
    BY <1>4, SetsAssumption DEF SameBuffers
  <1>6. NodesHoused'
    BY <1>2, <1>5, NodesHousedFrame
  <1>7. BuffersHeld'
    BY <1>1, <1>4, <1>5, BuffersHeldFrame DEF Plain
  <1>8. (Homes <=> NodesHoused /\ BuffersHeld)'
    BY HomesHalves, PTL
  <1> QED
    BY <1>6, <1>7, <1>8

LEMMA LockNodeHomes ==
    ASSUME IInv, NEW u \in Users, LockNode(u)
    PROVE  Homes'
  <1>0. NodesHoused /\ BuffersHeld
    BY HomesHalves DEF IInv
  <1>1. usr[u].pc = "lock" /\ usr[u].cur \in Nodes
    BY LockNodeEffect
  <1> PICK e \in Nodes : e = usr[u].cur
    BY <1>1
  <1>2. /\ \A x \in Nodes : Linked(x)' <=> Linked(x)
        /\ \A x \in Nodes : Awaited(usr', x) <=>
                               Awaited(usr, x) \/ (node[e].buf = "null" /\ x = e)
    BY LockNodeLists
  <1>3. /\ \A v \in Users : v # u => usr'[v] = usr[v]
        /\ usr'[u].cur = e /\ usr'[u].pc \in {"cold", "admit"} /\ fstate' = fstate
    BY LockNodeEffect DEF Keeps, Becomes
  <1>4. /\ \A x \in Nodes : x # e => node'[x] = node[x]
        /\ node'[e].buf # "null" /\ node'[e].removed = node[e].removed
        /\ node[e].buf # "null" => node'[e] = node[e]
    BY LockNodeEffect DEF NodeBecomes
  <1>5. NodesHoused'
    BY <1>0, <1>2, <1>3, <1>4 DEF NodesHoused
  <1>6. \A v \in Users : usr[v].pc \in LockedPCs \cup {"link"} => usr[v].cur \in Nodes
    BY CurKept DEF AtNodePCs
  <1>7. BuffersHeld'
    BY <1>0, <1>3, <1>4, <1>6 DEF BuffersHeld
  <1>8. (Homes <=> NodesHoused /\ BuffersHeld)'
    BY HomesHalves, PTL
  <1> QED
    BY <1>5, <1>7, <1>8

LEMMA AddColdHomes ==
    ASSUME IInv, NEW u \in Users, AddCold(u)
    PROVE  Homes'
  <1>0. NodesHoused /\ BuffersHeld
    BY HomesHalves DEF IInv
  <1>1. /\ usr[u].cur \in Nodes /\ UNCHANGED <<node, fstate>> /\ usr[u].pc \in {"cold", "link"}
        /\ \A v \in Users : v # u => usr'[v] = usr[v]
        /\ usr'[u].cur = usr[u].cur
    BY AddColdEffect DEF Keeps, Becomes
  <1> PICK e \in Nodes : e = usr[u].cur
    BY <1>1
  <1>2. node[e].buf # "null"
    BY <1>0, <1>1 DEF BuffersHeld, LockedPCs
  <1>3. \A x \in Nodes : /\ Linked(x)' <=> Linked(x) \/ x = e
                         /\ Awaited(usr', x) <=> Awaited(usr, x) /\ x # e
    BY AddColdLists
  <1>4. NodesHoused'
    BY <1>0, <1>1, <1>2, <1>3 DEF NodesHoused
  <1>5. SameBuffers
    BY <1>1 DEF SameBuffers
  <1>6. BuffersHeld'
    BY <1>1, <1>5, BuffersHeldFrame DEF LockedPCs
  <1>7. (Homes <=> NodesHoused /\ BuffersHeld)'
    BY HomesHalves, PTL
  <1> QED
    BY <1>4, <1>6, <1>7

(* Admission and copy: the interval keeps the buffer it has. *)
LEMMA CopyHomes ==
    ASSUME IInv, NEW u \in Users, poly_cache_admit(u) \/ CopyOut(u) \/ CopyIn(u)
    PROVE  Homes'
  <1>0. NodesHoused /\ BuffersHeld
    BY HomesHalves DEF IInv
  <1>1. Plain(u) /\ usr[u].pc \in {"admit", "copy"} /\ usr[u].cur \in Nodes
        /\ fstate' = fstate
    BY PlainStep, AdmitEffect, CopyEffect
  <1> PICK e \in Nodes : e = usr[u].cur
    BY <1>1
  <1>2. node[e].buf # "null"
    BY <1>0, <1>1 DEF BuffersHeld, LockedPCs
  <1>3. /\ \A x \in Nodes : Linked(x)' <=> Linked(x)
        /\ \A x \in Nodes : Awaited(usr', x) <=> Awaited(usr, x)
    BY <1>1, PlainLists
  <1>4. usr'[u].pc \in LockedPCs \cup {"link"} => usr'[u].cur = usr[u].cur
    <2>1. CASE poly_cache_admit(u)
      <3>1. Keeps(u, "copy")
        BY <2>1, AdmitEffect
      <3> QED
        BY <3>1 DEF Keeps, Becomes
    <2>2. CASE CopyOut(u) \/ CopyIn(u)
      BY <2>2, CopyEffect DEF Becomes, LockedPCs
    <2> QED
      BY <2>1, <2>2
  <1>5. /\ \A x \in Nodes : x # e => node'[x] = node[x]
        /\ node'[e].buf # "null" /\ node'[e].removed = node[e].removed
    <2>1. CASE poly_cache_admit(u)
      <3>1. PICK b \in {"stale", "fresh"} :
              NodeBecomes(e, IF node[e].present THEN node[e].buf ELSE b, node[e].disk, TRUE,
                          node[e].dirty \/ usr[u].op # "read", node[e].removed)
        BY <2>1, AdmitEffect
      <3> QED
        BY <1>2, <3>1 DEF NodeBecomes
    <2>2. CASE CopyOut(u) \/ CopyIn(u)
      BY <1>2, <2>2, CopyEffect DEF NodeBecomes
    <2> QED
      BY <2>1, <2>2
  <1>6. SameBuffers
    BY <1>1, <1>2, <1>5 DEF SameBuffers
  <1>7. NodesHoused'
    BY <1>3, <1>6, NodesHousedFrame
  <1>8. BuffersHeld'
    BY <1>1, <1>4, <1>6, BuffersHeldFrame DEF Plain, LockedPCs
  <1>9. (Homes <=> NodesHoused /\ BuffersHeld)'
    BY HomesHalves, PTL
  <1> QED
    BY <1>7, <1>8, <1>9

LEMMA MakeNodeHomes ==
    ASSUME IInv, NEW u \in Users, MakeNode(u)
    PROVE  Homes'
  <1>0. NodesHoused /\ BuffersHeld /\ Lists
    BY HomesHalves DEF IInv
  <1>1. /\ fstate' = fstate /\ usr'[u].pc \in {"link", "size"}
        /\ \A v \in Users : v # u => usr'[v] = usr[v]
    BY MakeNodeEffect
  <1>2. /\ \A x \in Nodes : Linked(x)' <=> Linked(x)
        /\ \A x \in Nodes : Awaited(usr', x) <=>
                               Awaited(usr, x) \/ (usr'[u].pc = "link" /\ x = usr'[u].cur)
    BY MakeNodeLists
  <1>h. (Homes <=> NodesHoused /\ BuffersHeld)'
    BY HomesHalves, PTL
  <1>3. CASE node' = node /\ usr'[u].pc = "size"
    <2>1. SameBuffers
      BY <1>1, <1>3 DEF SameBuffers
    <2>2. NodesHoused'
      BY <1>2, <1>3, <2>1, NodesHousedFrame
    <2>3. BuffersHeld'
      BY <1>1, <1>3, <2>1, BuffersHeldFrame DEF LockedPCs
    <2> QED
      BY <1>h, <2>2, <2>3
  <1>4. CASE \E e \in usr[u].new : /\ e \in Nodes \ allocated /\ usr'[u].cur = e /\ usr'[u].pc = "link"
                                   /\ NodeBecomes(e, "fresh", "stale", TRUE, TRUE, FALSE)
    <2>1. PICK e \in usr[u].new : /\ e \in Nodes \ allocated /\ usr'[u].cur = e /\ usr'[u].pc = "link"
                                  /\ NodeBecomes(e, "fresh", "stale", TRUE, TRUE, FALSE)
      BY <1>4
    <2>2. /\ \A x \in Nodes : x # e => node'[x] = node[x]
          /\ node'[e].buf # "null" /\ node'[e].removed = FALSE
      BY <2>1 DEF NodeBecomes
    <2>3. ~ Linked(e)
      BY <1>0, <2>1 DEF Lists, IInv
    <2>4. NodesHoused'
      BY <1>0, <1>1, <1>2, <2>1, <2>2, <2>3 DEF NodesHoused
    <2>5. \A v \in Users : usr[v].pc \in LockedPCs \cup {"link"} => usr[v].cur \in Nodes
      BY CurKept DEF AtNodePCs
    <2>6. BuffersHeld'
      BY <1>0, <1>1, <2>1, <2>2, <2>5 DEF BuffersHeld
    <2> QED
      BY <1>h, <2>4, <2>6
  <1>5. \/ node' = node /\ usr'[u].pc = "size"
        \/ \E e \in usr[u].new : /\ e \in Nodes \ allocated /\ usr'[u].cur = e /\ usr'[u].pc = "link"
                                 /\ NodeBecomes(e, "fresh", "stale", TRUE, TRUE, FALSE)
    BY MakeNodeEffect DEF Becomes
  <1> QED
    BY <1>3, <1>4, <1>5

LEMMA DispatchHomes ==
    ASSUME IInv, NEW u \in Users, PickVictim(u) \/ EnqueueVictim(u)
    PROVE  Homes'
  <1>1. /\ UNCHANGED <<node, fstate>> /\ usr'[u].pc \notin LockedPCs \cup {"link"}
        /\ \A v \in Users : v # u => usr'[v] = usr[v]
    BY PickVictimEffect, EnqueueVictimEffect DEF Keeps, Becomes, LockedPCs
  <1>2. /\ \A x \in Nodes : ~ node[x].removed => (Linked(x)' <=> Linked(x))
        /\ \A x \in Nodes : Awaited(usr', x) <=> Awaited(usr, x)
    BY PickVictimLists, EnqueueVictimLists
  <1>3. SameBuffers
    BY <1>1 DEF SameBuffers
  <1>4. NodesHoused'
    BY <1>2, <1>3, NodesHousedFrame
  <1>5. BuffersHeld'
    BY <1>1, <1>3, BuffersHeldFrame
  <1>6. (Homes <=> NodesHoused /\ BuffersHeld)'
    BY HomesHalves, PTL
  <1> QED
    BY <1>4, <1>5, <1>6

(* A dropped node belongs to a file on which there is no call. *)
LEMMA DropNodeHomes ==
    ASSUME IInv, NEW u \in Users, DropNode(u)
    PROVE  Homes'
  <1>0. NodesHoused /\ BuffersHeld
    BY HomesHalves DEF IInv
  <1>1. Plain(u) /\ fstate' = fstate /\ usr[u].pc = "drop"
        /\ usr'[u].pc \notin LockedPCs \cup {"link"}
    BY PlainStep, DropNodeEffect DEF Becomes, LockedPCs
  <1>2. PICK e \in usr[u].todo :
          /\ e \in Nodes
          /\ NodeBecomes(e, "null", node[e].disk, node[e].present, node[e].dirty, TRUE)
    BY DropNodeEffect
  <1>3. /\ \A x \in Nodes : Linked(x)' <=> Linked(x)
        /\ \A x \in Nodes : Awaited(usr', x) <=> Awaited(usr, x)
    BY <1>1, PlainLists
  <1>4. fstate[FileOf[e]] # "live"
    BY <1>1 DEF IInv, Intervals, Grasp, Calls, DropPCs
  <1>5. /\ \A x \in Nodes : x # e => node'[x] = node[x]
        /\ node'[e].removed
    BY <1>2 DEF NodeBecomes
  <1>6. NodesHoused'
    BY <1>0, <1>1, <1>3, <1>4, <1>5 DEF NodesHoused
  <1>7. \A v \in Users : usr[v].pc \in LockedPCs \cup {"link"} =>
                            usr[v].cur \in Nodes /\ usr[v].cur # e
    BY <1>4, CurKept DEF AtNodePCs
  <1>8. BuffersHeld'
    BY <1>0, <1>1, <1>5, <1>7 DEF BuffersHeld, Plain
  <1>9. (Homes <=> NodesHoused /\ BuffersHeld)'
    BY HomesHalves, PTL
  <1> QED
    BY <1>6, <1>8, <1>9

(* The workers and the exit, when they evict nothing. *)
LEMMA StillHomes ==
    ASSUME IInv, UNCHANGED <<node, fstate, usr>>,
           \A x \in Nodes : ~ node[x].removed => (Linked(x)' <=> Linked(x))
    PROVE  Homes'
  <1>1. SameBuffers
    BY DEF SameBuffers
  <1>2. NodesHoused'
    BY <1>1, NodesHousedFrame, SameUsers
  <1>3. BuffersHeld'
    BY HomesHalves DEF IInv, BuffersHeld
  <1>4. (Homes <=> NodesHoused /\ BuffersHeld)'
    BY HomesHalves, PTL
  <1> QED
    BY <1>2, <1>3, <1>4

(* An eviction: nobody works on the interval. *)
LEMMA CleansHomes ==
    ASSUME IInv, NEW e \in Nodes, Cleans(e), UNCHANGED <<fstate, usr>>,
           \A x \in Nodes : Linked(x)' <=> Linked(x) /\ x # e,
           \A v \in Users : usr[v].pc \in LockedPCs \cup {"link"} => usr[v].cur # e
    PROVE  Homes'
  <1>0. NodesHoused /\ BuffersHeld
    BY HomesHalves DEF IInv
  <1>1. /\ \A x \in Nodes : x # e => node'[x] = node[x]
        /\ node'[e].buf = "null" /\ node'[e].removed = node[e].removed
    BY DEF Cleans, NodeBecomes
  <1>2. \A x \in Nodes : Awaited(usr', x) <=> Awaited(usr, x)
    BY SameUsers
  <1>3. NodesHoused'
    BY <1>0, <1>1, <1>2 DEF NodesHoused
  <1>4. \A v \in Users : usr[v].pc \in LockedPCs \cup {"link"} => usr[v].cur \in Nodes
    BY CurKept DEF AtNodePCs
  <1>5. BuffersHeld'
    BY <1>0, <1>1, <1>4 DEF BuffersHeld
  <1>6. (Homes <=> NodesHoused /\ BuffersHeld)'
    BY HomesHalves, PTL
  <1> QED
    BY <1>3, <1>5, <1>6

(* The victim of a worker is locked by the worker and is linked: no user   *)
(* has it in hand.                                                         *)
LEMMA VictimAlone ==
    ASSUME IInv, NEW w \in Flushers, fl[w].pc = "evict"
    PROVE  \A v \in Users : usr[v].pc \in LockedPCs \cup {"link"} =>
                               usr[v].cur # Head(queue[fl[w].q])
  <1>1. /\ lock[Head(queue[fl[w].q])] = w /\ Users \cap Flushers = {}
        /\ queue[fl[w].q] \in Seq(Nodes) /\ queue[fl[w].q] # <<>> /\ fl[w].q \in Queues
        /\ Once(queue[fl[w].q])
    BY SetsAssumption, HeadIsNode DEF IInv, Owners, Lists
  <1>2. \A v \in Users : usr[v].pc \in LockedPCs => lock[usr[v].cur] = v
    BY DEF IInv, Owners
  <1>3. Linked(Head(queue[fl[w].q]))
    BY <1>1, TailStep DEF Linked, InQueues
  <1>4. \A v \in Users : usr[v].pc = "link" => ~ Linked(usr[v].cur)
    BY AwaitedUnlinked
  <1> QED
    BY <1>1, <1>2, <1>3, <1>4

LEMMA EvictHomes ==
    ASSUME IInv, NEW w \in Flushers, poly_cache_evict(w)
    PROVE  Homes'
  <1>1. /\ fl[w].pc = "evict" /\ fl[w].q \in Queues /\ queue[fl[w].q] # <<>>
        /\ Head(queue[fl[w].q]) \in Nodes /\ Cleans(Head(queue[fl[w].q]))
        /\ UNCHANGED <<cold, allocated, fstate, usr>>
        /\ queue' = [queue EXCEPT ![fl[w].q] = Tail(queue[fl[w].q])]
    BY EvictEffect
  <1>2. \A x \in Nodes : Linked(x)' <=> Linked(x) /\ x # Head(queue[fl[w].q])
    BY <1>1, UnqueueLists
  <1> QED
    BY <1>1, <1>2, VictimAlone, CleansHomes

LEMMA HomesStep ==
    ASSUME IInv, [Next]_vars
    PROVE  Homes'
  <1>1. ASSUME NEW u \in Users,
               \/ Quiet(u) \/ FreeIndex(u) \/ BeginRead(u) \/ BeginWrite(u) \/ BeginAppend(u)
               \/ BeginDrop(u)
        PROVE  Homes'
    BY <1>1, QuietHomes
  <1>2. ASSUME NEW u \in Users,
               \/ LockNode(u) \/ AddCold(u) \/ poly_cache_admit(u) \/ CopyOut(u) \/ CopyIn(u)
               \/ MakeNode(u) \/ PickVictim(u) \/ EnqueueVictim(u) \/ DropNode(u)
        PROVE  Homes'
    BY <1>2, LockNodeHomes, AddColdHomes, CopyHomes, MakeNodeHomes, DispatchHomes, DropNodeHomes
  <1>3. ASSUME NEW w \in Flushers, TakeJob(w) \/ LockQueue(w) \/ LockVictim(w)
        PROVE  Homes'
    <2>1. UNCHANGED <<cold, queue, usr, allocated, node, fstate>>
      BY <1>3, TakeJobEffect, LockQueueEffect, LockVictimEffect
    <2> QED
      BY <2>1, StillLists, StillHomes
  <1>4. ASSUME NEW w \in Flushers, ScanQueue(w)
        PROVE  Homes'
    <2>1. /\ UNCHANGED <<cold, usr, allocated, node, fstate>> /\ fl[w].q \in Queues
          /\ \/ queue' = queue
             \/ /\ queue[fl[w].q] # <<>> /\ node[Head(queue[fl[w].q])].removed
                /\ queue' = [queue EXCEPT ![fl[w].q] = Tail(queue[fl[w].q])]
      BY <1>4, ScanQueueEffect
    <2>2. \A x \in Nodes : ~ node[x].removed => (Linked(x)' <=> Linked(x))
      BY <2>1, StillLists, UnqueueLists
    <2> QED
      BY <2>1, <2>2, StillHomes
  <1>5. ASSUME NEW w \in Flushers, poly_cache_evict(w)
        PROVE  Homes'
    BY <1>5, EvictHomes
  <1>6. CASE poly_cache_free
    <2>1. PICK e \in Nodes : /\ Cleans(e) /\ cold' = Unlinked(cold, e)
                             /\ queue' = [q \in Queues |-> Unlinked(queue[q], e)]
      BY <1>6, FreeEffect
    <2>2. UNCHANGED <<usr, allocated, fstate>> /\ \A u \in Users : usr[u].pc = "idle"
      BY <1>6, FreeEffect DEF IInv, Phases
    <2>3. \A x \in Nodes : Linked(x)' <=> Linked(x) /\ x # e
      BY <2>1, <2>2, FreeLists
    <2> QED
      BY <2>1, <2>2, <2>3, CleansHomes DEF LockedPCs
  <1>7. CASE ExitBegin \/ ExitWait \/ ExitEnd \/ UseFreedMemory \/ UNCHANGED vars
    <2>1. UNCHANGED <<cold, queue, usr, allocated, node, fstate>>
      BY <1>7, ExitEffect
    <2> QED
      BY <2>1, StillLists, StillHomes
  <1> QED
    BY <1>1, <1>2, <1>3, <1>4, <1>5, <1>6, <1>7, NextCases

-----------------------------------------------------------------------------
(* The content of intervals. *)

(* A node's record n holds the last write, as LastWriteKept says. *)
KeepsLast(n) ==
    /\ IF n.present THEN n.buf = "fresh" ELSE n.disk = "fresh"
    /\ n.disk = "stale" => n.present /\ n.dirty

CopyReady ==
    \A u \in Users : usr[u].pc = "copy" =>
        /\ node[usr[u].cur].present
        /\ usr[u].op # "read" => node[usr[u].cur].dirty

NodesKept ==
    /\ \A e \in allocated : ~ node[e].removed => KeepsLast(node[e])
    /\ \A e \in Nodes : node[e].dirty => node[e].present

(* Contents, with its parts named. *)
LEMMA ContentsParts == Contents <=> NodesKept /\ CopyReady
  BY DEF Contents, LastWriteKept, KeepsLast, CopyReady, NodesKept

(* A step that changes at most the node e, and at most the user u. *)
LEMMA ContentsFrame ==
    ASSUME IInv, Contents, NEW e \in Nodes, NEW u \in Users,
           \A x \in Nodes : x # e => node'[x] = node[x],
           allocated' \subseteq allocated \cup {e},
           e \in allocated' /\ ~ node'[e].removed => KeepsLast(node'[e]),
           node'[e].dirty => node'[e].present,
           \A v \in Users : v # u => usr'[v] = usr[v],
           \A v \in Users : v # u /\ usr[v].pc = "copy" /\ usr[v].cur = e =>
              (node[e].present => node'[e].present) /\ (node[e].dirty => node'[e].dirty),
           usr'[u].pc = "copy" =>
              /\ usr'[u].cur = e /\ node'[e].present
              /\ usr'[u].op # "read" => node'[e].dirty
    PROVE  Contents'
  <1>1. /\ \A x \in allocated : ~ node[x].removed => KeepsLast(node[x])
        /\ \A x \in Nodes : node[x].dirty => node[x].present
        /\ CopyReady
    BY ContentsParts DEF NodesKept
  <1>2. allocated \subseteq Nodes
    BY DEF IInv, TypeOK
  <1>3. \A x \in allocated' : ~ node'[x].removed => KeepsLast(node'[x])
    BY <1>1, <1>2
  <1>4. \A x \in Nodes : node'[x].dirty => node'[x].present
    BY <1>1
  <1>5. \A v \in Users : usr[v].pc = "copy" => usr[v].cur \in Nodes
    BY CurKept DEF AtNodePCs, LockedPCs
  <1>6. CopyReady'
    BY <1>1, <1>5 DEF CopyReady
  <1>7. (Contents <=> NodesKept /\ CopyReady)'
    BY ContentsParts, PTL
  <1>8. NodesKept'
    BY <1>3, <1>4 DEF KeepsLast, NodesKept
  <1> QED
    BY <1>6, <1>7, <1>8

(* A step that changes no node and lets no user begin to copy. *)
LEMMA ContentsStill ==
    ASSUME Contents, UNCHANGED <<node, allocated>>,
           \A v \in Users : usr'[v].pc = "copy" => usr'[v] = usr[v]
    PROVE  Contents'
  BY DEF Contents, LastWriteKept

(* What Contents says of an interval that a user works on. *)
LEMMA CurContents ==
    ASSUME IInv, Contents, NEW u \in Users, usr[u].pc \in AtNodePCs
    PROVE  /\ usr[u].cur \in Nodes /\ usr[u].cur \in allocated /\ ~ node[usr[u].cur].removed
           /\ KeepsLast(node[usr[u].cur]) /\ node[usr[u].cur] \in NodeRec
           /\ node[usr[u].cur].dirty => node[usr[u].cur].present
  <1>1. usr[u].cur \in Nodes /\ usr[u].cur \in allocated /\ ~ node[usr[u].cur].removed
    BY CurKept
  <1>2. node[usr[u].cur] \in NodeRec
    BY <1>1 DEF IInv, TypeOK, NodeRec
  <1> QED
    BY <1>1, <1>2, ContentsParts DEF NodesKept

LEMMA LockNodeContents ==
    ASSUME IInv, Contents, NEW u \in Users, LockNode(u)
    PROVE  Contents'
  <1>1. usr[u].pc = "lock" /\ allocated' = allocated
    BY LockNodeEffect
  <1>2. /\ usr[u].cur \in Nodes /\ usr[u].cur \in allocated /\ ~ node[usr[u].cur].removed
        /\ KeepsLast(node[usr[u].cur]) /\ node[usr[u].cur] \in NodeRec
        /\ node[usr[u].cur].dirty => node[usr[u].cur].present
    BY <1>1, CurContents DEF AtNodePCs
  <1> PICK e \in Nodes : e = usr[u].cur
    BY <1>2
  <1>3. \A v \in Users : v # u => usr'[v] = usr[v]
    BY LockNodeEffect DEF Keeps, Becomes
  <1>4. usr'[u].pc # "copy"
    BY LockNodeEffect DEF Keeps, Becomes
  <1>5. CASE node' = node
    BY <1>1, <1>3, <1>4, <1>5, ContentsStill
  <1>6. CASE /\ node[e].buf = "null"
             /\ NodeBecomes(e, "stale", node[e].disk, node[e].present, node[e].dirty,
                            node[e].removed)
    <2>1. ~ node[e].present /\ node[e].disk = "fresh"
      BY <1>2, <1>6 DEF KeepsLast
    <2>2. /\ \A x \in Nodes : x # e => node'[x] = node[x]
          /\ node'[e].disk = node[e].disk /\ node'[e].present = node[e].present
          /\ node'[e].dirty = node[e].dirty
      BY <1>6 DEF NodeBecomes
    <2>3. KeepsLast(node'[e])
      BY <2>1, <2>2 DEF KeepsLast
    <2>4. node'[e].dirty => node'[e].present
      BY <1>2, <2>2
    <2> QED
      BY <1>1, <1>3, <1>4, <2>2, <2>3, <2>4, ContentsFrame
  <1> QED
    BY <1>5, <1>6, LockNodeEffect

LEMMA AdmitContents ==
    ASSUME IInv, Contents, ~ IOErrors, NEW u \in Users, poly_cache_admit(u)
    PROVE  Contents'
  <1>1. usr[u].pc = "admit" /\ allocated' = allocated /\ Keeps(u, "copy")
    BY AdmitEffect
  <1>2. /\ usr[u].cur \in Nodes /\ KeepsLast(node[usr[u].cur]) /\ node[usr[u].cur] \in NodeRec
        /\ node[usr[u].cur].dirty => node[usr[u].cur].present
    BY <1>1, CurContents DEF AtNodePCs, LockedPCs
  <1> PICK e \in Nodes : e = usr[u].cur
    BY <1>2
  <1>3. NodeBecomes(e, IF node[e].present THEN node[e].buf ELSE node[e].disk, node[e].disk, TRUE,
                    node[e].dirty \/ usr[u].op # "read", node[e].removed)
    BY AdmitEffect
  <1>4. /\ \A x \in Nodes : x # e => node'[x] = node[x]
        /\ node'[e].buf = IF node[e].present THEN node[e].buf ELSE node[e].disk
        /\ node'[e].disk = node[e].disk /\ node'[e].present = TRUE
        /\ node'[e].dirty = (node[e].dirty \/ usr[u].op # "read")
    BY <1>3 DEF NodeBecomes
  <1>5. KeepsLast(node'[e])
    BY <1>2, <1>4 DEF KeepsLast
  <1>6. /\ \A v \in Users : v # u => usr'[v] = usr[v]
        /\ usr'[u].cur = e /\ usr'[u].op = usr[u].op
    BY <1>1 DEF Keeps, Becomes
  <1>7. node'[e].present /\ (node[e].dirty => node'[e].dirty)
        /\ (usr[u].op # "read" => node'[e].dirty)
    BY <1>4
  <1> QED
    BY <1>1, <1>4, <1>5, <1>6, <1>7, ContentsFrame

LEMMA CopyContents ==
    ASSUME IInv, Contents, NEW u \in Users, CopyOut(u) \/ CopyIn(u)
    PROVE  Contents'
  <1>1. usr[u].pc = "copy" /\ allocated' = allocated
    BY CopyEffect
  <1>2. /\ usr[u].cur \in Nodes /\ KeepsLast(node[usr[u].cur]) /\ node[usr[u].cur] \in NodeRec
        /\ node[usr[u].cur].dirty => node[usr[u].cur].present
    BY <1>1, CurContents DEF AtNodePCs, LockedPCs
  <1> PICK e \in Nodes : e = usr[u].cur
    BY <1>2
  <1>3. node[e].present /\ (usr[u].op # "read" => node[e].dirty)
    BY <1>1 DEF Contents
  <1>4. /\ \A v \in Users : v # u => usr'[v] = usr[v]
        /\ usr'[u].pc # "copy"
    BY CopyEffect DEF Becomes
  <1>5. CASE node' = node
    BY <1>1, <1>4, <1>5, ContentsStill
  <1>6. CASE /\ usr[u].op # "read"
             /\ NodeBecomes(e, node[e].buf, "stale", node[e].present, node[e].dirty,
                            node[e].removed)
    <2>1. /\ \A x \in Nodes : x # e => node'[x] = node[x]
          /\ node'[e].buf = node[e].buf /\ node'[e].present = node[e].present
          /\ node'[e].dirty = node[e].dirty
      BY <1>6 DEF NodeBecomes
    <2>2. KeepsLast(node'[e])
      BY <1>2, <1>3, <1>6, <2>1 DEF KeepsLast
    <2>3. node'[e].dirty => node'[e].present
      BY <1>3, <2>1
    <2> QED
      BY <1>1, <1>4, <2>1, <2>2, <2>3, ContentsFrame
  <1> QED
    BY <1>5, <1>6, CopyEffect

LEMMA MakeNodeContents ==
    ASSUME IInv, Contents, NEW u \in Users, MakeNode(u)
    PROVE  Contents'
  <1>1. /\ usr'[u].pc # "copy" /\ \A v \in Users : v # u => usr'[v] = usr[v]
        /\ \/ UNCHANGED <<node, allocated>>
           \/ \E e \in Nodes : /\ allocated' = allocated \cup {e}
                               /\ NodeBecomes(e, "fresh", "stale", TRUE, TRUE, FALSE)
    BY MakeNodeEffect
  <1>2. CASE UNCHANGED <<node, allocated>>
    BY <1>1, <1>2, ContentsStill
  <1>3. CASE \E e \in Nodes : /\ allocated' = allocated \cup {e}
                              /\ NodeBecomes(e, "fresh", "stale", TRUE, TRUE, FALSE)
    <2>1. PICK e \in Nodes : /\ allocated' = allocated \cup {e}
                             /\ NodeBecomes(e, "fresh", "stale", TRUE, TRUE, FALSE)
      BY <1>3
    <2>2. /\ \A x \in Nodes : x # e => node'[x] = node[x]
          /\ node'[e].present = TRUE /\ node'[e].dirty = TRUE /\ node'[e].buf = "fresh"
      BY <2>1 DEF NodeBecomes
    <2>3. KeepsLast(node'[e])
      BY <2>2 DEF KeepsLast
    <2> QED
      BY <1>1, <2>1, <2>2, <2>3, ContentsFrame
  <1> QED
    BY <1>1, <1>2, <1>3

LEMMA DropNodeContents ==
    ASSUME IInv, Contents, NEW u \in Users, DropNode(u)
    PROVE  Contents'
  <1>1. /\ usr'[u].pc # "copy" /\ \A v \in Users : v # u => usr'[v] = usr[v]
        /\ allocated' = allocated
    BY DropNodeEffect DEF Becomes
  <1>2. PICK e \in Nodes :
           NodeBecomes(e, "null", node[e].disk, node[e].present, node[e].dirty, TRUE)
    BY DropNodeEffect
  <1>3. /\ \A x \in Nodes : x # e => node'[x] = node[x]
        /\ node'[e].present = node[e].present /\ node'[e].dirty = node[e].dirty
        /\ node'[e].removed = TRUE
    BY <1>2 DEF NodeBecomes
  <1>4. node[e].dirty => node[e].present
    BY DEF Contents
  <1> QED
    BY <1>1, <1>3, <1>4, ContentsFrame

(* An eviction writes the last write to the device. *)
LEMMA CleansContents ==
    ASSUME IInv, Contents, ~ IOErrors, NEW e \in Nodes, Cleans(e), UNCHANGED <<usr, allocated>>,
           \A v \in Users : usr[v].pc = "copy" => usr[v].cur # e
    PROVE  Contents'
  <1>1. NodeBecomes(e, "null", IF node[e].dirty /\ node[e].buf # "null" THEN node[e].buf
                                ELSE node[e].disk, FALSE, FALSE, node[e].removed)
    BY DEF Cleans
  <1>2. /\ \A x \in Nodes : x # e => node'[x] = node[x]
        /\ node'[e].disk = IF node[e].dirty /\ node[e].buf # "null" THEN node[e].buf
                           ELSE node[e].disk
        /\ node'[e].present = FALSE /\ node'[e].dirty = FALSE
        /\ node'[e].removed = node[e].removed
    BY <1>1 DEF NodeBecomes
  <1>3. /\ e \in allocated /\ ~ node[e].removed => KeepsLast(node[e])
        /\ node[e].dirty => node[e].present
        /\ node[e].disk \in {"stale", "fresh"}
    BY ContentsParts DEF IInv, TypeOK, NodesKept
  <1>4. e \in allocated /\ ~ node[e].removed => KeepsLast(node'[e])
    BY <1>2, <1>3 DEF KeepsLast
  <1>5. /\ \A x \in allocated : ~ node[x].removed => KeepsLast(node[x])
        /\ \A x \in Nodes : node[x].dirty => node[x].present
        /\ CopyReady /\ allocated \subseteq Nodes
    BY ContentsParts DEF IInv, TypeOK, NodesKept
  <1>6. \A x \in allocated' : ~ node'[x].removed => KeepsLast(node'[x])
    BY <1>2, <1>4, <1>5
  <1>7. \A x \in Nodes : node'[x].dirty => node'[x].present
    BY <1>2, <1>5
  <1>8. \A v \in Users : usr[v].pc = "copy" => usr[v].cur \in Nodes
    BY CurKept DEF AtNodePCs, LockedPCs
  <1>9. CopyReady'
    BY <1>2, <1>5, <1>8 DEF CopyReady
  <1>10. (Contents <=> NodesKept /\ CopyReady)'
    BY ContentsParts, PTL
  <1>11. NodesKept'
    BY <1>6, <1>7 DEF KeepsLast, NodesKept
  <1> QED
    BY <1>9, <1>10, <1>11

LEMMA ContentsStep ==
    ASSUME IInv, Contents, ~ IOErrors, [Next]_vars
    PROVE  Contents'
  <1>1. ASSUME NEW u \in Users,
               \/ Quiet(u) \/ FreeIndex(u) \/ BeginRead(u) \/ BeginWrite(u) \/ BeginAppend(u)
               \/ BeginDrop(u)
        PROVE  Contents'
    <2>1. /\ usr'[u].pc # "copy" /\ UNCHANGED <<node, allocated>>
          /\ \A v \in Users : v # u => usr'[v] = usr[v]
      BY <1>1, QuietEffect, FreeIndexEffect, BeginEffect, BeginDropEffect, IdleFields
         DEF Becomes, Returns, QuietTo, Starts
    <2> QED
      BY <2>1, ContentsStill
  <1>2. ASSUME NEW u \in Users, AddCold(u) \/ PickVictim(u) \/ EnqueueVictim(u)
        PROVE  Contents'
    <2>1. /\ usr'[u].pc # "copy" /\ UNCHANGED <<node, allocated>>
          /\ \A v \in Users : v # u => usr'[v] = usr[v]
      BY <1>2, AddColdEffect, PickVictimEffect, EnqueueVictimEffect DEF Keeps, Becomes
    <2> QED
      BY <2>1, ContentsStill
  <1>3. ASSUME NEW u \in Users, LockNode(u) \/ poly_cache_admit(u) \/ CopyOut(u) \/ CopyIn(u)
                                \/ MakeNode(u) \/ DropNode(u)
        PROVE  Contents'
    BY <1>3, LockNodeContents, AdmitContents, CopyContents, MakeNodeContents, DropNodeContents
  <1>4. ASSUME NEW w \in Flushers, TakeJob(w) \/ LockQueue(w) \/ ScanQueue(w) \/ LockVictim(w)
        PROVE  Contents'
    <2>1. UNCHANGED <<node, allocated, usr>>
      BY <1>4, TakeJobEffect, LockQueueEffect, ScanQueueEffect, LockVictimEffect
    <2> QED
      BY <2>1, ContentsStill
  <1>5. ASSUME NEW w \in Flushers, poly_cache_evict(w)
        PROVE  Contents'
    <2>1. /\ fl[w].pc = "evict" /\ Head(queue[fl[w].q]) \in Nodes
          /\ Cleans(Head(queue[fl[w].q])) /\ UNCHANGED <<usr, allocated>>
      BY <1>5, EvictEffect
    <2>2. \A v \in Users : usr[v].pc = "copy" => usr[v].cur # Head(queue[fl[w].q])
      BY <2>1, VictimAlone DEF LockedPCs
    <2> QED
      BY <2>1, <2>2, CleansContents
  <1>6. CASE poly_cache_free
    <2>1. PICK e \in Nodes : Cleans(e)
      BY <1>6, FreeEffect
    <2>2. UNCHANGED <<usr, allocated>> /\ \A u \in Users : usr[u].pc = "idle"
      BY <1>6, FreeEffect DEF IInv, Phases
    <2> QED
      BY <2>1, <2>2, CleansContents
  <1>7. CASE ExitBegin \/ ExitWait \/ ExitEnd \/ UseFreedMemory \/ UNCHANGED vars
    <2>1. UNCHANGED <<node, allocated, usr>>
      BY <1>7, ExitEffect
    <2> QED
      BY <2>1, ContentsStill
  <1> QED
    BY <1>1, <1>2, <1>3, <1>4, <1>5, <1>6, <1>7, NextCases

-----------------------------------------------------------------------------
(* The invariant holds at the start and is kept by every step. *)

LEMMA InitTypes ==
    ASSUME Init
    PROVE  TypeOK
  <1>1. node \in [Nodes -> NodeRec]
    BY DEF Init, EmptyNode, NodeRec
  <1>2. usr \in [Users -> UserRec]
    <2>1. IdleUser \in UserRec
      BY DEF UserRec, IdleUser, UserPCs
    <2> QED
      BY <2>1 DEF Init
  <1>3. 0 \in Queues
    BY QueueAssumption DEF Queues
  <1>4. fl \in [Flushers -> FlushRec]
    BY <1>3 DEF Init, FlushRec
  <1>5. treelock \in [Files -> [readers : SUBSET Users, writer : Users \cup {None}]]
    BY DEF Init
  <1>6. /\ allocated \subseteq Nodes /\ isize \in [Files -> Nodes \cup {0}]
        /\ lock \in [Nodes -> Users \cup Flushers \cup {None}]
        /\ spin \in Users \cup {None} /\ qmutex \in [Queues -> Flushers \cup {None}]
    BY DEF Init
  <1>7. /\ cold \in Seq(Nodes) /\ queue \in [Queues -> Seq(Nodes)] /\ jobs \in Seq(Queues)
        /\ fstate \in [Files -> {"live", "dropping", "freed"}]
    BY DEF Init
  <1>8. /\ size \in Nat /\ indicator \in {0, 1}
        /\ phase \in {"run", "wait", "free", "done"} /\ ops \in 0 .. MaxOps
    BY SetsAssumption DEF Init
  <1>9. undefined \in BOOLEAN
    BY Zenon DEF Init
  <1> QED
    BY <1>1, <1>2, <1>4, <1>5, <1>6, <1>7, <1>8, <1>9 DEF TypeOK, NodeRec, UserRec, FlushRec

LEMMA InitInvariant ==
    ASSUME Init
    PROVE  IInv /\ Contents
  <1>0. TypeOK
    BY InitTypes
  <1>1. /\ \A u \in Users : usr[u] = IdleUser
        /\ \A u \in Users : /\ usr[u].pc = "idle" /\ usr[u].op = "read"
                            /\ usr[u].todo = {} /\ usr[u].new = {}
    BY IdleFields DEF Init
  <1>2. \A w \in Flushers : fl[w].pc = "idle"
    BY DEF Init
  <1>3. \A e \in Nodes : /\ node[e].removed = FALSE /\ node[e].buf = "null"
                         /\ node[e].dirty = FALSE
    BY DEF Init, EmptyNode
  <1>4. OneDispatcher /\ Sizes /\ Hands
    BY <1>1 DEF OneDispatcher, Sizes, Hands, DispatchPCs
  <1>5. Calls
    BY <1>1 DEF Calls, DropPCs
  <1>6. Intervals
    BY <1>1 DEF Intervals, Grasp, AtNodePCs, LockedPCs, ScanPCs, DropPCs, NewbornPCs
  <1>7. Phases /\ Owners
    BY <1>1, <1>2 DEF Init, Phases, Owners, LockedPCs
  <1>8. \A e \in Nodes : ~ Has(cold, e) /\ ~ InQueues(queue, e) /\ ~ Handed(usr, e)
    BY <1>1 DEF Init, Has, InQueues, Handed
  <1>9. Lists
    BY <1>8 DEF Init, Lists, Once, Linked, Has
  <1>10. Homes
    BY <1>1, <1>3, <1>8 DEF Homes, Linked, LockedPCs
  <1>11. Contents
    BY <1>1, <1>3 DEF Init, Contents, LastWriteKept
  <1> QED
    BY <1>0, <1>4, <1>5, <1>6, <1>7, <1>9, <1>10, <1>11 DEF IInv

LEMMA InvariantStep ==
    ASSUME IInv, [Next]_vars
    PROVE  IInv'
  <1>1. TypeOK'
    BY TypeStep
  <1>2. OneDispatcher' /\ Sizes'
    BY DispatchStep
  <1>3. Calls' /\ Phases' /\ Owners' /\ Hands'
    BY CallsStep, PhasesStep, OwnersStep, HandsStep
  <1>4. Intervals'
    BY IntervalsStep
  <1>5. Lists' /\ Homes'
    BY ListsStep, HomesStep
  <1> QED
    BY <1>1, <1>2, <1>3, <1>4, <1>5 DEF IInv

LEMMA InvariantHolds == Spec => []IInv
  <1>1. Init => IInv
    BY InitInvariant
  <1>2. IInv /\ [Next]_vars => IInv'
    BY InvariantStep
  <1> QED
    BY <1>1, <1>2, PTL DEF Spec

-----------------------------------------------------------------------------
(* What the invariant says about the properties. *)

LEMMA PlacesAre ==
    ASSUME NEW e, NEW x
    PROVE  x \in Places(e) <=>
              \/ \E i \in At(cold, e) : x = <<"cold", i>>
              \/ \E q \in Queues : \E i \in At(queue[q], e) : x = <<"queue", q, i>>
              \/ \E u \in Holding(e) : x = <<"hand", u>>
  BY DEF Places

LEMMA LinkedPlaces ==
    ASSUME NEW e \in Nodes
    PROVE  Places(e) # {} <=> Linked(e)
  <1>1. ASSUME Linked(e) PROVE Places(e) # {}
    <2>1. CASE Has(cold, e)
      <3>1. PICK i \in At(cold, e) : TRUE
        BY <2>1 DEF Has, At
      <3>2. <<"cold", i>> \in Places(e)
        BY PlacesAre
      <3> QED
        BY <3>2
    <2>2. CASE InQueues(queue, e)
      <3>1. PICK q \in Queues : \E i \in At(queue[q], e) : TRUE
        BY <2>2 DEF InQueues, Has, At
      <3>2. PICK i \in At(queue[q], e) : TRUE
        BY <3>1
      <3>3. <<"queue", q, i>> \in Places(e)
        BY PlacesAre
      <3> QED
        BY <3>3
    <2>3. CASE Handed(usr, e)
      <3>1. PICK u \in Holding(e) : TRUE
        BY <2>3 DEF Handed, Holding
      <3>2. <<"hand", u>> \in Places(e)
        BY PlacesAre
      <3> QED
        BY <3>2
    <2> QED
      BY <1>1, <2>1, <2>2, <2>3 DEF Linked
  <1>2. ASSUME NEW x \in Places(e) PROVE Linked(e)
    <2>1. CASE \E i \in At(cold, e) : x = <<"cold", i>>
      BY <2>1 DEF At, Linked, Has
    <2>2. CASE \E q \in Queues : \E i \in At(queue[q], e) : x = <<"queue", q, i>>
      BY <2>2 DEF At, Linked, InQueues, Has
    <2>3. CASE \E u \in Holding(e) : x = <<"hand", u>>
      BY <2>3 DEF Holding, Linked, Handed
    <2> QED
      BY <1>2, <2>1, <2>2, <2>3, PlacesAre
  <1> QED
    BY <1>1, <1>2

LEMMA OnePlace ==
    ASSUME IInv, NEW e \in Nodes, NEW x \in Places(e), NEW y \in Places(e)
    PROVE  x = y
  <1>0. Lists /\ OneDispatcher
    BY DEF IInv
  <1>1. ASSUME NEW z \in Places(e), Has(cold, e)
        PROVE  \E i \in At(cold, e) : z = <<"cold", i>>
    <2>1. ~ InQueues(queue, e) /\ ~ Handed(usr, e)
      BY <1>0, <1>1 DEF Lists
    <2>2. \A q \in Queues : At(queue[q], e) = {}
      BY <2>1 DEF InQueues, Has, At
    <2>3. Holding(e) = {}
      BY <2>1 DEF Handed, Holding
    <2> QED
      BY <1>1, <2>2, <2>3, PlacesAre
  <1>2. ASSUME NEW z \in Places(e), InQueues(queue, e)
        PROVE  \E q \in Queues : \E i \in At(queue[q], e) : z = <<"queue", q, i>>
    <2>1. ~ Has(cold, e) /\ ~ Handed(usr, e)
      BY <1>0, <1>2 DEF Lists
    <2>2. At(cold, e) = {} /\ Holding(e) = {}
      BY <2>1 DEF Has, At, Handed, Holding
    <2> QED
      BY <1>2, <2>2, PlacesAre
  <1>3. ASSUME NEW z \in Places(e), Handed(usr, e)
        PROVE  \E u \in Holding(e) : z = <<"hand", u>>
    <2>1. ~ Has(cold, e) /\ ~ InQueues(queue, e)
      BY <1>0, <1>3 DEF Lists
    <2>2. At(cold, e) = {} /\ \A q \in Queues : At(queue[q], e) = {}
      BY <2>1 DEF Has, At, InQueues
    <2> QED
      BY <1>3, <2>2, PlacesAre
  <1>4. CASE Has(cold, e)
    <2>1. \A i, j \in At(cold, e) : i = j
      BY <1>0 DEF Lists, Once, At
    <2> QED
      BY <1>1, <1>4, <2>1
  <1>5. CASE InQueues(queue, e)
    <2>1. \A q, r \in Queues : At(queue[q], e) # {} /\ At(queue[r], e) # {} => q = r
      BY <1>0 DEF Lists, Has, At
    <2>2. \A q \in Queues : \A i, j \in At(queue[q], e) : i = j
      BY <1>0 DEF Lists, Once, At
    <2>3. PICK q \in Queues : \E i \in At(queue[q], e) : x = <<"queue", q, i>>
      BY <1>2, <1>5
    <2>4. PICK r \in Queues : \E i \in At(queue[r], e) : y = <<"queue", r, i>>
      BY <1>2, <1>5
    <2>5. q = r
      BY <2>1, <2>3, <2>4
    <2> QED
      BY <2>2, <2>3, <2>4, <2>5
  <1>6. CASE Handed(usr, e)
    <2>1. \A u, v \in Holding(e) : u = v
      BY <1>0 DEF OneDispatcher, Holding, DispatchPCs
    <2> QED
      BY <1>3, <1>6, <2>1
  <1>7. Linked(e)
    BY LinkedPlaces
  <1> QED
    BY <1>4, <1>5, <1>6, <1>7 DEF Linked

LEMMA InvariantSingleHome ==
    ASSUME IInv
    PROVE  SingleHome
  <1>1. \A e \in Nodes : Linking(e) <=> Awaited(usr, e)
    BY DEF Linking, Awaited
  <1>2. \A e \in Nodes : ~ node[e].removed =>
                            (Linked(e) <=> node[e].buf # "null" /\ ~ Awaited(usr, e))
    BY DEF IInv, Homes
  <1> QED
    BY <1>1, <1>2, OnePlace, LinkedPlaces DEF SingleHome

(* A worker's victim is linked, so it has a buffer unless it is removed. *)
LEMMA InvariantEvictsBuffered ==
    ASSUME IInv
    PROVE  EvictsBuffered
  <1> SUFFICES ASSUME NEW w \in Flushers, fl[w].pc = "evict",
                      node[Head(queue[fl[w].q])].buf = "null"
               PROVE  node[Head(queue[fl[w].q])].removed
    BY DEF EvictsBuffered
  <1>1. /\ fl[w].q \in Queues /\ queue[fl[w].q] \in Seq(Nodes) /\ queue[fl[w].q] # <<>>
        /\ Once(queue[fl[w].q])
    BY HeadIsNode DEF IInv, Lists
  <1>2. Has(queue[fl[w].q], Head(queue[fl[w].q])) /\ Head(queue[fl[w].q]) \in Nodes
    BY <1>1, TailStep
  <1>3. Linked(Head(queue[fl[w].q]))
    BY <1>1, <1>2 DEF Linked, InQueues
  <1> QED
    BY <1>2, <1>3 DEF IInv, Homes

LEMMA InvariantNoLockCycle ==
    ASSUME IInv
    PROVE  NoLockCycle
  <1>1. \A u \in Users : usr[u].pc = "cold" => ~ InQueues(queue, usr[u].cur)
    BY AwaitedUnlinked DEF Linked
  <1> QED
    BY <1>1 DEF NoLockCycle, Queued, InQueues, Has, At

-----------------------------------------------------------------------------
(* Theorems. *)

(* Every variable keeps its type: in particular the dispatcher's local     *)
(* copy of the cache size never goes below zero, although it is            *)
(* decremented while others change the shared one.                         *)
THEOREM TypeCorrect == Spec => []TypeOK
  <1>1. IInv => TypeOK
    BY DEF IInv
  <1> QED
    BY <1>1, InvariantHolds, PTL

(* The test-and-set of the flushing indicator lets one thread dispatch at  *)
(* a time, for any number of users.                                        *)
THEOREM OneDispatcherAtATime == Spec => []OneDispatcher
  <1>1. IInv => OneDispatcher
    BY DEF IInv
  <1> QED
    BY <1>1, InvariantHolds, PTL

(* A node is never linked twice through its cache_lru field, and one that  *)
(* is not removed is linked exactly when it has a buffer: no buffer leaks  *)
(* out of reach of the flushing threads.                                   *)
THEOREM NodesHaveOneHome == Spec => []SingleHome
  <1>1. IInv => SingleHome
    BY InvariantSingleHome
  <1> QED
    BY <1>1, InvariantHolds, PTL

(* A worker that has its victim finds the buffer there, unless the file    *)
(* was unlinked between its test of the removed flag and its lock.         *)
THEOREM WorkersEvictBuffers == Spec => []EvictsBuffered
  <1>1. IInv => EvictsBuffered
    BY InvariantEvictsBuffered
  <1> QED
    BY <1>1, InvariantHolds, PTL

(* The circular lock order (interval, cold list, queue, interval) does not *)
(* deadlock: who waits for the cold list holds no interval on a queue.     *)
THEOREM LockCycleOpen == Spec => []NoLockCycle
  <1>1. IInv => NoLockCycle
    BY InvariantNoLockCycle
  <1> QED
    BY <1>1, InvariantHolds, PTL

(* As long as pread and pwrite succeed, the last write to an interval is   *)
(* in its buffer or on the device, and a device that is behind is known to *)
(* be.                                                                     *)
THEOREM NoWriteLost ==
    ASSUME ~ IOErrors
    PROVE  Spec => []LastWriteKept
  <1>1. Init => IInv /\ Contents
    BY InitInvariant
  <1>2. (IInv /\ Contents) /\ [Next]_vars => (IInv /\ Contents)'
    BY InvariantStep, ContentsStep
  <1>3. IInv /\ Contents => LastWriteKept
    BY DEF Contents
  <1> QED
    BY <1>1, <1>2, <1>3, PTL DEF Spec

(* As long as pread and pwrite succeed, a call copies from or into a       *)
(* buffer that holds every write so far, and holds the interval while it   *)
(* does.                                                                   *)
THEOREM CopiesAreFresh ==
    ASSUME ~ IOErrors
    PROVE  Spec => []CopyFresh
  <1>1. Init => IInv /\ Contents
    BY InitInvariant
  <1>2. (IInv /\ Contents) /\ [Next]_vars => (IInv /\ Contents)'
    BY InvariantStep, ContentsStep
  <1>3. IInv /\ Contents => CopyFresh
    <2> SUFFICES ASSUME IInv, Contents, NEW u \in Users, usr[u].pc = "copy"
                 PROVE  node[usr[u].cur].buf = "fresh" /\ lock[usr[u].cur] = u
      BY DEF CopyFresh
    <2>1. lock[usr[u].cur] = u
      BY DEF IInv, Owners, LockedPCs
    <2>2. KeepsLast(node[usr[u].cur])
      BY CurContents DEF AtNodePCs, LockedPCs
    <2>3. node[usr[u].cur].present
      BY DEF Contents
    <2> QED
      BY <2>1, <2>2, <2>3 DEF KeepsLast
  <1> QED
    BY <1>1, <1>2, <1>3, PTL DEF Spec

-----------------------------------------------------------------------------
(* What is on the devices after the exit. *)

(* The node e is in the range of a write or append that has still to set   *)
(* inode->size.                                                            *)
Growing(u, e) == usr[u].pc \in NewPCs /\ usr[u].file = FileOf[e] /\ e <= usr[u].end

(* Every node is within inode->size or will be when the call that made it  *)
(* has set it: the final write-back looks up no more than inode->size.     *)
SizesCover ==
    /\ \A u \in Users : \A e \in usr[u].new : e <= usr[u].end
    /\ \A e \in allocated : e <= isize[FileOf[e]] \/ \E u \in Users : Growing(u, e)

(* The final write-back leaves no buffer behind. *)
Flushed ==
    phase = "done" =>
        \A e \in allocated : fstate[FileOf[e]] = "live" => node[e].buf = "null"

(* No update of inode->size is lost: a write or append, which reads it and *)
(* stores it without a lock that keeps writes out, never stores less than  *)
(* it finds there.                                                         *)
SizeKept ==
    \A u \in Users : usr[u].pc = "store" =>
        isize[usr[u].file] <= Max({usr[u].snap, usr[u].end})

(* No call is about to make a second node for an interval. *)
FillsOnce == \A u \in Users : ~ MakesSecond(u)

LEMMA MaxIsBound ==
    ASSUME NEW a \in Nat, NEW b \in Nat
    PROVE  Max({a, b}) \in Nat /\ a <= Max({a, b}) /\ b <= Max({a, b})
  <1>1. \E x \in {a, b} : \A y \in {a, b} : x >= y
    OBVIOUS
  <1>2. Max({a, b}) \in {a, b} /\ \A y \in {a, b} : Max({a, b}) >= y
    BY <1>1 DEF Max
  <1> QED
    BY <1>2

(* The numbers a size is compared with. *)
LEMMA SizeNumbers ==
    ASSUME TypeOK
    PROVE  /\ Nodes \subseteq Nat /\ allocated \subseteq Nodes
           /\ \A e \in Nodes : FileOf[e] \in Files
           /\ \A f \in Files : isize[f] \in Nat
           /\ \A u \in Users : usr[u].end \in Nat /\ usr[u].new \subseteq Nodes
  <1>1. Nodes \cup {0} \subseteq Nat /\ \A e \in Nodes : FileOf[e] \in Files
    BY SetsAssumption
  <1>2. /\ allocated \subseteq Nodes
        /\ \A f \in Files : isize[f] \in Nodes \cup {0}
        /\ \A u \in Users : usr[u].end \in Nodes \cup {0} /\ usr[u].new \subseteq Nodes
    BY DEF TypeOK
  <1> QED
    BY <1>1, <1>2

(* A user that moves on keeps the range of its call, or the call returns. *)
SameRange(u) ==
    /\ \A v \in Users : v # u => usr'[v] = usr[v]
    /\ \/ usr'[u] = IdleUser
       \/ /\ usr'[u].end = usr[u].end /\ usr'[u].file = usr[u].file
          /\ usr'[u].new \subseteq usr[u].new
    /\ usr[u].pc \in NewPCs => usr'[u].pc \in NewPCs

LEMMA SizesFrame ==
    ASSUME IInv, SizesCover, NEW u \in Users, SameRange(u), UNCHANGED <<allocated, isize>>
    PROVE  SizesCover'
  <1>1. IdleUser.new = {} /\ IdleUser.pc \notin NewPCs
    BY IdleFields DEF NewPCs
  <1>2. \A v \in Users : \A e \in usr'[v].new : e <= usr'[v].end
    BY <1>1 DEF SizesCover, SameRange
  <1>3. \A e : \A v \in Users : Growing(v, e) => Growing(v, e)'
    BY <1>1 DEF Growing, SameRange
  <1> QED
    BY <1>2, <1>3 DEF SizesCover

LEMMA SizesStill ==
    ASSUME SizesCover, UNCHANGED <<allocated, isize, usr>>
    PROVE  SizesCover'
  BY DEF SizesCover, Growing

LEMMA GotoRange ==
    ASSUME TypeOK, NEW u \in Users, NEW p \in UserPCs, Goto(u, p),
           usr[u].pc \in NewPCs => p \in NewPCs
    PROVE  SameRange(u)
  <1>1. usr \in [Users -> UserRec] /\ usr[u] \in UserRec
    BY DEF TypeOK, UserRec
  <1>2. CASE p = "idle"
    BY <1>1, <1>2 DEF Goto, SameRange, NewPCs
  <1>3. CASE p # "idle"
    BY <1>1, <1>3 DEF Goto, SameRange, UserRec
  <1> QED
    BY <1>2, <1>3

(* The statements that change neither the index nor inode->size. *)
LEMMA GotoSizes ==
    ASSUME IInv, SizesCover, NEW u \in Users,
           LockNode(u) \/ AddCold(u) \/ poly_cache_admit(u) \/ Scanned(u) \/ CheckSize(u)
           \/ TestAndSet(u) \/ LockCold(u) \/ ResetSize(u) \/ Launch(u) \/ EndDrop(u)
           \/ FreeIndex(u)
    PROVE  SizesCover'
  <1>0. TypeOK
    BY DEF IInv
  <1>1. UNCHANGED <<allocated, isize>>
    BY DEF LockNode, AddCold, poly_cache_admit, Scanned, CheckSize, TestAndSet, LockCold,
           ResetSize, Launch, EndDrop, FreeIndex, index
  <1>2. \E p \in UserPCs : Goto(u, p) /\ (usr[u].pc \in NewPCs => p \in NewPCs)
    <2>1. CASE LockNode(u) \/ poly_cache_admit(u) \/ LockCold(u) \/ ResetSize(u) \/ Launch(u)
               \/ EndDrop(u) \/ FreeIndex(u)
      BY <2>1 DEF LockNode, poly_cache_admit, LockCold, ResetSize, Launch, EndDrop, FreeIndex,
                  UserAt, UserPCs, NewPCs, ScanPCs, DispatchPCs, DropPCs
    <2>2. CASE AddCold(u)
      <3>1. PICK p \in {"admit", "insert"} :
              Goto(u, p) /\ (usr[u].pc = "cold" \/ (usr[u].pc = "link" /\ p = "insert"))
        BY <2>2 DEF AddCold, UserAt
      <3> QED
        BY <3>1 DEF UserPCs, NewPCs, ScanPCs
    <2>3. CASE Scanned(u)
      <3>1. PICK p \in {"idle", "make", "size"} : Goto(u, p) /\ usr[u].pc = "scanned"
        BY <2>3 DEF Scanned, UserAt
      <3> QED
        BY <3>1 DEF UserPCs, NewPCs
    <2>4. CASE CheckSize(u) \/ TestAndSet(u)
      <3>1. PICK p \in {"idle", "tas", "snap"} : Goto(u, p) /\ usr[u].pc \in {"check", "tas"}
        BY <2>4 DEF CheckSize, TestAndSet, UserAt
      <3> QED
        BY <3>1 DEF UserPCs, NewPCs, DispatchPCs
    <2> QED
      BY <2>1, <2>2, <2>3, <2>4
  <1> QED
    BY <1>0, <1>1, <1>2, GotoRange, SizesFrame

(* The others that do not, one field or another of the user's record       *)
(* changed.                                                                *)
LEMMA MoveSizes ==
    ASSUME IInv, SizesCover, NEW u \in Users,
           CopyOut(u) \/ CopyIn(u) \/ InsertNode(u) \/ Snapshot(u) \/ PickVictim(u)
           \/ EnqueueVictim(u) \/ DropNode(u)
    PROVE  SizesCover'
  <1>0. TypeOK /\ usr \in [Users -> UserRec] /\ usr[u] \in UserRec
    BY DEF IInv, TypeOK, UserRec
  <1>1. UNCHANGED <<allocated, isize>>
    BY DEF CopyOut, CopyIn, InsertNode, Snapshot, PickVictim, EnqueueVictim, DropNode, index
  <1>2. CASE CopyOut(u) \/ CopyIn(u)
    <2>1. /\ usr' = [usr EXCEPT ![u] = Scan(@, @.todo \ {usr[u].cur})] /\ usr[u].pc = "copy"
      BY <1>2 DEF CopyOut, CopyIn, UserAt
    <2>2. PICK r : r = Scan(usr[u], usr[u].todo \ {usr[u].cur})
      OBVIOUS
    <2>3. r.end = usr[u].end /\ r.file = usr[u].file /\ r.new = usr[u].new
      BY <1>0, <2>2 DEF Scan, UserRec
    <2>4. SameRange(u)
      BY <1>0, <2>1, <2>2, <2>3 DEF SameRange, NewPCs
    <2> QED
      BY <1>1, <2>4, SizesFrame
  <1>3. CASE InsertNode(u)
    <2>1. SameRange(u)
      BY <1>0, <1>3 DEF InsertNode, UserAt, SameRange, NewPCs, UserRec
    <2> QED
      BY <1>1, <2>1, SizesFrame
  <1>4. CASE Snapshot(u)
    <2>1. SameRange(u)
      BY <1>0, <1>4 DEF Snapshot, UserAt, SameRange, NewPCs, UserRec
    <2> QED
      BY <1>1, <2>1, SizesFrame
  <1>5. CASE EnqueueVictim(u)
    <2>1. usr[u].pc = "queue"
      BY <1>5 DEF EnqueueVictim, UserAt
    <2>2. \E s, p : usr' = [usr EXCEPT ![u].cur = None, ![u].rr = @ + 1, ![u].snap = s,
                                      ![u].pc = p]
      BY <1>5, Zenon DEF EnqueueVictim
    <2>3. SameRange(u)
      BY <1>0, <2>1, <2>2 DEF SameRange, NewPCs, UserRec
    <2> QED
      BY <1>1, <2>3, SizesFrame
  <1>6. CASE DropNode(u)
    <2>1. usr[u].pc = "drop"
      BY <1>6 DEF DropNode, UserAt
    <2>2. PICK e : NextDrop(u, usr[u].todo \ {e})
      BY <1>6 DEF DropNode
    <2>3. PICK p \in {"dropped", "drop"} :
              usr' = [usr EXCEPT ![u].todo = usr[u].todo \ {e}, ![u].pc = p]
      BY <2>2 DEF NextDrop
    <2>4. SameRange(u)
      BY <1>0, <2>1, <2>3 DEF SameRange, NewPCs, UserRec
    <2> QED
      BY <1>1, <2>4, SizesFrame
  <1>7. CASE PickVictim(u)
    <2>1. usr[u].pc = "pick"
      BY <1>7 DEF PickVictim, UserAt
    <2>2. CASE Goto(u, "reset")
      <3>1. SameRange(u)
        BY <1>0, <2>1, <2>2, GotoRange DEF NewPCs, UserPCs, DispatchPCs
      <3> QED
        BY <1>1, <3>1, SizesFrame
    <2>3. CASE usr' = usr
      BY <1>1, <2>3, SizesStill
    <2>4. CASE usr' = [usr EXCEPT ![u].cur = Head(cold), ![u].pc = "queue"]
      <3>1. SameRange(u)
        BY <1>0, <2>1, <2>4 DEF SameRange, NewPCs, UserRec
      <3> QED
        BY <1>1, <3>1, SizesFrame
    <2> QED
      BY <1>7, <2>2, <2>3, <2>4 DEF PickVictim
  <1> QED
    BY <1>2, <1>3, <1>4, <1>5, <1>6, <1>7

(* A new node is within the range of the call that makes it. *)
LEMMA MakeNodeSizes ==
    ASSUME IInv, SizesCover, NEW u \in Users, MakeNode(u)
    PROVE  SizesCover'
  <1>0. TypeOK /\ usr \in [Users -> UserRec] /\ usr[u] \in UserRec /\ usr[u].new \in SUBSET Nodes
    BY DEF IInv, TypeOK, UserRec
  <1>1. /\ usr[u].pc = "make" /\ usr[u].new # {} /\ isize' = isize
        /\ \A e \in usr[u].new : FileOf[e] = usr[u].file
    BY DEF MakeNode, UserAt, IInv, Intervals, Grasp
  <1>2. PICK x \in usr[u].new : x = Min(usr[u].new)
    BY <1>0, <1>1, MinNode
  <1>3. CASE allocated' = allocated /\ usr' = [usr EXCEPT ![u].new = {}, ![u].pc = "size"]
    <2>1. SameRange(u)
      BY <1>0, <1>3 DEF SameRange, NewPCs, UserRec
    <2> QED
      BY <1>1, <1>3, <2>1, SizesFrame
  <1>4. CASE /\ allocated' = allocated \cup {x}
             /\ usr' = [usr EXCEPT ![u].cur = x, ![u].new = @ \ {x}, ![u].pc = "link"]
    <2>1. /\ \A v \in Users : v # u => usr'[v] = usr[v]
          /\ usr'[u].end = usr[u].end /\ usr'[u].file = usr[u].file
          /\ usr'[u].new \subseteq usr[u].new /\ usr'[u].pc = "link"
      BY <1>0, <1>4 DEF UserRec
    <2>2. \A v \in Users : \A e \in usr'[v].new : e <= usr'[v].end
      BY <2>1 DEF SizesCover
    <2>3. \A e : \A v \in Users : Growing(v, e) => Growing(v, e)'
      BY <2>1 DEF Growing, NewPCs
    <2>4. Growing(u, x)'
      BY <1>1, <1>2, <2>1 DEF Growing, NewPCs, SizesCover
    <2> QED
      BY <1>1, <1>4, <2>2, <2>3, <2>4 DEF SizesCover
  <1> QED
    BY <1>2, <1>3, <1>4 DEF MakeNode

(* inode->size is set: it covers the call's range, and what it covered     *)
(* before.                                                                 *)
LEMMA SizesGrow ==
    ASSUME IInv, SizesCover, NEW u \in Users, Goto(u, "check"), usr[u].file \in Files,
           NEW m \in Nat, isize[usr[u].file] <= m, usr[u].end <= m,
           isize' = [isize EXCEPT ![usr[u].file] = m], allocated' = allocated
    PROVE  SizesCover'
  <1>0. /\ TypeOK /\ usr \in [Users -> UserRec] /\ usr[u] \in UserRec
        /\ isize \in [Files -> Nodes \cup {0}]
    BY DEF IInv, TypeOK, UserRec
  <1>1. /\ \A v \in Users : v # u => usr'[v] = usr[v]
        /\ usr'[u].end = usr[u].end /\ usr'[u].new = usr[u].new
    BY <1>0 DEF Goto, UserRec
  <1>2. \A v \in Users : \A e \in usr'[v].new : e <= usr'[v].end
    BY <1>1 DEF SizesCover
  <1> PICK f \in Files : f = usr[u].file
    OBVIOUS
  <1>3. isize'[f] = m /\ \A g \in Files : g # f => isize'[g] = isize[g]
    BY <1>0
  <1>4. ASSUME NEW e \in allocated
        PROVE  e <= isize'[FileOf[e]] \/ \E v \in Users : Growing(v, e)'
    <2>0. e \in Nat /\ FileOf[e] \in Files /\ isize[FileOf[e]] \in Nat /\ usr[u].end \in Nat
      BY <1>0, <1>4, SizeNumbers
    <2>1. CASE e <= isize[FileOf[e]]
      <3>1. CASE FileOf[e] = f
        BY <1>3, <2>0, <2>1, <3>1
      <3>2. CASE FileOf[e] # f
        BY <1>3, <2>0, <2>1, <3>2
      <3> QED
        BY <3>1, <3>2
    <2>2. CASE Growing(u, e)
      <3>1. FileOf[e] = f /\ e <= usr[u].end
        BY <2>2 DEF Growing
      <3> QED
        BY <1>3, <2>0, <3>1
    <2>3. ASSUME NEW v \in Users, v # u, Growing(v, e)
          PROVE  Growing(v, e)'
      BY <1>1, <2>3 DEF Growing
    <2> QED
      BY <1>4, <2>1, <2>2, <2>3 DEF SizesCover
  <1> QED
    BY <1>2, <1>4 DEF SizesCover

LEMMA SetSizeSizes ==
    ASSUME IInv, SizesCover, SizeKept, NEW u \in Users, SetSize(u) \/ StoreSize(u)
    PROVE  SizesCover'
  <1>0. /\ TypeOK /\ usr \in [Users -> UserRec] /\ usr[u] \in UserRec
    BY DEF IInv, TypeOK, UserRec
  <1>1. usr[u].pc \in {"size", "store"} /\ usr[u].file \in Files /\ allocated' = allocated
    BY DEF SetSize, StoreSize, UserAt, IInv, Calls, index
  <1> PICK f \in Files : f = usr[u].file
    BY <1>1
  <1>2. isize[f] \in Nat /\ usr[u].end \in Nat /\ usr[u].snap \in Nat
    BY <1>0, SizeNumbers DEF UserRec
  <1>3. CASE SetSize(u)
    <2>1. isize' = isize /\ usr' = [usr EXCEPT ![u].snap = isize[f], ![u].pc = "store"]
      BY <1>3 DEF SetSize, index
    <2>2. SameRange(u)
      BY <1>0, <2>1 DEF SameRange, NewPCs, UserRec
    <2> QED
      BY <1>1, <2>1, <2>2, SizesFrame
  <1>4. CASE StoreSize(u)
    <2>1. PICK m \in Nat : m = Max({usr[u].snap, usr[u].end}) /\ usr[u].end <= m
      BY <1>2, MaxIsBound
    <2>2. isize' = [isize EXCEPT ![f] = m] /\ Goto(u, "check")
      BY <1>4, <2>1 DEF StoreSize
    <2>3. isize[f] <= m
      BY <1>4, <2>1 DEF StoreSize, UserAt, SizeKept
    <2> QED
      BY <1>1, <2>1, <2>2, <2>3, SizesGrow
  <1> QED
    BY <1>3, <1>4

(* A call fills holes up to the end of its range. *)
LEMMA BeginSizes ==
    ASSUME IInv, SizesCover, NEW u \in Users, BeginRead(u) \/ BeginWrite(u) \/ BeginAppend(u)
    PROVE  SizesCover'
  <1>0. /\ TypeOK /\ usr \in [Users -> UserRec] /\ usr[u] \in UserRec
    BY DEF IInv, TypeOK, UserRec
  <1>1. PICK f \in Files, o \in {"read", "write", "append"} : Begin(u, o, f)
    BY DEF BeginRead, BeginWrite, BeginAppend
  <1>2. usr[u].pc = "idle" /\ UNCHANGED <<allocated, isize>>
    BY <1>1 DEF Begin, UserAt, index
  <1>3. PICK lo, hi \in {e \in Nodes : FileOf[e] = f} :
          \E S, N : /\ N \subseteq lo .. hi
                    /\ usr' = [usr EXCEPT ![u] =
                          Scan([@ EXCEPT !.op = o, !.file = f, !.new = N, !.end = hi], S)]
    BY <1>1, ZenonT(60) DEF Begin
  <1>4. PICK S, N : /\ N \subseteq lo .. hi
                    /\ usr' = [usr EXCEPT ![u] =
                          Scan([@ EXCEPT !.op = o, !.file = f, !.new = N, !.end = hi], S)]
    BY <1>3
  <1>5. PICK r : r = [usr[u] EXCEPT !.op = o, !.file = f, !.new = N, !.end = hi]
    OBVIOUS
  <1>6. Scan(r, S).end = hi /\ Scan(r, S).new = N
    BY <1>0, <1>5 DEF Scan, UserRec
  <1>7. /\ \A v \in Users : v # u => usr'[v] = usr[v]
        /\ usr'[u].end = hi /\ usr'[u].new = N
    BY <1>0, <1>4, <1>5, <1>6
  <1>8. lo \in Nat /\ hi \in Nat
    BY SetsAssumption
  <1>9. \A v \in Users : \A e \in usr'[v].new : e <= usr'[v].end
    <2>1. \A e \in N : e <= hi
      BY <1>4, <1>8
    <2> QED
      BY <1>7, <2>1 DEF SizesCover
  <1>10. \A e : \A v \in Users : Growing(v, e) => Growing(v, e)'
    BY <1>2, <1>7 DEF Growing, NewPCs
  <1> QED
    BY <1>2, <1>9, <1>10 DEF SizesCover

LEMMA BeginDropSizes ==
    ASSUME IInv, SizesCover, NEW u \in Users, BeginDrop(u)
    PROVE  SizesCover'
  <1>0. /\ TypeOK /\ usr \in [Users -> UserRec] /\ usr[u] \in UserRec
    BY DEF IInv, TypeOK, UserRec
  <1>1. usr[u].pc = "idle" /\ UNCHANGED <<allocated, isize>>
    BY DEF BeginDrop, UserAt, index
  <1>2. PICK f, p :
          usr' = [usr EXCEPT ![u] = [@ EXCEPT !.op = "drop", !.file = f, !.todo = Covered(f),
                                              !.pc = p]]
    BY DEF BeginDrop
  <1>3. /\ \A v \in Users : v # u => usr'[v] = usr[v]
        /\ usr'[u].end = usr[u].end /\ usr'[u].new = usr[u].new
    BY <1>0, <1>2 DEF UserRec
  <1>4. \A v \in Users : \A e \in usr'[v].new : e <= usr'[v].end
    BY <1>3 DEF SizesCover
  <1>5. \A e : \A v \in Users : Growing(v, e) => Growing(v, e)'
    BY <1>1, <1>3 DEF Growing, NewPCs
  <1> QED
    BY <1>1, <1>4, <1>5 DEF SizesCover

LEMMA SizesCoverStep ==
    ASSUME IInv, SizesCover, SizeKept, [Next]_vars
    PROVE  SizesCover'
  <1>1. ASSUME NEW u \in Users,
               LockNode(u) \/ AddCold(u) \/ poly_cache_admit(u) \/ FreeIndex(u)
        PROVE  SizesCover'
    BY <1>1, GotoSizes
  <1>2. ASSUME NEW u \in Users,
               CopyOut(u) \/ CopyIn(u) \/ PickVictim(u) \/ EnqueueVictim(u) \/ DropNode(u)
        PROVE  SizesCover'
    BY <1>2, MoveSizes
  <1>3. ASSUME NEW u \in Users, Quiet(u)
        PROVE  SizesCover'
    BY <1>3, GotoSizes, MoveSizes, SetSizeSizes DEF Quiet
  <1>4. ASSUME NEW u \in Users,
               MakeNode(u) \/ BeginRead(u) \/ BeginWrite(u) \/ BeginAppend(u) \/ BeginDrop(u)
        PROVE  SizesCover'
    BY <1>4, MakeNodeSizes, BeginSizes, BeginDropSizes
  <1>5. CASE \/ \E w \in Flushers : TakeJob(w) \/ LockQueue(w) \/ ScanQueue(w) \/ LockVictim(w)
                                    \/ poly_cache_evict(w)
             \/ poly_cache_free
             \/ ExitBegin \/ ExitWait \/ ExitEnd \/ UseFreedMemory \/ UNCHANGED vars
    <2>1. UNCHANGED isize
      BY <1>5 DEF TakeJob, LockQueue, ScanQueue, LockVictim, poly_cache_evict, poly_cache_free,
         ExitBegin, ExitWait, ExitEnd, UseFreedMemory, vars, index
    <2>2. UNCHANGED <<usr, allocated>>
      BY <1>5, OtherSteps
    <2> QED
      BY <2>1, <2>2, SizesStill
  <1> QED
    BY <1>1, <1>2, <1>3, <1>4, <1>5, NextCases

(* The write-back ends when no buffer is left within inode->size; no call  *)
(* is in progress, so no buffer is left at all.                            *)
LEMMA ExitEndFlushed ==
    ASSUME IInv, SizesCover, ExitEnd
    PROVE  Flushed'
  <1>1. /\ Buffered = {} /\ phase = "free"
        /\ UNCHANGED <<node, allocated, fstate>>
    BY DEF ExitEnd, ProcessAt, index
  <1>2. \A u \in Users : usr[u].pc = "idle"
    BY <1>1 DEF IInv, Phases
  <1>3. ASSUME NEW e \in allocated, fstate[FileOf[e]] = "live"
        PROVE  node[e].buf = "null"
    <2>1. FileOf[e] \in Files
      BY <1>3, SizeNumbers DEF IInv
    <2>2. e <= isize[FileOf[e]]
      BY <1>2, <1>3 DEF SizesCover, Growing, NewPCs
    <2>3. e \in Covered(FileOf[e])
      BY <1>2, <1>3, <2>2 DEF Covered, TreeOf, Tree
    <2> QED
      BY <1>1, <1>3, <2>1, <2>3 DEF Buffered
  <1> QED
    BY <1>1, <1>3 DEF Flushed

LEMMA FlushedStill ==
    ASSUME Flushed, phase' = "done" => phase = "done", UNCHANGED <<node, allocated, fstate>>
    PROVE  Flushed'
  BY DEF Flushed

(* After the end nothing happens any more. *)
LEMMA FlushedStep ==
    ASSUME IInv, SizesCover, Flushed, [Next]_vars
    PROVE  Flushed'
  <1>0. phase = "done" =>
          /\ \A u \in Users : usr[u].pc = "idle"
          /\ jobs = <<>> /\ \A w \in Flushers : fl[w].pc = "idle"
    BY DEF IInv, Phases
  <1>1. ASSUME NEW u \in Users, usr[u].pc # "idle" \/ phase = "run", phase' = phase
        PROVE  Flushed'
    BY <1>0, <1>1 DEF Flushed
  <1>2. ASSUME NEW w \in Flushers, fl[w].pc # "idle" \/ jobs # <<>>, phase' = phase
        PROVE  Flushed'
    BY <1>0, <1>2 DEF Flushed
  <1>3. ASSUME NEW u \in Users,
               Quiet(u) \/ LockNode(u) \/ AddCold(u) \/ poly_cache_admit(u) \/ CopyOut(u)
               \/ CopyIn(u) \/ MakeNode(u)
        PROVE  Flushed'
    BY <1>1, <1>3, QuietEffect, LockNodeEffect, AddColdEffect, AdmitEffect, CopyEffect,
       MakeNodeEffect
  <1>4. ASSUME NEW u \in Users,
               PickVictim(u) \/ EnqueueVictim(u) \/ DropNode(u) \/ FreeIndex(u)
               \/ BeginRead(u) \/ BeginWrite(u) \/ BeginAppend(u) \/ BeginDrop(u)
        PROVE  Flushed'
    BY <1>1, <1>4, PickVictimEffect, EnqueueVictimEffect, DropNodeEffect, FreeIndexEffect,
       BeginEffect, BeginDropEffect
  <1>5. ASSUME NEW w \in Flushers, TakeJob(w) \/ LockQueue(w) \/ ScanQueue(w) \/ LockVictim(w)
                                   \/ poly_cache_evict(w)
        PROVE  Flushed'
    BY <1>2, <1>5, TakeJobEffect, LockQueueEffect, ScanQueueEffect, LockVictimEffect, EvictEffect
  <1>6. CASE poly_cache_free
    BY <1>6, FreeEffect DEF Flushed
  <1>7. CASE ExitEnd
    BY <1>7, ExitEndFlushed
  <1>8. CASE ExitBegin \/ ExitWait \/ UseFreedMemory \/ UNCHANGED vars
    <2>1. UNCHANGED <<node, allocated, fstate>>
      BY <1>8, ExitEffect
    <2>2. phase' = "done" => phase = "done"
      BY <1>8 DEF ExitBegin, ExitWait, UseFreedMemory, vars
    <2> QED
      BY <2>1, <2>2, FlushedStill
  <1> QED
    BY <1>3, <1>4, <1>5, <1>6, <1>7, <1>8, NextCases

LEMMA InitSizes ==
    ASSUME Init
    PROVE  SizesCover /\ Flushed /\ SizeKept
  <1>1. /\ \A u \in Users : usr[u].new = {} /\ usr[u].pc = "idle"
        /\ allocated = {} /\ phase = "run"
    BY IdleFields DEF Init
  <1> QED
    BY <1>1 DEF SizesCover, Flushed, SizeKept

(* What is not in a buffer any more is on the device. *)
LEMMA InvariantExitDurable ==
    ASSUME IInv, Contents, Flushed
    PROVE  ExitDurable
  <1> SUFFICES ASSUME phase = "done", NEW e \in allocated, fstate[FileOf[e]] = "live"
               PROVE  node[e].disk = "fresh"
    BY DEF ExitDurable
  <1>1. e \in Nodes
    BY DEF IInv, TypeOK
  <1>2. ~ node[e].removed
    BY <1>1 DEF IInv, Homes
  <1>3. KeepsLast(node[e])
    BY <1>2, ContentsParts DEF NodesKept
  <1>4. node[e].buf = "null"
    BY DEF Flushed
  <1> QED
    BY <1>3, <1>4 DEF KeepsLast

(* With one user nothing comes between its reading of inode->size and its  *)
(* storing it.                                                             *)
OwnSize == \A u \in Users : usr[u].pc = "store" => usr[u].snap = isize[usr[u].file]

LEMMA OwnSizeStep ==
    ASSUME \A u, v \in Users : u = v, IInv, OwnSize, [Next]_vars
    PROVE  OwnSize'
  <1>1. ASSUME NEW u \in Users, usr'[u].pc # "store"
        PROVE  OwnSize'
    BY <1>1 DEF OwnSize
  <1>2. ASSUME NEW u \in Users, Quiet(u)
        PROVE  OwnSize'
    <2>1. CASE SetSize(u)
      <3>1. usr'[u].snap = isize[usr[u].file] /\ usr'[u].file = usr[u].file /\ isize' = isize
        BY <2>1, SetSizeEffect DEF Becomes
      <3> QED
        BY <3>1 DEF OwnSize
    <2>2. CASE Scanned(u) \/ InsertNode(u) \/ StoreSize(u) \/ CheckSize(u)
      BY <1>1, <2>2, ScannedEffect, InsertNodeEffect, StoreSizeEffect, CheckSizeEffect, IdleFields
         DEF Keeps, Becomes, Returns
    <2>3. CASE TestAndSet(u) \/ Snapshot(u) \/ LockCold(u) \/ ResetSize(u) \/ Launch(u)
               \/ EndDrop(u)
      BY <1>1, <2>3, TestAndSetEffect, SnapshotEffect, LockColdEffect, ResetSizeEffect,
         LaunchEffect, EndDropEffect, IdleFields DEF Keeps, Becomes, Returns
    <2> QED
      BY <1>2, <2>1, <2>2, <2>3 DEF Quiet
  <1>3. ASSUME NEW u \in Users, LockNode(u) \/ AddCold(u) \/ poly_cache_admit(u) \/ CopyOut(u)
                                \/ CopyIn(u) \/ MakeNode(u)
        PROVE  OwnSize'
    BY <1>1, <1>3, LockNodeEffect, AddColdEffect, AdmitEffect, CopyEffect, MakeNodeEffect, ZenonT(60)
       DEF Keeps, Becomes
  <1>4. ASSUME NEW u \in Users, PickVictim(u)
        PROVE  OwnSize'
    BY <1>1, <1>4, PickVictimEffect DEF Keeps, Becomes
  <1>5. ASSUME NEW u \in Users, EnqueueVictim(u) \/ DropNode(u) \/ FreeIndex(u)
        PROVE  OwnSize'
    BY <1>1, <1>5, EnqueueVictimEffect, DropNodeEffect, FreeIndexEffect, IdleFields
       DEF Becomes, Returns
  <1>6. ASSUME NEW u \in Users,
               BeginRead(u) \/ BeginWrite(u) \/ BeginAppend(u) \/ BeginDrop(u)
        PROVE  OwnSize'
    BY <1>1, <1>6, BeginEffect, BeginDropEffect DEF Starts
  <1>7. CASE \/ \E w \in Flushers : TakeJob(w) \/ LockQueue(w) \/ ScanQueue(w) \/ LockVictim(w)
                                    \/ poly_cache_evict(w)
             \/ poly_cache_free
             \/ ExitBegin \/ ExitWait \/ ExitEnd \/ UseFreedMemory \/ UNCHANGED vars
    <2>1. UNCHANGED isize
      BY <1>7 DEF TakeJob, LockQueue, ScanQueue, LockVictim, poly_cache_evict, poly_cache_free,
         ExitBegin, ExitWait, ExitEnd, UseFreedMemory, vars, index
    <2>2. UNCHANGED usr
      BY <1>7, OtherSteps
    <2> QED
      BY <2>1, <2>2 DEF OwnSize
  <1> QED
    BY <1>2, <1>3, <1>4, <1>5, <1>6, <1>7, NextCases

LEMMA OwnSizeKept ==
    ASSUME IInv, OwnSize
    PROVE  SizeKept
  <1> SUFFICES ASSUME NEW u \in Users, usr[u].pc = "store"
               PROVE  isize[usr[u].file] <= Max({usr[u].snap, usr[u].end})
    BY DEF SizeKept
  <1>1. usr[u].end \in Nat /\ usr[u].snap \in Nat /\ usr[u].snap = isize[usr[u].file]
    <2>1. TypeOK
      BY DEF IInv
    <2> QED
      BY <2>1, SizeNumbers DEF TypeOK, OwnSize
  <1> QED
    BY <1>1, MaxIsBound

(* One user keeps the size, whatever the flushing threads do. *)
LEMMA OneUserKeepsSize ==
    ASSUME \A u, v \in Users : u = v
    PROVE  Spec => []SizeKept
  <1>1. Init => IInv /\ OwnSize
    <2>1. Init => \A u \in Users : usr[u].pc = "idle"
      BY IdleFields DEF Init
    <2> QED
      BY <2>1, InitInvariant DEF OwnSize
  <1>2. (IInv /\ OwnSize) /\ [Next]_vars => (IInv /\ OwnSize)'
    BY InvariantStep, OwnSizeStep
  <1>3. IInv /\ OwnSize => SizeKept
    BY OwnSizeKept
  <1> QED
    BY <1>1, <1>2, <1>3, PTL DEF Spec

-----------------------------------------------------------------------------
(* PolyCache implements WriteBack. *)

(* The variables of WriteBack. *)
Kept      == [e \in Nodes |-> IF e \in allocated THEN Where(node[e]) ELSE "none"]
LiveFiles == {f \in Files : fstate[f] = "live"}

(* A node of the index keeps its last write in one of the two places. *)
LEMMA WhereKept ==
    ASSUME IInv, Contents, NEW e \in allocated
    PROVE  /\ e \in Nodes /\ node[e] \in NodeRec
           /\ node[e].removed => Where(node[e]) = "dropped"
           /\ ~ node[e].removed => KeepsLast(node[e]) /\ Where(node[e]) \in {"memory", "device"}
           /\ ~ node[e].removed /\ node[e].disk = "stale" => Where(node[e]) = "memory"
           /\ ~ node[e].removed /\ node[e].disk = "fresh" => Where(node[e]) = "device"
  <1>1. e \in Nodes /\ node[e] \in NodeRec
    BY DEF IInv, TypeOK, NodeRec
  <1>2. ~ node[e].removed => KeepsLast(node[e])
    BY ContentsParts DEF NodesKept
  <1>3. node[e].disk \in {"stale", "fresh"}
    BY <1>1 DEF NodeRec
  <1> QED
    BY <1>1, <1>2, <1>3 DEF Where, KeepsLast

LEMMA DataStill ==
    ASSUME allocated' = allocated, \A e \in allocated : Where(node'[e]) = Where(node[e]),
           \A f \in Files : fstate'[f] = "live" <=> fstate[f] = "live",
           phase' = "done" <=> phase = "done"
    PROVE  UNCHANGED Data!vars
  <1>1. Kept' = Kept
    BY DEF Kept, Where
  <1>2. LiveFiles' = LiveFiles
    BY DEF LiveFiles
  <1>3. (phase' # "done") = (phase # "done")
    OBVIOUS
  <1> QED
    BY <1>1, <1>2, <1>3 DEF Data!vars, Kept, LiveFiles

(* One interval changes. *)
LEMMA KeptChange ==
    ASSUME NEW e \in Nodes, allocated' = allocated \cup {e}, UNCHANGED <<fstate, phase>>,
           \A x \in Nodes : x # e => node'[x] = node[x]
    PROVE  /\ Kept' = [Kept EXCEPT ![e] = Where(node'[e])]
           /\ LiveFiles' = LiveFiles /\ (phase' # "done") = (phase # "done")
  <1>1. Kept'[e] = Where(node'[e]) /\ \A x \in Nodes : x # e => Kept'[x] = Kept[x]
    BY DEF Kept, Where
  <1>2. Kept \in [Nodes -> {Kept[x] : x \in Nodes}] /\ DOMAIN Kept' = Nodes
    BY DEF Kept
  <1>3. Kept' = [x \in Nodes |-> Kept'[x]]
    BY DEF Kept
  <1>4. Kept' = [Kept EXCEPT ![e] = Where(node'[e])]
    BY <1>1, <1>2, <1>3
  <1> QED
    BY <1>4 DEF LiveFiles

LEMMA DataWrite ==
    ASSUME NEW e \in Nodes, allocated' = allocated \cup {e}, UNCHANGED <<fstate, phase>>,
           \A x \in Nodes : x # e => node'[x] = node[x],
           phase # "done", fstate[FileOf[e]] = "live",
           Kept[e] \in {"none", "memory", "device"}, Where(node'[e]) = "memory"
    PROVE  Data!Next
  <1>1. /\ Kept' = [Kept EXCEPT ![e] = "memory"]
        /\ LiveFiles' = LiveFiles /\ (phase' # "done") = (phase # "done")
    BY KeptChange
  <1>2. FileOf[e] \in LiveFiles
    BY SetsAssumption DEF LiveFiles
  <1>3. Data!Write(e)
    BY <1>1, <1>2 DEF Data!Write, Kept, LiveFiles
  <1> QED
    BY <1>3 DEF Data!Next

LEMMA DataFlush ==
    ASSUME NEW e \in Nodes, e \in allocated, allocated' = allocated, UNCHANGED <<fstate, phase>>,
           \A x \in Nodes : x # e => node'[x] = node[x],
           phase # "done", Where(node[e]) = "memory", Where(node'[e]) = "device"
    PROVE  Data!Next
  <1>1. /\ Kept' = [Kept EXCEPT ![e] = "device"]
        /\ LiveFiles' = LiveFiles /\ (phase' # "done") = (phase # "done")
    <2>1. allocated' = allocated \cup {e}
      OBVIOUS
    <2> QED
      BY <2>1, KeptChange
  <1>2. Kept[e] = "memory"
    BY DEF Kept
  <1>3. Data!Flush(e)
    BY <1>1, <1>2 DEF Data!Flush, Kept, LiveFiles
  <1> QED
    BY <1>3 DEF Data!Next

LEMMA DataDrop ==
    ASSUME NEW e \in Nodes, e \in allocated, allocated' = allocated, UNCHANGED <<fstate, phase>>,
           \A x \in Nodes : x # e => node'[x] = node[x],
           phase # "done", fstate[FileOf[e]] # "live",
           Where(node[e]) \in {"memory", "device"}, Where(node'[e]) = "dropped"
    PROVE  Data!Next
  <1>1. /\ Kept' = [Kept EXCEPT ![e] = "dropped"]
        /\ LiveFiles' = LiveFiles /\ (phase' # "done") = (phase # "done")
    <2>1. allocated' = allocated \cup {e}
      OBVIOUS
    <2> QED
      BY <2>1, KeptChange
  <1>2. Kept[e] \in {"memory", "device"} /\ FileOf[e] \notin LiveFiles
    BY DEF Kept, LiveFiles
  <1>3. Data!Drop(e)
    BY <1>1, <1>2 DEF Data!Drop, Kept, LiveFiles
  <1> QED
    BY <1>3 DEF Data!Next

(* A user that is in a call, a worker that serves a queue: the process has *)
(* not ended.                                                              *)
LEMMA StillRunning ==
    ASSUME IInv
    PROVE  /\ \A u \in Users : usr[u].pc # "idle" => phase # "done"
           /\ \A w \in Flushers : fl[w].pc # "idle" => phase # "done"
  BY DEF IInv, Phases

(* Getting a buffer and being admitted leave the last write where it is. *)
LEMMA LoadData ==
    ASSUME IInv, Contents, ~ IOErrors, NEW u \in Users, LockNode(u) \/ poly_cache_admit(u)
    PROVE  UNCHANGED Data!vars
  <1>1. usr[u].pc \in AtNodePCs /\ UNCHANGED <<allocated, fstate, phase>>
    BY LockNodeEffect, AdmitEffect DEF AtNodePCs, LockedPCs
  <1>2. /\ usr[u].cur \in Nodes /\ ~ node[usr[u].cur].removed
        /\ KeepsLast(node[usr[u].cur]) /\ node[usr[u].cur] \in NodeRec
    BY <1>1, CurContents
  <1> PICK e \in Nodes : e = usr[u].cur
    BY <1>2
  <1>3. /\ \A x \in Nodes : x # e => node'[x] = node[x]
        /\ Where(node'[e]) = Where(node[e])
    <2>1. CASE LockNode(u)
      <3>1. CASE node' = node
        BY <3>1
      <3>2. CASE /\ node[e].buf = "null"
                 /\ NodeBecomes(e, "stale", node[e].disk, node[e].present, node[e].dirty,
                                node[e].removed)
        <4>1. node[e].disk = "fresh"
          BY <1>2, <3>2 DEF KeepsLast
        <4> QED
          BY <1>2, <3>2, <4>1 DEF NodeBecomes, Where
      <3> QED
        BY <2>1, <3>1, <3>2, LockNodeEffect
    <2>2. CASE poly_cache_admit(u)
      <3>1. NodeBecomes(e, IF node[e].present THEN node[e].buf ELSE node[e].disk, node[e].disk,
                        TRUE, node[e].dirty \/ usr[u].op # "read", node[e].removed)
        BY <2>2, AdmitEffect
      <3>2. /\ \A x \in Nodes : x # e => node'[x] = node[x]
            /\ node'[e].disk = node[e].disk /\ node'[e].present = TRUE
            /\ node'[e].buf = IF node[e].present THEN node[e].buf ELSE node[e].disk
            /\ node'[e].removed = node[e].removed
            /\ node'[e].dirty = (node[e].dirty \/ usr[u].op # "read")
        BY <3>1 DEF NodeBecomes
      <3>3. CASE node[e].disk = "fresh"
        BY <1>2, <3>2, <3>3 DEF Where
      <3>4. CASE node[e].disk # "fresh"
        <4>1. node[e].present /\ node[e].dirty /\ node[e].buf = "fresh"
          BY <1>2, <3>4 DEF KeepsLast, NodeRec
        <4>2. node'[e].present /\ node'[e].dirty /\ node'[e].buf = "fresh"
          BY <3>2, <4>1
        <4> QED
          BY <1>2, <3>2, <3>4, <4>1, <4>2 DEF Where
      <3> QED
        BY <3>3, <3>4, <3>2
    <2> QED
      BY <2>1, <2>2
  <1>4. \A x \in allocated : Where(node'[x]) = Where(node[x])
    BY <1>3 DEF IInv, TypeOK
  <1> QED
    BY <1>1, <1>4, DataStill

(* The copy of a write is a write, that of a read changes nothing. *)
LEMMA CopyData ==
    ASSUME IInv, Contents, NEW u \in Users, CopyOut(u) \/ CopyIn(u)
    PROVE  Data!Next \/ UNCHANGED Data!vars
  <1>1. usr[u].pc = "copy" /\ UNCHANGED <<allocated, fstate, phase>>
    BY CopyEffect
  <1>2. /\ usr[u].cur \in Nodes /\ usr[u].cur \in allocated /\ ~ node[usr[u].cur].removed
        /\ KeepsLast(node[usr[u].cur]) /\ node[usr[u].cur] \in NodeRec
    BY <1>1, CurContents DEF AtNodePCs, LockedPCs
  <1> PICK e \in Nodes : e = usr[u].cur
    BY <1>2
  <1>3. node[e].present /\ (usr[u].op # "read" => node[e].dirty)
    BY <1>1 DEF Contents
  <1>4. phase # "done" /\ fstate[FileOf[e]] = "live"
    BY <1>1, StillRunning, CurIsNode DEF AtNodePCs, LockedPCs
  <1>5. CASE node' = node
    BY <1>1, <1>5, DataStill
  <1>6. CASE /\ usr[u].op # "read"
             /\ NodeBecomes(e, node[e].buf, "stale", node[e].present, node[e].dirty,
                            node[e].removed)
    <2>1. /\ \A x \in Nodes : x # e => node'[x] = node[x]
          /\ node'[e].buf = "fresh" /\ node'[e].present = TRUE /\ node'[e].dirty
          /\ node'[e].removed = FALSE /\ node'[e].disk = "stale"
      BY <1>2, <1>3, <1>6 DEF NodeBecomes, KeepsLast, NodeRec
    <2>2. Where(node'[e]) = "memory"
      BY <2>1 DEF Where
    <2>3. Kept[e] \in {"none", "memory", "device"}
      BY <1>2, WhereKept DEF Kept
    <2>4. allocated' = allocated \cup {e}
      BY <1>1, <1>2
    <2> QED
      BY <1>1, <1>4, <2>1, <2>2, <2>3, <2>4, DataWrite
  <1> QED
    BY <1>5, <1>6, CopyEffect

(* A new node is the first write to its interval. *)
LEMMA MakeNodeData ==
    ASSUME IInv, NEW u \in Users, MakeNode(u)
    PROVE  Data!Next \/ UNCHANGED Data!vars
  <1>1. usr[u].pc = "make" /\ UNCHANGED <<fstate, phase>>
    BY MakeNodeEffect
  <1>2. phase # "done" /\ fstate[usr[u].file] = "live"
    BY <1>1, StillRunning DEF IInv, Calls, DropPCs
  <1>3. CASE UNCHANGED <<node, allocated>>
    BY <1>1, <1>3, DataStill
  <1>4. CASE \E e \in usr[u].new : /\ e \in Nodes \ allocated /\ allocated' = allocated \cup {e}
                                   /\ NodeBecomes(e, "fresh", "stale", TRUE, TRUE, FALSE)
    <2>1. PICK e \in usr[u].new : /\ e \in Nodes \ allocated /\ allocated' = allocated \cup {e}
                                  /\ NodeBecomes(e, "fresh", "stale", TRUE, TRUE, FALSE)
      BY <1>4
    <2>2. e \notin allocated /\ FileOf[e] = usr[u].file
      BY <2>1 DEF IInv, Intervals, Grasp
    <2>3. \A x \in Nodes : x # e => node'[x] = node[x]
      BY <2>1 DEF NodeBecomes
    <2>4. Where(node'[e]) = "memory"
      BY <2>1 DEF NodeBecomes, Where
    <2>5. Kept[e] = "none"
      BY <2>1, <2>2 DEF Kept
    <2> QED
      BY <1>1, <1>2, <2>1, <2>2, <2>3, <2>4, <2>5, DataWrite
  <1> QED
    BY <1>3, <1>4, MakeNodeEffect

(* An unlink drops what is found in the index. *)
LEMMA DropNodeData ==
    ASSUME IInv, Contents, NEW u \in Users, DropNode(u)
    PROVE  Data!Next \/ UNCHANGED Data!vars
  <1>1. usr[u].pc = "drop" /\ UNCHANGED <<allocated, fstate, phase>>
    BY DropNodeEffect
  <1>2. PICK e \in usr[u].todo :
          e \in Nodes /\ NodeBecomes(e, "null", node[e].disk, node[e].present, node[e].dirty, TRUE)
    BY DropNodeEffect
  <1>3. phase # "done" /\ FileOf[e] = usr[u].file /\ fstate[FileOf[e]] # "live"
    BY <1>1, <1>2, StillRunning DEF IInv, Calls, Intervals, Grasp, DropPCs
  <1>4. \A x \in Nodes : x # e => node'[x] = node[x]
    BY <1>2 DEF NodeBecomes
  <1>5. Where(node'[e]) = "dropped"
    BY <1>2 DEF NodeBecomes, Where
  <1>6. allocated \subseteq Nodes
    BY DEF IInv, TypeOK
  <1>7. CASE e \notin allocated \/ node[e].removed
    <2>1. e \in allocated => Where(node[e]) = "dropped"
      BY <1>7 DEF Where
    <2> QED
      BY <1>1, <1>4, <1>5, <1>6, <2>1, DataStill
  <1>8. CASE e \in allocated /\ ~ node[e].removed
    <2>1. Where(node[e]) \in {"memory", "device"}
      BY <1>8, WhereKept
    <2> QED
      BY <1>1, <1>2, <1>3, <1>4, <1>5, <1>8, <2>1, DataDrop
  <1> QED
    BY <1>7, <1>8

(* A write-back, by a worker or at exit. *)
LEMMA CleansData ==
    ASSUME IInv, Contents, ~ IOErrors, NEW e \in Nodes, Cleans(e), phase # "done",
           UNCHANGED <<allocated, fstate, phase>>
    PROVE  Data!Next \/ UNCHANGED Data!vars
  <1>1. NodeBecomes(e, "null", IF node[e].dirty /\ node[e].buf # "null" THEN node[e].buf
                                ELSE node[e].disk, FALSE, FALSE, node[e].removed)
    BY DEF Cleans
  <1>2. /\ \A x \in Nodes : x # e => node'[x] = node[x]
        /\ node'[e].disk = IF node[e].dirty /\ node[e].buf # "null" THEN node[e].buf
                           ELSE node[e].disk
        /\ node'[e].removed = node[e].removed
    BY <1>1 DEF NodeBecomes
  <1>3. allocated \subseteq Nodes /\ (node[e].dirty => node[e].present)
    BY ContentsParts DEF IInv, TypeOK, NodesKept
  <1>4. CASE e \notin allocated \/ node[e].removed
    <2>1. e \in allocated => Where(node[e]) = "dropped" /\ Where(node'[e]) = "dropped"
      BY <1>2, <1>4 DEF Where
    <2> QED
      BY <1>2, <1>3, <2>1, DataStill
  <1>5. CASE e \in allocated /\ ~ node[e].removed
    <2>1. /\ KeepsLast(node[e]) /\ node[e].disk \in {"stale", "fresh"}
          /\ node[e].disk = "stale" => Where(node[e]) = "memory"
          /\ node[e].disk = "fresh" => Where(node[e]) = "device"
      BY <1>5, WhereKept DEF NodeRec
    <2>2. node'[e].disk = "fresh"
      BY <1>2, <1>3, <2>1 DEF KeepsLast
    <2>3. Where(node'[e]) = "device"
      BY <1>2, <1>5, <2>2 DEF Where
    <2>4. CASE node[e].disk = "stale"
      BY <1>2, <1>5, <2>1, <2>3, <2>4, DataFlush
    <2>5. CASE node[e].disk = "fresh"
      BY <1>2, <1>3, <2>1, <2>3, <2>5, DataStill
    <2> QED
      BY <2>1, <2>4, <2>5
  <1> QED
    BY <1>4, <1>5

LEMMA BeginDropData ==
    ASSUME IInv, NEW u \in Users, BeginDrop(u)
    PROVE  Data!Next
  <1>1. phase = "run" /\ UNCHANGED <<node, allocated, phase>>
    BY BeginDropEffect
  <1>2. PICK f \in Files : fstate[f] = "live" /\ fstate' = [fstate EXCEPT ![f] = "dropping"]
    BY BeginDropEffect
  <1>3. fstate \in [Files -> {"live", "dropping", "freed"}]
    BY DEF IInv, TypeOK
  <1>4. f \in LiveFiles /\ LiveFiles' = LiveFiles \ {f}
    BY <1>2, <1>3 DEF LiveFiles
  <1>5. Kept' = Kept
    BY <1>1 DEF Kept
  <1>6. Data!Unlink(f)
    BY <1>1, <1>4, <1>5 DEF Data!Unlink, Kept, LiveFiles
  <1> QED
    BY <1>6 DEF Data!Next

LEMMA FreeIndexData ==
    ASSUME IInv, NEW u \in Users, FreeIndex(u)
    PROVE  UNCHANGED Data!vars
  <1>1. /\ usr[u].pc = "free" /\ usr[u].file \in Files /\ UNCHANGED <<node, allocated, phase>>
        /\ fstate' = [fstate EXCEPT ![usr[u].file] = "freed"]
    BY FreeIndexEffect
  <1>2. fstate[usr[u].file] = "dropping" /\ fstate \in [Files -> {"live", "dropping", "freed"}]
    BY <1>1 DEF IInv, Calls, DropPCs, TypeOK
  <1> QED
    BY <1>1, <1>2, DataStill

(* The process ends with everything on the devices. *)
LEMMA ExitEndData ==
    ASSUME IInv, Contents, SizesCover, ExitEnd
    PROVE  Data!Next
  <1>1. phase = "free" /\ phase' = "done" /\ UNCHANGED <<node, allocated, fstate>>
    BY DEF ExitEnd, ProcessAt, index
  <1>2. Flushed'
    BY ExitEndFlushed
  <1>3. ASSUME NEW e \in Nodes, fstate[FileOf[e]] = "live"
        PROVE  Kept[e] # "memory"
    <2>1. CASE e \in allocated
      <3>1. node[e].buf = "null"
        BY <1>1, <1>2, <1>3, <2>1 DEF Flushed
      <3> QED
        BY <2>1, <3>1 DEF Kept, Where
    <2>2. CASE e \notin allocated
      BY <2>2 DEF Kept
    <2> QED
      BY <2>1, <2>2
  <1>4. \A e \in Nodes : FileOf[e] \in LiveFiles => Kept[e] # "memory"
    BY <1>3 DEF LiveFiles
  <1>5. Kept' = Kept /\ LiveFiles' = LiveFiles
    BY <1>1 DEF Kept, LiveFiles
  <1>6. (phase # "done") /\ (phase' # "done") = FALSE
    BY <1>1
  <1>7. Data!End
    BY <1>4, <1>5, <1>6 DEF Data!End, Kept, LiveFiles
  <1> QED
    BY <1>7 DEF Data!Next

LEMMA DataStep ==
    ASSUME ~ IOErrors, IInv, Contents, SizesCover, [Next]_vars
    PROVE  [Data!Next]_(Data!vars)
  <1>0. ASSUME UNCHANGED <<node, allocated, fstate>>, phase' = "done" <=> phase = "done"
        PROVE  UNCHANGED Data!vars
    BY <1>0, DataStill
  <1>1. ASSUME NEW u \in Users, Quiet(u) \/ AddCold(u) \/ PickVictim(u) \/ EnqueueVictim(u)
        PROVE  UNCHANGED Data!vars
    BY <1>0, <1>1, QuietEffect, AddColdEffect, PickVictimEffect, EnqueueVictimEffect
  <1>2. ASSUME NEW u \in Users, BeginRead(u) \/ BeginWrite(u) \/ BeginAppend(u)
        PROVE  UNCHANGED Data!vars
    BY <1>0, <1>2, BeginEffect
  <1>3. ASSUME NEW u \in Users,
               LockNode(u) \/ poly_cache_admit(u) \/ CopyOut(u) \/ CopyIn(u) \/ MakeNode(u)
               \/ DropNode(u) \/ FreeIndex(u) \/ BeginDrop(u)
        PROVE  Data!Next \/ UNCHANGED Data!vars
    BY <1>3, LoadData, CopyData, MakeNodeData, DropNodeData, FreeIndexData, BeginDropData
  <1>4. ASSUME NEW w \in Flushers, TakeJob(w) \/ LockQueue(w) \/ ScanQueue(w) \/ LockVictim(w)
        PROVE  UNCHANGED Data!vars
    BY <1>0, <1>4, TakeJobEffect, LockQueueEffect, ScanQueueEffect, LockVictimEffect
  <1>5. ASSUME NEW w \in Flushers, poly_cache_evict(w)
        PROVE  Data!Next \/ UNCHANGED Data!vars
    <2>1. PICK e \in Nodes : Cleans(e)
      BY <1>5, EvictEffect
    <2>2. phase # "done" /\ UNCHANGED <<allocated, fstate, phase>>
      BY <1>5, EvictEffect, StillRunning
    <2> QED
      BY <2>1, <2>2, CleansData
  <1>6. CASE poly_cache_free
    <2>1. PICK e \in Nodes : Cleans(e)
      BY <1>6, FreeEffect
    <2>2. phase # "done" /\ UNCHANGED <<allocated, fstate, phase>>
      BY <1>6, FreeEffect
    <2> QED
      BY <2>1, <2>2, CleansData
  <1>7. CASE ExitEnd
    BY <1>7, ExitEndData
  <1>8. CASE ExitBegin \/ ExitWait \/ UseFreedMemory \/ UNCHANGED vars
    <2>1. UNCHANGED <<node, allocated, fstate>>
      BY <1>8, ExitEffect
    <2>2. phase' = "done" <=> phase = "done"
      BY <1>8 DEF ExitBegin, ExitWait, UseFreedMemory, vars, ProcessAt
    <2> QED
      BY <1>0, <2>1, <2>2
  <1> QED
    BY <1>1, <1>2, <1>3, <1>4, <1>5, <1>6, <1>7, <1>8, NextCases

LEMMA InitData ==
    ASSUME Init
    PROVE  Data!Init
  <1>1. Kept = [e \in Nodes |-> "none"]
    BY DEF Init, Kept
  <1>2. LiveFiles = Files /\ (phase # "done") = TRUE
    BY DEF Init, LiveFiles
  <1> QED
    BY <1>1, <1>2 DEF Data!Init, Kept, LiveFiles

-----------------------------------------------------------------------------
(* Who makes the node of a hole. *)

(* An append holds the tree lock from its lookup to its store of the size, *)
(* and the holes it found stay holes of the tree meanwhile.                *)
ActivePCs == ScanPCs \cup NewPCs
Fills(u) ==
    /\ usr[u].pc \in NewPCs => usr[u].op # "read"
    /\ usr[u].pc \in NewbornPCs => usr[u].cur \notin usr[u].new
    /\ usr[u].op = "append" /\ usr[u].pc \in ActivePCs =>
          treelock[usr[u].file].writer = u /\ usr[u].new \cap Tree = {}
AppendsHold == \A u \in Users : Fills(u)

(* A statement of u after which the calls of the others still hold. *)
Shares(u) ==
    /\ \A v \in Users : v # u => usr'[v] = usr[v]
    /\ \A v \in Users, f \in Files :
          v # u /\ treelock[f].writer = v => treelock'[f].writer = v
    /\ Tree' \subseteq Tree

(* A statement in the middle of the call of u. *)
Moves(u) ==
    \/ usr'[u].pc \notin ActivePCs
    \/ /\ usr[u].pc \in ActivePCs /\ usr'[u].op = usr[u].op /\ usr'[u].file = usr[u].file
       /\ usr'[u].new \subseteq usr[u].new /\ treelock' = treelock
       /\ usr'[u].pc \in NewPCs => usr[u].pc \in NewPCs
       /\ usr'[u].pc \in NewbornPCs => usr[u].pc \in NewbornPCs /\ usr'[u].cur = usr[u].cur

LEMMA SharesStep ==
    ASSUME IInv, AppendsHold, NEW u \in Users, Shares(u), Fills(u)'
    PROVE  AppendsHold'
  <1>1. ASSUME NEW v \in Users, v # u
        PROVE  Fills(v)'
    <2>1. usr'[v] = usr[v] /\ Tree' \subseteq Tree /\ Fills(v)
      BY <1>1 DEF Shares, AppendsHold
    <2>2. usr[v].pc \in ActivePCs => usr[v].file \in Files
      BY DEF IInv, Calls, ActivePCs, ScanPCs, NewPCs
    <2>3. usr[v].pc \in ActivePCs /\ treelock[usr[v].file].writer = v =>
             treelock'[usr[v].file].writer = v
      BY <1>1, <2>2 DEF Shares
    <2> QED
      BY <2>1, <2>3 DEF Fills
  <1> QED
    BY <1>1 DEF AppendsHold

LEMMA MovesStep ==
    ASSUME IInv, AppendsHold, NEW u \in Users, Shares(u), Moves(u)
    PROVE  AppendsHold'
  <1>1. Fills(u) /\ Tree' \subseteq Tree
    BY DEF AppendsHold, Shares
  <1>2. NewbornPCs \subseteq NewPCs /\ NewPCs \subseteq ActivePCs
    BY DEF NewbornPCs, NewPCs, ActivePCs
  <1>3. Fills(u)'
    <2>1. CASE usr'[u].pc \notin ActivePCs
      BY <1>2, <2>1 DEF Fills
    <2>2. CASE usr'[u].pc \in ActivePCs
      <3>1. /\ usr[u].pc \in ActivePCs /\ usr'[u].op = usr[u].op /\ usr'[u].file = usr[u].file
            /\ usr'[u].new \subseteq usr[u].new /\ treelock' = treelock
            /\ usr'[u].pc \in NewPCs => usr[u].pc \in NewPCs
            /\ usr'[u].pc \in NewbornPCs => usr[u].pc \in NewbornPCs /\ usr'[u].cur = usr[u].cur
        BY <2>2 DEF Moves
      <3>2. usr'[u].new \cap Tree' \subseteq usr[u].new \cap Tree
        BY <1>1, <3>1
      <3> QED
        BY <1>1, <3>1, <3>2 DEF Fills
    <2> QED
      BY <2>1, <2>2
  <1> QED
    BY <1>3, SharesStep

(* Only insertion lets a lookup find more. *)
LEMMA TreeShrinks ==
    ASSUME NEW u \in Users, allocated' = allocated,
           \A v \in Users : v # u => usr'[v] = usr[v],
           usr[u].pc \in NewbornPCs => usr'[u].pc \in NewbornPCs /\ usr'[u].cur = usr[u].cur
    PROVE  Tree' \subseteq Tree
  BY DEF Tree, NewbornPCs

LEMMA UnlockOwn ==
    ASSUME TypeOK, NEW u \in Users, UnlockTree(u) \/ UNCHANGED treelock
    PROVE  \A v \in Users, f \in Files :
               v # u /\ treelock[f].writer = v => treelock'[f].writer = v
  <1>1. CASE UnlockTree(u)
    <2> SUFFICES ASSUME NEW v \in Users, NEW f \in Files, v # u, treelock[f].writer = v
                 PROVE  treelock'[f].writer = v
      BY <1>1
    <2>1. \/ treelock'[f] = treelock[f]
          \/ treelock'[f] = [readers |-> treelock[f].readers \ {u},
                             writer |-> IF treelock[f].writer = u THEN None
                                        ELSE treelock[f].writer]
      BY <1>1 DEF UnlockTree, TypeOK
    <2> QED
      BY <2>1
  <1>2. CASE UNCHANGED treelock
    BY <1>2
  <1> QED
    BY <1>1, <1>2

(* The statements that leave the tree lock alone and insert nothing. *)
LEMMA StillMoves ==
    ASSUME IInv, NEW u \in Users,
           \/ LockNode(u) \/ AddCold(u) \/ poly_cache_admit(u) \/ CopyOut(u) \/ CopyIn(u)
           \/ SetSize(u) \/ CheckSize(u) \/ TestAndSet(u) \/ Snapshot(u) \/ LockCold(u)
           \/ ResetSize(u) \/ Launch(u) \/ PickVictim(u) \/ EnqueueVictim(u) \/ DropNode(u)
           \/ FreeIndex(u)
    PROVE  Shares(u) /\ Moves(u)
  <1>1. treelock' = treelock
    BY DEF LockNode, AddCold, poly_cache_admit, CopyOut, CopyIn, SetSize, CheckSize, TestAndSet,
       Snapshot, LockCold, ResetSize, Launch, PickVictim, EnqueueVictim, DropNode, FreeIndex,
       locks
  <1>2. /\ \A v \in Users : v # u => usr'[v] = usr[v]
        /\ allocated' = allocated
        /\ usr[u].pc \in NewbornPCs => usr'[u].pc \in NewbornPCs /\ usr'[u].cur = usr[u].cur
        /\ Moves(u)
    <2>1. CASE LockNode(u)
      BY <1>1, <2>1, LockNodeEffect DEF Keeps, Becomes, Moves, NewbornPCs, ActivePCs, ScanPCs,
         NewPCs
    <2>2. CASE AddCold(u)
      BY <1>1, <2>2, AddColdEffect DEF Keeps, Becomes, Moves, NewbornPCs, ActivePCs, ScanPCs,
         NewPCs
    <2>3. CASE poly_cache_admit(u)
      <3>1. usr[u].pc = "admit" /\ Keeps(u, "copy") /\ allocated' = allocated
        BY <2>3, AdmitEffect
      <3> QED
        BY <1>1, <3>1 DEF Keeps, Becomes, Moves, NewbornPCs, ActivePCs, ScanPCs, NewPCs
    <2>4. CASE CopyOut(u) \/ CopyIn(u)
      <3>1. PICK p, c :
               /\ Becomes(u, p, c, usr[u].todo \ {usr[u].cur}, usr[u].new, usr[u].snap)
               /\ \/ p = "scanned"
                  \/ p = "lock" /\ c \in usr[u].todo \ {usr[u].cur}
        BY <2>4, CopyEffect
      <3>2. usr[u].pc = "copy" /\ allocated' = allocated
        BY <2>4, CopyEffect
      <3> QED
        BY <1>1, <3>1, <3>2 DEF Becomes, Moves, NewbornPCs, ActivePCs, ScanPCs, NewPCs
    <2>5. CASE SetSize(u)
      BY <1>1, <2>5, SetSizeEffect DEF Becomes, Moves, NewbornPCs, ActivePCs, NewPCs
    <2>6. CASE CheckSize(u) \/ TestAndSet(u) \/ Launch(u) \/ FreeIndex(u)
      BY <2>6, CheckSizeEffect, TestAndSetEffect, LaunchEffect, FreeIndexEffect, IdleFields
         DEF Keeps, Becomes, Returns, Moves, NewbornPCs, ActivePCs, ScanPCs, NewPCs
    <2>7. CASE Snapshot(u) \/ LockCold(u) \/ ResetSize(u)
      BY <2>7, SnapshotEffect, LockColdEffect, ResetSizeEffect
         DEF Keeps, Becomes, Moves, NewbornPCs, ActivePCs, ScanPCs, NewPCs
    <2>8. CASE PickVictim(u)
      BY <2>8, PickVictimEffect
         DEF Keeps, Becomes, Moves, NewbornPCs, ActivePCs, ScanPCs, NewPCs
    <2>9. CASE EnqueueVictim(u) \/ DropNode(u)
      BY <2>9, EnqueueVictimEffect, DropNodeEffect
         DEF Becomes, Moves, NewbornPCs, ActivePCs, ScanPCs, NewPCs
    <2> QED
      BY <2>1, <2>2, <2>3, <2>4, <2>5, <2>6, <2>7, <2>8, <2>9
  <1>3. Tree' \subseteq Tree
    BY <1>2, TreeShrinks
  <1> QED
    BY <1>1, <1>2, <1>3 DEF Shares

LEMMA UnlockFills ==
    ASSUME IInv, AppendsHold, NEW u \in Users, Scanned(u) \/ StoreSize(u) \/ EndDrop(u)
    PROVE  AppendsHold'
  <1>0. TypeOK /\ Fills(u)
    BY DEF IInv, AppendsHold
  <1>1. UnlockTree(u) \/ UNCHANGED treelock
    BY DEF Scanned, StoreSize, EndDrop
  <1>2. /\ \A v \in Users : v # u => usr'[v] = usr[v]
        /\ allocated' = allocated /\ usr[u].pc \in {"scanned", "store", "dropped"}
    BY ScannedEffect, StoreSizeEffect, EndDropEffect DEF Keeps, Becomes, Returns
  <1>3. Tree' \subseteq Tree
    BY <1>2, TreeShrinks DEF NewbornPCs
  <1>4. Shares(u)
    BY <1>0, <1>1, <1>2, <1>3, UnlockOwn DEF Shares
  <1>5. CASE StoreSize(u) \/ EndDrop(u)
    <2>1. usr'[u].pc \notin ActivePCs
      BY <1>5, StoreSizeEffect, EndDropEffect DEF Keeps, Becomes, ActivePCs, ScanPCs, NewPCs
    <2> QED
      BY <1>4, <2>1, MovesStep DEF Moves
  <1>6. CASE Scanned(u)
    <2>1. CASE Returns(u)
      BY <1>4, <2>1, MovesStep, IdleFields DEF Moves, Returns, ActivePCs, ScanPCs, NewPCs
    <2>2. CASE Keeps(u, "make") \/ Keeps(u, "size")
      <3>1. /\ usr'[u].pc \in {"make", "size"} /\ usr'[u].op = usr[u].op
            /\ usr'[u].file = usr[u].file /\ usr'[u].new = usr[u].new
        BY <2>2 DEF Keeps, Becomes
      <3>2. usr[u].op # "read" /\ (usr[u].op = "append" => treelock' = treelock)
        BY <1>0, <1>6, <3>1, GotoIdle, IdleFields DEF Scanned, Returns
      <3>3. usr[u].pc \in ActivePCs
        BY <1>6, ScannedEffect DEF ActivePCs, ScanPCs
      <3>4. Fills(u)'
        BY <1>0, <1>3, <3>1, <3>2, <3>3 DEF Fills, NewbornPCs
      <3> QED
        BY <1>4, <3>4, SharesStep
    <2> QED
      BY <1>6, <2>1, <2>2, ScannedEffect
  <1> QED
    BY <1>5, <1>6

LEMMA MakeNodeFills ==
    ASSUME IInv, AppendsHold, NEW u \in Users, MakeNode(u)
    PROVE  AppendsHold'
  <1>0. Fills(u) /\ treelock' = treelock /\ usr[u].pc = "make"
    BY DEF AppendsHold, MakeNode, locks, UserAt
  <1>1. /\ \A v \in Users : v # u => usr'[v] = usr[v]
        /\ usr'[u].op = usr[u].op /\ usr'[u].file = usr[u].file
        /\ \/ usr'[u].pc = "size" /\ allocated' = allocated /\ usr'[u].new = {}
           \/ \E e \in Nodes : /\ usr'[u].pc = "link" /\ usr'[u].cur = e
                               /\ usr'[u].new = usr[u].new \ {e}
                               /\ allocated' = allocated \cup {e}
    BY MakeNodeEffect DEF Becomes
  <1>2. Tree' \subseteq Tree
    BY <1>0, <1>1 DEF Tree
  <1>3. Shares(u)
    BY <1>0, <1>1, <1>2 DEF Shares
  <1>4. usr'[u].new \cap Tree' \subseteq usr[u].new \cap Tree /\ usr[u].pc \in ActivePCs
    BY <1>0, <1>1, <1>2 DEF ActivePCs, NewPCs
  <1>5. Fills(u)'
    BY <1>0, <1>1, <1>4 DEF Fills, NewPCs, NewbornPCs
  <1> QED
    BY <1>3, <1>5, SharesStep

(* No node of the file is inserted while an append holds its tree lock. *)
LEMMA InsertNodeFills ==
    ASSUME IInv, AppendsHold, NEW u \in Users, InsertNode(u)
    PROVE  AppendsHold'
  <1>0. /\ Fills(u) /\ treelock' = treelock /\ usr[u].pc = "insert" /\ allocated' = allocated
        /\ treelock[usr[u].file].writer \in {None, u}
    BY DEF AppendsHold, InsertNode, Unlocked, locks, index, UserAt
  <1>1. /\ \A v \in Users : v # u => usr'[v] = usr[v]
        /\ usr'[u].op = usr[u].op /\ usr'[u].file = usr[u].file
        /\ usr'[u].pc \in {"size", "make"} /\ usr'[u].new = usr[u].new
    BY InsertNodeEffect DEF Becomes
  <1>2. Tree' \subseteq Tree \cup {usr[u].cur}
    BY <1>0, <1>1 DEF Tree
  <1>3. FileOf[usr[u].cur] = usr[u].file /\ usr[u].cur \notin usr[u].new
    BY <1>0 DEF IInv, Intervals, Grasp, Fills, NewbornPCs
  <1>4. Fills(u)'
    <2>1. usr'[u].new \cap Tree' \subseteq usr[u].new \cap Tree /\ usr[u].pc \in ActivePCs
      BY <1>0, <1>1, <1>2, <1>3 DEF ActivePCs, NewPCs
    <2> QED
      BY <1>0, <1>1, <2>1 DEF Fills, NewPCs, NewbornPCs
  <1>5. ASSUME NEW v \in Users, v # u
        PROVE  Fills(v)'
    <2>1. /\ usr'[v] = usr[v] /\ Fills(v) /\ None # v
          /\ \A e \in usr[v].new : FileOf[e] = usr[v].file
      BY <1>1, <1>5, SetsAssumption DEF AppendsHold, IInv, Intervals, Grasp
    <2>2. ASSUME usr[v].op = "append", usr[v].pc \in ActivePCs
          PROVE  usr[v].new \cap Tree' = {}
      <3>1. treelock[usr[v].file].writer = v /\ usr[v].new \cap Tree = {}
        BY <2>1, <2>2 DEF Fills
      <3>2. usr[v].file # usr[u].file
        BY <1>0, <1>5, <2>1, <3>1
      <3>3. usr[u].cur \notin usr[v].new
        BY <1>3, <2>1, <3>2
      <3> QED
        BY <1>2, <3>1, <3>3
    <2> QED
      BY <1>0, <2>1, <2>2 DEF Fills
  <1> QED
    BY <1>4, <1>5 DEF AppendsHold

LEMMA BeginFills ==
    ASSUME IInv, AppendsHold, NEW u \in Users,
           BeginRead(u) \/ BeginWrite(u) \/ BeginAppend(u)
    PROVE  AppendsHold'
  <1>0. TypeOK /\ None \notin Users
    BY SetsAssumption DEF IInv
  <1>1. PICK o \in {"read", "write", "append"}, f \in Files :
          /\ Begin(u, o, f)
          /\ \/ o # "append" /\ treelock' = [treelock EXCEPT ![f].readers = @ \cup {u}]
             \/ Unlocked(f) /\ treelock' = [treelock EXCEPT ![f].writer = u]
    BY DEF BeginRead, BeginWrite, BeginAppend, ReadLock
  <1>2. PICK S, N \in SUBSET Nodes : Starts(u, o, f, S, N)
    BY <1>1, BeginStep
  <1>3. usr[u].pc = "idle" /\ allocated' = allocated
    BY BeginEffect
  <1>4. /\ \A v \in Users : v # u => usr'[v] = usr[v]
        /\ usr'[u].op = o /\ usr'[u].file = f /\ usr'[u].pc \in {"scanned", "lock"}
        /\ usr'[u].new \cap Tree = {}
    BY <1>2 DEF Starts
  <1>5. Tree' \subseteq Tree
    BY <1>3, <1>4, TreeShrinks DEF NewbornPCs
  <1>6. /\ \A v \in Users, g \in Files :
              v # u /\ treelock[g].writer = v => treelock'[g].writer = v
        /\ o = "append" => treelock'[f].writer = u
    <2>1. treelock \in [Files -> [readers : SUBSET Users, writer : Users \cup {None}]]
      BY <1>0 DEF TypeOK
    <2> QED
      BY <1>0, <1>1, <2>1 DEF Unlocked
  <1>7. Shares(u)
    BY <1>4, <1>5, <1>6 DEF Shares
  <1>8. Fills(u)'
    <2>1. usr'[u].new \cap Tree' = {}
      BY <1>4, <1>5
    <2> QED
      BY <1>4, <1>6, <2>1 DEF Fills, NewPCs, NewbornPCs
  <1> QED
    BY <1>7, <1>8, SharesStep

LEMMA BeginDropFills ==
    ASSUME IInv, AppendsHold, NEW u \in Users, BeginDrop(u)
    PROVE  AppendsHold'
  <1>0. TypeOK /\ None \notin Users
    BY SetsAssumption DEF IInv
  <1>1. /\ \A v \in Users : v # u => usr'[v] = usr[v]
        /\ usr[u].pc = "idle" /\ allocated' = allocated
        /\ usr'[u].pc \in {"drop", "dropped"}
    BY BeginDropEffect
  <1>2. PICK f \in Droppable : Unlocked(f) /\ treelock' = [treelock EXCEPT ![f].writer = u]
    BY DEF BeginDrop
  <1>3. \A v \in Users, g \in Files :
           v # u /\ treelock[g].writer = v => treelock'[g].writer = v
    <2>1. treelock \in [Files -> [readers : SUBSET Users, writer : Users \cup {None}]]
      BY <1>0 DEF TypeOK
    <2> QED
      BY <1>0, <1>2, <2>1 DEF Unlocked
  <1>4. Tree' \subseteq Tree
    BY <1>1, TreeShrinks DEF NewbornPCs
  <1>5. Shares(u) /\ Moves(u)
    BY <1>1, <1>3, <1>4 DEF Shares, Moves, ActivePCs, ScanPCs, NewPCs
  <1> QED
    BY <1>5, MovesStep

LEMMA AppendsHoldStep ==
    ASSUME IInv, AppendsHold, [Next]_vars
    PROVE  AppendsHold'
  <1>1. ASSUME NEW u \in Users, Quiet(u)
        PROVE  AppendsHold'
    BY <1>1, StillMoves, MovesStep, UnlockFills, InsertNodeFills DEF Quiet
  <1>2. ASSUME NEW u \in Users,
               \/ LockNode(u) \/ AddCold(u) \/ poly_cache_admit(u) \/ CopyOut(u) \/ CopyIn(u)
               \/ PickVictim(u) \/ EnqueueVictim(u) \/ DropNode(u) \/ FreeIndex(u)
        PROVE  AppendsHold'
    BY <1>2, StillMoves, MovesStep
  <1>3. ASSUME NEW u \in Users,
               MakeNode(u) \/ BeginRead(u) \/ BeginWrite(u) \/ BeginAppend(u) \/ BeginDrop(u)
        PROVE  AppendsHold'
    BY <1>3, MakeNodeFills, BeginFills, BeginDropFills
  <1>4. CASE \/ \E w \in Flushers : TakeJob(w) \/ LockQueue(w) \/ ScanQueue(w) \/ LockVictim(w)
                                    \/ poly_cache_evict(w)
             \/ poly_cache_free
             \/ ExitBegin \/ ExitWait \/ ExitEnd \/ UseFreedMemory \/ UNCHANGED vars
    <2>1. UNCHANGED treelock
      BY <1>4 DEF TakeJob, LockQueue, ScanQueue, LockVictim, poly_cache_evict, poly_cache_free,
         ExitBegin, ExitWait, ExitEnd, UseFreedMemory, vars, locks
    <2>2. UNCHANGED <<usr, allocated>>
      BY <1>4, OtherSteps
    <2> QED
      BY <2>1, <2>2 DEF AppendsHold, Fills, Tree
  <1> QED
    BY <1>1, <1>2, <1>3, <1>4, NextCases

(* The other node is a newborn of a call without the lock, hence a write. *)
LEMMA InvariantAppendsFillOnce ==
    ASSUME IInv, AppendsHold
    PROVE  AppendsFillOnce
  <1> SUFFICES ASSUME NEW u \in Users, usr[u].op = "append", MakesSecond(u)
               PROVE  \E v \in Users : /\ usr[v].op = "write" /\ usr[v].pc \in {"link", "insert"}
                                       /\ usr[v].cur = Min(usr[u].new)
    BY DEF AppendsFillOnce
  <1>1. usr[u].pc = "make" /\ Min(usr[u].new) \in allocated
    BY DEF MakesSecond, UserAt
  <1>2. usr[u].new # {} /\ usr[u].new \in SUBSET Nodes
    BY <1>1 DEF IInv, Intervals, Grasp, TypeOK
  <1>3. PICK e \in usr[u].new : e = Min(usr[u].new) /\ FileOf[e] = usr[u].file
    BY <1>2, MinNode DEF IInv, Intervals, Grasp
  <1>4. treelock[usr[u].file].writer = u /\ e \notin Tree
    BY <1>1, <1>3 DEF AppendsHold, Fills, ActivePCs, NewPCs
  <1>5. PICK v \in Users : usr[v].cur = e /\ usr[v].pc \in NewbornPCs
    BY <1>1, <1>3, <1>4 DEF Tree, NewbornPCs
  <1>6. v # u /\ usr[v].file = usr[u].file /\ usr[v].pc \in NewPCs
    BY <1>1, <1>3, <1>5 DEF IInv, Intervals, Grasp, NewbornPCs, NewPCs
  <1>7. usr[v].op # "append" /\ usr[v].op # "read"
    BY <1>4, <1>6 DEF AppendsHold, Fills, ActivePCs
  <1>8. usr[v].op # "drop" /\ usr[v].op \in {"read", "write", "append", "drop"}
    BY <1>5 DEF IInv, Calls, TypeOK, NewbornPCs, DropPCs
  <1> QED
    BY <1>3, <1>5, <1>7, <1>8 DEF NewbornPCs

(* Appends to a file never make two nodes for one interval among them; the *)
(* other party is a write that fills the hole without the tree lock.  For  *)
(* any number of users, files and nodes.                                   *)
THEOREM AppendsFillHolesOnce == Spec => []AppendsFillOnce
  <1>1. Init => IInv /\ AppendsHold
    <2>1. Init => \A u \in Users : usr[u].pc = "idle"
      BY IdleFields DEF Init
    <2> QED
      BY <2>1, InitInvariant
         DEF AppendsHold, Fills, ActivePCs, ScanPCs, NewPCs, NewbornPCs
  <1>2. IInv /\ AppendsHold /\ [Next]_vars => (IInv /\ AppendsHold)'
    BY InvariantStep, AppendsHoldStep
  <1>3. IInv /\ AppendsHold => AppendsFillOnce
    BY InvariantAppendsFillOnce
  <1> QED
    BY <1>1, <1>2, <1>3, PTL DEF Spec

(* With one user the holes a call has found stay holes until it fills them. *)
OwnHoles == \A u \in Users : usr[u].new \cap allocated = {}

LEMMA OwnHolesStep ==
    ASSUME \A u, v \in Users : u = v, IInv, OwnHoles, [Next]_vars
    PROVE  OwnHoles'
  <1>1. ASSUME NEW u \in Users, SameGrasp(u)
        PROVE  OwnHoles'
    BY <1>1 DEF OwnHoles, SameGrasp
  <1>2. ASSUME NEW u \in Users, MakeNode(u)
        PROVE  OwnHoles'
    <2>1. \/ allocated' = allocated /\ usr'[u].new = {}
          \/ \E e : allocated' = allocated \cup {e} /\ usr'[u].new = usr[u].new \ {e}
      BY <1>2, MakeNodeEffect DEF Becomes
    <2> QED
      BY <2>1 DEF OwnHoles
  <1>3. ASSUME NEW u \in Users, BeginRead(u) \/ BeginWrite(u) \/ BeginAppend(u)
        PROVE  OwnHoles'
    <2>1. usr[u].pc = "idle" /\ allocated' = allocated
      BY <1>3, BeginEffect
    <2>2. Tree = allocated
      BY <2>1 DEF Tree
    <2>3. \A e \in usr'[u].new : e \notin Tree
      BY <1>3, BeginEffect DEF Starts
    <2> QED
      BY <2>1, <2>2, <2>3 DEF OwnHoles
  <1>4. ASSUME NEW u \in Users, BeginDrop(u)
        PROVE  OwnHoles'
    BY <1>4, BeginDropEffect DEF OwnHoles
  <1>5. ASSUME UNCHANGED <<usr, allocated>>
        PROVE  OwnHoles'
    BY <1>5 DEF OwnHoles
  <1> QED
    BY <1>1, <1>2, <1>3, <1>4, <1>5, NextCases, GraspKept, OtherSteps

LEMMA OneUserFillsOnce ==
    ASSUME \A u, v \in Users : u = v
    PROVE  Spec => []FillsOnce
  <1>1. Init => IInv /\ OwnHoles
    <2>1. Init => \A u \in Users : usr[u].new = {}
      BY IdleFields DEF Init
    <2> QED
      BY <2>1, InitInvariant DEF OwnHoles
  <1>2. IInv /\ OwnHoles /\ [Next]_vars => (IInv /\ OwnHoles)'
    BY InvariantStep, OwnHolesStep
  <1>3. IInv /\ OwnHoles => FillsOnce
    <2> SUFFICES ASSUME IInv, OwnHoles, NEW u \in Users, usr[u].pc = "make"
                 PROVE  Min(usr[u].new) \notin allocated
      BY DEF FillsOnce, MakesSecond, UserAt
    <2>1. usr[u].new # {} /\ usr[u].new \in SUBSET Nodes
      BY DEF IInv, Intervals, Grasp, TypeOK
    <2>2. Min(usr[u].new) \in usr[u].new
      BY <2>1, MinNode
    <2> QED
      BY <2>2 DEF OwnHoles
  <1> QED
    BY <1>1, <1>2, <1>3, PTL DEF Spec

-----------------------------------------------------------------------------
(* Theorems about the data. *)

(* Two races of calls lose data: a store to inode->size that is less than  *)
(* what another call has put there (~ SizeKept), and a second node for an  *)
(* interval that another call has filled since the lookup (~ FillsOnce,    *)
(* where the model stops).  In behaviours without either, and as long as   *)
(* pread and pwrite succeed, poly_cache_exit misses no interval: each one  *)
(* written to in a file that still exists is on its device, for any number *)
(* of users.  This is about whole intervals; bytes that a fill loop leaves *)
(* out of an interval or puts elsewhere in it are not told apart.          *)
THEOREM ExitDurableUnlessRaced ==
    ASSUME ~ IOErrors
    PROVE  Spec /\ []SizeKept /\ []FillsOnce => []ExitDurable
  <1>1. Init => IInv /\ Contents /\ SizesCover /\ Flushed
    BY InitInvariant, InitSizes
  <1>2. (IInv /\ Contents /\ SizesCover /\ Flushed) /\ SizeKept /\ [Next]_vars
           => (IInv /\ Contents /\ SizesCover /\ Flushed)'
    BY InvariantStep, ContentsStep, SizesCoverStep, FlushedStep
  <1>3. IInv /\ Contents /\ SizesCover /\ Flushed => ExitDurable
    BY InvariantExitDurable
  <1> QED
    BY <1>1, <1>2, <1>3, PTL DEF Spec

(* An application that makes its calls from one thread meets neither race: *)
(* every interval it has written to in files that still exist is on its    *)
(* device after poly_cache_exit, whatever the flushing threads did         *)
(* meanwhile, as long as pread and pwrite succeed.                         *)
THEOREM ExitIsDurable ==
    ASSUME ~ IOErrors, \A u, v \in Users : u = v
    PROVE  Spec => []FillsOnce /\ []ExitDurable
  BY OneUserKeepsSize, OneUserFillsOnce, ExitDurableUnlessRaced, PTL

(* Refinement: under the hypotheses of ExitDurableUnlessRaced the cache    *)
(* with its lists, locks, dispatcher and workers implements WriteBack, for *)
(* any number of users, workers, files and nodes.                          *)
THEOREM DataKeptUnlessRaced ==
    ASSUME ~ IOErrors
    PROVE  Spec /\ []SizeKept /\ []FillsOnce => KeepsData
  <1>1. Init => Data!Init /\ IInv /\ Contents /\ SizesCover
    BY InitInvariant, InitSizes, InitData
  <1>2. (IInv /\ Contents /\ SizesCover) /\ SizeKept /\ [Next]_vars
           => (IInv /\ Contents /\ SizesCover)'
    BY InvariantStep, ContentsStep, SizesCoverStep
  <1>3. (IInv /\ Contents /\ SizesCover) /\ [Next]_vars => [Data!Next]_(Data!vars)
    BY DataStep
  <1> QED
    BY <1>1, <1>2, <1>3, PTL DEF Spec, KeepsData, Data!Spec

(* The same, without a hypothesis on races, for an application that makes  *)
(* its calls from one thread.                                              *)
THEOREM DataIsKept ==
    ASSUME ~ IOErrors, \A u, v \in Users : u = v
    PROVE  Spec => []FillsOnce /\ KeepsData
  BY OneUserKeepsSize, OneUserFillsOnce, DataKeptUnlessRaced, PTL
=============================================================================
