------------------------------ MODULE DirectIO -------------------------------
(***************************************************************************)
(* Reads, writes, appends and enlarging truncates without the Poly cache   *)
(* (io_direct.c, opedata.c), the data path of the base library: the index  *)
(* of one file maps intervals of NodeSize bytes to extents of two physical *)
(* files, one per device, and every call walks the index under             *)
(* it_tree_lock and moves its bytes with pread and pwrite.                 *)
(*                                                                         *)
(* A byte holds the number of the call that wrote it, 0 in the holes of a  *)
(* physical file.  A step is one system call or one access to shared       *)
(* memory, but for Allocate.  A pread is short at the end of the physical  *)
(* file; a pwrite stores all of its bytes or fails.                        *)
(***************************************************************************)
EXTENDS Integers, Sequences, FiniteSets, FiniteSetsExt

CONSTANTS Users,     \* application threads, each with a descriptor of its own
          NodeSize,  \* POLY_INDEX_NODE_SIZE
          IndexNr,   \* MAX_POLY_INDEX_NODE_NR
          Counts,    \* lengths of calls
          Unit,      \* calls start at multiples of Unit
          Chunk,     \* bytes an enlarging truncate writes at a time
          Roles,     \* how the threads may use the file together
          IOErrors,  \* whether pread and pwrite may fail
          MaxOps,    \* bound: calls in a behaviour
          None       \* no node

RoleNames == {"append", "grow", "overwrite", "anywhere"}

ASSUME SizesAssumption ==
    /\ NodeSize \in Nat \ {0} /\ Unit \in Nat \ {0} /\ Chunk \in Nat \ {0}
    /\ Counts \subseteq Nat \ {0} /\ Counts # {} /\ IsFiniteSet(Counts)
    /\ IndexNr \in Nat \ {0} /\ MaxOps \in Nat /\ IOErrors \in BOOLEAN
ASSUME RolesAssumption == Roles \subseteq [Users -> RoleNames]

Devices   == {"fast", "slow"}
Positions == 0 .. (MaxOps * Max(Counts) - 1)
Values    == 0 .. MaxOps

VARIABLES
    dev,       \* per device: the bytes of the physical file
    tree,      \* nodes in the interval tree, in the order of their insertion
    next,      \* next_avail_it_node_no
    treelock,  \* it_tree_lock: its readers and its writer
    isize,     \* inode->size
    placed,    \* inode->placement is BLK_PLACEMENT_BOTH, no longer TBD
    off,       \* per user: file->off
    usr,       \* per user: the call in progress and its locals
    role,      \* how each thread uses the file
    ops        \* calls made so far

vars == <<dev, tree, next, treelock, isize, placed, off, usr, role, ops>>
index == <<tree, next>>

Node == [start : Nat, place : Devices, offset : Nat]
ASSUME NoneAssumption == None \notin Node

TypeOK ==
    /\ dev \in [Devices -> Seq(Values)]
    /\ tree \in Seq(Node) /\ next \in Nat
    /\ treelock \in [readers : SUBSET Users, writer : SUBSET Users]
    /\ isize \in Nat /\ placed \in BOOLEAN
    /\ off \in [Users -> Nat]
    /\ usr \in [Users -> [pc : {"idle", "lock", "chunk", "next", "scanned", "fill", "new", "insert",
                                "size", "store", "more"},
                          op : {"read", "write", "append"}, seq : BOOLEAN, count : Nat,
                          lo : Nat, start : Nat, end : Int, copied : Nat, val : Values,
                          cur : Node \cup {None}, snap : Nat, remain : Nat]]
    /\ role \in Roles /\ ops \in 0 .. MaxOps

IdleUser == [pc |-> "idle", op |-> "read", seq |-> FALSE, count |-> 0, lo |-> 0, start |-> 0,
             end |-> -1, copied |-> 0, val |-> 0, cur |-> None, snap |-> 0, remain |-> 0]

(* A new file: nothing on either device, an empty index. *)
Init ==
    /\ dev = [d \in Devices |-> <<>>]
    /\ tree = <<>> /\ next = 1
    /\ treelock = [readers |-> {}, writer |-> {}]
    /\ isize = 0 /\ placed = FALSE
    /\ off = [u \in Users |-> 0]
    /\ usr = [u \in Users |-> IdleUser]
    /\ role \in Roles
    /\ ops = 0

-----------------------------------------------------------------------------
(* The index and the physical files. *)

Last(n) == n.start + NodeSize - 1

(* polystore_index_lookup and, for a range whose front has been dealt      *)
(* with, polystore_index_lookup_next: the first node of the tree that      *)
(* overlaps lo .. hi.                                                      *)
Lookup(lo, hi) ==
    LET hits == {i \in DOMAIN tree : tree[i].start <= hi /\ lo <= Last(tree[i])}
    IN  IF lo > hi \/ hits = {} THEN None
        ELSE tree[CHOOSE i \in hits : \A j \in hits :
                     \/ tree[i].start < tree[j].start
                     \/ tree[i].start = tree[j].start /\ i <= j]

(* pwrite and pread on a physical file. *)
Pwrite(s, pos, n, v) ==
    [i \in 1 .. Max({Len(s), pos + n}) |->
        IF i \in (pos + 1) .. (pos + n) THEN v ELSE IF i <= Len(s) THEN s[i] ELSE 0]
PreadCount(s, pos, n) == Max({0, Min({n, Len(s) - pos})})

(* What a call of n bytes may return. *)
Results(n) == {n} \cup (IF IOErrors THEN {-1} ELSE {})

(* The byte of the file at p, as the index leads to it. *)
ByteAt(s, i) == IF i < Len(s) THEN s[i + 1] ELSE 0
View(p) ==
    LET n == Lookup(p, p)
    IN  IF n = None THEN 0 ELSE ByteAt(dev[n.place], n.offset + p - n.start)

Step(u, r) == usr' = [usr EXCEPT ![u] = r]
At(u, p) == usr[u].pc = p

(* The walk goes on at the node the lookup found, or ends. *)
Walk(r) ==
    LET n == Lookup(r.start, r.end)
    IN  [r EXCEPT !.cur = n, !.pc = IF n = None THEN "scanned" ELSE "chunk"]

(* polystore_io_set_range *)
SetRange(r, from) == [r EXCEPT !.lo = from, !.start = from, !.end = from + r.count - 1]

ReadLocked(u)  == treelock' = [treelock EXCEPT !.readers = @ \cup {u}]
Unlocked(u)    == treelock' = [readers |-> treelock.readers \ {u},
                               writer  |-> treelock.writer \ {u}]
MayRead        == treelock.writer = {}
MayWrite(u)    == treelock.readers = {} /\ treelock.writer \subseteq {u}

-----------------------------------------------------------------------------
(* The calls. *)

(* What a thread does with the file: append (O_APPEND); write up to and    *)
(* past its end, without leaving a gap; write inside of it; or anything.   *)
Allowed(u, lo, n) ==
    CASE role[u] = "append"    -> TRUE
      [] role[u] = "grow"      -> lo <= isize
      [] role[u] = "overwrite" -> lo + n <= isize
      [] role[u] = "anywhere"  -> lo + n - 1 \in Positions

(* A call starts at the offset it is given or at file->off. *)
Starts(u) == {[seq |-> FALSE, from |-> p] : p \in {q \in Positions : q % Unit = 0}}
             \cup {[seq |-> TRUE, from |-> off[u]]}
Begin(u, o, n, s) ==
    /\ At(u, "idle") /\ ops < MaxOps
    /\ Step(u, SetRange([IdleUser EXCEPT !.pc = "lock", !.op = o, !.seq = s.seq, !.count = n,
                            !.val = IF o = "read" THEN 0 ELSE ops + 1], s.from))
    /\ ops' = ops + 1
    /\ UNCHANGED <<dev, index, treelock, isize, off, role>>

(* polystore_read_generic; it returns at once when nothing was written. *)
ReadCall(u) ==
    /\ placed
    /\ \E n \in Counts, s \in Starts(u) : s.from <= isize /\ Begin(u, "read", n, s)
    /\ UNCHANGED placed

(* polystore_write_generic: the first write makes the file one whose data  *)
(* is placed by the index.                                                 *)
WriteCall(u) ==
    /\ \E n \in Counts, s \in Starts(u) :
          /\ Allowed(u, s.from, n)
          /\ IF role[u] = "append" THEN (~ s.seq => s.from = 0) /\ Begin(u, "append", n, s)
             ELSE Begin(u, "write", n, s)
    /\ placed' = TRUE

(* polystore_ftruncate to a greater length, which changes neither file->off *)
(* nor inode->placement.  What is written is whatever the buffer holds.    *)
TruncateCall(u) ==
    /\ At(u, "idle") /\ ops < MaxOps
    /\ role[u] \in {"grow", "anywhere"}
    /\ \E n \in Counts :
          Step(u, [IdleUser EXCEPT !.pc = "more", !.op = "write", !.val = ops + 1, !.remain = n])
    /\ ops' = ops + 1
    /\ UNCHANGED <<dev, index, treelock, isize, placed, off, role>>

(* polystore_ftruncate_iter: the next piece goes where the file ends now. *)
NextChunk(u) ==
    LET n == Min({Chunk, usr[u].remain})
    IN  /\ At(u, "more")
        /\ Step(u, SetRange([usr[u] EXCEPT !.pc = "lock", !.count = n, !.copied = 0,
                                 !.remain = @ - n], isize))
        /\ UNCHANGED <<dev, index, treelock, isize, placed, off, role, ops>>

(* polystore_lseek: SEEK_SET, and the places SEEK_CUR and SEEK_END lead to. *)
polystore_lseek(u) ==
    /\ At(u, "idle") /\ ops < MaxOps
    /\ \E p \in {p \in 0 .. isize : p % Unit = 0} \ {off[u]} : off' = [off EXCEPT ![u] = p]
    /\ ops' = ops + 1
    /\ UNCHANGED <<dev, index, treelock, isize, placed, usr, role>>

(* Take the tree lock and find the first node.  An append takes it for     *)
(* writing and only then decides where it starts: at the end of the file.  *)
LockRead(u) ==
    /\ At(u, "lock") /\ usr[u].op \in {"read", "write"}
    /\ MayRead /\ ReadLocked(u)
    /\ Step(u, Walk(usr[u]))
    /\ UNCHANGED <<dev, index, isize, placed, off, role, ops>>

(* Mutant of LockWrite: the range is the one set before the lock. *)
LockWrite_early(u) ==
    /\ At(u, "lock") /\ usr[u].op = "append"
    /\ MayWrite(u) /\ treelock' = [treelock EXCEPT !.writer = {u}]
    /\ Step(u, Walk(usr[u]))
    /\ UNCHANGED <<dev, index, isize, placed, off, role, ops>>

LockWrite(u) ==
    /\ At(u, "lock") /\ usr[u].op = "append"
    /\ MayWrite(u) /\ treelock' = [treelock EXCEPT !.writer = {u}]
    /\ Step(u, Walk(SetRange(usr[u], isize)))
    /\ UNCHANGED <<dev, index, isize, placed, off, role, ops>>

(* Mutant of Position: the place inside of the node is left out. *)
Position_front(r) == r.cur.offset

(* The part of the range in the node at hand, where it is in the physical  *)
(* file, and the call after it.  The size field of a node, which the code  *)
(* sets here, is not read on this path and is left out.                    *)
ChunkCount(r) == IF Last(r.cur) < r.end THEN Last(r.cur) - r.start + 1 ELSE r.end - r.start + 1
Position(r)   == r.cur.offset + (r.start - r.cur.start)
Advance(r, n) ==
    [r EXCEPT !.copied = @ + n, !.pc = "next",
              !.start = IF Last(r.cur) < r.end THEN Last(r.cur) + 1 ELSE r.end + 1]
AdvanceOff(u, n) == off' = IF usr[u].seq THEN [off EXCEPT ![u] = @ + n] ELSE off

(* pread of the part in one node; it is short at the end of the physical   *)
(* file, and the walk goes on all the same.                                *)
ReadChunk(u) ==
    LET r == usr[u]
    IN  /\ At(u, "chunk") /\ r.op = "read"
        /\ \E n \in Results(PreadCount(dev[r.cur.place], Position(r), ChunkCount(r))) :
              /\ Step(u, IF n < 0 THEN [r EXCEPT !.pc = "scanned"] ELSE Advance(r, n))
              /\ AdvanceOff(u, Max({0, n}))
        /\ UNCHANGED <<dev, index, treelock, isize, placed, role, ops>>

(* pwrite of the part in one node; a failure ends the walk. *)
WriteChunk(u) ==
    LET r == usr[u]
    IN  /\ At(u, "chunk") /\ r.op # "read"
        /\ \E n \in Results(ChunkCount(r)) :
              /\ dev' = IF n < 0 THEN dev
                        ELSE [dev EXCEPT ![r.cur.place] = Pwrite(@, Position(r), n, r.val)]
              /\ Step(u, IF n < 0 THEN [r EXCEPT !.pc = "scanned"] ELSE Advance(r, n))
              /\ AdvanceOff(u, Max({0, n}))
        /\ UNCHANGED <<index, treelock, isize, placed, role, ops>>

(* polystore_index_lookup_next *)
NextNode(u) ==
    /\ At(u, "next")
    /\ Step(u, Walk(usr[u]))
    /\ UNCHANGED <<dev, index, treelock, isize, placed, off, role, ops>>

(* Mutant of Scanned: an append, too, fills its range without the lock. *)
Scanned_release(u) ==
    LET r == usr[u]
    IN  /\ At(u, "scanned")
        /\ Unlocked(u)
        /\ Step(u, IF r.op = "read" THEN IdleUser ELSE [r EXCEPT !.pc = "fill", !.cur = None])
        /\ UNCHANGED <<dev, index, isize, placed, off, role, ops>>

(* The walk is over: a read returns, a write gives up the lock before it   *)
(* fills what is left of its range, an append keeps it.                    *)
Scanned(u) ==
    LET r == usr[u]
    IN  /\ At(u, "scanned")
        /\ IF r.op = "append" THEN UNCHANGED treelock ELSE Unlocked(u)
        /\ Step(u, IF r.op = "read" THEN IdleUser ELSE [r EXCEPT !.pc = "fill", !.cur = None])
        /\ UNCHANGED <<dev, index, isize, placed, off, role, ops>>

(* The first position not below pos where an extent may start. *)
Ceiling(pos) == IF pos % NodeSize = 0 THEN pos ELSE ((pos \div NodeSize) + 1) * NodeSize

(* Mutant of NewNode: the start is masked one node too low. *)
NewNode_low(from, d) == [start |-> ((from \div NodeSize) - 1) * NodeSize, place |-> d,
                         offset |-> Ceiling(Len(dev[d]))]

(* A new node for the part of the range no node covers, with an extent     *)
(* behind the last byte of the physical file, on the device the task is    *)
(* placed on at this moment.                                               *)
NewNode(from, d) == [start |-> from - (from % NodeSize), place |-> d,
                     offset |-> Ceiling(Len(dev[d]))]

(* polystore_index_entry_allocate: are there node numbers left? *)
NodesLeft == next <= IndexNr

(* polystore_index_entry_allocate and lseek; the loop ends when the range  *)
(* is filled or the numbers of nodes are used up.  Counting the number,    *)
(* reading the placement and lseek are one step, at the time of lseek: the *)
(* placement is open, and only another Allocate looks at the count, which  *)
(* can tell the difference when it gets the first number too many.         *)
Allocate(u) ==
    LET r == usr[u]
    IN  /\ At(u, "fill")
        /\ \/ /\ r.start < r.end /\ NodesLeft
              /\ next' = next + 1
              /\ \E d \in Devices : Step(u, [r EXCEPT !.pc = "new", !.cur = NewNode(r.start, d)])
           \/ /\ r.start < r.end /\ ~ NodesLeft
              /\ next' = next + 1
              /\ Step(u, [r EXCEPT !.pc = "size"])
           \/ /\ r.start >= r.end
              /\ UNCHANGED next
              /\ Step(u, [r EXCEPT !.pc = "size"])
        /\ UNCHANGED <<dev, tree, treelock, isize, placed, off, role, ops>>

NewCount(r) == Min({r.end - r.start + 1, NodeSize})

(* The bytes go to the front of the extent; a failure is only reported. *)
WriteNew(u) ==
    LET r == usr[u]
    IN  /\ At(u, "new")
        /\ \E n \in Results(NewCount(r)) :
              dev' = IF n < 0 THEN dev
                     ELSE [dev EXCEPT ![r.cur.place] = Pwrite(@, r.cur.offset, n, r.val)]
        /\ Step(u, [r EXCEPT !.pc = "insert"])
        /\ UNCHANGED <<index, treelock, isize, placed, off, role, ops>>

(* Mutant of InsertNode: a write inserts without the lock. *)
InsertNode_unlocked(u) ==
    LET r == usr[u]
        n == NewCount(r)
    IN  /\ At(u, "insert")
        /\ tree' = Append(tree, r.cur)
        /\ Step(u, [r EXCEPT !.pc = "fill", !.cur = None, !.copied = @ + n, !.start = @ + n])
        /\ AdvanceOff(u, n)
        /\ UNCHANGED <<dev, next, treelock, isize, placed, role, ops>>

(* polystore_index_insert, by a write under a lock of its own. *)
InsertNode(u) ==
    LET r == usr[u]
        n == NewCount(r)
    IN  /\ At(u, "insert")
        /\ MayWrite(u)
        /\ tree' = Append(tree, r.cur)
        /\ Step(u, [r EXCEPT !.pc = "fill", !.cur = None, !.copied = @ + n, !.start = @ + n])
        /\ AdvanceOff(u, n)
        /\ UNCHANGED <<dev, next, treelock, isize, placed, role, ops>>

(* Mutant of SizeAppend: the tree lock is kept. *)
SizeAppend_locked(u) ==
    /\ At(u, "size") /\ usr[u].op = "append"
    /\ isize' = Max({usr[u].end + 1, isize})
    /\ UNCHANGED treelock
    /\ Step(u, IdleUser)
    /\ UNCHANGED <<dev, index, placed, off, role, ops>>

(* inode->size grows to cover the range, and the call returns: an append   *)
(* still under the lock, a write by a load and a store under none.         *)
SizeAppend(u) ==
    /\ At(u, "size") /\ usr[u].op = "append"
    /\ isize' = Max({usr[u].end + 1, isize})
    /\ Unlocked(u)
    /\ Step(u, IdleUser)
    /\ UNCHANGED <<dev, index, placed, off, role, ops>>

LoadSize(u) ==
    /\ At(u, "size") /\ usr[u].op = "write"
    /\ Step(u, [usr[u] EXCEPT !.pc = "store", !.snap = isize])
    /\ UNCHANGED <<dev, index, treelock, isize, placed, off, role, ops>>

StoreSize(u) ==
    /\ At(u, "store")
    /\ isize' = Max({usr[u].end + 1, usr[u].snap})
    /\ Step(u, IF usr[u].remain > 0 THEN [usr[u] EXCEPT !.pc = "more"] ELSE IdleUser)
    /\ UNCHANGED <<dev, index, treelock, placed, off, role, ops>>

UserStep(u) ==
    \/ LockRead(u) \/ LockWrite(u) \/ ReadChunk(u) \/ WriteChunk(u) \/ NextNode(u) \/ Scanned(u)
    \/ Allocate(u) \/ WriteNew(u) \/ InsertNode(u)
    \/ SizeAppend(u) \/ LoadSize(u) \/ StoreSize(u) \/ NextChunk(u)

(* No call is left to make; whether the last ones return is for            *)
(* CallsReturn to say.                                                     *)
Done == ops = MaxOps /\ UNCHANGED vars

Next == Done \/ \E u \in Users : \/ ReadCall(u) \/ WriteCall(u) \/ TruncateCall(u)
                                 \/ polystore_lseek(u) \/ UserStep(u)

Spec == Init /\ [][Next]_vars
FairSpec == Spec /\ \A u \in Users : WF_vars(UserStep(u))

-----------------------------------------------------------------------------
(* The properties. *)

(* The file the index and the two physical files make up. *)
InCall(u) == usr[u].op # "read" /\ usr[u].pc \notin {"idle", "lock", "more"}
Store == INSTANCE FileStore WITH
    bytes <- [p \in Positions |-> View(p)],
    call  <- [u \in Users |->
                IF InCall(u)
                THEN [lo |-> usr[u].lo, hi |-> usr[u].end, val |-> usr[u].val,
                      done |-> usr[u].copied]
                ELSE [lo |-> 0, hi |-> -1, val |-> 0, done |-> 0]],
    full  <- ~ NodesLeft

(* Through all interleavings of walks, extents and insertions, the calls   *)
(* of io_direct.c do to the file what FileStore promises: a call stores    *)
(* its own range, in order and whole unless node numbers run out, and no   *)
(* step changes a byte another call stored elsewhere.                      *)
StoresFile == Store!Spec

(* The extents of nodes, and of the ones about to be inserted, never       *)
(* overlap on a device: lseek to the end of the physical file, rounded up, *)
(* is past every extent handed out (io_direct.c, "Determine the offset in  *)
(* corresponding physical files").                                         *)
ExtentsDisjoint ==
    LET known == {tree[i] : i \in DOMAIN tree}
                 \cup {usr[u].cur : u \in {v \in Users : usr[v].pc \in {"new", "insert"}}}
    IN  /\ \A m, n \in known :
              m # n /\ m.place = n.place =>
                  m.offset + NodeSize <= n.offset \/ n.offset + NodeSize <= m.offset
        /\ \A i, j \in DOMAIN tree : i # j => tree[i].start # tree[j].start

(* No append overwrites what another call stored, however many appenders   *)
(* wait for the lock: polystore_append_iter decides where it starts only   *)
(* once it has it.                                                         *)
AppendsAdd ==
    [][\A u \in Users : usr[u].op = "append" /\ usr'[u] # usr[u] =>
          \A p \in Positions : View(p) # 0 => View(p)' = View(p)]_vars

(* Byte i of the caller's buffer stands for byte lo + i of the file as     *)
(* long as the call goes on: a pread that is short at the end of the       *)
(* physical file is the last one of its call, since no node can be         *)
(* inserted behind it while the reader holds the tree lock.                *)
BufferInStep ==
    \A u \in Users : usr[u].pc \in {"chunk", "fill", "new", "insert"} =>
                        usr[u].copied = usr[u].start - usr[u].lo

(* Every call returns: nobody waits for the tree lock for ever. *)
CallsReturn == \A u \in Users : ~ At(u, "idle") ~> At(u, "idle")
=============================================================================
