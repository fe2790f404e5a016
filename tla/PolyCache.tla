------------------------------ MODULE PolyCache ------------------------------
(***************************************************************************)
(* The Poly cache: index nodes (intervals) whose data is buffered in       *)
(* memory, the cold LRU list, the dispatcher that moves cold intervals to  *)
(* the flushing queues, the flushing workers, cache drop on unlink and the *)
(* final write-back at exit (cache.c), driven by the buffered reads,       *)
(* writes and appends of io_buffered.c.                                    *)
(*                                                                         *)
(* Data is abstracted to what can go wrong with it: a copy of an interval  *)
(* (its cache buffer, its extent on the device) is "fresh" when it holds   *)
(* the result of every write to the interval so far, else "stale".  Sizes  *)
(* are counted in units of POLY_INDEX_NODE_SIZE.                           *)
(*                                                                         *)
(* A step is what a thread does between two lock operations, or one access *)
(* to a word that is shared without a lock; a critical section in which no *)
(* other lock is taken is one step.                                        *)
(***************************************************************************)
EXTENDS Integers, Sequences, FiniteSets, SequencesExt

CONSTANTS Nodes,       \* it_node_entry structures, numbered by their place in the file
          Files,       \* Poly-inodes
          FileOf,      \* the index a node belongs to
          Users,       \* application threads
          Flushers,    \* threads of poly_cache_thpool
          IndexNr,     \* MAX_POLY_INDEX_NODE_NR, nodes the index of a file may have
          QueueNr,     \* poly_cache_flushing_thread_nr
          FlushBegin,  \* poly_cache_flushing_begin
          FlushEnd,    \* poly_cache_flushing_end
          Droppable,   \* the files the application may unlink
          IOErrors,    \* whether open, pread and pwrite may fail in the cache
          MaxOps,      \* bound: I/O calls and unlinks in a behaviour
          None         \* no thread, no node, no file

ASSUME QueueAssumption == QueueNr \in {1, 2, 4, 8}
ASSUME ThresholdAssumption == FlushBegin \in Nat /\ FlushEnd \in 1 .. FlushBegin
ASSUME SetsAssumption ==
    /\ FileOf \in [Nodes -> Files] /\ Droppable \subseteq Files
    /\ Nodes \subseteq Nat \ {0} /\ IndexNr \in Nat
    /\ None \notin Nodes \cup Files \cup Users \cup Flushers
    /\ Users \cap Flushers = {}
    /\ IOErrors \in BOOLEAN /\ MaxOps \in Nat

Queues == 0 .. QueueNr - 1

VARIABLES
    node,       \* per node: the fields of it_node_entry, and its data on disk
    allocated,  \* nodes given out by polystore_index_entry_allocate
    isize,      \* per file: inode->size, as the last node it covers
    lock,       \* per node: the owner of the interval mutex
    treelock,   \* per file: it_tree_lock, its readers and its writer
    cold,       \* interval_cold_list
    spin,       \* the owner of lru_cold_list_lock
    queue,      \* poly_cache_flushing_queue
    qmutex,     \* the owners of poly_cache_flushing_queue_mutex
    size,       \* poly_cache_size
    indicator,  \* poly_cache_flushing_indicator
    jobs,       \* queue ids handed to the thread pool and not yet started
    fstate,     \* per file: "live", "dropping", "freed" (index memory gone)
    undefined,  \* a thread used a node whose memory is gone; nothing follows
    phase,      \* "run", then poly_cache_exit: "wait", "free", "done"
    usr,        \* per user: the call in progress and its locals
    fl,         \* per flusher: where it is and the queue it serves
    ops         \* calls made so far

locks == <<lock, treelock, spin, qmutex>>
index == <<allocated, isize>>
lists == <<cold, queue>>
vars == <<node, index, locks, lists, size, indicator, jobs, fstate, undefined,
          phase, usr, fl, ops>>

ScanPCs     == {"lock", "cold", "admit", "copy", "scanned"}
NewPCs      == {"make", "link", "insert", "size", "store"}
DispatchPCs == {"snap", "spin", "pick", "queue", "reset", "launch"}
DropPCs     == {"drop", "dropped", "free"}
UserPCs     == {"idle", "check", "tas"} \cup ScanPCs \cup NewPCs \cup DispatchPCs
               \cup DropPCs

TypeOK ==
    /\ node \in [Nodes -> [buf : {"null", "stale", "fresh"}, disk : {"stale", "fresh"},
                           present : BOOLEAN, dirty : BOOLEAN, cache_size : {0, 1},
                           removed : BOOLEAN]]
    /\ allocated \subseteq Nodes /\ isize \in [Files -> Nodes \cup {0}]
    /\ lock \in [Nodes -> Users \cup Flushers \cup {None}]
    /\ treelock \in [Files -> [readers : SUBSET Users, writer : Users \cup {None}]]
    /\ cold \in Seq(Nodes) /\ queue \in [Queues -> Seq(Nodes)]
    /\ spin \in Users \cup {None}
    /\ qmutex \in [Queues -> Flushers \cup {None}]
    /\ size \in Nat /\ indicator \in {0, 1} /\ jobs \in Seq(Queues)
    /\ fstate \in [Files -> {"live", "dropping", "freed"}]
    /\ undefined \in BOOLEAN /\ phase \in {"run", "wait", "free", "done"}
    /\ usr \in [Users -> [pc : UserPCs, op : {"read", "write", "append", "drop"},
                          file : Files \cup {None}, cur : Nodes \cup {None},
                          todo : SUBSET Nodes, new : SUBSET Nodes, end : Nodes \cup {0},
                          rr : Nat, snap : Nat]]
    /\ fl \in [Flushers -> [pc : {"idle", "qlock", "scan", "lock", "evict"}, q : Queues]]
    /\ ops \in 0 .. MaxOps

-----------------------------------------------------------------------------
(* The index. *)

(* The nodes a lookup finds: allocated and already inserted in the tree. *)
Tree == {e \in allocated :
            \A u \in Users : usr[u].cur = e => usr[u].pc \notin {"link", "insert"}}
TreeOf(f) == {e \in Tree : FileOf[e] = f}

(* Mutant of Covered: the last interval of the file is left out. *)
Covered_short(f) == {e \in TreeOf(f) : e < isize[f]}

(* The nodes a lookup of the whole file, up to inode->size, finds. *)
Covered(f) == {e \in TreeOf(f) : e <= isize[f]}

Unlocked(f) == treelock[f] = [readers |-> {}, writer |-> None]

(* The locked region of the tree ends: unlock, as reader or as writer. *)
UnlockTree(u) ==
    LET f == usr[u].file
    IN  treelock' = [treelock EXCEPT
            ![f] = [readers |-> @.readers \ {u},
                    writer |-> IF @.writer = u THEN None ELSE @.writer]]

(* Memory of nodes the kernel has freed (free_poly_index); using it is     *)
(* undefined.  A list operation uses the node and its list neighbours.     *)
Gone(e) == fstate[FileOf[e]] = "freed"
Neighbours(l, e) ==
    {l[i] : i \in {i \in DOMAIN l : \E j \in DOMAIN l : l[j] = e /\ i \in (j - 1) .. (j + 1)}}
Tails(l) == IF l = <<>> THEN {} ELSE {Last(l)}

(* Where threads are; a thread that used memory that is gone, and with it  *)
(* the process, may do anything, and nothing is modelled after that.       *)
UserAt(u, p)    == ~ undefined /\ usr[u].pc = p
FlusherAt(w, p) == ~ undefined /\ fl[w].pc = p
ProcessAt(p)    == ~ undefined /\ phase = p

(* The next statement of a user; its locals go when the call returns. *)
IdleUser == [pc |-> "idle", op |-> "read", file |-> None, cur |-> None, todo |-> {},
             new |-> {}, end |-> 0, rr |-> 0, snap |-> 0]
Goto(u, p) ==
    usr' = [usr EXCEPT ![u] = IF p = "idle" THEN IdleUser ELSE [@ EXCEPT !.pc = p]]

-----------------------------------------------------------------------------
(* Buffered I/O: polystore_{read,write,append}_iter_polycache. *)

(* The next interval of the range, in file order, or the end of the scan. *)
Scan(r, S) ==
    IF S = {} THEN [r EXCEPT !.todo = S, !.cur = None, !.pc = "scanned"]
    ELSE [r EXCEPT !.todo = S, !.cur = Min(S), !.pc = "lock"]

(* A call starts: it looks up the intervals of its range lo .. hi.  Holes  *)
(* are at the end of the range, for a write or append to fill; the code    *)
(* does not handle others.  The step includes the wait for the tree lock.  *)
Begin(u, o, f) ==
    /\ phase = "run" /\ ops < MaxOps
    /\ UserAt(u, "idle") /\ fstate[f] = "live"
    /\ \E lo, hi \in {e \in Nodes : FileOf[e] = f} :
          LET range == {e \in lo .. hi : e \in Nodes /\ FileOf[e] = f}
              found == range \cap TreeOf(f)
              new   == range \ found
          IN  /\ lo <= hi
              /\ \A x \in found, y \in new : x < y
              /\ o = "read" => new = {}
              /\ usr' = [usr EXCEPT ![u] =
                    Scan([@ EXCEPT !.op = o, !.file = f, !.new = new, !.end = hi], found)]
    /\ ops' = ops + 1
    /\ UNCHANGED <<node, index, lock, spin, qmutex, lists, size, indicator, jobs,
                   fstate, undefined, phase, fl>>

(* Reads and writes scan under the tree lock for reading, appends for      *)
(* writing.                                                                *)
ReadLock(u, f) ==
    /\ treelock[f].writer = None
    /\ treelock' = [treelock EXCEPT ![f].readers = @ \cup {u}]

BeginRead(u)   == \E f \in Files : ReadLock(u, f) /\ Begin(u, "read", f)
BeginWrite(u)  == \E f \in Files : ReadLock(u, f) /\ Begin(u, "write", f)
BeginAppend(u) ==
    \E f \in Files : /\ Unlocked(f)
                     /\ treelock' = [treelock EXCEPT ![f].writer = u]
                     /\ Begin(u, "append", f)

(* Mutant of LockNode: the interval is put on the cold list on every access. *)
LockNode_always_add(u) ==
    LET e == usr[u].cur
    IN  /\ UserAt(u, "lock")
        /\ lock[e] = None
        /\ lock' = [lock EXCEPT ![e] = u]
        /\ node' = [node EXCEPT ![e].buf = IF @ = "null" THEN "stale" ELSE @]
        /\ Goto(u, "cold")
        /\ UNCHANGED <<index, treelock, spin, qmutex, lists, size, indicator, jobs,
                       fstate, undefined, phase, fl, ops>>

(* Lock the interval; give it a buffer if it has none. *)
LockNode(u) ==
    LET e == usr[u].cur
    IN  /\ UserAt(u, "lock")
        /\ lock[e] = None
        /\ lock' = [lock EXCEPT ![e] = u]
        /\ \/ /\ node[e].buf = "null"
              /\ node' = [node EXCEPT ![e].buf = "stale"]
              /\ Goto(u, "cold")
           \/ /\ node[e].buf # "null"
              /\ Goto(u, "admit")
              /\ UNCHANGED node
        /\ UNCHANGED <<index, treelock, spin, qmutex, lists, size, indicator, jobs,
                       fstate, undefined, phase, fl, ops>>

(* poly_cache_add_lru_cold_list, for an interval that just got a buffer or *)
(* that was just created.                                                  *)
AddCold(u) ==
    /\ UserAt(u, "cold") \/ UserAt(u, "link")
    /\ spin = None
    /\ \A x \in Tails(cold) : ~ Gone(x)
    /\ cold' = Append(cold, usr[u].cur)
    /\ Goto(u, IF usr[u].pc = "cold" THEN "admit" ELSE "insert")
    /\ UNCHANGED <<node, index, locks, queue, size, indicator, jobs, fstate,
                   undefined, phase, fl, ops>>

(* Mutant of Admitted: the test of the present flag is inverted. *)
Admitted_unread(n, o) ==
    {[n EXCEPT !.buf = IF n.present THEN b ELSE @,
               !.present = TRUE,
               !.dirty = @ \/ o # "read",
               !.cache_size = 1] :
        b \in {n.disk} \cup (IF IOErrors THEN {"stale"} ELSE {})}

(* What poly_cache_admit does to a node: load it unless it is present; a   *)
(* failed pread is reported and the interval is marked present all the     *)
(* same.  pread uses the descriptor of the call, and fails on one that is  *)
(* open for writing only; without IOErrors descriptors can be read from.   *)
Admitted(n, o) ==
    {[n EXCEPT !.buf = IF n.present THEN @ ELSE b,
               !.present = TRUE,
               !.dirty = @ \/ o # "read",
               !.cache_size = 1] :
        b \in {n.disk} \cup (IF IOErrors THEN {"stale"} ELSE {})}

poly_cache_admit(u) ==
    LET e == usr[u].cur
    IN  /\ UserAt(u, "admit")
        /\ \E n \in Admitted(node[e], usr[u].op) : node' = [node EXCEPT ![e] = n]
        /\ size' = size + (1 - node[e].cache_size)
        /\ Goto(u, "copy")
        /\ UNCHANGED <<index, locks, lists, indicator, jobs, fstate, undefined,
                       phase, fl, ops>>

(* memcpy between the user's memory and the buffer, then unlock.  A write  *)
(* changes part of the interval: a fresh buffer stays fresh, a stale one   *)
(* stays stale, and the device is behind.                                  *)
CopyOut(u) ==
    LET e == usr[u].cur
    IN  /\ UserAt(u, "copy") /\ usr[u].op = "read"
        /\ lock' = [lock EXCEPT ![e] = None]
        /\ usr' = [usr EXCEPT ![u] = Scan(@, @.todo \ {e})]
        /\ UNCHANGED <<node, index, treelock, spin, qmutex, lists, size, indicator, jobs,
                       fstate, undefined, phase, fl, ops>>

CopyIn(u) ==
    LET e == usr[u].cur
    IN  /\ UserAt(u, "copy") /\ usr[u].op \in {"write", "append"}
        /\ node' = [node EXCEPT ![e].disk = "stale"]
        /\ lock' = [lock EXCEPT ![e] = None]
        /\ usr' = [usr EXCEPT ![u] = Scan(@, @.todo \ {e})]
        /\ UNCHANGED <<index, treelock, spin, qmutex, lists, size, indicator, jobs,
                       fstate, undefined, phase, fl, ops>>

(* Mutant of Scanned: an append gives the tree lock back as a write does. *)
Scanned_unlocks(u) ==
    LET r == usr[u]
    IN  /\ UserAt(u, "scanned")
        /\ UnlockTree(u)
        /\ Goto(u, IF r.op = "read" THEN "idle" ELSE IF r.new # {} THEN "make" ELSE "size")
        /\ UNCHANGED <<node, index, lock, spin, qmutex, lists, size, indicator, jobs,
                       fstate, undefined, phase, fl, ops>>

(* The scan is over.  A read returns; a write gives the tree lock back     *)
(* before it fills the hole at the end of its range, an append keeps it.   *)
Scanned(u) ==
    LET r == usr[u]
    IN  /\ UserAt(u, "scanned")
        /\ IF r.op = "append" THEN UNCHANGED treelock ELSE UnlockTree(u)
        /\ Goto(u, IF r.op = "read" THEN "idle" ELSE IF r.new # {} THEN "make" ELSE "size")
        /\ UNCHANGED <<node, index, lock, spin, qmutex, lists, size, indicator, jobs,
                       fstate, undefined, phase, fl, ops>>

(* A new node, filled and counted before anyone else can find it; when the *)
(* index is full the loop ends.  A call that looked up its range before    *)
(* another one inserted the node makes a second node for the interval; the *)
(* model follows the call no further than that.  (A hole of a single byte  *)
(* is skipped by the loop, and the bytes go to the front of the buffer     *)
(* wherever in the interval they belong: below the grain of the model.)    *)
NewNode == [buf |-> "fresh", disk |-> "stale", present |-> TRUE, dirty |-> TRUE,
            cache_size |-> 1, removed |-> FALSE]

Full(f) == Cardinality({x \in allocated : FileOf[x] = f}) >= IndexNr

MakesSecond(u) ==
    /\ UserAt(u, "make") /\ Min(usr[u].new) \in allocated /\ ~ Full(usr[u].file)

MakeNode(u) ==
    LET e == Min(usr[u].new)
    IN  /\ UserAt(u, "make")
        /\ \/ /\ ~ Full(usr[u].file) /\ e \notin allocated
              /\ allocated' = allocated \cup {e}
              /\ node' = [node EXCEPT ![e] = NewNode]
              /\ size' = size + 1
              /\ usr' = [usr EXCEPT ![u].cur = e, ![u].new = @ \ {e}, ![u].pc = "link"]
           \/ /\ Full(usr[u].file)
              /\ usr' = [usr EXCEPT ![u].new = {}, ![u].pc = "size"]
              /\ UNCHANGED <<node, allocated, size>>
        /\ UNCHANGED <<isize, locks, lists, indicator, jobs, fstate, undefined, phase, fl,
                       ops>>

(* polystore_index_insert under the tree lock, which an append holds until *)
(* its last node is in; a write takes it for each.                         *)
InsertNode(u) ==
    LET f == usr[u].file
    IN  /\ UserAt(u, "insert")
        /\ Unlocked(f) \/ treelock[f].writer = u
        /\ usr' = [usr EXCEPT ![u].cur = None,
                              ![u].pc = IF usr[u].new = {} THEN "size" ELSE "make"]
        /\ UNCHANGED <<node, index, locks, lists, size, indicator, jobs, fstate, undefined,
                       phase, fl, ops>>

(* inode->size grows to cover the range: it is read and set without a lock *)
(* by a write, and by an append under the tree lock, which is no lock      *)
(* against writes.                                                         *)
SetSize(u) ==
    /\ UserAt(u, "size")
    /\ usr' = [usr EXCEPT ![u].snap = isize[usr[u].file], ![u].pc = "store"]
    /\ UNCHANGED <<node, index, locks, lists, size, indicator, jobs, fstate, undefined,
                   phase, fl, ops>>

(* Mutant of StoreSize: an append forgets the tree lock. *)
StoreSize_locked(u) ==
    LET r == usr[u]
    IN  /\ UserAt(u, "store")
        /\ isize' = [isize EXCEPT ![r.file] = Max({r.snap, r.end})]
        /\ Goto(u, "check")
        /\ UNCHANGED <<node, allocated, locks, lists, size, indicator, jobs, fstate,
                       undefined, phase, fl, ops>>

StoreSize(u) ==
    LET r == usr[u]
    IN  /\ UserAt(u, "store")
        /\ isize' = [isize EXCEPT ![r.file] = Max({r.snap, r.end})]
        /\ IF r.op = "append" THEN UnlockTree(u) ELSE UNCHANGED treelock
        /\ Goto(u, "check")
        /\ UNCHANGED <<node, allocated, lock, spin, qmutex, lists, size, indicator, jobs,
                       fstate, undefined, phase, fl, ops>>

(* At the end of a write or append: is it time to flush, and is nobody     *)
(* flushing already?                                                       *)
CheckSize(u) ==
    /\ UserAt(u, "check")
    /\ Goto(u, IF size > FlushBegin THEN "tas" ELSE "idle")
    /\ UNCHANGED <<node, index, locks, lists, size, indicator, jobs, fstate,
                   undefined, phase, fl, ops>>

(* Mutant of TestAndSet: the old value of the indicator is not looked at. *)
TestAndSet_ignored(u) ==
    /\ UserAt(u, "tas")
    /\ indicator' = 1
    /\ Goto(u, "snap")
    /\ UNCHANGED <<node, index, locks, lists, size, jobs, fstate, undefined, phase,
                   fl, ops>>

TestAndSet(u) ==
    /\ UserAt(u, "tas")
    /\ indicator' = 1
    /\ Goto(u, IF indicator = 0 THEN "snap" ELSE "idle")
    /\ UNCHANGED <<node, index, locks, lists, size, jobs, fstate, undefined, phase,
                   fl, ops>>

-----------------------------------------------------------------------------
(* poly_cache_flushing_dispatch, by the thread that won the indicator. *)

Snapshot(u) ==
    /\ UserAt(u, "snap")
    /\ usr' = [usr EXCEPT ![u].snap = size, ![u].rr = 0, ![u].pc = "spin"]
    /\ UNCHANGED <<node, index, locks, lists, size, indicator, jobs, fstate,
                   undefined, phase, fl, ops>>

LockCold(u) ==
    /\ UserAt(u, "spin")
    /\ spin = None
    /\ spin' = u
    /\ Goto(u, "pick")
    /\ UNCHANGED <<node, index, lock, treelock, qmutex, lists, size, indicator, jobs,
                   fstate, undefined, phase, fl, ops>>

(* Take the next victim off the cold list; a removed one is just unlinked. *)
PickVictim(u) ==
    /\ UserAt(u, "pick")
    /\ \/ /\ cold = <<>>
          /\ spin' = None
          /\ Goto(u, "reset")
          /\ UNCHANGED cold
       \/ /\ cold # <<>>
          /\ \A x \in Neighbours(cold, Head(cold)) : ~ Gone(x)
          /\ cold' = Tail(cold)
          /\ usr' = IF node[Head(cold)].removed
                    THEN usr
                    ELSE [usr EXCEPT ![u].cur = Head(cold), ![u].pc = "queue"]
          /\ UNCHANGED spin
    /\ UNCHANGED <<node, index, lock, treelock, qmutex, queue, size, indicator, jobs,
                   fstate, undefined, phase, fl, ops>>

(* Hand the victim to a worker's queue, round robin, and stop when enough  *)
(* has been dispatched.  Its cache_size is read when the queue is unlocked *)
(* again: by then a worker may have evicted the node, or a user admitted   *)
(* it, so that either value is seen.                                       *)
QueueOf(u) == usr[u].rr % QueueNr

EnqueueVictim(u) ==
    LET e == usr[u].cur
        q == QueueOf(u)
    IN  /\ UserAt(u, "queue")
        /\ qmutex[q] = None
        /\ \A x \in Tails(queue[q]) \cup {e} : ~ Gone(x)
        /\ queue' = [queue EXCEPT ![q] = Append(@, e)]
        /\ \E cache_size \in {0, 1} :
              LET left == usr[u].snap - cache_size
                  enough == left < FlushEnd
              IN  /\ spin' = IF enough THEN None ELSE spin
                  /\ usr' = [usr EXCEPT ![u].cur = None, ![u].rr = @ + 1, ![u].snap = left,
                                        ![u].pc = IF enough THEN "reset" ELSE "pick"]
        /\ UNCHANGED <<node, index, lock, treelock, qmutex, cold, size, indicator,
                       jobs, fstate, undefined, phase, fl, ops>>

ResetSize(u) ==
    /\ UserAt(u, "reset")
    /\ size' = FlushEnd
    /\ Goto(u, "launch")
    /\ UNCHANGED <<node, index, locks, lists, indicator, jobs, fstate, undefined,
                   phase, fl, ops>>

(* Mutant of Launch: the last queue gets no worker. *)
Launch_one_short(u) ==
    /\ UserAt(u, "launch")
    /\ jobs' = jobs \o [i \in 1 .. QueueNr - 1 |-> i - 1]
    /\ indicator' = 0
    /\ Goto(u, "idle")
    /\ UNCHANGED <<node, index, locks, lists, size, fstate, undefined, phase, fl, ops>>

(* Mutant of Launch: queue ids start at one. *)
Launch_one_based(u) ==
    /\ UserAt(u, "launch")
    /\ jobs' = jobs \o [i \in 1 .. QueueNr |-> i]
    /\ indicator' = 0
    /\ Goto(u, "idle")
    /\ UNCHANGED <<node, index, locks, lists, size, fstate, undefined, phase, fl, ops>>

(* One job per queue, then the indicator is released. *)
Launch(u) ==
    /\ UserAt(u, "launch")
    /\ jobs' = jobs \o [i \in 1 .. QueueNr |-> i - 1]
    /\ indicator' = 0
    /\ Goto(u, "idle")
    /\ UNCHANGED <<node, index, locks, lists, size, fstate, undefined, phase, fl, ops>>

-----------------------------------------------------------------------------
(* poly_cache_drop and the kernel's release of the index, when the last    *)
(* reference to a file goes: no call on the file is in progress.           *)

NextDrop(u, S) ==
    usr' = [usr EXCEPT ![u].todo = S, ![u].pc = IF S = {} THEN "dropped" ELSE "drop"]

BeginDrop(u) ==
    /\ phase = "run" /\ ops < MaxOps
    /\ UserAt(u, "idle")
    /\ \E f \in Droppable :
          /\ fstate[f] = "live"
          /\ \A v \in Users : usr[v].file = f => usr[v].pc = "idle"
          /\ Unlocked(f)
          /\ treelock' = [treelock EXCEPT ![f].writer = u]
          /\ fstate' = [fstate EXCEPT ![f] = "dropping"]
          /\ usr' = [usr EXCEPT ![u] =
                [@ EXCEPT !.op = "drop", !.file = f, !.todo = Covered(f),
                          !.pc = IF Covered(f) = {} THEN "dropped" ELSE "drop"]]
    /\ ops' = ops + 1
    /\ UNCHANGED <<node, index, lock, spin, qmutex, lists, size, indicator, jobs,
                   undefined, phase, fl>>

(* Mutant of DropNode: the node is not marked removed. *)
DropNode_unmarked(u) ==
    /\ UserAt(u, "drop")
    /\ \E e \in usr[u].todo :
          /\ lock[e] = None
          /\ node' = [node EXCEPT ![e].buf = "null"]
          /\ NextDrop(u, usr[u].todo \ {e})
    /\ UNCHANGED <<index, locks, lists, size, indicator, jobs, fstate, undefined,
                   phase, fl, ops>>

(* The buffer goes, the node stays linked and is marked removed. *)
DropNode(u) ==
    /\ UserAt(u, "drop")
    /\ \E e \in usr[u].todo :
          /\ lock[e] = None
          /\ node' = [node EXCEPT ![e].buf = "null", ![e].removed = TRUE]
          /\ NextDrop(u, usr[u].todo \ {e})
    /\ UNCHANGED <<index, locks, lists, size, indicator, jobs, fstate, undefined,
                   phase, fl, ops>>

EndDrop(u) ==
    /\ UserAt(u, "dropped")
    /\ UnlockTree(u)
    /\ Goto(u, "free")
    /\ UNCHANGED <<node, index, lock, spin, qmutex, lists, size, indicator, jobs,
                   fstate, undefined, phase, fl, ops>>

FreeIndex(u) ==
    /\ UserAt(u, "free")
    /\ fstate' = [fstate EXCEPT ![usr[u].file] = "freed"]
    /\ Goto(u, "idle")
    /\ UNCHANGED <<node, index, locks, lists, size, indicator, jobs, undefined,
                   phase, fl, ops>>

-----------------------------------------------------------------------------
(* poly_cache_flushing_worker, run by the threads of the pool. *)

FGoto(w, p) == fl' = [fl EXCEPT ![w].pc = p]

TakeJob(w) ==
    /\ FlusherAt(w, "idle")
    /\ jobs # <<>>
    /\ jobs' = Tail(jobs)
    /\ fl' = [fl EXCEPT ![w].pc = "qlock", ![w].q = Head(jobs)]
    /\ UNCHANGED <<node, index, locks, lists, size, indicator, fstate, undefined,
                   phase, usr, ops>>

LockQueue(w) ==
    /\ FlusherAt(w, "qlock")
    /\ qmutex[fl[w].q] = None
    /\ qmutex' = [qmutex EXCEPT ![fl[w].q] = w]
    /\ FGoto(w, "scan")
    /\ UNCHANGED <<node, index, lock, treelock, spin, lists, size, indicator, jobs,
                   fstate, undefined, phase, usr, ops>>

(* Mutant of ScanQueue: a worker returns without unlocking its queue. *)
ScanQueue_locked(w) ==
    LET q == fl[w].q
    IN  /\ FlusherAt(w, "scan")
        /\ \/ /\ queue[q] = <<>>
              /\ fl' = [fl EXCEPT ![w].pc = "idle", ![w].q = 0]
              /\ UNCHANGED queue
           \/ /\ queue[q] # <<>> /\ ~ Gone(Head(queue[q]))
              /\ \/ /\ node[Head(queue[q])].removed
                    /\ \A x \in Neighbours(queue[q], Head(queue[q])) : ~ Gone(x)
                    /\ queue' = [queue EXCEPT ![q] = Tail(@)]
                    /\ UNCHANGED fl
                 \/ /\ ~ node[Head(queue[q])].removed
                    /\ FGoto(w, "lock")
                    /\ UNCHANGED queue
        /\ UNCHANGED <<node, index, locks, cold, size, indicator, jobs,
                       fstate, undefined, phase, usr, ops>>

(* The head of the queue is the next victim: every node visited leaves the *)
(* queue, and the queue's mutex is held throughout.  The removed flag is   *)
(* read before the interval is locked.                                     *)
ScanQueue(w) ==
    LET q == fl[w].q
    IN  /\ FlusherAt(w, "scan")
        /\ \/ /\ queue[q] = <<>>
              /\ qmutex' = [qmutex EXCEPT ![q] = None]
              /\ fl' = [fl EXCEPT ![w].pc = "idle", ![w].q = 0]
              /\ UNCHANGED queue
           \/ /\ queue[q] # <<>> /\ ~ Gone(Head(queue[q]))
              /\ \/ /\ node[Head(queue[q])].removed
                    /\ \A x \in Neighbours(queue[q], Head(queue[q])) : ~ Gone(x)
                    /\ queue' = [queue EXCEPT ![q] = Tail(@)]
                    /\ UNCHANGED fl
                 \/ /\ ~ node[Head(queue[q])].removed
                    /\ FGoto(w, "lock")
                    /\ UNCHANGED queue
              /\ UNCHANGED qmutex
        /\ UNCHANGED <<node, index, lock, treelock, spin, cold, size, indicator, jobs,
                       fstate, undefined, phase, usr, ops>>

LockVictim(w) ==
    LET e == Head(queue[fl[w].q])
    IN  /\ FlusherAt(w, "lock")
        /\ ~ Gone(e)
        /\ lock[e] = None
        /\ lock' = [lock EXCEPT ![e] = w]
        /\ FGoto(w, "evict")
        /\ UNCHANGED <<node, index, treelock, spin, qmutex, lists, size, indicator,
                       jobs, fstate, undefined, phase, usr, ops>>

(* Mutant of Evicted: the present flag is not cleared. *)
Evicted_present(n) ==
    {[n EXCEPT !.disk = d, !.buf = "null", !.dirty = FALSE,
               !.cache_size = 0] :
        d \in {IF n.dirty /\ n.buf # "null" THEN n.buf ELSE n.disk}
              \cup (IF IOErrors THEN {n.disk} ELSE {})}

(* poly_cache_evict followed by the clearing its callers do whatever it    *)
(* returns: a dirty interval is written to the device (which fails without *)
(* effect when there is no buffer), then forgotten.                        *)
Evicted(n) ==
    {[n EXCEPT !.disk = d, !.buf = "null", !.present = FALSE, !.dirty = FALSE,
               !.cache_size = 0] :
        d \in {IF n.dirty /\ n.buf # "null" THEN n.buf ELSE n.disk}
              \cup (IF IOErrors THEN {n.disk} ELSE {})}

(* Mutant of poly_cache_evict: the victim is left on the queue. *)
poly_cache_evict_linked(w) ==
    LET q == fl[w].q
        e == Head(queue[q])
    IN  /\ FlusherAt(w, "evict")
        /\ \A x \in Neighbours(queue[q], e) : ~ Gone(x)
        /\ \E n \in Evicted(node[e]) : node' = [node EXCEPT ![e] = n]
        /\ lock' = [lock EXCEPT ![e] = None]
        /\ FGoto(w, "scan")
        /\ UNCHANGED <<index, treelock, spin, qmutex, lists, size, indicator, jobs,
                       fstate, undefined, phase, usr, ops>>

poly_cache_evict(w) ==
    LET q == fl[w].q
        e == Head(queue[q])
    IN  /\ FlusherAt(w, "evict")
        /\ \A x \in Neighbours(queue[q], e) : ~ Gone(x)
        /\ \E n \in Evicted(node[e]) : node' = [node EXCEPT ![e] = n]
        /\ queue' = [queue EXCEPT ![q] = Tail(@)]
        /\ lock' = [lock EXCEPT ![e] = None]
        /\ FGoto(w, "scan")
        /\ UNCHANGED <<index, treelock, spin, qmutex, cold, size, indicator, jobs,
                       fstate, undefined, phase, usr, ops>>

-----------------------------------------------------------------------------
(* poly_cache_exit. *)

ExitBegin ==
    /\ ProcessAt("run")
    /\ \A u \in Users : usr[u].pc = "idle"
    /\ phase' = "wait"
    /\ UNCHANGED <<node, index, locks, lists, size, indicator, jobs, fstate,
                   undefined, usr, fl, ops>>

(* thpool_wait: see WaitMeansDone of ThreadPool. *)
ExitWait ==
    /\ ProcessAt("wait")
    /\ jobs = <<>> /\ \A w \in Flushers : fl[w].pc = "idle"
    /\ phase' = "free"
    /\ UNCHANGED <<node, index, locks, lists, size, indicator, jobs, fstate,
                   undefined, usr, fl, ops>>

(* poly_cache_free of every inode still in the hash map: its buffered      *)
(* intervals are written back and leave whichever list they are on.        *)
Buffered ==
    {e \in UNION {Covered(f) : f \in {f \in Files : fstate[f] = "live"}} :
        node[e].buf # "null"}

(* list_del: the node leaves the list it is on. *)
Unlinked(l, e) ==
    IF \E i \in DOMAIN l : l[i] = e
    THEN RemoveAt(l, CHOOSE i \in DOMAIN l : l[i] = e)
    ELSE l

poly_cache_free ==
    /\ ProcessAt("free")
    /\ \E e \in Buffered :
          /\ \A l \in {cold} \cup {queue[q] : q \in Queues} :
                \A x \in Neighbours(l, e) : ~ Gone(x)
          /\ \E n \in Evicted(node[e]) : node' = [node EXCEPT ![e] = n]
          /\ cold' = Unlinked(cold, e)
          /\ queue' = [q \in Queues |-> Unlinked(queue[q], e)]
    /\ UNCHANGED <<index, locks, size, indicator, jobs, fstate, undefined, phase,
                   usr, fl, ops>>

ExitEnd ==
    /\ ProcessAt("free")
    /\ Buffered = {}
    /\ phase' = "done"
    /\ UNCHANGED <<node, index, locks, lists, size, indicator, jobs, fstate,
                   undefined, usr, fl, ops>>

-----------------------------------------------------------------------------
(* A list operation or a victim whose memory the kernel has taken back. *)
UserUses(u) ==
    CASE usr[u].pc \in {"cold", "link"} /\ spin = None -> Tails(cold)
      [] usr[u].pc = "pick" /\ cold # <<>> -> Neighbours(cold, Head(cold))
      [] usr[u].pc = "queue" /\ qmutex[QueueOf(u)] = None ->
            Tails(queue[QueueOf(u)]) \cup {usr[u].cur}
      [] OTHER -> {}

FlusherUses(w) ==
    LET l == queue[fl[w].q]
    IN  CASE fl[w].pc = "scan" /\ l # <<>> ->
                IF ~ Gone(Head(l)) /\ ~ node[Head(l)].removed
                THEN {} ELSE Neighbours(l, Head(l))
          [] fl[w].pc = "lock" -> {Head(l)}
          [] fl[w].pc = "evict" -> Neighbours(l, Head(l))
          [] OTHER -> {}

ExitUses ==
    IF phase = "free"
    THEN UNION {Neighbours(l, e) : l \in {cold} \cup {queue[q] : q \in Queues},
                                   e \in Buffered}
    ELSE {}

UseFreedMemory ==
    /\ ~ undefined
    /\ \E e \in UNION ({UserUses(u) : u \in Users} \cup {FlusherUses(w) : w \in Flushers}
                       \cup {ExitUses}) : Gone(e)
    /\ undefined' = TRUE
    /\ UNCHANGED <<node, index, locks, lists, size, indicator, jobs, fstate, phase,
                   usr, fl, ops>>

(* The process has ended, or a call is where the model follows it no further. *)
Ended ==
    /\ undefined \/ phase = "done" \/ \E u \in Users : MakesSecond(u)
    /\ UNCHANGED vars

-----------------------------------------------------------------------------
EmptyNode == [buf |-> "null", disk |-> "stale", present |-> FALSE, dirty |-> FALSE,
              cache_size |-> 0, removed |-> FALSE]

Init ==
    /\ node = [e \in Nodes |-> EmptyNode]
    /\ allocated = {} /\ isize = [f \in Files |-> 0]
    /\ lock = [e \in Nodes |-> None]
    /\ treelock = [f \in Files |-> [readers |-> {}, writer |-> None]]
    /\ cold = <<>> /\ queue = [q \in Queues |-> <<>>]
    /\ spin = None /\ qmutex = [q \in Queues |-> None]
    /\ size = 0 /\ indicator = 0 /\ jobs = <<>>
    /\ fstate = [f \in Files |-> "live"]
    /\ undefined = FALSE /\ phase = "run"
    /\ usr = [u \in Users |-> IdleUser]
    /\ fl = [w \in Flushers |-> [pc |-> "idle", q |-> 0]]
    /\ ops = 0

User(u) ==
    \/ LockNode(u) \/ AddCold(u) \/ poly_cache_admit(u)
    \/ CopyOut(u) \/ CopyIn(u) \/ Scanned(u)
    \/ MakeNode(u) \/ InsertNode(u) \/ SetSize(u) \/ StoreSize(u) \/ CheckSize(u) \/ TestAndSet(u)
    \/ Snapshot(u) \/ LockCold(u) \/ PickVictim(u) \/ EnqueueVictim(u)
    \/ ResetSize(u) \/ Launch(u)
    \/ DropNode(u) \/ EndDrop(u) \/ FreeIndex(u)

Flusher(w) ==
    TakeJob(w) \/ LockQueue(w) \/ ScanQueue(w) \/ LockVictim(w) \/ poly_cache_evict(w)

Exiting == ExitWait \/ poly_cache_free \/ ExitEnd

Next ==
    \/ \E u \in Users : BeginRead(u) \/ BeginWrite(u) \/ BeginAppend(u) \/ BeginDrop(u) \/ User(u)
    \/ \E w \in Flushers : Flusher(w)
    \/ ExitBegin \/ Exiting \/ UseFreedMemory \/ Ended

(* Threads that can run, run; the application need not make calls or exit. *)
Fairness ==
    /\ \A u \in Users : WF_vars(User(u))
    /\ \A w \in Flushers : WF_vars(Flusher(w))
    /\ WF_vars(Exiting) /\ WF_vars(UseFreedMemory)

Spec     == Init /\ [][Next]_vars
FairSpec == Spec /\ Fairness

-----------------------------------------------------------------------------
(* Properties. *)

(* The places from which a flushing thread can reach a node: the cold list, *)
(* a flushing queue, the dispatcher's hand between the two.                *)
At(l, e) == {i \in DOMAIN l : l[i] = e}
Holding(e) == {u \in Users : usr[u].pc = "queue" /\ usr[u].cur = e}
Places(e) ==
    {<<"cold", i>> : i \in At(cold, e)}
    \cup (UNION {{<<"queue", q, i>> : i \in At(queue[q], e)} : q \in Queues})
    \cup {<<"hand", u>> : u \in Holding(e)}
Queued(e) == \E q \in Queues : At(queue[q], e) # {}
Linking(e) == \E u \in Users : usr[u].pc \in {"cold", "link"} /\ usr[u].cur = e

(* A node is linked through its single cache_lru field, so it must never   *)
(* be on two lists or twice on one; and, until its file is unlinked, it is *)
(* on a list exactly when it has a buffer: none leaks, and none is flushed *)
(* that has nothing to flush.  Links and buffers are changed by users, the *)
(* dispatcher and the workers under different locks.                       *)
SingleHome ==
    \A e \in Nodes :
        /\ \A x, y \in Places(e) : x = y
        /\ ~ node[e].removed =>
              (Places(e) # {} <=> node[e].buf # "null" /\ ~ Linking(e))

(* The result of the last write is never lost: a present interval has it   *)
(* in its buffer, another one on the device, and where the device is       *)
(* behind, the interval is known to be dirty.  Writers, the eviction by    *)
(* workers and re-admission by readers interleave.                         *)
LastWriteKept ==
    \A e \in allocated : ~ node[e].removed =>
        /\ IF node[e].present THEN node[e].buf = "fresh" ELSE node[e].disk = "fresh"
        /\ node[e].disk = "stale" => node[e].present /\ node[e].dirty

(* What a reader or writer copies from or into is the current content of   *)
(* the interval: it was admitted and cannot be evicted before the copy.    *)
CopyFresh ==
    \A u \in Users : usr[u].pc = "copy" =>
        node[usr[u].cur].buf = "fresh" /\ lock[usr[u].cur] = u

(* A worker reads the removed flag before it waits for the interval: when  *)
(* it has the interval and finds no buffer to write, the file was unlinked *)
(* in between and the data is not missed.                                  *)
EvictsBuffered ==
    \A w \in Flushers : fl[w].pc = "evict" =>
        LET n == node[Head(queue[fl[w].q])] IN n.buf = "null" => n.removed

(* The locks are taken in the order interval -> cold list by users, cold   *)
(* list -> queue by the dispatcher and queue -> interval by workers: a     *)
(* cycle.  It never closes because a thread waiting for the cold list      *)
(* holds no interval that is on a queue.                                   *)
NoLockCycle ==
    \A u \in Users : usr[u].pc = "cold" => ~ Queued(usr[u].cur)

(* An append looks a hole up and fills it under one hold of the tree lock, *)
(* a write gives the lock up in between.  So an append makes a second node *)
(* for an interval only while a write has made the first one and waits for *)
(* the lock to insert it; two appends never do.                            *)
AppendsFillOnce ==
    \A u \in Users : usr[u].op = "append" /\ MakesSecond(u) =>
        \E v \in Users : /\ usr[v].op = "write" /\ usr[v].pc \in {"link", "insert"}
                         /\ usr[v].cur = Min(usr[u].new)

(* One thread dispatches at a time, and the indicator is set while it does. *)
OneDispatcher ==
    /\ \A u, v \in Users :
          usr[u].pc \in DispatchPCs /\ usr[v].pc \in DispatchPCs => u = v
    /\ (\E u \in Users : usr[u].pc \in DispatchPCs) => indicator = 1

(* After poly_cache_exit everything written to files that still exist is   *)
(* on the devices.                                                         *)
ExitDurable ==
    phase = "done" =>
        \A e \in allocated : fstate[FileOf[e]] = "live" => node[e].disk = "fresh"

(* Where the last write to an interval is, as its node n tells. *)
Where(n) ==
    IF n.removed THEN "dropped"
    ELSE IF n.disk = "fresh" THEN "device"
    ELSE IF n.present /\ n.dirty /\ n.buf = "fresh" THEN "memory"
    ELSE "lost"

Data == INSTANCE WriteBack WITH
    last    <- [e \in Nodes |-> IF e \in allocated THEN Where(node[e]) ELSE "none"],
    linked  <- {f \in Files : fstate[f] = "live"},
    running <- phase # "done"

(* Users, dispatcher, workers, unlinks and the exit together do to the     *)
(* data of intervals what WriteBack promises: every step is one of its     *)
(* writes, flushes, drops, unlinks or its end, or changes nothing there.   *)
KeepsData == Data!Spec

(* Every interval put on a flushing queue leaves it again: the dispatcher  *)
(* queues before it launches the workers, and a worker empties its queue.  *)
QueuedGetFlushed ==
    \A e \in Nodes : Queued(e) ~> ~ Queued(e) \/ undefined

(* A call that has the tree lock returns, through the locks of intervals,  *)
(* lists and queues and the tree lock for inserting, unless two calls fill *)
(* one hole.                                                               *)
CallsReturn ==
    \A u \in Users : usr[u].pc # "idle" ~>
        usr[u].pc = "idle" \/ undefined \/ \E v \in Users : MakesSecond(v)

(* poly_cache_exit finishes. *)
ExitEnds == phase = "wait" ~> phase = "done" \/ undefined

(* Nodes of a deleted file are taken off the lists before their memory is  *)
(* gone.                                                                   *)
NoUseAfterFree == ~ undefined
=============================================================================
