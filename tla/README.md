# PolyStore in TLA+

PolyStore combines a fast and a slow storage device below one namespace. Its
logic is in `src/polylib/src`: a user-space library (PolyLib) that serves the
intercepted file system calls of an application, and a kernel module (PolyOS,
`polyos/`) that opens the physical files and owns the shared inode and index
memory. The rest of the repository, and by far the most of its lines, is
vendored applications (Redis, RocksDB), benchmarks, scripts and libraries
around it and is not modelled: the share of PolyStore's own code in the
repository is about one percent.

The models follow the Poly cache build (`POLYSTORE_POLYCACHE`,
`POLYSTORE_POLYCACHE_SENSITIVITY`, `DYNAMIC_PLACEMENT`), the one in which threads
interact most, except `DirectIO`, which follows the base build: without the
cache, reads and writes go straight to the physical files.

## Inventory

| Component | State | Operations | Interacts with | What makes it correct |
|---|---|---|---|---|
| Thread pool (`thpool.c`) | job queue, binary semaphore, two counters | add_work, wait, destroy, worker loop | the cache hands it flushing jobs, waits for it at exit | no job lost or run twice, no lost wake-up, wait is a barrier |
| Poly cache (`cache.c`) | per interval: buffer, present, dirty, removed; cold list, flushing queues, cache size | admit, evict, dispatch, flush, drop, exit | users (buffered I/O), pool threads, unlink | one list per interval, the last write is never lost, durable at exit |
| Buffered I/O (`io_buffered.c`) | the index tree, file size, locks | read, write, append | cache, index, placement | copies see current data, calls end |
| Poly-index (`indexing.c`) | interval tree per inode, node counter | allocate, insert, lookup | I/O paths | the nodes of a file partition its range |
| Tasks and placement (`context.c`, `placement.c`) | task list, placements, two counters | register, delete, timer handler | I/O paths update throughput | the counters agree with the placements; slots are used and given up |
| Poly-inodes (`opemetadata.c`, `context.c`, `polyos/operation.c`, `polyos/inode.c`) | kernel hash table, library map, reference counts, reclaim flags | open, close, unlink, rename | cache drop, index memory | exact counts, one inode per file, freed only when unused |
| Direct I/O (`io_direct.c`), data operations (`opedata.c`) | index, file offset | pread, pwrite, append, lseek, ftruncate | index | calls store their own ranges and nothing else; extents never overlap |
| File table (`context.c`, `polyos/operation.c`) | kernel descriptors, map of poly-files | open, find, close | all calls | a call reaches the poly-file and the physical files of its own open |
| Directories (`opemetadata.c`) | a tree on each device | mkdir, rmdir, creat, rename, unlink, stat | open, inodes | the two trees agree |
| Allocator (`cache_mm.c`, `util.c`) | a bitmap and a spin lock per CPU, shared by processes | allocate, free | cache | no buffer has two owners, none leaks |
| Task and inode ids (`polyos/`) | counters, mappings | register, open | tasks, inodes | bounds |
| Shim, initialisation, utilities | none, or set once | - | - | - |

What is hard to test here: three kinds of threads share the intervals under
four kinds of locks taken in a circle of orders; unlocked words (`inode->size`,
`poly_cache_size`, reference counts read by the library) are updated by several
threads; an inode is counted up by the library and down by the kernel, in
different system calls; a timer signal changes placements while threads come and
go; every metadata operation is two system calls on two devices without a lock
around them, and a descriptor is two kernel descriptors that are given back one
after the other. The list, line by line, is in PROJECT.json under `hazards`.

## Modules

`ThreadPool` - one action per critical section of `thread_do`, of the queue and
semaphore operations and of the interface. Condition variables are sets of
sleeping threads, so a lost wake-up stays lost; `pthread_cond_signal` may wake
more than one. `submitted`, `finished` and `before` are history variables.
Pausing is left out: nothing in PolyLib calls it.

`JobPool` - the pool without threads: jobs start in the order in which they were
added, each once, a wait is a barrier for the jobs added before it, destroying
drops what has not started and ends when nothing runs. `ThreadPool` implements
it (`ImplementsPool`): a job has started once a worker has pulled it, a caller is
inside from its call of `thpool_wait` on.

`PolyCache` - intervals ("nodes"), the cold list, the flushing queues, user
threads in reads, writes, appends and unlinks, the dispatcher (run by the user
that wins the test-and-set), the flushing workers, and `poly_cache_exit`. Data
is abstracted to "fresh" or "stale" per copy (buffer, device): fresh means that
the copy contains every write to the interval so far. Sizes count intervals, and
`inode->size` is the last node it covers. Writes and appends load and store
`inode->size` in separate steps (`SetSize`, `StoreSize`): a write does so after
releasing the index lock, an append under it, which keeps other appends away and
writes not. A call starts with the tree lock (`Begin`), so waiting for it at the
entry is not part of a call. A write gives the lock up before it fills a hole, so
two calls may fill the same one; they are followed to the point where the second
node for an interval is about to be made (`MakesSecond`), where the behaviour
ends. The dispatcher reads the size of its victim after it has unlocked the queue,
when a worker may have evicted it (`EnqueueVictim` takes either value). The jobs
of the pool are an in-order list that idle flushers take from; `ExitWait` is `thpool_wait`,
for which `ThreadPool` shows that it waits for all of them. Memory that the
kernel has freed may be used by a later step; then `undefined` is set and
nothing more is modelled (`UseFreedMemory`).
Not in this model: what two nodes for one interval do to each other; offsets
inside an interval, and with them the single byte that the fill loops skip and the
copy to the front of a new buffer (`io_buffered.c:471`, `509`; `DirectIO` has both,
byte by byte); holes inside a range; descriptors open for writing only, through
which an interval cannot be loaded, except as failing I/O (`IOErrors`); the mmap
policy `FAST_READ_NOT_ADMIT`, code that is compiled out or never called
(`poly_cache_fsync`). `Launch` adds all jobs in one step: a worker that takes one
commutes with the adding of the next.

`WriteBack` - what the cache promises for data: a write is in memory until it is
on the device, leaves memory without that only when its file is unlinked, and
the process ends with every write to the other files on the devices. `PolyCache`
implements it (`KeepsData`) in behaviours without the two races of its users (below;
one user meets neither): where the last write to an
interval is follows from which of its copies is fresh (`Where`).

`DirectIO` - one file of the base build: the index, the two physical files byte
by byte, the tree lock, the file size, and the threads that read, write, append
and enlarge the file with `ftruncate`, which is a loop of writes at the current
end (`TruncateCall`, `NextChunk`; what it writes is not zeros, since the
arguments of its `memset` are swapped, but what the buffer happens to hold). A byte holds the number of the call that wrote it. Every `pread`,
`pwrite`, `lseek` and insertion is a step of its own, and so are the load and
the store of `inode->size` that a write does without a lock. `Allocate` is the
exception: counting the node number, reading the placement and the `lseek` are one
step. `pwrite` stores all of its bytes or fails. Which device a new
node goes to is open, because the placement of the task may change at any time.
The size field of nodes is left out: it is written and not read on this path.
`Roles` says how the threads of the application share the file. In the run
either all append, or one writes up to and past the end without leaving gaps and
the other writes inside the file. The code does not support more: with two
growing writers, with writes that begin behind the end, with a single byte left
in front of a node boundary, or with a failing `pwrite`, TLC refutes
`StoresFile` within a dozen steps (change `Roles`, `Counts` or `IOErrors`; see
the hazards at `io_direct.c`).

`FileStore` - what the calls of `DirectIO` promise: each stores its own range,
front to back, changes nothing else, and leaves it unfinished only when the
index has run out of nodes. `StoresFile` is the refinement: the bytes of the
abstract file are the ones the index leads to (`View`), a call has done what it
has copied.

`Placement` - registration and deletion of tasks in their unlocked steps and
the handler of the profiling timer, which visits the tasks in any order.
Throughput is zero or not. The handler does not overlap itself, and does not
interrupt a thread inside the list lock (see the hazards).

`PolyInode` - open, close, unlink and rename in the steps in which library and
kernel carry them out. The kernel's table is a sequence, newest entry first,
because two entries can have the same path and the first one found counts.
`cached` and `lost` record which files' buffered data an inode holds and which
data was dropped: every opened file is taken to have been written to. A step on
a freed inode ends the behaviour (`UseFreedInode`). Both devices' directories
change in one step. With `AnyRename = FALSE` the application renames only while
nobody else is in a call and only to a name that is not in use; with
`AnyRename = TRUE` `TableFinds` fails after two opens and a rename, because the
entry of the replaced file stays in the table. `raced` is a history variable: an
unlink has overlapped another call on its path, or a close of an unlinked file
has overlapped another call on it.

`FileTable` - the kernel's descriptors of the process, the numbers made of two of
them, and the map of poly-files. `open` takes the two halves one after the other,
each the lowest free number, any of its steps may fail, and it goes on with an
error in place of a number when the process has run out of them, as
`polyos_sys_open` lets it; `close` looks the poly-file up twice, frees it, and
gives the halves back one after the other. The map is a set of entries, as
`uthash` accepts a key twice. The application does not close a descriptor
another of its threads is using. Taking a number, opening the physical file and
installing it are one step (`OpenFast`, `OpenSlow`).

`TwoDirs` - one tree of paths per device, and the directory operations as a call on
the fast device followed by one on the slow device. What the file systems do is
`Succeeds` and `After`. `MayOverlap` is what is asked of the application:
calls on different paths, the same call twice, `mkdir` against `creat` and `rmdir`
against `unlink` may overlap in any way; other calls on one path (`unlink` and `creat`,
`stat` and a change), and making
(removing) a directory while something is made in (removed from) it, do not.
Without these restrictions TLC leaves the devices different in a few steps,
which the code does not notice. Of two unlinks of a path one may succeed on the
fast device and the other on the slow one; `SecondHalfCompletes` says so.

`CacheMemory` - the allocator of cache buffers in the shared-memory build: per CPU
a bitmap and a spin lock. Setting and clearing a bit is a read of its byte and a
write of it, two steps, so that the lock has something to protect. A thread
allocates on the CPU it registered on and frees on the one the address is of.

`MCThreadPool`, `MCPolyCache`, `MCDirectIO`, `MCPlacement`, `MCPolyInode`,
`MCFileTable`, `MCTwoDirs` and `MCCacheMemory` give the instances.
The theorems are in `ThreadPoolProofs`, `PlacementProofs`, `FileTableProofs`,
`TwoDirsProofs`, `CacheMemoryProofs`, `PolyCacheProofs`, `PolyInodeProofs` and
`DirectIOProofs`. A definition named
`X_something` below a comment "Mutant of X" is X with a plausible mistake: a
property of that module fails when it takes X's place.

## Runs

| Run | Instance | Shows |
|---|---|---|
| `pool` | 3 workers, 2 jobs, 1 caller | `NoLostWakeup`, `WaitMeansDone`, the refinement `ImplementsPool`; with fairness `EveryJobRuns`, `WaitReturns`, `DestroyReturns` |
| `cache_safety` | 2 users, 2 flushers, 2 queues, 2 files, one of them unlinkable, 1 node per index, 3 calls | `SingleHome`, `LastWriteKept`, `CopyFresh`, `EvictsBuffered`, `NoLockCycle`, `OneDispatcher`; a full index is reached |
| `cache_exit` | 1 user, 2 flushers, 3 nodes, 2 files, 4 calls | `ExitDurable`, the refinement `KeepsData` |
| `cache_liveness` | 2 users, 2 flushers, 2 nodes, 2 calls | `AppendsFillOnce`; with fairness `QueuedGetFlushed`, `CallsReturn`, `ExitEnds` |
| `direct` | 2 threads, nodes of 4 bytes, calls of 2 and 6 bytes, truncates in pieces of 2, 2 nodes per index, 3 calls | `StoresFile`, `ExtentsDisjoint`, `AppendsAdd`, `BufferInStep`; with fairness `CallsReturn` |
| `placement` | 3 tasks, split point 1, 1 low epoch | `UsageExact`, `FastBounded`; with fairness `IdleYields`, `SlotsUsed` |
| `inode` | 2 threads, 2 paths, 6 calls | `RefcountExact`, `OneInodePerFile`, `TableFinds`, `NoFreedUse` |
| `filetable` | 2 threads, 5 kernel descriptors, 4 opens | `FindsOwnFile`, `RightFiles` |
| `namespace` | 3 threads, 4 paths, three of them nested | `Mirrored`, `SecondHalfCompletes` |
| `memory` | 3 threads on 2 CPUs, 3 buffers per CPU, 2 bits per byte | `NeverShared`, `BitmapExact` |

Runs that end in a violation, each a disagreement between the code and what a
comment of it says (PROJECT.json, `findings`):

| Run | Property | What happens |
|---|---|---|
| `cache_freed` | `NoUseAfterFree` | nodes of an unlinked file stay on the lists when the kernel frees the index |
| `inode_reclaim` | `LostAreUnlinked` | a file created over an unlinked, open one inherits its inode; its data is dropped at close |

More properties of passing runs fail when an assumption of the run is
taken back by a constant. They are recorded with the hazards and not kept as runs:
`ExitDurable`, and `KeepsData` with it, with two users on one file, two nodes and
`FlushBegin = 5` (two writers race on `inode->size`, the exit skips the interval
beyond the smaller one); `LastWriteKept` with `IOErrors = TRUE` (a failed write-back is ignored and
the data dropped), and `CopyFresh` likewise (a failed load is taken for a good one); `TableFinds` with `AnyRename = TRUE`.

Bounds. Two users are enough for a race between a call and the dispatcher (a
third would be a second dispatcher, which `OneDispatcher` excludes); two
flushers and two queues let a queue be refilled while it is served and make
round-robin visible. `FlushBegin = FlushEnd = 1` makes every second admission
start the dispatcher. In `cache_liveness` two users on
one file with two nodes fill the same hole, write against write and write against
append. Three calls let an interval be written, flushed and
admitted again. Two jobs are the least that make one post stand for several;
three workers let two compete while one sleeps. Six calls on inodes reach
open-unlink-create-close-close and concurrent first opens. Calls of 2 and 6
bytes on nodes of 4 start and end inside nodes and at their boundaries and cross
them; two nodes let the index run full. Five kernel descriptors hold two files and
half of a third, so opens and closes run out of numbers in the middle; four
opens let both halves of a descriptor be reused in different combinations. Four
paths are two nested directories with a name in them and a name outside, so that
files move between directories that come and go. Two bits per byte
and three buffers give a full and a partial byte, and two of the three threads
share a CPU. Threads are symmetric
in the safety runs and not in the runs with liveness.

`ThreadPool`, `PolyInode` and `FileTable` may stop (an idle pool waits for calls,
the calls of an application end), so their runs do not check for deadlock;
`PolyCache`, `Placement`, `TwoDirs`, `CacheMemory` and `DirectIO` do (in `DirectIO`, once no call is left to make,
`CallsReturn` takes over).

Fairness. Weak fairness of each thread's steps: the threads are kernel threads
and every blocking step waits for a lock that its holder releases, or for a
condition. No fairness is assumed of calls by the application. Locks need no
strong fairness in these instances: users make finitely many calls. In
`Placement` only the handler is fair: the timer is periodic while the process
uses the CPU, and the handler does not block for ever on the list lock.

## Proofs

`ThreadPoolProofs`, for every finite set of workers and any callers and jobs:
`TypeCorrect`, `WakeupsKept`, `JobsKept`, `WaitIsABarrier`, `WaiterIsWoken` (the
invariant behind `WaitReturns`), and the refinement `PoolImplemented`. The inductive
invariant adds to the properties that the counters are exact (`Counted`: without
it "no thread is working" would not exclude a running job, and the barrier could
not be concluded), and that callers are inside only while the pool exists and
wait for jobs that were added (`CallersInside`). `IdleMeansDone` is the heart:
an empty queue and nobody working mean that everything submitted has finished.
For the refinement every action is shown to be a step of `JobPool` or to leave
its variables alone; the same invariant is what makes `Leave` (the barrier has
been reached) and `Destroyed` (nobody runs a job when the last worker has left)
enabled where the code takes them.
Assumptions: the workers are a finite non-empty set, `NoJob` is no job.

`PlacementProofs`, for every finite set of tasks and positive split point:
`UsageCounts` (the counter is exact) and `FastIsBounded` (at most twice the
split point). The split point itself is not an invariant: a registering task
decides on `task_ctx_active_cnt` and counts itself in `sched_fastdev_usage`
later, and the handler fills the slot in between. The inductive invariant
bounds the slots given out but not counted (`Room`) and says that the list does
not change under the handler (`Walking`), which is where the list lock is used.

`FileTableProofs`, for any threads, any number of opens and up to 4096 kernel
descriptors (the limit `polystore_def.h` assumes): `TypeCorrect`,
`LookupCorrect`, `DescriptorCorrect`. The heart is that kernel descriptors have
owners: an open that holds or is closing a number owns both halves of it, so two
such opens cannot have the same number, whatever mixtures were in use before;
hence a number has one entry in the map. The arithmetic of `POLYSTORE_GEN_FD` is
proved once as a lemma (it is injective and its halves come back).

`TwoDirsProofs`, for every set of threads and every tree of paths: `TypeCorrect`,
`DevicesAgree`, `NoHalfCall` (the slow half of a call succeeds, or is an unlink whose
path is a file on neither device any more). The invariant ties the state of the slow tree at
the paths of a call between its halves to the operation it is about to do there.
Assumptions: the root is no path, and no path is its own parent.

`CacheMemoryProofs`, for every number of threads, CPUs, buffers and bits per
byte: `TypeCorrect`, `BuffersDistinct`, `BitmapsExact`. The invariant says that the
lock is held by the one thread in its critical section and that a byte read is
still in the bitmap when it is written back; two lemmas show that the address
arithmetic is the inverse of itself.

`PolyCacheProofs`, for any nodes, files, users, flushing workers, queues and calls:
`TypeCorrect`, `OneDispatcherAtATime`, `NodesHaveOneHome`, `WorkersEvictBuffers`,
`LockCycleOpen`, `AppendsFillHolesOnce`, and, when I/O does not fail, `NoWriteLost`,
`CopiesAreFresh`, and for the exit `ExitDurableUnlessRaced` and the refinement
`DataKeptUnlessRaced` (the cache implements `WriteBack`). The last two are about
behaviours without two races of several users: `SizeKept`, no call stores less in
`inode->size` than it finds there, and `FillsOnce`, no two calls fill one hole. Two
writers on one file violate either; after the first `ExitDurable` fails, after the
second the model has nothing more to say. One user meets neither race, hence
`ExitIsDurable` and `DataIsKept`, which have no hypothesis on the behaviour. All of
this is at the grain of whole intervals: it does not exclude that bytes are lost or
misplaced inside of one (`io_buffered.c:471`, `509`).
The parts of the inductive invariant and what each is for:

- `Calls`: a call keeps its file live, an unlink keeps it "dropping" and to itself;
  without it a write could revive a node of an unlinked file.
- `Intervals`: what a lookup found is of the call's file, and a node that is being
  made is in the hand of one call; without it two calls would put one node on the
  cold list.
- `AppendsHold`, beside the inductive invariant: an append holds the tree lock from its
  lookup to its store of the size, and the holes it found stay holes of the tree
  meanwhile. A node made for one of them is then one that a write has still to insert,
  which is `AppendsFillOnce`.
- `Sizes`: the dispatcher works on a snapshot of the size and counts it down; it is
  at least 1 while a node is being picked. The type of the snapshot needs it.
- `Phases`: the exit frees when no call, worker or job is left.
- `Owners`: a user between locking an interval and unlocking it is the owner of its
  lock, a worker that of its queue and of its victim. This excludes that a worker
  evicts under a user that copies.
- `Hands`, `Lists`: a node is at one place of one list, or in the hand of the one
  dispatcher between the two. `OneDispatcher` is needed here, which is why the
  test-and-set is part of the invariant and not a theorem beside it.
- `Homes`: a node has a buffer exactly when it is linked or about to be linked by
  the user that admitted it. `SingleHome`, `EvictsBuffered` and `NoLockCycle` are
  read off it.
- `Contents`, a second invariant under `~ IOErrors`: dirty intervals are present, and
  a user that copies has its interval present, and dirty when it writes.
- `SizesCover`, for the exit: every node is within `inode->size` (given `SizeKept`), or in the range of a
  call that has still to set it. The final write-back looks up no more than
  `inode->size`, so a node beyond it would be missed; a call is over when the exit
  begins. With `Homes`, a buffer is then found on a list or not at all (`Flushed`).
- `OwnSize`, for one user: what a call has loaded of `inode->size` is still there
  when it stores it. `SizeKept` follows.
- `OwnHoles`, for one user: nobody else has allocated what its lookup did not find.
  `FillsOnce` follows.

For the refinement each action is a step of `WriteBack` or leaves its variables alone:
a copy into a buffer is `Write`, an eviction and the write-back at the exit are
`Flush` or nothing (`Contents` excludes that a dirty buffer goes without having been
written), dropping the nodes of an unlinked file is `Drop`. `End` needs that nothing is
left in memory, which is where `SizesCover` comes in.

`PolyInodeProofs`, for any paths, threads and calls: `TypeCorrect`, `RefcountIsExact`,
`FilesHaveOneInode`, `TableLeadsToInodes`, `FreedUseNeedsRace`. All of them assume
`~ AnyRename` (renames are alone and go to free names), because without it
`TableFinds` is false. The invariant:

- `Tables`: the kernel's table holds exactly the inodes in memory under their paths,
  each path once. The kernel and the library find inodes by path only, so everything
  else rests on it.
- `Numbers`, `Budget`: descriptor numbers are not shared between calls and handles
  (otherwise a count of references would not be a count of records), and numbers of
  inodes stay within the calls made.
- `Locals`: what a call has found is still so when it uses it, although it holds no
  lock in between: an inode is never moved to another path under a call, since a
  rename is alone.
- `References`: references keep inodes in memory, and are counted exactly.
- `OnDisk`, `Shared`: a file is at one path for the file systems, for the opens under
  way and for the inodes of its references. Two first opens of a file meet in the
  kernel's table because of it.
- `Careful`, a second invariant: as long as nothing has raced (`raced`), an unlink and
  the close of an unlinked file are the only calls on their path (`Ordered`), what a
  call found is in memory, and who is about to free an inode has taken it out of the
  library's map (`Holds`), and that map leads to inodes in memory, but for a rename
  between the kernel and the map (`Mapped`).

`DirectIOProofs`, for any threads, calls, lengths and size of a node: `TypeCorrect`,
`BuffersInStep`, `ExtentsAreDisjoint`, the refinement `ImplementsFile` (`DirectIO`
implements `FileStore`) and the action property `AppendsOnlyAdd`. All but the
first and the last assume `Orderly`, which the instance of the run satisfies. With two growers, with odd
lengths or with failing I/O TLC refutes `StoresFile`, so that none of its parts can
simply be left out:

- `Disciplined`: all threads append, or one at most grows the file while the others
  write inside of it;
- `EvenSizes`: lengths and places are even. The loop that fills a range goes on while
  `start < end`, so that it drops a single byte that is left over; with even places
  there is never one;
- no failing `pread` or `pwrite`.

Assumptions on the constants: at least one node number (`IndexNr`), and `None` is
no node. The inductive invariant `IInv` of the first two properties:

- `Grasp`: the node in a call's hand overlaps what is left of its range.
- `Ops`, `Locks`: which calls a thread makes, and who holds the tree lock. An append
  holds it from the walk to the store of the size, a write only in the walk.
- `InRange`, `EvenCall`, `EvenFile`: a call is inside of its range; every place is even.
- `Shape`: the nodes are the intervals of the file from its front, without a gap and in
  order, with extents of their own. The single grower makes this so, and it is why a
  node found by one walk is still the right one after others inserted theirs.
- `Contents`, `Progress`: what is below the size, and below the position of a write, is
  stored, or the index is full; a fill starts where the nodes end. Without it a short
  `pread` in the middle of the file would put the buffer out of step.
- `Fresh`: the node about to be inserted is the next interval, and its extent is behind
  all others. Only one thread has such a node (`OneFresh`).

For the refinement a second invariant `Deep`, relative to the first, says what is in
the bytes: those of a fresh extent (`FreshBytes`), that a call about to return has
stored its range or has run out of nodes (`Finish`), and that calls stay below
`MaxOps * Max(Counts)`, the positions of the abstract file (`AppendRoom`, `GrowRoom`).
`ChunkStores` and `InsertStores` are the heart: a `pwrite` to a node, and the insertion
of a node written before, change the byte at exactly the next positions of the call's
range. Every other step leaves all bytes alone, a `pwrite` to an extent that is not in
the index among them.

`AppendsOnlyAdd` asks for less: `AppendersAlone`, threads that append do not share the
file with threads that write at places of their own. Lengths may be odd and `pwrite` may
fail, and then `Shape` is lost: after a failed `pwrite` the loop that fills holes inserts
a second node for an interval that has one, and nodes come to share an extent. Its
invariant `AInv` therefore says nothing of a node's being the only one:

- `Kinds`: types, the tree lock and the kind of call each thread makes. One append at
  most is at work.
- `Frontier`: every node is an aligned interval that begins before the place the append
  at work has reached (before the size of the file when there is none), and its bytes
  from there on are not written.
- `InHand`: the node in an append's hand is one of the index, or a fresh one with
  nothing stored behind the place reached.

So a `pwrite` of an append finds only bytes that are blank, through whichever node one
looks at them, and a node inserted for an interval that has one hides nothing, since a
lookup takes the one inserted first (`LookupFirst`). TLC has checked `AInv` and
`AppendsAdd` with failing calls and odd lengths (three appends, lengths 1 and 6).

TLC has checked each other inductive invariant on the instance of the component's run.

Only model-checked:

- everything about liveness (`CallsReturn` of `DirectIO` among it), which the prover
  does not cover;
- `cache_freed` and `inode_reclaim` are counterexamples, with nothing to prove.

## Plan

1. `PolyCache`: the job list replaced by `JobPool`, offsets inside an interval.
2. `PolyInode`: the library map at exit, the kernel's and the library's address
   of the index in the shared inode, several processes.
3. The limits: ids of tasks and inodes that are never reused, the memory behind
   the index (the limit on node numbers exceeds it).

## Not modelled

The system call shim (one stateless hook per call), initialisation (before any
thread), utilities other than the bitmaps, the Linux list macros, the third-party
libraries under `polylib/libs`, the mapping of task contexts and shared pages,
`tools/filecopy.c`, and the applications, benchmarks, experiments and scripts.
Of the modelled parts: the shrinking `ftruncate` (a "temporary fix" that cuts one
physical file at a logical offset), signal delivery inside the list lock (what
follows is undefined), calls that only look at one device (`opendir`, `readdir`,
`access`), the stubs `lstat` and `symlink`, and how `stat` adds the sizes of the
two physical files.
