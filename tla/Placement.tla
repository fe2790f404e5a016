------------------------------ MODULE Placement ------------------------------
(***************************************************************************)
(* Which tasks (application threads) write to the fast device: the static  *)
(* placement a thread gets when it registers (context.c) and the handler   *)
(* of the 200 ms profiling timer that promotes and demotes tasks           *)
(* (polystore_placement_dynamic, placement.c).  Registering and deleting   *)
(* threads and the handler share task_ctx_list, the placements and two     *)
(* counters; only the list is under a lock.                                *)
(*                                                                         *)
(* The handler walks the list in any order, the throughput of an epoch is  *)
(* zero or not, and low_throughput_tic stops counting once it is past its  *)
(* threshold.  An ioctl that fails leaves everything as it was.  The       *)
(* handler ends before the next tick, and does not interrupt a thread that *)
(* is inside the list lock.                                                *)
(***************************************************************************)
EXTENDS Integers, FiniteSets

CONSTANTS Tasks,     \* threads
          Split,     \* sched_split_point
          LowEpochs, \* POLYSTORE_EPOCH_LOW_THRPUT
          None       \* no task

ASSUME TasksAssumption == IsFiniteSet(Tasks)
ASSUME SplitAssumption == Split \in Nat \ {0}
ASSUME NoneAssumption == None \notin Tasks
ASSUME LowEpochsAssumption == LowEpochs \in Nat

VARIABLES pc,          \* per task: "out" when not registered, "in" when on the list
          placement,   \* per task: task_ctx->placement
          throughput,  \* per task: bytes were moved in this epoch
          tic,         \* per task: low_throughput_tic
          active,      \* task_ctx_active_cnt
          usage,       \* sched_fastdev_usage
          hpc,         \* the handler: "idle", "walk", "promote", "tic"
          todo,        \* tasks the handler still has to visit
          cur,         \* the task it is visiting
          last         \* last_throughput of that task is not zero

vars == <<pc, placement, throughput, tic, active, usage, hpc, todo, cur, last>>
task == <<pc, placement, throughput, tic>>
handler == <<hpc, todo, cur, last>>

TaskPCs == {"out", "count", "list", "in", "uncount", "deactivate"}

TypeOK ==
    /\ pc \in [Tasks -> TaskPCs]
    /\ placement \in [Tasks -> {"FAST", "SLOW"}]
    /\ throughput \in [Tasks -> BOOLEAN]
    /\ tic \in [Tasks -> 0 .. LowEpochs + 1]
    /\ active \in Nat /\ usage \in Nat
    /\ hpc \in {"idle", "walk", "promote", "tic"}
    /\ todo \in SUBSET Tasks /\ cur \in Tasks \cup {None} /\ last \in BOOLEAN

(* Nobody walks the list: pthread_rwlock_wrlock(&task_ctx_list_lock) succeeds. *)
ListFree == hpc = "idle"

-----------------------------------------------------------------------------
(* polystore_task_ctx_register. *)

(* The context is initialised and the task counted; the first Split tasks  *)
(* go to the fast device.                                                  *)
Register(t) ==
    /\ pc[t] = "out"
    /\ active' = active + 1
    /\ placement' = [placement EXCEPT ![t] = IF active < Split THEN "FAST" ELSE "SLOW"]
    /\ pc' = [pc EXCEPT ![t] = IF active < Split THEN "count" ELSE "list"]
    /\ throughput' = [throughput EXCEPT ![t] = FALSE]
    /\ tic' = [tic EXCEPT ![t] = 0]
    /\ UNCHANGED <<usage, handler>>

CountFast(t) ==
    /\ pc[t] = "count"
    /\ usage' = usage + 1
    /\ pc' = [pc EXCEPT ![t] = "list"]
    /\ UNCHANGED <<placement, throughput, tic, active, handler>>

Enlist(t) ==
    /\ pc[t] = "list"
    /\ ListFree
    /\ pc' = [pc EXCEPT ![t] = "in"]
    /\ UNCHANGED <<placement, throughput, tic, active, usage, handler>>

-----------------------------------------------------------------------------
(* I/O of a registered task: task_ctx->throughput += copied. *)
MoveBytes(t) ==
    /\ pc[t] = "in"
    /\ throughput' = [throughput EXCEPT ![t] = TRUE]
    /\ UNCHANGED <<pc, placement, tic, active, usage, handler>>

-----------------------------------------------------------------------------
(* polystore_task_ctx_delete. *)

(* Mutant of Delist: the list is changed while the handler walks it. *)
Delist_unlocked(t) ==
    /\ pc[t] = "in"
    /\ pc' = [pc EXCEPT ![t] = "uncount"]
    /\ UNCHANGED <<placement, throughput, tic, active, usage, handler>>

Delist(t) ==
    /\ pc[t] = "in"
    /\ ListFree
    /\ pc' = [pc EXCEPT ![t] = "uncount"]
    /\ UNCHANGED <<placement, throughput, tic, active, usage, handler>>

(* Mutant of Uncount: the slot is not given back. *)
Uncount_forgets(t) ==
    /\ pc[t] = "uncount"
    /\ usage' = usage
    /\ pc' = [pc EXCEPT ![t] = "deactivate"]
    /\ UNCHANGED <<placement, throughput, tic, active, handler>>

Uncount(t) ==
    /\ pc[t] = "uncount"
    /\ usage' = IF placement[t] = "FAST" THEN usage - 1 ELSE usage
    /\ pc' = [pc EXCEPT ![t] = "deactivate"]
    /\ UNCHANGED <<placement, throughput, tic, active, handler>>

Deactivate(t) ==
    /\ pc[t] = "deactivate"
    /\ active' = active - 1
    /\ pc' = [pc EXCEPT ![t] = "out"]
    /\ UNCHANGED <<placement, throughput, tic, usage, handler>>

-----------------------------------------------------------------------------
(* polystore_placement_dynamic, called on SIGPROF. *)

Tick ==
    /\ hpc = "idle"
    /\ hpc' = "walk"
    /\ todo' = {t \in Tasks : pc[t] = "in"}
    /\ UNCHANGED <<task, active, usage, cur, last>>

(* Mutant of Visit: the last slot is never given out. *)
Visit_off_by_one ==
    /\ hpc = "walk"
    /\ \E t \in todo :
          /\ cur' = t
          /\ todo' = todo \ {t}
          /\ last' = throughput[t]
          /\ throughput' = [throughput EXCEPT ![t] = FALSE]
          /\ hpc' = IF placement[t] = "SLOW" /\ usage + 1 < Split THEN "promote" ELSE "tic"
    /\ UNCHANGED <<pc, placement, tic, active, usage>>

(* The epoch of the next task ends; it may move up if a slot looks free. *)
Visit ==
    /\ hpc = "walk"
    /\ \E t \in todo :
          /\ cur' = t
          /\ todo' = todo \ {t}
          /\ last' = throughput[t]
          /\ throughput' = [throughput EXCEPT ![t] = FALSE]
          /\ hpc' = IF placement[t] = "SLOW" /\ usage < Split THEN "promote" ELSE "tic"
    /\ UNCHANGED <<pc, placement, tic, active, usage>>

Promote ==
    /\ hpc = "promote"
    /\ usage' = usage + 1
    /\ placement' = [placement EXCEPT ![cur] = "FAST"]
    /\ hpc' = "tic"
    /\ UNCHANGED <<pc, throughput, tic, active, todo, cur, last>>

(* Mutant of LowTic: the count starts again every epoch. *)
LowTic_restarts(t) == IF last THEN 0 ELSE 1

(* Idle epochs in a row, counted up to one past the threshold. *)
LowTic(t) ==
    IF last THEN 0 ELSE IF tic[t] > LowEpochs THEN tic[t] ELSE tic[t] + 1

(* A task that has been idle for long gives its slot up. *)
Demote ==
    /\ hpc = "tic"
    /\ tic' = [tic EXCEPT ![cur] = LowTic(cur)]
    /\ \/ /\ LowTic(cur) > LowEpochs /\ placement[cur] = "FAST"
          /\ placement' = [placement EXCEPT ![cur] = "SLOW"]
          /\ usage' = usage - 1
       \/ /\ ~ (LowTic(cur) > LowEpochs /\ placement[cur] = "FAST")
          /\ UNCHANGED <<placement, usage>>
    /\ hpc' = "walk"
    /\ UNCHANGED <<pc, throughput, active, todo, cur, last>>

EndWalk ==
    /\ hpc = "walk"
    /\ todo = {}
    /\ hpc' = "idle" /\ cur' = None /\ last' = FALSE
    /\ UNCHANGED <<task, active, usage, todo>>

-----------------------------------------------------------------------------
Init ==
    /\ pc = [t \in Tasks |-> "out"]
    /\ placement = [t \in Tasks |-> "SLOW"]
    /\ throughput = [t \in Tasks |-> FALSE]
    /\ tic = [t \in Tasks |-> 0]
    /\ active = 0 /\ usage = 0
    /\ hpc = "idle" /\ todo = {} /\ cur = None /\ last = FALSE

Calls(t) ==
    \/ CountFast(t) \/ Enlist(t)
    \/ Uncount(t) \/ Deactivate(t)

Handler == Tick \/ Visit \/ Promote \/ Demote \/ EndWalk

Next ==
    \/ \E t \in Tasks : Register(t) \/ Calls(t) \/ MoveBytes(t) \/ Delist(t)
    \/ Handler

Spec == Init /\ [][Next]_vars

(* The timer keeps firing while the process uses the CPU, and the handler  *)
(* runs to its end.  Threads may stop anywhere.                            *)
FairSpec == Spec /\ WF_vars(Handler)

-----------------------------------------------------------------------------
(* Properties. *)

(* The tasks that hold a slot of the fast device, and those that have been *)
(* given one and are about to count it.                                    *)
Fast    == {t \in Tasks : placement[t] = "FAST" /\ pc[t] \in {"list", "in", "uncount"}}
Pending == {t \in Tasks : pc[t] = "count"}

(* sched_fastdev_usage is exactly the number of tasks placed on the fast   *)
(* device: no registration, deletion, promotion or demotion counts a slot  *)
(* twice or loses one, although the counter and the placements are changed *)
(* without a common lock.                                                  *)
UsageExact == usage = Cardinality(Fast)

(* The split point is not a hard limit: a registering task decides before  *)
(* it counts, and the handler fills the slot meanwhile.  But the excess is *)
(* bounded: never more than twice as many tasks as the split point.        *)
FastBounded == usage <= 2 * Split

(* A task that registered and moves no data does not keep its slot: it is  *)
(* on the slow device again and again.                                     *)
IdleYields ==
    \A t \in Tasks :
        <>[](pc[t] = "in" /\ ~ throughput[t]) => []<>(placement[t] = "SLOW")

(* A slot does not stay free while a task waits on the slow device. *)
SlotsUsed ==
    \A t \in Tasks : ~ <>[](pc[t] = "in" /\ placement[t] = "SLOW" /\ usage < Split)
=============================================================================
