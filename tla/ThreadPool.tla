----------------------------- MODULE ThreadPool -----------------------------
(***************************************************************************)
(* The background flushing thread pool of PolyLib (thpool.c): a job queue  *)
(* under rwmutex, a binary semaphore has_jobs built from a mutex and a     *)
(* condition variable, and the two counters num_threads_alive and          *)
(* num_threads_working under thcount_lock.                                 *)
(*                                                                         *)
(* A step is one critical section of the code: what a thread does between  *)
(* taking and releasing one of these mutexes, or between two accesses to   *)
(* shared memory.  The condition variables are modelled by the sets of     *)
(* threads asleep on them, so a wake-up that is lost stays lost.           *)
(***************************************************************************)
EXTENDS Naturals, Sequences, FiniteSets, Functions

CONSTANTS Workers,   \* the threads thpool_init creates
          Callers,   \* the threads that call thpool_wait
          Jobs,      \* the jobs handed to thpool_add_work, one identity per call
          NoJob      \* job_p = NULL

ASSUME WorkersAssumption == IsFiniteSet(Workers) /\ Workers # {}

ASSUME NoJobAssumption == NoJob \notin Jobs

VARIABLES queue,        \* jobqueue: the jobs, front first; len = Len(queue)
          has_jobs,     \* bsem v
          asleep,       \* workers in pthread_cond_wait of bsem_wait
          keepalive,    \* threads_keepalive
          alive,        \* num_threads_alive
          working,      \* num_threads_working
          initialised,  \* thpool_init has returned
          pc,           \* per worker: the next statement of thread_do
          job,          \* per worker: job_p
          cpc,          \* per caller: the next statement of thpool_wait
          dpc,          \* thpool_destroy: "no", "poll", "freed"
          submitted,    \* jobs thpool_add_work has returned for
          finished,     \* jobs whose function has returned
          before        \* per caller: the jobs submitted when it called thpool_wait

sem    == <<has_jobs, asleep>>
counts == <<alive, working>>
vars   == <<queue, sem, keepalive, counts, initialised, pc, job, cpc, dpc,
            submitted, finished, before>>

(* Where a worker is counted in num_threads_alive and num_threads_working. *)
LivePCs    == {"loop", "sem", "check", "count", "pull", "run", "idle", "exit"}
WorkingPCs == {"pull", "run", "idle"}
PCs        == LivePCs \cup {"start", "unlock", "dead"}

TypeOK ==
    /\ queue \in Seq(Jobs)
    /\ has_jobs \in {0, 1}
    /\ asleep \subseteq Workers
    /\ keepalive \in BOOLEAN
    /\ alive \in Nat /\ working \in Nat
    /\ initialised \in BOOLEAN
    /\ pc \in [Workers -> PCs]
    /\ job \in [Workers -> Jobs \cup {NoJob}]
    /\ cpc \in [Callers -> {"out", "lock", "asleep", "returned"}]
    /\ dpc \in {"no", "poll", "freed"}
    /\ submitted \subseteq Jobs /\ finished \subseteq Jobs
    /\ before \in [Callers -> SUBSET Jobs]

-----------------------------------------------------------------------------
(* The binary semaphore. *)

(* Mutant of bsem_post: a counting semaphore. *)
bsem_post_counting == has_jobs' = has_jobs + 1 /\ asleep' = {}

(* bsem_post: the value becomes 1 and pthread_cond_signal wakes at least   *)
(* one sleeper, if there is one.                                           *)
bsem_post ==
    /\ has_jobs' = 1
    /\ \E still \in SUBSET asleep :
          /\ asleep # {} => still # asleep
          /\ asleep' = still

(* Mutant of bsem_post_all: the broadcast is missing. *)
bsem_post_all_silent == has_jobs' = 1 /\ asleep' = asleep

(* bsem_post_all: the value becomes 1 and every sleeper wakes. *)
bsem_post_all == has_jobs' = 1 /\ asleep' = {}

(* One turn of the loop of bsem_wait, by a worker that is awake: take the  *)
(* semaphore or go (back) to sleep.                                        *)
bsem_wait(w) ==
    /\ w \notin asleep
    /\ \/ /\ has_jobs = 1
          /\ has_jobs' = 0
          /\ pc' = [pc EXCEPT ![w] = "check"]
          /\ UNCHANGED asleep
       \/ /\ has_jobs # 1
          /\ asleep' = asleep \cup {w}
          /\ UNCHANGED <<has_jobs, pc>>

-----------------------------------------------------------------------------
(* The job queue. *)

jobqueue_push(j) ==
    /\ queue' = Append(queue, j)
    /\ bsem_post

(* Mutant of jobqueue_pull: the jobs left behind are not posted. *)
jobqueue_pull_no_repost(w) ==
    \/ /\ queue = <<>>
       /\ job' = [job EXCEPT ![w] = NoJob]
       /\ UNCHANGED <<queue, sem>>
    \/ /\ queue # <<>>
       /\ job' = [job EXCEPT ![w] = Head(queue)]
       /\ queue' = Tail(queue)
       /\ UNCHANGED sem

(* Remove the front job; post again when the queue held more than one. *)
jobqueue_pull(w) ==
    \/ /\ queue = <<>>
       /\ job' = [job EXCEPT ![w] = NoJob]
       /\ UNCHANGED <<queue, sem>>
    \/ /\ queue # <<>>
       /\ job' = [job EXCEPT ![w] = Head(queue)]
       /\ queue' = Tail(queue)
       /\ IF Len(queue) > 1 THEN bsem_post ELSE UNCHANGED sem

-----------------------------------------------------------------------------
(* Worker threads: thread_do. *)

Start(w) ==
    /\ pc[w] = "start"
    /\ alive' = alive + 1
    /\ pc' = [pc EXCEPT ![w] = "loop"]
    /\ UNCHANGED <<queue, sem, keepalive, working, initialised, job, cpc, dpc,
                   submitted, finished, before>>

Loop(w) ==
    /\ pc[w] = "loop"
    /\ pc' = [pc EXCEPT ![w] = IF keepalive THEN "sem" ELSE "exit"]
    /\ UNCHANGED <<queue, sem, keepalive, counts, initialised, job, cpc, dpc,
                   submitted, finished, before>>

WaitForJob(w) ==
    /\ pc[w] = "sem"
    /\ bsem_wait(w)
    /\ UNCHANGED <<queue, keepalive, counts, initialised, job, cpc, dpc,
                   submitted, finished, before>>

CheckKeepalive(w) ==
    /\ pc[w] = "check"
    /\ pc' = [pc EXCEPT ![w] = IF keepalive THEN "count" ELSE "loop"]
    /\ UNCHANGED <<queue, sem, keepalive, counts, initialised, job, cpc, dpc,
                   submitted, finished, before>>

CountIn(w) ==
    /\ pc[w] = "count"
    /\ working' = working + 1
    /\ pc' = [pc EXCEPT ![w] = "pull"]
    /\ UNCHANGED <<queue, sem, keepalive, alive, initialised, job, cpc, dpc,
                   submitted, finished, before>>

Pull(w) ==
    /\ pc[w] = "pull"
    /\ jobqueue_pull(w)
    /\ pc' = [pc EXCEPT ![w] = IF queue = <<>> THEN "idle" ELSE "run"]
    /\ UNCHANGED <<keepalive, counts, initialised, cpc, dpc, submitted,
                   finished, before>>

(* The job's function returns; the job structure is freed. *)
RunJob(w) ==
    /\ pc[w] = "run"
    /\ finished' = finished \cup {job[w]}
    /\ job' = [job EXCEPT ![w] = NoJob]
    /\ pc' = [pc EXCEPT ![w] = "idle"]
    /\ UNCHANGED <<queue, sem, keepalive, counts, initialised, cpc, dpc,
                   submitted, before>>

(* Mutant of CountOut: nobody is told that the pool became idle. *)
CountOut_silent(w) ==
    /\ pc[w] = "idle"
    /\ working' = working - 1
    /\ pc' = [pc EXCEPT ![w] = "loop"]
    /\ UNCHANGED <<queue, sem, keepalive, alive, initialised, job, cpc, dpc,
                   submitted, finished, before>>

(* The last thread to stop working broadcasts threads_all_idle. *)
CountOut(w) ==
    /\ pc[w] = "idle"
    /\ working' = working - 1
    /\ cpc' = IF working' = 0
              THEN [c \in Callers |-> IF cpc[c] = "asleep" THEN "lock" ELSE cpc[c]]
              ELSE cpc
    /\ pc' = [pc EXCEPT ![w] = "loop"]
    /\ UNCHANGED <<queue, sem, keepalive, alive, initialised, job, dpc,
                   submitted, finished, before>>

(* The thread leaves in two steps: it is no longer counted alive, and only *)
(* then gives back thcount_lock, which is part of the pool structure and   *)
(* may be freed by then.                                                   *)
Exit(w) ==
    /\ pc[w] = "exit"
    /\ alive' = alive - 1
    /\ pc' = [pc EXCEPT ![w] = "unlock"]
    /\ UNCHANGED <<queue, sem, keepalive, working, initialised, job, cpc, dpc,
                   submitted, finished, before>>

Unlock(w) ==
    /\ pc[w] = "unlock"
    /\ pc' = [pc EXCEPT ![w] = "dead"]
    /\ UNCHANGED <<queue, sem, keepalive, counts, initialised, job, cpc, dpc,
                   submitted, finished, before>>

Worker(w) ==
    \/ Start(w) \/ Loop(w) \/ WaitForJob(w) \/ CheckKeepalive(w) \/ CountIn(w)
    \/ Pull(w) \/ RunJob(w) \/ CountOut(w) \/ Exit(w) \/ Unlock(w)

-----------------------------------------------------------------------------
(* The pool's interface. *)

(* thpool_init spins until every thread it created has counted itself in. *)
thpool_init ==
    /\ ~initialised
    /\ alive = Cardinality(Workers)
    /\ initialised' = TRUE
    /\ UNCHANGED <<queue, sem, keepalive, counts, pc, job, cpc, dpc, submitted,
                   finished, before>>

thpool_add_work(j) ==
    /\ initialised /\ dpc = "no"
    /\ j \notin submitted
    /\ jobqueue_push(j)
    /\ submitted' = submitted \cup {j}
    /\ UNCHANGED <<keepalive, counts, initialised, pc, job, cpc, dpc, finished,
                   before>>

CallWait(c) ==
    /\ initialised /\ dpc = "no"
    /\ cpc[c] \in {"out", "returned"}
    /\ cpc' = [cpc EXCEPT ![c] = "lock"]
    /\ before' = [before EXCEPT ![c] = submitted]
    /\ UNCHANGED <<queue, sem, keepalive, counts, initialised, pc, job, dpc,
                   submitted, finished>>

(* Mutant of thpool_wait: an empty queue is taken for an idle pool. *)
thpool_wait_queue_only(c) ==
    /\ cpc[c] = "lock"
    /\ cpc' = [cpc EXCEPT ![c] = IF queue # <<>> THEN "asleep" ELSE "returned"]
    /\ UNCHANGED <<queue, sem, keepalive, counts, initialised, pc, job, dpc,
                   submitted, finished, before>>

(* One turn of the loop of thpool_wait.  thcount_lock keeps                *)
(* num_threads_working fixed while the two counters are compared, so the   *)
(* test is as if both were read when jobqueue.len is.                      *)
thpool_wait(c) ==
    /\ cpc[c] = "lock"
    /\ cpc' = [cpc EXCEPT ![c] = IF queue # <<>> \/ working # 0
                                 THEN "asleep" ELSE "returned"]
    /\ UNCHANGED <<queue, sem, keepalive, counts, initialised, pc, job, dpc,
                   submitted, finished, before>>

(* thpool_destroy: no thread is inside another call on this pool. *)
thpool_destroy ==
    /\ initialised /\ dpc = "no"
    /\ \A c \in Callers : cpc[c] \in {"out", "returned"}
    /\ keepalive' = FALSE
    /\ dpc' = "poll"
    /\ UNCHANGED <<queue, sem, counts, initialised, pc, job, cpc, submitted,
                   finished, before>>

(* Both polling loops, the one with a one-second budget and the one that   *)
(* sleeps, post to every thread while some thread is alive.                *)
DestroyPoll ==
    /\ dpc = "poll" /\ alive # 0
    /\ bsem_post_all
    /\ UNCHANGED <<queue, keepalive, counts, initialised, pc, job, cpc, dpc,
                   submitted, finished, before>>

(* Mutant of DestroyFree: the polling stops when its second is over. *)
DestroyFree_early ==
    /\ dpc = "poll"
    /\ queue' = <<>>
    /\ has_jobs' = 0
    /\ dpc' = "freed"
    /\ UNCHANGED <<asleep, keepalive, counts, initialised, pc, job, cpc,
                   submitted, finished, before>>

(* jobqueue_destroy drops the jobs that never ran; then the memory goes. *)
DestroyFree ==
    /\ dpc = "poll" /\ alive = 0
    /\ queue' = <<>>
    /\ has_jobs' = 0
    /\ dpc' = "freed"
    /\ UNCHANGED <<asleep, keepalive, counts, initialised, pc, job, cpc,
                   submitted, finished, before>>

-----------------------------------------------------------------------------
Init ==
    /\ queue = <<>>
    /\ has_jobs = 0
    /\ asleep = {}
    /\ keepalive = TRUE
    /\ alive = 0 /\ working = 0
    /\ initialised = FALSE
    /\ pc = [w \in Workers |-> "start"]
    /\ job = [w \in Workers |-> NoJob]
    /\ cpc = [c \in Callers |-> "out"]
    /\ dpc = "no"
    /\ submitted = {} /\ finished = {}
    /\ before = [c \in Callers |-> {}]

Next ==
    \/ \E w \in Workers : Worker(w)
    \/ \E c \in Callers : CallWait(c) \/ thpool_wait(c)
    \/ \E j \in Jobs : thpool_add_work(j)
    \/ thpool_init \/ thpool_destroy \/ DestroyPoll \/ DestroyFree

(* The scheduler runs every thread that can run.  Nobody is obliged to add *)
(* work, to wait or to destroy the pool.                                   *)
Fairness ==
    /\ \A w \in Workers : WF_vars(Worker(w))
    /\ \A c \in Callers : WF_vars(thpool_wait(c))
    /\ WF_vars(thpool_init) /\ WF_vars(DestroyPoll) /\ WF_vars(DestroyFree)

Spec     == Init /\ [][Next]_vars
FairSpec == Spec /\ Fairness

-----------------------------------------------------------------------------
(* Properties. *)

(* The semaphore is binary, one post may stand for several jobs, and a     *)
(* signal may go to a thread that loses the race for the value.  Still, as *)
(* long as the pool lives, a queued job is never forgotten: it is          *)
(* announced by has_jobs, or a worker that took the announcement has not   *)
(* yet pulled (jobqueue_push, jobqueue_pull, bsem_wait); and has_jobs is   *)
(* never 1 with every worker asleep (bsem_post).                           *)
NoLostWakeup ==
    /\ keepalive /\ queue # <<>> =>
          \/ has_jobs = 1
          \/ \E w \in Workers : pc[w] \in {"check", "count", "pull"}
    /\ has_jobs = 1 => asleep # Workers

(* thpool_wait returns only when every job added before the call has run   *)
(* to its end: a worker counts itself in before it takes a job off the     *)
(* queue, so the job is visible in one of the two counters throughout.     *)
WaitMeansDone ==
    \A c \in Callers : cpc[c] = "returned" => before[c] \subseteq finished

(* A caller asleep in thpool_wait is never left behind: there is still a   *)
(* job or a working thread whose CountOut will broadcast.                  *)
CallerNotStranded ==
    (\E c \in Callers : cpc[c] = "asleep") => queue # <<>> \/ working # 0

(* Every job added is in exactly one place: in the queue once, in the hands *)
(* of one worker, or finished; so no job runs twice and, until the pool is  *)
(* destroyed, none disappears.                                             *)
Held == {w \in Workers : pc[w] = "run"}
JobsConserved ==
    /\ IsInjective(queue) /\ Range(queue) \subseteq submitted \ finished
    /\ \A w \in Held : job[w] \in submitted \ (finished \cup Range(queue))
    /\ \A v, w \in Held : job[v] = job[w] => v = w
    /\ dpc # "freed" => submitted = finished \cup Range(queue) \cup {job[w] : w \in Held}

(* The pool as its users see it (JobPool): a job has started when a worker *)
(* pulled it, a caller is inside from its call of thpool_wait on.          *)
StateOf == [no |-> "open", poll |-> "closing", freed |-> "closed"]
Pool == INSTANCE JobPool WITH
    running <- {job[w] : w \in Held},
    inside  <- {c \in Callers : cpc[c] \in {"lock", "asleep"}},
    marks   <- before,
    state   <- StateOf[dpc]

(* Mutex, semaphore, counters and polling implement that pool: in          *)
(* particular jobs start in the order of jobqueue_push, and thpool_destroy *)
(* frees the queue when no job is running any more, although it only looks *)
(* at num_threads_alive.                                                   *)
ImplementsPool == Pool!Spec

(* Every job added is run, unless the pool is destroyed first. *)
EveryJobRuns == \A j \in Jobs : j \in submitted ~> j \in finished \/ dpc # "no"

(* thpool_wait returns: jobs stop arriving (Jobs is finite) and the pool   *)
(* becomes idle.                                                           *)
WaitReturns == \A c \in Callers : cpc[c] = "lock" ~> cpc[c] = "returned"

(* thpool_destroy gets every worker out of its loop although bsem_wait     *)
(* resets the value each time one worker passes.                           *)
DestroyReturns == dpc = "poll" ~> dpc = "freed"
=============================================================================
