-------------------------- MODULE ThreadPoolProofs --------------------------
(***************************************************************************)
(* Proofs, for any number of workers, callers and jobs, that the pool      *)
(* loses neither jobs nor wake-ups, that thpool_wait is a barrier, and     *)
(* that the pool implements JobPool.                                       *)
(***************************************************************************)
EXTENDS ThreadPool, FiniteSetTheorems, TLAPS

(* What jobqueue_push adds to the jobs in the queue. *)
LEMMA AppendFacts ==
    ASSUME NEW S, NEW s \in Seq(S), NEW x \in S
    PROVE  /\ Append(s, x) \in Seq(S) /\ Append(s, x) # <<>>
           /\ Range(Append(s, x)) = Range(s) \cup {x}
           /\ IsInjective(s) /\ x \notin Range(s) => IsInjective(Append(s, x))
  <1>1. Append(s, x) \in Seq(S) /\ Len(Append(s, x)) = Len(s) + 1
    OBVIOUS
  <1>2. /\ \A i \in 1 .. Len(s) : Append(s, x)[i] = s[i]
        /\ Append(s, x)[Len(s) + 1] = x
    OBVIOUS
  <1>3. DOMAIN s = 1 .. Len(s) /\ DOMAIN Append(s, x) = 1 .. (Len(s) + 1)
    OBVIOUS
  <1>4. Len(s) \in Nat
    OBVIOUS
  <1>5. Range(Append(s, x)) = Range(s) \cup {x}
    BY <1>2, <1>3, <1>4 DEF Range
  <1>6. IsInjective(s) /\ x \notin Range(s) => IsInjective(Append(s, x))
    BY <1>2, <1>3, <1>4 DEF Range, IsInjective
  <1>7. Append(s, x) # <<>>
    BY <1>1, <1>4
  <1> QED BY <1>1, <1>5, <1>6, <1>7

(* What jobqueue_pull takes from the jobs in the queue. *)
LEMMA TailFacts ==
    ASSUME NEW S, NEW s \in Seq(S), s # <<>>
    PROVE  /\ Head(s) \in S /\ Tail(s) \in Seq(S)
           /\ Range(s) = Range(Tail(s)) \cup {Head(s)}
           /\ IsInjective(s) => IsInjective(Tail(s)) /\ Head(s) \notin Range(Tail(s))
           /\ Len(s) > 1 <=> Tail(s) # <<>>
  <1>1. /\ Head(s) = s[1] /\ Head(s) \in S /\ Tail(s) \in Seq(S)
        /\ Len(Tail(s)) = Len(s) - 1
        /\ Len(s) \in Nat /\ Len(s) >= 1
    OBVIOUS
  <1>2. \A i \in 1 .. Len(Tail(s)) : Tail(s)[i] = s[i + 1]
    OBVIOUS
  <1>3. DOMAIN s = 1 .. Len(s) /\ DOMAIN Tail(s) = 1 .. (Len(s) - 1)
    BY <1>1
  <1>4. ASSUME NEW i \in DOMAIN s, i # 1
        PROVE  i - 1 \in DOMAIN Tail(s) /\ s[i] = Tail(s)[i - 1]
    BY <1>1, <1>2, <1>3, <1>4
  <1>5. ASSUME NEW i \in DOMAIN Tail(s)
        PROVE  i + 1 \in DOMAIN s /\ Tail(s)[i] = s[i + 1] /\ i + 1 # 1
    BY <1>1, <1>2, <1>3
  <1>6. Range(s) \subseteq Range(Tail(s)) \cup {Head(s)}
    BY <1>1, <1>4 DEF Range
  <1>7. Range(Tail(s)) \cup {Head(s)} \subseteq Range(s)
    BY <1>1, <1>3, <1>5 DEF Range
  <1>8. IsInjective(s) => IsInjective(Tail(s))
    BY <1>1, <1>2, <1>3 DEF IsInjective
  <1>9. IsInjective(s) => Head(s) \notin Range(Tail(s))
    BY <1>1, <1>2, <1>3 DEF IsInjective, Range
  <1>10. Len(s) > 1 <=> Tail(s) # <<>>
    <2>1. \A t \in Seq(S) : t = <<>> <=> Len(t) = 0
      OBVIOUS
    <2>2. Tail(s) = <<>> <=> Len(Tail(s)) = 0
      BY <1>1, <2>1, Zenon
    <2>3. Len(s) > 1 <=> Len(Tail(s)) # 0
      BY <1>1
    <2> QED BY <2>2, <2>3, Zenon
  <1> QED BY <1>1, <1>6, <1>7, <1>8, <1>9, <1>10

-----------------------------------------------------------------------------
(* The workers whose program counter lies in P. *)
At(P) == {w \in Workers : pc[w] \in P}

(* The two counters count what their names say; without this the invariant  *)
(* is not inductive: num_threads_working = 0 must exclude a running job.   *)
Counted ==
    /\ alive = Cardinality(At(LivePCs))
    /\ working = Cardinality(At(WorkingPCs))

(* A worker about to run a job has one. *)
Holding == \A w \in Workers : pc[w] = "run" => job[w] \in Jobs

(* How the sets of workers and their sizes change when worker w moves on. *)
LEMMA MoveFacts ==
    ASSUME NEW P, NEW w \in Workers, NEW a, pc \in [Workers -> PCs],
           pc' = [pc EXCEPT ![w] = a]
    PROVE  /\ Cardinality(At(P)) \in Nat
           /\ pc[w] \in P => Cardinality(At(P)) # 0
           /\ (pc[w] \in P <=> a \in P) => Cardinality(At(P)') = Cardinality(At(P))
           /\ pc[w] \notin P /\ a \in P
                 => Cardinality(At(P)') = Cardinality(At(P)) + 1
           /\ pc[w] \in P /\ a \notin P
                 => Cardinality(At(P)') = Cardinality(At(P)) - 1
  <1>1. IsFiniteSet(At(P)) /\ Cardinality(At(P)) \in Nat
    <2>1. At(P) \subseteq Workers
      BY DEF At
    <2> QED BY <2>1, WorkersAssumption, FS_Subset, FS_CardinalityType
  <1>2. pc[w] \in P => Cardinality(At(P)) # 0
    BY <1>1, FS_EmptySet DEF At
  <1>3. CASE pc[w] \in P <=> a \in P
    <2>1. At(P)' = At(P)
      BY <1>3 DEF At
    <2> QED BY <1>1, <1>2, <1>3, <2>1
  <1>4. CASE pc[w] \notin P /\ a \in P
    <2>1. At(P)' = At(P) \cup {w} /\ w \notin At(P)
      BY <1>4 DEF At
    <2> QED BY <1>1, <1>2, <1>4, <2>1, FS_AddElement
  <1>5. CASE pc[w] \in P /\ a \notin P
    <2>1. At(P)' = At(P) \ {w} /\ w \in At(P)
      BY <1>5 DEF At
    <2>2. Cardinality(At(P) \ {w}) = Cardinality(At(P)) - 1
      BY <1>1, <2>1, FS_RemoveElement
    <2> QED BY <1>1, <1>2, <1>5, <2>1, <2>2
  <1> QED BY <1>1, <1>2, <1>3, <1>4, <1>5

In(a, P) == IF a \in P THEN 1 ELSE 0

(* A step that moves worker w keeps the counters right if it adds to each   *)
(* counter what the move adds to the set it counts.                        *)
LEMMA MoveCounts ==
    ASSUME Counted, pc \in [Workers -> PCs],
           NEW w \in Workers, NEW a, pc' = [pc EXCEPT ![w] = a],
           alive' = alive + In(a, LivePCs) - In(pc[w], LivePCs),
           working' = working + In(a, WorkingPCs) - In(pc[w], WorkingPCs)
    PROVE  Counted' /\ alive' \in Nat /\ working' \in Nat
  <1>1. ASSUME NEW P, NEW n, n = Cardinality(At(P))
        PROVE  /\ Cardinality(At(P)') = n + In(a, P) - In(pc[w], P)
               /\ n + In(a, P) - In(pc[w], P) \in Nat
    <2>1. /\ Cardinality(At(P)) \in Nat
          /\ pc[w] \in P => Cardinality(At(P)) # 0
          /\ (pc[w] \in P <=> a \in P) => Cardinality(At(P)') = Cardinality(At(P))
          /\ pc[w] \notin P /\ a \in P
                => Cardinality(At(P)') = Cardinality(At(P)) + 1
          /\ pc[w] \in P /\ a \notin P
                => Cardinality(At(P)') = Cardinality(At(P)) - 1
      BY MoveFacts
    <2> QED BY <1>1, <2>1 DEF In
  <1>2. /\ alive' = Cardinality(At(LivePCs)') /\ alive' \in Nat
    BY <1>1 DEF Counted
  <1>3. /\ working' = Cardinality(At(WorkingPCs)') /\ working' \in Nat
    BY <1>1 DEF Counted
  <1> QED BY <1>2, <1>3 DEF Counted

(* The counters and the types hold in every step of thread_do ... *)
LEMMA WorkerCounts ==
    ASSUME TypeOK, Counted, Holding, NEW w \in Workers, Worker(w)
    PROVE  TypeOK' /\ Counted'
  <1>0. pc \in [Workers -> PCs] /\ alive \in Nat /\ working \in Nat
    BY DEF TypeOK
  <1>1. CASE Start(w)
    <2>1. pc[w] = "start" /\ pc' = [pc EXCEPT ![w] = "loop"]
      BY <1>1 DEF Start
    <2>2. Counted' /\ alive' \in Nat /\ working' \in Nat
      <3>1. /\ alive' = alive + In(pc'[w], LivePCs) - In(pc[w], LivePCs)
            /\ working' = working + In(pc'[w], WorkingPCs) - In(pc[w], WorkingPCs)
        BY <1>0, <1>1, <2>1 DEF Start, In, LivePCs, WorkingPCs
      <3> QED BY <1>0, <2>1, <3>1, MoveCounts
    <2> QED BY <1>1, <2>1, <2>2 DEF Start, TypeOK, sem, PCs, LivePCs
  <1>2. CASE Loop(w)
    <2>1. /\ pc[w] = "loop"
          /\ pc' = [pc EXCEPT ![w] = IF keepalive THEN "sem" ELSE "exit"]
      BY <1>2 DEF Loop
    <2>2. Counted' /\ alive' \in Nat /\ working' \in Nat
      <3>1. /\ alive' = alive + In(pc'[w], LivePCs) - In(pc[w], LivePCs)
            /\ working' = working + In(pc'[w], WorkingPCs) - In(pc[w], WorkingPCs)
        BY <1>0, <1>2, <2>1 DEF Loop, counts, In, LivePCs, WorkingPCs
      <3> QED BY <1>0, <2>1, <3>1, MoveCounts
    <2> QED BY <1>2, <2>1, <2>2 DEF Loop, TypeOK, sem, counts, PCs, LivePCs
  <1>3. CASE WaitForJob(w)
    <2>1. CASE has_jobs = 1
      <3>1. pc' = [pc EXCEPT ![w] = "check"] /\ pc[w] = "sem"
        BY <1>3, <2>1 DEF WaitForJob, bsem_wait
      <3>2. Counted' /\ alive' \in Nat /\ working' \in Nat
        <4>1. /\ alive' = alive + In(pc'[w], LivePCs) - In(pc[w], LivePCs)
              /\ working' = working + In(pc'[w], WorkingPCs) - In(pc[w], WorkingPCs)
          BY <1>0, <1>3, <3>1 DEF WaitForJob, counts, In, LivePCs, WorkingPCs
        <4> QED BY <1>0, <3>1, <4>1, MoveCounts
      <3> QED BY <1>3, <2>1, <3>1, <3>2
          DEF WaitForJob, bsem_wait, TypeOK, counts, PCs, LivePCs
    <2>2. CASE has_jobs # 1
      BY <1>3, <2>2 DEF WaitForJob, bsem_wait, TypeOK, counts, Counted, At
    <2> QED BY <2>1, <2>2
  <1>4. CASE CheckKeepalive(w)
    <2>1. /\ pc[w] = "check"
          /\ pc' = [pc EXCEPT ![w] = IF keepalive THEN "count" ELSE "loop"]
      BY <1>4 DEF CheckKeepalive
    <2>2. Counted' /\ alive' \in Nat /\ working' \in Nat
      <3>1. /\ alive' = alive + In(pc'[w], LivePCs) - In(pc[w], LivePCs)
            /\ working' = working + In(pc'[w], WorkingPCs) - In(pc[w], WorkingPCs)
        BY <1>0, <1>4, <2>1 DEF CheckKeepalive, counts, In, LivePCs, WorkingPCs
      <3> QED BY <1>0, <2>1, <3>1, MoveCounts
    <2> QED BY <1>4, <2>1, <2>2 DEF CheckKeepalive, TypeOK, sem, counts, PCs, LivePCs
  <1>5. CASE CountIn(w)
    <2>1. pc[w] = "count" /\ pc' = [pc EXCEPT ![w] = "pull"]
      BY <1>5 DEF CountIn
    <2>2. Counted' /\ alive' \in Nat /\ working' \in Nat
      <3>1. /\ alive' = alive + In(pc'[w], LivePCs) - In(pc[w], LivePCs)
            /\ working' = working + In(pc'[w], WorkingPCs) - In(pc[w], WorkingPCs)
        BY <1>0, <1>5, <2>1 DEF CountIn, In, LivePCs, WorkingPCs
      <3> QED BY <1>0, <2>1, <3>1, MoveCounts
    <2> QED BY <1>5, <2>1, <2>2 DEF CountIn, TypeOK, sem, PCs, LivePCs
  <1>6. CASE Pull(w)
    <2>1. /\ pc[w] = "pull"
          /\ pc' = [pc EXCEPT ![w] = IF queue = <<>> THEN "idle" ELSE "run"]
      BY <1>6 DEF Pull
    <2>2. Counted' /\ alive' \in Nat /\ working' \in Nat
      <3>1. /\ alive' = alive + In(pc'[w], LivePCs) - In(pc[w], LivePCs)
            /\ working' = working + In(pc'[w], WorkingPCs) - In(pc[w], WorkingPCs)
        BY <1>0, <1>6, <2>1 DEF Pull, counts, In, LivePCs, WorkingPCs
      <3> QED BY <1>0, <2>1, <3>1, MoveCounts
    <2>3. has_jobs' \in {0, 1} /\ asleep' \subseteq Workers
      BY <1>6 DEF Pull, jobqueue_pull, bsem_post, TypeOK, sem
    <2>4. queue' \in Seq(Jobs) /\ job' \in [Workers -> Jobs \cup {NoJob}]
      <3>1. CASE queue = <<>>
        BY <1>6, <3>1 DEF Pull, jobqueue_pull, TypeOK
      <3>2. CASE queue # <<>>
        <4>1. Head(queue) \in Jobs /\ Tail(queue) \in Seq(Jobs)
          BY <3>2, TailFacts DEF TypeOK
        <4> QED BY <1>6, <3>2, <4>1 DEF Pull, jobqueue_pull, TypeOK
      <3> QED BY <3>1, <3>2
    <2> QED BY <1>6, <2>1, <2>2, <2>3, <2>4 DEF Pull, TypeOK, counts, PCs, LivePCs
  <1>7. CASE RunJob(w)
    <2>1. pc[w] = "run" /\ pc' = [pc EXCEPT ![w] = "idle"]
      BY <1>7 DEF RunJob
    <2>2. Counted' /\ alive' \in Nat /\ working' \in Nat
      <3>1. /\ alive' = alive + In(pc'[w], LivePCs) - In(pc[w], LivePCs)
            /\ working' = working + In(pc'[w], WorkingPCs) - In(pc[w], WorkingPCs)
        BY <1>0, <1>7, <2>1 DEF RunJob, counts, In, LivePCs, WorkingPCs
      <3> QED BY <1>0, <2>1, <3>1, MoveCounts
    <2>3. job[w] \in Jobs
      BY <2>1 DEF Holding
    <2> QED BY <1>7, <2>1, <2>2, <2>3 DEF RunJob, TypeOK, sem, counts, PCs, LivePCs
  <1>8. CASE CountOut(w)
    <2>1. pc[w] = "idle" /\ pc' = [pc EXCEPT ![w] = "loop"]
      BY <1>8 DEF CountOut
    <2>2. Counted' /\ alive' \in Nat /\ working' \in Nat
      <3>1. /\ alive' = alive + In(pc'[w], LivePCs) - In(pc[w], LivePCs)
            /\ working' = working + In(pc'[w], WorkingPCs) - In(pc[w], WorkingPCs)
        BY <1>0, <1>8, <2>1 DEF CountOut, In, LivePCs, WorkingPCs
      <3> QED BY <1>0, <2>1, <3>1, MoveCounts
    <2> QED BY <1>8, <2>1, <2>2 DEF CountOut, TypeOK, sem, PCs, LivePCs
  <1>9. CASE Exit(w)
    <2>1. pc[w] = "exit" /\ pc' = [pc EXCEPT ![w] = "unlock"]
      BY <1>9 DEF Exit
    <2>2. Counted' /\ alive' \in Nat /\ working' \in Nat
      <3>1. /\ alive' = alive + In(pc'[w], LivePCs) - In(pc[w], LivePCs)
            /\ working' = working + In(pc'[w], WorkingPCs) - In(pc[w], WorkingPCs)
        BY <1>0, <1>9, <2>1 DEF Exit, In, LivePCs, WorkingPCs
      <3> QED BY <1>0, <2>1, <3>1, MoveCounts
    <2> QED BY <1>9, <2>1, <2>2 DEF Exit, TypeOK, sem, PCs, LivePCs
  <1>10. CASE Unlock(w)
    <2>1. pc[w] = "unlock" /\ pc' = [pc EXCEPT ![w] = "dead"]
      BY <1>10 DEF Unlock
    <2>2. Counted' /\ alive' \in Nat /\ working' \in Nat
      <3>1. /\ alive' = alive + In(pc'[w], LivePCs) - In(pc[w], LivePCs)
            /\ working' = working + In(pc'[w], WorkingPCs) - In(pc[w], WorkingPCs)
        BY <1>0, <1>10, <2>1 DEF Unlock, counts, In, LivePCs, WorkingPCs
      <3> QED BY <1>0, <2>1, <3>1, MoveCounts
    <2> QED BY <1>10, <2>1, <2>2 DEF Unlock, TypeOK, sem, counts, PCs, LivePCs
  <1> QED BY <1>1, <1>2, <1>3, <1>4, <1>5, <1>6, <1>7, <1>8, <1>9, <1>10 DEF Worker

(* The steps of the threads that use the pool. *)
Interface ==
    \/ \E c \in Callers : CallWait(c) \/ thpool_wait(c)
    \/ \E j \in Jobs : thpool_add_work(j)
    \/ thpool_init \/ thpool_destroy \/ DestroyPoll \/ DestroyFree

(* ... and in every step of the pool's interface. *)
LEMMA InterfaceCounts ==
    ASSUME TypeOK, Counted, Interface
    PROVE  TypeOK' /\ Counted'
  <1>1. UNCHANGED <<pc, alive, working>>
    BY DEF Interface, CallWait, thpool_wait, thpool_add_work, thpool_init,
           thpool_destroy, DestroyPoll, DestroyFree, counts
  <1>2. Counted'
    BY <1>1 DEF Counted, At
  <1>3. ASSUME NEW c \in Callers, CallWait(c) \/ thpool_wait(c)
        PROVE  TypeOK'
    BY <1>3 DEF CallWait, thpool_wait, TypeOK, sem, counts
  <1>4. ASSUME NEW j \in Jobs, thpool_add_work(j)
        PROVE  TypeOK'
    <2>1. queue' \in Seq(Jobs)
      BY <1>4, AppendFacts DEF thpool_add_work, jobqueue_push, TypeOK
    <2> QED BY <1>4, <2>1
        DEF thpool_add_work, jobqueue_push, bsem_post, TypeOK, counts
  <1>5. CASE thpool_init \/ thpool_destroy \/ DestroyPoll
    BY <1>2, <1>5 DEF thpool_init, thpool_destroy, DestroyPoll, bsem_post_all,
                      TypeOK, sem, counts
  <1>6. CASE DestroyFree
    BY <1>2, <1>6 DEF DestroyFree, TypeOK, counts
  <1> QED BY <1>2, <1>3, <1>4, <1>5, <1>6 DEF Interface

-----------------------------------------------------------------------------
(* No wake-up is lost. *)

(* bsem_post never leaves every worker asleep. *)
LEMMA PostWakes ==
    ASSUME TypeOK, bsem_post
    PROVE  has_jobs' = 1 /\ asleep' # Workers
  BY WorkersAssumption DEF bsem_post, TypeOK

(* No wake-up is lost in a step of thread_do ... *)
LEMMA WorkerWakes ==
    ASSUME TypeOK, NoLostWakeup, NEW w \in Workers, Worker(w)
    PROVE  NoLostWakeup'
  <1>0. pc \in [Workers -> PCs]
    BY DEF TypeOK
  <1>1. CASE Start(w)
    BY <1>0, <1>1 DEF Start, NoLostWakeup, sem
  <1>2. CASE Loop(w)
    BY <1>0, <1>2 DEF Loop, NoLostWakeup, sem
  <1>3. CASE WaitForJob(w)
    BY <1>0, <1>3 DEF WaitForJob, bsem_wait, NoLostWakeup
  <1>4. CASE CheckKeepalive(w)
    BY <1>0, <1>4 DEF CheckKeepalive, NoLostWakeup, sem
  <1>5. CASE CountIn(w)
    BY <1>0, <1>5 DEF CountIn, NoLostWakeup, sem
  <1>6. CASE Pull(w)
    <2>1. CASE queue = <<>>
      BY <1>0, <1>6, <2>1 DEF Pull, jobqueue_pull, NoLostWakeup, sem
    <2>2. CASE queue # <<>> /\ Len(queue) > 1
      BY <1>6, <2>2, PostWakes DEF Pull, jobqueue_pull, NoLostWakeup
    <2>3. CASE queue # <<>> /\ ~ Len(queue) > 1
      <3>1. queue' = <<>>
        BY <1>6, <2>3, TailFacts DEF Pull, jobqueue_pull, TypeOK
      <3> QED BY <1>6, <2>3, <3>1 DEF Pull, jobqueue_pull, NoLostWakeup, sem
    <2> QED BY <2>1, <2>2, <2>3
  <1>7. CASE RunJob(w)
    BY <1>0, <1>7 DEF RunJob, NoLostWakeup, sem
  <1>8. CASE CountOut(w)
    BY <1>0, <1>8 DEF CountOut, NoLostWakeup, sem
  <1>9. CASE Exit(w)
    BY <1>0, <1>9 DEF Exit, NoLostWakeup, sem
  <1>10. CASE Unlock(w)
    BY <1>0, <1>10 DEF Unlock, NoLostWakeup, sem
  <1> QED BY <1>1, <1>2, <1>3, <1>4, <1>5, <1>6, <1>7, <1>8, <1>9, <1>10 DEF Worker

(* ... or in a step of the interface. *)
LEMMA InterfaceWakes ==
    ASSUME TypeOK, NoLostWakeup, Interface
    PROVE  NoLostWakeup'
  <1>1. ASSUME NEW c \in Callers, CallWait(c) \/ thpool_wait(c)
        PROVE  NoLostWakeup'
    BY <1>1 DEF CallWait, thpool_wait, NoLostWakeup, sem
  <1>2. ASSUME NEW j \in Jobs, thpool_add_work(j)
        PROVE  NoLostWakeup'
    BY <1>2, PostWakes DEF thpool_add_work, jobqueue_push, NoLostWakeup
  <1>3. CASE thpool_init
    BY <1>3 DEF thpool_init, NoLostWakeup, sem
  <1>4. CASE thpool_destroy
    BY <1>4 DEF thpool_destroy, NoLostWakeup, sem
  <1>5. CASE DestroyPoll
    BY <1>5, WorkersAssumption DEF DestroyPoll, bsem_post_all, NoLostWakeup
  <1>6. CASE DestroyFree
    BY <1>6 DEF DestroyFree, NoLostWakeup
  <1> QED BY <1>1, <1>2, <1>3, <1>4, <1>5, <1>6 DEF Interface

-----------------------------------------------------------------------------
(* No job is lost and none runs twice. *)

(* A step that touches neither the queue nor a job somebody holds. *)
LEMMA QuietJobs ==
    ASSUME JobsConserved, UNCHANGED <<queue, finished, submitted>>, Held' = Held,
           \A v \in Held : job'[v] = job[v],
           dpc' # "freed" => dpc # "freed"
    PROVE  JobsConserved'
  <1>1. {job'[v] : v \in Held'} = {job[v] : v \in Held}
    OBVIOUS
  <1> QED BY <1>1 DEF JobsConserved

(* No job is lost or run twice by a step of thread_do ... *)
LEMMA WorkerJobs ==
    ASSUME TypeOK, JobsConserved, NEW w \in Workers, Worker(w)
    PROVE  JobsConserved'
  <1>0. /\ pc \in [Workers -> PCs] /\ job \in [Workers -> Jobs \cup {NoJob}]
        /\ queue \in Seq(Jobs)
    BY DEF TypeOK
  <1>1. CASE \/ Start(w) \/ Loop(w) \/ WaitForJob(w) \/ CheckKeepalive(w)
             \/ CountIn(w) \/ CountOut(w) \/ Exit(w) \/ Unlock(w)
    <2>1. UNCHANGED <<queue, finished, submitted, job, dpc>> /\ Held' = Held
      BY <1>0, <1>1 DEF Start, Loop, WaitForJob, bsem_wait, CheckKeepalive, CountIn,
                        CountOut, Exit, Unlock, Held
    <2> QED BY <2>1, QuietJobs
  <1>2. CASE Pull(w)
    <2>1. UNCHANGED <<finished, submitted, dpc>> /\ pc[w] = "pull"
      BY <1>2 DEF Pull
    <2>2. CASE queue = <<>>
      <3>1. Held' = Held /\ UNCHANGED queue /\ \A v \in Held : job'[v] = job[v]
        BY <1>0, <1>2, <2>1, <2>2 DEF Pull, jobqueue_pull, Held
      <3> QED BY <2>1, <3>1, QuietJobs
    <2>3. CASE queue # <<>>
      <3>1. /\ Held' = Held \cup {w} /\ w \notin Held
            /\ job'[w] = Head(queue)
            /\ \A v \in Held : job'[v] = job[v]
            /\ queue' = Tail(queue)
        BY <1>0, <1>2, <2>1, <2>3 DEF Pull, jobqueue_pull, Held
      <3>2. /\ IsInjective(queue') /\ Head(queue) \notin Range(queue')
            /\ Range(queue) = Range(queue') \cup {Head(queue)}
        BY <1>0, <2>3, <3>1, TailFacts DEF JobsConserved
      <3>3. Head(queue) \in submitted \ finished
        BY <3>2 DEF JobsConserved
      <3> QED BY <2>1, <3>1, <3>2, <3>3 DEF JobsConserved
    <2> QED BY <2>2, <2>3
  <1>3. CASE RunJob(w)
    <2>1. /\ UNCHANGED <<queue, submitted, dpc>>
          /\ w \in Held /\ Held' = Held \ {w}
          /\ finished' = finished \cup {job[w]}
          /\ \A v \in Held' : job'[v] = job[v]
      BY <1>0, <1>3 DEF RunJob, Held
    <2> QED BY <2>1 DEF JobsConserved
  <1> QED BY <1>1, <1>2, <1>3 DEF Worker

(* ... or by a step of the interface. *)
LEMMA InterfaceJobs ==
    ASSUME TypeOK, JobsConserved, Interface
    PROVE  JobsConserved'
  <1>1. UNCHANGED <<pc, job, finished>> /\ Held' = Held
    BY DEF Interface, CallWait, thpool_wait, thpool_add_work, thpool_init,
           thpool_destroy, DestroyPoll, DestroyFree, Held
  <1>2. ASSUME NEW j \in Jobs, thpool_add_work(j)
        PROVE  JobsConserved'
    <2>1. j \notin submitted /\ submitted' = submitted \cup {j} /\ dpc = "no" /\ dpc' = dpc
      BY <1>2 DEF thpool_add_work
    <2>2. j \notin Range(queue)
      BY <2>1 DEF JobsConserved
    <2>3. IsInjective(queue') /\ Range(queue') = Range(queue) \cup {j}
      BY <1>2, <2>2, AppendFacts DEF thpool_add_work, jobqueue_push, JobsConserved, TypeOK
    <2>4. j \notin finished /\ \A v \in Held : job[v] # j
      BY <2>1 DEF JobsConserved
    <2> QED BY <1>1, <2>1, <2>3, <2>4 DEF JobsConserved
  <1>3. CASE DestroyFree
    <2>1. queue' = <<>> /\ dpc' = "freed" /\ UNCHANGED submitted
      BY <1>3 DEF DestroyFree
    <2>2. IsInjective(queue') /\ Range(queue') = {}
      BY <2>1 DEF IsInjective, Range
    <2> QED BY <1>1, <2>1, <2>2 DEF JobsConserved
  <1>4. CASE \/ \E c \in Callers : CallWait(c) \/ thpool_wait(c)
             \/ thpool_init \/ thpool_destroy \/ DestroyPoll
    <2>1. UNCHANGED <<queue, submitted>> /\ (dpc' # "freed" => dpc # "freed")
      BY <1>4 DEF CallWait, thpool_wait, thpool_init, thpool_destroy, DestroyPoll
    <2> QED BY <1>1, <2>1, QuietJobs
  <1> QED BY <1>2, <1>3, <1>4 DEF Interface

-----------------------------------------------------------------------------
(* thpool_wait is a barrier that always wakes up. *)

(* Callers are inside the pool only while it exists, and wait for jobs that *)
(* were added.                                                             *)
CallersInside ==
    /\ dpc # "no" => \A c \in Callers : cpc[c] \in {"out", "returned"}
    /\ \A c \in Callers : before[c] \subseteq submitted

IInv ==
    /\ TypeOK /\ Counted
    /\ NoLostWakeup
    /\ JobsConserved
    /\ CallersInside /\ CallerNotStranded /\ WaitMeansDone

(* Nothing queued and nobody counted as working: everything has run. *)
LEMMA IdleMeansDone ==
    ASSUME IInv, queue = <<>>, working = 0, dpc = "no"
    PROVE  submitted \subseteq finished
  <1>1. At(WorkingPCs) = {}
    <2>1. IsFiniteSet(At(WorkingPCs))
      <3>1. At(WorkingPCs) \subseteq Workers
        BY DEF At
      <3> QED BY <3>1, WorkersAssumption, FS_Subset
    <2> QED BY <2>1, FS_EmptySet DEF IInv, Counted
  <1>2. Held = {}
    BY <1>1 DEF Held, At, WorkingPCs
  <1>3. Range(queue) = {}
    BY DEF Range
  <1> QED BY <1>2, <1>3 DEF IInv, JobsConserved

(* thpool_wait returns only when it may, and is woken, through the steps of  *)
(* thread_do ...                                                             *)
LEMMA WorkerCallers ==
    ASSUME IInv, NEW w \in Workers, Worker(w)
    PROVE  CallersInside' /\ CallerNotStranded' /\ WaitMeansDone'
  <1>0. /\ pc \in [Workers -> PCs]
        /\ cpc \in [Callers -> {"out", "lock", "asleep", "returned"}]
    BY DEF IInv, TypeOK
  <1>1. UNCHANGED <<dpc, before, submitted>> /\ finished \subseteq finished'
    BY DEF Worker, Start, Loop, WaitForJob, CheckKeepalive, CountIn, Pull, RunJob,
           CountOut, Exit, Unlock
  <1>2. CASE CountOut(w)
    <2>1. CASE working' = 0
      <3>1. cpc' = [c \in Callers |-> IF cpc[c] = "asleep" THEN "lock" ELSE cpc[c]]
        BY <1>2, <2>1 DEF CountOut
      <3>2. /\ \A c \in Callers : cpc'[c] # "asleep"
            /\ \A c \in Callers : cpc'[c] = "returned" => cpc[c] = "returned"
            /\ \A c \in Callers : cpc[c] \in {"out", "returned"} => cpc'[c] = cpc[c]
        BY <1>0, <3>1
      <3> QED BY <1>1, <3>2
          DEF IInv, CallersInside, CallerNotStranded, WaitMeansDone
    <2>2. CASE working' # 0
      <3>1. cpc' = cpc
        BY <1>2, <2>2 DEF CountOut
      <3> QED BY <1>1, <2>2, <3>1
          DEF IInv, CallersInside, CallerNotStranded, WaitMeansDone
    <2> QED BY <2>1, <2>2
  <1>3. CASE ~ CountOut(w)
    <2>1. cpc' = cpc
      BY <1>3 DEF Worker, Start, Loop, WaitForJob, CheckKeepalive, CountIn, Pull,
                  RunJob, Exit, Unlock
    <2>2. queue' # <<>> \/ working' # 0 \/ (queue = <<>> /\ working = 0)
      <3>1. CASE Pull(w)
        <4>1. pc[w] = "pull" /\ working' = working
          BY <3>1 DEF Pull, counts
        <4>2. Cardinality(At(WorkingPCs)) # 0
          <5>1. At(WorkingPCs) # {} /\ At(WorkingPCs) \subseteq Workers
            BY <4>1 DEF At, WorkingPCs
          <5> QED BY <5>1, WorkersAssumption, FS_Subset, FS_EmptySet
        <4> QED BY <4>1, <4>2 DEF IInv, Counted
      <3>2. CASE ~ Pull(w)
        <4>1. queue' = queue /\ (working' = working \/ working' = working + 1)
          BY <1>3, <3>2 DEF Worker, Start, Loop, WaitForJob, CheckKeepalive, CountIn,
                            RunJob, Exit, Unlock, counts
        <4> QED BY <4>1 DEF IInv, TypeOK
      <3> QED BY <3>1, <3>2
    <2> QED BY <1>1, <2>1, <2>2
        DEF IInv, CallersInside, CallerNotStranded, WaitMeansDone
  <1> QED BY <1>2, <1>3

(* ... and through those of the interface. *)
LEMMA InterfaceCallers ==
    ASSUME IInv, Interface
    PROVE  CallersInside' /\ CallerNotStranded' /\ WaitMeansDone'
  <1> USE DEF IInv
  <1>0. cpc \in [Callers -> {"out", "lock", "asleep", "returned"}]
        /\ before \in [Callers -> SUBSET Jobs]
    BY DEF TypeOK
  <1>1. ASSUME NEW c \in Callers, CallWait(c)
        PROVE  CallersInside' /\ CallerNotStranded' /\ WaitMeansDone'
    BY <1>0, <1>1 DEF CallWait, counts, CallersInside, CallerNotStranded, WaitMeansDone
  <1>2. ASSUME NEW c \in Callers, thpool_wait(c)
        PROVE  CallersInside' /\ CallerNotStranded' /\ WaitMeansDone'
    <2>1. /\ dpc = "no" /\ cpc[c] = "lock"
          /\ UNCHANGED <<queue, working, dpc, before, submitted, finished>>
      BY <1>2 DEF thpool_wait, CallersInside, counts
    <2>2. CASE queue # <<>> \/ working # 0
      <3>1. cpc' = [cpc EXCEPT ![c] = "asleep"]
        BY <1>2, <2>2 DEF thpool_wait
      <3> QED BY <1>0, <2>1, <2>2, <3>1
          DEF CallersInside, CallerNotStranded, WaitMeansDone
    <2>3. CASE queue = <<>> /\ working = 0
      <3>1. cpc' = [cpc EXCEPT ![c] = "returned"]
        BY <1>2, <2>3 DEF thpool_wait
      <3>2. submitted \subseteq finished
        BY <2>1, <2>3, IdleMeansDone
      <3> QED BY <1>0, <2>1, <2>3, <3>1, <3>2
          DEF CallersInside, CallerNotStranded, WaitMeansDone
    <2> QED BY <2>2, <2>3
  <1>3. ASSUME NEW j \in Jobs, thpool_add_work(j)
        PROVE  CallersInside' /\ CallerNotStranded' /\ WaitMeansDone'
    <2>1. queue' # <<>>
      BY <1>3, AppendFacts DEF thpool_add_work, jobqueue_push, TypeOK
    <2> QED BY <1>3, <2>1
        DEF thpool_add_work, counts, CallersInside, CallerNotStranded, WaitMeansDone
  <1>4. CASE thpool_init \/ thpool_destroy \/ DestroyPoll
    BY <1>4 DEF thpool_init, thpool_destroy, DestroyPoll, counts, CallersInside,
                CallerNotStranded, WaitMeansDone
  <1>5. CASE DestroyFree
    <2>1. \A c \in Callers : cpc[c] # "asleep"
      BY <1>5 DEF DestroyFree, CallersInside
    <2> QED BY <1>5, <2>1
        DEF DestroyFree, CallersInside, CallerNotStranded, WaitMeansDone
  <1> QED BY <1>1, <1>2, <1>3, <1>4, <1>5 DEF Interface

-----------------------------------------------------------------------------
(* The inductive invariant of the pool. *)

(* A new pool satisfies the invariant. *)
LEMMA InitHolds ==
    ASSUME Init
    PROVE  IInv
  <1>0. TypeOK
    <2>1. queue \in Seq(Jobs) /\ alive \in Nat /\ working \in Nat /\ has_jobs \in {0, 1}
      BY DEF Init
    <2>2. keepalive \in BOOLEAN /\ initialised \in BOOLEAN
      BY DEF Init
    <2>3. pc \in [Workers -> PCs] /\ job \in [Workers -> Jobs \cup {NoJob}]
      BY DEF Init, PCs
    <2>4. before \in [Callers -> SUBSET Jobs]
      BY DEF Init
    <2> QED BY <2>1, <2>2, <2>3, <2>4 DEF Init, TypeOK
  <1>1. CallersInside /\ CallerNotStranded /\ WaitMeansDone
    BY DEF Init, CallersInside, CallerNotStranded, WaitMeansDone
  <1>2. Counted
    <2>1. At(LivePCs) = {} /\ At(WorkingPCs) = {}
      BY DEF Init, At, LivePCs, WorkingPCs
    <2> QED BY <2>1, FS_EmptySet DEF Init, Counted
  <1>3. NoLostWakeup
    BY DEF Init, NoLostWakeup
  <1>4. JobsConserved
    <2>1. Held = {} /\ Range(queue) = {} /\ IsInjective(queue)
      BY DEF Init, Held, Range, IsInjective
    <2> QED BY <2>1 DEF Init, JobsConserved
  <1> QED BY <1>0, <1>1, <1>2, <1>3, <1>4 DEF IInv

(* Every step of the pool preserves the invariant. *)
LEMMA StepHolds ==
    ASSUME IInv, [Next]_vars
    PROVE  IInv'
  <1>1. ASSUME NEW w \in Workers, Worker(w)
        PROVE  IInv'
    <2>1. Holding
      BY DEF IInv, JobsConserved, Held, Holding, TypeOK
    <2>2. TypeOK' /\ Counted'
      BY <1>1, <2>1, WorkerCounts DEF IInv
    <2> QED BY <1>1, <2>2, WorkerWakes, WorkerJobs, WorkerCallers DEF IInv
  <1>2. CASE Interface
    BY <1>2, InterfaceCounts, InterfaceWakes, InterfaceJobs, InterfaceCallers DEF IInv
  <1>3. CASE UNCHANGED vars
    <2> USE <1>3 DEF vars, sem, counts, IInv
    <2>1. TypeOK' /\ NoLostWakeup'
      BY DEF TypeOK, NoLostWakeup
    <2>2. Counted'
      BY DEF Counted, At
    <2>3. JobsConserved'
      <3>1. Held' = Held
        BY DEF Held
      <3> QED BY <3>1, QuietJobs
    <2>4. CallersInside' /\ CallerNotStranded' /\ WaitMeansDone'
      BY DEF CallersInside, CallerNotStranded, WaitMeansDone
    <2> QED BY <2>1, <2>2, <2>3, <2>4
  <1> QED BY <1>1, <1>2, <1>3 DEF Next, Interface

(* The pool's inductive invariant holds in every state of every pool. *)
THEOREM Invariance == Spec => []IInv
  <1>1. Init => IInv
    BY InitHolds
  <1>2. IInv /\ [Next]_vars => IInv'
    BY StepHolds
  <1> QED BY <1>1, <1>2, PTL DEF Spec

(* Type correctness: in particular the two counters never drop below zero. *)
THEOREM TypeCorrect == Spec => []TypeOK
  <1>1. IInv => TypeOK
    BY DEF IInv
  <1> QED BY <1>1, Invariance, PTL

(* A queued job is always announced or about to be pulled, and a post never *)
(* leaves all workers asleep (bsem_post, jobqueue_push, jobqueue_pull).    *)
THEOREM WakeupsKept == Spec => []NoLostWakeup
  <1>1. IInv => NoLostWakeup
    BY DEF IInv
  <1> QED BY <1>1, Invariance, PTL

(* Every job added runs at most once and is never dropped while the pool   *)
(* exists.                                                                 *)
THEOREM JobsKept == Spec => []JobsConserved
  <1>1. IInv => JobsConserved
    BY DEF IInv
  <1> QED BY <1>1, Invariance, PTL

(* thpool_wait returns only after every job added before it has finished. *)
THEOREM WaitIsABarrier == Spec => []WaitMeansDone
  <1>1. IInv => WaitMeansDone
    BY DEF IInv
  <1> QED BY <1>1, Invariance, PTL

(* No caller sleeps in thpool_wait with nobody left to wake it. *)
THEOREM WaiterIsWoken == Spec => []CallerNotStranded
  <1>1. IInv => CallerNotStranded
    BY DEF IInv
  <1> QED BY <1>1, Invariance, PTL

-----------------------------------------------------------------------------
(* The pool implements JobPool. *)

(* What the pool looks like from outside. *)
Running == {job[w] : w \in Held}
Inside  == {c \in Callers : cpc[c] \in {"lock", "asleep"}}

(* A step nobody outside can see. *)
LEMMA HiddenStep ==
    ASSUME UNCHANGED <<queue, finished, before, dpc>>, Running' = Running, Inside' = Inside
    PROVE  UNCHANGED Pool!vars
  BY DEF Pool!vars, Running, Inside

(* A new pool is an empty, open one. *)
LEMMA InitMaps ==
    ASSUME Init
    PROVE  Pool!Init
  <1>1. Running = {} /\ Inside = {}
    BY DEF Init, Running, Held, Inside
  <1>2. StateOf[dpc] = "open"
    BY DEF Init, StateOf
  <1> QED BY <1>1, <1>2 DEF Init, Pool!Init, Running, Inside

(* A worker starts the oldest job, finishes its job, or does nothing that  *)
(* can be seen.                                                            *)
LEMMA WorkerMaps ==
    ASSUME IInv, NEW w \in Workers, Worker(w)
    PROVE  [Pool!Next]_(Pool!vars)
  <1>0. /\ pc \in [Workers -> PCs] /\ job \in [Workers -> Jobs \cup {NoJob}]
        /\ cpc \in [Callers -> {"out", "lock", "asleep", "returned"}]
        /\ queue \in Seq(Jobs) /\ JobsConserved
    BY DEF IInv, TypeOK
  <1>1. CASE \/ Start(w) \/ Loop(w) \/ WaitForJob(w) \/ CheckKeepalive(w)
             \/ CountIn(w) \/ Exit(w) \/ Unlock(w)
    <2>1. /\ UNCHANGED <<queue, finished, before, job, cpc, dpc>>
          /\ Held' = Held
      BY <1>0, <1>1 DEF Start, Loop, WaitForJob, bsem_wait, CheckKeepalive, CountIn,
                        Exit, Unlock, Held
    <2>2. Running' = Running /\ Inside' = Inside
      BY <2>1 DEF Running, Inside
    <2> QED BY <2>1, <2>2, HiddenStep
  <1>2. CASE CountOut(w)
    <2>1. /\ UNCHANGED <<queue, finished, before, job, dpc>>
          /\ Held' = Held
      BY <1>0, <1>2 DEF CountOut, Held
    <2>2. Running' = Running
      BY <2>1 DEF Running
    <2>3. Inside' = Inside
      BY <1>0, <1>2 DEF CountOut, Inside
    <2> QED BY <2>1, <2>2, <2>3, HiddenStep
  <1>3. CASE Pull(w)
    <2>1. UNCHANGED <<finished, before, cpc, dpc>> /\ pc[w] = "pull"
      BY <1>3 DEF Pull
    <2>2. Inside' = Inside
      BY <2>1 DEF Inside
    <2>3. CASE queue = <<>>
      <3>1. Held' = Held /\ UNCHANGED queue /\ \A v \in Held : job'[v] = job[v]
        BY <1>0, <1>3, <2>1, <2>3 DEF Pull, jobqueue_pull, Held
      <3>2. Running' = Running
        BY <3>1 DEF Running
      <3> QED BY <2>1, <2>2, <3>1, <3>2, HiddenStep
    <2>4. CASE queue # <<>>
      <3>1. /\ Held' = Held \cup {w}
            /\ job'[w] = Head(queue)
            /\ \A v \in Held : job'[v] = job[v]
            /\ queue' = Tail(queue)
        BY <1>0, <1>3, <2>1, <2>4 DEF Pull, jobqueue_pull, Held
      <3>2. Running' = Running \cup {Head(queue)}
        BY <3>1 DEF Running
      <3>3. Pool!Start
        BY <2>1, <2>2, <2>4, <3>1, <3>2 DEF Pool!Start, Running, Inside
      <3> QED BY <3>3 DEF Pool!Next
    <2> QED BY <2>3, <2>4
  <1>4. CASE RunJob(w)
    <2>1. /\ UNCHANGED <<queue, before, cpc, dpc>>
          /\ w \in Held /\ Held' = Held \ {w}
          /\ finished' = finished \cup {job[w]}
          /\ \A v \in Held' : job'[v] = job[v]
      BY <1>0, <1>4 DEF RunJob, Held
    <2>2. \A v, u \in Held : job[v] = job[u] => v = u
      BY <1>0 DEF JobsConserved
    <2>3. Running' = Running \ {job[w]} /\ job[w] \in Running
      BY <2>1, <2>2 DEF Running
    <2>4. Inside' = Inside
      BY <2>1 DEF Inside
    <2>5. PICK j \in Jobs : j = job[w]
      BY <1>0, <2>1 DEF JobsConserved, IInv, TypeOK
    <2>6. Pool!Finish(j)
      BY <2>1, <2>3, <2>4, <2>5 DEF Pool!Finish, Running, Inside
    <2> QED BY <2>6 DEF Pool!Next
  <1> QED BY <1>1, <1>2, <1>3, <1>4 DEF Worker

(* While the pool exists, what has been added is what thpool_add_work was  *)
(* called for.                                                             *)
LEMMA AddedIsSubmitted ==
    ASSUME IInv, dpc = "no"
    PROVE  Pool!Added = submitted /\ StateOf[dpc] = "open"
  <1>1. submitted = finished \cup Range(queue) \cup Running
    BY DEF IInv, JobsConserved, Running
  <1>2. StateOf[dpc] = "open"
    BY DEF StateOf
  <1> QED BY <1>1, <1>2 DEF Pool!Added, Pool!Range, Range, Running

(* The calls are the abstract pool's calls. *)
LEMMA InterfaceMaps ==
    ASSUME IInv, Interface
    PROVE  [Pool!Next]_(Pool!vars)
  <1>0. /\ cpc \in [Callers -> {"out", "lock", "asleep", "returned"}]
        /\ before \in [Callers -> SUBSET Jobs]
        /\ CallersInside
    BY DEF IInv, TypeOK
  <1>1. UNCHANGED <<job, finished>> /\ Held' = Held
    BY DEF Interface, CallWait, thpool_wait, thpool_add_work, thpool_init,
           thpool_destroy, DestroyPoll, DestroyFree, Held
  <1>2. Running' = Running
    BY <1>1 DEF Running
  <1>3. ASSUME NEW c \in Callers, CallWait(c)
        PROVE  Pool!Wait(c)
    <2>1. /\ dpc = "no" /\ cpc[c] \in {"out", "returned"}
          /\ cpc' = [cpc EXCEPT ![c] = "lock"]
          /\ before' = [before EXCEPT ![c] = submitted]
          /\ UNCHANGED <<queue, dpc>>
      BY <1>3 DEF CallWait
    <2>2. Inside' = Inside \cup {c} /\ c \notin Inside
      BY <1>0, <2>1 DEF Inside
    <2>3. Pool!Added = submitted /\ StateOf[dpc] = "open"
      BY <2>1, AddedIsSubmitted
    <2> QED BY <1>1, <1>2, <2>1, <2>2, <2>3 DEF Pool!Wait, Running, Inside
  <1>4. ASSUME NEW c \in Callers, thpool_wait(c)
        PROVE  Pool!Leave(c) \/ UNCHANGED Pool!vars
    <2>1. /\ dpc = "no" /\ cpc[c] = "lock"
          /\ UNCHANGED <<queue, dpc, before>>
      BY <1>0, <1>4 DEF thpool_wait, CallersInside
    <2>2. CASE queue # <<>> \/ working # 0
      <3>1. cpc' = [cpc EXCEPT ![c] = "asleep"]
        BY <1>4, <2>2 DEF thpool_wait
      <3>2. Inside' = Inside
        BY <1>0, <2>1, <3>1 DEF Inside
      <3> QED BY <1>1, <1>2, <2>1, <3>2, HiddenStep
    <2>3. CASE queue = <<>> /\ working = 0
      <3>1. cpc' = [cpc EXCEPT ![c] = "returned"]
        BY <1>4, <2>3 DEF thpool_wait
      <3>2. Inside' = Inside \ {c} /\ c \in Inside
        BY <1>0, <2>1, <3>1 DEF Inside
      <3>3. before[c] \subseteq finished
        BY <1>0, <2>1, <2>3, IdleMeansDone DEF CallersInside
      <3> QED BY <1>1, <1>2, <2>1, <3>2, <3>3 DEF Pool!Leave, Running, Inside
    <2> QED BY <2>2, <2>3
  <1>5. ASSUME NEW j \in Jobs, thpool_add_work(j)
        PROVE  Pool!Add(j)
    <2>1. /\ dpc = "no" /\ j \notin submitted
          /\ queue' = Append(queue, j)
          /\ UNCHANGED <<before, cpc, dpc>>
      BY <1>5 DEF thpool_add_work, jobqueue_push
    <2>2. Inside' = Inside
      BY <2>1 DEF Inside
    <2>3. Pool!Added = submitted /\ StateOf[dpc] = "open"
      BY <2>1, AddedIsSubmitted
    <2> QED BY <1>1, <1>2, <2>1, <2>2, <2>3 DEF Pool!Add, Running, Inside
  <1>6. CASE thpool_init \/ DestroyPoll
    <2>1. UNCHANGED <<queue, before, cpc, dpc>>
      BY <1>6 DEF thpool_init, DestroyPoll
    <2>2. Inside' = Inside
      BY <2>1 DEF Inside
    <2> QED BY <1>1, <1>2, <2>1, <2>2, HiddenStep
  <1>7. CASE thpool_destroy
    <2>1. /\ dpc = "no" /\ dpc' = "poll"
          /\ \A c \in Callers : cpc[c] \in {"out", "returned"}
          /\ UNCHANGED <<queue, before, cpc>>
      BY <1>7 DEF thpool_destroy
    <2>2. Inside = {} /\ Inside' = Inside
      BY <2>1 DEF Inside
    <2>3. StateOf[dpc] = "open" /\ StateOf[dpc'] = "closing"
      BY <2>1 DEF StateOf
    <2>4. Pool!Destroy
      BY <1>1, <1>2, <2>1, <2>2, <2>3 DEF Pool!Destroy, Running, Inside
    <2> QED BY <2>4 DEF Pool!Next
  <1>8. CASE DestroyFree
    <2>1. /\ dpc = "poll" /\ dpc' = "freed" /\ alive = 0
          /\ queue' = <<>>
          /\ UNCHANGED <<before, cpc>>
      BY <1>8 DEF DestroyFree
    <2>2. At(LivePCs) = {}
      <3>1. At(LivePCs) \subseteq Workers
        BY DEF At
      <3>2. IsFiniteSet(At(LivePCs))
        BY <3>1, WorkersAssumption, FS_Subset
      <3> QED BY <2>1, <3>2, FS_EmptySet DEF IInv, Counted
    <2>3. Running = {}
      BY <2>2 DEF Running, Held, At, LivePCs
    <2>4. Inside' = Inside
      BY <2>1 DEF Inside
    <2>5. StateOf[dpc] = "closing" /\ StateOf[dpc'] = "closed"
      BY <2>1 DEF StateOf
    <2>6. Pool!Destroyed
      BY <1>1, <1>2, <2>1, <2>3, <2>4, <2>5 DEF Pool!Destroyed, Running, Inside
    <2> QED BY <2>6 DEF Pool!Next
  <1> QED BY <1>3, <1>4, <1>5, <1>6, <1>7, <1>8 DEF Interface, Pool!Next

(* Semaphore, counters and polling implement the pool its users rely on:   *)
(* FIFO start, each job once, wait as a barrier, and a destroy that drops  *)
(* only jobs that have not started and frees nothing under a running one.  *)
THEOREM PoolImplemented == Spec => ImplementsPool
  <1>1. Init => Pool!Init
    BY InitMaps
  <1>2. IInv /\ [Next]_vars => [Pool!Next]_(Pool!vars)
    <2>1. CASE UNCHANGED vars
      <3>1. UNCHANGED <<queue, finished, before, dpc, job, pc, cpc>>
        BY <2>1 DEF vars, sem, counts
      <3>2. Running' = Running /\ Inside' = Inside
        BY <3>1 DEF Running, Held, Inside
      <3> QED BY <3>1, <3>2, HiddenStep
    <2> QED BY <2>1, WorkerMaps, InterfaceMaps DEF Next, Interface
  <1> QED BY <1>1, <1>2, Invariance, PTL DEF Spec, ImplementsPool, Pool!Spec
=============================================================================
