------------------------------- MODULE JobPool -------------------------------
(***************************************************************************)
(* What the thread pool promises the cache: jobs start in the order they   *)
(* were added, each runs once, a wait is a barrier for the jobs added      *)
(* before it, and destroying the pool drops jobs that have not started and *)
(* ends when no job is running.  No threads, semaphores or counters.       *)
(***************************************************************************)
EXTENDS Sequences, Functions

CONSTANTS Callers, Jobs

VARIABLES queue,     \* jobs that have not started, the oldest first
          running,   \* jobs that have started
          finished,  \* jobs that are over
          inside,    \* callers that wait
          marks,     \* per caller: the jobs its last wait is for
          state      \* "open", "closing" or "closed"

vars == <<queue, running, finished, inside, marks, state>>

Added == Range(queue) \cup running \cup finished

Add(j) ==
    /\ state = "open" /\ j \notin Added
    /\ queue' = Append(queue, j)
    /\ UNCHANGED <<running, finished, inside, marks, state>>

Start ==
    /\ queue # <<>>
    /\ queue' = Tail(queue)
    /\ running' = running \cup {Head(queue)}
    /\ UNCHANGED <<finished, inside, marks, state>>

Finish(j) ==
    /\ j \in running
    /\ running' = running \ {j}
    /\ finished' = finished \cup {j}
    /\ UNCHANGED <<queue, inside, marks, state>>

Wait(c) ==
    /\ state = "open" /\ c \notin inside
    /\ inside' = inside \cup {c}
    /\ marks' = [marks EXCEPT ![c] = Added]
    /\ UNCHANGED <<queue, running, finished, state>>

Leave(c) ==
    /\ c \in inside
    /\ marks[c] \subseteq finished
    /\ inside' = inside \ {c}
    /\ UNCHANGED <<queue, running, finished, marks, state>>

Destroy ==
    /\ state = "open" /\ inside = {}
    /\ state' = "closing"
    /\ UNCHANGED <<queue, running, finished, inside, marks>>

Destroyed ==
    /\ state = "closing" /\ running = {}
    /\ queue' = <<>>
    /\ state' = "closed"
    /\ UNCHANGED <<running, finished, inside, marks>>

Init ==
    /\ queue = <<>> /\ running = {} /\ finished = {}
    /\ inside = {} /\ marks = [c \in Callers |-> {}]
    /\ state = "open"

Next ==
    \/ \E j \in Jobs : Add(j) \/ Finish(j)
    \/ \E c \in Callers : Wait(c) \/ Leave(c)
    \/ Start \/ Destroy \/ Destroyed

Spec == Init /\ [][Next]_vars
=============================================================================
