------------------------------ MODULE FileStore ------------------------------
(***************************************************************************)
(* What a file of PolyStore promises to its writers, wherever its bytes    *)
(* are placed: a call stores its range from the front, a run of bytes at a *)
(* time, changes no byte outside of it, and leaves its range unfinished    *)
(* only when the index has run out of nodes.                               *)
(***************************************************************************)
EXTENDS Integers

CONSTANTS Users,      \* the threads that write the file
          Positions,  \* the positions of the file
          Values      \* what a byte may hold; 0 where nothing was stored

VARIABLES bytes,  \* per position: the byte stored there
          call,   \* per user: the write in progress, or Idle
          full    \* the index has no node left

vars == <<bytes, call, full>>

Idle == [lo |-> 0, hi |-> -1, val |-> 0, done |-> 0]

Init == /\ bytes = [p \in Positions |-> 0]
        /\ call = [u \in Users |-> Idle]
        /\ full = FALSE

Write == {c \in [lo : Positions, hi : Positions, val : Values \ {0}, done : {0}] : c.lo <= c.hi}

Start(u) ==
    /\ call[u] = Idle /\ call'[u] \in Write
    /\ call' = [call EXCEPT ![u] = call'[u]]
    /\ UNCHANGED <<bytes, full>>

Store(u) ==
    LET c == call[u]
        n == call'[u].done - c.done
    IN  /\ n \in 1 .. (c.hi - c.lo + 1 - c.done)
        /\ call' = [call EXCEPT ![u].done = @ + n]
        /\ bytes' = [p \in Positions |->
                       IF p \in (c.lo + c.done) .. (c.lo + c.done + n - 1)
                       THEN c.val ELSE bytes[p]]
        /\ UNCHANGED full

Return(u) ==
    /\ call[u] # Idle /\ call'[u] = Idle
    /\ full \/ call[u].done = call[u].hi - call[u].lo + 1
    /\ call' = [call EXCEPT ![u] = Idle]
    /\ UNCHANGED <<bytes, full>>

RunOut == ~ full /\ full' /\ UNCHANGED <<bytes, call>>

Next == RunOut \/ \E u \in Users : Start(u) \/ Store(u) \/ Return(u)

Spec == Init /\ [][Next]_vars
=============================================================================
