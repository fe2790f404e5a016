------------------------------ MODULE WriteBack ------------------------------
(***************************************************************************)
(* What the Poly cache promises for the data of intervals: what was last   *)
(* written to one is in memory until it is on the device, it leaves memory *)
(* without being written back only when the file is unlinked, an unlinked  *)
(* file is not written any more, and the process ends with everything      *)
(* written to the other files on the devices.  No buffers, lists or locks. *)
(***************************************************************************)
CONSTANTS Nodes,   \* the intervals
          Files,
          FileOf   \* the file of an interval

VARIABLES last,     \* per interval: where its last write is
          linked,   \* the files that have not been unlinked
          running   \* the process has not ended

vars == <<last, linked, running>>

Init ==
    /\ last = [e \in Nodes |-> "none"]
    /\ linked = Files
    /\ running = TRUE

(* The first write to an interval, or another one. *)
Write(e) ==
    /\ running /\ FileOf[e] \in linked
    /\ last[e] \in {"none", "memory", "device"}
    /\ last' = [last EXCEPT ![e] = "memory"]
    /\ UNCHANGED <<linked, running>>

Flush(e) ==
    /\ running
    /\ last[e] = "memory"
    /\ last' = [last EXCEPT ![e] = "device"]
    /\ UNCHANGED <<linked, running>>

Unlink(f) ==
    /\ running /\ f \in linked
    /\ linked' = linked \ {f}
    /\ UNCHANGED <<last, running>>

Drop(e) ==
    /\ running /\ FileOf[e] \notin linked
    /\ last[e] \in {"memory", "device"}
    /\ last' = [last EXCEPT ![e] = "dropped"]
    /\ UNCHANGED <<linked, running>>

End ==
    /\ running
    /\ \A e \in Nodes : FileOf[e] \in linked => last[e] # "memory"
    /\ running' = FALSE
    /\ UNCHANGED <<last, linked>>

Next ==
    \/ \E e \in Nodes : Write(e) \/ Flush(e) \/ Drop(e)
    \/ \E f \in Files : Unlink(f)
    \/ End

Spec == Init /\ [][Next]_vars
=============================================================================
