------------------------------- MODULE TwoDirs -------------------------------
(***************************************************************************)
(* The directory operations of opemetadata.c.  Every PolyStore path exists *)
(* twice, on the fast and on the slow device, and mkdir, rmdir, creat,     *)
(* rename, unlink and stat do the call on the fast device and then on the  *)
(* slow one, without a lock.  All but unlink stop at a fast call that      *)
(* fails; nothing is undone when the slow call fails.                      *)
(*                                                                         *)
(* A directory entry is absent, a directory, or a file, named by the path  *)
(* it was created at.  rename moves files only.  The inode commands rename *)
(* and unlink send afterwards are in PolyInode; access, opendir and        *)
(* readdir look at the fast device only and lstat and symlink do nothing.  *)
(* Devices do not fail.                                                    *)
(***************************************************************************)
CONSTANTS Threads,
          Paths,
          Root,      \* /mnt/polystore
          ParentOf   \* per path: the directory it is in

ASSUME RootAssumption == Root \notin Paths
ASSUME ParentAssumption ==
    /\ ParentOf \in [Paths -> Paths \cup {Root}]
    /\ \A p \in Paths : ParentOf[p] # p
ASSUME KindAssumption == Paths \cap {"absent", "dir"} = {}

VARIABLES fast,  \* the tree on the fast device
          slow,  \* the tree on the slow device
          pc,    \* per thread: "idle", "fast" or "slow": the call it does next
          op,    \* per thread: its operation
          src,   \* per thread: its path
          dst    \* per thread: the new path of a rename, otherwise its path

vars == <<fast, slow, pc, op, src, dst>>

Kinds == {"absent", "dir"} \cup Paths
Ops   == {"mkdir", "rmdir", "creat", "rename", "unlink", "stat"}

TypeOK ==
    /\ fast \in [Paths -> Kinds] /\ slow \in [Paths -> Kinds]
    /\ pc \in [Threads -> {"idle", "fast", "slow"}]
    /\ op \in [Threads -> Ops \cup {"none"}]
    /\ src \in [Threads -> Paths \cup {Root}] /\ dst \in [Threads -> Paths \cup {Root}]

-----------------------------------------------------------------------------
(* The system calls on one device. *)

IsDir(tree, p)  == p # Root => tree[p] = "dir"
IsFile(tree, p) == tree[p] \in Paths
IsEmpty(tree, p) == \A c \in Paths : ParentOf[c] = p => tree[c] = "absent"

(* The call succeeds. *)
Succeeds(tree, o, p, q) ==
    \/ o = "mkdir"  /\ tree[p] = "absent" /\ IsDir(tree, ParentOf[p])
    \/ o = "rmdir"  /\ tree[p] = "dir" /\ IsEmpty(tree, p)
    \/ o = "creat"  /\ tree[p] # "dir" /\ IsDir(tree, ParentOf[p])
    \/ o = "rename" /\ IsFile(tree, p) /\ tree[q] # "dir" /\ IsDir(tree, ParentOf[q])
    \/ o = "unlink" /\ IsFile(tree, p)
    \/ o = "stat"   /\ tree[p] # "absent"

(* The tree after a call that succeeds. *)
After(tree, o, p, q) ==
    CASE o = "mkdir"  -> [tree EXCEPT ![p] = "dir"]
      [] o = "creat"  -> [tree EXCEPT ![p] = IF IsFile(tree, p) THEN tree[p] ELSE p]
      [] o = "rename" -> [tree EXCEPT ![p] = "absent", ![q] = tree[p]]
      [] o \in {"rmdir", "unlink"} -> [tree EXCEPT ![p] = "absent"]
      [] o = "stat"   -> tree

-----------------------------------------------------------------------------
(* Calls that may overlap: calls that have nothing to do with each other,  *)
(* the same call twice, and calls of which the fast device lets only one   *)
(* through.                                                                *)

Makes(o, p, q)   == IF o \in {"mkdir", "creat"} THEN {p} ELSE IF o = "rename" THEN {q} ELSE {}
Removes(o, p, q) == IF o \in {"rmdir", "unlink", "rename"} THEN {p} ELSE {}
Touches(o, p, q) == {p, q}

Under(S, T) == \E p \in S : ParentOf[p] \in T

(* A directory is not made while something is made in it, and not removed  *)
(* while something is removed from it.                                     *)
Nested(o, p, q, o2, p2, q2) ==
    \/ o2 = "mkdir" /\ Under(Makes(o, p, q), {p2})
    \/ o2 = "rmdir" /\ Under(Removes(o, p, q), {p2})

Same(o, p, q, o2, p2, q2) ==
    /\ Touches(o, p, q) \cap Touches(o2, p2, q2) # {}
    /\ <<o, p, q>> # <<o2, p2, q2>>
    /\ {o, o2} \notin {{"mkdir", "creat"}, {"rmdir", "unlink"}}

MayOverlap(o, p, q, o2, p2, q2) ==
    ~ \/ Same(o, p, q, o2, p2, q2)
      \/ Nested(o, p, q, o2, p2, q2) \/ Nested(o2, p2, q2, o, p, q)

-----------------------------------------------------------------------------
Call(t, o, p, q) ==
    /\ pc[t] = "idle"
    /\ \A u \in Threads : pc[u] # "idle" => MayOverlap(o, p, q, op[u], src[u], dst[u])
    /\ pc' = [pc EXCEPT ![t] = "fast"]
    /\ op' = [op EXCEPT ![t] = o]
    /\ src' = [src EXCEPT ![t] = p] /\ dst' = [dst EXCEPT ![t] = q]
    /\ UNCHANGED <<fast, slow>>

Mkdir(t)  == \E p \in Paths : Call(t, "mkdir", p, p)
Rmdir(t)  == \E p \in Paths : Call(t, "rmdir", p, p)
Creat(t)  == \E p \in Paths : Call(t, "creat", p, p)
Unlink(t) == \E p \in Paths : Call(t, "unlink", p, p)
Stat(t)   == \E p \in Paths : Call(t, "stat", p, p)
Rename(t) == \E p, q \in Paths : Call(t, "rename", p, q)

Return(t) ==
    /\ pc' = [pc EXCEPT ![t] = "idle"] /\ op' = [op EXCEPT ![t] = "none"]
    /\ src' = [src EXCEPT ![t] = Root] /\ dst' = [dst EXCEPT ![t] = Root]

FastOk(t) == Succeeds(fast, op[t], src[t], dst[t])
SlowOk(t) == Succeeds(slow, op[t], src[t], dst[t])

FastDone(t) ==
    /\ pc[t] = "fast" /\ FastOk(t)
    /\ fast' = After(fast, op[t], src[t], dst[t])
    /\ pc' = [pc EXCEPT ![t] = "slow"]
    /\ UNCHANGED <<slow, op, src, dst>>

(* Mutant of FastFails: the error does not stop the call. *)
FastFails_goes_on(t) ==
    /\ pc[t] = "fast" /\ ~ FastOk(t)
    /\ pc' = [pc EXCEPT ![t] = "slow"]
    /\ UNCHANGED <<fast, slow, op, src, dst>>

(* unlink goes on after an error. *)
FastFails(t) ==
    /\ pc[t] = "fast" /\ ~ FastOk(t)
    /\ \/ op[t] # "unlink" /\ Return(t)
       \/ /\ op[t] = "unlink"
          /\ pc' = [pc EXCEPT ![t] = "slow"] /\ UNCHANGED <<op, src, dst>>
    /\ UNCHANGED <<fast, slow>>

(* Mutant of SlowDone: rename is given the old slow path twice. *)
SlowDone_old_name(t) ==
    /\ pc[t] = "slow"
    /\ slow' = IF SlowOk(t) /\ op[t] # "rename"
               THEN After(slow, op[t], src[t], dst[t]) ELSE slow
    /\ Return(t)
    /\ UNCHANGED fast

(* The last call.  Its error is returned, but rename and unlink overwrite  *)
(* it with the result of their inode command, and nothing is undone.       *)
SlowDone(t) ==
    /\ pc[t] = "slow"
    /\ slow' = IF SlowOk(t) THEN After(slow, op[t], src[t], dst[t]) ELSE slow
    /\ Return(t)
    /\ UNCHANGED fast

-----------------------------------------------------------------------------
Empty == [p \in Paths |-> "absent"]

Init ==
    /\ fast = Empty /\ slow = Empty
    /\ pc = [t \in Threads |-> "idle"] /\ op = [t \in Threads |-> "none"]
    /\ src = [t \in Threads |-> Root] /\ dst = [t \in Threads |-> Root]

Next ==
    \E t \in Threads :
        \/ Mkdir(t) \/ Rmdir(t) \/ Creat(t) \/ Unlink(t) \/ Stat(t) \/ Rename(t)
        \/ FastDone(t) \/ FastFails(t) \/ SlowDone(t)

Spec == Init /\ [][Next]_vars

-----------------------------------------------------------------------------
(* Properties. *)

HalfDone(p) == \E t \in Threads : pc[t] = "slow" /\ p \in {src[t], dst[t]}

(* The devices hold the same tree, but for the paths of calls between      *)
(* their two halves: overlapping calls never leave a file or directory on  *)
(* one device only, nor the halves of two files under one name.            *)
Mirrored == \A p \in Paths : HalfDone(p) \/ fast[p] = slow[p]

(* The second half of a call succeeds: no call is left with one device     *)
(* changed and the other not.  Only an unlink may fail there, when another *)
(* unlink of the path has come first, or when both halves find no file:    *)
(* then the path is a file on neither device, and nothing is left to do.   *)
SecondHalfCompletes ==
    \A t \in Threads : pc[t] = "slow" =>
        \/ SlowOk(t)
        \/ op[t] = "unlink" /\ ~ IsFile(fast, src[t]) /\ ~ IsFile(slow, src[t])
=============================================================================
