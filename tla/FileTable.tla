------------------------------ MODULE FileTable ------------------------------
(***************************************************************************)
(* Descriptors: the file table of the process in the kernel, the numbers   *)
(* PolyOS makes of a fast and a slow file descriptor (POLYSTORE_GEN_FD),   *)
(* and the hash table of poly-files the library looks them up in.          *)
(*                                                                         *)
(* open installs two kernel descriptors one after the other and inserts a  *)
(* poly-file; every call looks its poly-file up and uses the pointer       *)
(* without the lock; close removes and frees the poly-file and then closes *)
(* the two descriptors one after the other, so the kernel hands out each   *)
(* half to other threads as soon as it is closed.                          *)
(*                                                                         *)
(* uthash keeps entries with equal keys, and a lookup may return any of    *)
(* them.  A poly-file is identified by the open that made it, and a thread *)
(* forgets its locals when its call returns.  The application does not     *)
(* close a descriptor another of its threads is using, and does not use a  *)
(* number open reported as negative.                                       *)
(***************************************************************************)
EXTENDS Integers

CONSTANTS Threads,
          MaxFd,     \* open_file_max: kernel descriptors are below it
          MaxOpens,  \* bound on the calls of open
          None       \* an unused kernel descriptor

Base == 4096

ASSUME MaxFdAssumption == MaxFd \in 1 .. Base
ASSUME MaxOpensAssumption == MaxOpens \in Nat
ASSUME NoneAssumption == None \notin {"FAST", "SLOW"} \X (1 .. MaxOpens)

VARIABLES kfd,    \* current->files: per number, the device and the open it is for
          table,  \* poly_file_hashmap: entries with a descriptor and a poly-file
          mem,    \* per poly-file: "none" before it is made, "live", "freed"
          held,   \* opens whose descriptor the application holds
          opens,  \* opens so far
          fast,   \* per open: fastfd
          slow,   \* per open: slowfd
          pc,     \* per thread: where it is
          cur,    \* per thread: the open whose descriptor it works on
          ptr     \* per thread: the poly-file it found

vars == <<kfd, table, mem, held, opens, fast, slow, pc, cur, ptr>>

Opens  == 1 .. MaxOpens
Fds    == 0 .. MaxFd - 1
Emfile == -24

(* POLYSTORE_GEN_FD: f | (s << 12) | 2^24 on two's complement numbers; f   *)
(* and s are below 2^12, and a negative f has every bit from 12 up set.    *)
GenFd(f, s) ==
    IF f < 0 THEN f
    ELSE IF s < 0 THEN s * Base + f
    ELSE f + s * Base + Base * Base

(* POLYSTORE_FAST_FD and POLYSTORE_SLOW_FD. *)
FastFd(fd) == fd % Base
SlowFd(fd) == (fd \div Base) % Base

(* The descriptor of an open: cmd.fd. *)
Fd(o) == GenFd(fast[o], slow[o])

OpenPCs  == {"fast", "slow", "inode", "create"}
UsePCs   == {"find", "use"}
ClosePCs == {"cfind", "delete", "closefast", "closeslow"}

TypeOK ==
    /\ kfd \in [Fds -> ({"FAST", "SLOW"} \X Opens) \cup {None}]
    /\ table \in SUBSET [fd : Int, file : Opens]
    /\ mem \in [Opens -> {"none", "live", "freed"}]
    /\ held \in SUBSET Opens
    /\ opens \in 0 .. MaxOpens
    /\ fast \in [Opens -> Fds \cup {Emfile}] /\ slow \in [Opens -> Fds \cup {Emfile}]
    /\ pc \in [Threads -> {"idle"} \cup OpenPCs \cup UsePCs \cup ClosePCs]
    /\ cur \in [Threads -> 0 .. MaxOpens] /\ ptr \in [Threads -> 0 .. MaxOpens]

Goto(t, where) == pc' = [pc EXCEPT ![t] = where]

Return(t) ==
    /\ Goto(t, "idle")
    /\ cur' = [cur EXCEPT ![t] = 0] /\ ptr' = [ptr EXCEPT ![t] = 0]

(* get_unused_fd_flags: the lowest number that is not in use. *)
Unused(n) == kfd[n] = None /\ \A m \in Fds : kfd[m] = None => n <= m

-----------------------------------------------------------------------------
(* polystore_open and polyos_open. *)

Open(t) ==
    /\ pc[t] = "idle"
    /\ opens < MaxOpens
    /\ opens' = opens + 1
    /\ cur' = [cur EXCEPT ![t] = opens + 1]
    /\ Goto(t, "fast")
    /\ UNCHANGED <<kfd, table, mem, held, fast, slow, ptr>>

(* polyos_sys_open for one device.  When the file cannot be opened the     *)
(* number is given back and open returns the error; when there is no       *)
(* number, filp_open is not called, the NULL file pointer does not look    *)
(* like an error, and open goes on with the error in place of a number.    *)
(* Taking the number, opening and installing the file are one step: the    *)
(* number of an open that fails is not seen taken by the others meanwhile. *)
OpenFast(t) ==
    /\ pc[t] = "fast"
    /\ \/ \E n \in Fds :
             /\ Unused(n)
             /\ kfd' = [kfd EXCEPT ![n] = <<"FAST", cur[t]>>]
             /\ fast' = [fast EXCEPT ![cur[t]] = n]
             /\ Goto(t, "slow") /\ UNCHANGED <<cur, ptr>>
       \/ /\ \E n \in Fds : kfd[n] = None
          /\ Return(t)
          /\ UNCHANGED <<kfd, fast>>
       \/ /\ \A n \in Fds : kfd[n] # None
          /\ fast' = [fast EXCEPT ![cur[t]] = Emfile]
          /\ Goto(t, "slow")
          /\ UNCHANGED <<kfd, cur, ptr>>
    /\ UNCHANGED <<table, mem, held, opens, slow>>

(* When the slow file cannot be opened the fast one stays open. *)
OpenSlow(t) ==
    /\ pc[t] = "slow"
    /\ \/ \E n \in Fds :
             /\ Unused(n)
             /\ kfd' = [kfd EXCEPT ![n] = <<"SLOW", cur[t]>>]
             /\ slow' = [slow EXCEPT ![cur[t]] = n]
             /\ Goto(t, "inode") /\ UNCHANGED <<cur, ptr>>
       \/ /\ \E n \in Fds : kfd[n] = None
          /\ Return(t)
          /\ UNCHANGED <<kfd, slow>>
       \/ /\ \A n \in Fds : kfd[n] # None
          /\ slow' = [slow EXCEPT ![cur[t]] = Emfile]
          /\ Goto(t, "inode")
          /\ UNCHANGED <<kfd, cur, ptr>>
    /\ UNCHANGED <<table, mem, held, opens, fast>>

(* open returns a descriptor; the application keeps it unless it is        *)
(* negative.                                                               *)
ReturnFd(t) ==
    /\ held' = IF Fd(cur[t]) >= 0 THEN held \cup {cur[t]} ELSE held
    /\ Return(t)

(* The command already holds the descriptor when the inode or its mapping  *)
(* fails, and polystore_open returns it all the same, without a poly-file. *)
GetInode(t) ==
    /\ pc[t] = "inode"
    /\ \/ Goto(t, "create") /\ UNCHANGED <<held, cur, ptr>>
       \/ ReturnFd(t)
    /\ UNCHANGED <<kfd, table, mem, opens, fast, slow>>

(* polystore_file_create. *)
CreateFile(t) ==
    /\ pc[t] = "create"
    /\ mem' = [mem EXCEPT ![cur[t]] = "live"]
    /\ table' = table \cup {[fd |-> Fd(cur[t]), file |-> cur[t]]}
    /\ ReturnFd(t)
    /\ UNCHANGED <<kfd, opens, fast, slow>>

-----------------------------------------------------------------------------
(* A call on a descriptor: read, write, lseek, fstat, ftruncate, fsync... *)

Use(t) ==
    /\ pc[t] = "idle"
    /\ \E o \in held : cur' = [cur EXCEPT ![t] = o]
    /\ Goto(t, "find")
    /\ UNCHANGED <<kfd, table, mem, held, opens, fast, slow, ptr>>

(* HASH_FIND_INT. *)
Entries(t) == {e \in table : e.fd = Fd(cur[t])}

Points(t, o) == ptr' = [ptr EXCEPT ![t] = o] /\ cur' = cur

(* polystore_file_find; without a poly-file the call fails. *)
FindFile(t) ==
    /\ pc[t] = "find"
    /\ \/ \E e \in Entries(t) : Points(t, e.file) /\ Goto(t, "use")
       \/ Entries(t) = {} /\ Return(t)
    /\ UNCHANGED <<kfd, table, mem, held, opens, fast, slow>>

(* The poly-file and the kernel descriptors are used (opedata.c). *)
Finish(t) ==
    /\ pc[t] = "use"
    /\ Return(t)
    /\ UNCHANGED <<kfd, table, mem, held, opens, fast, slow>>

-----------------------------------------------------------------------------
(* polystore_close and polyos_close. *)

Close(t) ==
    /\ pc[t] = "idle"
    /\ \E o \in held :
          /\ \A u \in Threads : pc[u] \in UsePCs => cur[u] # o
          /\ held' = held \ {o}
          /\ cur' = [cur EXCEPT ![t] = o]
    /\ Goto(t, "cfind")
    /\ UNCHANGED <<kfd, table, mem, opens, fast, slow, ptr>>

(* Mutant of CloseFind: the poly-file stays in the table. *)
CloseFind_keeps(t) ==
    /\ pc[t] = "cfind"
    /\ \/ \E e \in Entries(t) : Points(t, e.file) /\ Goto(t, "closefast")
       \/ Entries(t) = {} /\ Return(t)
    /\ UNCHANGED <<kfd, table, mem, held, opens, fast, slow>>

(* Without a poly-file close fails and leaves the kernel descriptors open. *)
CloseFind(t) ==
    /\ pc[t] = "cfind"
    /\ \/ \E e \in Entries(t) : Points(t, e.file) /\ Goto(t, "delete")
       \/ Entries(t) = {} /\ Return(t)
    /\ UNCHANGED <<kfd, table, mem, held, opens, fast, slow>>

(* polystore_file_delete looks the descriptor up again.  The kernel then   *)
(* closes nothing when it does not find the inode by its path.             *)
DeleteFile(t) ==
    /\ pc[t] = "delete"
    /\ \/ \E e \in Entries(t) :
             table' = table \ {e} /\ mem' = [mem EXCEPT ![e.file] = "freed"]
       \/ Entries(t) = {} /\ UNCHANGED <<table, mem>>
    /\ \/ Goto(t, "closefast") /\ UNCHANGED <<cur, ptr>>
       \/ Return(t)
    /\ UNCHANGED <<kfd, held, opens, fast, slow>>

CloseFast(t) ==
    /\ pc[t] = "closefast"
    /\ kfd' = [kfd EXCEPT ![FastFd(Fd(cur[t]))] = None]
    /\ Goto(t, "closeslow")
    /\ UNCHANGED <<table, mem, held, opens, fast, slow, cur, ptr>>

(* Mutant of CloseSlow: the fast half is closed again. *)
CloseSlow_again(t) ==
    /\ pc[t] = "closeslow"
    /\ kfd' = [kfd EXCEPT ![FastFd(Fd(cur[t]))] = None]
    /\ Return(t)
    /\ UNCHANGED <<table, mem, held, opens, fast, slow>>

CloseSlow(t) ==
    /\ pc[t] = "closeslow"
    /\ kfd' = [kfd EXCEPT ![SlowFd(Fd(cur[t]))] = None]
    /\ Return(t)
    /\ UNCHANGED <<table, mem, held, opens, fast, slow>>

-----------------------------------------------------------------------------
Init ==
    /\ kfd = [n \in Fds |-> None]
    /\ table = {} /\ held = {} /\ opens = 0
    /\ mem = [o \in Opens |-> "none"]
    /\ fast = [o \in Opens |-> Emfile] /\ slow = [o \in Opens |-> Emfile]
    /\ pc = [t \in Threads |-> "idle"]
    /\ cur = [t \in Threads |-> 0] /\ ptr = [t \in Threads |-> 0]

Opening(t) == Open(t) \/ OpenFast(t) \/ OpenSlow(t) \/ GetInode(t) \/ CreateFile(t)
Using(t)   == Use(t) \/ FindFile(t) \/ Finish(t)
Closing(t) ==
    Close(t) \/ CloseFind(t) \/ DeleteFile(t) \/ CloseFast(t) \/ CloseSlow(t)

Next == \E t \in Threads : Opening(t) \/ Using(t) \/ Closing(t)

Spec == Init /\ [][Next]_vars

-----------------------------------------------------------------------------
(* Properties. *)

Finds(o) ==
    {e \in table : e.fd = Fd(o)} =
        IF mem[o] = "none" THEN {} ELSE {[fd |-> Fd(o), file |-> o]}

(* polystore_file_find never returns the poly-file of another open, nor    *)
(* one that is freed: for each descriptor in use the table has exactly the *)
(* poly-file of the open that returned it (none if that open failed after  *)
(* it had the descriptor), although numbers are handed out again in any    *)
(* combination and the table accepts the same number twice.                *)
FindsOwnFile ==
    /\ \A o \in held : Finds(o)
    /\ \A t \in Threads :
          /\ pc[t] \in {"find", "use", "cfind", "delete"} => Finds(cur[t])
          /\ pc[t] \in {"use", "delete"} => ptr[t] = cur[t] /\ mem[ptr[t]] = "live"

HasFast(o) == FastFd(Fd(o)) \in Fds /\ kfd[FastFd(Fd(o))] = <<"FAST", o>>
HasSlow(o) == SlowFd(Fd(o)) \in Fds /\ kfd[SlowFd(Fd(o))] = <<"SLOW", o>>

(* POLYSTORE_FAST_FD and POLYSTORE_SLOW_FD of a descriptor are the kernel  *)
(* descriptors its own open installed, until its own close closes them: no *)
(* I/O and no close reaches the file of another open.                      *)
RightFiles ==
    /\ \A o \in held : HasFast(o) /\ HasSlow(o)
    /\ \A t \in Threads :
          /\ pc[t] \in {"find", "use", "cfind", "delete", "closefast"} =>
                HasFast(cur[t]) /\ HasSlow(cur[t])
          /\ pc[t] = "closeslow" => HasSlow(cur[t])
=============================================================================
