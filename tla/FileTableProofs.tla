--------------------------- MODULE FileTableProofs ---------------------------
(***************************************************************************)
(* Proofs, for any number of threads, kernel descriptors and opens, that a *)
(* lookup finds the poly-file of its own open and that both halves of a    *)
(* descriptor stay with it until its own close.                            *)
(*                                                                         *)
(* The argument: the kernel table names one open per number, so two opens  *)
(* that own both halves of a number are the same open.  Entries of the     *)
(* hash table are in the invariant as owners of their halves too, which    *)
(* holds because close deletes the entry before it closes anything.        *)
(***************************************************************************)
EXTENDS FileTable, TLAPS

(* Both halves of a descriptor belong to its open. *)
Whole(o) ==
    /\ fast[o] \in Fds /\ kfd[fast[o]] = <<"FAST", o>>
    /\ slow[o] \in Fds /\ kfd[slow[o]] = <<"SLOW", o>>

(* The table has the live poly-files, each under its own number; no        *)
(* poly-file is made before its open.                                      *)
TableOK ==
    /\ \A e \in table :
          /\ e.file <= opens /\ e.fd = Fd(e.file) /\ mem[e.file] = "live"
          /\ e.fd >= 0 => Whole(e.file)
    /\ \A o \in Opens : mem[o] = "live" => [fd |-> Fd(o), file |-> o] \in table
    /\ \A o \in Opens : mem[o] # "none" => o <= opens

HeldOK == \A o \in held : o <= opens /\ Whole(o) /\ mem[o] # "freed"

(* What an open under way owns. *)
Opener(t) ==
    pc[t] \in OpenPCs =>
        /\ cur[t] \in 1 .. opens /\ mem[cur[t]] = "none"
        /\ pc[t] # "fast" /\ fast[cur[t]] \in Fds => kfd[fast[cur[t]]] = <<"FAST", cur[t]>>
        /\ pc[t] \in {"inode", "create"} /\ slow[cur[t]] \in Fds =>
              kfd[slow[cur[t]]] = <<"SLOW", cur[t]>>

User(t) ==
    pc[t] \in UsePCs =>
        /\ cur[t] \in held
        /\ pc[t] = "use" => ptr[t] = cur[t] /\ mem[cur[t]] = "live"

Closer(t) ==
    pc[t] \in ClosePCs =>
        /\ cur[t] \in 1 .. opens /\ fast[cur[t]] \in Fds /\ slow[cur[t]] \in Fds
        /\ pc[t] = "cfind" => mem[cur[t]] # "freed"
        /\ pc[t] = "delete" => ptr[t] = cur[t] /\ mem[cur[t]] = "live"
        /\ pc[t] \in {"closefast", "closeslow"} => mem[cur[t]] = "freed"
        /\ pc[t] # "closeslow" => Whole(cur[t])
        /\ pc[t] = "closeslow" => kfd[slow[cur[t]]] = <<"SLOW", cur[t]>>

(* An open or close under way has its open to itself. *)
Alone(t) ==
    pc[t] \in OpenPCs \cup ClosePCs =>
        /\ cur[t] \notin held
        /\ \A u \in Threads \ {t} :
              pc[u] \in OpenPCs \cup ClosePCs => cur[u] # cur[t]

IInv ==
    /\ TypeOK /\ TableOK /\ HeldOK
    /\ \A t \in Threads : Opener(t) /\ User(t) /\ Closer(t) /\ Alone(t)

-----------------------------------------------------------------------------
(* The two halves of a POLYSTORE_GEN_FD number come back out of it. *)
LEMMA Decode ==
    ASSUME NEW f \in Fds, NEW s \in Fds
    PROVE  /\ GenFd(f, s) \in Nat
           /\ FastFd(GenFd(f, s)) = f /\ SlowFd(GenFd(f, s)) = s
  BY MaxFdAssumption DEF GenFd, FastFd, SlowFd, Fds, Base

(* An error in place of a half makes the number negative. *)
LEMMA Negative ==
    ASSUME NEW f \in Fds \cup {Emfile}, NEW s \in Fds \cup {Emfile},
           f = Emfile \/ s = Emfile
    PROVE  GenFd(f, s) \in Int /\ GenFd(f, s) < 0
  BY MaxFdAssumption DEF GenFd, Fds, Base, Emfile

(* POLYSTORE_GEN_FD tells a complete open from one that lacks a half. *)
LEMMA Numbers ==
    ASSUME TypeOK, NEW o \in Opens
    PROVE  /\ Fd(o) \in Int
           /\ Fd(o) >= 0 <=> fast[o] \in Fds /\ slow[o] \in Fds
           /\ Fd(o) >= 0 => FastFd(Fd(o)) = fast[o] /\ SlowFd(Fd(o)) = slow[o]
  <1>1. fast[o] \in Fds \cup {Emfile} /\ slow[o] \in Fds \cup {Emfile}
    BY DEF TypeOK
  <1>2. CASE fast[o] \in Fds /\ slow[o] \in Fds
    BY <1>2, Decode DEF Fd
  <1>3. CASE fast[o] = Emfile \/ slow[o] = Emfile
    <2>1. Emfile \notin Fds
      BY MaxFdAssumption DEF Emfile, Fds
    <2>2. Fd(o) \in Int /\ Fd(o) < 0
      BY <1>1, <1>3, Negative DEF Fd
    <2> QED BY <1>3, <2>1, <2>2
  <1> QED BY <1>1, <1>2, <1>3

(* 0 stands for no open. *)
LEMMA Small == 0 \in 0 .. MaxOpens /\ Opens \subseteq 0 .. MaxOpens
  BY MaxOpensAssumption DEF Opens

(* The entries a lookup can return for a complete open are its own.        *)
LEMMA OwnEntries ==
    ASSUME TypeOK, TableOK, NEW o \in Opens, Whole(o)
    PROVE  \A e \in table : e.fd = Fd(o) => e.file = o /\ e = [fd |-> Fd(o), file |-> o]
  <1> SUFFICES ASSUME NEW e \in table, e.fd = Fd(o)
               PROVE  e.file = o /\ e = [fd |-> Fd(o), file |-> o]
    OBVIOUS
  <1>1. e \in [fd : Int, file : Opens] /\ Fd(e.file) = Fd(o)
    BY DEF TypeOK, TableOK
  <1>2. Fd(o) >= 0 /\ FastFd(Fd(o)) = fast[o] /\ fast[e.file] = fast[o]
    BY <1>1, Numbers DEF Whole
  <1>3. Whole(e.file)
    BY <1>2 DEF TableOK
  <1>4. <<"FAST", o>> = <<"FAST", e.file>>
    BY <1>2, <1>3 DEF Whole
  <1> QED BY <1>1, <1>4

(* A lookup for a complete open finds its poly-file if that exists. *)
LEMMA Lookup ==
    ASSUME TypeOK, TableOK, NEW o \in Opens, Whole(o), mem[o] # "freed"
    PROVE  Finds(o)
  <1>1. CASE mem[o] = "none"
    <2>1. \A e \in table : e.fd # Fd(o)
      BY <1>1, OwnEntries DEF TableOK
    <2> QED BY <1>1, <2>1 DEF Finds
  <1>2. CASE mem[o] = "live"
    <2>1. [fd |-> Fd(o), file |-> o] \in table
      BY <1>2 DEF TableOK
    <2> QED BY <1>2, <2>1, OwnEntries DEF Finds
  <1> QED BY <1>1, <1>2 DEF TypeOK

(* The invariant gives what the runs check. *)
LEMMA Consequences == IInv => FindsOwnFile /\ RightFiles
  <1> SUFFICES ASSUME IInv PROVE FindsOwnFile /\ RightFiles
    OBVIOUS
  <1> USE DEF IInv
  <1>1. ASSUME NEW o \in Opens, Whole(o) PROVE HasFast(o) /\ HasSlow(o)
    BY <1>1, Numbers DEF Whole, HasFast, HasSlow
  <1>2. ASSUME NEW o \in held PROVE o \in Opens /\ Whole(o) /\ mem[o] # "freed"
    BY DEF HeldOK, TypeOK
  <1>3. ASSUME NEW t \in Threads, pc[t] \in UsePCs PROVE cur[t] \in held
    BY <1>3 DEF User
  <1>4. ASSUME NEW t \in Threads, pc[t] \in ClosePCs PROVE cur[t] \in Opens
    BY <1>4, MaxOpensAssumption DEF Closer, TypeOK, Opens
  <1>5. FindsOwnFile
    <2>1. ASSUME NEW t \in Threads, pc[t] \in {"cfind", "delete"}
          PROVE  cur[t] \in Opens /\ Whole(cur[t]) /\ mem[cur[t]] # "freed"
      BY <2>1, <1>4 DEF Closer, ClosePCs
    <2>2. ASSUME NEW t \in Threads, pc[t] \in {"find", "use", "cfind", "delete"}
          PROVE  Finds(cur[t])
      BY <2>1, <2>2, <1>2, <1>3, Lookup DEF UsePCs
    <2>3. ASSUME NEW t \in Threads, pc[t] \in {"use", "delete"}
          PROVE  ptr[t] = cur[t] /\ mem[ptr[t]] = "live"
      BY <2>3 DEF User, Closer, UsePCs, ClosePCs
    <2> QED BY <1>2, <2>2, <2>3, Lookup DEF FindsOwnFile
  <1>6. RightFiles
    <2>1. ASSUME NEW t \in Threads, pc[t] \in {"cfind", "delete", "closefast"}
          PROVE  HasFast(cur[t]) /\ HasSlow(cur[t])
      BY <2>1, <1>1, <1>4 DEF Closer, ClosePCs
    <2>2. ASSUME NEW t \in Threads, pc[t] = "closeslow" PROVE HasSlow(cur[t])
      BY <2>2, <1>4, Numbers DEF Closer, ClosePCs, HasSlow
    <2> QED BY <1>1, <1>2, <1>3, <2>1, <2>2 DEF RightFiles, UsePCs
  <1> QED BY <1>5, <1>6

-----------------------------------------------------------------------------
(* Nothing is open at first. *)
LEMMA InitInv == Init => IInv
  <1> SUFFICES ASSUME Init PROVE IInv
    OBVIOUS
  <1>1. TypeOK
    BY MaxOpensAssumption DEF Init, TypeOK
  <1>2. TableOK /\ HeldOK
    BY DEF Init, TableOK, HeldOK
  <1>3. \A t \in Threads : Opener(t) /\ User(t) /\ Closer(t) /\ Alone(t)
    BY DEF Init, Opener, User, Closer, Alone, OpenPCs, UsePCs, ClosePCs
  <1> QED BY <1>1, <1>2, <1>3 DEF IInv

(* A new open has a number of its own. *)
LEMMA OpenStep == ASSUME IInv, NEW t \in Threads, Open(t) PROVE IInv'
  <1> USE DEF IInv, OpenPCs, UsePCs, ClosePCs
  <1>0. opens + 1 \in Opens /\ opens \in Nat /\ mem[opens + 1] = "none"
    BY MaxOpensAssumption DEF Open, TypeOK, TableOK, Opens
  <1>1. TypeOK'
    BY <1>0, MaxOpensAssumption DEF Open, Goto, Return, TypeOK, Opens
  <1>2. TableOK'
    BY <1>0 DEF Open, Goto, Return, TypeOK, TableOK, HeldOK, Opener, User, Closer, Whole, Fd, Opens
  <1>3. HeldOK'
    BY <1>0 DEF Open, Goto, Return, TypeOK, HeldOK, Opener, User, Closer, Alone, Whole, Opens
  <1>4. ASSUME NEW u \in Threads PROVE Opener(u)'
    BY <1>0 DEF Open, Goto, Return, TypeOK, TableOK, HeldOK, Opener, User, Closer, Alone, Whole, Opens
  <1>5. ASSUME NEW u \in Threads PROVE User(u)'
    BY <1>0 DEF Open, Goto, Return, TypeOK, HeldOK, Opener, User, Closer, Alone, Opens, TableOK
  <1>6. ASSUME NEW u \in Threads PROVE Closer(u)'
    BY <1>0 DEF Open, Goto, Return, TypeOK, TableOK, HeldOK, Opener, User, Closer, Alone, Whole, Opens
  <1>7. ASSUME NEW u \in Threads PROVE Alone(u)'
    BY <1>0 DEF Open, Goto, Return, TypeOK, TableOK, HeldOK, Opener, User, Closer, Alone, Opens
  <1> QED BY <1>1, <1>2, <1>3, <1>4, <1>5, <1>6, <1>7

(* The fast half goes to this open; nobody owned it before. *)
LEMMA OpenFastStep == ASSUME IInv, NEW t \in Threads, OpenFast(t) PROVE IInv'
  <1> USE DEF IInv, OpenPCs, UsePCs, ClosePCs
  <1>0. cur[t] \in Opens
    BY MaxOpensAssumption DEF OpenFast, Opener, TypeOK, Opens
  <1>u. pc[t] = "fast" /\ UNCHANGED <<table, mem, held, opens, slow>>
    BY DEF OpenFast
  <1>1. CASE Return(t) /\ UNCHANGED <<kfd, fast>>
    <2>1. TypeOK'
      BY <1>u, <1>1, Small DEF Goto, Return, TypeOK
    <2>2. TableOK' /\ HeldOK'
      BY <1>u, <1>1 DEF TableOK, HeldOK, Whole, Fd
    <2>3. ASSUME NEW u \in Threads PROVE Opener(u)' /\ User(u)' /\ Closer(u)'
      BY <1>u, <1>1 DEF Goto, Return, TypeOK, Opener, User, Closer, Whole
    <2>4. ASSUME NEW u \in Threads PROVE Alone(u)'
      BY <1>u, <1>1 DEF Goto, Return, TypeOK, Alone
    <2> QED BY <2>1, <2>2, <2>3, <2>4
  <1>2. ASSUME NEW n \in Fds \cup {Emfile},
               n \in Fds => kfd[n] = None /\ kfd' = [kfd EXCEPT ![n] = <<"FAST", cur[t]>>],
               n \notin Fds => kfd' = kfd,
               fast' = [fast EXCEPT ![cur[t]] = n],
               Goto(t, "slow"), UNCHANGED <<cur, ptr>>
        PROVE  IInv'
    <2>1. TypeOK'
      BY <1>0, <1>u, <1>2 DEF Goto, TypeOK
    <2>2. ASSUME NEW m \in Fds, kfd[m] # None PROVE kfd'[m] = kfd[m]
      BY <1>2, <2>2 DEF TypeOK
    <2>3. ASSUME NEW o \in Opens, o # cur[t] PROVE Fd(o)' = Fd(o) /\ fast'[o] = fast[o]
      BY <1>u, <1>2, <2>3 DEF Fd, TypeOK
    <2>4. \A o \in Opens : <<"FAST", o>> # None /\ <<"SLOW", o>> # None
      BY NoneAssumption DEF Opens
    <2>5. ASSUME NEW o \in Opens, o # cur[t], Whole(o) PROVE Whole(o)'
      BY <1>u, <2>2, <2>3, <2>4, <2>5 DEF Whole
    <2>6. cur[t] \notin held /\ \A e \in table : e.file # cur[t]
      BY <1>u DEF Opener, Alone, TableOK
    <2>7. TableOK'
      <3>1. ASSUME NEW e \in table
            PROVE  e.file \in Opens /\ e.fd = Fd(e.file)' /\ (e.fd >= 0 => Whole(e.file)')
        BY <2>3, <2>5, <2>6 DEF TableOK, TypeOK
      <3>2. ASSUME NEW o \in Opens, mem[o] = "live" PROVE o # cur[t] /\ Fd(o)' = Fd(o)
        BY <1>u, <2>3, <3>2 DEF Opener
      <3> QED BY <1>u, <3>1, <3>2 DEF TableOK
    <2>8. HeldOK'
      BY <1>u, <2>5, <2>6 DEF HeldOK, TypeOK
    <2>9. ASSUME NEW u \in Threads PROVE Opener(u)' /\ User(u)' /\ Closer(u)' /\ Alone(u)'
      <3>1. CASE u = t
        BY <1>0, <1>u, <1>2, <2>1, <2>2, <2>4, <3>1 DEF Goto, TypeOK, Opener, User, Closer, Alone
      <3>2. CASE u # t
        <4>1. pc'[u] = pc[u] /\ cur'[u] = cur[u] /\ ptr'[u] = ptr[u]
          BY <1>2, <3>2 DEF Goto, TypeOK
        <4>2. pc[u] \in OpenPCs \cup ClosePCs => cur[u] # cur[t] /\ cur[u] \in Opens
          BY <1>u, <3>2, MaxOpensAssumption DEF Alone, Opener, Closer, TypeOK, Opens
        <4>a. ASSUME pc[u] \in OpenPCs \cup ClosePCs
              PROVE  /\ fast'[cur[u]] = fast[cur[u]] /\ slow'[cur[u]] = slow[cur[u]]
                     /\ \A m \in Fds : kfd[m] \in {<<"FAST", cur[u]>>, <<"SLOW", cur[u]>>}
                                       => kfd'[m] = kfd[m]
          BY <1>u, <4>2, <4>a, <2>2, <2>3, <2>4
        <4>3. Opener(u)'
          <5> SUFFICES ASSUME pc[u] \in OpenPCs PROVE Opener(u)'
            BY <4>1 DEF Opener
          <5>1. Opener(u) /\ fast'[cur[u]] = fast[cur[u]] /\ slow'[cur[u]] = slow[cur[u]]
            BY <4>a
          <5>2. /\ pc[u] # "fast" /\ fast[cur[u]] \in Fds => kfd'[fast[cur[u]]] = <<"FAST", cur[u]>>
                /\ pc[u] \in {"inode", "create"} /\ slow[cur[u]] \in Fds =>
                      kfd'[slow[cur[u]]] = <<"SLOW", cur[u]>>
            BY <4>a, <5>1 DEF Opener
          <5> QED BY <1>u, <4>1, <5>1, <5>2 DEF Opener
        <4>4. User(u)'
          BY <1>u, <4>1 DEF User
        <4>b. ASSUME pc[u] \in ClosePCs, pc[u] # "closeslow" PROVE Whole(cur[u])'
          <5>1. Whole(cur[u])
            BY <4>b DEF Closer
          <5> QED BY <4>b, <4>1, <4>a, <5>1 DEF Whole
        <4>5. Closer(u)'
          <5> SUFFICES ASSUME pc[u] \in ClosePCs PROVE Closer(u)'
            BY <4>1 DEF Closer
          <5>1. /\ fast'[cur[u]] = fast[cur[u]] /\ slow'[cur[u]] = slow[cur[u]]
                /\ kfd[slow[cur[u]]] = <<"SLOW", cur[u]>> => kfd'[slow[cur[u]]] = kfd[slow[cur[u]]]
            BY <4>a DEF Closer
          <5> QED BY <1>u, <4>1, <4>b, <5>1 DEF Closer, Whole
        <4>6. Alone(u)'
          BY <1>u, <1>2, <4>1, <4>2 DEF Alone, Goto, TypeOK
        <4> QED BY <4>3, <4>4, <4>5, <4>6
      <3> QED BY <3>1, <3>2
    <2> QED BY <2>1, <2>7, <2>8, <2>9
  <1>3. Emfile \notin Fds
    BY MaxFdAssumption DEF Emfile, Fds
  <1> QED BY <1>1, <1>2, <1>3 DEF OpenFast, Unused

(* The slow half goes to this open; nobody owned it before. *)
LEMMA OpenSlowStep == ASSUME IInv, NEW t \in Threads, OpenSlow(t) PROVE IInv'
  <1> USE DEF IInv, OpenPCs, UsePCs, ClosePCs
  <1>0. cur[t] \in Opens
    BY MaxOpensAssumption DEF OpenSlow, Opener, TypeOK, Opens
  <1>u. pc[t] = "slow" /\ UNCHANGED <<table, mem, held, opens, fast>>
    BY DEF OpenSlow
  <1>1. CASE Return(t) /\ UNCHANGED <<kfd, slow>>
    <2>1. TypeOK'
      BY <1>u, <1>1, Small DEF Goto, Return, TypeOK
    <2>2. TableOK' /\ HeldOK'
      BY <1>u, <1>1 DEF TableOK, HeldOK, Whole, Fd
    <2>3. ASSUME NEW u \in Threads PROVE Opener(u)' /\ User(u)' /\ Closer(u)'
      BY <1>u, <1>1 DEF Goto, Return, TypeOK, Opener, User, Closer, Whole
    <2>4. ASSUME NEW u \in Threads PROVE Alone(u)'
      BY <1>u, <1>1 DEF Goto, Return, TypeOK, Alone
    <2> QED BY <2>1, <2>2, <2>3, <2>4
  <1>2. ASSUME NEW n \in Fds \cup {Emfile},
               n \in Fds => kfd[n] = None /\ kfd' = [kfd EXCEPT ![n] = <<"SLOW", cur[t]>>],
               n \notin Fds => kfd' = kfd,
               slow' = [slow EXCEPT ![cur[t]] = n],
               Goto(t, "inode"), UNCHANGED <<cur, ptr>>
        PROVE  IInv'
    <2>1. TypeOK'
      BY <1>0, <1>u, <1>2 DEF Goto, TypeOK
    <2>2. ASSUME NEW m \in Fds, kfd[m] # None PROVE kfd'[m] = kfd[m]
      BY <1>2, <2>2 DEF TypeOK
    <2>3. ASSUME NEW o \in Opens, o # cur[t] PROVE Fd(o)' = Fd(o) /\ slow'[o] = slow[o]
      BY <1>u, <1>2, <2>3 DEF Fd, TypeOK
    <2>4. \A o \in Opens : <<"FAST", o>> # None /\ <<"SLOW", o>> # None
      BY NoneAssumption DEF Opens
    <2>5. ASSUME NEW o \in Opens, o # cur[t], Whole(o) PROVE Whole(o)'
      BY <1>u, <2>2, <2>3, <2>4, <2>5 DEF Whole
    <2>6. cur[t] \notin held /\ \A e \in table : e.file # cur[t]
      BY <1>u DEF Opener, Alone, TableOK
    <2>7. TableOK'
      <3>1. ASSUME NEW e \in table
            PROVE  e.file \in Opens /\ e.fd = Fd(e.file)' /\ (e.fd >= 0 => Whole(e.file)')
        BY <2>3, <2>5, <2>6 DEF TableOK, TypeOK
      <3>2. ASSUME NEW o \in Opens, mem[o] = "live" PROVE o # cur[t] /\ Fd(o)' = Fd(o)
        BY <1>u, <2>3, <3>2 DEF Opener
      <3> QED BY <1>u, <3>1, <3>2 DEF TableOK
    <2>8. HeldOK'
      BY <1>u, <2>5, <2>6 DEF HeldOK, TypeOK
    <2>9. ASSUME NEW u \in Threads PROVE Opener(u)' /\ User(u)' /\ Closer(u)' /\ Alone(u)'
      <3>1. CASE u = t
        BY <1>0, <1>u, <1>2, <2>1, <2>2, <2>4, <3>1 DEF Goto, TypeOK, Opener, User, Closer, Alone
      <3>2. CASE u # t
        <4>1. pc'[u] = pc[u] /\ cur'[u] = cur[u] /\ ptr'[u] = ptr[u]
          BY <1>2, <3>2 DEF Goto, TypeOK
        <4>2. pc[u] \in OpenPCs \cup ClosePCs => cur[u] # cur[t] /\ cur[u] \in Opens
          BY <1>u, <3>2, MaxOpensAssumption DEF Alone, Opener, Closer, TypeOK, Opens
        <4>a. ASSUME pc[u] \in OpenPCs \cup ClosePCs
              PROVE  /\ fast'[cur[u]] = fast[cur[u]] /\ slow'[cur[u]] = slow[cur[u]]
                     /\ \A m \in Fds : kfd[m] \in {<<"FAST", cur[u]>>, <<"SLOW", cur[u]>>}
                                       => kfd'[m] = kfd[m]
          BY <1>u, <4>2, <4>a, <2>2, <2>3, <2>4
        <4>3. Opener(u)'
          <5> SUFFICES ASSUME pc[u] \in OpenPCs PROVE Opener(u)'
            BY <4>1 DEF Opener
          <5>1. Opener(u) /\ fast'[cur[u]] = fast[cur[u]] /\ slow'[cur[u]] = slow[cur[u]]
            BY <4>a
          <5>2. /\ pc[u] # "fast" /\ fast[cur[u]] \in Fds => kfd'[fast[cur[u]]] = <<"FAST", cur[u]>>
                /\ pc[u] \in {"inode", "create"} /\ slow[cur[u]] \in Fds =>
                      kfd'[slow[cur[u]]] = <<"SLOW", cur[u]>>
            BY <4>a, <5>1 DEF Opener
          <5> QED BY <1>u, <4>1, <5>1, <5>2 DEF Opener
        <4>4. User(u)'
          BY <1>u, <4>1 DEF User
        <4>b. ASSUME pc[u] \in ClosePCs, pc[u] # "closeslow" PROVE Whole(cur[u])'
          <5>1. Whole(cur[u])
            BY <4>b DEF Closer
          <5> QED BY <4>b, <4>1, <4>a, <5>1 DEF Whole
        <4>5. Closer(u)'
          <5> SUFFICES ASSUME pc[u] \in ClosePCs PROVE Closer(u)'
            BY <4>1 DEF Closer
          <5>1. /\ fast'[cur[u]] = fast[cur[u]] /\ slow'[cur[u]] = slow[cur[u]]
                /\ kfd[slow[cur[u]]] = <<"SLOW", cur[u]>> => kfd'[slow[cur[u]]] = kfd[slow[cur[u]]]
            BY <4>a DEF Closer
          <5> QED BY <1>u, <4>1, <4>b, <5>1 DEF Closer, Whole
        <4>6. Alone(u)'
          BY <1>u, <1>2, <4>1, <4>2 DEF Alone, Goto, TypeOK
        <4> QED BY <4>3, <4>4, <4>5, <4>6
      <3> QED BY <3>1, <3>2
    <2> QED BY <2>1, <2>7, <2>8, <2>9
  <1>3. Emfile \notin Fds
    BY MaxFdAssumption DEF Emfile, Fds
  <1> QED BY <1>1, <1>2, <1>3 DEF OpenSlow, Unused

(* A descriptor without a poly-file may be returned here. *)
LEMMA GetInodeStep == ASSUME IInv, NEW t \in Threads, GetInode(t) PROVE IInv'
  <1> USE DEF IInv, OpenPCs, UsePCs, ClosePCs
  <1>0. cur[t] \in Opens /\ (Fd(cur[t]) >= 0 => Whole(cur[t])) /\ Fd(cur[t]) \in Int
    BY Numbers, MaxOpensAssumption DEF GetInode, Opener, TypeOK, Opens, Whole
  <1>a. \A o \in held' : o \in held \/ (o = cur[t] /\ Whole(o))
    <2>1. held' = held \/ (held' = held \cup {cur[t]} /\ Fd(cur[t]) >= 0)
      BY DEF GetInode, ReturnFd
    <2> QED BY <1>0, <2>1 DEF Whole
  <1>1. TypeOK'
    <2>1. held' \in SUBSET Opens
      BY <1>0, <1>a DEF TypeOK
    <2>2. pc' \in [Threads -> {"idle"} \cup OpenPCs \cup UsePCs \cup ClosePCs]
      BY DEF GetInode, ReturnFd, Return, Goto, TypeOK
    <2>3. cur' \in [Threads -> 0 .. MaxOpens] /\ ptr' \in [Threads -> 0 .. MaxOpens]
      BY Small DEF GetInode, ReturnFd, Return, TypeOK
    <2> QED BY <2>1, <2>2, <2>3 DEF GetInode, TypeOK
  <1>2. TableOK'
    BY <1>0, <1>a DEF GetInode, Goto, Return, ReturnFd, TypeOK, TableOK, HeldOK, Opener, User, Closer, Whole, Fd, Opens
  <1>3. HeldOK'
    <2>1. UNCHANGED <<kfd, fast, slow, opens>> /\ cur[t] <= opens
      BY DEF GetInode, Opener
    <2>2. \A o \in Opens : mem'[o] = "freed" => mem[o] = "freed" /\ o # cur[t]
      BY <1>0 DEF GetInode, Opener, TypeOK
    <2> QED BY <1>1, <1>a, <2>1, <2>2 DEF HeldOK, Whole, TypeOK
  <1>4. ASSUME NEW u \in Threads PROVE Opener(u)'
    BY <1>0, <1>a DEF GetInode, Goto, Return, ReturnFd, TypeOK, TableOK, HeldOK, Opener, User, Closer, Alone, Whole, Opens
  <1>5. ASSUME NEW u \in Threads PROVE User(u)'
    BY <1>0, <1>a DEF GetInode, Goto, Return, ReturnFd, TypeOK, HeldOK, Opener, User, Closer, Alone, Opens, TableOK
  <1>6. ASSUME NEW u \in Threads PROVE Closer(u)'
    BY <1>0, <1>a DEF GetInode, Goto, Return, ReturnFd, TypeOK, TableOK, HeldOK, Opener, User, Closer, Alone, Whole, Opens
  <1>7. ASSUME NEW u \in Threads PROVE Alone(u)'
    BY <1>0, <1>a DEF GetInode, Goto, Return, ReturnFd, TypeOK, TableOK, HeldOK, Opener, User, Closer, Alone, Opens
  <1> QED BY <1>1, <1>2, <1>3, <1>4, <1>5, <1>6, <1>7

(* The entry and the descriptor appear when both halves are owned. *)
LEMMA CreateFileStep == ASSUME IInv, NEW t \in Threads, CreateFile(t) PROVE IInv'
  <1> USE DEF IInv, OpenPCs, UsePCs, ClosePCs
  <1>0. cur[t] \in Opens /\ (Fd(cur[t]) >= 0 => Whole(cur[t])) /\ Fd(cur[t]) \in Int
    BY Numbers, MaxOpensAssumption DEF CreateFile, Opener, TypeOK, Opens, Whole
  <1>a. \A o \in held' : o \in held \/ (o = cur[t] /\ Whole(o))
    <2>1. held' = held \/ (held' = held \cup {cur[t]} /\ Fd(cur[t]) >= 0)
      BY DEF CreateFile, ReturnFd
    <2> QED BY <1>0, <2>1 DEF Whole
  <1>1. TypeOK'
    <2>1. held' \in SUBSET Opens
      BY <1>0, <1>a DEF TypeOK
    <2>2. pc' \in [Threads -> {"idle"} \cup OpenPCs \cup UsePCs \cup ClosePCs]
      BY DEF CreateFile, ReturnFd, Return, Goto, TypeOK
    <2>3. cur' \in [Threads -> 0 .. MaxOpens] /\ ptr' \in [Threads -> 0 .. MaxOpens]
      BY Small DEF CreateFile, ReturnFd, Return, TypeOK
    <2>4. table' \in SUBSET [fd : Int, file : Opens] /\ mem' \in [Opens -> {"none", "live", "freed"}]
      BY <1>0 DEF CreateFile, TypeOK
    <2> QED BY <2>1, <2>2, <2>3, <2>4 DEF CreateFile, TypeOK
  <1>2. TableOK'
    <2>1. /\ UNCHANGED <<kfd, fast, slow, opens>> /\ cur[t] <= opens
          /\ table' = table \cup {[fd |-> Fd(cur[t]), file |-> cur[t]]}
      BY DEF CreateFile, Opener
    <2>2. mem'[cur[t]] = "live" /\ \A o \in Opens : o # cur[t] => mem'[o] = mem[o]
      BY <1>0 DEF CreateFile, TypeOK
    <2>3. \A o \in Opens : (Fd(o))' = Fd(o) /\ (Whole(o) => Whole(o)')
      BY <2>1 DEF Fd, Whole
    <2>4. ASSUME NEW e \in table'
          PROVE  /\ e.file <= opens' /\ e.fd = (Fd(e.file))' /\ mem'[e.file] = "live"
                 /\ e.fd >= 0 => (Whole(e.file))'
      <3>1. CASE e \in table
        <4>1. e.file \in Opens /\ mem'[e.file] = "live"
          BY <2>2, <3>1 DEF TypeOK, TableOK
        <4> QED BY <2>1, <2>3, <3>1, <4>1 DEF TableOK
      <3>2. CASE e = [fd |-> Fd(cur[t]), file |-> cur[t]]
        BY <1>0, <2>1, <2>2, <2>3, <3>2
      <3> QED BY <2>1, <3>1, <3>2
    <2>5. \A o \in Opens : mem'[o] = "live" => [fd |-> (Fd(o))', file |-> o] \in table'
      BY <2>1, <2>2, <2>3 DEF TableOK
    <2>6. \A o \in Opens : mem'[o] # "none" => o <= opens'
      BY <2>1, <2>2 DEF TableOK
    <2> QED BY <2>4, <2>5, <2>6 DEF TableOK
  <1>3. HeldOK'
    <2>1. UNCHANGED <<kfd, fast, slow, opens>> /\ cur[t] <= opens
      BY DEF CreateFile, Opener
    <2>2. \A o \in Opens : mem'[o] = "freed" => mem[o] = "freed" /\ o # cur[t]
      BY <1>0 DEF CreateFile, Opener, TypeOK
    <2> QED BY <1>1, <1>a, <2>1, <2>2 DEF HeldOK, Whole, TypeOK
  <1>4. ASSUME NEW u \in Threads PROVE Opener(u)'
    BY <1>0, <1>a DEF CreateFile, Goto, Return, ReturnFd, TypeOK, TableOK, HeldOK, Opener, User, Closer, Alone, Whole, Opens
  <1>5. ASSUME NEW u \in Threads PROVE User(u)'
    BY <1>0, <1>a DEF CreateFile, Goto, Return, ReturnFd, TypeOK, HeldOK, Opener, User, Closer, Alone, Opens, TableOK
  <1>6. ASSUME NEW u \in Threads PROVE Closer(u)'
    BY <1>0, <1>a DEF CreateFile, Goto, Return, ReturnFd, TypeOK, TableOK, HeldOK, Opener, User, Closer, Alone, Whole, Opens
  <1>7. ASSUME NEW u \in Threads PROVE Alone(u)'
    BY <1>0, <1>a DEF CreateFile, Goto, Return, ReturnFd, TypeOK, TableOK, HeldOK, Opener, User, Closer, Alone, Opens
  <1> QED BY <1>1, <1>2, <1>3, <1>4, <1>5, <1>6, <1>7

(* A call names a descriptor the application holds. *)
LEMMA UseStep == ASSUME IInv, NEW t \in Threads, Use(t) PROVE IInv'
  <1> USE DEF IInv, OpenPCs, UsePCs, ClosePCs
  <1>1. TypeOK'
    BY Small DEF Use, Goto, Return, TypeOK
  <1>2. TableOK'
    BY DEF Use, Goto, Return, TypeOK, TableOK, HeldOK, Opener, User, Closer, Whole, Fd, Opens
  <1>3. HeldOK'
    BY DEF Use, Goto, Return, TypeOK, HeldOK, Opener, User, Closer, Alone, Whole, Opens
  <1>4. ASSUME NEW u \in Threads PROVE Opener(u)'
    BY DEF Use, Goto, Return, TypeOK, TableOK, HeldOK, Opener, User, Closer, Alone, Whole, Opens
  <1>5. ASSUME NEW u \in Threads PROVE User(u)'
    BY DEF Use, Goto, Return, TypeOK, HeldOK, Opener, User, Closer, Alone, Opens, TableOK
  <1>6. ASSUME NEW u \in Threads PROVE Closer(u)'
    BY DEF Use, Goto, Return, TypeOK, TableOK, HeldOK, Opener, User, Closer, Alone, Whole, Opens
  <1>7. ASSUME NEW u \in Threads PROVE Alone(u)'
    BY DEF Use, Goto, Return, TypeOK, TableOK, HeldOK, Opener, User, Closer, Alone, Opens
  <1> QED BY <1>1, <1>2, <1>3, <1>4, <1>5, <1>6, <1>7

(* The lookup of a call returns its own poly-file. *)
LEMMA FindFileStep == ASSUME IInv, NEW t \in Threads, FindFile(t) PROVE IInv'
  <1> USE DEF IInv, OpenPCs, UsePCs, ClosePCs
  <1>0. \A e \in Entries(t) : e \in table /\ e.file = cur[t] /\ cur[t] \in Opens
    BY OwnEntries, MaxOpensAssumption DEF FindFile, Entries, User, Closer, HeldOK, TypeOK, Opens
  <1>1. TypeOK'
    BY <1>0, Small DEF FindFile, Goto, Return, Points, Entries, TypeOK
  <1>2. TableOK'
    BY <1>0 DEF FindFile, Goto, Return, Points, Entries, TypeOK, TableOK, HeldOK, Opener, User, Closer, Whole, Fd, Opens
  <1>3. HeldOK'
    BY <1>0 DEF FindFile, Goto, Return, Points, Entries, TypeOK, HeldOK, Opener, User, Closer, Alone, Whole, Opens
  <1>4. ASSUME NEW u \in Threads PROVE Opener(u)'
    BY <1>0 DEF FindFile, Goto, Return, Points, Entries, TypeOK, TableOK, HeldOK, Opener, User, Closer, Alone, Whole, Opens
  <1>5. ASSUME NEW u \in Threads PROVE User(u)'
    BY <1>0 DEF FindFile, Goto, Return, Points, Entries, TypeOK, HeldOK, Opener, User, Closer, Alone, Opens, TableOK
  <1>6. ASSUME NEW u \in Threads PROVE Closer(u)'
    BY <1>0 DEF FindFile, Goto, Return, Points, Entries, TypeOK, TableOK, HeldOK, Opener, User, Closer, Alone, Whole, Opens
  <1>7. ASSUME NEW u \in Threads PROVE Alone(u)'
    <2>1. /\ held' = held
          /\ \A v \in Threads : pc'[v] \in OpenPCs \cup ClosePCs
                               => pc[v] \in OpenPCs \cup ClosePCs /\ cur'[v] = cur[v]
      BY DEF FindFile, Goto, Return, Points, TypeOK
    <2> QED BY <2>1 DEF Alone
  <1> QED BY <1>1, <1>2, <1>3, <1>4, <1>5, <1>6, <1>7

(* A call ends. *)
LEMMA FinishStep == ASSUME IInv, NEW t \in Threads, Finish(t) PROVE IInv'
  <1> USE DEF IInv, OpenPCs, UsePCs, ClosePCs
  <1>1. TypeOK'
    BY Small DEF Finish, Goto, Return, TypeOK
  <1>2. TableOK'
    BY DEF Finish, Goto, Return, TypeOK, TableOK, HeldOK, Opener, User, Closer, Whole, Fd, Opens
  <1>3. HeldOK'
    BY DEF Finish, Goto, Return, TypeOK, HeldOK, Opener, User, Closer, Alone, Whole, Opens
  <1>4. ASSUME NEW u \in Threads PROVE Opener(u)'
    BY DEF Finish, Goto, Return, TypeOK, TableOK, HeldOK, Opener, User, Closer, Alone, Whole, Opens
  <1>5. ASSUME NEW u \in Threads PROVE User(u)'
    BY DEF Finish, Goto, Return, TypeOK, HeldOK, Opener, User, Closer, Alone, Opens, TableOK
  <1>6. ASSUME NEW u \in Threads PROVE Closer(u)'
    BY DEF Finish, Goto, Return, TypeOK, TableOK, HeldOK, Opener, User, Closer, Alone, Whole, Opens
  <1>7. ASSUME NEW u \in Threads PROVE Alone(u)'
    BY DEF Finish, Goto, Return, TypeOK, TableOK, HeldOK, Opener, User, Closer, Alone, Opens
  <1> QED BY <1>1, <1>2, <1>3, <1>4, <1>5, <1>6, <1>7

(* A close takes the descriptor away from the application. *)
LEMMA CloseStep == ASSUME IInv, NEW t \in Threads, Close(t) PROVE IInv'
  <1> USE DEF IInv, OpenPCs, UsePCs, ClosePCs
  <1>1. TypeOK'
    BY Small DEF Close, Goto, Return, TypeOK
  <1>2. TableOK'
    BY DEF Close, Goto, Return, TypeOK, TableOK, HeldOK, Opener, User, Closer, Whole, Fd, Opens
  <1>3. HeldOK'
    BY DEF Close, Goto, Return, TypeOK, HeldOK, Opener, User, Closer, Alone, Whole, Opens
  <1>4. ASSUME NEW u \in Threads PROVE Opener(u)'
    BY DEF Close, Goto, Return, TypeOK, TableOK, HeldOK, Opener, User, Closer, Alone, Whole, Opens
  <1>5. ASSUME NEW u \in Threads PROVE User(u)'
    BY DEF Close, Goto, Return, TypeOK, HeldOK, Opener, User, Closer, Alone, Opens, TableOK
  <1>6. ASSUME NEW u \in Threads PROVE Closer(u)'
    BY DEF Close, Goto, Return, TypeOK, TableOK, HeldOK, Opener, User, Closer, Alone, Whole, Opens
  <1>7. ASSUME NEW u \in Threads PROVE Alone(u)'
    BY DEF Close, Goto, Return, TypeOK, TableOK, HeldOK, Opener, User, Closer, Alone, Opens
  <1> QED BY <1>1, <1>2, <1>3, <1>4, <1>5, <1>6, <1>7

(* The lookup of a close returns its own poly-file. *)
LEMMA CloseFindStep == ASSUME IInv, NEW t \in Threads, CloseFind(t) PROVE IInv'
  <1> USE DEF IInv, OpenPCs, UsePCs, ClosePCs
  <1>0. \A e \in Entries(t) : e \in table /\ e.file = cur[t] /\ cur[t] \in Opens
    BY OwnEntries, MaxOpensAssumption DEF CloseFind, Entries, User, Closer, HeldOK, TypeOK, Opens
  <1>1. TypeOK'
    BY <1>0, Small DEF CloseFind, Goto, Return, Points, Entries, TypeOK
  <1>2. TableOK'
    BY <1>0 DEF CloseFind, Goto, Return, Points, Entries, TypeOK, TableOK, HeldOK, Opener, User, Closer, Whole, Fd, Opens
  <1>3. HeldOK'
    BY <1>0 DEF CloseFind, Goto, Return, Points, Entries, TypeOK, HeldOK, Opener, User, Closer, Alone, Whole, Opens
  <1>4. ASSUME NEW u \in Threads PROVE Opener(u)'
    BY <1>0 DEF CloseFind, Goto, Return, Points, Entries, TypeOK, TableOK, HeldOK, Opener, User, Closer, Alone, Whole, Opens
  <1>5. ASSUME NEW u \in Threads PROVE User(u)'
    BY <1>0 DEF CloseFind, Goto, Return, Points, Entries, TypeOK, HeldOK, Opener, User, Closer, Alone, Opens, TableOK
  <1>6. ASSUME NEW u \in Threads PROVE Closer(u)'
    BY <1>0 DEF CloseFind, Goto, Return, Points, Entries, TypeOK, TableOK, HeldOK, Opener, User, Closer, Alone, Whole, Opens
  <1>7. ASSUME NEW u \in Threads PROVE Alone(u)'
    BY <1>0 DEF CloseFind, Goto, Return, Points, Entries, TypeOK, TableOK, HeldOK, Opener, User, Closer, Alone, Opens
  <1> QED BY <1>1, <1>2, <1>3, <1>4, <1>5, <1>6, <1>7

(* The entry that is deleted is the closing descriptor's own. *)
LEMMA DeleteFileStep == ASSUME IInv, NEW t \in Threads, DeleteFile(t) PROVE IInv'
  <1> USE DEF IInv, OpenPCs, UsePCs, ClosePCs
  <1>0. cur[t] \in Opens /\ mem[cur[t]] = "live" /\ Whole(cur[t])
    BY MaxOpensAssumption DEF DeleteFile, Closer, TypeOK, Opens
  <1>a. Entries(t) = {[fd |-> Fd(cur[t]), file |-> cur[t]]}
    BY <1>0, Lookup DEF Finds, Entries
  <1>b. /\ table' = table \ {[fd |-> Fd(cur[t]), file |-> cur[t]]}
        /\ mem' = [mem EXCEPT ![cur[t]] = "freed"]
    <2>1. ASSUME NEW e \in Entries(t) PROVE e = [fd |-> Fd(cur[t]), file |-> cur[t]] /\ e.file = cur[t]
      BY <1>a
    <2>2. Entries(t) # {}
      BY <1>a
    <2> QED BY <2>1, <2>2 DEF DeleteFile
  <1>1. TypeOK'
    BY <1>0, <1>b, Small DEF DeleteFile, Goto, Return, TypeOK
  <1>2. TableOK'
    <2>1. UNCHANGED <<kfd, fast, slow, opens>>
      BY DEF DeleteFile
    <2>2. \A o \in Opens : (Fd(o))' = Fd(o) /\ (Whole(o) => (Whole(o))')
      BY <2>1 DEF Fd, Whole
    <2>3. \A e \in table : e.file \in Opens /\ e = [fd |-> e.fd, file |-> e.file]
      BY DEF TypeOK
    <2>4. ASSUME NEW e \in table'
          PROVE  /\ e \in table /\ e.file # cur[t] /\ mem'[e.file] = mem[e.file]
      <3>1. e \in table /\ e # [fd |-> Fd(cur[t]), file |-> cur[t]]
        BY <1>b
      <3>2. e.fd = Fd(e.file) /\ e = [fd |-> e.fd, file |-> e.file] /\ e.file \in Opens
        BY <3>1, <2>3 DEF TableOK
      <3>3. e.file # cur[t]
        BY <3>1, <3>2
      <3> QED BY <3>1, <3>2, <3>3, <1>b DEF TypeOK
    <2>5. \A e \in table' : /\ e.file <= opens' /\ e.fd = (Fd(e.file))' /\ mem'[e.file] = "live"
                            /\ e.fd >= 0 => (Whole(e.file))'
      BY <2>1, <2>2, <2>3, <2>4 DEF TableOK
    <2>6. ASSUME NEW o \in Opens, mem'[o] = "live"
          PROVE  [fd |-> (Fd(o))', file |-> o] \in table'
      <3>1. o # cur[t] /\ mem[o] = "live"
        BY <2>6, <1>0, <1>b DEF TypeOK
      <3>2. [fd |-> Fd(o), file |-> o] \in table
        BY <3>1 DEF TableOK
      <3>3. [fd |-> Fd(o), file |-> o] # [fd |-> Fd(cur[t]), file |-> cur[t]]
        BY <3>1
      <3> QED BY <3>2, <3>3, <1>b, <2>2
    <2>7. \A o \in Opens : mem'[o] # "none" => o <= opens'
      BY <1>0, <1>b, <2>1 DEF TableOK, TypeOK
    <2> QED BY <2>5, <2>6, <2>7 DEF TableOK
  <1>3. HeldOK'
    <2>1. UNCHANGED <<kfd, held, fast, slow, opens>> /\ cur[t] \notin held
      BY DEF DeleteFile, Alone
    <2> QED BY <1>0, <1>b, <2>1 DEF HeldOK, Whole, TypeOK
  <1>c. /\ UNCHANGED <<kfd, held, opens, fast, slow>> /\ pc[t] = "delete"
        /\ pc'[t] \in {"closefast", "idle"} /\ (pc'[t] = "closefast" => cur'[t] = cur[t])
        /\ \A u \in Threads \ {t} : pc'[u] = pc[u] /\ cur'[u] = cur[u] /\ ptr'[u] = ptr[u]
    BY DEF DeleteFile, Goto, Return, TypeOK
  <1>d. \A o \in Opens : o # cur[t] => mem'[o] = mem[o]
    BY <1>0, <1>b DEF TypeOK
  <1>e. ASSUME NEW u \in Threads \ {t}, pc[u] \in OpenPCs \cup ClosePCs
        PROVE  cur[u] \in Opens /\ mem'[cur[u]] = mem[cur[u]]
    <2>1. cur[u] \in Opens
      BY <1>e, MaxOpensAssumption DEF Opener, Closer, TypeOK, Opens
    <2>2. cur[u] # cur[t]
      BY <1>c, <1>e DEF Alone
    <2> QED BY <1>d, <2>1, <2>2
  <1>4. ASSUME NEW u \in Threads PROVE Opener(u)'
    <2>1. CASE u = t
      BY <1>c, <2>1 DEF Opener
    <2>2. CASE u # t
      BY <1>c, <1>e, <2>2 DEF Opener
    <2> QED BY <2>1, <2>2
  <1>5. ASSUME NEW u \in Threads PROVE User(u)'
    <2>1. CASE u = t
      BY <1>c, <2>1 DEF User
    <2>2. CASE u # t
      <3>1. cur[t] \notin held
        BY <1>c DEF Alone
      <3> QED BY <1>c, <1>d, <2>2, <3>1 DEF User, TypeOK
    <2> QED BY <2>1, <2>2
  <1>6. ASSUME NEW u \in Threads PROVE Closer(u)'
    <2>1. CASE u = t
      <3>1. Closer(t) /\ mem'[cur[t]] = "freed"
        BY <1>0, <1>b DEF TypeOK
      <3> QED BY <1>c, <2>1, <3>1 DEF Closer, Whole
    <2>2. CASE u # t
      <3>1. \A o \in Opens : Whole(o) => Whole(o)'
        BY <1>c DEF Whole
      <3> QED BY <1>c, <1>e, <2>2, <3>1 DEF Closer
    <2> QED BY <2>1, <2>2
  <1>7. ASSUME NEW u \in Threads PROVE Alone(u)'
    <2>1. /\ held' = held
          /\ \A v \in Threads : pc'[v] \in OpenPCs \cup ClosePCs
                               => pc[v] \in OpenPCs \cup ClosePCs /\ cur'[v] = cur[v]
      BY DEF DeleteFile, Goto, Return, TypeOK
    <2> QED BY <2>1 DEF Alone
  <1> QED BY <1>1, <1>2, <1>3, <1>4, <1>5, <1>6, <1>7

(* The first half is closed when no entry names it any more. *)
LEMMA CloseFastStep == ASSUME IInv, NEW t \in Threads, CloseFast(t) PROVE IInv'
  <1> USE DEF IInv, OpenPCs, UsePCs, ClosePCs
  <1>0. cur[t] \in Opens /\ FastFd(Fd(cur[t])) = fast[cur[t]]
    BY Numbers, MaxOpensAssumption DEF CloseFast, Closer, TypeOK, Opens
  <1>1. TypeOK'
    BY <1>0, Small DEF CloseFast, Goto, Return, TypeOK
  <1>2. TableOK'
    BY <1>0 DEF CloseFast, Goto, Return, TypeOK, TableOK, HeldOK, Opener, User, Closer, Whole, Fd, Opens
  <1>3. HeldOK'
    BY <1>0 DEF CloseFast, Goto, Return, TypeOK, HeldOK, Opener, User, Closer, Alone, Whole, Opens
  <1>4. ASSUME NEW u \in Threads PROVE Opener(u)'
    BY <1>0 DEF CloseFast, Goto, Return, TypeOK, TableOK, HeldOK, Opener, User, Closer, Alone, Whole, Opens
  <1>5. ASSUME NEW u \in Threads PROVE User(u)'
    BY <1>0 DEF CloseFast, Goto, Return, TypeOK, HeldOK, Opener, User, Closer, Alone, Opens, TableOK
  <1>6. ASSUME NEW u \in Threads PROVE Closer(u)'
    BY <1>0 DEF CloseFast, Goto, Return, TypeOK, TableOK, HeldOK, Opener, User, Closer, Alone, Whole, Opens
  <1>7. ASSUME NEW u \in Threads PROVE Alone(u)'
    BY <1>0 DEF CloseFast, Goto, Return, TypeOK, TableOK, HeldOK, Opener, User, Closer, Alone, Opens
  <1> QED BY <1>1, <1>2, <1>3, <1>4, <1>5, <1>6, <1>7

(* The second half is closed. *)
LEMMA CloseSlowStep == ASSUME IInv, NEW t \in Threads, CloseSlow(t) PROVE IInv'
  <1> USE DEF IInv, OpenPCs, UsePCs, ClosePCs
  <1>0. cur[t] \in Opens /\ SlowFd(Fd(cur[t])) = slow[cur[t]]
    BY Numbers, MaxOpensAssumption DEF CloseSlow, Closer, TypeOK, Opens
  <1>1. TypeOK'
    BY <1>0, Small DEF CloseSlow, Goto, Return, TypeOK
  <1>c. /\ UNCHANGED <<table, mem, held, opens, fast, slow>>
        /\ pc[t] = "closeslow" /\ pc'[t] = "idle"
        /\ \A u \in Threads \ {t} : pc'[u] = pc[u] /\ cur'[u] = cur[u] /\ ptr'[u] = ptr[u]
    BY DEF CloseSlow, Goto, Return, TypeOK
  <1>d. \A n \in Fds : kfd[n] # <<"SLOW", cur[t]>> => kfd'[n] = kfd[n]
    <2>1. slow[cur[t]] \in Fds /\ kfd[slow[cur[t]]] = <<"SLOW", cur[t]>>
      BY <1>c DEF Closer
    <2>2. kfd' = [kfd EXCEPT ![slow[cur[t]]] = None]
      BY <1>0 DEF CloseSlow
    <2> QED BY <2>1, <2>2 DEF TypeOK
  <1>e. \A o \in Opens : o # cur[t] /\ Whole(o) => Whole(o)'
    BY <1>c, <1>d DEF Whole
  <1>f. cur[t] \notin held /\ mem[cur[t]] = "freed"
    BY <1>c DEF Alone, Closer
  <1>g. \A o \in Opens : (Fd(o))' = Fd(o)
    BY <1>c DEF Fd
  <1>2. TableOK'
    <2>1. \A e \in table : e.file \in Opens /\ e.file # cur[t]
      BY <1>f DEF TypeOK, TableOK
    <2> QED BY <1>c, <1>e, <1>g, <2>1 DEF TableOK
  <1>3. HeldOK'
    BY <1>c, <1>e, <1>f DEF HeldOK, TypeOK
  <1>h. ASSUME NEW u \in Threads \ {t}, pc[u] \in OpenPCs \cup ClosePCs
        PROVE  cur[u] \in Opens /\ cur[u] # cur[t]
    <2>1. cur[u] \in Opens
      BY <1>h, MaxOpensAssumption DEF Opener, Closer, TypeOK, Opens
    <2>2. cur[u] # cur[t]
      BY <1>c, <1>h DEF Alone
    <2> QED BY <2>1, <2>2
  <1>4. ASSUME NEW u \in Threads PROVE Opener(u)'
    <2>1. CASE u = t
      BY <1>c, <2>1 DEF Opener
    <2>2. CASE u # t
      BY <1>c, <1>d, <1>h, <2>2 DEF Opener
    <2> QED BY <2>1, <2>2
  <1>5. ASSUME NEW u \in Threads PROVE User(u)'
    <2>1. CASE u = t
      BY <1>c, <2>1 DEF User
    <2>2. CASE u # t
      BY <1>c, <2>2 DEF User
    <2> QED BY <2>1, <2>2
  <1>6. ASSUME NEW u \in Threads PROVE Closer(u)'
    <2>1. CASE u = t
      BY <1>c, <2>1 DEF Closer
    <2>2. CASE u # t
      <3> SUFFICES ASSUME pc[u] \in ClosePCs PROVE Closer(u)'
        BY <1>c, <2>2 DEF Closer
      <3>1. Closer(u) /\ cur[u] \in Opens /\ cur[u] # cur[t]
        BY <1>h, <2>2
      <3>2. /\ fast'[cur[u]] = fast[cur[u]] /\ slow'[cur[u]] = slow[cur[u]]
            /\ mem'[cur[u]] = mem[cur[u]] /\ opens' = opens
            /\ pc'[u] = pc[u] /\ cur'[u] = cur[u] /\ ptr'[u] = ptr[u]
        BY <1>c, <2>2
      <3>3. pc[u] # "closeslow" => Whole(cur[u])'
        BY <1>e, <3>1, <3>2 DEF Closer
      <3>4. pc[u] = "closeslow" => kfd'[slow[cur[u]]] = <<"SLOW", cur[u]>>
        BY <1>d, <3>1 DEF Closer
      <3> QED BY <3>1, <3>2, <3>3, <3>4 DEF Closer
    <2> QED BY <2>1, <2>2
  <1>7. ASSUME NEW u \in Threads PROVE Alone(u)'
    BY <1>c DEF Alone
  <1> QED BY <1>1, <1>2, <1>3, <1>4, <1>5, <1>6, <1>7

-----------------------------------------------------------------------------
(* Every step of every thread keeps the invariant. *)
LEMMA NextInv == IInv /\ [Next]_vars => IInv'
  <1> SUFFICES ASSUME IInv, [Next]_vars PROVE IInv'
    OBVIOUS
  <1>1. CASE UNCHANGED vars
    BY <1>1 DEF vars, IInv, TypeOK, TableOK, HeldOK, Opener, User, Closer, Alone,
        Whole, Fd
  <1>2. ASSUME NEW t \in Threads, Opening(t) PROVE IInv'
    BY <1>2, OpenStep, OpenFastStep, OpenSlowStep, GetInodeStep, CreateFileStep DEF Opening
  <1>3. ASSUME NEW t \in Threads, Using(t) PROVE IInv'
    BY <1>3, UseStep, FindFileStep, FinishStep DEF Using
  <1>4. ASSUME NEW t \in Threads, Closing(t) PROVE IInv'
    BY <1>4, CloseStep, CloseFindStep, DeleteFileStep, CloseFastStep, CloseSlowStep DEF Closing
  <1> QED BY <1>1, <1>2, <1>3, <1>4 DEF Next

(* The inductive invariant holds in every reachable state. *)
LEMMA Invariant == Spec => []IInv
  BY InitInv, NextInv, PTL DEF Spec

(* Numbers, table entries and thread states stay in their ranges. *)
THEOREM TypeCorrect == Spec => []TypeOK
  <1>1. IInv => TypeOK
    BY DEF IInv
  <1> QED BY <1>1, Invariant, PTL

(* A lookup in poly_file_hashmap returns the poly-file of the descriptor's *)
(* own open, still allocated, and never that of another open that had the  *)
(* same number.                                                            *)
THEOREM LookupCorrect == Spec => []FindsOwnFile
  BY Invariant, Consequences, PTL

(* The two kernel descriptors in a PolyStore descriptor belong to its own  *)
(* open until its own close.                                               *)
THEOREM DescriptorCorrect == Spec => []RightFiles
  BY Invariant, Consequences, PTL
=============================================================================
