---------------------------- MODULE TwoDirsProofs ----------------------------
(***************************************************************************)
(* Proofs, for every tree of paths and any number of threads, that the two *)
(* devices hold the same tree but for calls between their halves, and that *)
(* no call is left with one half done: it succeeds on the slow device, or  *)
(* is an unlink of a path that both devices have lost.                     *)
(***************************************************************************)
EXTENDS TwoDirs, TLAPS

-----------------------------------------------------------------------------
(* The inductive invariant. *)

Makers   == {"mkdir", "creat", "rename"}
Removers == {"rmdir", "unlink", "rename"}

(* A call in progress is one of the operations, on existing names. *)
InCall ==
    \A t \in Threads : pc[t] # "idle" =>
        /\ op[t] \in Ops /\ src[t] \in Paths /\ dst[t] \in Paths
        /\ op[t] # "rename" => dst[t] = src[t]

(* MayOverlap, as the proofs use it: two calls in progress touch different *)
(* paths, are the same call, or exclude each other on the fast device.     *)
Apart(t, u) ==
    /\ src[t] # src[u] /\ src[t] # dst[u] /\ dst[t] # src[u] /\ dst[t] # dst[u]
Alike(t, u) == op[t] = op[u] /\ src[t] = src[u] /\ dst[t] = dst[u]
Rivals(t, u) ==
    /\ src[t] = src[u]
    /\ \/ op[t] = "mkdir" /\ op[u] = "creat"
       \/ op[t] = "creat" /\ op[u] = "mkdir"
       \/ op[t] = "rmdir" /\ op[u] = "unlink"
       \/ op[t] = "unlink" /\ op[u] = "rmdir"
Unnested(t, u) ==
    /\ op[u] = "mkdir" /\ op[t] \in Makers => ParentOf[dst[t]] # src[u]
    /\ op[u] = "rmdir" /\ op[t] \in Removers => ParentOf[src[t]] # src[u]
Compatible(t, u) ==
    /\ Apart(t, u) \/ Alike(t, u) \/ Rivals(t, u)
    /\ Unnested(t, u)
Discipline ==
    \A t, u \in Threads :
        t # u /\ pc[t] # "idle" /\ pc[u] # "idle" => Compatible(t, u)

(* A device's tree has no entry outside a directory. *)
Tree(tree) == \A p \in Paths : tree[p] # "absent" => IsDir(tree, ParentOf[p])

(* What a call between its halves finds at its paths. *)
PendingAt(o, p, q) ==
    /\ o = "mkdir" => fast[p] = "dir" /\ slow[p] = "absent"
    /\ o = "rmdir" => fast[p] = "absent" /\ slow[p] = "dir"
    /\ o = "creat" => /\ fast[p] \in Paths
                      /\ slow[p] = fast[p] \/ (slow[p] = "absent" /\ fast[p] = p)
    /\ o = "rename" => /\ fast[q] \in Paths /\ slow[p] = fast[q]
                       /\ slow[q] # "dir" /\ (p # q => fast[p] = "absent")
    /\ o = "unlink" => fast[p] \notin Paths /\ (fast[p] = "dir" => slow[p] = "dir")
    /\ o = "stat" => fast[p] # "absent" /\ slow[p] = fast[p]
Pending == \A t \in Threads : pc[t] = "slow" => PendingAt(op[t], src[t], dst[t])

(* Of two like calls that change the slow device, one is past the fast one. *)
Unique ==
    \A t, u \in Threads : pc[t] = "slow" /\ pc[u] = "slow" /\ t # u /\ Alike(t, u) =>
        \/ op[t] \in {"creat", "unlink", "stat"}
        \/ op[t] = "rename" /\ src[t] = dst[t]

(* A difference between the devices has its call; only an rmdir leaves a   *)
(* directory behind.                                                       *)
Explains(t, p) ==
    /\ pc[t] = "slow" /\ p \in {src[t], dst[t]}
    /\ slow[p] = "dir" => op[t] = "rmdir"
Explained == \A p \in Paths : fast[p] # slow[p] => \E t \in Threads : Explains(t, p)

IInv ==
    /\ TypeOK /\ InCall /\ Discipline
    /\ Tree(fast) /\ Tree(slow)
    /\ Pending /\ Unique /\ Explained

-----------------------------------------------------------------------------
(* One device. *)

(* What a system call that succeeds does to the tree. *)
LEMMA AfterFacts ==
    ASSUME NEW tree \in [Paths -> Kinds], NEW o \in Ops, NEW p \in Paths, NEW q \in Paths,
           o # "rename" => q = p, Succeeds(tree, o, p, q), NEW new, new = After(tree, o, p, q)
    PROVE  /\ new \in [Paths -> Kinds]
           /\ \A x \in Paths : x # p /\ x # q => new[x] = tree[x]
           /\ o = "mkdir" => tree[p] = "absent" /\ new[p] = "dir"
           /\ o = "rmdir" => tree[p] = "dir" /\ new[p] = "absent"
           /\ o = "creat" => /\ tree[p] # "dir" /\ new[p] \in Paths
                             /\ tree[p] \in Paths => new[p] = tree[p]
                             /\ tree[p] = "absent" => new[p] = p
           /\ o = "rename" => /\ tree[p] \in Paths /\ tree[q] # "dir" /\ new[q] = tree[p]
                              /\ p # q => new[p] = "absent"
           /\ o = "unlink" => tree[p] \in Paths /\ new[p] = "absent"
           /\ o = "stat" => new = tree /\ tree[p] # "absent"
  <1> USE DEF Kinds
  <1>1. CASE o = "mkdir"
    <2>1. tree[p] = "absent" /\ new = [tree EXCEPT ![p] = "dir"]
      BY <1>1 DEF Succeeds, After
    <2> QED BY <1>1, <2>1
  <1>2. CASE o = "rmdir"
    <2>1. tree[p] = "dir" /\ new = [tree EXCEPT ![p] = "absent"]
      BY <1>2 DEF Succeeds, After
    <2> QED BY <1>2, <2>1
  <1>3. CASE o = "creat"
    <2>1. tree[p] # "dir" /\ new = [tree EXCEPT ![p] = IF IsFile(tree, p) THEN tree[p] ELSE p]
      BY <1>3 DEF Succeeds, After
    <2>2. "absent" \notin Paths
      BY KindAssumption
    <2> QED BY <1>3, <2>1, <2>2 DEF IsFile
  <1>4. CASE o = "rename"
    <2>1. /\ tree[p] \in Paths /\ tree[q] # "dir"
          /\ new = [tree EXCEPT ![p] = "absent", ![q] = tree[p]]
      BY <1>4 DEF Succeeds, After, IsFile
    <2> QED BY <1>4, <2>1
  <1>5. CASE o = "unlink"
    <2>1. tree[p] \in Paths /\ new = [tree EXCEPT ![p] = "absent"]
      BY <1>5 DEF Succeeds, After, IsFile
    <2> QED BY <1>5, <2>1
  <1>6. CASE o = "stat"
    <2>1. tree[p] # "absent" /\ new = tree
      BY <1>6 DEF Succeeds, After
    <2> QED BY <1>6, <2>1
  <1> QED BY <1>1, <1>2, <1>3, <1>4, <1>5, <1>6 DEF Ops

(* Where a call puts something, there is a directory for it; what it takes *)
(* away has nothing in it.                                                 *)
LEMMA Where ==
    ASSUME NEW tree, NEW o \in Ops, NEW p, NEW q,
           o # "rename" => q = p, Succeeds(tree, o, p, q)
    PROVE  /\ o \in Makers => IsDir(tree, ParentOf[q])
           /\ o = "rmdir" => IsEmpty(tree, p)
  <1>1. CASE o = "mkdir"
    BY <1>1 DEF Succeeds
  <1>2. CASE o = "rmdir"
    BY <1>2 DEF Succeeds, Makers
  <1>3. CASE o = "creat"
    BY <1>3 DEF Succeeds
  <1>4. CASE o = "rename"
    BY <1>4 DEF Succeeds
  <1>5. CASE o = "unlink" \/ o = "stat"
    BY <1>5 DEF Makers
  <1> QED BY <1>1, <1>2, <1>3, <1>4, <1>5 DEF Ops

(* A file system keeps its entries inside directories. *)
LEMMA TreeKept ==
    ASSUME NEW tree \in [Paths -> Kinds], NEW o \in Ops, NEW p \in Paths, NEW q \in Paths,
           o # "rename" => q = p, Succeeds(tree, o, p, q), Tree(tree),
           NEW new, new = After(tree, o, p, q)
    PROVE  Tree(new)
  <1> DEFINE Facts ==
           /\ new \in [Paths -> Kinds]
           /\ \A x \in Paths : x # p /\ x # q => new[x] = tree[x]
           /\ o = "mkdir" => tree[p] = "absent" /\ new[p] = "dir"
           /\ o = "rmdir" => tree[p] = "dir" /\ new[p] = "absent"
           /\ o = "creat" => /\ tree[p] # "dir" /\ new[p] \in Paths
                             /\ tree[p] \in Paths => new[p] = tree[p]
                             /\ tree[p] = "absent" => new[p] = p
           /\ o = "rename" => /\ tree[p] \in Paths /\ tree[q] # "dir" /\ new[q] = tree[p]
                              /\ p # q => new[p] = "absent"
           /\ o = "unlink" => tree[p] \in Paths /\ new[p] = "absent"
           /\ o = "stat" => new = tree /\ tree[p] # "absent"
  <1>1. Facts
    BY AfterFacts
  <1>2. "dir" \notin Paths /\ "absent" \notin Paths
    BY KindAssumption
  <1>3. /\ o \in Makers => IsDir(tree, ParentOf[q])
        /\ o = "rmdir" => IsEmpty(tree, p)
    BY Where
  <1>4. \A x \in Paths : ParentOf[x] \in Paths \/ ParentOf[x] = Root
    BY ParentAssumption
  <1>5. \A x \in Paths : tree[x] # "absent" /\ ParentOf[x] # Root =>
            tree[ParentOf[x]] = "dir"
    BY DEF Tree, IsDir
  <1>6. SUFFICES ASSUME NEW x \in Paths, new[x] # "absent", ParentOf[x] # Root
                 PROVE  new[ParentOf[x]] = "dir"
    BY DEF Tree, IsDir
  <1>7. ParentOf[x] \in Paths
    BY <1>4, <1>6
  <1>8. CASE o = "mkdir"
    BY <1>1, <1>2, <1>3, <1>5, <1>6, <1>7, <1>8 DEF Makers, IsDir
  <1>9. CASE o = "rmdir"
    BY <1>1, <1>2, <1>3, <1>5, <1>6, <1>7, <1>9 DEF IsEmpty
  <1>10. CASE o = "creat"
    BY <1>1, <1>2, <1>3, <1>5, <1>6, <1>7, <1>10 DEF Makers, IsDir
  <1>11. CASE o = "rename"
    <2>1. IsDir(tree, ParentOf[q])
      BY <1>3, <1>11 DEF Makers
    <2>2. \A y \in Paths : tree[y] = "dir" => y # p /\ y # q /\ new[y] = "dir"
      BY <1>1, <1>2, <1>11
    <2> QED BY <1>1, <1>2, <1>5, <1>6, <1>7, <1>11, <2>1, <2>2 DEF IsDir
  <1>12. CASE o = "unlink"
    BY <1>1, <1>2, <1>5, <1>6, <1>7, <1>12
  <1>13. CASE o = "stat"
    BY <1>1, <1>5, <1>6, <1>7, <1>13
  <1> QED BY <1>8, <1>9, <1>10, <1>11, <1>12, <1>13 DEF Ops

-----------------------------------------------------------------------------
(* Both devices. *)

(* The state of the thread that takes a step, and of any other. *)
LEMMA ThreadFacts ==
    ASSUME IInv, NEW t \in Threads, pc[t] # "idle"
    PROVE  /\ op[t] \in Ops /\ src[t] \in Paths /\ dst[t] \in Paths
           /\ op[t] # "rename" => dst[t] = src[t]
           /\ fast \in [Paths -> Kinds] /\ slow \in [Paths -> Kinds]
           /\ pc[t] = "slow" => PendingAt(op[t], src[t], dst[t])
           /\ \A u \in Threads : u # t /\ pc[u] # "idle" => Compatible(t, u) /\ Compatible(u, t)
  BY DEF IInv, InCall, TypeOK, Pending, Discipline

(* A difference at a path is that of another call on this path. *)
LEMMA Differs ==
    ASSUME IInv, NEW x \in Paths, fast[x] # slow[x]
    PROVE  \E u \in Threads : /\ pc[u] = "slow" /\ x \in {src[u], dst[u]}
                              /\ slow[x] = "dir" => op[u] = "rmdir"
                              /\ PendingAt(op[u], src[u], dst[u])
  BY DEF IInv, Explained, Explains, Pending

(* What is a directory on the fast device, and not being made, is one on   *)
(* the slow device.                                                        *)
LEMMA DirMirrored ==
    ASSUME IInv, NEW x \in Paths, fast[x] = "dir",
           \A u \in Threads : pc[u] = "slow" /\ op[u] = "mkdir" => src[u] # x
    PROVE  slow[x] = "dir"
  <1>0. SUFFICES ASSUME slow[x] # "dir" PROVE FALSE
    OBVIOUS
  <1>1. PICK u \in Threads : /\ pc[u] = "slow" /\ x \in {src[u], dst[u]}
                             /\ PendingAt(op[u], src[u], dst[u])
    BY <1>0, Differs
  <1>2. op[u] \in Ops /\ (op[u] # "rename" => dst[u] = src[u])
    BY <1>1, ThreadFacts
  <1> QED BY <1>0, <1>1, <1>2, KindAssumption DEF PendingAt, Ops

(* What does not exist on the fast device, and is not being removed, does  *)
(* not exist on the slow device.                                           *)
LEMMA AbsentMirrored ==
    ASSUME IInv, NEW x \in Paths, fast[x] = "absent",
           \A u \in Threads : pc[u] = "slow" /\ op[u] \in Removers => src[u] # x
    PROVE  slow[x] = "absent"
  <1>0. SUFFICES ASSUME slow[x] # "absent" PROVE FALSE
    OBVIOUS
  <1>1. PICK u \in Threads : /\ pc[u] = "slow" /\ x \in {src[u], dst[u]}
                             /\ PendingAt(op[u], src[u], dst[u])
    BY <1>0, Differs
  <1>2. op[u] \in Ops /\ (op[u] # "rename" => dst[u] = src[u])
    BY <1>1, ThreadFacts
  <1> QED BY <1>0, <1>1, <1>2, KindAssumption DEF PendingAt, Ops, Removers

(* The second half of a call succeeds. *)
LEMMA SlowSucceeds ==
    ASSUME IInv, NEW t \in Threads, pc[t] = "slow", op[t] # "unlink"
    PROVE  SlowOk(t)
  <1>1. /\ op[t] \in Ops /\ src[t] \in Paths /\ dst[t] \in Paths
        /\ op[t] # "rename" => dst[t] = src[t]
        /\ PendingAt(op[t], src[t], dst[t])
    BY ThreadFacts
  <1>2. "dir" \notin Paths /\ "absent" \notin Paths /\ Root \notin Paths
    BY KindAssumption, RootAssumption
  <1>3. ASSUME op[t] \in Makers PROVE IsDir(slow, ParentOf[dst[t]])
    <2>1. fast[dst[t]] # "absent"
      BY <1>1, <1>2, <1>3 DEF PendingAt, Makers
    <2>2. IsDir(fast, ParentOf[dst[t]])
      BY <1>1, <2>1 DEF IInv, Tree
    <2>3. CASE ParentOf[dst[t]] = Root
      BY <2>3 DEF IsDir
    <2>4. CASE ParentOf[dst[t]] # Root
      <3>1. ParentOf[dst[t]] \in Paths /\ fast[ParentOf[dst[t]]] = "dir"
        BY <1>1, <2>2, <2>4, ParentAssumption DEF IsDir
      <3>2. ASSUME NEW u \in Threads, pc[u] = "slow", op[u] = "mkdir"
            PROVE  src[u] # ParentOf[dst[t]]
        <4>1. CASE u = t
          BY <1>1, <3>2, <4>1, ParentAssumption
        <4>2. CASE u # t
          <5>1. Compatible(t, u)
            BY <3>2, <4>2, ThreadFacts
          <5> QED BY <1>3, <3>2, <5>1 DEF Compatible, Unnested
        <4> QED BY <4>1, <4>2
      <3>3. slow[ParentOf[dst[t]]] = "dir"
        BY <3>1, <3>2, DirMirrored
      <3> QED BY <3>3 DEF IsDir
    <2> QED BY <2>3, <2>4
  <1>4. ASSUME op[t] = "rmdir" PROVE IsEmpty(slow, src[t])
    <2>1. SUFFICES ASSUME NEW c \in Paths, ParentOf[c] = src[t]
                   PROVE  slow[c] = "absent"
      BY DEF IsEmpty
    <2>2. fast[src[t]] = "absent"
      BY <1>1, <1>4 DEF PendingAt
    <2>3. fast[c] = "absent"
      BY <1>1, <1>2, <2>1, <2>2 DEF IInv, Tree, IsDir
    <2>4. ASSUME NEW u \in Threads, pc[u] = "slow", op[u] \in Removers
          PROVE  src[u] # c
      <3>1. CASE u = t
        BY <2>1, <3>1, ParentAssumption
      <3>2. CASE u # t
        <4>1. Compatible(u, t)
          BY <2>4, <3>2, ThreadFacts
        <4> QED BY <1>4, <2>1, <2>4, <4>1 DEF Compatible, Unnested
      <3> QED BY <3>1, <3>2
    <2> QED BY <2>3, <2>4, AbsentMirrored
  <1> QED BY <1>1, <1>2, <1>3, <1>4 DEF SlowOk, Succeeds, PendingAt, Makers, Ops, IsFile

-----------------------------------------------------------------------------
(* The steps. *)

(* A thread other than the one that steps keeps its call. *)
Others(t) ==
    \A u \in Threads : u # t => /\ pc'[u] = pc[u] /\ op'[u] = op[u]
                              /\ src'[u] = src[u] /\ dst'[u] = dst[u]

Fits(o, p, q, o2, p2, q2) ==
    /\ \/ p # p2 /\ p # q2 /\ q # p2 /\ q # q2
       \/ o = o2 /\ p = p2 /\ q = q2
       \/ p = p2 /\ o = "mkdir" /\ o2 = "creat"
       \/ p = p2 /\ o = "creat" /\ o2 = "mkdir"
       \/ p = p2 /\ o = "rmdir" /\ o2 = "unlink"
       \/ p = p2 /\ o = "unlink" /\ o2 = "rmdir"
    /\ o2 = "mkdir" /\ o \in Makers => ParentOf[q] # p2
    /\ o = "mkdir" /\ o2 \in Makers => ParentOf[q2] # p
    /\ o2 = "rmdir" /\ o \in Removers => ParentOf[p] # p2
    /\ o = "rmdir" /\ o2 \in Removers => ParentOf[p2] # p

(* A new call respects the calls in progress. *)
LEMMA OverlapFacts ==
    ASSUME NEW o \in Ops, NEW p \in Paths, NEW q \in Paths,
           NEW o2 \in Ops, NEW p2 \in Paths, NEW q2 \in Paths,
           o # "rename" => q = p, o2 # "rename" => q2 = p2,
           MayOverlap(o, p, q, o2, p2, q2)
    PROVE  Fits(o, p, q, o2, p2, q2)
  <1>1. /\ ~ Same(o, p, q, o2, p2, q2)
        /\ ~ Nested(o, p, q, o2, p2, q2) /\ ~ Nested(o2, p2, q2, o, p, q)
    BY DEF MayOverlap
  <1>2. ASSUME NEW a, NEW b, NEW c, NEW d, {a, b} = {c, d}
        PROVE  (a = c /\ b = d) \/ (a = d /\ b = c)
    BY <1>2
  <1>3. {o, o2} \in {{"mkdir", "creat"}, {"rmdir", "unlink"}} =>
            \/ o = "mkdir" /\ o2 = "creat"
            \/ o = "creat" /\ o2 = "mkdir"
            \/ o = "rmdir" /\ o2 = "unlink"
            \/ o = "unlink" /\ o2 = "rmdir"
    BY <1>2
  <1>4. Touches(o, p, q) \cap Touches(o2, p2, q2) = {} =>
            p # p2 /\ p # q2 /\ q # p2 /\ q # q2
    BY DEF Touches
  <1>5. \/ p # p2 /\ p # q2 /\ q # p2 /\ q # q2
        \/ o = o2 /\ p = p2 /\ q = q2
        \/ o = "mkdir" /\ o2 = "creat"
        \/ o = "creat" /\ o2 = "mkdir"
        \/ o = "rmdir" /\ o2 = "unlink"
        \/ o = "unlink" /\ o2 = "rmdir"
    BY <1>1, <1>3, <1>4 DEF Same
  <1>6. /\ o \in Makers => q \in Makes(o, p, q)
        /\ o2 \in Makers => q2 \in Makes(o2, p2, q2)
        /\ o \in Removers => p \in Removes(o, p, q)
        /\ o2 \in Removers => p2 \in Removes(o2, p2, q2)
    BY DEF Makers, Removers, Makes, Removes
  <1>7. /\ o2 = "mkdir" /\ o \in Makers => ParentOf[q] # p2
        /\ o = "mkdir" /\ o2 \in Makers => ParentOf[q2] # p
        /\ o2 = "rmdir" /\ o \in Removers => ParentOf[p] # p2
        /\ o = "rmdir" /\ o2 \in Removers => ParentOf[p2] # p
    BY <1>1, <1>6 DEF Nested, Under
  <1>8. p = p2 \/ (p # p2 /\ p # q2 /\ q # p2 /\ q # q2) \/ o = "rename" \/ o2 = "rename"
    OBVIOUS
  <1> QED BY <1>5, <1>7, <1>8 DEF Fits

(* A thread that starts a call. *)
LEMMA CallHolds ==
    ASSUME IInv, NEW t \in Threads, NEW o \in Ops, NEW p \in Paths, NEW q \in Paths,
           o # "rename" => q = p, Call(t, o, p, q)
    PROVE  IInv'
  <1>1. /\ pc[t] = "idle" /\ pc'[t] = "fast" /\ op'[t] = o /\ src'[t] = p /\ dst'[t] = q
        /\ UNCHANGED <<fast, slow>> /\ Others(t)
    BY DEF Call, IInv, TypeOK, Others
  <1>2. TypeOK'
    BY DEF Call, IInv, TypeOK
  <1>3. InCall'
    BY <1>1 DEF IInv, InCall, Others
  <1>4. ASSUME NEW u \in Threads, u # t, pc[u] # "idle"
        PROVE  Compatible(t, u)' /\ Compatible(u, t)'
    <2>1. PICK o2 \in Ops, p2 \in Paths, q2 \in Paths :
              o2 = op[u] /\ p2 = src[u] /\ q2 = dst[u] /\ (o2 # "rename" => q2 = p2)
      BY <1>4, ThreadFacts
    <2>2. MayOverlap(o, p, q, o2, p2, q2)
      BY <1>4, <2>1 DEF Call
    <2>3. Fits(o, p, q, o2, p2, q2)
      BY <2>1, <2>2, OverlapFacts
    <2>4. op'[u] = o2 /\ src'[u] = p2 /\ dst'[u] = q2
      BY <1>1, <1>4, <2>1 DEF Others
    <2> QED BY <1>1, <2>3, <2>4 DEF Fits, Compatible, Apart, Alike, Rivals, Unnested
  <1>5. Discipline'
    <2>1. ASSUME NEW u \in Threads, NEW v \in Threads, u # v, pc'[u] # "idle", pc'[v] # "idle"
          PROVE  Compatible(u, v)'
      <3>1. CASE u # t /\ v # t
        BY <1>1, <2>1, <3>1 DEF IInv, Discipline, Others, Compatible, Apart, Alike, Rivals, Unnested
      <3>2. CASE u = t \/ v = t
        BY <1>1, <1>4, <2>1, <3>2 DEF Others
      <3> QED BY <3>1, <3>2
    <2> QED BY <2>1 DEF Discipline
  <1>6. Tree(fast)' /\ Tree(slow)'
    BY <1>1 DEF IInv, Tree, IsDir
  <1>7. Pending'
    BY <1>1 DEF IInv, Pending, PendingAt, Others
  <1>8. Unique'
    BY <1>1 DEF IInv, Unique, Alike, Others
  <1>9. Explained'
    <2>1. ASSUME NEW x \in Paths, NEW u \in Threads, Explains(u, x)
          PROVE  Explains(u, x)'
      BY <1>1, <2>1 DEF Explains, Others
    <2> QED BY <1>1, <2>1 DEF IInv, Explained
  <1> QED BY <1>2, <1>3, <1>5, <1>6, <1>7, <1>8, <1>9 DEF IInv

(* The fast half of a call that succeeds. *)
LEMMA FastDoneHolds ==
    ASSUME IInv, NEW t \in Threads, FastDone(t)
    PROVE  IInv'
  <1>0. /\ pc[t] = "fast" /\ pc'[t] = "slow" /\ UNCHANGED <<slow, op, src, dst>>
        /\ Succeeds(fast, op[t], src[t], dst[t])
        /\ fast' = After(fast, op[t], src[t], dst[t])
        /\ Others(t)
    BY DEF FastDone, FastOk, IInv, TypeOK, Others
  <1>1. PICK o \in Ops, p \in Paths, q \in Paths :
            o = op[t] /\ p = src[t] /\ q = dst[t] /\ (o # "rename" => q = p)
    BY <1>0, ThreadFacts
  <1>2. fast \in [Paths -> Kinds] /\ slow \in [Paths -> Kinds]
    BY DEF IInv, TypeOK
  <1>3. Succeeds(fast, o, p, q) /\ fast' = After(fast, o, p, q)
    BY <1>0, <1>1
  <1>4. /\ fast' \in [Paths -> Kinds]
        /\ \A x \in Paths : x # p /\ x # q => fast'[x] = fast[x]
        /\ o = "mkdir" => fast[p] = "absent" /\ fast'[p] = "dir"
        /\ o = "rmdir" => fast[p] = "dir" /\ fast'[p] = "absent"
        /\ o = "creat" => /\ fast[p] # "dir" /\ fast'[p] \in Paths
                          /\ fast[p] \in Paths => fast'[p] = fast[p]
                          /\ fast[p] = "absent" => fast'[p] = p
        /\ o = "rename" => /\ fast[p] \in Paths /\ fast[q] # "dir" /\ fast'[q] = fast[p]
                           /\ p # q => fast'[p] = "absent"
        /\ o = "unlink" => fast[p] \in Paths /\ fast'[p] = "absent"
        /\ o = "stat" => fast' = fast /\ fast[p] # "absent"
    BY <1>1, <1>2, <1>3, AfterFacts
  <1>5. "dir" \notin Paths /\ "absent" \notin Paths
    BY KindAssumption
  <1>6. ASSUME NEW u \in Threads, u # t, pc[u] = "slow"
        PROVE  /\ op[u] \in Ops /\ src[u] \in Paths /\ dst[u] \in Paths
               /\ op[u] # "rename" => dst[u] = src[u]
               /\ PendingAt(op[u], src[u], dst[u])
               /\ Apart(t, u) \/ Alike(t, u) \/ Rivals(t, u)
    BY <1>0, <1>6, ThreadFacts DEF Compatible
  <1>7. ASSUME NEW u \in Threads, u # t, pc[u] = "slow"
        PROVE  /\ PendingAt(op[u], src[u], dst[u])'
               /\ Alike(t, u) => \/ o \in {"creat", "stat"}
                                 \/ o = "rename" /\ p = q
    <2>1. op'[u] = op[u] /\ src'[u] = src[u] /\ dst'[u] = dst[u]
      BY <1>0
    <2>2. CASE Apart(t, u)
      <3>1. fast'[src[u]] = fast[src[u]] /\ fast'[dst[u]] = fast[dst[u]]
        BY <1>1, <1>4, <1>6, <1>7, <2>2 DEF Apart
      <3>2. ~ Alike(t, u)
        BY <2>2 DEF Apart, Alike
      <3> QED BY <1>0, <1>6, <1>7, <2>1, <3>1, <3>2 DEF PendingAt
    <2>3. CASE Alike(t, u)
      <3>1. op[u] = o /\ src[u] = p /\ dst[u] = q /\ PendingAt(o, p, q)
        BY <1>1, <1>6, <1>7, <2>3 DEF Alike
      <3>2. o \in {"creat", "stat"} \/ (o = "rename" /\ p = q)
        BY <1>4, <1>5, <3>1 DEF PendingAt, Ops
      <3>3. fast'[p] = fast[p] /\ fast'[q] = fast[q]
        BY <1>1, <1>4, <3>1, <3>2 DEF PendingAt
      <3> QED BY <1>0, <2>1, <3>1, <3>2, <3>3 DEF PendingAt
    <2>4. CASE Rivals(t, u)
      <3>1. /\ src[u] = p /\ PendingAt(op[u], p, dst[u])
            /\ \/ o = "mkdir" /\ op[u] = "creat"
               \/ o = "creat" /\ op[u] = "mkdir"
               \/ o = "rmdir" /\ op[u] = "unlink"
               \/ o = "unlink" /\ op[u] = "rmdir"
        BY <1>1, <1>6, <1>7, <2>4 DEF Rivals
      <3>2. o = "rmdir" /\ op[u] = "unlink"
        BY <1>4, <1>5, <3>1 DEF PendingAt
      <3>3. ~ Alike(t, u)
        BY <1>1, <3>2 DEF Alike
      <3> QED BY <1>0, <1>4, <1>5, <2>1, <3>1, <3>2, <3>3 DEF PendingAt
    <2> QED BY <1>6, <1>7, <2>2, <2>3, <2>4
  <1>8. ASSUME NEW x \in {p, q}, fast[x] # slow[x]
        PROVE  \/ o = "creat" /\ slow[x] = "absent" /\ fast[x] = x
    <2>1. PICK u \in Threads : pc[u] = "slow" /\ x \in {src[u], dst[u]}
      BY <1>8, Differs
    <2>2. u # t /\ ~ Apart(t, u)
      BY <1>0, <1>1, <2>1 DEF Apart
    <2>3. CASE Alike(t, u)
      <3>1. PendingAt(o, p, q)
        BY <1>1, <1>6, <2>1, <2>2, <2>3 DEF Alike
      <3> QED BY <1>1, <1>4, <1>5, <1>8, <3>1 DEF PendingAt, Ops
    <2>4. CASE Rivals(t, u)
      <3>1. /\ PendingAt(op[u], p, dst[u]) /\ p = q
            /\ \/ o = "mkdir" /\ op[u] = "creat"
               \/ o = "creat" /\ op[u] = "mkdir"
               \/ o = "rmdir" /\ op[u] = "unlink"
               \/ o = "unlink" /\ op[u] = "rmdir"
        BY <1>1, <1>6, <2>1, <2>2, <2>4 DEF Rivals
      <3> QED BY <1>4, <1>5, <1>8, <3>1 DEF PendingAt
    <2> QED BY <1>6, <2>1, <2>2, <2>3, <2>4
  <1>9. PendingAt(op[t], src[t], dst[t])'
    <2>1. op'[t] = o /\ src'[t] = p /\ dst'[t] = q /\ slow' = slow
      BY <1>0, <1>1
    <2>2. o # "creat" => fast[p] = slow[p] /\ fast[q] = slow[q]
      BY <1>8
    <2>3. o = "creat" => \/ fast[p] = slow[p]
                         \/ slow[p] = "absent" /\ fast[p] = p
      BY <1>8
    <2>4. fast[p] \in Paths \/ fast[p] = "absent" \/ fast[p] = "dir"
      BY <1>2 DEF Kinds
    <2> QED BY <1>1, <1>4, <1>5, <2>1, <2>2, <2>3, <2>4 DEF PendingAt
  <1>10. Pending'
    BY <1>0, <1>7, <1>9 DEF Pending, Others
  <1>11. Unique'
    BY <1>0, <1>1, <1>7 DEF IInv, Unique, Alike, Others
  <1>12. ASSUME NEW x \in Paths, fast'[x] # slow'[x]
         PROVE  \E u \in Threads : Explains(u, x)'
    <2>1. CASE x \in {p, q}
      <3>1. slow[x] = "dir" => o = "rmdir"
        <4>1. o # "unlink" \/ slow[x] # "dir"
          BY <1>1, <1>4, <1>5, <1>8, <2>1
        <4> QED BY <1>0, <1>1, <1>5, <1>9, <1>12, <2>1, <4>1 DEF PendingAt, Ops
      <3>2. Explains(t, x)'
        BY <1>0, <1>1, <2>1, <3>1 DEF Explains
      <3> QED BY <3>2
    <2>2. CASE x \notin {p, q}
      <3>1. fast[x] # slow[x]
        BY <1>0, <1>4, <1>12, <2>2
      <3>2. PICK u \in Threads : Explains(u, x)
        BY <3>1 DEF IInv, Explained
      <3>3. Explains(u, x)'
        BY <1>0, <3>2 DEF Explains, Others
      <3> QED BY <3>3
    <2> QED BY <2>1, <2>2
  <1>13. Explained'
    BY <1>12 DEF Explained
  <1>14. TypeOK'
    BY <1>4 DEF FastDone, IInv, TypeOK
  <1>15. InCall' /\ Discipline'
    BY <1>0 DEF IInv, InCall, Discipline, Others, Compatible, Apart, Alike, Rivals, Unnested
  <1>16. Tree(fast)' /\ Tree(slow)'
    <2>1. Tree(fast')
      BY <1>1, <1>2, <1>3, TreeKept DEF IInv
    <2> QED BY <1>0, <2>1 DEF IInv, Tree, IsDir
  <1> QED BY <1>10, <1>11, <1>13, <1>14, <1>15, <1>16 DEF IInv

(* The fast half of a call that fails. *)
LEMMA FastFailsHolds ==
    ASSUME IInv, NEW t \in Threads, FastFails(t)
    PROVE  IInv'
  <1>0. pc[t] = "fast" /\ UNCHANGED <<fast, slow>> /\ Others(t)
    BY DEF FastFails, Return, IInv, TypeOK, Others
  <1>1. TypeOK'
    BY DEF FastFails, Return, IInv, TypeOK, Ops
  <1>2. Tree(fast)' /\ Tree(slow)'
    BY <1>0 DEF IInv, Tree, IsDir
  <1>3. ASSUME NEW x \in Paths, NEW u \in Threads, Explains(u, x)
        PROVE  Explains(u, x)'
    BY <1>0, <1>3 DEF Explains, Others
  <1>4. Explained'
    BY <1>0, <1>3 DEF IInv, Explained
  <1>5. CASE op[t] # "unlink"
    <2>1. pc'[t] = "idle"
      BY <1>5 DEF FastFails, Return, IInv, TypeOK
    <2>2. InCall' /\ Discipline'
      BY <1>0, <2>1 DEF IInv, InCall, Discipline, Others, Compatible, Apart, Alike, Rivals,
                        Unnested
    <2>3. Pending' /\ Unique'
      BY <1>0, <2>1 DEF IInv, Pending, PendingAt, Unique, Alike, Others
    <2> QED BY <1>1, <1>2, <1>4, <2>2, <2>3 DEF IInv
  <1>6. CASE op[t] = "unlink"
    <2>1. pc'[t] = "slow" /\ UNCHANGED <<op, src, dst>> /\ ~ FastOk(t)
      BY <1>6 DEF FastFails, Return, IInv, TypeOK
    <2>2. InCall' /\ Discipline'
      BY <1>0, <2>1 DEF IInv, InCall, Discipline, Others, Compatible, Apart, Alike, Rivals,
                        Unnested
    <2>3. src[t] \in Paths
      BY <1>0, ThreadFacts
    <2>4. fast[src[t]] \notin Paths
      BY <1>6, <2>1 DEF FastOk, Succeeds, IsFile
    <2>5. ASSUME fast[src[t]] = "dir" PROVE slow[src[t]] = "dir"
      <3>1. ASSUME NEW u \in Threads, pc[u] = "slow", op[u] = "mkdir"
            PROVE  src[u] # src[t]
        BY <1>0, <1>6, <3>1, ThreadFacts DEF Compatible, Apart, Alike, Rivals
      <3> QED BY <2>3, <2>5, <3>1, DirMirrored
    <2>6. PendingAt(op[t], src[t], dst[t])'
      BY <1>0, <1>6, <2>1, <2>4, <2>5 DEF PendingAt
    <2>7. Pending'
      BY <1>0, <2>1, <2>6 DEF IInv, Pending, PendingAt, Others
    <2>8. Unique'
      BY <1>0, <1>6, <2>1 DEF IInv, Unique, Alike, Others
    <2> QED BY <1>1, <1>2, <1>4, <2>2, <2>7, <2>8 DEF IInv
  <1> QED BY <1>5, <1>6

(* The slow half of a call. *)
LEMMA SlowDoneHolds ==
    ASSUME IInv, NEW t \in Threads, SlowDone(t)
    PROVE  IInv'
  <1>0. /\ pc[t] = "slow" /\ pc'[t] = "idle" /\ fast' = fast /\ Others(t)
        /\ SlowOk(t) => slow' = After(slow, op[t], src[t], dst[t])
        /\ ~ SlowOk(t) => slow' = slow
    BY DEF SlowDone, Return, IInv, TypeOK, Others
  <1>1. PICK o \in Ops, p \in Paths, q \in Paths :
            o = op[t] /\ p = src[t] /\ q = dst[t] /\ (o # "rename" => q = p)
    BY <1>0, ThreadFacts
  <1>2. /\ fast \in [Paths -> Kinds] /\ slow \in [Paths -> Kinds]
        /\ PendingAt(o, p, q)
    BY <1>0, <1>1, ThreadFacts
  <1>3. "dir" \notin Paths /\ "absent" \notin Paths
    BY KindAssumption
  <1>4. /\ slow' \in [Paths -> Kinds]
        /\ \A x \in Paths : x # p /\ x # q => slow'[x] = slow[x]
        /\ o # "unlink" => fast[p] = slow'[p] /\ fast[q] = slow'[q]
        /\ o = "unlink" => \/ slow[p] \in Paths /\ slow'[p] = "absent"
                           \/ slow[p] \notin Paths /\ slow' = slow
        /\ Tree(slow')
    <2>1. CASE SlowOk(t)
      <3>1. Succeeds(slow, o, p, q) /\ slow' = After(slow, o, p, q)
        BY <1>0, <1>1, <2>1 DEF SlowOk
      <3>2. /\ slow' \in [Paths -> Kinds]
            /\ \A x \in Paths : x # p /\ x # q => slow'[x] = slow[x]
            /\ o = "mkdir" => slow[p] = "absent" /\ slow'[p] = "dir"
            /\ o = "rmdir" => slow[p] = "dir" /\ slow'[p] = "absent"
            /\ o = "creat" => /\ slow[p] # "dir" /\ slow'[p] \in Paths
                              /\ slow[p] \in Paths => slow'[p] = slow[p]
                              /\ slow[p] = "absent" => slow'[p] = p
            /\ o = "rename" => /\ slow[p] \in Paths /\ slow[q] # "dir" /\ slow'[q] = slow[p]
                               /\ p # q => slow'[p] = "absent"
            /\ o = "unlink" => slow[p] \in Paths /\ slow'[p] = "absent"
            /\ o = "stat" => slow' = slow /\ slow[p] # "absent"
        BY <1>1, <1>2, <3>1, AfterFacts
      <3>3. Tree(slow')
        BY <1>1, <1>2, <3>1, TreeKept DEF IInv
      <3>4. o # "unlink" => fast[p] = slow'[p] /\ fast[q] = slow'[q]
        BY <1>1, <1>2, <1>3, <3>2 DEF PendingAt, Ops
      <3> QED BY <3>2, <3>3, <3>4
    <2>2. CASE ~ SlowOk(t)
      <3>1. o = "unlink" /\ slow' = slow
        BY <1>0, <1>1, <2>2, SlowSucceeds
      <3>2. slow[p] \notin Paths
        BY <1>1, <2>2, <3>1 DEF SlowOk, Succeeds, IsFile
      <3> QED BY <1>2, <3>1, <3>2 DEF IInv
    <2> QED BY <2>1, <2>2
  <1>5. ASSUME NEW u \in Threads, u # t, pc[u] = "slow"
        PROVE  PendingAt(op[u], src[u], dst[u])'
    <2>1. /\ op'[u] = op[u] /\ src'[u] = src[u] /\ dst'[u] = dst[u]
          /\ op[u] \in Ops /\ src[u] \in Paths /\ dst[u] \in Paths
          /\ op[u] # "rename" => dst[u] = src[u]
          /\ PendingAt(op[u], src[u], dst[u])
          /\ Apart(t, u) \/ Alike(t, u) \/ Rivals(t, u)
      BY <1>0, <1>5, ThreadFacts DEF Compatible, Others
    <2>2. CASE Apart(t, u)
      <3>1. slow'[src[u]] = slow[src[u]] /\ slow'[dst[u]] = slow[dst[u]]
        BY <1>1, <1>4, <2>1, <2>2 DEF Apart
      <3> QED BY <1>0, <2>1, <3>1 DEF PendingAt
    <2>3. CASE Alike(t, u)
      <3>1. op[u] = o /\ src[u] = p /\ dst[u] = q
        BY <1>1, <2>3 DEF Alike
      <3>2. o \in {"creat", "unlink", "stat"} \/ (o = "rename" /\ p = q)
        BY <1>0, <1>1, <1>5, <2>3 DEF IInv, Unique
      <3>3. PendingAt(o, p, q)'
        BY <1>0, <1>1, <1>2, <1>3, <1>4, <3>2 DEF PendingAt
      <3> QED BY <2>1, <3>1, <3>3
    <2>4. CASE Rivals(t, u)
      <3>1. /\ src[u] = p /\ PendingAt(op[u], p, dst[u])
            /\ \/ o = "mkdir" /\ op[u] = "creat"
               \/ o = "creat" /\ op[u] = "mkdir"
               \/ o = "rmdir" /\ op[u] = "unlink"
               \/ o = "unlink" /\ op[u] = "rmdir"
        BY <1>1, <2>1, <2>4 DEF Rivals
      <3> QED BY <1>0, <1>2, <1>3, <1>4, <2>1, <3>1 DEF PendingAt
    <2> QED BY <2>1, <2>2, <2>3, <2>4
  <1>6. Pending' /\ Unique'
    BY <1>0, <1>5 DEF IInv, Pending, Unique, Alike, Others
  <1>7. ASSUME NEW x \in Paths, fast'[x] # slow'[x]
        PROVE  \E u \in Threads : Explains(u, x)'
    <2>1. CASE x \in {p, q}
      <3>1. o = "unlink" /\ x = p
        BY <1>0, <1>1, <1>4, <1>7, <2>1
      <3>2. slow' = slow /\ slow[p] = "dir" /\ fast[p] = "absent"
        BY <1>0, <1>2, <1>3, <1>4, <1>7, <3>1 DEF PendingAt, Kinds
      <3>3. PICK u \in Threads : Explains(u, x)
        BY <3>1, <3>2 DEF IInv, Explained
      <3>4. u # t
        BY <1>1, <3>1, <3>2, <3>3 DEF Explains
      <3>5. Explains(u, x)'
        BY <1>0, <3>2, <3>3, <3>4 DEF Explains, Others
      <3> QED BY <3>5
    <2>2. CASE x \notin {p, q}
      <3>1. slow'[x] = slow[x]
        BY <1>4, <2>2
      <3>2. PICK u \in Threads : Explains(u, x)
        BY <1>0, <1>7, <3>1 DEF IInv, Explained
      <3>3. u # t
        BY <1>1, <2>2, <3>2 DEF Explains
      <3>4. Explains(u, x)'
        BY <1>0, <3>1, <3>2, <3>3 DEF Explains, Others
      <3> QED BY <3>4
    <2> QED BY <2>1, <2>2
  <1>8. Explained'
    BY <1>7 DEF Explained
  <1>9. TypeOK'
    BY <1>0, <1>4 DEF SlowDone, Return, IInv, TypeOK
  <1>10. InCall' /\ Discipline'
    BY <1>0 DEF IInv, InCall, Discipline, Others, Compatible, Apart, Alike, Rivals, Unnested
  <1>11. Tree(fast)' /\ Tree(slow)'
    BY <1>0, <1>4 DEF IInv, Tree, IsDir
  <1> QED BY <1>6, <1>8, <1>9, <1>10, <1>11 DEF IInv

-----------------------------------------------------------------------------
(* Two empty devices satisfy the invariant. *)
LEMMA InitHolds ==
    ASSUME Init
    PROVE  IInv
  <1>1. TypeOK
    BY DEF Init, Empty, TypeOK, Kinds
  <1>2. \A t \in Threads : pc[t] = "idle"
    BY DEF Init
  <1>3. fast = slow /\ \A p \in Paths : fast[p] = "absent"
    BY DEF Init, Empty
  <1>4. InCall /\ Discipline /\ Pending /\ Unique
    BY <1>2 DEF InCall, Discipline, Pending, Unique
  <1>5. Tree(fast) /\ Tree(slow) /\ Explained
    BY <1>3 DEF Tree, Explained
  <1> QED BY <1>1, <1>4, <1>5 DEF IInv

(* Every step preserves the invariant. *)
LEMMA StepHolds ==
    ASSUME IInv, [Next]_vars
    PROVE  IInv'
  <1>1. ASSUME NEW t \in Threads,
               Mkdir(t) \/ Rmdir(t) \/ Creat(t) \/ Unlink(t) \/ Stat(t) \/ Rename(t)
        PROVE  IInv'
    <2>1. PICK o \in Ops, p \in Paths, q \in Paths :
              (o # "rename" => q = p) /\ Call(t, o, p, q)
      BY <1>1 DEF Mkdir, Rmdir, Creat, Unlink, Stat, Rename, Ops
    <2> QED BY <2>1, CallHolds
  <1>2. CASE UNCHANGED vars
    BY <1>2 DEF vars, IInv, TypeOK, InCall, Discipline, Compatible, Apart, Alike, Rivals,
                Unnested, Tree, IsDir, Pending, PendingAt, Unique, Explained, Explains
  <1> QED BY <1>1, <1>2, FastDoneHolds, FastFailsHolds, SlowDoneHolds DEF Next

(* The inductive invariant holds in every state. *)
THEOREM Invariance == Spec => []IInv
  <1>1. Init => IInv
    BY InitHolds
  <1>2. IInv /\ [Next]_vars => IInv'
    BY StepHolds
  <1> QED BY <1>1, <1>2, PTL DEF Spec

(* Type correctness: every entry is absent, a directory or a file. *)
THEOREM TypeCorrect == Spec => []TypeOK
  <1>1. IInv => TypeOK
    BY DEF IInv
  <1> QED BY <1>1, Invariance, PTL

(* The devices differ only at the paths of calls between their halves.     *)
THEOREM DevicesAgree == Spec => []Mirrored
  <1>1. IInv => Mirrored
    BY DEF IInv, Explained, Explains, Mirrored, HalfDone
  <1> QED BY <1>1, Invariance, PTL

(* A call other than unlink that has done its half on the fast device      *)
(* succeeds on the slow one; an unlink succeeds there, or the path is a    *)
(* file on neither device.                                                 *)
THEOREM NoHalfCall == Spec => []SecondHalfCompletes
  <1>1. ASSUME IInv, NEW t \in Threads, pc[t] = "slow"
        PROVE  \/ SlowOk(t)
               \/ op[t] = "unlink" /\ ~ IsFile(fast, src[t]) /\ ~ IsFile(slow, src[t])
    <2>1. CASE op[t] # "unlink"
      BY <1>1, <2>1, SlowSucceeds
    <2>2. CASE op[t] = "unlink"
      <3>1. ~ IsFile(fast, src[t])
        BY <1>1, <2>2 DEF IInv, Pending, PendingAt, IsFile
      <3>2. SlowOk(t) <=> IsFile(slow, src[t])
        BY <2>2 DEF SlowOk, Succeeds
      <3> QED BY <2>2, <3>1, <3>2
    <2> QED BY <2>1, <2>2
  <1>2. IInv => SecondHalfCompletes
    BY <1>1 DEF SecondHalfCompletes
  <1> QED BY <1>2, Invariance, PTL
=============================================================================
