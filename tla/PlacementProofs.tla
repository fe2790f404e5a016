--------------------------- MODULE PlacementProofs ---------------------------
(***************************************************************************)
(* Proofs, for any number of tasks, any split point and any threshold,     *)
(* that the usage counter is exact and bounded.                            *)
(***************************************************************************)
EXTENDS Placement, FiniteSetTheorems, TLAPS

Active == {t \in Tasks : pc[t] # "out"}

(* task_ctx_active_cnt counts the tasks being registered or deleted too. *)
ActiveExact == active = Cardinality(Active)

(* A task that is about to count a slot was given one. *)
PendingFast == \A t \in Pending : placement[t] = "FAST"

(* A promotion under way has a slot of its own. *)
Promoting == IF hpc = "promote" THEN 1 ELSE 0

(* Slots given out, counted or not.  The bound on Pending is what makes a  *)
(* promotion safe: the handler looks at the counted slots only.            *)
Room ==
    /\ Cardinality(Pending) <= Split
    /\ Cardinality(Fast) + Cardinality(Pending) + Promoting <= 2 * Split

(* The list does not change under the handler. *)
Walking ==
    /\ hpc # "idle" => \A t \in todo : pc[t] = "in"
    /\ hpc \in {"promote", "tic"} => cur \in Tasks /\ pc[cur] = "in"
    /\ hpc = "promote" => placement[cur] = "SLOW"

IInv == TypeOK /\ UsageExact /\ ActiveExact /\ PendingFast /\ Room /\ Walking

-----------------------------------------------------------------------------
(* Slots are held by active tasks, each at most one: the counters of       *)
(* context.c and placement.c bound one another.                            *)
LEMMA Sizes ==
    ASSUME TypeOK
    PROVE  /\ IsFiniteSet(Fast) /\ IsFiniteSet(Pending) /\ IsFiniteSet(Active)
           /\ Cardinality(Fast) \in Nat /\ Cardinality(Pending) \in Nat
           /\ Cardinality(Active) \in Nat
           /\ Cardinality(Fast) + Cardinality(Pending) <= Cardinality(Active)
  <1>1. /\ Fast \subseteq Tasks /\ Pending \subseteq Tasks /\ Active \subseteq Tasks
        /\ Fast \cup Pending \subseteq Active /\ Fast \cap Pending = {}
    BY DEF Fast, Pending, Active
  <1>2. IsFiniteSet(Fast) /\ IsFiniteSet(Pending) /\ IsFiniteSet(Active)
    BY <1>1, TasksAssumption, FS_Subset
  <1>3. /\ Cardinality(Fast) \in Nat /\ Cardinality(Pending) \in Nat
        /\ Cardinality(Active) \in Nat
    BY <1>2, FS_CardinalityType
  <1>4. Cardinality(Fast \cup Pending) <= Cardinality(Active)
    BY <1>1, <1>2, FS_Subset
  <1>5. Cardinality(Fast \cup Pending) = Cardinality(Fast) + Cardinality(Pending)
    <2>1. Cardinality(Fast \cup Pending)
             = Cardinality(Fast) + Cardinality(Pending) - Cardinality(Fast \cap Pending)
      BY <1>2, FS_Union
    <2> QED BY <1>1, <1>3, <2>1, FS_EmptySet
  <1> QED BY <1>2, <1>3, <1>4, <1>5

(* The size of a set of tasks when one joins. *)
LEMMA Joins ==
    ASSUME NEW S, IsFiniteSet(S), NEW t, t \notin S
    PROVE  Cardinality(S \cup {t}) = Cardinality(S) + 1
  BY FS_AddElement

(* The size of a set of tasks when one leaves. *)
LEMMA Leaves ==
    ASSUME NEW S, IsFiniteSet(S), NEW t, t \in S
    PROVE  Cardinality(S \ {t}) = Cardinality(S) - 1 /\ Cardinality(S) # 0
  <1>1. Cardinality(S \ {t}) = Cardinality(S) - 1
    BY FS_RemoveElement
  <1>2. Cardinality(S) # 0
    BY FS_EmptySet
  <1> QED BY <1>1, <1>2

-----------------------------------------------------------------------------
(* The invariant holds before any task registers. *)
LEMMA InitInv == Init => IInv
  <1> SUFFICES ASSUME Init PROVE IInv
    OBVIOUS
  <1>1. TypeOK
    <2>1. pc \in [Tasks -> TaskPCs] /\ placement \in [Tasks -> {"FAST", "SLOW"}]
      BY DEF Init, TaskPCs
    <2>2. throughput \in [Tasks -> BOOLEAN] /\ last \in BOOLEAN
      BY DEF Init
    <2>3. tic \in [Tasks -> 0 .. LowEpochs + 1] /\ active \in Nat /\ usage \in Nat
      BY LowEpochsAssumption DEF Init
    <2>4. /\ hpc \in {"idle", "walk", "promote", "tic"} /\ todo \in SUBSET Tasks
          /\ cur \in Tasks \cup {None}
      BY DEF Init
    <2> QED BY <2>1, <2>2, <2>3, <2>4, Zenon DEF TypeOK
  <1>2. Fast = {} /\ Pending = {} /\ Active = {}
    BY DEF Init, Fast, Pending, Active
  <1>3. UsageExact /\ ActiveExact /\ PendingFast /\ Room
    BY <1>2, FS_EmptySet, SplitAssumption
       DEF Init, UsageExact, ActiveExact, PendingFast, Room, Promoting
  <1>4. Walking
    BY DEF Init, Walking
  <1> QED BY <1>1, <1>3, <1>4 DEF IInv

(* A task that registers gets a slot only while fewer than Split tasks are *)
(* active, hence fewer than Split slots are given out.                     *)
LEMMA RegisterInv ==
    ASSUME IInv, NEW t \in Tasks, Register(t)
    PROVE  IInv'
  <1>1. TypeOK /\ UsageExact /\ ActiveExact /\ PendingFast /\ Room /\ Walking
    BY DEF IInv
  <1>2. /\ Cardinality(Fast) \in Nat /\ Cardinality(Pending) \in Nat
        /\ Cardinality(Active) \in Nat
        /\ Cardinality(Fast) + Cardinality(Pending) <= Cardinality(Active)
        /\ IsFiniteSet(Fast) /\ IsFiniteSet(Pending) /\ IsFiniteSet(Active)
    BY <1>1, Sizes
  <1>3. TypeOK'
    BY <1>1, LowEpochsAssumption DEF Register, TypeOK, TaskPCs, handler
  <1>4. Active' = Active \cup {t} /\ t \notin Active
    BY <1>1 DEF Register, TypeOK, Active
  <1>5. ActiveExact'
    BY <1>1, <1>2, <1>4, Joins DEF Register, ActiveExact
  <1>6. Walking'
    BY <1>1 DEF Register, Walking, TypeOK, handler
  <1>7. CASE active < Split
    <2>1. Pending' = Pending \cup {t} /\ t \notin Pending /\ Fast' = Fast
      BY <1>1, <1>7 DEF Register, TypeOK, Pending, Fast
    <2>2. Cardinality(Pending') = Cardinality(Pending) + 1
      BY <1>2, <2>1, Joins
    <2>3. Room'
      BY <1>1, <1>2, <1>7, <2>1, <2>2, SplitAssumption
         DEF Register, Room, Promoting, ActiveExact, handler
    <2>4. UsageExact'
      BY <1>1, <2>1 DEF Register, UsageExact
    <2>5. PendingFast'
      BY <1>1, <1>7, <2>1 DEF Register, PendingFast, TypeOK, Pending
    <2> QED BY <1>3, <1>5, <1>6, <2>3, <2>4, <2>5 DEF IInv
  <1>8. CASE ~ (active < Split)
    <2>1. Pending' = Pending /\ Fast' = Fast
      BY <1>1, <1>8 DEF Register, TypeOK, Pending, Fast
    <2>2. Room' /\ UsageExact'
      BY <1>1, <2>1 DEF Register, Room, Promoting, UsageExact, handler
    <2>3. PendingFast'
      BY <1>1, <1>8, <2>1 DEF Register, PendingFast, TypeOK, Pending
    <2> QED BY <1>3, <1>5, <1>6, <2>2, <2>3 DEF IInv
  <1> QED BY <1>7, <1>8

(* A pending slot becomes a counted one. *)
LEMMA CountFastInv ==
    ASSUME IInv, NEW t \in Tasks, CountFast(t)
    PROVE  IInv'
  <1>1. TypeOK /\ UsageExact /\ ActiveExact /\ PendingFast /\ Room /\ Walking
    BY DEF IInv
  <1>2. /\ Cardinality(Fast) \in Nat /\ Cardinality(Pending) \in Nat
        /\ IsFiniteSet(Fast) /\ IsFiniteSet(Pending)
    BY <1>1, Sizes
  <1>3. TypeOK'
    BY <1>1 DEF CountFast, TypeOK, TaskPCs, handler
  <1>4. /\ Active' = Active
        /\ Pending' = Pending \ {t} /\ t \in Pending
        /\ Fast' = Fast \cup {t} /\ t \notin Fast
    BY <1>1 DEF CountFast, TypeOK, Active, Pending, Fast, PendingFast
  <1>5. /\ Cardinality(Pending') = Cardinality(Pending) - 1
        /\ Cardinality(Fast') = Cardinality(Fast) + 1
    BY <1>2, <1>4, Joins, Leaves
  <1>6. UsageExact' /\ ActiveExact'
    BY <1>1, <1>4, <1>5 DEF CountFast, UsageExact, ActiveExact
  <1>7. Room'
    BY <1>1, <1>2, <1>5, SplitAssumption DEF CountFast, Room, Promoting, handler
  <1>8. PendingFast' /\ Walking'
    BY <1>1, <1>4 DEF CountFast, PendingFast, Walking, TypeOK, handler
  <1> QED BY <1>3, <1>6, <1>7, <1>8 DEF IInv

(* Steps that leave the slots alone. *)
LEMMA SameSlots ==
    ASSUME IInv, TypeOK', Walking', Fast' = Fast, Pending' = Pending,
           Active' = Active, placement' = placement, usage' = usage, active' = active,
           Promoting' = Promoting
    PROVE  IInv'
  BY DEF IInv, UsageExact, ActiveExact, PendingFast, Room

(* The list changes only while the handler does not walk it. *)
LEMMA ListInv ==
    ASSUME IInv, NEW t \in Tasks, Enlist(t) \/ MoveBytes(t) \/ Delist(t)
    PROVE  IInv'
  <1>1. TypeOK /\ Walking
    BY DEF IInv
  <1>2. CASE Enlist(t)
    <2>1. TypeOK' /\ Walking'
      BY <1>1, <1>2 DEF Enlist, TypeOK, TaskPCs, Walking, ListFree, handler
    <2>2. Fast' = Fast /\ Pending' = Pending /\ Active' = Active
      BY <1>1, <1>2 DEF Enlist, TypeOK, Fast, Pending, Active
    <2> QED BY <1>2, <2>1, <2>2, SameSlots DEF Enlist, Promoting, handler
  <1>3. CASE MoveBytes(t)
    <2>1. TypeOK' /\ Walking'
      BY <1>1, <1>3 DEF MoveBytes, TypeOK, Walking, handler
    <2>2. Fast' = Fast /\ Pending' = Pending /\ Active' = Active
      BY <1>3 DEF MoveBytes, Fast, Pending, Active
    <2> QED BY <1>3, <2>1, <2>2, SameSlots DEF MoveBytes, Promoting, handler
  <1>4. CASE Delist(t)
    <2>1. TypeOK' /\ Walking'
      BY <1>1, <1>4 DEF Delist, TypeOK, TaskPCs, Walking, ListFree, handler
    <2>2. Fast' = Fast /\ Pending' = Pending /\ Active' = Active
      BY <1>1, <1>4 DEF Delist, TypeOK, Fast, Pending, Active
    <2> QED BY <1>4, <2>1, <2>2, SameSlots DEF Delist, Promoting, handler
  <1> QED BY <1>2, <1>3, <1>4

(* A deleted task gives back the slot it has, if it has one. *)
LEMMA UncountInv ==
    ASSUME IInv, NEW t \in Tasks, Uncount(t)
    PROVE  IInv'
  <1>1. TypeOK /\ UsageExact /\ ActiveExact /\ PendingFast /\ Room /\ Walking
    BY DEF IInv
  <1>2. /\ Cardinality(Fast) \in Nat /\ Cardinality(Pending) \in Nat
        /\ IsFiniteSet(Fast)
    BY <1>1, Sizes
  <1>3. Pending' = Pending /\ Active' = Active
    BY <1>1 DEF Uncount, TypeOK, Pending, Active
  <1>4. Walking'
    BY <1>1 DEF Uncount, TypeOK, Walking, handler
  <1>5. CASE placement[t] = "FAST"
    <2>1. Fast' = Fast \ {t} /\ t \in Fast
      BY <1>1, <1>5 DEF Uncount, TypeOK, Fast
    <2>2. Cardinality(Fast') = Cardinality(Fast) - 1 /\ Cardinality(Fast) # 0
      BY <1>2, <2>1, Leaves
    <2>3. usage' = usage - 1 /\ usage' \in Nat
      BY <1>1, <1>2, <1>5, <2>2 DEF Uncount, UsageExact
    <2>4. TypeOK'
      BY <1>1, <2>3 DEF Uncount, TypeOK, TaskPCs, handler
    <2>5. UsageExact' /\ ActiveExact'
      BY <1>1, <1>3, <2>2, <2>3 DEF Uncount, UsageExact, ActiveExact
    <2>6. Room'
      BY <1>1, <1>2, <1>3, <2>2, SplitAssumption DEF Uncount, Room, Promoting, handler
    <2>7. PendingFast'
      BY <1>1, <1>3 DEF Uncount, PendingFast
    <2> QED BY <1>4, <2>4, <2>5, <2>6, <2>7 DEF IInv
  <1>6. CASE placement[t] # "FAST"
    <2>1. Fast' = Fast
      BY <1>1, <1>6 DEF Uncount, TypeOK, Fast
    <2>2. TypeOK'
      BY <1>1, <1>6 DEF Uncount, TypeOK, TaskPCs, handler
    <2> QED BY <1>3, <1>4, <1>6, <2>1, <2>2, SameSlots DEF Uncount, Promoting, handler
  <1> QED BY <1>5, <1>6

(* Only then is it no longer counted active. *)
LEMMA DeactivateInv ==
    ASSUME IInv, NEW t \in Tasks, Deactivate(t)
    PROVE  IInv'
  <1>1. TypeOK /\ UsageExact /\ ActiveExact /\ PendingFast /\ Room /\ Walking
    BY DEF IInv
  <1>2. IsFiniteSet(Active) /\ Cardinality(Active) \in Nat
    BY <1>1, Sizes
  <1>3. /\ Fast' = Fast /\ Pending' = Pending
        /\ Active' = Active \ {t} /\ t \in Active
    BY <1>1 DEF Deactivate, TypeOK, Fast, Pending, Active
  <1>4. Cardinality(Active') = Cardinality(Active) - 1 /\ Cardinality(Active) # 0
    BY <1>2, <1>3, Leaves
  <1>5. active' \in Nat /\ ActiveExact'
    BY <1>1, <1>2, <1>4 DEF Deactivate, ActiveExact
  <1>6. TypeOK'
    BY <1>1, <1>5 DEF Deactivate, TypeOK, TaskPCs, handler
  <1>7. UsageExact' /\ PendingFast' /\ Room'
    BY <1>1, <1>3
       DEF Deactivate, UsageExact, PendingFast, Room, Promoting, handler
  <1>8. Walking'
    BY <1>1 DEF Deactivate, TypeOK, Walking, handler
  <1> QED BY <1>5, <1>6, <1>7, <1>8 DEF IInv

(* The handler takes and releases the list lock. *)
LEMMA TickInv ==
    ASSUME IInv, Tick \/ EndWalk
    PROVE  IInv'
  <1>1. TypeOK /\ Walking
    BY DEF IInv
  <1>2. TypeOK'
    BY <1>1 DEF Tick, EndWalk, TypeOK, task
  <1>3. Walking'
    BY <1>1 DEF Tick, EndWalk, Walking, task
  <1>4. /\ placement' = placement /\ pc' = pc /\ usage' = usage /\ active' = active
        /\ Promoting' = Promoting
    BY DEF Tick, EndWalk, Promoting, task
  <1>5. Fast' = Fast /\ Pending' = Pending /\ Active' = Active
    BY <1>4 DEF Fast, Pending, Active
  <1> QED BY <1>2, <1>3, <1>4, <1>5, SameSlots

(* The handler sees a free slot: there is room for a promotion whatever the *)
(* pending registrations do.                                               *)
LEMMA VisitInv ==
    ASSUME IInv, Visit
    PROVE  IInv'
  <1>1. TypeOK /\ UsageExact /\ ActiveExact /\ PendingFast /\ Room /\ Walking
    BY DEF IInv
  <1>2. PICK t \in todo :
          /\ cur' = t /\ todo' = todo \ {t} /\ last' = throughput[t]
          /\ throughput' = [throughput EXCEPT ![t] = FALSE]
          /\ hpc' = IF placement[t] = "SLOW" /\ usage < Split THEN "promote" ELSE "tic"
    BY DEF Visit
  <1>3. t \in Tasks /\ pc[t] = "in"
    BY <1>1, <1>2 DEF Visit, Walking, TypeOK
  <1>4. TypeOK'
    BY <1>1, <1>2, <1>3 DEF Visit, TypeOK
  <1>5. Walking'
    BY <1>1, <1>2, <1>3 DEF Visit, Walking
  <1>6. Fast' = Fast /\ Pending' = Pending /\ Active' = Active
    BY DEF Visit, Fast, Pending, Active
  <1>7. /\ Cardinality(Fast) \in Nat /\ Cardinality(Pending) \in Nat
    BY <1>1, Sizes
  <1>8. Room'
    <2>1. CASE usage < Split
      BY <1>1, <1>2, <1>6, <1>7, <2>1, SplitAssumption DEF Room, Promoting, UsageExact
    <2>2. CASE ~ (usage < Split)
      <3>1. Promoting' = 0 /\ Promoting = 0
        BY <1>2, <2>2 DEF Promoting, Visit
      <3> QED BY <1>1, <1>6, <3>1 DEF Room
    <2> QED BY <2>1, <2>2
  <1>9. UsageExact' /\ ActiveExact' /\ PendingFast'
    BY <1>1, <1>6 DEF Visit, UsageExact, ActiveExact, PendingFast
  <1> QED BY <1>4, <1>5, <1>8, <1>9 DEF IInv

(* The promoted task is on the list and has no slot yet. *)
LEMMA PromoteInv ==
    ASSUME IInv, Promote
    PROVE  IInv'
  <1>1. TypeOK /\ UsageExact /\ ActiveExact /\ PendingFast /\ Room /\ Walking
    BY DEF IInv
  <1>2. cur \in Tasks /\ pc[cur] = "in" /\ placement[cur] = "SLOW"
    BY <1>1 DEF Promote, Walking
  <1>3. IsFiniteSet(Fast) /\ Cardinality(Fast) \in Nat /\ Cardinality(Pending) \in Nat
    BY <1>1, Sizes
  <1>4. /\ Pending' = Pending /\ Active' = Active
        /\ Fast' = Fast \cup {cur} /\ cur \notin Fast
    BY <1>1, <1>2 DEF Promote, TypeOK, Pending, Active, Fast
  <1>5. Cardinality(Fast') = Cardinality(Fast) + 1
    BY <1>3, <1>4, Joins
  <1>6. TypeOK'
    BY <1>1, <1>2 DEF Promote, TypeOK
  <1>7. UsageExact' /\ ActiveExact'
    BY <1>1, <1>4, <1>5 DEF Promote, UsageExact, ActiveExact
  <1>8. Room'
    BY <1>1, <1>3, <1>4, <1>5, SplitAssumption DEF Promote, Room, Promoting
  <1>9. PendingFast' /\ Walking'
    BY <1>1, <1>2, <1>4 DEF Promote, PendingFast, Pending, Walking, TypeOK
  <1> QED BY <1>6, <1>7, <1>8, <1>9 DEF IInv

(* The demoted task gives back the slot it has. *)
LEMMA DemoteInv ==
    ASSUME IInv, Demote
    PROVE  IInv'
  <1>1. TypeOK /\ UsageExact /\ ActiveExact /\ PendingFast /\ Room /\ Walking
    BY DEF IInv
  <1>2. cur \in Tasks /\ pc[cur] = "in"
    BY <1>1 DEF Demote, Walking
  <1>3. tic' \in [Tasks -> 0 .. LowEpochs + 1]
    BY <1>1, <1>2, LowEpochsAssumption DEF Demote, LowTic, TypeOK
  <1>4. IsFiniteSet(Fast) /\ Cardinality(Fast) \in Nat /\ Cardinality(Pending) \in Nat
    BY <1>1, Sizes
  <1>5. Pending' = Pending /\ Active' = Active
    BY DEF Demote, Pending, Active
  <1>6. Walking'
    BY <1>1 DEF Demote, Walking
  <1>7. CASE /\ placement[cur] = "FAST" /\ usage' = usage - 1
             /\ placement' = [placement EXCEPT ![cur] = "SLOW"]
    <2>1. Fast' = Fast \ {cur} /\ cur \in Fast
      BY <1>1, <1>2, <1>7 DEF Demote, TypeOK, Fast
    <2>2. Cardinality(Fast') = Cardinality(Fast) - 1 /\ Cardinality(Fast) # 0
      BY <1>4, <2>1, Leaves
    <2>3. usage' \in Nat
      BY <1>1, <1>4, <1>7, <2>2 DEF UsageExact
    <2>4. TypeOK'
      BY <1>1, <1>2, <1>3, <1>7, <2>3 DEF Demote, TypeOK
    <2>5. UsageExact' /\ ActiveExact'
      BY <1>1, <1>5, <1>7, <2>2 DEF Demote, UsageExact, ActiveExact
    <2>6. Room'
      BY <1>1, <1>4, <1>5, <2>2, SplitAssumption DEF Demote, Room, Promoting
    <2>7. PendingFast'
      BY <1>1, <1>2, <1>5, <1>7 DEF PendingFast, Pending, TypeOK
    <2> QED BY <1>6, <2>4, <2>5, <2>6, <2>7 DEF IInv
  <1>8. CASE placement' = placement /\ usage' = usage
    <2>1. Fast' = Fast
      BY <1>8 DEF Demote, Fast
    <2>2. TypeOK'
      BY <1>1, <1>3, <1>8 DEF Demote, TypeOK
    <2> QED BY <1>5, <1>6, <1>8, <2>1, <2>2, SameSlots DEF Demote, Promoting
  <1> QED BY <1>7, <1>8 DEF Demote

-----------------------------------------------------------------------------
(* Every step of every thread and of the handler preserves the invariant. *)
THEOREM Invariance == Spec => []IInv
  <1>1. Init => IInv
    BY InitInv
  <1>2. IInv /\ [Next]_vars => IInv'
    <2> SUFFICES ASSUME IInv, [Next]_vars PROVE IInv'
      OBVIOUS
    <2>1. ASSUME NEW t \in Tasks, Register(t) PROVE IInv'
      BY <2>1, RegisterInv
    <2>2. ASSUME NEW t \in Tasks, Calls(t) PROVE IInv'
      BY <2>2, CountFastInv, ListInv, UncountInv, DeactivateInv DEF Calls
    <2>3. ASSUME NEW t \in Tasks, MoveBytes(t) \/ Delist(t) PROVE IInv'
      BY <2>3, ListInv
    <2>4. ASSUME Handler PROVE IInv'
      BY <2>4, TickInv, VisitInv, PromoteInv, DemoteInv DEF Handler
    <2>5. ASSUME UNCHANGED vars PROVE IInv'
      BY <2>5 DEF vars, IInv, TypeOK, UsageExact, ActiveExact, PendingFast, Room,
         Promoting, Walking, Fast, Pending, Active
    <2> QED BY <2>1, <2>2, <2>3, <2>4, <2>5 DEF Next
  <1> QED BY <1>1, <1>2, PTL DEF Spec

(* The usage counter of the fast device counts exactly the tasks placed on *)
(* it, and is never negative.                                              *)
THEOREM UsageCounts == Spec => [](TypeOK /\ UsageExact)
  <1>1. IInv => TypeOK /\ UsageExact
    BY DEF IInv
  <1> QED BY <1>1, Invariance, PTL

(* The race of registration and promotion at most doubles the split point. *)
THEOREM FastIsBounded == Spec => []FastBounded
  <1>1. IInv => FastBounded
    <2> SUFFICES ASSUME IInv PROVE FastBounded
      OBVIOUS
    <2>1. TypeOK /\ UsageExact /\ Room
      BY DEF IInv
    <2>2. Cardinality(Fast) \in Nat /\ Cardinality(Pending) \in Nat
      BY <2>1, Sizes
    <2> QED BY <2>1, <2>2, SplitAssumption DEF FastBounded, UsageExact, Room, Promoting
  <1> QED BY <1>1, Invariance, PTL
=============================================================================
