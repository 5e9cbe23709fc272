-------------------------- MODULE SchedulerProofs --------------------------
(***************************************************************************)
(* What TLAPS proves of Scheduler, for every finite set of instances, any  *)
(* groups and intervals, and every number of slots: passes are never of    *)
(* the same instance, and no slot is lost or given back twice.             *)
(***************************************************************************)
EXTENDS Scheduler, FiniteSetTheorems, SequenceTheorems, TLAPS

-----------------------------------------------------------------------------
(* The inductive invariant. *)

Phases == Holding \union {"waiting", "none"}

\* What a task may be, as far as its phase goes.
IsTask(t) ==
  /\ "phase" \in DOMAIN t
  /\ t.phase \in Phases
  /\ t.phase = "none" => t = NoTask

Shape ==
  /\ DOMAIN task = Instances
  /\ \A i \in Instances : DOMAIN task[i] = Numbers
  /\ \A i \in Instances, n \in Numbers : IsTask(task[i][n])
  /\ running \in [Instances -> {0} \union Numbers]
  /\ waiting \in Seq(Instances \X Numbers)
  /\ slots \in Int

\* _running knows every task that is alive.
OnlyRunning == \A i \in Instances, n \in Numbers : task[i][n] # NoTask => running[i] = n

\* The queue of the semaphore holds tasks that wait, each once.
QueueWaits ==
  /\ \A k \in 1..Len(waiting) : task[waiting[k][1]][waiting[k][2]].phase = "waiting"
  /\ \A k, l \in 1..Len(waiting) : waiting[k] = waiting[l] => k = l

IInv == Shape /\ OnlyRunning /\ QueueWaits /\ SlotsAccounted

-----------------------------------------------------------------------------
(* What the steps of a pass are made of. *)

\* There is at least one slot (the clamp of the constructor).
LEMMA SlotsType == Slots \in Nat \ {0}
  BY SchedulerBoundsAssumption DEF Slots

\* The numbers of passes are finitely many.
LEMMA NumbersFinite == IsFiniteSet(Numbers)
<1>1. IsFiniteSet({1} \union {2})
  BY FS_Singleton, FS_AddElement
<1>2. Numbers = {1} \union {2}
  BY DEF Numbers
<1>3. QED  BY <1>1, <1>2

\* The passes at work are finitely many.
LEMMA HoldersFinite == IsFiniteSet(Holders)
<1>1. IsFiniteSet(Numbers)
  BY NumbersFinite
<1>2. IsFiniteSet(Instances \X Numbers)
  BY <1>1, InstancesAssumption, FS_Product
<1>3. Holders \in SUBSET (Instances \X Numbers)
  BY DEF Holders
<1>4. QED  BY <1>2, <1>3, FS_Subset

\* One task is replaced, the others are what they were.
LEMMA ReplaceTask ==
  ASSUME Shape, NEW i \in Instances, NEW n \in Numbers, NEW t, IsTask(t),
         task' = [task EXCEPT ![i][n] = t]
  PROVE  /\ DOMAIN task' = Instances
         /\ \A j \in Instances : DOMAIN task'[j] = Numbers
         /\ \A j \in Instances, m \in Numbers :
              task'[j][m] = IF j = i /\ m = n THEN t ELSE task[j][m]
         /\ \A j \in Instances, m \in Numbers : IsTask(task'[j][m])
<1>1. /\ DOMAIN task' = Instances
      /\ \A j \in Instances : DOMAIN task'[j] = Numbers
  BY DEF Shape
<1>2. \A j \in Instances, m \in Numbers :
        task'[j][m] = IF j = i /\ m = n THEN t ELSE task[j][m]
  BY DEF Shape
<1>3. \A j \in Instances, m \in Numbers : IsTask(task'[j][m])
  BY <1>2 DEF Shape
<1>4. QED  BY <1>1, <1>2, <1>3

\* The phase of a task moves on, its other fields stay.
LEMMA PhaseMoves ==
  ASSUME Shape, NEW i \in Instances, NEW n \in Numbers, NEW p \in Holding
  PROVE  /\ IsTask([task[i][n] EXCEPT !.phase = p])
         /\ [task[i][n] EXCEPT !.phase = p].phase = p
  BY DEF Shape, IsTask, Phases, Holding

\* A pass that has its slot goes on with it.
LEMMA GoesOn ==
  ASSUME IInv, NEW i \in Instances, NEW n \in Numbers, NEW t, IsTask(t),
         task[i][n].phase \in Holding, t.phase \in Holding,
         task' = [task EXCEPT ![i][n] = t], UNCHANGED <<running, slots, waiting>>
  PROVE  IInv'
<1>1. /\ DOMAIN task' = Instances
      /\ \A j \in Instances : DOMAIN task'[j] = Numbers
      /\ \A j \in Instances, m \in Numbers :
           task'[j][m] = IF j = i /\ m = n THEN t ELSE task[j][m]
      /\ \A j \in Instances, m \in Numbers : IsTask(task'[j][m])
  BY ReplaceTask DEF IInv
<1>2. Shape'
  BY <1>1 DEF IInv, Shape
<1>3. OnlyRunning'
  BY <1>1 DEF IInv, OnlyRunning, Holding, NoTask
<1>4. QueueWaits'
  <2>1. \A k \in 1..Len(waiting) : waiting[k] \in Instances \X Numbers
    BY DEF IInv, Shape
  <2>2. QED  BY <2>1, <1>1 DEF IInv, QueueWaits, Holding
<1>5. Holders' = Holders
  BY <1>1 DEF Holders
<1>6. QED  BY <1>2, <1>3, <1>4, <1>5 DEF IInv, SlotsAccounted

\* A pass that ends gives its slot back.
LEMMA GivesBack ==
  ASSUME IInv, NEW i \in Instances, NEW n \in Numbers, task[i][n].phase \in Holding, End(i, n)
  PROVE  IInv'
<1>0. IsTask(NoTask) /\ NoTask.phase = "none"
  BY DEF IsTask, NoTask, Phases
<1>1. /\ DOMAIN task' = Instances
      /\ \A j \in Instances : DOMAIN task'[j] = Numbers
      /\ \A j \in Instances, m \in Numbers :
           task'[j][m] = IF j = i /\ m = n THEN NoTask ELSE task[j][m]
      /\ \A j \in Instances, m \in Numbers : IsTask(task'[j][m])
  BY <1>0, ReplaceTask DEF IInv, End
<1>2. Shape'
  BY <1>1 DEF IInv, Shape, End
<1>3. OnlyRunning'
  BY <1>1 DEF IInv, OnlyRunning, End
<1>4. QueueWaits'
  <2>1. \A k \in 1..Len(waiting) : waiting[k] \in Instances \X Numbers
    BY DEF IInv, Shape
  <2>2. QED  BY <2>1, <1>1 DEF IInv, QueueWaits, Holding, End
<1>5. Holders' = Holders \ {<<i, n>>}
  BY <1>0, <1>1 DEF Holders, Holding
<1>6. <<i, n>> \in Holders
  BY DEF Holders
<1>7. Cardinality(Holders') = Cardinality(Holders) - 1
  BY <1>5, <1>6, HoldersFinite, FS_RemoveElement
<1>8. SlotsAccounted'
  BY <1>7, HoldersFinite, FS_CardinalityType, SlotsType DEF IInv, Shape, SlotsAccounted, End, Slots
<1>9. QED  BY <1>2, <1>3, <1>4, <1>8 DEF IInv

\* The task that has waited longest takes a free slot.
LEMMA TakesASlot ==
  ASSUME IInv, NEW i \in Instances, NEW n \in Numbers, Acquire(i, n)
  PROVE  IInv'
<1> DEFINE t == [task[i][n] EXCEPT !.phase = "started"]
<1>0. /\ waiting # << >> /\ Len(waiting) \in Nat \ {0} /\ waiting[1] = <<i, n>>
      /\ \A k \in 1..Len(waiting) : waiting[k] \in Instances \X Numbers
  BY DEF IInv, Shape, Acquire
<1>1. task[i][n].phase = "waiting"
  BY <1>0 DEF IInv, QueueWaits
<1>2. IsTask(t) /\ t.phase = "started"
  BY PhaseMoves DEF IInv, Holding
<1>3. task' = [task EXCEPT ![i][n] = t]
  BY DEF Acquire
<1> HIDE DEF t
<1>4. /\ DOMAIN task' = Instances
      /\ \A j \in Instances : DOMAIN task'[j] = Numbers
      /\ \A j \in Instances, m \in Numbers :
           task'[j][m] = IF j = i /\ m = n THEN t ELSE task[j][m]
      /\ \A j \in Instances, m \in Numbers : IsTask(task'[j][m])
  BY <1>2, <1>3, ReplaceTask DEF IInv
<1>5. /\ waiting' \in Seq(Instances \X Numbers)
      /\ Len(waiting') = Len(waiting) - 1
      /\ \A k \in 1..Len(waiting') : waiting'[k] = waiting[k + 1]
  BY <1>0, HeadTailProperties DEF IInv, Shape, Acquire
<1>6. Shape'
  <2>1. slots' \in Int /\ running' \in [Instances -> {0} \union Numbers]
    BY DEF IInv, Shape, Acquire
  <2>2. QED  BY <1>4, <1>5, <2>1 DEF Shape
<1>7. OnlyRunning'
  BY <1>1, <1>4 DEF IInv, OnlyRunning, Acquire, NoTask
<1>8. QueueWaits'
  <2>1. \A k \in 1..Len(waiting') : k + 1 \in 1..Len(waiting) /\ k + 1 # 1
    BY <1>0, <1>5
  <2>2. \A k \in 1..Len(waiting') :
          /\ waiting'[k] \in Instances \X Numbers
          /\ waiting'[k] # <<i, n>>
          /\ task[waiting'[k][1]][waiting'[k][2]].phase = "waiting"
    <3> SUFFICES ASSUME NEW k \in 1..Len(waiting')
                 PROVE  /\ waiting'[k] \in Instances \X Numbers
                        /\ waiting'[k] # <<i, n>>
                        /\ task[waiting'[k][1]][waiting'[k][2]].phase = "waiting"
      OBVIOUS
    <3>1. waiting'[k] = waiting[k + 1] /\ k + 1 \in 1..Len(waiting) /\ k + 1 # 1
      BY <1>5, <2>1
    <3>2. 1 \in 1..Len(waiting)
      BY <1>0
    <3>3. waiting[k + 1] # waiting[1]
      BY <3>1, <3>2 DEF IInv, QueueWaits
    <3>4. task[waiting[k + 1][1]][waiting[k + 1][2]].phase = "waiting"
      BY <3>1 DEF IInv, QueueWaits
    <3>5. QED  BY <1>0, <3>1, <3>3, <3>4
  <2>3. \A k \in 1..Len(waiting') : task'[waiting'[k][1]][waiting'[k][2]].phase = "waiting"
    BY <1>4, <2>2
  <2>4. \A k, l \in 1..Len(waiting') : waiting'[k] = waiting'[l] => k = l
    BY <1>5, <2>1 DEF IInv, QueueWaits
  <2>5. QED  BY <2>3, <2>4 DEF QueueWaits
<1>9. Holders' = Holders \union {<<i, n>>}
  BY <1>2, <1>4 DEF Holders, Holding
<1>10. <<i, n>> \notin Holders
  BY <1>1 DEF Holders, Holding
<1>11. Cardinality(Holders') = Cardinality(Holders) + 1
  BY <1>9, <1>10, HoldersFinite, FS_AddElement
<1>12. SlotsAccounted'
  BY <1>11, HoldersFinite, FS_CardinalityType, SlotsType DEF IInv, Shape, SlotsAccounted, Acquire, Slots
<1>13. QED  BY <1>6, <1>7, <1>8, <1>12 DEF IInv

-----------------------------------------------------------------------------
(* A tick. *)

\* An instance that is not pending has no task alive.
LEMMA NotPending ==
  ASSUME IInv, NEW i \in Instances, ~Pending(i)
  PROVE  \A n \in Numbers : task[i][n] = NoTask
  BY DEF IInv, OnlyRunning, Pending, Numbers

\* A task that starts has a number that is free.
LEMMA FreeIsFree ==
  ASSUME IInv, NEW i \in Instances, Starts(i)
  PROVE  FreeNumber(i) \in Numbers /\ task[i][FreeNumber(i)] = NoTask
<1>1. \E n \in Numbers : task[i][n] = NoTask
  BY NotPending DEF Starts, Numbers
<1>2. QED  BY <1>1 DEF FreeNumber

\* SetToSeq lists a finite set without repetition.
LEMMA ListsOnce ==
  ASSUME NEW S, IsFiniteSet(S)
  PROVE  /\ SetToSeq(S) \in Seq(S)
         /\ \A k, l \in 1..Len(SetToSeq(S)) : SetToSeq(S)[k] = SetToSeq(S)[l] => k = l
<1> DEFINE f == SetToSeq(S)
<1>1. Cardinality(S) \in Nat /\ ExistsBijection(1..Cardinality(S), S)
  BY FS_CardinalityType
<1>2. PICK g : g \in [1..Cardinality(S) -> S] /\ IsInjective(g)
  BY <1>1 DEF ExistsBijection, Bijection, Injection
<1>3. f \in [1..Cardinality(S) -> S] /\ IsInjective(f)
  BY <1>2 DEF SetToSeq
<1> HIDE DEF f
<1>4. f \in Seq(S) /\ Len(f) = Cardinality(S)
  BY <1>1, <1>3
<1>5. \A k, l \in 1..Len(f) : f[k] = f[l] => k = l
  BY <1>3, <1>4 DEF IsInjective
<1>6. QED  BY <1>4, <1>5 DEF f

\* The passes that are due start in one go, behind those that wait already.
LEMMA Ticks ==
  ASSUME IInv, TickStart
  PROVE  IInv'
<1> DEFINE Due == {j \in Instances : Starts(j)}
           Fresh == {<<i, FreeNumber(i)>> : i \in Due}
           q == SetToSeq(Fresh)
<1>1. \A i \in Due : /\ FreeNumber(i) \in Numbers
                     /\ \A n \in Numbers : task[i][n] = NoTask
  BY FreeIsFree, NotPending DEF Starts
<1>2. Fresh \subseteq Instances \X Numbers
  BY <1>1
<1>3. IsFiniteSet(Fresh)
  <2>1. IsFiniteSet(Instances \X Numbers)
    BY NumbersFinite, InstancesAssumption, FS_Product
  <2>2. QED  BY <1>2, <2>1, FS_Subset
<1>4. /\ q \in Seq(Fresh)
      /\ \A k, l \in 1..Len(q) : q[k] = q[l] => k = l
  BY <1>3, ListsOnce
<1>5. /\ DOMAIN task' = Instances
      /\ \A i \in Instances : DOMAIN task'[i] = Numbers
      /\ \A i \in Instances, n \in Numbers :
           task'[i][n] = IF i \in Due /\ n = FreeNumber(i)
                           THEN [phase |-> "waiting", groups |-> DueGroups(i)]
                           ELSE task[i][n]
  BY DEF TickStart, IInv, Shape
<1>6. \A i \in Instances, n \in Numbers :
        \/ /\ i \in Due /\ n = FreeNumber(i)
           /\ task'[i][n].phase = "waiting" /\ IsTask(task'[i][n])
        \/ /\ ~(i \in Due /\ n = FreeNumber(i))
           /\ task'[i][n] = task[i][n]
  <2> SUFFICES ASSUME NEW i \in Instances, NEW n \in Numbers
               PROVE  \/ /\ i \in Due /\ n = FreeNumber(i)
                         /\ task'[i][n].phase = "waiting" /\ IsTask(task'[i][n])
                      \/ /\ ~(i \in Due /\ n = FreeNumber(i))
                         /\ task'[i][n] = task[i][n]
    OBVIOUS
  <2> HIDE DEF Due
  <2>1. CASE i \in Due /\ n = FreeNumber(i)
    <3>1. task'[i][n] = [phase |-> "waiting", groups |-> DueGroups(i)]
      BY <1>5, <2>1
    <3>2. task'[i][n].phase = "waiting" /\ IsTask(task'[i][n])
      BY <3>1 DEF IsTask, Phases
    <3>3. QED  BY <2>1, <3>2
  <2>2. CASE ~(i \in Due /\ n = FreeNumber(i))
    <3>1. task'[i][n] = task[i][n]
      BY <1>5, <2>2
    <3>2. QED  BY <2>2, <3>1
  <2>3. QED  BY <2>1, <2>2
<1>7. /\ waiting' = waiting \o q
      /\ running' = [i \in Instances |-> RunningAfter(i)]
      /\ slots' = slots
  BY DEF TickStart
<1>8. q \in Seq(Instances \X Numbers) /\ waiting \in Seq(Instances \X Numbers)
  BY <1>2, <1>4 DEF IInv, Shape
<1> HIDE DEF q
<1>9. /\ waiting' \in Seq(Instances \X Numbers)
      /\ Len(waiting') = Len(waiting) + Len(q)
      /\ \A k \in 1..Len(waiting') :
           waiting'[k] = IF k <= Len(waiting) THEN waiting[k] ELSE q[k - Len(waiting)]
  BY <1>7, <1>8, ConcatProperties
<1>10. Shape'
  <2>1. running' \in [Instances -> {0} \union Numbers]
    BY <1>1, <1>7 DEF RunningAfter, IInv, Shape
  <2>2. \A i \in Instances, n \in Numbers : IsTask(task'[i][n])
    BY <1>6 DEF IInv, Shape
  <2>3. slots' \in Int
    BY <1>7 DEF IInv, Shape
  <2>4. QED  BY <1>5, <1>9, <2>1, <2>2, <2>3 DEF Shape
<1>11. OnlyRunning'
  <2> SUFFICES ASSUME NEW i \in Instances, NEW n \in Numbers, task'[i][n] # NoTask
               PROVE  running'[i] = n
    BY DEF OnlyRunning
  <2>1. CASE i \in Due
    BY <1>1, <1>6, <1>7, <2>1 DEF RunningAfter
  <2>2. CASE i \notin Due
    <3>1. task[i][n] # NoTask
      BY <1>6, <2>2
    <3>2. running[i] = n /\ Pending(i)
      BY <3>1, NotPending DEF IInv, OnlyRunning
    <3>3. QED  BY <1>7, <2>2, <3>2 DEF RunningAfter
  <2>3. QED  BY <2>1, <2>2
<1>12. QueueWaits'
  <2>1. \A k \in 1..Len(waiting) :
          /\ waiting[k] \in Instances \X Numbers
          /\ waiting[k][1] \notin Due
          /\ task'[waiting[k][1]][waiting[k][2]].phase = "waiting"
    <3>1. \A k \in 1..Len(waiting) :
            /\ waiting[k] \in Instances \X Numbers
            /\ task[waiting[k][1]][waiting[k][2]].phase = "waiting"
      BY <1>8 DEF IInv, QueueWaits
    <3>2. \A k \in 1..Len(waiting) : waiting[k][1] \notin Due
      BY <1>1, <3>1 DEF NoTask
    <3>3. QED  BY <1>6, <3>1, <3>2
  <2>2. \A k \in 1..Len(q) :
          /\ q[k] \in Instances \X Numbers
          /\ q[k][1] \in Due
          /\ task'[q[k][1]][q[k][2]].phase = "waiting"
    <3>1. \A k \in 1..Len(q) : q[k] \in Fresh
      BY <1>4
    <3>2. QED  BY <1>1, <1>6, <3>1
  <2>3. \A k \in 1..Len(waiting') : k <= Len(waiting) \/ k - Len(waiting) \in 1..Len(q)
    BY <1>8, <1>9
  <2>4. \A k \in 1..Len(waiting') : task'[waiting'[k][1]][waiting'[k][2]].phase = "waiting"
    <3> SUFFICES ASSUME NEW k \in 1..Len(waiting')
                 PROVE  task'[waiting'[k][1]][waiting'[k][2]].phase = "waiting"
      OBVIOUS
    <3>1. CASE k <= Len(waiting)
      <4>1. k \in 1..Len(waiting) /\ waiting'[k] = waiting[k]
        BY <1>8, <1>9, <3>1
      <4>2. QED  BY <2>1, <4>1
    <3>2. CASE ~(k <= Len(waiting))
      <4>1. k - Len(waiting) \in 1..Len(q) /\ waiting'[k] = q[k - Len(waiting)]
        BY <1>9, <2>3, <3>2
      <4>2. QED  BY <2>2, <4>1
    <3>3. QED  BY <3>1, <3>2
  <2>5. \A k, l \in 1..Len(waiting') : waiting'[k] = waiting'[l] => k = l
    <3> SUFFICES ASSUME NEW k \in 1..Len(waiting'), NEW l \in 1..Len(waiting'),
                        waiting'[k] = waiting'[l]
                 PROVE  k = l
      OBVIOUS
    <3>1. Len(waiting) \in Nat /\ Len(q) \in Nat
      BY <1>8
    <3>2. CASE k <= Len(waiting) /\ l <= Len(waiting)
      BY <1>9, <3>1, <3>2 DEF IInv, QueueWaits
    <3>3. CASE ~(k <= Len(waiting)) /\ ~(l <= Len(waiting))
      <4>1. k - Len(waiting) = l - Len(waiting)
        BY <1>4, <1>9, <2>3, <3>3
      <4>2. QED  BY <1>9, <3>1, <4>1
    <3>4. CASE (k <= Len(waiting)) # (l <= Len(waiting))
      BY <1>9, <2>1, <2>2, <2>3, <3>1, <3>4
    <3>5. QED  BY <3>2, <3>3, <3>4
  <2>6. QED  BY <2>4, <2>5 DEF QueueWaits
<1>13. Holders' = Holders
  <2>1. \A i \in Instances, n \in Numbers :
          task'[i][n].phase \in Holding <=> task[i][n].phase \in Holding
    BY <1>1, <1>6 DEF NoTask, Holding
  <2>2. QED  BY <2>1 DEF Holders
<1>14. SlotsAccounted'
  BY <1>7, <1>13 DEF IInv, SlotsAccounted
<1>15. QED  BY <1>10, <1>11, <1>12, <1>14 DEF IInv

-----------------------------------------------------------------------------
(* What starts, and what leaves the tasks alone. *)

\* A process that starts: nothing runs and every slot is free.
LEMMA Starting ==
  ASSUME running = NoneRunning, task = NoTasks, slots = Slots, waiting = << >>
  PROVE  IInv
<1>1. Shape
  BY SlotsType DEF Shape, IsTask, Phases, NoneRunning, NoTasks, NoTask
<1>2. OnlyRunning /\ QueueWaits
  BY DEF OnlyRunning, QueueWaits, NoTasks
<1>3. Holders = {}
  BY DEF Holders, NoTasks, NoTask, Holding
<1>4. SlotsAccounted
  BY <1>3, SlotsType, FS_EmptySet DEF SlotsAccounted
<1>5. QED  BY <1>1, <1>2, <1>4 DEF IInv

\* The same, in the next state.
LEMMA StartingAgain ==
  ASSUME running' = NoneRunning, task' = NoTasks, slots' = Slots, waiting' = << >>
  PROVE  IInv'
<1>1. Shape'
  BY SlotsType DEF Shape, IsTask, Phases, NoneRunning, NoTasks, NoTask
<1>2. OnlyRunning' /\ QueueWaits'
  BY DEF OnlyRunning, QueueWaits, NoTasks
<1>3. Holders' = {}
  BY DEF Holders, NoTasks, NoTask, Holding
<1>4. SlotsAccounted'
  BY <1>3, SlotsType, FS_EmptySet DEF SlotsAccounted
<1>5. QED  BY <1>1, <1>2, <1>4 DEF IInv

\* The operator and the clock touch neither the tasks nor the slots.
LEMMA LeftAlone ==
  ASSUME IInv, UNCHANGED <<running, task, slots, waiting>>
  PROVE  IInv'
  BY DEF IInv, Shape, OnlyRunning, QueueWaits, SlotsAccounted, Holders

\* The steps of a pass: each one takes the slot, goes on with it or gives it back.
LEMMA PassSteps ==
  ASSUME IInv, NEW i \in Instances, NEW n \in Numbers,
         \/ Acquire(i, n) \/ Load(i, n) \/ Resolve(i, n) \/ SaveCapabilities(i, n)
         \/ Complete(i, n) \/ Fail(i, n) \/ TimeOut(i, n)
  PROVE  IInv'
<1>1. CASE Acquire(i, n)
  BY <1>1, TakesASlot
<1>2. CASE Load(i, n)
  <2>1. task[i][n].phase \in Holding
    BY <1>2 DEF Load, Holding
  <2>2. CASE End(i, n)
    BY <2>1, <2>2, GivesBack
  <2>3. CASE /\ task' = [task EXCEPT ![i][n] =
                            [phase |-> "connected", groups |-> @.groups, loaded |-> row[i]]]
             /\ UNCHANGED <<running, slots, waiting>>
    <3> DEFINE t == [phase |-> "connected", groups |-> task[i][n].groups, loaded |-> row[i]]
    <3>1. IsTask(t) /\ t.phase \in Holding
      BY DEF IsTask, Phases, Holding
    <3>2. task' = [task EXCEPT ![i][n] = t]
      BY <2>3
    <3>3. QED  BY <2>1, <2>3, <3>1, <3>2, GoesOn
  <2>4. QED  BY <1>2, <2>2, <2>3 DEF Load
<1>3. CASE Resolve(i, n)
  <2>1. task[i][n].phase \in Holding
    BY <1>3 DEF Resolve, Holding
  <2>2. PICK p \in {"analysing", "saving"} : task' = [task EXCEPT ![i][n].phase = p]
    BY <1>3 DEF Resolve
  <2> DEFINE t == [task[i][n] EXCEPT !.phase = p]
  <2>3. IsTask(t) /\ t.phase \in Holding
    BY PhaseMoves DEF IInv, Holding
  <2>4. task' = [task EXCEPT ![i][n] = t]
    BY <2>2
  <2>5. QED  BY <1>3, <2>1, <2>3, <2>4, GoesOn DEF Resolve
<1>4. CASE SaveCapabilities(i, n)
  <2>1. task[i][n].phase \in Holding
    BY <1>4 DEF SaveCapabilities, Holding
  <2>2. PICK p \in {"analysing", "failing"} : task' = [task EXCEPT ![i][n].phase = p]
    BY <1>4 DEF SaveCapabilities
  <2> DEFINE t == [task[i][n] EXCEPT !.phase = p]
  <2>3. IsTask(t) /\ t.phase \in Holding
    BY PhaseMoves DEF IInv, Holding
  <2>4. task' = [task EXCEPT ![i][n] = t]
    BY <2>2
  <2>5. QED  BY <1>4, <2>1, <2>3, <2>4, GoesOn DEF SaveCapabilities
<1>5. CASE Complete(i, n) \/ Fail(i, n) \/ TimeOut(i, n)
  <2>1. task[i][n].phase \in Holding /\ End(i, n)
    BY <1>5 DEF Complete, Fail, TimeOut, Holding
  <2>2. QED  BY <2>1, GivesBack
<1>6. QED  BY <1>1, <1>2, <1>3, <1>4, <1>5

\* A task alive is the one _running holds: no instance has two.
LEMMA OneTaskEach ==
  ASSUME Shape, OnlyRunning
  PROVE  NeverDoubled
<1> SUFFICES ASSUME NEW i \in Instances
             PROVE  Cardinality({n \in Numbers : task[i][n] # NoTask}) <= 1
  BY DEF NeverDoubled
<1> DEFINE Alive == {n \in Numbers : task[i][n] # NoTask}
<1>1. Alive \in SUBSET {running[i]}
  BY DEF OnlyRunning
<1>2. IsFiniteSet({running[i]}) /\ Cardinality({running[i]}) = 1
  BY FS_Singleton
<1>3. Cardinality(Alive) <= Cardinality({running[i]})
  BY <1>1, <1>2, FS_Subset
<1>4. QED  BY <1>2, <1>3

-----------------------------------------------------------------------------
(* What the operator is shown. *)

Working == Holding \ {"started"}

\* The state shown says "collecting" only for a pass that has loaded its row.
Shown ==
  /\ DOMAIN state = Instances
  /\ \A i \in Instances : "collecting" \in DOMAIN state[i] /\ state[i].collecting \in BOOLEAN
  /\ \A i \in Instances :
       state[i].collecting => \E n \in Numbers : task[i][n].phase \in Working

\* Nothing that is shown becomes true but what the pass of the instance makes true.
LEMMA ShownStays ==
  ASSUME Shown, DOMAIN state' = Instances,
         \A i \in Instances :
           \/ /\ state'[i] = state[i]
              /\ \A n \in Numbers : task[i][n].phase \in Working => task'[i][n].phase \in Working
           \/ "collecting" \in DOMAIN state'[i] /\ state'[i].collecting = FALSE
           \/ /\ "collecting" \in DOMAIN state'[i]
              /\ state'[i].collecting = state[i].collecting
              /\ \A n \in Numbers : task[i][n].phase \in Working => task'[i][n].phase \in Working
           \/ /\ "collecting" \in DOMAIN state'[i] /\ state'[i].collecting = TRUE
              /\ \E n \in Numbers : task'[i][n].phase \in Working
  PROVE  Shown'
<1>1. \A i \in Instances :
        "collecting" \in DOMAIN state'[i] /\ state'[i].collecting \in BOOLEAN
  BY DEF Shown
<1>2. \A i \in Instances :
        state'[i].collecting => \E n \in Numbers : task'[i][n].phase \in Working
  BY DEF Shown
<1>3. QED  BY <1>1, <1>2 DEF Shown

\* What became of the tasks when one of them got the phase p.
LEMMA OneMoves ==
  ASSUME Shape, NEW i \in Instances, NEW n \in Numbers, NEW p \in Holding,
         task' = [task EXCEPT ![i][n].phase = p]
  PROVE  /\ task'[i][n].phase = p
         /\ \A j \in Instances, m \in Numbers : ~(j = i /\ m = n) => task'[j][m] = task[j][m]
<1> DEFINE t == [task[i][n] EXCEPT !.phase = p]
<1>1. IsTask(t) /\ t.phase = p
  BY PhaseMoves
<1>2. task' = [task EXCEPT ![i][n] = t]
  OBVIOUS
<1> HIDE DEF t
<1>3. /\ DOMAIN task' = Instances
      /\ \A j \in Instances : DOMAIN task'[j] = Numbers
      /\ \A j \in Instances, m \in Numbers :
           task'[j][m] = IF j = i /\ m = n THEN t ELSE task[j][m]
      /\ \A j \in Instances, m \in Numbers : IsTask(task'[j][m])
  BY <1>1, <1>2, ReplaceTask
<1>4. QED  BY <1>1, <1>3

\* A pass that ends says so.
LEMMA EndIsShown ==
  ASSUME Shape, Shown, NEW i \in Instances, NEW n \in Numbers, End(i, n),
         \/ state' = [state EXCEPT ![i].collecting = FALSE]
         \/ state' = [state EXCEPT ![i] = NoState]
  PROVE  Shown'
<1>1. DOMAIN state' = Instances /\ \A j \in Instances \ {i} : state'[j] = state[j]
  BY DEF Shown
<1>2. "collecting" \in DOMAIN state'[i] /\ state'[i].collecting = FALSE
  BY DEF Shown, NoState
<1>3. \A j \in Instances \ {i}, m \in Numbers : task'[j][m] = task[j][m]
  BY DEF Shape, End
<1>4. \A j \in Instances :
        \/ /\ state'[j] = state[j]
           /\ \A m \in Numbers : task[j][m].phase \in Working => task'[j][m].phase \in Working
        \/ "collecting" \in DOMAIN state'[j] /\ state'[j].collecting = FALSE
  BY <1>1, <1>2, <1>3
<1>5. QED  BY <1>1, <1>4, ShownStays

\* The steps of a pass keep the list of collecting instances what it must show.
LEMMA PassShows ==
  ASSUME IInv, Shown, NEW i \in Instances, NEW n \in Numbers,
         \/ Acquire(i, n) \/ Load(i, n) \/ Resolve(i, n) \/ SaveCapabilities(i, n)
         \/ Complete(i, n) \/ Fail(i, n) \/ TimeOut(i, n)
  PROVE  Shown'
<1>0. Shape
  BY DEF IInv
<1>1. CASE Acquire(i, n)
  <2>1. task[i][n].phase = "waiting"
    <3>1. waiting # << >> /\ waiting[1] = <<i, n>> /\ 1 \in 1..Len(waiting)
      BY <1>0, <1>1 DEF Shape, Acquire
    <3>2. QED  BY <3>1 DEF IInv, QueueWaits
  <2>2. \A j \in Instances, m \in Numbers : ~(j = i /\ m = n) => task'[j][m] = task[j][m]
    BY <1>0, <1>1, OneMoves DEF Acquire, Holding
  <2>3. \A j \in Instances, m \in Numbers :
          task[j][m].phase \in Working => task'[j][m].phase \in Working
    BY <2>1, <2>2 DEF Working, Holding
  <2>4. state' = state
    BY <1>1 DEF Acquire
  <2>5. QED  BY <2>3, <2>4, ShownStays DEF Shown
<1>2. CASE Load(i, n)
  <2>1. CASE /\ state' = [state EXCEPT ![i].collecting = TRUE]
             /\ task' = [task EXCEPT ![i][n] =
                           [phase |-> "connected", groups |-> @.groups, loaded |-> row[i]]]
    <3>1. /\ DOMAIN state' = Instances /\ \A j \in Instances \ {i} : state'[j] = state[j]
          /\ "collecting" \in DOMAIN state'[i] /\ state'[i].collecting = TRUE
      BY <2>1 DEF Shown
    <3>2. /\ task'[i][n].phase = "connected"
          /\ \A j \in Instances \ {i}, m \in Numbers : task'[j][m] = task[j][m]
      BY <1>0, <2>1 DEF Shape
    <3>3. task'[i][n].phase \in Working
      BY <3>2 DEF Working, Holding
    <3>4. \A j \in Instances :
            \/ /\ state'[j] = state[j]
               /\ \A m \in Numbers : task[j][m].phase \in Working => task'[j][m].phase \in Working
            \/ /\ "collecting" \in DOMAIN state'[j] /\ state'[j].collecting = TRUE
               /\ \E m \in Numbers : task'[j][m].phase \in Working
      BY <3>1, <3>2, <3>3
    <3>5. QED  BY <3>1, <3>4, ShownStays
  <2>2. CASE /\ End(i, n)
             /\ \/ state' = [state EXCEPT ![i].collecting = FALSE]
                \/ state' = [state EXCEPT ![i] = NoState]
    BY <1>0, <2>2, EndIsShown
  <2>3. QED  BY <1>2, <2>1, <2>2 DEF Load
<1>3. CASE Resolve(i, n)
  <2>1. PICK p \in {"analysing", "saving"} : task' = [task EXCEPT ![i][n].phase = p]
    BY <1>3 DEF Resolve
  <2>2. /\ task'[i][n].phase = p
        /\ \A j \in Instances, m \in Numbers : ~(j = i /\ m = n) => task'[j][m] = task[j][m]
    BY <1>0, <2>1, OneMoves DEF Holding
  <2>3. \A j \in Instances, m \in Numbers :
          task[j][m].phase \in Working => task'[j][m].phase \in Working
    BY <2>2 DEF Working, Holding
  <2>4. /\ DOMAIN state' = Instances /\ \A j \in Instances \ {i} : state'[j] = state[j]
        /\ "collecting" \in DOMAIN state'[i]
        /\ state'[i].collecting \in {TRUE, state[i].collecting}
    BY <1>3 DEF Resolve, Shown
  <2>5. task'[i][n].phase \in Working
    BY <2>2 DEF Working, Holding
  <2>6. \A j \in Instances :
          \/ /\ "collecting" \in DOMAIN state'[j] /\ state'[j].collecting = state[j].collecting
             /\ \A m \in Numbers : task[j][m].phase \in Working => task'[j][m].phase \in Working
          \/ /\ "collecting" \in DOMAIN state'[j] /\ state'[j].collecting = TRUE
             /\ \E m \in Numbers : task'[j][m].phase \in Working
    BY <2>3, <2>4, <2>5 DEF Shown
  <2>7. QED  BY <2>4, <2>6, ShownStays
<1>4. CASE SaveCapabilities(i, n)
  <2>1. PICK p \in {"analysing", "failing"} : task' = [task EXCEPT ![i][n].phase = p]
    BY <1>4 DEF SaveCapabilities
  <2>2. /\ task'[i][n].phase = p
        /\ \A j \in Instances, m \in Numbers : ~(j = i /\ m = n) => task'[j][m] = task[j][m]
    BY <1>0, <2>1, OneMoves DEF Holding
  <2>3. \A j \in Instances, m \in Numbers :
          task[j][m].phase \in Working => task'[j][m].phase \in Working
    BY <2>2 DEF Working, Holding
  <2>4. /\ DOMAIN state' = Instances /\ \A j \in Instances \ {i} : state'[j] = state[j]
        /\ "collecting" \in DOMAIN state'[i]
        /\ state'[i].collecting \in {TRUE, state[i].collecting}
    BY <1>4 DEF SaveCapabilities, Shown
  <2>5. task'[i][n].phase \in Working
    BY <2>2 DEF Working, Holding
  <2>6. \A j \in Instances :
          \/ /\ "collecting" \in DOMAIN state'[j] /\ state'[j].collecting = state[j].collecting
             /\ \A m \in Numbers : task[j][m].phase \in Working => task'[j][m].phase \in Working
          \/ /\ "collecting" \in DOMAIN state'[j] /\ state'[j].collecting = TRUE
             /\ \E m \in Numbers : task'[j][m].phase \in Working
    BY <2>3, <2>4, <2>5 DEF Shown
  <2>7. QED  BY <2>4, <2>6, ShownStays
<1>5. CASE Complete(i, n) \/ Fail(i, n) \/ TimeOut(i, n)
  <2>1. End(i, n) /\ state' = [state EXCEPT ![i].collecting = FALSE]
    BY <1>5 DEF Complete, Fail, TimeOut
  <2>2. QED  BY <1>0, <2>1, EndIsShown
<1>6. QED  BY <1>1, <1>2, <1>3, <1>4, <1>5

\* A tick starts tasks of instances that have none at work, and shows nothing.
LEMMA TickShows ==
  ASSUME IInv, Shown, TickStart
  PROVE  Shown'
<1>1. \A i \in Instances, n \in Numbers :
        task[i][n].phase \in Working => task'[i][n].phase \in Working
  <2> SUFFICES ASSUME NEW i \in Instances, NEW n \in Numbers, task[i][n].phase \in Working
               PROVE  task'[i][n].phase \in Working
    OBVIOUS
  <2>1. ~Starts(i)
    BY NotPending DEF Starts, NoTask, Working, Holding
  <2>2. task'[i][n] = task[i][n]
    BY <2>1 DEF TickStart
  <2>3. QED  BY <2>2
<1>2. state' = state
  BY DEF TickStart
<1>3. QED  BY <1>1, <1>2, ShownStays DEF Shown

\* The operator and the clock forget a state or leave it, and touch no task.
LEMMA OthersShow ==
  ASSUME Shown, UNCHANGED task,
         \/ UNCHANGED state
         \/ \E i \in Instances : \/ state' = [state EXCEPT ![i].fresh = FALSE]
                                \/ state' = [state EXCEPT ![i] = NoState]
  PROVE  Shown'
<1>1. CASE UNCHANGED state
  BY <1>1 DEF Shown
<1>2. ASSUME NEW i \in Instances, state' = [state EXCEPT ![i].fresh = FALSE]
      PROVE  Shown'
  <2>1. /\ DOMAIN state' = Instances
        /\ \A j \in Instances : /\ "collecting" \in DOMAIN state'[j]
                               /\ state'[j].collecting = state[j].collecting
    BY <1>2 DEF Shown
  <2>2. QED  BY <2>1, ShownStays
<1>3. ASSUME NEW i \in Instances, state' = [state EXCEPT ![i] = NoState]
      PROVE  Shown'
  <2>1. /\ DOMAIN state' = Instances /\ \A j \in Instances \ {i} : state'[j] = state[j]
        /\ "collecting" \in DOMAIN state'[i] /\ state'[i].collecting = FALSE
    BY <1>3 DEF Shown, NoState
  <2>2. QED  BY <2>1, ShownStays
<1>4. QED  BY <1>1, <1>2, <1>3

\* The invariant of the whole.
LEMMA SchedulerInvariant == Spec => [](IInv /\ Shown)
<1>1. Init => IInv /\ Shown
  <2> SUFFICES ASSUME Init
               PROVE  IInv /\ Shown
    OBVIOUS
  <2>1. DOMAIN state = Instances /\ \A i \in Instances : state[i] = NoState
    BY DEF Init, NoStates
  <2>2. "collecting" \in DOMAIN NoState /\ NoState.collecting = FALSE
    BY DEF NoState
  <2>3. Shown
    BY <2>1, <2>2 DEF Shown
  <2>4. QED  BY <2>3, Starting DEF Init
<1>2. (IInv /\ Shown) /\ [Next]_vars => (IInv /\ Shown)'
  <2> SUFFICES ASSUME IInv, Shown, [Next]_vars
               PROVE  IInv' /\ Shown'
    OBVIOUS
  <2>1. CASE TickStart
    BY <2>1, Ticks, TickShows
  <2>2. CASE TickRead \/ Second \/ \E i \in Instances : Expire(i)
    BY <2>2, LeftAlone, OthersShow DEF TickRead, Second, Expire
  <2>3. ASSUME NEW i \in Instances, NEW n \in Numbers,
               \/ Acquire(i, n) \/ Load(i, n) \/ Resolve(i, n) \/ SaveCapabilities(i, n)
               \/ Complete(i, n) \/ Fail(i, n) \/ TimeOut(i, n)
        PROVE  IInv' /\ Shown'
    BY <2>3, PassSteps, PassShows
  <2>4. CASE Create \/ UpdateSave \/ DeleteRow \/ UNCHANGED vars
    BY <2>4, LeftAlone, OthersShow DEF Create, UpdateSave, DeleteRow, vars
  <2>5. CASE UpdateLoad
    BY <2>5, LeftAlone, OthersShow, SchedulerBoundsAssumption DEF UpdateLoad
  <2>6. CASE \E i \in Edited : DeleteState(i)
    BY <2>6, LeftAlone, OthersShow, SchedulerBoundsAssumption DEF DeleteState
  <2>7. CASE Restart
    <3>1. Shown'
      BY <2>7 DEF Restart, Shown, NoStates, NoState
    <3>2. QED  BY <2>7, <3>1, StartingAgain DEF Restart
  <2>8. QED  BY <2>1, <2>2, <2>3, <2>4, <2>5, <2>6, <2>7 DEF Next
<1>3. QED  BY <1>1, <1>2, PTL DEF Spec

\* The passes at work are of as many instances as slots are taken, whatever the operator
\* does to the instances, and when the process restarts.
THEOREM SchedulerIsSafe == Spec => []SlotsGoToDistinctInstances
<1>1. IInv => SlotsGoToDistinctInstances
  BY OneTaskEach DEF IInv, SlotsGoToDistinctInstances
<1>2. QED  BY <1>1, SchedulerInvariant, PTL

\* The state shown is "collecting" only while a pass of that instance is at work: every
\* way out of a pass, its timeout included, says so.
THEOREM CollectingIsShownTrue == Spec => []CollectingIsTrue
<1>1. Shown => CollectingIsTrue
  BY DEF Shown, CollectingIsTrue, Working
<1>2. QED  BY <1>1, SchedulerInvariant, PTL
-----------------------------------------------------------------------------
(* The types. *)

\* A row that can be analysed, of an instance moved n times at most.
Present(n) == [present : {TRUE}, enabled : BOOLEAN, target : 0..n, caps : {None} \union 0..n]

\* A task that waits, or has a slot; it remembers the row it loaded once it has.
Tasks(n) ==
  {NoTask} \union [phase : {"waiting", "started"}, groups : SUBSET Groups]
    \union [phase : Working, groups : SUBSET Groups, loaded : Present(n)]

Updates(n) ==
  [phase : {"update"}, instance : Instances, loaded : Present(n), enabled : BOOLEAN, moves : {0, 1}]

\* Each move of an instance to another server was asked by a request of its own, the one
\* being served included: so the servers are numbered within the bound.
Typed ==
  /\ spent \in 0..MaxEvents
  /\ row \in [Instances -> Present(spent) \union {Absent, Gone}]
  /\ elapsed \in [Instances -> [Groups -> {Never} \union Nat]]
  /\ \A i \in Instances, g \in Groups : elapsed[i][g] \in {Never} \union 0..IntervalOf(i, g)
  /\ task \in [Instances -> [Numbers -> Tasks(spent)]]
  /\ slots \in Nat
  /\ tick = Idle \/ tick.instances \subseteq Instances
  /\ state \in [Instances -> States]
  /\ request = Idle \/ /\ request \in Updates(spent)
                       /\ request.loaded.target + 1 <= spent

\* An interval is at least a second.
LEMMA IntervalType == \A i \in Instances, g \in Groups : IntervalOf(i, g) \in Nat \ {0}
  BY IntervalAssumption, OwnIntervalAssumption DEF IntervalOf

\* Which rows are present.
LEMMA RowCases ==
  ASSUME NEW n \in Nat, NEW r \in Present(n) \union {Absent, Gone}
  PROVE  /\ r.present \/ r.enabled => r \in Present(n)
         /\ r \in Present(n) => r.enabled \in BOOLEAN
<1>1. r \in Present(n) => r.enabled \in BOOLEAN
  BY DEF Present
<1>2. ~Absent.present /\ ~Absent.enabled /\ ~Gone.present /\ ~Gone.enabled
  BY DEF Absent, Gone
<1>3. QED  BY <1>1, <1>2

\* More requests, more servers.
LEMMA MoreServers ==
  ASSUME NEW n \in Nat, NEW m \in Nat, n <= m
  PROVE  /\ Present(n) \subseteq Present(m) /\ Tasks(n) \subseteq Tasks(m)
         /\ Updates(n) \subseteq Updates(m)
<1>1. 0..n \subseteq 0..m
  OBVIOUS
<1>2. Present(n) \subseteq Present(m)
  BY <1>1 DEF Present
<1>3. QED  BY <1>2 DEF Tasks, Updates

\* A task goes on, or ends, among the others.
LEMMA TaskTyped ==
  ASSUME Typed, NEW i \in Instances, NEW n \in Numbers, NEW t \in Tasks(spent),
         task' = [task EXCEPT ![i][n] = t]
  PROVE  task' \in [Instances -> [Numbers -> Tasks(spent)]]
<1>1. task \in [Instances -> [Numbers -> Tasks(spent)]]
  BY DEF Typed
<1>2. [task[i] EXCEPT ![n] = t] \in [Numbers -> Tasks(spent)]
  BY <1>1
<1>3. QED  BY <1>1, <1>2

\* The steps of the clock and of the ticks keep the types.
LEMMA TicksTyped ==
  ASSUME Typed, IInv, TickRead \/ TickStart \/ Second \/ \E i \in Instances : Expire(i)
  PROVE  Typed'
<1>1. CASE TickRead
  BY <1>1 DEF TickRead, Typed, Idle
<1>2. CASE Second
  <2>1. ASSUME NEW i \in Instances, NEW g \in Groups
        PROVE  elapsed'[i][g] \in {Never} \union 0..IntervalOf(i, g) /\ elapsed'[i][g] \in {Never} \union Nat
    <3>1. /\ elapsed'[i][g] = IF elapsed[i][g] \in {Never, IntervalOf(i, g)} THEN elapsed[i][g]
                              ELSE elapsed[i][g] + 1
          /\ elapsed[i][g] \in {Never} \union 0..IntervalOf(i, g)
      BY <1>2 DEF Second, Typed
    <3>2. IntervalOf(i, g) \in Nat
      BY IntervalType
    <3>3. QED  BY <3>1, <3>2
  <2>2. elapsed' \in [Instances -> [Groups -> {Never} \union Nat]]
    BY <1>2, <2>1 DEF Second
  <2>3. QED  BY <1>2, <2>1, <2>2 DEF Second, Typed
<1>3. CASE TickStart
  <2>1. ASSUME NEW i \in Instances, NEW g \in Groups
        PROVE  elapsed'[i][g] \in {Never} \union 0..IntervalOf(i, g) /\ elapsed'[i][g] \in {Never} \union Nat
    <3>1. elapsed'[i][g] \in {Never, 0, elapsed[i][g]}
      BY <1>3 DEF TickStart
    <3>2. IntervalOf(i, g) \in Nat
      BY IntervalType
    <3>3. elapsed[i][g] \in {Never} \union 0..IntervalOf(i, g)
      BY DEF Typed
    <3>4. QED  BY <3>1, <3>2, <3>3
  <2>2. elapsed' \in [Instances -> [Groups -> {Never} \union Nat]]
    BY <1>3, <2>1 DEF TickStart
  <2>3. task' \in [Instances -> [Numbers -> Tasks(spent)]]
    <3>1. ASSUME NEW i \in Instances
          PROVE  (IF Starts(i) THEN [task[i] EXCEPT ![FreeNumber(i)] = [phase |-> "waiting", groups |-> DueGroups(i)]]
                  ELSE task[i]) \in [Numbers -> Tasks(spent)]
      <4>1. task[i] \in [Numbers -> Tasks(spent)]
        BY DEF Typed
      <4>2. [phase |-> "waiting", groups |-> DueGroups(i)] \in Tasks(spent)
        BY DEF Tasks, DueGroups
      <4>3. QED  BY <4>1, <4>2
    <3>2. QED  BY <1>3, <3>1 DEF TickStart
  <2>4. QED  BY <1>3, <2>1, <2>2, <2>3 DEF TickStart, Typed
<1>4. ASSUME NEW i \in Instances, Expire(i)
      PROVE  Typed'
  <2>1. state' \in [Instances -> States]
    BY <1>4 DEF Expire, Typed, States
  <2>2. QED  BY <1>4, <2>1 DEF Expire, Typed
<1>5. QED  BY <1>1, <1>2, <1>3, <1>4

\* The steps of a pass keep the types: what it saves of a server is what it loaded.
LEMMA PassTyped ==
  ASSUME Typed, IInv, NEW i \in Instances, NEW n \in Numbers,
         \/ Acquire(i, n) \/ Load(i, n) \/ Resolve(i, n) \/ SaveCapabilities(i, n)
         \/ Complete(i, n) \/ Fail(i, n) \/ TimeOut(i, n)
  PROVE  Typed'
<1> DEFINE t == task[i][n]
<1>0. /\ t \in Tasks(spent) /\ task \in [Instances -> [Numbers -> Tasks(spent)]]
      /\ spent \in Nat /\ spent <= MaxEvents /\ MaxEvents \in Nat
      /\ row[i] \in Present(spent) \union {Absent, Gone} /\ state[i] \in States
  BY SchedulerBoundsAssumption DEF Typed
<1>1. NoTask \in Tasks(spent)
  BY DEF Tasks
<1>2. /\ t.phase = "waiting" => t \in [phase : {"waiting", "started"}, groups : SUBSET Groups]
      /\ t.phase = "started" => t \in [phase : {"waiting", "started"}, groups : SUBSET Groups]
      /\ t.phase \in Working => t \in [phase : Working, groups : SUBSET Groups, loaded : Present(spent)]
  BY <1>0 DEF Tasks, NoTask, Working, Holding
<1>3. ASSUME End(i, n), state' \in [Instances -> States]
      PROVE  Typed'
  <2>1. task' \in [Instances -> [Numbers -> Tasks(spent)]]
    BY <1>1, <1>3, TaskTyped DEF End
  <2>2. QED  BY <1>3, <2>1 DEF End, Typed
<1>4. \A b \in BOOLEAN : [state EXCEPT ![i].collecting = b] \in [Instances -> States]
  BY DEF Typed, States
<1>5. CASE Acquire(i, n)
  <2>1. t.phase = "waiting"
    <3>1. waiting # << >> /\ Head(waiting) = <<i, n>>
      BY <1>5 DEF Acquire
    <3>2. waiting \in Seq(Instances \X Numbers)
      BY DEF IInv, Shape
    <3>3. Len(waiting) \in Nat \ {0} /\ waiting[1] = <<i, n>>
      BY <3>1, <3>2
    <3>4. QED  BY <3>3 DEF IInv, QueueWaits
  <2>2. [t EXCEPT !.phase = "started"] \in Tasks(spent)
    <3>1. [t EXCEPT !.phase = "started"] \in [phase : {"waiting", "started"}, groups : SUBSET Groups]
      BY <1>2, <2>1
    <3>2. QED  BY <3>1 DEF Tasks
  <2>3. task' = [task EXCEPT ![i][n] = [t EXCEPT !.phase = "started"]]
    BY <1>0, <1>5 DEF Acquire
  <2> HIDE DEF t
  <2>4. task' \in [Instances -> [Numbers -> Tasks(spent)]]
    BY <2>2, <2>3, TaskTyped
  <2>5. QED  BY <1>5, <2>4 DEF Acquire, Typed
<1>6. CASE Load(i, n)
  <2>1. CASE ~row[i].present /\ state' = [state EXCEPT ![i] = NoState] /\ End(i, n)
    <3>1. state' \in [Instances -> States]
      BY <2>1 DEF Typed, States, NoState
    <3>2. QED  BY <1>3, <2>1, <3>1
  <2>2. CASE state' = [state EXCEPT ![i].collecting = FALSE] /\ End(i, n)
    BY <1>3, <1>4, <2>2
  <2>3. CASE /\ row[i].enabled
             /\ state' = [state EXCEPT ![i].collecting = TRUE]
             /\ task' = [task EXCEPT ![i][n] =
                           [phase |-> "connected", groups |-> @.groups, loaded |-> row[i]]]
             /\ UNCHANGED <<row, elapsed, running, slots, waiting, tick, request, deleting, spent>>
    <3>1. row[i] \in Present(spent)
      BY <1>0, <2>3, RowCases
    <3>2. t.phase = "started"
      BY <1>6 DEF Load
    <3>3. [phase |-> "connected", groups |-> t.groups, loaded |-> row[i]] \in Tasks(spent)
      BY <1>2, <3>1, <3>2 DEF Tasks, Working, Holding
    <3>4. task' = [task EXCEPT ![i][n] = [phase |-> "connected", groups |-> t.groups, loaded |-> row[i]]]
      BY <2>3
    <3> HIDE DEF t
    <3>5. task' \in [Instances -> [Numbers -> Tasks(spent)]]
      BY <3>3, <3>4, TaskTyped
    <3>6. QED  BY <1>4, <2>3, <3>5 DEF Typed
  <2>4. QED  BY <1>6, <2>1, <2>2, <2>3 DEF Load
<1>7. CASE Complete(i, n) \/ Fail(i, n) \/ TimeOut(i, n)
  BY <1>3, <1>4, <1>7 DEF Complete, Fail, TimeOut
<1>8. ASSUME t.phase \in Working, NEW p \in Working, task' = [task EXCEPT ![i][n].phase = p]
      PROVE  task' \in [Instances -> [Numbers -> Tasks(spent)]]
  <2>1. [t EXCEPT !.phase = p] \in Tasks(spent)
    <3>1. [t EXCEPT !.phase = p] \in [phase : Working, groups : SUBSET Groups, loaded : Present(spent)]
      BY <1>2, <1>8
    <3>2. QED  BY <3>1 DEF Tasks
  <2>2. task' = [task EXCEPT ![i][n] = [t EXCEPT !.phase = p]]
    BY <1>0, <1>8
  <2> HIDE DEF t
  <2>3. QED  BY <2>1, <2>2, TaskTyped
<1>9. t.phase \in Working => /\ t.loaded \in Present(spent) /\ t.loaded.target \in 0..spent
                             /\ t.loaded.target \in 0..MaxEvents
  <2>1. t.phase \in Working => t.loaded \in Present(spent)
    BY <1>2
  <2>2. \A l \in Present(spent) : l.target \in 0..spent
    BY DEF Present
  <2>3. 0..spent \subseteq 0..MaxEvents
    BY <1>0
  <2>4. QED  BY <2>1, <2>2, <2>3
<1>10. {"connected", "saving", "analysing", "failing"} = Working
  BY DEF Working, Holding
<1>11. CASE Resolve(i, n)
  <2>1. t.phase \in Working /\ UNCHANGED <<row, elapsed, running, slots, waiting, tick, request, deleting, spent>>
    BY <1>10, <1>11 DEF Resolve
  <2>2. PICK p \in Working : task' = [task EXCEPT ![i][n].phase = p]
    BY <1>10, <1>11 DEF Resolve
  <2>3. \/ state' = [state EXCEPT ![i].collecting = TRUE]
        \/ state' = [state EXCEPT ![i].caps = t.loaded.target, ![i].fresh = TRUE,
                                  ![i].collecting = @ \/ t.loaded.caps = t.loaded.target]
    BY <1>11 DEF Resolve
  <2>4. state' \in [Instances -> States]
    <3>1. [state EXCEPT ![i].collecting = TRUE] \in [Instances -> States]
      BY DEF Typed, States
    <3>2. \A c \in 0..MaxEvents, b \in BOOLEAN :
            [state EXCEPT ![i].caps = c, ![i].fresh = TRUE, ![i].collecting = b] \in [Instances -> States]
      BY DEF Typed, States
    <3>3. (state[i].collecting \/ t.loaded.caps = t.loaded.target) \in BOOLEAN
      OBVIOUS
    <3>4. [state EXCEPT ![i].caps = t.loaded.target, ![i].fresh = TRUE,
                        ![i].collecting = @ \/ t.loaded.caps = t.loaded.target] \in [Instances -> States]
      BY <1>9, <2>1, <3>2, <3>3 DEF Typed, States
    <3>5. QED  BY <2>3, <3>1, <3>4
  <2>5. task' \in [Instances -> [Numbers -> Tasks(spent)]]
    BY <1>8, <2>1, <2>2
  <2>6. QED  BY <2>1, <2>4, <2>5 DEF Typed
<1>12. CASE SaveCapabilities(i, n)
  <2>1. t.phase \in Working /\ UNCHANGED <<elapsed, running, slots, waiting, tick, request, deleting, spent>>
    BY <1>10, <1>12 DEF SaveCapabilities
  <2>2. PICK p \in Working : task' = [task EXCEPT ![i][n].phase = p]
    BY <1>10, <1>12 DEF SaveCapabilities
  <2>3. row' = row \/ (row[i].present /\ row' = [row EXCEPT ![i].caps = t.loaded.target])
    BY <1>12 DEF SaveCapabilities
  <2>4. row' \in [Instances -> Present(spent) \union {Absent, Gone}]
    <3>1. row[i].present => row[i] \in Present(spent)
      BY <1>0, RowCases
    <3>2. \A c \in 0..spent : row[i] \in Present(spent) => [row[i] EXCEPT !.caps = c] \in Present(spent)
      BY DEF Present
    <3>3. \A c : [row EXCEPT ![i].caps = c] = [row EXCEPT ![i] = [row[i] EXCEPT !.caps = c]]
      BY DEF Typed
    <3>4. row \in [Instances -> Present(spent) \union {Absent, Gone}]
      BY DEF Typed
    <3> HIDE DEF t
    <3>5. QED  BY <1>9, <2>1, <2>3, <3>1, <3>2, <3>3, <3>4
  <2>5. task' \in [Instances -> [Numbers -> Tasks(spent)]]
    BY <1>8, <2>1, <2>2
  <2>6. state' \in [Instances -> States]
    <3>1. state' = state \/ state' = [state EXCEPT ![i].collecting = TRUE]
      BY <1>12 DEF SaveCapabilities
    <3>2. [state EXCEPT ![i].collecting = TRUE] \in [Instances -> States]
      BY DEF Typed, States
    <3>3. QED  BY <3>1, <3>2 DEF Typed
  <2>7. QED  BY <2>1, <2>4, <2>5, <2>6 DEF Typed
<1>13. QED  BY <1>5, <1>6, <1>7, <1>11, <1>12

\* The operator's steps keep the types: a move is saved one server further than the row it
\* was asked of, and it was counted when it was asked.
LEMMA OperatorTyped ==
  ASSUME Typed,
         \/ Create \/ UpdateLoad \/ UpdateSave \/ DeleteRow
         \/ \E i \in Edited : DeleteState(i)
  PROVE  Typed'
<1>0. /\ spent \in Nat /\ MaxEvents \in Nat /\ Edited \subseteq Instances /\ NoState \in States
      /\ \A i \in Instances : row[i] \in Present(spent) \union {Absent, Gone}
  BY SchedulerBoundsAssumption DEF Typed, States, NoState
<1>1. ASSUME Spend
      PROVE  /\ spent' = spent + 1 /\ spent' \in 0..MaxEvents
             /\ row \in [Instances -> Present(spent') \union {Absent, Gone}]
             /\ task \in [Instances -> [Numbers -> Tasks(spent')]]
             /\ Updates(spent) \subseteq Updates(spent')
  <2>1. spent' = spent + 1 /\ spent' \in 0..MaxEvents
    BY <1>0, <1>1 DEF Spend
  <2>2. /\ Present(spent) \subseteq Present(spent') /\ Tasks(spent) \subseteq Tasks(spent')
        /\ Updates(spent) \subseteq Updates(spent')
    BY <1>0, <2>1, MoreServers
  <2>3. QED  BY <2>1, <2>2 DEF Typed
<1>2. ASSUME Spend, request' = request
      PROVE  request' = Idle \/ (request' \in Updates(spent') /\ request'.loaded.target + 1 <= spent')
  <2>1. ASSUME request # Idle
        PROVE  request \in Updates(spent) /\ request.loaded.target + 1 <= spent
    BY <2>1 DEF Typed
  <2>2. ASSUME request # Idle
        PROVE  request.loaded.target \in Nat
    <3>1. request.loaded \in Present(spent)
      BY <2>1, <2>2 DEF Updates
    <3>2. request.loaded.target \in 0..spent
      BY <3>1 DEF Present
    <3>3. QED  BY <1>0, <3>2
  <2>3. QED  BY <1>0, <1>1, <1>2, <2>1, <2>2
<1>3. CASE Create
  <2>1. PICK i \in Edited, e \in BOOLEAN : row' = [row EXCEPT ![i] = New(e)]
    BY <1>3 DEF Create
  <2>2. Spend /\ UNCHANGED <<elapsed, running, task, slots, waiting, tick, state, request, deleting>>
    BY <1>3 DEF Create
  <2>3. New(e) \in Present(spent')
    BY <1>1, <2>2 DEF New, Present
  <2>4. row' \in [Instances -> Present(spent') \union {Absent, Gone}]
    BY <1>0, <1>1, <2>1, <2>2, <2>3
  <2>5. QED  BY <1>1, <1>2, <2>2, <2>4 DEF Typed
<1>4. CASE UpdateLoad
  <2>1. Spend /\ UNCHANGED <<row, elapsed, running, task, slots, waiting, tick, deleting>>
    BY <1>4 DEF UpdateLoad
  <2>2. PICK i \in Edited, e \in BOOLEAN, m \in {0, 1} :
          /\ row[i].present
          /\ request' = [phase |-> "update", instance |-> i, loaded |-> row[i], enabled |-> e, moves |-> m]
          /\ state' = IF m = 1 THEN [state EXCEPT ![i] = NoState] ELSE state
    BY <1>4 DEF UpdateLoad
  <2>3. i \in Instances /\ row[i] \in Present(spent)
    BY <1>0, <2>2, RowCases
  <2>4. row[i] \in Present(spent') /\ row[i].target + 1 <= spent'
    <3>1. row[i].target \in 0..spent
      BY <2>3 DEF Present
    <3>2. QED  BY <1>0, <1>1, <2>1, <2>3, <3>1, MoreServers
  <2>5. request' \in Updates(spent') /\ request'.loaded.target + 1 <= spent'
    BY <2>2, <2>3, <2>4 DEF Updates
  <2>6. state' \in [Instances -> States]
    BY <1>0, <2>2, <2>3 DEF Typed
  <2>7. QED  BY <1>1, <2>1, <2>5, <2>6 DEF Typed
<1>5. CASE UpdateSave
  <2>1. /\ request \in Updates(spent) /\ request' = Idle /\ request.loaded.target + 1 \in 0..spent
        /\ UNCHANGED <<elapsed, running, task, slots, waiting, tick, state, deleting, spent>>
    <3>1. request \in Updates(spent) => request.loaded.target \in 0..spent
      BY DEF Updates, Present
    <3>2. QED  BY <1>0, <1>5, <3>1 DEF UpdateSave, Typed
  <2> DEFINE i == request.instance
             loaded == request.loaded
             r == [row[i] EXCEPT
                     !.enabled = IF request.enabled # loaded.enabled THEN request.enabled ELSE @,
                     !.target = IF request.moves = 1 THEN loaded.target + 1 ELSE @,
                     !.caps = IF request.moves = 1 /\ loaded.caps # None THEN None ELSE @]
  <2>2. i \in Instances /\ row \in [Instances -> Present(spent) \union {Absent, Gone}]
    BY <2>1 DEF Updates, Typed
  <2>3. row' = row \/ (row[i].present /\ row' = [row EXCEPT ![i] = r])
    BY <1>5, <2>2 DEF UpdateSave
  <2>4. row[i] \in Present(spent) => r \in Present(spent)
    <3>1. \A e \in BOOLEAN, s \in 0..spent, c \in {None} \union 0..spent :
            row[i] \in Present(spent) =>
              [row[i] EXCEPT !.enabled = e, !.target = s, !.caps = c] \in Present(spent)
      BY DEF Present
    <3>2. row[i] \in Present(spent) => /\ row[i].enabled \in BOOLEAN /\ row[i].target \in 0..spent
                                       /\ row[i].caps \in {None} \union 0..spent
      BY DEF Present
    <3>3. request.enabled \in BOOLEAN
      BY <2>1 DEF Updates
    <3>4. QED  BY <2>1, <3>1, <3>2, <3>3
  <2>5. row[i].present => row[i] \in Present(spent)
    BY <1>0, <2>2, RowCases
  <2> HIDE DEF r, i, loaded
  <2>6. row' \in [Instances -> Present(spent) \union {Absent, Gone}]
    BY <2>2, <2>3, <2>4, <2>5
  <2>7. QED  BY <2>1, <2>6 DEF Typed
<1>6. CASE DeleteRow
  <2>1. Spend /\ UNCHANGED <<elapsed, running, task, slots, waiting, tick, state, request>>
    BY <1>6 DEF DeleteRow
  <2>2. row' \in [Instances -> Present(spent') \union {Absent, Gone}]
    BY <1>0, <1>1, <1>6, <2>1 DEF DeleteRow
  <2>3. QED  BY <1>1, <1>2, <2>1, <2>2 DEF Typed
<1>7. CASE \E i \in Edited : DeleteState(i)
  <2>1. state' \in [Instances -> States]
    BY <1>0, <1>7 DEF DeleteState, Typed
  <2>2. QED  BY <1>7, <2>1 DEF DeleteState, Typed
<1>8. QED  BY <1>3, <1>4, <1>5, <1>6, <1>7

\* What a process has when it starts is typed, whatever the rows.
LEMMA MemoryTyped ==
  ASSUME spent \in 0..MaxEvents, row \in [Instances -> Present(spent) \union {Absent, Gone}],
         elapsed = NoRuns, task = NoTasks, slots = Slots, tick = Idle, state = NoStates, request = Idle
  PROVE  Typed
<1>1. NoState \in States /\ NoTask \in Tasks(spent)
  BY DEF NoState, States, Tasks
<1>2. QED  BY <1>1, SlotsType DEF Typed, NoRuns, NoTasks, NoStates

\* The types hold in every state.
LEMMA TypedInvariant == Spec => []Typed
<1>1. Init => Typed
  <2> SUFFICES ASSUME Init
               PROVE  Typed
    OBVIOUS
  <2>1. spent \in 0..MaxEvents /\ spent = 0
    BY SchedulerBoundsAssumption DEF Init
  <2>2. New(TRUE) \in Present(spent)
    BY <2>1 DEF New, Present
  <2>3. row \in [Instances -> Present(spent) \union {Absent, Gone}]
    BY <2>2 DEF Init
  <2>4. QED  BY <2>1, <2>3, MemoryTyped DEF Init
<1>2. Typed /\ IInv /\ [Next]_vars => Typed'
  <2> SUFFICES ASSUME Typed, IInv, [Next]_vars
               PROVE  Typed'
    OBVIOUS
  <2>1. CASE TickRead \/ TickStart \/ Second \/ \E i \in Instances : Expire(i)
    BY <2>1, TicksTyped
  <2>2. ASSUME NEW i \in Instances, NEW n \in Numbers,
               \/ Acquire(i, n) \/ Load(i, n) \/ Resolve(i, n) \/ SaveCapabilities(i, n)
               \/ Complete(i, n) \/ Fail(i, n) \/ TimeOut(i, n)
        PROVE  Typed'
    BY <2>2, PassTyped
  <2>3. CASE Create \/ UpdateLoad \/ UpdateSave \/ DeleteRow \/ \E i \in Edited : DeleteState(i)
    BY <2>3, OperatorTyped
  <2>4. CASE Restart
    <3>1. spent' \in 0..MaxEvents /\ spent \in Nat /\ spent' \in Nat /\ spent <= spent'
      BY <2>4, SchedulerBoundsAssumption DEF Restart, Spend, Typed
    <3>2. row' \in [Instances -> Present(spent') \union {Absent, Gone}]
      BY <2>4, <3>1, MoreServers DEF Restart, Typed
    <3>3. NoState \in States /\ NoTask \in Tasks(spent')
      BY DEF NoState, States, Tasks
    <3>4. QED  BY <2>4, <3>1, <3>2, <3>3, SlotsType DEF Restart, Typed, NoRuns, NoTasks, NoStates
  <2>5. CASE UNCHANGED vars
    BY <2>5 DEF vars, Typed
  <2>6. QED  BY <2>1, <2>2, <2>3, <2>4, <2>5 DEF Next
<1>3. QED  BY <1>1, <1>2, SchedulerInvariant, PTL DEF Spec

\* The types of what the scheduler keeps: no more free slots than slots, no clock past an
\* interval, no server that no request has moved an instance to.
THEOREM SchedulerIsTyped == Spec => []TypeOK
<1>1. Typed /\ IInv => TypeOK
  <2> SUFFICES ASSUME Typed, IInv
               PROVE  TypeOK
    OBVIOUS
  <2>1. row \in [Instances -> Rows]
    <3>1. Present(spent) \subseteq Present(MaxEvents)
      BY MoreServers, SchedulerBoundsAssumption DEF Typed
    <3>2. QED  BY <3>1 DEF Typed, Rows, Present
  <2>2. ASSUME NEW i \in Instances, NEW n \in Numbers
        PROVE  \/ task[i][n] = NoTask
               \/ task[i][n].phase \in Holding \union {"waiting"} /\ task[i][n].groups \subseteq Groups
    <3>1. task[i][n] \in Tasks(spent)
      BY DEF Typed
    <3>2. QED  BY <3>1 DEF Tasks, Working, Holding
  <2>3. slots \in 0..Slots
    <3>1. Cardinality(Holders) \in Nat
      BY HoldersFinite, FS_CardinalityType
    <3>2. QED  BY <3>1, SlotsType DEF IInv, SlotsAccounted, Typed
  <2>4. QED  BY <2>1, <2>2, <2>3 DEF Typed, IInv, Shape, TypeOK
<1>2. QED  BY <1>1, TypedInvariant, SchedulerInvariant, PTL
=============================================================================
