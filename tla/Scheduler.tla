------------------------------ MODULE Scheduler ------------------------------
(***************************************************************************)
(* The scheduler (Scheduler/SchedulerService.cs) and the passes it starts  *)
(* (AnalysisService.RunAsync), seen from outside the rules: who is         *)
(* analysed when, how many at once, what a pass leaves in the state shown  *)
(* to the operator, and which server's capabilities it remembers, while    *)
(* the operator adds, edits, disables and deletes instances.               *)
(*                                                                         *)
(* A tick reads the enabled instances, waits for the database, then starts *)
(* in one go the passes that are due.  Dates are kept as the seconds gone  *)
(* by since, counted up to the interval.  The purge of orphans             *)
(* that a tick may run first is in FindingLifecycle.                       *)
(***************************************************************************)
EXTENDS Integers, Sequences, FiniteSets, SequencesExt

CONSTANTS
  Instances,     \* the identifiers of connections, never used twice
  Groups,        \* RuleGroups
  Interval,      \* SchedulerOptions.Intervals, in seconds
  HealthGroup,   \* the group whose interval an instance may replace
  OwnInterval,   \* CollectionIntervalSeconds of each instance, 0 for none; it is not edited
  MaxConcurrent, \* SchedulerOptions.MaxConcurrentInstances
  Edited,        \* bound on the instances the operator touches
  MaxEvents      \* bound on the operator's requests and the restarts, together

ASSUME InstancesAssumption == IsFiniteSet(Instances)
ASSUME HealthAssumption == HealthGroup \in Groups
ASSUME IntervalAssumption == Interval \in [Groups -> Nat \ {0}]
ASSUME OwnIntervalAssumption == OwnInterval \in [Instances -> Int]
ASSUME SchedulerBoundsAssumption ==
  MaxConcurrent \in Int /\ Edited \subseteq Instances /\ MaxEvents \in Nat

VARIABLES
  row,       \* the PostgresConnections table
  elapsed,   \* _lastRun: seconds since each group of an instance was started
  running,   \* _running: the last task started for an instance, 0 for none
  task,      \* the tasks themselves, completed or not
  slots,     \* the free slots of the semaphore
  waiting,   \* its queue: the tasks that wait for a slot
  tick,      \* the tick at work
  state,     \* InstanceStateStore
  request,   \* the update of a connection being served
  deleting,  \* the instances deleted, whose state is not forgotten yet
  spent      \* how much of the bound is used up

vars == <<row, elapsed, running, task, slots, waiting, tick, state, request, deleting,
               spent>>

Never == -1
None == -1
Idle == [phase |-> "idle"]

\* A connection: to which server it points, and whose capabilities it has saved;
\* not added yet, or deleted.
Absent == [present |-> FALSE, enabled |-> FALSE, target |-> 0, caps |-> None]
New(e) == [present |-> TRUE, enabled |-> e, target |-> 0, caps |-> None]
Gone == [Absent EXCEPT !.target = None]
Rows == [present : {TRUE}, enabled : BOOLEAN, target : 0..MaxEvents, caps : {None} \union 0..MaxEvents]
          \union {Absent, Gone}

\* InstanceState, with CollectionState either one of those of a pass, "collecting" or
\* "analyzing", or one of those of an instance at rest.  An entry that does not exist reads like a new one.
NoState == [collecting |-> FALSE, caps |-> None, fresh |-> FALSE]
States == [collecting : BOOLEAN, caps : {None} \union 0..MaxEvents, fresh : BOOLEAN]

\* Two tasks of an instance can be told apart, so that passes may overlap in the model.
Numbers == 1..2
NoTask == [phase |-> "none"]
Holding == {"started", "connected", "saving", "analysing", "failing"}

IntervalOf(i, g) ==
  IF g = HealthGroup /\ OwnInterval[i] > 0 THEN OwnInterval[i] ELSE Interval[g]

Slots == IF MaxConcurrent >= 1 THEN MaxConcurrent ELSE 1

TypeOK ==
  /\ row \in [Instances -> Rows]
  /\ elapsed \in [Instances -> [Groups -> {Never} \union Nat]]
  /\ \A i \in Instances, g \in Groups : elapsed[i][g] \in {Never} \union 0..IntervalOf(i, g)
  /\ running \in [Instances -> {0} \union Numbers]
  /\ \A i \in Instances, n \in Numbers :
       \/ task[i][n] = NoTask
       \/ task[i][n].phase \in Holding \union {"waiting"} /\ task[i][n].groups \subseteq Groups
  /\ slots \in 0..Slots
  /\ waiting \in Seq(Instances \X Numbers)
  /\ tick = Idle \/ tick.instances \subseteq Instances
  /\ state \in [Instances -> States]

\* What a process that starts has in memory.
NoRuns == [i \in Instances |-> [g \in Groups |-> Never]]
NoneRunning == [i \in Instances |-> 0]
NoTasks == [i \in Instances |-> [n \in Numbers |-> NoTask]]
NoStates == [i \in Instances |-> NoState]

Init ==
  /\ row \in [Instances -> {Absent, New(TRUE)}]
  /\ \A i \in Instances \ Edited : row[i] = New(TRUE)
  /\ elapsed = NoRuns /\ running = NoneRunning /\ task = NoTasks /\ slots = Slots /\ waiting = << >>
  /\ tick = Idle /\ state = NoStates /\ request = Idle /\ deleting = {}
  /\ spent = 0

-----------------------------------------------------------------------------
(* The ticks. *)

TickRead ==
  /\ tick = Idle
  /\ tick' = [phase |-> "read", instances |-> {i \in Instances : row[i].enabled}]
  /\ UNCHANGED <<row, elapsed, running, task, slots, waiting, state, request, deleting, spent>>

DueGroups(i) ==
  {g \in Groups : elapsed[i][g] = Never \/ elapsed[i][g] >= IntervalOf(i, g)}

\* Mutant: a task that has completed still counts.
Pending_UntilRemoved(i) == running[i] # 0

Pending(i) == running[i] # 0 /\ task[i][running[i]] # NoTask

Starts(i) == i \in tick.instances /\ ~Pending(i) /\ DueGroups(i) # {}

FreeNumber(i) == CHOOSE n \in Numbers : task[i][n] = NoTask

\* Mutant: _running forgets the instances that are not enabled, as _lastRun does.
RunningAfter_Purged(i) ==
  IF Starts(i) THEN FreeNumber(i)
  ELSE IF i \in tick.instances /\ Pending(i) THEN running[i] ELSE 0

RunningAfter(i) ==
  IF Starts(i) THEN FreeNumber(i)
  ELSE IF i \in tick.instances /\ ~Pending(i) THEN 0 ELSE running[i]

\* No await from here to the end of TickAsync: the tasks only wait for their slot.
TickStart ==
  /\ tick # Idle
  /\ running' = [i \in Instances |-> RunningAfter(i)]
  /\ task' = [i \in Instances |->
                IF Starts(i)
                  THEN [task[i] EXCEPT ![FreeNumber(i)] =
                          [phase |-> "waiting", groups |-> DueGroups(i)]]
                  ELSE task[i]]
  /\ elapsed' = [i \in Instances |-> [g \in Groups |->
                   IF i \notin tick.instances THEN Never
                   ELSE IF Starts(i) /\ g \in DueGroups(i) THEN 0
                   ELSE elapsed[i][g]]]
  /\ waiting' = waiting \o SetToSeq({<<i, FreeNumber(i)>> : i \in {j \in Instances : Starts(j)}})
  /\ tick' = Idle
  /\ UNCHANGED <<row, slots, state, request, deleting, spent>>

Second ==
  /\ elapsed' = [i \in Instances |-> [g \in Groups |->
                   IF elapsed[i][g] \in {Never, IntervalOf(i, g)} THEN elapsed[i][g]
                   ELSE elapsed[i][g] + 1]]
  /\ elapsed' # elapsed
  /\ UNCHANGED <<row, running, task, slots, waiting, tick, state, request, deleting,
               spent>>

\* The capabilities in memory become older than CapabilityRefresh.
Expire(i) ==
  /\ state[i].fresh
  /\ state' = [state EXCEPT ![i].fresh = FALSE]
  /\ UNCHANGED <<row, elapsed, running, task, slots, waiting, tick, request, deleting, spent>>

-----------------------------------------------------------------------------
(* A pass: RunInstanceAsync and, once it has its slot, RunAsync. *)

\* SemaphoreSlim gives a free slot to the task that has waited longest.
Acquire(i, n) ==
  /\ slots > 0 /\ waiting # << >> /\ Head(waiting) = <<i, n>>
  /\ waiting' = Tail(waiting)
  /\ slots' = slots - 1
  /\ task' = [task EXCEPT ![i][n].phase = "started"]
  /\ UNCHANGED <<row, elapsed, running, tick, state, request, deleting, spent>>

\* Mutant: no `finally' around the pass.
End_KeepsSlot(i, n) ==
  /\ task' = [task EXCEPT ![i][n] = NoTask]
  /\ UNCHANGED <<row, elapsed, running, slots, waiting, tick, request, deleting, spent>>

\* The task completes and gives its slot back; _running keeps it until the next tick.
End(i, n) ==
  /\ task' = [task EXCEPT ![i][n] = NoTask]
  /\ slots' = slots + 1
  /\ UNCHANGED <<row, elapsed, running, waiting, tick, request, deleting, spent>>

\* The row as it is once the slot is acquired, not as the tick saw it.
Load(i, n) ==
  /\ task[i][n].phase = "started"
  /\ \/ /\ ~row[i].present
        /\ state' = [state EXCEPT ![i] = NoState]
        /\ End(i, n)
     \/ /\ row[i].present /\ ~row[i].enabled
        /\ state' = [state EXCEPT ![i].collecting = FALSE]
        /\ End(i, n)
     \/ /\ row[i].enabled
        /\ state' = [state EXCEPT ![i].collecting = TRUE]
        /\ task' = [task EXCEPT ![i][n] =
                      [phase |-> "connected", groups |-> @.groups, loaded |-> row[i]]]
        /\ UNCHANGED <<row, elapsed, running, slots, waiting, tick, request, deleting, spent>>

\* Mutant: capabilities once in memory are never detected again.
Cached_WithoutAge(i) == state[i].caps # None

Cached(i) == state[i].caps # None /\ state[i].fresh

\* ResolveCapabilitiesAsync: what the server the pass is connected to says goes to the
\* state...  Once they are known the state reads "analyzing", were it forgotten meanwhile.
Resolve(i, n) ==
  /\ task[i][n].phase = "connected"
  /\ LET loaded == task[i][n].loaded
     IN IF Cached(i)
          THEN /\ task' = [task EXCEPT ![i][n].phase = "analysing"]
               /\ state' = [state EXCEPT ![i].collecting = TRUE]
          ELSE /\ task' = [task EXCEPT ![i][n].phase =
                             IF loaded.caps # loaded.target THEN "saving" ELSE "analysing"]
               /\ state' = [state EXCEPT ![i].caps = loaded.target, ![i].fresh = TRUE,
                                         ![i].collecting = @ \/ loaded.caps = loaded.target]
  /\ UNCHANGED <<row, elapsed, running, slots, waiting, tick, request, deleting, spent>>

\* ...then, when it differs from what the pass loaded, to the row, if it is still there.
SaveCapabilities(i, n) ==
  /\ task[i][n].phase = "saving"
  /\ IF row[i].present
       THEN /\ row' = [row EXCEPT ![i].caps = task[i][n].loaded.target]
            /\ task' = [task EXCEPT ![i][n].phase = "analysing"]
            /\ state' = [state EXCEPT ![i].collecting = TRUE]
       ELSE /\ task' = [task EXCEPT ![i][n].phase = "failing"]
            /\ UNCHANGED <<row, state>>
  /\ UNCHANGED <<elapsed, running, slots, waiting, tick, request, deleting, spent>>

\* The rules have run; the save of LastCollectedAt needs the row.
Complete(i, n) ==
  /\ task[i][n].phase = "analysing" /\ row[i].present
  /\ state' = [state EXCEPT ![i].collecting = FALSE]
  /\ End(i, n)

\* The server does not answer, a save is refused...
Fail(i, n) ==
  /\ task[i][n].phase \in {"connected", "analysing", "failing"}
  /\ state' = [state EXCEPT ![i].collecting = FALSE]
  /\ End(i, n)

\* Mutant: a cancelled pass leaves the state as it is.
TimeOut_KeepsState(i, n) ==
  /\ task[i][n].phase \in {"connected", "analysing"}
  /\ UNCHANGED state
  /\ End(i, n)

\* PerInstanceTimeout, which leaves ample time to load the row and to save it.
TimeOut(i, n) ==
  /\ task[i][n].phase \in {"connected", "analysing"}
  /\ state' = [state EXCEPT ![i].collecting = FALSE]
  /\ End(i, n)

-----------------------------------------------------------------------------
(* ConnectionsController and the process. *)

Spend == spent < MaxEvents /\ spent' = spent + 1

Create ==
  /\ Spend
  /\ \E i \in Edited, e \in BOOLEAN :
       /\ row[i] = Absent
       /\ row' = [row EXCEPT ![i] = New(e)]
  /\ UNCHANGED <<elapsed, running, task, slots, waiting, tick, state, request, deleting>>

\* Update loads the row and, when the server changes, forgets the state at once...
UpdateLoad ==
  /\ request = Idle
  /\ Spend
  /\ \E i \in Edited, e \in BOOLEAN, moves \in {0, 1} :
       /\ row[i].present
       /\ e # row[i].enabled \/ moves = 1
       /\ request' = [phase |-> "update", instance |-> i, loaded |-> row[i],
                      enabled |-> e, moves |-> moves]
       /\ state' = IF moves = 1 THEN [state EXCEPT ![i] = NoState] ELSE state
  /\ UNCHANGED <<row, elapsed, running, task, slots, waiting, tick, deleting>>

\* Mutant: the save writes back a row that was deleted meanwhile.
UpdateSave_Upsert ==
  /\ request # Idle
  /\ LET i == request.instance
         loaded == request.loaded
     IN row' = [row EXCEPT
                 ![i].enabled = IF request.enabled # loaded.enabled THEN request.enabled ELSE @,
                 ![i].target = IF request.moves = 1 THEN loaded.target + 1 ELSE @,
                 ![i].caps = IF request.moves = 1 /\ loaded.caps # None THEN None ELSE @]
  /\ request' = Idle
  /\ UNCHANGED <<elapsed, running, task, slots, waiting, tick, state, deleting, spent>>

\* ...then saves the columns that changed; a row deleted meanwhile refuses it.
UpdateSave ==
  /\ request # Idle
  /\ LET i == request.instance
         loaded == request.loaded
     IN row' = IF ~row[i].present THEN row
               ELSE [row EXCEPT
                 ![i].enabled = IF request.enabled # loaded.enabled THEN request.enabled ELSE @,
                 ![i].target = IF request.moves = 1 THEN loaded.target + 1 ELSE @,
                 ![i].caps = IF request.moves = 1 /\ loaded.caps # None THEN None ELSE @]
  /\ request' = Idle
  /\ UNCHANGED <<elapsed, running, task, slots, waiting, tick, state, deleting, spent>>

DeleteRow ==
  /\ Spend
  /\ \E i \in Edited :
       /\ row[i].present
       /\ row' = [row EXCEPT ![i] = Gone]
       /\ deleting' = deleting \union {i}
  /\ UNCHANGED <<elapsed, running, task, slots, waiting, tick, state, request>>

DeleteState(i) ==
  /\ i \in deleting
  /\ state' = [state EXCEPT ![i] = NoState]
  /\ deleting' = deleting \ {i}
  /\ UNCHANGED <<row, elapsed, running, task, slots, waiting, tick, request, spent>>

\* The process stops and starts again.
Restart ==
  /\ Spend
  /\ elapsed' = NoRuns /\ running' = NoneRunning /\ task' = NoTasks /\ slots' = Slots /\ waiting' = << >>
  /\ tick' = Idle /\ state' = NoStates /\ request' = Idle /\ deleting' = {}
  /\ UNCHANGED row

Next ==
  \/ TickRead \/ TickStart \/ Second
  \/ \E i \in Instances : Expire(i)
  \/ \E i \in Instances, n \in Numbers :
       \/ Acquire(i, n) \/ Load(i, n) \/ Resolve(i, n) \/ SaveCapabilities(i, n)
       \/ Complete(i, n) \/ Fail(i, n) \/ TimeOut(i, n)
  \/ Create \/ UpdateLoad \/ UpdateSave \/ DeleteRow
  \/ \E i \in Edited : DeleteState(i)
  \/ Restart

Spec == Init /\ [][Next]_vars

\* The timer ticks and time passes; a pass that has its slot ends, if only by its
\* timeout; a free slot is taken; and the servers answer again and again
\* (nothing can be known of one that never does).
PassGoesOn(i, n) ==
  Load(i, n) \/ SaveCapabilities(i, n) \/ Complete(i, n) \/ Fail(i, n) \/ TimeOut(i, n)

Fairness ==
  /\ WF_vars(TickRead) /\ WF_vars(TickStart) /\ WF_vars(Second)
  /\ WF_vars(UpdateSave) /\ WF_vars(\E i \in Edited : DeleteState(i))
  /\ \A i \in Instances :
       /\ WF_vars(Expire(i))
       /\ WF_vars(\E n \in Numbers : Acquire(i, n))
       /\ WF_vars(\E n \in Numbers : PassGoesOn(i, n))
       /\ SF_vars(\E n \in Numbers : Resolve(i, n))

FairSpec == Spec /\ Fairness

-----------------------------------------------------------------------------
(* Properties. *)

Holders == {x \in Instances \X Numbers : task[x[1]][x[2]].phase \in Holding}

\* "Une analyse en cours n'est jamais doublee": at most one task of an instance is alive,
\* also when it is disabled and enabled again, or deleted, while a pass is at work.
NeverDoubled ==
  \A i \in Instances : Cardinality({n \in Numbers : task[i][n] # NoTask}) <= 1

\* Every way out of a pass gives its slot back, once.
SlotsAccounted == slots + Cardinality(Holders) = Slots

\* No more passes at work than slots, and of as many instances: SemaphoreSlim bounds the
\* passes, _running keeps two of them from being of one instance.
SlotsGoToDistinctInstances == NeverDoubled /\ SlotsAccounted

\* The state shown is "collecting" or "analyzing" only while a pass of that instance is at work.
CollectingIsTrue ==
  \A i \in Instances :
    state[i].collecting =>
      \E n \in Numbers : task[i][n].phase \in Holding \ {"started"}

Serves(i, g) ==
  \E n \in Numbers : task[i][n].phase \in Holding /\ g \in task[i][n].groups

\* A slow or failing instance starves no other: each group of an instance that stays
\* enabled is analysed again and again, however few the slots.
NoStarvation ==
  \A i \in Instances, g \in Groups : <>[](row[i].enabled) => []<>Serves(i, g)

\* "The target changed: previously detected capabilities are no longer reliable": once
\* the operator rests, the capabilities of an enabled instance end up those of the server
\* it points to, although a pass connected to the old one may have saved them later.
CapabilitiesConverge ==
  <>[](\A i \in Instances : row[i].enabled =>
         row[i].caps = row[i].target /\ state[i].caps = row[i].target)
=============================================================================
