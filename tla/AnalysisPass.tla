---------------------------- MODULE AnalysisPass ----------------------------
(***************************************************************************)
(* The pass of the scheduler over the rules of one instance                *)
(* (Scheduler/AnalysisService.cs, RunRulesAsync), seen from the guard: the *)
(* RuleHealth rows are loaded once, judged in memory while the rules run,  *)
(* and saved together at the end.  Meanwhile an operator may reactivate a  *)
(* rule, the instance timeout may cancel the pass, a rule may throw what   *)
(* the engine does not catch, and the process may stop.                    *)
(*                                                                         *)
(* Each DbContext writes only the columns whose value differs from what it *)
(* loaded, so two overlapping saves merge column by column.                *)
(*                                                                         *)
(* The clock stands for the instants `now' of the passes; it moves between *)
(* them, as only they read it.                                             *)
(***************************************************************************)
EXTENDS RuleGuardOps, Sequences, Functions

CONSTANTS
  RuleOrder,    \* the rules of the snapshot, in order
  Options,      \* the options of the process
  Setups        \* the setups that are explored together, see SetupsAssumption

ASSUME OptionsAssumption == Options \in GuardOptions

\* A setup has the outcomes a run of a rule may have, the incidents that use up the timeout
\* of an instance, the states of the rows that are reactivated, whether reactivations are kept
\* out of the passes (the code does not), and bounds on time, on the reactivations, and on the
\* crashes and the exceptions.
ASSUME SetupsAssumption ==
  \A setup \in Setups :
    /\ setup.runs \subseteq Outcomes
    /\ setup.budget \in Nat \ {0}
    /\ setup.from \subseteq States
    /\ setup.exclusive \in BOOLEAN
    /\ {setup.clock, setup.resets, setup.faults} \subseteq Nat

Rules == Range(RuleOrder)

VARIABLES
  clock,
  health,     \* the RuleHealth table of the instance
  pass,       \* the pass and the rows it tracks
  request,    \* the reactivation being served
  announced,  \* the notifications enqueued
  shown,      \* InstanceState.QuarantinedRuleIds
  attempts,   \* history: incidents of each rule since its last clean slate
  spent       \* the setup, what each bound has used up, and whether a pass was lost

vars == <<clock, health, pass, request, announced, shown, attempts, spent>>

Runs == spent.setup.runs
PassBudget == spent.setup.budget
Reactivated == spent.setup.from
Exclusive == spent.setup.exclusive
MaxClock == spent.setup.clock
MaxResets == spent.setup.resets
MaxFaults == spent.setup.faults

Idle == [phase |-> "idle"]

TypeOK ==
  /\ clock \in 0..MaxClock
  /\ health \in [Rules -> RuleHealthRows]
  /\ pass = Idle \/ /\ pass.phase \in {"running", "saved"}
                    /\ pass.mem \in [Rules -> RuleHealthRows]
  /\ request = Idle \/ request.loaded \in RuleHealthRows
  /\ \A a \in announced : a.rule \in Rules /\ a.event \in Events /\ a.cycle \in 0..MaxClock
  /\ shown \subseteq Rules
  /\ attempts \in [Rules -> Nat]

Init ==
  /\ clock = 0
  /\ health = [r \in Rules |-> NewState]
  /\ pass = Idle
  /\ request = Idle
  /\ announced = {}
  /\ shown = {}
  /\ attempts = [r \in Rules |-> 0]
  /\ \E setup \in Setups : spent = [setup |-> setup, resets |-> 0, faults |-> 0, passes |-> -1, lost |-> FALSE]

\* Mutant: only the rows whose state changed are written.
Merge_OnNewState(saved, loaded, new) == IF new.state # loaded.state THEN new ELSE saved

\* What a save leaves in the table: the changed columns of the tracked row over
\* the row as it now is.
Merge(saved, loaded, new) ==
  [column \in DOMAIN saved |->
     IF new[column] # loaded[column] THEN new[column] ELSE saved[column]]

SaveTracked ==
  health' = [r \in Rules |-> Merge(health[r], pass.loaded[r], pass.mem[r])]

-----------------------------------------------------------------------------
(* The pass. *)

\* The candidates are the rules of the groups that are due; their order is the
\* snapshot's.  One pass per instant.
PassStart ==
  /\ pass = Idle
  /\ Exclusive => request = Idle
  /\ spent.passes < clock
  /\ spent' = [spent EXCEPT !.passes = clock]
  /\ \E due \in SUBSET Rules \ {{}} :
       pass' = [phase |-> "running", todo |-> due,
                loaded |-> health, mem |-> health,
                crossed |-> {}, used |-> 0]
  /\ UNCHANGED <<clock, health, request, announced, shown, attempts>>

\* The instance timeout has passed: the token of the pass is cancelled.
TimedOut == pass.used >= PassBudget

\* The rules are taken in the order of the snapshot.
Precedes(q, r) ==
  \E i, j \in DOMAIN RuleOrder : i < j /\ RuleOrder[i] = q /\ RuleOrder[j] = r

IsCurrent(r) == r \in pass.todo /\ \A q \in pass.todo : ~Precedes(q, r)

\* The rule is not due, is set aside, is disabled or not applicable: on to the next.
SkipRule(r) ==
  /\ pass.phase = "running" /\ IsCurrent(r) /\ ~TimedOut
  /\ pass' = [pass EXCEPT
       !.todo = @ \ {r},
       !.mem[r] = AfterGuard(Options, @, clock)]
  /\ UNCHANGED <<clock, health, request, announced, shown, attempts, spent>>

RunRule(r) ==
  /\ pass.phase = "running" /\ IsCurrent(r) /\ ~TimedOut
  /\ ~SkippedByGuard(Options, pass.mem[r], clock)
  /\ \E outcome \in Runs :
       LET result == Record(Options, AfterGuard(Options, pass.mem[r], clock), outcome, clock)
           incident == IsIncident(Options, outcome)
       IN /\ pass' = [pass EXCEPT
               !.todo = @ \ {r},
               !.mem[r] = result.row,
               !.crossed = IF result.transition = NoChange THEN @
                           ELSE @ \union {[rule |-> r, transition |-> result.transition]},
               !.used = IF incident THEN @ + 1 ELSE @]
          /\ attempts' = [attempts EXCEPT ![r] = IF incident THEN @ + 1 ELSE 0]
  /\ UNCHANGED <<clock, health, request, announced, shown, spent>>

\* Mutant: only the rules of this pass are shown as set aside.
SetAsideRules_OfThisPass ==
  {r \in Rules : pass.mem[r] # pass.loaded[r] /\ IsQuarantined(Options, pass.mem[r], clock)}

SetAsideRules == {r \in Rules : IsQuarantined(Options, pass.mem[r], clock)}

\* OperationCanceledException: RunAsync saves nothing.  After the last rule the list that is
\* shown has been rebuilt, as it is before the save that is cancelled.
PassCancel ==
  /\ pass.phase = "running" /\ TimedOut
  /\ shown' = IF pass.todo = {} THEN SetAsideRules ELSE shown
  /\ pass' = Idle
  /\ spent' = [spent EXCEPT !.lost = TRUE]
  /\ UNCHANGED <<clock, health, request, announced, attempts>>

\* Any other exception: RunAsync records LastError, and the save that does so also
\* writes the rows the pass had changed.
PassBreak ==
  /\ pass.phase = "running" /\ ~TimedOut
  /\ spent.faults < MaxFaults
  /\ spent' = [spent EXCEPT !.faults = @ + 1, !.lost = TRUE]
  /\ SaveTracked
  /\ pass' = Idle
  /\ UNCHANGED <<clock, request, announced, shown, attempts>>

PassSave ==
  /\ pass.phase = "running" /\ pass.todo = {} /\ ~TimedOut
  /\ shown' = SetAsideRules
  /\ SaveTracked
  /\ pass' = [pass EXCEPT !.phase = "saved"]
  /\ UNCHANGED <<clock, request, announced, attempts, spent>>

\* Mutant: only the first threshold crossed is announced.
Notices_QuarantineOnly ==
  {[rule |-> c.rule, event |-> c.transition, cycle |-> Cycle(pass.mem[c.rule], c.transition)] :
     c \in {x \in pass.crossed : x.transition = ToQuarantined}}

Notices ==
  {[rule |-> c.rule, event |-> c.transition, cycle |-> Cycle(pass.mem[c.rule], c.transition)] :
     c \in {x \in pass.crossed : x.transition \in Events}}

\* PublishGuardEvents; the reconciliation that follows is in FindingLifecycle.
PassPublish ==
  /\ pass.phase = "saved"
  /\ announced' = announced \union Notices
  /\ pass' = Idle
  /\ UNCHANGED <<clock, health, request, shown, attempts, spent>>

-----------------------------------------------------------------------------
(* RulesController.Reactivate, the clock and the process. *)

\* The rows that exist are reset; a rule that never failed has none, or one that is clean.
ReactivateLoad ==
  /\ request = Idle
  /\ Exclusive => pass = Idle
  /\ spent.resets < MaxResets
  /\ spent' = [spent EXCEPT !.resets = @ + 1]
  /\ \E r \in Rules :
       /\ health[r] # NewState /\ health[r].state \in Reactivated
       /\ request' = [phase |-> "loaded", rule |-> r, loaded |-> health[r]]
  /\ UNCHANGED <<clock, health, pass, announced, shown, attempts>>

\* Mutant: reactivating only lifts the quarantine.
ReactivateSave_StateOnly ==
  /\ request # Idle
  /\ health' = [health EXCEPT
       ![request.rule].state = Healthy, ![request.rule].until = NoTime]
  /\ attempts' = [attempts EXCEPT ![request.rule] = 0]
  /\ request' = Idle
  /\ UNCHANGED <<clock, pass, announced, shown, spent>>

ReactivateSave ==
  /\ request # Idle
  /\ health' = [health EXCEPT
       ![request.rule] = Merge(@, request.loaded, Reactivate(request.loaded))]
  /\ attempts' = [attempts EXCEPT ![request.rule] = 0]
  /\ request' = Idle
  /\ UNCHANGED <<clock, pass, announced, shown, spent>>

Tick ==
  /\ pass = Idle
  /\ clock < MaxClock
  /\ clock' = clock + 1
  /\ UNCHANGED <<health, pass, request, announced, shown, attempts, spent>>

\* The table survives; the instance states, the pass and the request do not.
Crash ==
  /\ spent.faults < MaxFaults
  /\ spent' = [spent EXCEPT !.faults = @ + 1, !.lost = TRUE]
  /\ pass' = Idle
  /\ request' = Idle
  /\ shown' = {}
  /\ UNCHANGED <<clock, health, announced, attempts>>

Next ==
  \/ \E r \in Rules : SkipRule(r) \/ RunRule(r)
  \/ PassStart \/ PassCancel \/ PassBreak
  \/ PassSave \/ PassPublish
  \/ ReactivateLoad \/ ReactivateSave
  \/ Tick \/ Crash

Spec == Init /\ [][Next]_vars

-----------------------------------------------------------------------------
(* Properties. *)

Guarded(r) == INSTANCE GuardedRow
  WITH Configs <- {Options}, row <- health[r], Runs <- UNION {setup.runs : setup \in Setups}

\* Each row evolves as the atomic guard says, although it is loaded, judged and
\* saved apart, and lost passes included: the pass implements GuardedRow.
RowsAreGuarded ==
  /\ \A r \in Rules : Guarded(r)!Init
  /\ [][\A r \in Rules : [Guarded(r)!Next]_<<health[r], clock>>]_vars

\* What follows holds as long as no pass is cancelled or broken, no crash cuts one, and
\* no reactivation overlaps one.
InTurn == ~spent.lost /\ Exclusive

\* A rule that is degraded or set aside in the table was announced in its current
\* episode, once the pass that judged it is over.
NoSilentRow ==
  InTurn /\ (pass = Idle \/ pass.phase = "running") =>
    \A r \in Rules : health[r].state # Healthy =>
      \E a \in announced : a.rule = r /\ a.cycle >= health[r].since

\* "La liste est reconstruite depuis la memoire complete de l'instance": the rules
\* shown as set aside cover every group, not only the last one to run.
ShownIsComplete ==
  InTurn /\ pass = Idle =>
    \A r \in Rules : IsQuarantined(Options, health[r], clock) => r \in shown

\* A rule that never recovers is not run more often than its quarantine threshold,
\* plus once per quarantine served (RULES.md, Cost guard).
CostIsCapped ==
  \A r \in Rules : Options.enabled =>
    attempts[r] <= QuarantineThreshold(Options) + health[r].count

\* The same of passes that run to their end, one actor at a time.
CostIsCappedInTurn == InTurn => CostIsCapped

\* "It starts from a clean slate" (RULES.md): at rest, a row has no more strikes than
\* the incidents that followed its last reactivation.
ReactivationIsClean ==
  pass = Idle => \A r \in Rules : Strikes(health[r]) <= attempts[r]

\* The same of reactivations that no pass overlaps, as long as no pass is lost: a success
\* that is lost is forgotten too, and the strikes that came before it are not.
ReactivationIsCleanInTurn == InTurn => ReactivationIsClean
=============================================================================
