----------------------------- MODULE RuleGuard -----------------------------
(***************************************************************************)
(* The life of one RuleHealth row: the cost guard of one rule on one       *)
(* instance, driven by the analysis passes of the scheduler, by the        *)
(* operator who reactivates a rule, and by restarts of the process, which  *)
(* may change the thresholds but keep the row.                             *)
(*                                                                         *)
(* A pass is atomic here: the row is loaded, judged and saved in one step. *)
(* AnalysisPass splits it, and says what the split costs.                  *)
(*                                                                         *)
(* A rule that was never run has no row; it behaves as NewState, which is  *)
(* what the first recorded run inserts.                                    *)
(***************************************************************************)
EXTENDS RuleGuardOps, FiniteSets

CONSTANTS
  Configs,    \* the option records the process may be started with
  Runs,       \* the outcomes a run of the rule may have
  MaxClock    \* bound on time: the last instant of the model

ASSUME ConfigsAssumption == Configs \subseteq GuardOptions
ASSUME RunsAssumption == Runs \subseteq Outcomes
ASSUME MaxClockAssumption == MaxClock \in Nat

VARIABLES
  opt,        \* the options of the running process
  clock,      \* seconds
  lastPass,   \* instant of the last pass that looked at the rule
  row,        \* the persisted RuleHealth row
  announced,  \* the notifications enqueued so far
  \* History, read by the properties only.
  slate,      \* how many times incidents were wiped off the slate
  incidents,  \* incidents run since it was wiped
  settled,    \* no restart changed the options since the first of them
  firstAside  \* instant of the first quarantine of this slate

vars == <<opt, clock, lastPass, row, announced, slate, incidents, settled, firstAside>>

Announcements == [event : Events, cycle : Nat, slate : Nat]

TypeOK ==
  /\ opt \in Configs
  /\ clock \in Nat
  /\ lastPass \in Times
  /\ row \in RuleHealthRows
  /\ announced \subseteq Announcements
  /\ slate \in Nat
  /\ incidents \in Nat
  /\ settled \in BOOLEAN
  /\ firstAside \in Times

Init ==
  /\ opt \in Configs
  /\ clock = 0
  /\ lastPass = NoTime
  /\ row = NewState
  /\ announced = {}
  /\ slate = 0
  /\ incidents = 0
  /\ settled = TRUE
  /\ firstAside = NoTime

\* The scheduler never gives two passes of an instance the same second: the
\* groups are due at intervals of many seconds and passes do not overlap.
PassDue == lastPass < clock

\* Wiping a slate without incidents starts no new episode.
WipeHistory ==
  /\ slate' = IF incidents > 0 THEN slate + 1 ELSE slate
  /\ incidents' = 0
  /\ settled' = TRUE
  /\ firstAside' = NoTime

-----------------------------------------------------------------------------
\* The pass leaves the rule aside, or finds it disabled or not applicable once
\* the guard has let it through: nothing is recorded.
PassOver ==
  /\ PassDue
  /\ row' = AfterGuard(opt, row, clock)
  /\ lastPass' = clock
  /\ UNCHANGED <<opt, clock, announced, slate, incidents, settled, firstAside>>

\* The pass runs the rule, records the run, saves the row and enqueues the
\* notification of the threshold it crossed.
RunRule ==
  /\ PassDue
  /\ ~SkippedByGuard(opt, row, clock)
  /\ \E outcome \in Runs :
       LET result == Record(opt, AfterGuard(opt, row, clock), outcome, clock)
           crossed == result.transition
       IN /\ row' = result.row
          /\ announced' =
               IF crossed \in Events
                 THEN announced \union {[event |-> crossed,
                                         cycle |-> Cycle(result.row, crossed),
                                         slate |-> slate]}
                 ELSE announced
          /\ IF IsIncident(opt, outcome)
               THEN /\ incidents' = incidents + 1
                    /\ firstAside' = IF crossed = ToQuarantined /\ firstAside = NoTime
                                       THEN clock ELSE firstAside
                    /\ UNCHANGED <<slate, settled>>
               ELSE WipeHistory
  /\ lastPass' = clock
  /\ UNCHANGED <<opt, clock>>

\* POST /api/rules/{id}/reactivate, at any time.
ReactivateRule ==
  /\ row' = Reactivate(row)
  /\ WipeHistory
  /\ UNCHANGED <<opt, clock, lastPass, announced>>

\* The process restarts, possibly with other settings; the row is persisted.
Restart ==
  /\ \E o \in Configs :
       /\ opt' = o
       /\ settled' = (settled /\ (o = opt \/ incidents = 0))
  /\ UNCHANGED <<clock, lastPass, row, announced, slate, incidents, firstAside>>

Tick ==
  /\ clock < MaxClock
  /\ clock' = clock + 1
  /\ UNCHANGED <<opt, lastPass, row, announced, slate, incidents, settled, firstAside>>

Next == PassOver \/ RunRule \/ ReactivateRule \/ Restart \/ Tick

Spec == Init /\ [][Next]_vars

-----------------------------------------------------------------------------
\* The state of a row says what its strikes deserve under the thresholds in
\* force, as long as these did not change under it: slow runs and failures add
\* up, an expired quarantine keeps its strikes, and nothing but a fast success
\* or the operator takes them away.
StateMatchesStrikes ==
  (settled /\ opt.enabled) =>
    /\ row.state = Quarantined <=> incidents >= QuarantineThreshold(opt)
    /\ row.state = Degraded <=> /\ incidents >= WarningThreshold(opt)
                                /\ incidents < QuarantineThreshold(opt)

\* What a permanently faulty rule may cost: the full threshold once, then one
\* run per quarantine duration.  An expired quarantine that gave back a full
\* allowance, or a quarantine counted from the wrong instant, would exceed it.
FaultyRuleCost ==
  (settled /\ opt.enabled) =>
    incidents <= QuarantineThreshold(opt)
                   + (IF firstAside = NoTime THEN 0
                      ELSE (clock - firstAside) \div QuarantineDuration(opt))

\* A rule that is degraded or set aside was announced as such since its slate was
\* last wiped, whatever thresholds it went through.
NeverSilent ==
  row.state # Healthy => \E a \in announced : a.slate = slate

\* The dispatcher drops a second notification with the same event and cycle, so
\* a relapse after recovery must have a cycle no earlier episode used.
CycleNamesEpisode ==
  \A a, b \in announced :
    (a.event = b.event /\ a.cycle = b.cycle) => a.slate = b.slate

\* Every quarantine of the current slate, renewals included, was announced under
\* a cycle of its own: deduplication can swallow none of them.
RenewalsAnnounced ==
  row.count = Cardinality({a \in announced : a.event = ToQuarantined /\ a.slate = slate})

\* A row that is set aside has a deadline, later than the quarantine it dates
\* from, and that quarantine is not older than the first incident.
QuarantineIsBounded ==
  row.state = Quarantined =>
    /\ row.since # NoTime
    /\ row.since <= row.quarantinedAt
    /\ row.quarantinedAt <= clock
    /\ row.quarantinedAt < row.until
    /\ Strikes(row) > 0

-----------------------------------------------------------------------------
(* The inductive invariant of the proofs. *)

\* The row counts the incidents of the current slate and nothing else, dates the
\* first of them, and is healthy when there is none.
RowMatchesHistory ==
  /\ lastPass <= clock
  /\ row.since <= lastPass
  /\ Strikes(row) = incidents
  /\ row.since = NoTime <=> incidents = 0
  /\ row.state # Healthy => incidents > 0

\* Cycles follow time: the announcements of earlier slates are older than the
\* first incident of the current one.
CyclesFollowSlates ==
  \A a \in announced :
    /\ a.slate <= slate
    /\ a.cycle <= lastPass
    /\ (a.slate < slate /\ row.since # NoTime) => a.cycle < row.since

\* The safety invariants above, with what makes them inductive.
IInv ==
  /\ TypeOK
  /\ RowMatchesHistory
  /\ QuarantineIsBounded
  /\ StateMatchesStrikes
  /\ NeverSilent
  /\ CyclesFollowSlates
  /\ CycleNamesEpisode
=============================================================================
