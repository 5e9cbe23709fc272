---------------------------- MODULE RuleGuardOps ----------------------------
(***************************************************************************)
(* The cost guard of Scheduler/RuleGuard.cs as operators on one RuleHealth *)
(* row, the persisted memory the guard keeps per (rule, instance) pair.    *)
(* The operators are pure: they take the options in force, the row and the *)
(* instant `now' of the pass, and return the new row.  The modules that    *)
(* keep rows as state decide when they are called and when a row is saved. *)
(*                                                                         *)
(* Times are naturals (seconds), NoTime stands for a null DateTimeOffset.  *)
(* Messages, durations already recorded and the timestamps that are only   *)
(* displayed (UpdatedAt, LastSuccessAt, LastFailureAt...) are left out.    *)
(***************************************************************************)
EXTENDS Integers

NoTime == -1

Healthy == "healthy"
Degraded == "degraded"
Quarantined == "quarantined"
States == {Healthy, Degraded, Quarantined}

\* Null until the first incident.
NoKind == "none"
FailureKinds == {"timeout", "error", "slow"}

\* What Record reports: a threshold was crossed, or the slate was wiped.
NoChange == "None"
ToDegraded == "Degraded"
ToQuarantined == "Quarantined"
Recovered == "Recovered"
Transitions == {NoChange, ToDegraded, ToQuarantined, Recovered}

Times == Nat \union {NoTime}

RuleHealthRows ==
  [state : States,
   failures : Nat,              \* ConsecutiveFailures
   slowRuns : Nat,              \* ConsecutiveSlowRuns
   kind : FailureKinds \union {NoKind},     \* LastFailureKind
   since : Times,               \* IncidentsSince
   quarantinedAt : Times,
   until : Times,               \* QuarantinedUntil
   reason : FailureKinds \union {NoKind},   \* QuarantineReason
   count : Nat]                 \* QuarantineCount

\* The raw settings of Scheduler:RuleGuard.  slowBudget is the deadline of the
\* rule times SlowRunRatio; a ratio of zero or less turns the check off.
GuardOptions ==
  [enabled : BOOLEAN, warning : Int, quarantine : Int, duration : Int, slowBudget : Int]

\* The duration used when QuarantineDuration is not positive (six hours in the code).
DefaultDuration == 6

\* A run that was really attempted: an execution, or an error with its kind.
Outcomes ==
  [succeeded : {TRUE}, kind : {NoKind}, duration : Nat]
    \union [succeeded : {FALSE}, kind : {"timeout", "error"}, duration : Nat]

-----------------------------------------------------------------------------
AtLeast(floor, n) == IF n >= floor THEN n ELSE floor

WarningThreshold(opt) == AtLeast(1, opt.warning)

QuarantineThreshold(opt) == AtLeast(WarningThreshold(opt), opt.quarantine)

\* Mutant: a duration that is not positive is used as it is.
QuarantineDuration_Raw(opt) == opt.duration

QuarantineDuration(opt) == IF opt.duration > 0 THEN opt.duration ELSE DefaultDuration

NewState ==
  [state |-> Healthy, failures |-> 0, slowRuns |-> 0, kind |-> NoKind,
   since |-> NoTime, quarantinedAt |-> NoTime, until |-> NoTime,
   reason |-> NoKind, count |-> 0]

Strikes(h) == h.failures + h.slowRuns

IsQuarantined(opt, h, now) ==
  /\ opt.enabled
  /\ h.state = Quarantined
  /\ h.until = NoTime \/ h.until > now

CanRelease(h, now) ==
  /\ h.state = Quarantined
  /\ h.until = NoTime \/ h.until <= now

TryRelease(h, now) ==
  IF CanRelease(h, now) THEN [h EXCEPT !.state = Degraded, !.until = NoTime] ELSE h

\* The test of the pass on each rule, `IsQuarantined && !TryRelease': TryRelease
\* is only called, and only changes the row, when IsQuarantined holds.
\* Mutant: a rule set aside is let through as soon as its quarantine has a deadline.
SkippedByGuard_WithoutDeadline(opt, h, now) == IsQuarantined(opt, h, now) /\ h.until = NoTime

SkippedByGuard(opt, h, now) == IsQuarantined(opt, h, now) /\ ~CanRelease(h, now)

AfterGuard(opt, h, now) == IF IsQuarantined(opt, h, now) THEN TryRelease(h, now) ELSE h

\* Mutants: the operator's reset forgets the slow runs, or the start of the episode.
Reactivate_KeepsSlowRuns(h) ==
  [h EXCEPT !.state = Healthy, !.failures = 0, !.since = NoTime,
            !.quarantinedAt = NoTime, !.until = NoTime, !.reason = NoKind, !.count = 0]
Reactivate_KeepsSince(h) ==
  [h EXCEPT !.state = Healthy, !.failures = 0, !.slowRuns = 0,
            !.quarantinedAt = NoTime, !.until = NoTime, !.reason = NoKind, !.count = 0]

Reactivate(h) ==
  [h EXCEPT !.state = Healthy, !.failures = 0, !.slowRuns = 0, !.since = NoTime,
            !.quarantinedAt = NoTime, !.until = NoTime, !.reason = NoKind, !.count = 0]

\* A successful run that used most of its budget is an incident.
IsSlow(opt, outcome) ==
  /\ outcome.succeeded
  /\ opt.slowBudget > 0
  /\ outcome.duration >= opt.slowBudget

ClearSlate(h) ==
  [row |-> [h EXCEPT !.state = Healthy, !.failures = 0, !.slowRuns = 0,
                     !.since = NoTime, !.quarantinedAt = NoTime, !.until = NoTime,
                     !.reason = NoKind, !.count = 0],
   transition |-> IF Strikes(h) > 0 \/ h.state # Healthy THEN Recovered ELSE NoChange]

\* Mutant: the start of the episode is not recorded.
CountIncident_NoSince(h, outcome, now) ==
  [h EXCEPT !.failures = IF outcome.succeeded THEN @ ELSE @ + 1,
            !.slowRuns = IF outcome.succeeded THEN @ + 1 ELSE @,
            !.kind     = IF outcome.succeeded THEN "slow" ELSE outcome.kind]

\* The row once the incident is counted, before the thresholds are looked at.
CountIncident(h, outcome, now) ==
  [h EXCEPT !.failures = IF outcome.succeeded THEN @ ELSE @ + 1,
            !.slowRuns = IF outcome.succeeded THEN @ + 1 ELSE @,
            !.kind     = IF outcome.succeeded THEN "slow" ELSE outcome.kind,
            !.since    = IF @ = NoTime THEN now ELSE @]

\* Mutant: the deadline is counted from the first incident of the episode.
SetAside_FromFirstIncident(opt, h, now) ==
  [h EXCEPT !.state = Quarantined,
            !.quarantinedAt = now,
            !.until = h.since + QuarantineDuration(opt),
            !.reason = h.kind,
            !.count = @ + 1]

SetAside(opt, h, now) ==
  [h EXCEPT !.state = Quarantined,
            !.quarantinedAt = now,
            !.until = now + QuarantineDuration(opt),
            !.reason = h.kind,
            !.count = @ + 1]

\* Mutant: a degraded rule is announced when its strikes equal the threshold.
JudgeIncident_AnnouncesAtEquality(opt, h, now) ==
  CASE ~opt.enabled ->
         [row |-> h, transition |-> NoChange]
    [] opt.enabled /\ Strikes(h) >= QuarantineThreshold(opt) ->
         [row |-> SetAside(opt, h, now), transition |-> ToQuarantined]
    [] opt.enabled /\ Strikes(h) < QuarantineThreshold(opt)
                   /\ Strikes(h) >= WarningThreshold(opt) ->
         [row |-> [h EXCEPT !.state = Degraded],
          transition |-> IF Strikes(h) # WarningThreshold(opt) THEN NoChange ELSE ToDegraded]
    [] opt.enabled /\ Strikes(h) < WarningThreshold(opt) ->
         [row |-> [h EXCEPT !.state = Healthy], transition |-> NoChange]

JudgeIncident(opt, h, now) ==
  CASE ~opt.enabled ->
         [row |-> h, transition |-> NoChange]
    [] opt.enabled /\ Strikes(h) >= QuarantineThreshold(opt) ->
         [row |-> SetAside(opt, h, now), transition |-> ToQuarantined]
    [] opt.enabled /\ Strikes(h) < QuarantineThreshold(opt)
                   /\ Strikes(h) >= WarningThreshold(opt) ->
         [row |-> [h EXCEPT !.state = Degraded],
          transition |-> IF h.state = Degraded THEN NoChange ELSE ToDegraded]
    [] opt.enabled /\ Strikes(h) < WarningThreshold(opt) ->
         [row |-> [h EXCEPT !.state = Healthy], transition |-> NoChange]

IsIncident(opt, outcome) == ~outcome.succeeded \/ IsSlow(opt, outcome)

\* Record consigns one run: the new row and the threshold it crossed.
Record(opt, h, outcome, now) ==
  IF IsIncident(opt, outcome)
    THEN JudgeIncident(opt, CountIncident(h, outcome, now), now)
    ELSE ClearSlate(h)

-----------------------------------------------------------------------------
\* RuleGuardNotifications: which transitions are notified, and the episode
\* identifier the dispatcher deduplicates on.
Events == {ToDegraded, ToQuarantined}

\* Mutant: every announcement of an episode carries the start of the episode.
Cycle_SinceOnly(h, transition) == h.since

Cycle(h, transition) ==
  IF transition = ToQuarantined /\ h.quarantinedAt # NoTime
    THEN h.quarantinedAt
    ELSE h.since
=============================================================================
