------------------------- MODULE RuleGuardOpsProofs -------------------------
(***************************************************************************)
(* What TLAPS proves of the guard's operators, for every options, row and  *)
(* instant.                                                                *)
(***************************************************************************)
EXTENDS RuleGuardOps, TLAPS

\* The effective thresholds are at least one and in the right order, and a
\* quarantine always lasts, whatever the settings say.
LEMMA Thresholds ==
  ASSUME NEW o \in GuardOptions
  PROVE  /\ WarningThreshold(o) \in Nat \ {0}
         /\ QuarantineThreshold(o) \in Nat \ {0}
         /\ WarningThreshold(o) <= QuarantineThreshold(o)
         /\ QuarantineDuration(o) \in Nat \ {0}
  BY DEF GuardOptions, WarningThreshold, QuarantineThreshold, QuarantineDuration,
         AtLeast, DefaultDuration

\* Counting an incident keeps the row well formed, adds one strike, dates the
\* episode and leaves the state alone.
LEMMA CountIncidentResult ==
  ASSUME NEW h \in RuleHealthRows, NEW outcome \in Outcomes, NEW now \in Nat
  PROVE  LET c == CountIncident(h, outcome, now)
         IN /\ c \in RuleHealthRows
            /\ Strikes(c) = Strikes(h) + 1
            /\ c.since = IF h.since = NoTime THEN now ELSE h.since
            /\ c.since \in Nat
            /\ c.state = h.state
            /\ c.quarantinedAt = h.quarantinedAt
            /\ c.until = h.until
            /\ c.count = h.count
<1> DEFINE f == IF outcome.succeeded THEN h.failures ELSE h.failures + 1
           r == IF outcome.succeeded THEN h.slowRuns + 1 ELSE h.slowRuns
           k == IF outcome.succeeded THEN "slow" ELSE outcome.kind
           s == IF h.since = NoTime THEN now ELSE h.since
           c == CountIncident(h, outcome, now)
<1>1. f \in Nat /\ r \in Nat /\ f + r = Strikes(h) + 1
  BY DEF RuleHealthRows, Strikes
<1>2. k \in FailureKinds \union {NoKind}
  BY DEF Outcomes, FailureKinds
<1>3. s \in Nat /\ s \in Times
  BY DEF RuleHealthRows, Times, NoTime
<1>4. c = [h EXCEPT !.failures = f, !.slowRuns = r, !.kind = k, !.since = s]
  BY DEF CountIncident, RuleHealthRows
<1>5. s = IF h.since = NoTime THEN now ELSE h.since
  OBVIOUS
<1> HIDE DEF c, f, r, k, s
<1>6. c \in RuleHealthRows
  BY <1>1, <1>2, <1>3, <1>4 DEF RuleHealthRows
<1>7. /\ c.failures = f
      /\ c.slowRuns = r
      /\ c.since = s
      /\ c.state = h.state
      /\ c.quarantinedAt = h.quarantinedAt
      /\ c.until = h.until
      /\ c.count = h.count
  BY <1>4 DEF RuleHealthRows
<1>8. Strikes(c) = Strikes(h) + 1
  BY <1>1, <1>7 DEF Strikes
<1> QED BY <1>3, <1>5, <1>6, <1>7, <1>8 DEF c

\* What the thresholds make of a row whose incident is counted.
LEMMA JudgeIncidentResult ==
  ASSUME NEW o \in GuardOptions, NEW h \in RuleHealthRows, NEW now \in Nat,
         h.since \in Nat
  PROVE  LET j == JudgeIncident(o, h, now)
         IN /\ j.row \in RuleHealthRows
            /\ j.transition \in {NoChange, ToDegraded, ToQuarantined}
            /\ Strikes(j.row) = Strikes(h)
            /\ j.row.since = h.since
            /\ \/ /\ j.row = h
                  /\ j.transition = NoChange
                  /\ ~o.enabled
               \/ /\ j.row = SetAside(o, h, now)
                  /\ j.transition = ToQuarantined
                  /\ o.enabled
                  /\ Strikes(h) >= QuarantineThreshold(o)
               \/ /\ j.row = [h EXCEPT !.state = Degraded]
                  /\ j.transition = IF h.state = Degraded THEN NoChange ELSE ToDegraded
                  /\ o.enabled
                  /\ Strikes(h) < QuarantineThreshold(o)
                  /\ Strikes(h) >= WarningThreshold(o)
               \/ /\ j.row = [h EXCEPT !.state = Healthy]
                  /\ j.transition = NoChange
                  /\ o.enabled
                  /\ Strikes(h) < WarningThreshold(o)
<1> DEFINE j == JudgeIncident(o, h, now)
<1>1. /\ WarningThreshold(o) \in Nat
      /\ QuarantineThreshold(o) \in Nat
      /\ WarningThreshold(o) <= QuarantineThreshold(o)
      /\ QuarantineDuration(o) \in Nat
  BY Thresholds
<1>2. Strikes(h) \in Nat
  BY DEF RuleHealthRows, Strikes
<1>3. o.enabled \in BOOLEAN
  BY DEF GuardOptions
<1>4. CASE ~o.enabled
  <2>1. j = [row |-> h, transition |-> NoChange]
    BY <1>4 DEF JudgeIncident
  <2> QED BY <1>4, <2>1
<1>5. CASE o.enabled /\ Strikes(h) >= QuarantineThreshold(o)
  <2>1. j = [row |-> SetAside(o, h, now), transition |-> ToQuarantined]
    BY <1>1, <1>2, <1>5 DEF JudgeIncident
  <2>2. /\ SetAside(o, h, now) \in RuleHealthRows
        /\ Strikes(SetAside(o, h, now)) = Strikes(h)
        /\ SetAside(o, h, now).since = h.since
    <3> DEFINE u == now + QuarantineDuration(o)
               n == h.count + 1
               q == SetAside(o, h, now)
    <3>1. u \in Times /\ n \in Nat /\ now \in Times /\ Quarantined \in States
      BY <1>1 DEF RuleHealthRows, Times, States
    <3>2. q = [h EXCEPT !.state = Quarantined, !.quarantinedAt = now,
                        !.until = u, !.reason = h.kind, !.count = n]
      BY DEF SetAside, RuleHealthRows
    <3> HIDE DEF u, n, q
    <3>3. q \in RuleHealthRows
      BY <3>1, <3>2 DEF RuleHealthRows
    <3>4. q.failures = h.failures /\ q.slowRuns = h.slowRuns /\ q.since = h.since
      BY <3>2 DEF RuleHealthRows
    <3> QED BY <3>3, <3>4 DEF q, Strikes
  <2> QED BY <1>5, <2>1, <2>2
<1>6. CASE /\ o.enabled
           /\ Strikes(h) < QuarantineThreshold(o)
           /\ Strikes(h) >= WarningThreshold(o)
  <2>1. j = [row |-> [h EXCEPT !.state = Degraded],
             transition |-> IF h.state = Degraded THEN NoChange ELSE ToDegraded]
    BY <1>1, <1>2, <1>6 DEF JudgeIncident
  <2>2. /\ [h EXCEPT !.state = Degraded] \in RuleHealthRows
        /\ Strikes([h EXCEPT !.state = Degraded]) = Strikes(h)
        /\ [h EXCEPT !.state = Degraded].since = h.since
    BY DEF RuleHealthRows, Strikes, States
  <2>3. /\ j.row = [h EXCEPT !.state = Degraded]
        /\ j.transition = IF h.state = Degraded THEN NoChange ELSE ToDegraded
    BY <2>1
  <2> HIDE DEF j
  <2>4. j.transition \in {NoChange, ToDegraded, ToQuarantined}
    BY <2>3
  <2> QED BY <1>6, <2>2, <2>3, <2>4 DEF j
<1>7. CASE o.enabled /\ Strikes(h) < WarningThreshold(o)
  <2>1. j = [row |-> [h EXCEPT !.state = Healthy], transition |-> NoChange]
    BY <1>1, <1>2, <1>7 DEF JudgeIncident
  <2>2. /\ [h EXCEPT !.state = Healthy] \in RuleHealthRows
        /\ Strikes([h EXCEPT !.state = Healthy]) = Strikes(h)
        /\ [h EXCEPT !.state = Healthy].since = h.since
    BY DEF RuleHealthRows, Strikes, States
  <2>3. /\ j.row = [h EXCEPT !.state = Healthy]
        /\ j.transition = NoChange
    BY <2>1
  <2> HIDE DEF j
  <2> QED BY <1>7, <2>2, <2>3 DEF j
<1> QED BY <1>1, <1>2, <1>3, <1>4, <1>5, <1>6, <1>7

\* Both ways of wiping the slate leave the same clean row.
LEMMA WipedRow ==
  ASSUME NEW h \in RuleHealthRows
  PROVE  /\ ClearSlate(h).row = Reactivate(h)
         /\ ClearSlate(h).transition \in {NoChange, Recovered}
         /\ Reactivate(h) \in RuleHealthRows
         /\ Strikes(Reactivate(h)) = 0
         /\ Reactivate(h).state = Healthy
         /\ Reactivate(h).since = NoTime
         /\ Reactivate(h).count = 0
<1>1. /\ ClearSlate(h).row = Reactivate(h)
      /\ ClearSlate(h).transition \in {NoChange, Recovered}
  BY DEF ClearSlate, Reactivate
<1>2. Healthy \in States /\ NoTime \in Times /\ NoKind \in FailureKinds \union {NoKind}
  BY DEF States, Times
<1>3. Reactivate(h) \in RuleHealthRows
  BY <1>2 DEF Reactivate, RuleHealthRows
<1>4. /\ Reactivate(h).state = Healthy
      /\ Reactivate(h).failures = 0
      /\ Reactivate(h).slowRuns = 0
      /\ Reactivate(h).since = NoTime
      /\ Reactivate(h).quarantinedAt = NoTime
      /\ Reactivate(h).count = 0
  BY DEF Reactivate, RuleHealthRows
<1> QED BY <1>1, <1>3, <1>4 DEF Strikes

\* What an incident makes of a row: either the row is set aside and dated, or its
\* quarantines are left alone and its strikes do not reach the threshold.
LEMMA IncidentResult ==
  ASSUME NEW o \in GuardOptions, NEW h \in RuleHealthRows, NEW outcome \in Outcomes,
         NEW now \in Nat, IsIncident(o, outcome)
  PROVE  LET j == Record(o, h, outcome, now)
         IN /\ j.row \in RuleHealthRows
            /\ j.transition \in {NoChange, ToDegraded, ToQuarantined}
            /\ Strikes(j.row) = Strikes(h) + 1
            /\ j.row.since = IF h.since = NoTime THEN now ELSE h.since
            /\ \/ /\ j.transition = ToQuarantined
                  /\ j.row.count = h.count + 1
                  /\ j.row.quarantinedAt = now
                  /\ j.row.until = now + QuarantineDuration(o)
                  /\ o.enabled
                  /\ Strikes(h) + 1 >= QuarantineThreshold(o)
               \/ /\ j.transition # ToQuarantined
                  /\ j.row.count = h.count
                  /\ j.row.until = h.until
                  /\ j.row.state = Quarantined => h.state = Quarantined
                  /\ j.transition = NoChange /\ j.row.state # Healthy => h.state # Healthy
                  /\ o.enabled => Strikes(h) + 1 < QuarantineThreshold(o)
<1> DEFINE c == CountIncident(h, outcome, now)
           j == JudgeIncident(o, c, now)
<1>1. Record(o, h, outcome, now) = j
  BY DEF Record
<1>2. /\ c \in RuleHealthRows /\ c.since \in Nat
      /\ Strikes(c) = Strikes(h) + 1
      /\ c.since = IF h.since = NoTime THEN now ELSE h.since
      /\ c.state = h.state /\ c.until = h.until /\ c.count = h.count
  BY CountIncidentResult
<1> HIDE DEF c
<1>3. /\ j.row \in RuleHealthRows
      /\ j.transition \in {NoChange, ToDegraded, ToQuarantined}
      /\ Strikes(j.row) = Strikes(c) /\ j.row.since = c.since
  BY <1>2, JudgeIncidentResult
<1>4. \/ /\ j.row = c /\ j.transition = NoChange /\ ~o.enabled
      \/ /\ j.row = SetAside(o, c, now) /\ j.transition = ToQuarantined
         /\ o.enabled /\ Strikes(c) >= QuarantineThreshold(o)
      \/ /\ j.row = [c EXCEPT !.state = Degraded]
         /\ j.transition = IF c.state = Degraded THEN NoChange ELSE ToDegraded
         /\ Strikes(c) < QuarantineThreshold(o)
      \/ /\ j.row = [c EXCEPT !.state = Healthy] /\ j.transition = NoChange
         /\ Strikes(c) < WarningThreshold(o)
  BY <1>2, JudgeIncidentResult
<1> HIDE DEF j
<1>5. /\ WarningThreshold(o) \in Nat /\ QuarantineThreshold(o) \in Nat
      /\ WarningThreshold(o) <= QuarantineThreshold(o) /\ Strikes(h) \in Nat
  BY Thresholds DEF RuleHealthRows, Strikes
<1>6. CASE /\ j.row = SetAside(o, c, now) /\ j.transition = ToQuarantined
           /\ o.enabled /\ Strikes(c) >= QuarantineThreshold(o)
  <2>1. /\ SetAside(o, c, now).count = c.count + 1
        /\ SetAside(o, c, now).quarantinedAt = now
        /\ SetAside(o, c, now).until = now + QuarantineDuration(o)
    BY <1>2 DEF SetAside, RuleHealthRows
  <2> QED BY <1>1, <1>2, <1>3, <1>6, <2>1
<1>7. CASE \/ j.row = c /\ j.transition = NoChange /\ ~o.enabled
           \/ /\ j.row = [c EXCEPT !.state = Degraded]
              /\ j.transition = IF c.state = Degraded THEN NoChange ELSE ToDegraded
              /\ Strikes(c) < QuarantineThreshold(o)
           \/ /\ j.row = [c EXCEPT !.state = Healthy] /\ j.transition = NoChange
              /\ Strikes(c) < WarningThreshold(o)
  <2>1. j.transition # ToQuarantined
    BY <1>7 DEF NoChange, ToDegraded, ToQuarantined
  <2>2. j.row.count = c.count /\ j.row.until = c.until
    BY <1>2, <1>7 DEF RuleHealthRows
  <2>3. /\ j.row.state = Quarantined => c.state = Quarantined
        /\ j.transition = NoChange /\ j.row.state # Healthy => c.state # Healthy
    BY <1>2, <1>7 DEF RuleHealthRows, NoChange, ToDegraded, Healthy, Degraded, Quarantined
  <2>4. o.enabled => Strikes(h) + 1 < QuarantineThreshold(o)
    BY <1>2, <1>5, <1>7
  <2> QED BY <1>1, <1>2, <1>3, <2>1, <2>2, <2>3, <2>4
<1> QED BY <1>4, <1>6, <1>7

\* A run that is no incident leaves a clean row.
LEMMA SuccessResult ==
  ASSUME NEW o \in GuardOptions, NEW h \in RuleHealthRows, NEW outcome, NEW now,
         ~IsIncident(o, outcome)
  PROVE  /\ Record(o, h, outcome, now).row = Reactivate(h)
         /\ Record(o, h, outcome, now).transition \in {NoChange, Recovered}
  BY WipedRow DEF Record
=============================================================================
