-------------------------- MODULE RuleGuardProofs --------------------------
(***************************************************************************)
(* What TLAPS proves of RuleGuard, for every set of options, every set of  *)
(* run outcomes and every bound on the clock.                              *)
(***************************************************************************)
EXTENDS RuleGuard, RuleGuardOpsProofs, FiniteSetTheorems, TLAPS

-----------------------------------------------------------------------------
(* The invariant. *)

\* The release branch of the pass never changes a row: a row whose quarantine is
\* over no longer counts as quarantined, so TryRelease is not reached.
LEMMA ReleaseIsIdle ==
  ASSUME TypeOK, QuarantineIsBounded
  PROVE  AfterGuard(opt, row, clock) = row
<1>1. CASE IsQuarantined(opt, row, clock)
  <2>1. row.state = Quarantined /\ (row.until = NoTime \/ row.until > clock)
    BY <1>1 DEF IsQuarantined
  <2>2. row.quarantinedAt \in Times /\ row.until \in Times /\ clock \in Nat
    BY DEF TypeOK, RuleHealthRows
  <2>3. row.quarantinedAt < row.until
    BY <2>1 DEF QuarantineIsBounded
  <2>4. row.until # NoTime /\ ~(row.until <= clock)
    BY <2>1, <2>2, <2>3 DEF Times, NoTime
  <2>5. ~CanRelease(row, clock)
    BY <2>4 DEF CanRelease
  <2> QED BY <2>5 DEF AfterGuard, TryRelease
<1>2. CASE ~IsQuarantined(opt, row, clock)
  BY <1>2 DEF AfterGuard
<1> QED BY <1>1, <1>2

\* The invariant holds at the start.
LEMMA InitInvariant == Init => IInv
<1> SUFFICES ASSUME Init PROVE IInv
  OBVIOUS
<1>1. NewState \in RuleHealthRows
  BY DEF NewState, RuleHealthRows, States, Times
<1>2. /\ NewState.state = Healthy
      /\ NewState.failures = 0
      /\ NewState.slowRuns = 0
      /\ NewState.since = NoTime
  BY DEF NewState
<1>3. /\ WarningThreshold(opt) \in Nat \ {0}
      /\ QuarantineThreshold(opt) \in Nat \ {0}
  BY ConfigsAssumption, Thresholds DEF Init
<1>4. TypeOK
  BY <1>1 DEF Init, TypeOK, Times
<1>5. RowMatchesHistory
  BY <1>2 DEF Init, RowMatchesHistory, Strikes, NoTime
<1>6. QuarantineIsBounded /\ NeverSilent
  BY <1>2 DEF Init, QuarantineIsBounded, NeverSilent, Healthy, Quarantined
<1>7. StateMatchesStrikes
  BY <1>2, <1>3 DEF Init, StateMatchesStrikes, Healthy, Quarantined, Degraded
<1>8. CyclesFollowSlates /\ CycleNamesEpisode
  BY DEF Init, CyclesFollowSlates, CycleNamesEpisode
<1> QED BY <1>4, <1>5, <1>6, <1>7, <1>8 DEF IInv

\* Wiping the slate, by a fast success or by the operator.
LEMMA WipeKeepsInvariant ==
  ASSUME IInv, WipeHistory, row' = Reactivate(row),
         UNCHANGED <<opt, clock, announced>>,
         lastPass' \in Times, lastPass <= lastPass', lastPass' <= clock
  PROVE  IInv'
<1> USE DEF IInv
<1>1. /\ row' \in RuleHealthRows
      /\ Strikes(row') = 0
      /\ row'.state = Healthy
      /\ row'.since = NoTime
  BY WipedRow DEF TypeOK
<1>2. /\ WarningThreshold(opt) \in Nat \ {0}
      /\ QuarantineThreshold(opt) \in Nat \ {0}
  BY ConfigsAssumption, Thresholds DEF TypeOK
<1>3. TypeOK'
  <2>1. slate' \in Nat /\ incidents' \in Nat /\ settled' \in BOOLEAN /\ firstAside' \in Times
    BY DEF TypeOK, WipeHistory, Times
  <2> QED BY <1>1, <2>1 DEF TypeOK
<1>4. RowMatchesHistory'
  BY <1>1 DEF TypeOK, RowMatchesHistory, WipeHistory, Times, NoTime
<1>5. QuarantineIsBounded' /\ NeverSilent'
  BY <1>1 DEF QuarantineIsBounded, NeverSilent, Healthy, Quarantined
<1>6. StateMatchesStrikes'
  BY <1>1, <1>2 DEF StateMatchesStrikes, WipeHistory, Healthy, Quarantined, Degraded
<1>7. CyclesFollowSlates'
  <2> SUFFICES ASSUME NEW a \in announced
               PROVE a.slate <= slate' /\ a.cycle <= lastPass'
    BY <1>1 DEF CyclesFollowSlates
  <2>1. a.slate \in Nat /\ a.cycle \in Nat
    BY DEF TypeOK, Announcements
  <2>2. a.slate <= slate /\ a.cycle <= lastPass
    BY DEF CyclesFollowSlates
  <2> QED BY <2>1, <2>2 DEF TypeOK, WipeHistory, Times, NoTime
<1>8. CycleNamesEpisode'
  BY DEF CycleNamesEpisode
<1> QED BY <1>3, <1>4, <1>5, <1>6, <1>7, <1>8

\* A recorded incident: c is the row once the incident is counted, j what the
\* thresholds make of it.
LEMMA IncidentKeepsInvariant ==
  ASSUME IInv, PassDue, NEW outcome \in Runs,
         NEW c, c = CountIncident(row, outcome, clock),
         NEW j, j = JudgeIncident(opt, c, clock),
         row' = j.row,
         announced' = IF j.transition \in Events
                        THEN announced \union {[event |-> j.transition,
                                                cycle |-> Cycle(j.row, j.transition),
                                                slate |-> slate]}
                        ELSE announced,
         incidents' = incidents + 1, firstAside' \in Times, lastPass' = clock,
         UNCHANGED <<opt, clock, slate, settled>>
  PROVE  IInv'
<1> USE DEF IInv
<1>1. /\ opt \in GuardOptions /\ outcome \in Outcomes /\ clock \in Nat
      /\ row \in RuleHealthRows
      /\ lastPass \in Times /\ incidents \in Nat /\ slate \in Nat
      /\ announced \subseteq Announcements
  BY ConfigsAssumption, RunsAssumption DEF TypeOK
<1>2. /\ WarningThreshold(opt) \in Nat \ {0}
      /\ QuarantineThreshold(opt) \in Nat \ {0}
      /\ WarningThreshold(opt) <= QuarantineThreshold(opt)
      /\ QuarantineDuration(opt) \in Nat \ {0}
  BY <1>1, Thresholds
<1>3. /\ c \in RuleHealthRows
      /\ Strikes(c) = Strikes(row) + 1
      /\ c.since = IF row.since = NoTime THEN clock ELSE row.since
      /\ c.since \in Nat
      /\ c.state = row.state
      /\ c.quarantinedAt = row.quarantinedAt
      /\ c.until = row.until
  BY <1>1, CountIncidentResult
<1>4. /\ row' \in RuleHealthRows
      /\ j.transition \in {NoChange, ToDegraded, ToQuarantined}
      /\ Strikes(row') = Strikes(c)
      /\ row'.since = c.since
  BY <1>1, <1>3, JudgeIncidentResult
<1>5. \/ /\ row' = c
         /\ j.transition = NoChange
         /\ ~opt.enabled
      \/ /\ row' = SetAside(opt, c, clock)
         /\ j.transition = ToQuarantined
         /\ opt.enabled
         /\ Strikes(c) >= QuarantineThreshold(opt)
      \/ /\ row' = [c EXCEPT !.state = Degraded]
         /\ j.transition = IF c.state = Degraded THEN NoChange ELSE ToDegraded
         /\ opt.enabled
         /\ Strikes(c) < QuarantineThreshold(opt)
         /\ Strikes(c) >= WarningThreshold(opt)
      \/ /\ row' = [c EXCEPT !.state = Healthy]
         /\ j.transition = NoChange
         /\ opt.enabled
         /\ Strikes(c) < WarningThreshold(opt)
  BY <1>1, <1>3, JudgeIncidentResult
<1>6. Strikes(c) = incidents'
  BY <1>3 DEF RowMatchesHistory
<1>7. c.since <= clock /\ row.since \in Times /\ row.since <= clock
  BY <1>1, <1>3 DEF RowMatchesHistory, RuleHealthRows, Times, NoTime
<1>8. j.transition \in Events => /\ Cycle(row', j.transition) \in Nat
                                 /\ c.since <= Cycle(row', j.transition)
                                 /\ Cycle(row', j.transition) <= clock
  <2>1. CASE j.transition = ToQuarantined
    <3>1. row'.quarantinedAt = clock
      BY <1>3, <1>5, <2>1 DEF SetAside, RuleHealthRows, NoChange, ToDegraded, ToQuarantined
    <3>2. clock # NoTime
      BY <1>1 DEF NoTime
    <3> QED BY <1>1, <1>7, <2>1, <3>1, <3>2 DEF Cycle
  <2>2. CASE j.transition = ToDegraded
    <3>1. Cycle(row', j.transition) = c.since
      BY <1>4, <2>2 DEF Cycle, ToDegraded, ToQuarantined
    <3> QED BY <1>3, <1>7, <3>1
  <2> QED BY <2>1, <2>2 DEF Events
<1>9. \A a \in announced : /\ a.slate \in Nat /\ a.cycle \in Nat
                           /\ a.slate <= slate /\ a.cycle <= clock
                           /\ a.slate < slate => a.cycle < c.since
  <2> SUFFICES ASSUME NEW a \in announced
               PROVE /\ a.slate \in Nat /\ a.cycle \in Nat
                     /\ a.slate <= slate /\ a.cycle <= clock
                     /\ a.slate < slate => a.cycle < c.since
    OBVIOUS
  <2>1. a.slate \in Nat /\ a.cycle \in Nat
    BY <1>1 DEF Announcements
  <2>2. /\ a.slate <= slate /\ a.cycle <= lastPass
        /\ (a.slate < slate /\ row.since # NoTime) => a.cycle < row.since
    BY DEF CyclesFollowSlates
  <2>3. lastPass < clock
    BY DEF PassDue
  <2> QED BY <1>1, <1>3, <2>1, <2>2, <2>3 DEF Times, NoTime
<1>10. TypeOK'
  <2>1. announced' \subseteq Announcements
    BY <1>1, <1>4, <1>8 DEF Announcements
  <2> QED BY <1>1, <1>4, <2>1 DEF TypeOK, Times
<1>11. RowMatchesHistory'
  BY <1>1, <1>3, <1>4, <1>6, <1>7 DEF RowMatchesHistory, NoTime
<1>12. QuarantineIsBounded'
  <2>1. incidents' \in Nat /\ incidents' > 0 /\ c.since # NoTime
    BY <1>1, <1>3 DEF NoTime
  <2>2. CASE row' = SetAside(opt, c, clock)
    <3>1. row'.quarantinedAt = clock /\ row'.until = clock + QuarantineDuration(opt)
      BY <1>3, <2>2 DEF SetAside, RuleHealthRows
    <3> QED BY <1>1, <1>2, <1>4, <1>6, <1>7, <2>1, <3>1 DEF QuarantineIsBounded
  <2>3. CASE row' = c /\ row'.state = Quarantined
    <3>1. /\ row.since # NoTime
          /\ row.since <= row.quarantinedAt
          /\ row.quarantinedAt <= clock
          /\ row.quarantinedAt < row.until
      BY <1>3, <2>3 DEF QuarantineIsBounded
    <3> QED BY <1>3, <1>6, <2>1, <2>3, <3>1 DEF QuarantineIsBounded
  <2>4. CASE row'.state # Quarantined
    BY <2>4 DEF QuarantineIsBounded
  <2>5. row' = [c EXCEPT !.state = Degraded] => row'.state # Quarantined
    BY <1>3 DEF RuleHealthRows, Degraded, Quarantined
  <2>6. row' = [c EXCEPT !.state = Healthy] => row'.state # Quarantined
    BY <1>3 DEF RuleHealthRows, Healthy, Quarantined
  <2> QED BY <1>5, <2>2, <2>3, <2>4, <2>5, <2>6
<1>13. StateMatchesStrikes'
  <2>1. /\ row' = SetAside(opt, c, clock) => row'.state = Quarantined
        /\ row' = [c EXCEPT !.state = Degraded] => row'.state = Degraded
        /\ row' = [c EXCEPT !.state = Healthy] => row'.state = Healthy
    BY <1>3 DEF SetAside, RuleHealthRows
  <2> QED BY <1>1, <1>2, <1>5, <1>6, <2>1
       DEF StateMatchesStrikes, Healthy, Degraded, Quarantined
<1>14. NeverSilent'
  <2>1. announced \subseteq announced'
    OBVIOUS
  <2>2. CASE j.transition \in Events
    <3> DEFINE a == [event |-> j.transition, cycle |-> Cycle(j.row, j.transition), slate |-> slate]
    <3>1. a \in announced' /\ a.slate = slate'
      BY <2>2
    <3> QED BY <3>1 DEF NeverSilent
  <2>3. CASE j.transition \notin Events /\ row'.state # Healthy
    <3>1. row' = [c EXCEPT !.state = Healthy] => row'.state = Healthy
      BY <1>3 DEF RuleHealthRows
    <3>2. row.state # Healthy
      BY <1>3, <1>5, <2>3, <3>1 DEF Events, Degraded, Healthy
    <3> QED BY <2>1, <3>2 DEF NeverSilent
  <2> QED BY <2>2, <2>3 DEF NeverSilent
<1>15. CyclesFollowSlates'
  <2> SUFFICES ASSUME NEW a \in announced'
               PROVE /\ a.slate <= slate
                     /\ a.cycle <= clock
                     /\ a.slate < slate => a.cycle < c.since
    BY <1>4 DEF CyclesFollowSlates
  <2>1. CASE a \in announced
    BY <1>9, <2>1
  <2>2. CASE a \notin announced
    BY <1>1, <1>8, <2>2
  <2> QED BY <2>1, <2>2
<1>16. CycleNamesEpisode'
  <2> SUFFICES ASSUME NEW a \in announced', NEW b \in announced',
                      a.event = b.event, a.cycle = b.cycle
               PROVE a.slate = b.slate
    BY DEF CycleNamesEpisode
  <2>1. CASE a \in announced /\ b \in announced
    BY <2>1 DEF CycleNamesEpisode
  <2>2. CASE a \in announced /\ b \notin announced
    <3>1. b.slate = slate /\ b.cycle \in Nat /\ c.since <= b.cycle
      BY <1>8, <2>2
    <3> QED BY <1>1, <1>3, <1>9, <2>2, <3>1
  <2>3. CASE a \notin announced /\ b \in announced
    <3>1. a.slate = slate /\ a.cycle \in Nat /\ c.since <= a.cycle
      BY <1>8, <2>3
    <3> QED BY <1>1, <1>3, <1>9, <2>3, <3>1
  <2>4. CASE a \notin announced /\ b \notin announced
    BY <2>4
  <2> QED BY <2>1, <2>2, <2>3, <2>4
<1> QED BY <1>10, <1>11, <1>12, <1>13, <1>14, <1>15, <1>16

\* Every step preserves the invariant.
LEMMA NextKeepsInvariant == IInv /\ [Next]_vars => IInv'
<1> SUFFICES ASSUME IInv, [Next]_vars PROVE IInv'
  OBVIOUS
<1>1. AfterGuard(opt, row, clock) = row
  BY ReleaseIsIdle DEF IInv
<1>2. clock \in Nat /\ clock \in Times /\ lastPass \in Times
  BY DEF IInv, TypeOK, Times
<1>3. CASE PassOver
  <2>1. row' = row /\ lastPass' = clock /\ lastPass < clock
    BY <1>1, <1>3 DEF PassOver, PassDue
  <2>2. TypeOK'
    BY <1>2, <1>3, <2>1 DEF IInv, TypeOK, PassOver
  <2>3. RowMatchesHistory'
    <3>1. row.since \in Times
      BY DEF IInv, TypeOK, RuleHealthRows
    <3> QED BY <1>2, <1>3, <2>1, <3>1 DEF IInv, RowMatchesHistory, PassOver, Times, NoTime
  <2>4. QuarantineIsBounded' /\ StateMatchesStrikes' /\ NeverSilent' /\ CycleNamesEpisode'
    BY <1>3, <2>1 DEF IInv, QuarantineIsBounded, StateMatchesStrikes, NeverSilent,
                      CycleNamesEpisode, PassOver
  <2>5. CyclesFollowSlates'
    <3> SUFFICES ASSUME NEW a \in announced
                 PROVE a.cycle <= clock
      BY <1>3, <2>1 DEF IInv, CyclesFollowSlates, PassOver
    <3>1. a.cycle \in Nat /\ a.cycle <= lastPass
      BY DEF IInv, TypeOK, Announcements, CyclesFollowSlates
    <3> QED BY <1>2, <2>1, <3>1 DEF Times, NoTime
  <2> QED BY <2>2, <2>3, <2>4, <2>5 DEF IInv
<1>4. CASE RunRule
  <2>1. PassDue /\ lastPass' = clock /\ UNCHANGED <<opt, clock>>
    BY <1>4 DEF RunRule
  <2>2. PICK outcome \in Runs :
          LET result == Record(opt, row, outcome, clock)
              crossed == result.transition
          IN /\ row' = result.row
             /\ announced' =
                  IF crossed \in Events
                    THEN announced \union {[event |-> crossed,
                                            cycle |-> Cycle(result.row, crossed),
                                            slate |-> slate]}
                    ELSE announced
             /\ IF IsIncident(opt, outcome)
                  THEN /\ incidents' = incidents + 1
                       /\ firstAside' = IF crossed = ToQuarantined /\ firstAside = NoTime
                                          THEN clock ELSE firstAside
                       /\ UNCHANGED <<slate, settled>>
                  ELSE WipeHistory
    BY <1>1, <1>4 DEF RunRule
  <2>3. CASE IsIncident(opt, outcome)
    <3> DEFINE c == CountIncident(row, outcome, clock)
               j == JudgeIncident(opt, c, clock)
    <3>1. Record(opt, row, outcome, clock) = j
      BY <2>3 DEF Record
    <3>2. /\ row' = j.row
          /\ announced' = IF j.transition \in Events
                             THEN announced \union {[event |-> j.transition,
                                                     cycle |-> Cycle(j.row, j.transition),
                                                     slate |-> slate]}
                             ELSE announced
          /\ incidents' = incidents + 1
          /\ UNCHANGED <<slate, settled>>
      BY <2>2, <2>3, <3>1
    <3>3. firstAside' \in Times
      BY <1>2, <2>2, <2>3 DEF IInv, TypeOK
    <3> QED BY <2>1, <3>2, <3>3, IncidentKeepsInvariant
  <2>4. CASE ~IsIncident(opt, outcome)
    <3>1. Record(opt, row, outcome, clock) = ClearSlate(row)
      BY <2>4 DEF Record
    <3>2. /\ ClearSlate(row).row = Reactivate(row)
          /\ ClearSlate(row).transition \notin Events
      BY WipedRow DEF IInv, TypeOK, Events, NoChange, Recovered, ToDegraded, ToQuarantined
    <3>3. row' = Reactivate(row) /\ announced' = announced /\ WipeHistory
      BY <2>2, <2>4, <3>1, <3>2
    <3>4. lastPass' \in Times /\ lastPass <= lastPass' /\ lastPass' <= clock
      BY <1>2, <2>1 DEF PassDue, Times, NoTime
    <3> QED BY <2>1, <3>3, <3>4, WipeKeepsInvariant
  <2> QED BY <2>3, <2>4
<1>5. CASE ReactivateRule
  <2>1. lastPass' \in Times /\ lastPass <= lastPass' /\ lastPass' <= clock
    BY <1>2, <1>5 DEF ReactivateRule, IInv, RowMatchesHistory, Times, NoTime
  <2> QED BY <1>5, <2>1, WipeKeepsInvariant DEF ReactivateRule
<1>6. CASE Restart
  <2>1. PICK o \in Configs : opt' = o /\ settled' = (settled /\ (o = opt \/ incidents = 0))
    BY <1>6 DEF Restart
  <2>2. settled' \in BOOLEAN
    BY <2>1
  <2>3. TypeOK'
    BY <1>6, <2>1, <2>2 DEF IInv, TypeOK, Restart
  <2>4. /\ RowMatchesHistory' /\ QuarantineIsBounded' /\ NeverSilent'
        /\ CyclesFollowSlates' /\ CycleNamesEpisode'
    BY <1>6 DEF IInv, Restart, RowMatchesHistory, QuarantineIsBounded, NeverSilent,
                CyclesFollowSlates, CycleNamesEpisode
  <2>5. StateMatchesStrikes'
    <3>1. CASE settled /\ o = opt
      <4>1. settled' = settled /\ opt' = opt /\ row' = row /\ incidents' = incidents
        BY <1>6, <2>1, <3>1 DEF Restart
      <4> QED BY <4>1 DEF IInv, StateMatchesStrikes
    <3>2. CASE incidents = 0
      <4>1. WarningThreshold(opt') \in Nat \ {0} /\ QuarantineThreshold(opt') \in Nat \ {0}
        BY <2>1, ConfigsAssumption, Thresholds
      <4>2. row'.state = Healthy /\ incidents' = 0
        BY <1>6, <3>2 DEF IInv, TypeOK, RowMatchesHistory, Restart
      <4> QED BY <4>1, <4>2 DEF StateMatchesStrikes, Healthy, Degraded, Quarantined
    <3>3. CASE ~settled'
      BY <3>3 DEF StateMatchesStrikes
    <3> QED BY <2>1, <3>1, <3>2, <3>3
  <2> QED BY <2>3, <2>4, <2>5 DEF IInv
<1>7. CASE Tick
  <2>1. clock' = clock + 1
    BY <1>7 DEF Tick
  <2>2. TypeOK'
    BY <1>2, <1>7, <2>1 DEF IInv, TypeOK, Tick
  <2>3. RowMatchesHistory'
    BY <1>2, <1>7, <2>1 DEF IInv, RowMatchesHistory, Tick, Times, NoTime
  <2>4. QuarantineIsBounded'
    <3>1. row.quarantinedAt \in Times
      BY DEF IInv, TypeOK, RuleHealthRows
    <3> QED BY <1>2, <1>7, <2>1, <3>1 DEF IInv, QuarantineIsBounded, Tick, Times, NoTime
  <2>5. /\ StateMatchesStrikes' /\ NeverSilent'
        /\ CyclesFollowSlates' /\ CycleNamesEpisode'
    BY <1>7 DEF IInv, Tick, StateMatchesStrikes, NeverSilent,
                CyclesFollowSlates, CycleNamesEpisode
  <2> QED BY <2>2, <2>3, <2>4, <2>5 DEF IInv
<1>8. CASE UNCHANGED vars
  BY <1>8 DEF vars, IInv, TypeOK, RowMatchesHistory, QuarantineIsBounded,
              StateMatchesStrikes, NeverSilent, CyclesFollowSlates, CycleNamesEpisode
<1> QED BY <1>3, <1>4, <1>5, <1>6, <1>7, <1>8 DEF Next

\* The invariant holds of every behaviour.
THEOREM Invariance == Spec => []IInv
BY InitInvariant, NextKeepsInvariant, PTL DEF Spec

-----------------------------------------------------------------------------
(* The results. *)

\* Type correctness of the guard's state (Scheduler/RuleGuard.cs).
THEOREM TypeCorrect == Spec => []TypeOK
<1>1. IInv => TypeOK
  BY DEF IInv
<1> QED BY <1>1, Invariance, PTL

\* While the settings stand, a rule is degraded or quarantined exactly when the
\* incidents since its slate was last wiped reach the thresholds of RuleGuard.
THEOREM StatesAreDeserved == Spec => []StateMatchesStrikes
<1>1. IInv => StateMatchesStrikes
  BY DEF IInv
<1> QED BY <1>1, Invariance, PTL

\* A rule is never degraded or quarantined without an announcement in its current
\* slate, whatever restarts changed the thresholds.
THEOREM NeverAsideInSilence == Spec => []NeverSilent
<1>1. IInv => NeverSilent
  BY DEF IInv
<1> QED BY <1>1, Invariance, PTL

\* Two episodes never share a notification cycle, so the deduplication of the
\* dispatcher cannot swallow a relapse.
THEOREM CyclesAreUnique == Spec => []CycleNamesEpisode
<1>1. IInv => CycleNamesEpisode
  BY DEF IInv
<1> QED BY <1>1, Invariance, PTL

\* A quarantine always has a deadline after it began.
THEOREM QuarantinesEnd == Spec => []QuarantineIsBounded
<1>1. IInv => QuarantineIsBounded
  BY DEF IInv
<1> QED BY <1>1, Invariance, PTL

-----------------------------------------------------------------------------
(* The cost of a faulty rule, and the announcements of its quarantines. *)

Announced(event) == {a \in announced : a.event = event /\ a.slate = slate}

\* Each quarantine of the slate was announced once; a slate without incidents has
\* announced nothing.
Renewals ==
  /\ IsFiniteSet(announced)
  /\ row.count = Cardinality(Announced(ToQuarantined))
  /\ incidents = 0 => \A a \in announced : a.slate # slate

\* Every incident past the threshold has waited for the quarantine before it to end.
Paid ==
  /\ incidents = 0 => firstAside = NoTime
  /\ settled /\ opt.enabled =>
       /\ incidents < QuarantineThreshold(opt) => firstAside = NoTime
       /\ incidents >= QuarantineThreshold(opt) =>
            /\ firstAside \in Nat
            /\ row.until = row.quarantinedAt + QuarantineDuration(opt)
            /\ (incidents - QuarantineThreshold(opt)) * QuarantineDuration(opt)
                 <= row.quarantinedAt - firstAside

\* A product that does not exceed a number bounds its quotient.
LEMMA Quotient ==
  ASSUME NEW k \in Nat, NEW d \in Nat \ {0}, NEW x \in Nat, k * d <= x
  PROVE  k <= x \div d
<1>1. /\ x \div d \in Int /\ x = d * (x \div d) + (x % d)
      /\ x % d \in Nat /\ x % d < d
  OBVIOUS
<1> DEFINE q == x \div d
<1> HIDE DEF q
<1>2. q \in Int /\ x < d * q + d
  BY <1>1 DEF q
<1>3. d * q + d = d * (q + 1)
  BY <1>2
<1>4. q + 1 <= k => d * (q + 1) <= k * d
  BY <1>2
<1>5. k <= q
  BY <1>2, <1>3, <1>4
<1> QED BY <1>5 DEF q

\* What an incident makes of the row, as far as its quarantines are concerned.
LEMMA IncidentRow ==
  ASSUME IInv, NEW outcome \in Runs, IsIncident(opt, outcome),
         NEW j, j = Record(opt, row, outcome, clock)
  PROVE  \/ /\ j.transition # ToQuarantined
            /\ j.row.count = row.count
            /\ opt.enabled => incidents + 1 < QuarantineThreshold(opt)
         \/ /\ j.transition = ToQuarantined
            /\ j.row.count = row.count + 1
            /\ j.row.quarantinedAt = clock
            /\ j.row.until = clock + QuarantineDuration(opt)
            /\ opt.enabled /\ incidents + 1 >= QuarantineThreshold(opt)
<1>1. opt \in GuardOptions /\ outcome \in Outcomes /\ clock \in Nat /\ row \in RuleHealthRows
  BY ConfigsAssumption, RunsAssumption DEF IInv, TypeOK
<1>2. Strikes(row) = incidents
  BY DEF IInv, RowMatchesHistory
<1> QED BY <1>1, <1>2, IncidentResult

\* A run, in terms of the row alone: the pass releases nothing.
LEMMA RunFacts ==
  ASSUME IInv, RunRule
  PROVE  \E outcome, j :
           /\ outcome \in Runs
           /\ j = Record(opt, row, outcome, clock) /\ row' = j.row
           /\ announced' = IF j.transition \in Events
                             THEN announced \union {[event |-> j.transition,
                                                     cycle |-> Cycle(j.row, j.transition),
                                                     slate |-> slate]}
                             ELSE announced
           /\ IF IsIncident(opt, outcome)
                THEN /\ incidents' = incidents + 1
                     /\ firstAside' = IF j.transition = ToQuarantined /\ firstAside = NoTime
                                        THEN clock ELSE firstAside
                     /\ UNCHANGED <<slate, settled>>
                ELSE WipeHistory /\ announced' = announced /\ row' = Reactivate(row)
<1>1. AfterGuard(opt, row, clock) = row
  BY ReleaseIsIdle DEF IInv
<1>2. PICK outcome \in Runs :
        LET j == Record(opt, row, outcome, clock)
        IN /\ row' = j.row
           /\ announced' = IF j.transition \in Events
                             THEN announced \union {[event |-> j.transition,
                                                     cycle |-> Cycle(j.row, j.transition),
                                                     slate |-> slate]}
                             ELSE announced
           /\ IF IsIncident(opt, outcome)
                THEN /\ incidents' = incidents + 1
                     /\ firstAside' = IF j.transition = ToQuarantined /\ firstAside = NoTime
                                        THEN clock ELSE firstAside
                     /\ UNCHANGED <<slate, settled>>
                ELSE WipeHistory
  BY <1>1 DEF RunRule
<1>3. CASE IsIncident(opt, outcome)
  BY <1>2, <1>3
<1>4. CASE ~IsIncident(opt, outcome)
  <2>1. Record(opt, row, outcome, clock) = ClearSlate(row)
    BY <1>4 DEF Record
  <2>2. /\ ClearSlate(row).row = Reactivate(row)
        /\ ClearSlate(row).transition \notin Events
    BY WipedRow DEF IInv, TypeOK, Events, NoChange, Recovered, ToDegraded, ToQuarantined
  <2> QED BY <1>2, <1>4, <2>1, <2>2
<1> QED BY <1>3, <1>4

\* A slate that is wiped has nothing to announce.
LEMMA WipeKeepsRenewals ==
  ASSUME IInv, Renewals, WipeHistory, row' = Reactivate(row), announced' = announced
  PROVE  Renewals'
<1>1. \A a \in announced : a.slate # slate'
  <2>1. CASE incidents > 0
    <3>1. slate \in Nat /\ slate' = slate + 1
      BY <2>1 DEF IInv, TypeOK, WipeHistory
    <3>2. \A a \in announced : a.slate \in Nat /\ a.slate <= slate
      BY DEF IInv, TypeOK, Announcements, CyclesFollowSlates
    <3> QED BY <3>1, <3>2
  <2>2. CASE ~(incidents > 0)
    <3>1. incidents = 0 /\ slate' = slate
      BY <2>2 DEF IInv, TypeOK, WipeHistory
    <3> QED BY <3>1 DEF Renewals
  <2> QED BY <2>1, <2>2
<1>2. Announced(ToQuarantined)' = {}
  BY <1>1 DEF Announced
<1>3. row'.count = 0
  BY WipedRow DEF IInv, TypeOK
<1> QED BY <1>1, <1>2, <1>3, FS_EmptySet DEF Renewals

\* Every step announces the quarantine it decides, under a cycle of its own.
LEMMA NextKeepsRenewals == IInv /\ Renewals /\ [Next]_vars => Renewals'
<1> SUFFICES ASSUME IInv, Renewals, [Next]_vars
             PROVE  Renewals'
  OBVIOUS
<1>1. CASE PassOver
  <2>1. AfterGuard(opt, row, clock) = row
    BY ReleaseIsIdle DEF IInv
  <2> QED BY <1>1, <2>1 DEF PassOver, Renewals, Announced
<1>2. CASE RunRule
  <2>1. PICK outcome, j :
          /\ outcome \in Runs
          /\ j = Record(opt, row, outcome, clock) /\ row' = j.row
          /\ announced' = IF j.transition \in Events
                            THEN announced \union {[event |-> j.transition,
                                                    cycle |-> Cycle(j.row, j.transition),
                                                    slate |-> slate]}
                            ELSE announced
          /\ IF IsIncident(opt, outcome)
               THEN incidents' = incidents + 1 /\ UNCHANGED slate
               ELSE WipeHistory /\ announced' = announced /\ row' = Reactivate(row)
    BY <1>2, RunFacts
  <2>2. CASE ~IsIncident(opt, outcome)
    BY <2>1, <2>2, WipeKeepsRenewals
  <2>3. CASE IsIncident(opt, outcome)
    <3> DEFINE a == [event |-> j.transition, cycle |-> Cycle(j.row, j.transition), slate |-> slate]
    <3>1. IsFiniteSet(announced')
      BY <2>1, FS_AddElement DEF Renewals
    <3>2. incidents' # 0 /\ slate' = slate
      BY <2>1, <2>3 DEF IInv, TypeOK
    <3>3. CASE j.transition # ToQuarantined
      <4>1. Announced(ToQuarantined)' = Announced(ToQuarantined)
        BY <2>1, <3>2, <3>3 DEF Announced
      <4>2. row'.count = row.count
        BY <2>1, <2>3, <3>3, IncidentRow
      <4> QED BY <3>1, <3>2, <4>1, <4>2 DEF Renewals
    <3>4. CASE j.transition = ToQuarantined
      <4>1. row'.count = row.count + 1 /\ row'.quarantinedAt = clock
        BY <2>1, <2>3, <3>4, IncidentRow
      <4>2. a.cycle = clock
        BY <2>1, <3>4, <4>1 DEF Cycle, IInv, TypeOK, NoTime
      <4>3. a \notin Announced(ToQuarantined)
        <5>1. \A b \in announced : b.cycle \in Nat /\ b.cycle <= lastPass
          BY DEF IInv, TypeOK, Announcements, CyclesFollowSlates
        <5>2. lastPass < clock /\ lastPass \in Times /\ clock \in Nat
          BY <1>2 DEF RunRule, PassDue, IInv, TypeOK
        <5> QED BY <4>2, <5>1, <5>2 DEF Announced, Times, NoTime
      <4>4. Announced(ToQuarantined)' = Announced(ToQuarantined) \union {a}
        <5>1. announced' = announced \union {a}
          BY <2>1, <3>4 DEF Events
        <5>2. a.event = ToQuarantined /\ a.slate = slate
          BY <3>4
        <5> HIDE DEF a
        <5> QED BY <3>2, <5>1, <5>2 DEF Announced
      <4>5. IsFiniteSet(Announced(ToQuarantined))
        BY FS_Subset DEF Renewals, Announced
      <4>6. Cardinality(Announced(ToQuarantined)') = Cardinality(Announced(ToQuarantined)) + 1
        BY <4>3, <4>4, <4>5, FS_AddElement
      <4> QED BY <3>1, <3>2, <4>1, <4>6 DEF Renewals
    <3> QED BY <3>3, <3>4
  <2> QED BY <2>2, <2>3
<1>3. CASE ReactivateRule
  BY <1>3, WipeKeepsRenewals DEF ReactivateRule
<1>4. CASE Restart \/ Tick \/ UNCHANGED vars
  BY <1>4 DEF Restart, Tick, vars, Renewals, Announced
<1> QED BY <1>1, <1>2, <1>3, <1>4 DEF Next

\* Every quarantine decided by the settings in force is announced once in its slate
\* (PublishGuardEvents), renewals included.
THEOREM RenewalsAreAnnounced == Spec => []RenewalsAnnounced
<1>1. Init => Renewals
  <2> SUFFICES ASSUME Init
               PROVE  Renewals
    OBVIOUS
  <2>1. announced = {} /\ row.count = 0
    BY DEF Init, NewState
  <2>2. Announced(ToQuarantined) = {}
    BY <2>1 DEF Announced
  <2> QED BY <2>1, <2>2, FS_EmptySet DEF Renewals
<1>2. IInv /\ IInv' /\ Renewals /\ [Next]_vars => Renewals'
  BY NextKeepsRenewals
<1>3. Renewals => RenewalsAnnounced
  BY DEF Renewals, RenewalsAnnounced, Announced
<1> QED BY <1>1, <1>2, <1>3, Invariance, PTL DEF Spec

\* An incident past the threshold waits for the end of the quarantine before it.
LEMMA IncidentPays ==
  ASSUME IInv, Paid, NEW outcome \in Runs, ~SkippedByGuard(opt, row, clock),
         IsIncident(opt, outcome),
         NEW j, j = Record(opt, row, outcome, clock), row' = j.row,
         incidents' = incidents + 1,
         firstAside' = IF j.transition = ToQuarantined /\ firstAside = NoTime
                         THEN clock ELSE firstAside,
         UNCHANGED <<opt, clock, settled>>
  PROVE  Paid'
<1> DEFINE quota == QuarantineThreshold(opt)
           d == QuarantineDuration(opt)
<1>1. /\ opt \in GuardOptions /\ opt.enabled \in BOOLEAN /\ clock \in Nat /\ incidents \in Nat
      /\ row \in RuleHealthRows /\ row.until \in Times /\ row.quarantinedAt \in Times
      /\ firstAside \in Times
  BY ConfigsAssumption DEF IInv, TypeOK, GuardOptions, RuleHealthRows
<1>2. quota \in Nat \ {0} /\ d \in Nat \ {0}
  BY <1>1, Thresholds
<1>3. \/ /\ j.transition # ToQuarantined
         /\ opt.enabled => incidents + 1 < quota
      \/ /\ j.transition = ToQuarantined
         /\ row'.quarantinedAt = clock
         /\ row'.until = clock + d
         /\ opt.enabled /\ incidents + 1 >= quota
  BY IncidentRow
<1> HIDE DEF quota, d
<1>4. incidents' # 0
  BY <1>1
<1>5. opt' = opt /\ settled' = settled /\ incidents' = incidents + 1
  OBVIOUS
<1>6. QuarantineThreshold(opt)' = quota /\ QuarantineDuration(opt)' = d
  BY <1>5 DEF quota, d
<1> DEFINE Kept == /\ incidents' < quota => firstAside' = NoTime
                   /\ incidents' >= quota =>
                        /\ firstAside' \in Nat
                        /\ row'.until = row'.quarantinedAt + d
                        /\ (incidents' - quota) * d <= row'.quarantinedAt - firstAside'
<1>7. ASSUME settled /\ opt.enabled => Kept PROVE Paid'
  <2>1. settled' /\ opt'.enabled => Kept
    BY <1>5, <1>7
  <2> QED BY <1>4, <1>6, <2>1, Zenon DEF Paid
<1> SUFFICES ASSUME settled, opt.enabled
             PROVE  Kept
  BY <1>7
<1>8. /\ incidents < quota => firstAside = NoTime
      /\ incidents >= quota => /\ firstAside \in Nat
                               /\ row.until = row.quarantinedAt + d
                               /\ (incidents - quota) * d <= row.quarantinedAt - firstAside
  BY DEF Paid, quota, d
<1>9. CASE incidents + 1 < quota
  <2>1. incidents < quota /\ j.transition # ToQuarantined
    BY <1>1, <1>2, <1>3, <1>9
  <2> QED BY <1>1, <1>2, <1>8, <1>9, <2>1
<1>10. CASE incidents + 1 = quota
  <2>1. incidents < quota /\ j.transition = ToQuarantined /\ incidents + 1 - quota = 0
    BY <1>1, <1>2, <1>3, <1>10
  <2>2. firstAside' = clock /\ row'.quarantinedAt = clock /\ row'.until = clock + d
    BY <1>1, <1>2, <1>3, <1>8, <1>10, <2>1
  <2>3. 0 * d = 0
    BY <1>2
  <2> QED BY <1>1, <1>2, <1>10, <2>1, <2>2, <2>3
<1>11. CASE incidents >= quota
  <2>1. row.state = Quarantined
    BY <1>1, <1>11 DEF IInv, StateMatchesStrikes, quota
  <2>2. row.quarantinedAt < row.until
    BY <2>1 DEF IInv, QuarantineIsBounded
  <2>3. row.until <= clock
    <3>1. row.until # NoTime
      BY <1>1, <2>2 DEF Times, NoTime
    <3>2. row.until > clock => IsQuarantined(opt, row, clock) /\ ~CanRelease(row, clock)
      BY <1>1, <2>1, <3>1 DEF IsQuarantined, CanRelease, Times, NoTime
    <3> QED BY <1>1, <3>2 DEF SkippedByGuard, Times, NoTime
  <2>4. /\ j.transition = ToQuarantined
        /\ row'.quarantinedAt = clock /\ row'.until = clock + d
    BY <1>1, <1>2, <1>3, <1>11
  <2>5. firstAside \in Nat /\ firstAside' = firstAside
    BY <1>8, <1>11 DEF NoTime
  <2>6. (incidents + 1 - quota) * d = (incidents - quota) * d + d
    BY <1>1, <1>2
  <2>7. (incidents - quota) * d <= row.quarantinedAt - firstAside
        /\ row.until = row.quarantinedAt + d
    BY <1>8, <1>11
  <2>8. (incidents - quota) * d \in Int
    BY <1>1, <1>2
  <2>9. (incidents - quota) * d + d <= clock - firstAside
    BY <1>1, <1>2, <2>3, <2>5, <2>7, <2>8 DEF Times, NoTime
  <2> QED BY <1>1, <1>2, <1>11, <2>4, <2>5, <2>6, <2>9
<1> QED BY <1>1, <1>2, <1>9, <1>10, <1>11

\* Nothing else spends: a wiped slate owes nothing, and other settings make no promise.
LEMMA NextKeepsPaid == IInv /\ Paid /\ [Next]_vars => Paid'
<1> SUFFICES ASSUME IInv, Paid, [Next]_vars
             PROVE  Paid'
  OBVIOUS
<1>1. ASSUME WipeHistory, opt' = opt PROVE Paid'
  <2>1. incidents' = 0 /\ firstAside' = NoTime
    BY <1>1 DEF WipeHistory
  <2>2. QuarantineThreshold(opt) \in Nat \ {0}
    BY ConfigsAssumption, Thresholds DEF IInv, TypeOK
  <2> QED BY <1>1, <2>1, <2>2 DEF Paid
<1>2. CASE PassOver
  <2>1. AfterGuard(opt, row, clock) = row
    BY ReleaseIsIdle DEF IInv
  <2> QED BY <1>2, <2>1 DEF PassOver, Paid
<1>3. CASE RunRule
  <2>1. PICK outcome, j :
          /\ outcome \in Runs
          /\ j = Record(opt, row, outcome, clock) /\ row' = j.row
          /\ IF IsIncident(opt, outcome)
               THEN /\ incidents' = incidents + 1
                    /\ firstAside' = IF j.transition = ToQuarantined /\ firstAside = NoTime
                                       THEN clock ELSE firstAside
                    /\ UNCHANGED settled
               ELSE WipeHistory
    BY <1>3, RunFacts
  <2>2. ~SkippedByGuard(opt, row, clock) /\ UNCHANGED <<opt, clock>>
    BY <1>3 DEF RunRule
  <2>3. CASE IsIncident(opt, outcome)
    BY <2>1, <2>2, <2>3, IncidentPays
  <2>4. CASE ~IsIncident(opt, outcome)
    BY <1>1, <2>1, <2>2, <2>4
  <2> QED BY <2>3, <2>4
<1>4. CASE ReactivateRule
  BY <1>1, <1>4 DEF ReactivateRule
<1>5. CASE Restart
  <2>1. UNCHANGED <<row, incidents, firstAside>>
    BY <1>5 DEF Restart
  <2>2. CASE settled' /\ opt' = opt
    <3>1. settled
      BY <1>5, <2>2 DEF Restart
    <3> QED BY <2>1, <2>2, <3>1 DEF Paid
  <2>3. CASE ~settled'
    BY <2>1, <2>3 DEF Paid
  <2>4. CASE incidents = 0
    <3>1. incidents' = 0 /\ firstAside' = NoTime
      BY <2>1, <2>4 DEF Paid
    <3>2. opt' \in GuardOptions
      BY <1>5, ConfigsAssumption DEF Restart
    <3>3. QuarantineThreshold(opt') \in Nat \ {0}
      BY <3>2, Thresholds
    <3> QED BY <3>1, <3>3 DEF Paid
  <2> QED BY <1>5, <2>2, <2>3, <2>4 DEF Restart
<1>6. CASE Tick \/ UNCHANGED vars
  BY <1>6 DEF Tick, vars, Paid
<1> QED BY <1>2, <1>3, <1>4, <1>5, <1>6 DEF Next

\* A rule that never recovers runs its threshold, then once per quarantine it has
\* served, whatever passes, reactivations and restarts do (RULES.md, Cost guard).
THEOREM FaultyRulesAreCapped == Spec => []FaultyRuleCost
<1>1. Init => Paid
  <2> SUFFICES ASSUME Init
               PROVE  Paid
    OBVIOUS
  <2>1. QuarantineThreshold(opt) \in Nat \ {0}
    BY ConfigsAssumption, Thresholds DEF Init
  <2> QED BY <2>1 DEF Init, Paid
<1>2. IInv /\ IInv' /\ Paid /\ [Next]_vars => Paid'
  BY NextKeepsPaid
<1>3. IInv /\ Paid => FaultyRuleCost
  <2> SUFFICES ASSUME IInv, Paid, settled, opt.enabled
               PROVE  incidents <= QuarantineThreshold(opt)
                        + (IF firstAside = NoTime THEN 0
                           ELSE (clock - firstAside) \div QuarantineDuration(opt))
    BY DEF FaultyRuleCost
  <2> DEFINE quota == QuarantineThreshold(opt)
             d == QuarantineDuration(opt)
  <2>1. quota \in Nat \ {0} /\ d \in Nat \ {0}
    BY ConfigsAssumption, Thresholds DEF IInv, TypeOK
  <2>2. clock \in Nat /\ incidents \in Nat
    BY DEF IInv, TypeOK
  <2>3. CASE incidents < quota
    <3>1. firstAside = NoTime
      BY <2>3 DEF Paid
    <3> QED BY <2>1, <2>2, <2>3, <3>1
  <2>4. CASE incidents >= quota
    <3>1. /\ firstAside \in Nat /\ (incidents - quota) * d <= row.quarantinedAt - firstAside
      BY <2>4 DEF Paid
    <3>2. row.state = Quarantined
      BY <2>4 DEF IInv, StateMatchesStrikes
    <3>3. row.quarantinedAt \in Times /\ row.quarantinedAt <= clock
      BY <3>2 DEF IInv, TypeOK, RuleHealthRows, QuarantineIsBounded
    <3> HIDE DEF quota, d
    <3>4. incidents - quota \in Nat /\ (incidents - quota) * d \in Nat
      BY <2>1, <2>2, <2>4
    <3>5. clock - firstAside \in Nat /\ (incidents - quota) * d <= clock - firstAside
      BY <2>2, <3>1, <3>3, <3>4 DEF Times, NoTime
    <3>6. incidents - quota <= (clock - firstAside) \div d
      BY <2>1, <3>4, <3>5, Quotient
    <3>7. (clock - firstAside) \div d \in Int
      BY <2>1, <3>5
    <3>8. firstAside # NoTime
      BY <3>1 DEF NoTime
    <3> QED BY <2>1, <2>2, <3>6, <3>7, <3>8 DEF quota, d
  <2> QED BY <2>1, <2>2, <2>3, <2>4
<1> QED BY <1>1, <1>2, <1>3, Invariance, PTL DEF Spec

-----------------------------------------------------------------------------
(* A row moves as GuardedRow says.  The options are the abstract row's choice *)
(* at every step, so a restart that changes them is a stutter.                *)

Guarded == INSTANCE GuardedRow

\* The instance has its own copy of the operators on rows; they say the same.
LEMMA SameOperators ==
  /\ Guarded!NewState = NewState
  /\ \A h : Guarded!Reactivate(h) = Reactivate(h)
  /\ \A o, h, now : Guarded!IsQuarantined(o, h, now) = IsQuarantined(o, h, now)
  /\ \A o, h, outcome, now : Guarded!Record(o, h, outcome, now) = Record(o, h, outcome, now)
<1> USE DEF Healthy, Degraded, Quarantined, NoTime, NoKind, NoChange, ToDegraded, ToQuarantined,
            Recovered, Guarded!Healthy, Guarded!Degraded, Guarded!Quarantined, Guarded!NoTime,
            Guarded!NoKind, Guarded!NoChange, Guarded!ToDegraded, Guarded!ToQuarantined,
            Guarded!Recovered
<1>1. /\ Guarded!NewState = NewState
      /\ \A h : Guarded!Reactivate(h) = Reactivate(h)
      /\ \A o, h, now : Guarded!IsQuarantined(o, h, now) = IsQuarantined(o, h, now)
      /\ \A h : Guarded!Strikes(h) = Strikes(h)
  BY DEF NewState, Reactivate, IsQuarantined, Strikes, Guarded!NewState, Guarded!Reactivate,
         Guarded!IsQuarantined, Guarded!Strikes
<1>2. \A o, outcome : Guarded!IsIncident(o, outcome) = IsIncident(o, outcome)
  BY DEF IsIncident, IsSlow, Guarded!IsIncident, Guarded!IsSlow
<1>3. \A o : /\ Guarded!WarningThreshold(o) = WarningThreshold(o)
             /\ Guarded!QuarantineThreshold(o) = QuarantineThreshold(o)
             /\ Guarded!QuarantineDuration(o) = QuarantineDuration(o)
  BY DEF WarningThreshold, QuarantineThreshold, QuarantineDuration, AtLeast, DefaultDuration,
         Guarded!WarningThreshold, Guarded!QuarantineThreshold, Guarded!QuarantineDuration,
         Guarded!AtLeast, Guarded!DefaultDuration
<1>4. \A h, outcome, now : Guarded!CountIncident(h, outcome, now) = CountIncident(h, outcome, now)
  BY DEF CountIncident, Guarded!CountIncident
<1>5. \A h : Guarded!ClearSlate(h) = ClearSlate(h)
  BY <1>1 DEF ClearSlate, Guarded!ClearSlate
<1>6. \A o, h, now : Guarded!SetAside(o, h, now) = SetAside(o, h, now)
  BY <1>3 DEF SetAside, Guarded!SetAside
<1>7. \A o, h, now : Guarded!JudgeIncident(o, h, now) = JudgeIncident(o, h, now)
  BY <1>1, <1>3, <1>6 DEF JudgeIncident, Guarded!JudgeIncident
<1>8. \A o, h, outcome, now : Guarded!Record(o, h, outcome, now) = Record(o, h, outcome, now)
  BY <1>2, <1>4, <1>5, <1>7 DEF Record, Guarded!Record
<1> QED BY <1>1, <1>8

\* What the pass does to a row once its run is allowed is one recorded run of GuardedRow.
LEMMA RunIsRecorded == ASSUME IInv, RunRule PROVE Guarded!Recorded
<1>1. AfterGuard(opt, row, clock) = row
  BY ReleaseIsIdle DEF IInv
<1>2. PICK outcome \in Runs : row' = Record(opt, row, outcome, clock).row
  BY <1>1 DEF RunRule
<1>3. opt \in Configs /\ clock' = clock
  BY DEF RunRule, IInv, TypeOK
<1>4. ~IsQuarantined(opt, row, clock)
  <2>1. SUFFICES ASSUME IsQuarantined(opt, row, clock)
                 PROVE  FALSE
    OBVIOUS
  <2>2. CanRelease(row, clock)
    BY <2>1 DEF RunRule, SkippedByGuard
  <2>3. /\ row.state = Quarantined /\ row.until = NoTime
        /\ row.quarantinedAt \in Times /\ clock \in Nat /\ row.until \in Times
    BY <2>1, <2>2 DEF IsQuarantined, CanRelease, IInv, TypeOK, RuleHealthRows, Times, NoTime
  <2>4. row.quarantinedAt < row.until /\ row.since <= row.quarantinedAt
        /\ row.since # NoTime /\ row.since \in Times
    BY <2>3 DEF IInv, QuarantineIsBounded, TypeOK, RuleHealthRows
  <2> QED BY <2>3, <2>4 DEF Times, NoTime
<1> QED BY <1>2, <1>3, <1>4, SameOperators DEF Guarded!Recorded

\* Whatever passes, operators, restarts and changes of settings do to a row, one of its
\* changes is a run judged in full that the guard had let through, or a reactivation:
\* a pass that leaves the rule aside (RuleGuard.TryRelease included) leaves it alone.
THEOREM RuleGuardImplementsGuardedRow == Spec => Guarded!Spec
<1>1. Init => Guarded!Init
  BY SameOperators DEF Init, Guarded!Init
<1>2. IInv /\ [Next]_vars => [Guarded!Next]_<<row, clock>>
  <2> SUFFICES ASSUME IInv, [Next]_vars
               PROVE  [Guarded!Next]_<<row, clock>>
    OBVIOUS
  <2>1. CASE PassOver
    <3>1. AfterGuard(opt, row, clock) = row
      BY ReleaseIsIdle DEF IInv
    <3> QED BY <2>1, <3>1 DEF PassOver
  <2>2. CASE RunRule
    BY <2>2, RunIsRecorded DEF Guarded!Next
  <2>3. CASE ReactivateRule
    BY <2>3, SameOperators DEF ReactivateRule, Guarded!Next, Guarded!Reactivated
  <2>4. CASE Tick
    BY <2>4 DEF Tick, Guarded!Next, Guarded!Tick
  <2>5. CASE Restart \/ UNCHANGED vars
    BY <2>5 DEF Restart, vars
  <2> QED BY <2>1, <2>2, <2>3, <2>4, <2>5 DEF Next
<1> QED BY <1>1, <1>2, Invariance, PTL DEF Spec, Guarded!Spec
=============================================================================
