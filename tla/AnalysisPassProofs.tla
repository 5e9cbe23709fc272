------------------------- MODULE AnalysisPassProofs -------------------------
(***************************************************************************)
(* What TLAPS proves of AnalysisPass, for any rules, options and setups:   *)
(* its types, whatever overlaps; and, as long as no reactivation overlaps  *)
(* a pass, that every row evolves as GuardedRow says, and that what is     *)
(* announced, shown and spent agrees with the rows.                        *)
(***************************************************************************)
EXTENDS AnalysisPass, RuleGuardOpsProofs, TLAPS

-----------------------------------------------------------------------------
(* The types. *)

Passes ==
  [phase : {"running", "saved"}, todo : SUBSET Rules,
   loaded : [Rules -> RuleHealthRows], mem : [Rules -> RuleHealthRows],
   crossed : SUBSET [rule : Rules, transition : Transitions], used : Nat]

Served == [phase : {"loaded"}, rule : Rules, loaded : RuleHealthRows]

Announcements == [rule : Rules, event : Events, cycle : Times]

Spending == [setup : Setups, resets : Nat, faults : Nat, passes : Int, lost : BOOLEAN]

Typed ==
  /\ clock \in 0..MaxClock
  /\ health \in [Rules -> RuleHealthRows]
  /\ pass \in {Idle} \union Passes
  /\ request \in {Idle} \union Served
  /\ announced \subseteq Announcements
  /\ shown \subseteq Rules
  /\ attempts \in [Rules -> Nat]
  /\ spent \in Spending

\* Nothing is dated later than now, and what a pass announces is dated.
Dated ==
  /\ \A r \in Rules : health[r].since <= clock
  /\ request # Idle => request.loaded.since <= clock
  /\ \A a \in announced : a.cycle \in 0..clock
  /\ pass # Idle =>
       /\ \A r \in Rules : pass.mem[r].since <= clock
       /\ \A c \in pass.crossed :
            /\ c.rule \notin pass.todo
            /\ c.transition \in Events => Cycle(pass.mem[c.rule], c.transition) \in 0..clock

\* What a setup is.
LEMMA SetupType == Typed => MaxClock \in Nat /\ Runs \subseteq Outcomes /\ clock \in Nat
  BY SetupsAssumption DEF Typed, Spending, MaxClock, Runs

\* A pass or a request at rest is in no other phase.
LEMMA IdlePhase == Idle \notin Passes /\ Idle \notin Served /\ Idle.phase = "idle"
  BY DEF Idle, Passes, Served

\* A save keeps the rows well formed; where nothing else wrote, it saves the new row.
LEMMA MergeResult ==
  ASSUME NEW saved \in RuleHealthRows, NEW loaded \in RuleHealthRows, NEW new \in RuleHealthRows
  PROVE  /\ Merge(saved, loaded, new) \in RuleHealthRows
         /\ Merge(saved, loaded, new).since \in {saved.since, new.since}
         /\ saved = loaded => Merge(saved, loaded, new) = new
<1> DEFINE m == Merge(saved, loaded, new)
<1>1. DOMAIN saved = {"state", "failures", "slowRuns", "kind", "since",
                      "quarantinedAt", "until", "reason", "count"}
  BY DEF RuleHealthRows
<1>2. \A c \in DOMAIN saved : m[c] \in {saved[c], new[c]}
  BY DEF Merge
<1>3. m \in RuleHealthRows
  BY <1>1, <1>2 DEF RuleHealthRows, Merge
<1>4. ASSUME saved = loaded PROVE m = new
  <2>1. \A c \in DOMAIN saved : m[c] = new[c]
    BY <1>4 DEF Merge
  <2> QED BY <1>1, <2>1 DEF Merge, RuleHealthRows
<1> QED BY <1>1, <1>2, <1>3, <1>4

\* What the guard leaves of a row before it is run.
LEMMA GuardResult ==
  ASSUME NEW h \in RuleHealthRows, NEW now \in Nat
  PROVE  /\ AfterGuard(Options, h, now) \in RuleHealthRows
         /\ AfterGuard(Options, h, now).since = h.since
         /\ h.until \in Nat => AfterGuard(Options, h, now) = h
<1>1. /\ [h EXCEPT !.state = Degraded, !.until = NoTime] \in RuleHealthRows
      /\ [h EXCEPT !.state = Degraded, !.until = NoTime].since = h.since
  BY DEF RuleHealthRows, States, Times
<1>2. h.until \in Nat /\ IsQuarantined(Options, h, now) => ~CanRelease(h, now)
  BY DEF IsQuarantined, CanRelease, NoTime
<1> QED BY <1>1, <1>2 DEF AfterGuard, TryRelease

\* What a recorded run leaves of a row, as far as its types and dates go.
LEMMA RecordTyped ==
  ASSUME NEW h \in RuleHealthRows, NEW outcome \in Outcomes, NEW now \in Nat, h.since <= now,
         NEW j, j = Record(Options, h, outcome, now)
  PROVE  /\ j.row \in RuleHealthRows /\ j.row.since <= now
         /\ j.transition \in Transitions
         /\ j.transition \in Events => Cycle(j.row, j.transition) \in 0..now
<1>1. h.since \in Times
  BY DEF RuleHealthRows
<1>2. CASE IsIncident(Options, outcome)
  <2>1. /\ j.row \in RuleHealthRows
        /\ j.transition \in {NoChange, ToDegraded, ToQuarantined}
        /\ j.row.since = IF h.since = NoTime THEN now ELSE h.since
        /\ j.transition = ToQuarantined => j.row.quarantinedAt = now
    BY <1>2, OptionsAssumption, IncidentResult
  <2>2. j.row.since \in 0..now
    BY <1>1, <2>1 DEF Times, NoTime
  <2>3. Cycle(j.row, j.transition) \in 0..now
    BY <2>1, <2>2 DEF Cycle
  <2> QED BY <2>1, <2>2, <2>3 DEF Transitions
<1>3. CASE ~IsIncident(Options, outcome)
  <2>1. j.row = Reactivate(h) /\ j.transition \in {NoChange, Recovered}
    BY <1>3, OptionsAssumption, SuccessResult
  <2>2. j.row \in RuleHealthRows /\ j.row.since = NoTime
    BY <2>1, WipedRow
  <2> QED BY <2>1, <2>2 DEF Transitions, Events, NoTime, NoChange, Recovered, ToDegraded, ToQuarantined
<1> QED BY <1>2, <1>3

\* The initial state is well typed.
LEMMA StartsTyped == Init => Typed /\ Dated
<1> SUFFICES ASSUME Init
             PROVE  Typed /\ Dated
  OBVIOUS
<1>1. NewState \in RuleHealthRows /\ NewState.since = NoTime
  BY DEF NewState, RuleHealthRows, States, Times
<1>2. spent \in Spending
  BY DEF Init, Spending
<1>3. MaxClock \in Nat
  BY <1>2, SetupsAssumption DEF Spending, MaxClock
<1> QED BY <1>1, <1>2, <1>3 DEF Init, Typed, Dated, NoTime

\* The tracked rows, saved.
LEMMA SaveTyped ==
  ASSUME Typed, Dated, pass # Idle, SaveTracked
  PROVE  /\ health' \in [Rules -> RuleHealthRows]
         /\ \A r \in Rules : health'[r].since <= clock
<1>1. /\ health \in [Rules -> RuleHealthRows]
      /\ pass.loaded \in [Rules -> RuleHealthRows] /\ pass.mem \in [Rules -> RuleHealthRows]
  BY DEF Typed, Passes
<1>2. \A r \in Rules : /\ Merge(health[r], pass.loaded[r], pass.mem[r]) \in RuleHealthRows
                       /\ Merge(health[r], pass.loaded[r], pass.mem[r]).since
                            \in {health[r].since, pass.mem[r].since}
  BY <1>1, MergeResult
<1> QED BY <1>1, <1>2 DEF SaveTracked, Dated

\* An exception or a crash uses up one fault.
LEMMA FaultTyped ==
  ASSUME Typed, spent' = [spent EXCEPT !.faults = @ + 1, !.lost = TRUE]
  PROVE  spent' \in Spending /\ spent'.setup = spent.setup
<1> DEFINE n == spent.faults + 1
<1>1. n \in Nat /\ spent \in Spending
  BY DEF Typed, Spending
<1>2. spent' = [spent EXCEPT !.faults = n, !.lost = TRUE]
  BY DEF Typed, Spending
<1> HIDE DEF n
<1> QED BY <1>1, <1>2 DEF Spending

\* A pass that starts tracks the rows as they are.
LEMMA StartTyped == ASSUME Typed, Dated, PassStart PROVE Typed' /\ Dated'
<1>1. PICK due \in SUBSET Rules \ {{}} :
        pass' = [phase |-> "running", todo |-> due, loaded |-> health, mem |-> health,
                 crossed |-> {}, used |-> 0]
  BY DEF PassStart
<1>2. pass' \in Passes /\ pass'.mem = health /\ pass'.crossed = {}
  BY <1>1 DEF Typed, Passes
<1>3. /\ spent' \in Spending /\ spent'.setup = spent.setup
  BY SetupType DEF PassStart, Typed, Spending
<1>4. UNCHANGED <<clock, health, request, announced, shown, attempts>>
  BY DEF PassStart
<1> QED BY <1>2, <1>3, <1>4 DEF Typed, Dated, MaxClock

\* A rule is left aside.
LEMMA SkipTyped == ASSUME Typed, Dated, NEW r \in Rules, SkipRule(r) PROVE Typed' /\ Dated'
<1>1. pass \in Passes /\ pass # Idle /\ clock \in Nat /\ r \in pass.todo
  BY IdlePhase, SetupType DEF SkipRule, IsCurrent, Typed
<1> DEFINE h == AfterGuard(Options, pass.mem[r], clock)
<1>2. pass.mem[r] \in RuleHealthRows
  BY <1>1 DEF Passes
<1>3. h \in RuleHealthRows /\ h.since = pass.mem[r].since
  BY <1>1, <1>2, GuardResult
<1>4. pass' = [pass EXCEPT !.todo = @ \ {r}, !.mem[r] = h]
  BY DEF SkipRule
<1> HIDE DEF h
<1>5. /\ pass' \in Passes /\ pass'.crossed = pass.crossed /\ pass'.todo = pass.todo \ {r}
      /\ pass'.mem = [pass.mem EXCEPT ![r] = h]
  BY <1>1, <1>3, <1>4 DEF Passes
<1>6. UNCHANGED <<clock, health, request, announced, shown, attempts, spent>>
  BY DEF SkipRule
<1>7. pass'.mem \in [Rules -> RuleHealthRows] /\ pass.mem \in [Rules -> RuleHealthRows]
  BY <1>1, <1>5 DEF Passes
<1>8. \A q \in Rules : pass'.mem[q].since <= clock
  BY <1>1, <1>3, <1>5, <1>7 DEF Dated
<1>9. \A c \in pass.crossed : c.rule \in Rules /\ c.rule # r
  BY <1>1 DEF Dated, Passes
<1>10. Typed'
  BY <1>5, <1>6 DEF Typed, MaxClock
<1>11. \A c \in pass.crossed : pass'.mem[c.rule] = pass.mem[c.rule]
  BY <1>5, <1>7, <1>9
<1>12. Dated'
  BY <1>1, <1>5, <1>6, <1>8, <1>9, <1>11 DEF Dated
<1> QED BY <1>10, <1>12

\* What a run of a rule does to the pass.
LEMMA RunFacts ==
  ASSUME Typed, NEW r \in Rules, RunRule(r)
  PROVE  \E outcome, j :
           /\ outcome \in Runs
           /\ j = Record(Options, AfterGuard(Options, pass.mem[r], clock), outcome, clock)
           /\ pass' = [pass EXCEPT
                !.todo = @ \ {r},
                !.mem[r] = j.row,
                !.crossed = IF j.transition = NoChange THEN @
                            ELSE @ \union {[rule |-> r, transition |-> j.transition]},
                !.used = IF IsIncident(Options, outcome) THEN @ + 1 ELSE @]
           /\ attempts' = [attempts EXCEPT ![r] = IF IsIncident(Options, outcome) THEN @ + 1 ELSE 0]
  BY DEF RunRule

\* A rule is run.
LEMMA RunTyped == ASSUME Typed, Dated, NEW r \in Rules, RunRule(r) PROVE Typed' /\ Dated'
<1>1. pass \in Passes /\ pass # Idle /\ clock \in Nat /\ r \in pass.todo /\ Runs \subseteq Outcomes
  BY IdlePhase, SetupType DEF RunRule, IsCurrent, Typed
<1>2. PICK outcome, j :
        /\ outcome \in Runs
        /\ j = Record(Options, AfterGuard(Options, pass.mem[r], clock), outcome, clock)
        /\ pass' = [pass EXCEPT
             !.todo = @ \ {r},
             !.mem[r] = j.row,
             !.crossed = IF j.transition = NoChange THEN @
                         ELSE @ \union {[rule |-> r, transition |-> j.transition]},
             !.used = IF IsIncident(Options, outcome) THEN @ + 1 ELSE @]
        /\ attempts' = [attempts EXCEPT ![r] = IF IsIncident(Options, outcome) THEN @ + 1 ELSE 0]
  BY RunFacts
<1>3. /\ pass.mem[r] \in RuleHealthRows
      /\ AfterGuard(Options, pass.mem[r], clock) \in RuleHealthRows
      /\ AfterGuard(Options, pass.mem[r], clock).since <= clock
  BY <1>1, GuardResult DEF Passes, Dated
<1>4. /\ j.row \in RuleHealthRows /\ j.row.since <= clock
      /\ j.transition \in Transitions
      /\ j.transition \in Events => Cycle(j.row, j.transition) \in 0..clock
  BY <1>1, <1>2, <1>3, RecordTyped
<1> DEFINE crossed == IF j.transition = NoChange THEN pass.crossed
                      ELSE pass.crossed \union {[rule |-> r, transition |-> j.transition]}
           used == IF IsIncident(Options, outcome) THEN pass.used + 1 ELSE pass.used
           spends == IF IsIncident(Options, outcome) THEN attempts[r] + 1 ELSE 0
<1>5. /\ crossed \in SUBSET [rule : Rules, transition : Transitions]
      /\ used \in Nat /\ spends \in Nat
  BY <1>1, <1>4 DEF Passes, Typed
<1>6. \A c \in crossed :
        \/ c \in pass.crossed
        \/ c.rule = r /\ c.transition = j.transition
  OBVIOUS
<1>7. /\ pass' = [pass EXCEPT !.todo = @ \ {r}, !.mem[r] = j.row, !.crossed = crossed, !.used = used]
      /\ attempts' = [attempts EXCEPT ![r] = spends]
  BY <1>2 DEF Typed, Passes
<1> HIDE DEF crossed, used, spends
<1>8. /\ pass' \in Passes /\ pass'.crossed = crossed /\ pass'.todo = pass.todo \ {r}
      /\ pass'.mem = [pass.mem EXCEPT ![r] = j.row]
  BY <1>1, <1>4, <1>5, <1>7 DEF Passes
<1>9. UNCHANGED <<clock, health, request, announced, shown, spent>>
  BY DEF RunRule
<1>10. pass.mem \in [Rules -> RuleHealthRows]
  BY <1>1 DEF Passes
<1>11. \A q \in Rules : pass'.mem[q].since <= clock
  BY <1>1, <1>4, <1>8, <1>10 DEF Dated
<1>12. Typed'
  BY <1>5, <1>7, <1>8, <1>9 DEF Typed, MaxClock
<1>13. ASSUME NEW c \in crossed
       PROVE  /\ c.rule \notin pass'.todo
              /\ c.transition \in Events => Cycle(pass'.mem[c.rule], c.transition) \in 0..clock
  <2>1. CASE c \in pass.crossed
    <3>1. c.rule \in Rules /\ c.rule # r /\ c.rule \notin pass.todo
      BY <1>1, <2>1 DEF Dated, Passes
    <3>2. pass'.mem[c.rule] = pass.mem[c.rule]
      BY <1>8, <1>10, <3>1
    <3> QED BY <1>1, <1>8, <2>1, <3>1, <3>2 DEF Dated
  <2>2. CASE c.rule = r /\ c.transition = j.transition
    BY <1>4, <1>8, <1>10, <2>2
  <2> QED BY <1>6, <2>1, <2>2
<1>14. Dated'
  BY <1>1, <1>8, <1>9, <1>11, <1>13 DEF Dated
<1> QED BY <1>12, <1>14

\* A pass ends: cancelled, broken, or saved.
LEMMA EndTyped == ASSUME Typed, Dated, PassCancel \/ PassBreak \/ PassSave PROVE Typed' /\ Dated'
<1>1. pass \in Passes /\ pass # Idle
  BY IdlePhase DEF Typed, PassCancel, PassBreak, PassSave
<1>2. UNCHANGED <<clock, request, announced, attempts>>
  BY DEF PassCancel, PassBreak, PassSave
<1>3. /\ health' \in [Rules -> RuleHealthRows]
      /\ \A r \in Rules : health'[r].since <= clock
  BY <1>1, SaveTyped DEF PassCancel, PassBreak, PassSave, Typed, Dated
<1>4. spent' \in Spending /\ spent'.setup = spent.setup
  <2>1. CASE PassBreak
    BY <2>1, FaultTyped DEF PassBreak
  <2>2. CASE PassCancel \/ PassSave
    BY <2>2 DEF PassCancel, PassSave, Typed, Spending
  <2> QED BY <2>1, <2>2
<1>5. shown' \subseteq Rules
  BY DEF PassCancel, PassBreak, PassSave, Typed, SetAsideRules
<1>6. \/ pass' = Idle
      \/ /\ pass' \in Passes /\ pass'.mem = pass.mem
         /\ pass'.crossed = pass.crossed /\ pass'.todo = pass.todo
  BY <1>1 DEF PassCancel, PassBreak, PassSave, Passes
<1> QED BY <1>1, <1>2, <1>3, <1>4, <1>5, <1>6 DEF Typed, Dated, MaxClock

\* The announcements of a pass are dated.
LEMMA PublishTyped == ASSUME Typed, Dated, PassPublish PROVE Typed' /\ Dated'
<1>1. pass \in Passes /\ pass # Idle /\ clock \in Nat
  BY IdlePhase, SetupType DEF Typed, PassPublish
<1>2. UNCHANGED <<clock, health, request, shown, attempts, spent>> /\ pass' = Idle
      /\ announced' = announced \union Notices
  BY DEF PassPublish
<1>3. ASSUME NEW a \in Notices PROVE a \in Announcements /\ a.cycle \in 0..clock
  <2>1. PICK c \in pass.crossed :
          /\ c.transition \in Events
          /\ a = [rule |-> c.rule, event |-> c.transition, cycle |-> Cycle(pass.mem[c.rule], c.transition)]
    BY DEF Notices
  <2>2. c.rule \in Rules /\ Cycle(pass.mem[c.rule], c.transition) \in 0..clock
    BY <1>1, <2>1 DEF Passes, Dated
  <2> QED BY <1>1, <2>1, <2>2 DEF Announcements, Times
<1> QED BY <1>2, <1>3 DEF Typed, Dated, MaxClock

\* Reactivations, the clock and a crash.
LEMMA OthersTyped ==
  ASSUME Typed, Dated, ReactivateLoad \/ ReactivateSave \/ Tick \/ Crash
  PROVE  Typed' /\ Dated'
<1>1. CASE ReactivateLoad
  <2>1. PICK r \in Rules : request' = [phase |-> "loaded", rule |-> r, loaded |-> health[r]]
    BY <1>1 DEF ReactivateLoad
  <2>2. request' \in Served /\ request'.loaded.since <= clock
    BY <2>1 DEF Typed, Dated, Served
  <2>3. spent' \in Spending /\ spent'.setup = spent.setup
    BY <1>1 DEF ReactivateLoad, Typed, Spending
  <2>4. UNCHANGED <<clock, health, pass, announced, shown, attempts>>
    BY <1>1 DEF ReactivateLoad
  <2> QED BY <2>2, <2>3, <2>4 DEF Typed, Dated, MaxClock
<1>2. CASE ReactivateSave
  <2> DEFINE r == request.rule
             h == Merge(health[r], request.loaded, Reactivate(request.loaded))
  <2>1. r \in Rules /\ request.loaded \in RuleHealthRows /\ health[r] \in RuleHealthRows
    BY <1>2 DEF ReactivateSave, Typed, Served
  <2>2. Reactivate(request.loaded) \in RuleHealthRows /\ Reactivate(request.loaded).since = NoTime
    BY <2>1, WipedRow
  <2>3. h \in RuleHealthRows /\ h.since \in {health[r].since, NoTime}
    BY <2>1, <2>2, MergeResult
  <2>4. /\ health' = [health EXCEPT ![r] = h] /\ attempts' = [attempts EXCEPT ![r] = 0]
        /\ request' = Idle /\ UNCHANGED <<clock, pass, announced, shown, spent>>
    BY <1>2 DEF ReactivateSave, Typed
  <2> HIDE DEF h, r
  <2>5. Typed'
    BY <2>1, <2>3, <2>4 DEF Typed, MaxClock
  <2>6. \A q \in Rules : health'[q].since <= clock
    BY <2>1, <2>3, <2>4, SetupType DEF Typed, Dated, NoTime
  <2> QED BY <2>4, <2>5, <2>6 DEF Dated
<1>3. CASE Tick
  <2>1. /\ pass = Idle /\ clock' = clock + 1 /\ clock' \in 0..MaxClock /\ clock \in Nat
        /\ UNCHANGED <<health, pass, request, announced, shown, attempts, spent>>
    BY <1>3, SetupType DEF Tick, Typed
  <2>2. Typed'
    BY <2>1 DEF Typed, MaxClock
  <2>3. \A r \in Rules : health[r].since \in Times
    BY DEF Typed, RuleHealthRows
  <2>4. request # Idle => request.loaded.since \in Times
    BY DEF Typed, Served, RuleHealthRows
  <2>5. Dated'
    BY <2>1, <2>3, <2>4 DEF Dated, Times, NoTime
  <2> QED BY <2>2, <2>5
<1>4. CASE Crash
  <2>1. /\ pass' = Idle /\ request' = Idle /\ shown' = {}
        /\ UNCHANGED <<clock, health, announced, attempts>>
    BY <1>4 DEF Crash
  <2>2. spent' \in Spending /\ spent'.setup = spent.setup
    BY <1>4, FaultTyped DEF Crash
  <2> QED BY <2>1, <2>2 DEF Typed, Dated, MaxClock
<1> QED BY <1>1, <1>2, <1>3, <1>4

\* Types and dates hold in every state.
LEMMA TypedInvariant == Spec => [](Typed /\ Dated)
<1>1. Typed /\ Dated /\ [Next]_vars => Typed' /\ Dated'
  <2> SUFFICES ASSUME Typed, Dated, [Next]_vars
               PROVE  Typed' /\ Dated'
    OBVIOUS
  <2>1. CASE UNCHANGED vars
    BY <2>1 DEF vars, Typed, Dated, MaxClock
  <2> QED BY <2>1, StartTyped, SkipTyped, RunTyped, EndTyped, PublishTyped, OthersTyped DEF Next
<1> QED BY <1>1, StartsTyped, PTL DEF Spec

\* The rows, the pass and the announcements keep their types, whatever a reactivation,
\* an exception or a crash does to a pass; an announcement always has a date.
THEOREM PassIsTyped == Spec => []TypeOK
<1>1. Typed /\ Dated => TypeOK
  <2> SUFFICES ASSUME Typed, Dated
               PROVE  TypeOK
    OBVIOUS
  <2>1. \A a \in announced : a.rule \in Rules /\ a.event \in Events /\ a.cycle \in 0..MaxClock
    BY SetupType DEF Typed, Dated, Announcements
  <2>2. \/ pass = Idle
        \/ /\ pass.phase \in {"running", "saved"}
           /\ pass.mem \in [Rules -> RuleHealthRows]
    BY DEF Typed, Passes
  <2>3. request = Idle \/ request.loaded \in RuleHealthRows
    BY DEF Typed, Served
  <2> QED BY <2>1, <2>2, <2>3 DEF Typed, TypeOK
<1> QED BY <1>1, TypedInvariant, PTL

-----------------------------------------------------------------------------
(* When no reactivation overlaps a pass. *)

AllRuns == UNION {setup.runs : setup \in Setups}

\* A row the guard has written: an incident dates it, a quarantine ends, and as many
\* quarantines as strikes past the threshold were served.
Sane(h) ==
  /\ h.state # Healthy => h.since \in Nat
  /\ h.state = Quarantined => h.until \in Nat
  /\ Options.enabled =>
       \/ h.count = 0 /\ Strikes(h) < QuarantineThreshold(Options)
       \/ h.count > 0 /\ Strikes(h) = QuarantineThreshold(Options) + h.count - 1

\* A row that was run at most once, as the guard let it.
Judged(old, new) ==
  \/ new = old
  \/ \E outcome \in AllRuns :
       /\ ~IsQuarantined(Options, old, clock)
       /\ new = Record(Options, old, outcome, clock).row

\* What is loaded is what the table holds, and what is tracked was judged once.
Alone ==
  /\ pass = Idle \/ request = Idle
  /\ request # Idle => request.loaded = health[request.rule]
  /\ \A r \in Rules : Sane(health[r])
  /\ pass # Idle /\ pass.phase = "running" =>
       /\ pass.loaded = health
       /\ \A r \in pass.todo : pass.mem[r] = health[r]
       /\ \A r \in Rules : Sane(pass.mem[r]) /\ Judged(health[r], pass.mem[r])
  /\ pass # Idle /\ pass.phase = "saved" => pass.mem = health

\* The setup never changes.
LEMMA SetupStays == Typed /\ [Next]_vars => Exclusive' = Exclusive
<1> SUFFICES ASSUME Typed, [Next]_vars
             PROVE  Exclusive' = Exclusive
  OBVIOUS
<1>1. spent'.setup = spent.setup
  <2>1. CASE PassBreak \/ Crash
    BY <2>1, FaultTyped DEF PassBreak, Crash
  <2>2. CASE PassStart \/ PassCancel \/ ReactivateLoad
    BY <2>2 DEF PassStart, PassCancel, ReactivateLoad, Typed, Spending
  <2>3. CASE \/ \E r \in Rules : SkipRule(r) \/ RunRule(r)
             \/ PassSave \/ PassPublish \/ ReactivateSave \/ Tick \/ UNCHANGED vars
    BY <2>3 DEF SkipRule, RunRule, PassSave, PassPublish, ReactivateSave, Tick, vars
  <2> QED BY <2>1, <2>2, <2>3 DEF Next
<1> QED BY <1>1 DEF Exclusive

\* A sane row is set aside until a date, so that nothing releases it without a run.
LEMMA SaneGuard ==
  ASSUME NEW h \in RuleHealthRows, Sane(h), NEW now \in Nat
  PROVE  /\ AfterGuard(Options, h, now) = h
         /\ ~SkippedByGuard(Options, h, now) => ~IsQuarantined(Options, h, now)
<1>1. IsQuarantined(Options, h, now) => h.until \in Nat /\ h.until > now
  BY DEF IsQuarantined, Sane, NoTime
<1>2. IsQuarantined(Options, h, now) => ~CanRelease(h, now)
  BY <1>1 DEF CanRelease, NoTime
<1> QED BY <1>2 DEF AfterGuard, TryRelease, SkippedByGuard

\* A run leaves a sane row, set aside at most once more.
LEMMA SaneRun ==
  ASSUME NEW h \in RuleHealthRows, Sane(h), NEW now \in Nat, NEW outcome \in Outcomes,
         NEW j, j = Record(Options, h, outcome, now)
  PROVE  Sane(j.row) /\ j.row.count <= h.count + 1
<1>1. /\ Options \in GuardOptions /\ QuarantineThreshold(Options) \in Nat \ {0}
      /\ QuarantineDuration(Options) \in Nat
      /\ h.count \in Nat /\ Strikes(h) \in Nat
  BY OptionsAssumption, Thresholds DEF RuleHealthRows, Strikes
<1>2. CASE IsIncident(Options, outcome)
  <2>1. /\ Strikes(j.row) = Strikes(h) + 1
        /\ j.row.since = IF h.since = NoTime THEN now ELSE h.since
        /\ \/ /\ j.row.count = h.count + 1
              /\ j.row.until = now + QuarantineDuration(Options)
              /\ Options.enabled
              /\ Strikes(h) + 1 >= QuarantineThreshold(Options)
           \/ /\ j.row.count = h.count
              /\ j.row.until = h.until
              /\ j.row.state = Quarantined => h.state = Quarantined
              /\ Options.enabled => Strikes(h) + 1 < QuarantineThreshold(Options)
    BY <1>1, <1>2, IncidentResult
  <2>2. j.row.since \in Nat
    BY <2>1 DEF RuleHealthRows, Times
  <2>3. CASE /\ j.row.count = h.count + 1
             /\ j.row.until = now + QuarantineDuration(Options)
             /\ Options.enabled
             /\ Strikes(h) + 1 >= QuarantineThreshold(Options)
    BY <1>1, <2>1, <2>2, <2>3 DEF Sane
  <2>4. CASE /\ j.row.count = h.count
             /\ j.row.until = h.until
             /\ j.row.state = Quarantined => h.state = Quarantined
             /\ Options.enabled => Strikes(h) + 1 < QuarantineThreshold(Options)
    BY <1>1, <2>1, <2>2, <2>4 DEF Sane
  <2> QED BY <2>1, <2>3, <2>4
<1>3. CASE ~IsIncident(Options, outcome)
  <2>1. j.row = Reactivate(h)
    BY <1>1, <1>3, SuccessResult
  <2> QED BY <1>1, <2>1, WipedRow DEF Sane, Healthy, Quarantined
<1> QED BY <1>2, <1>3

\* When nothing else wrote, what is tracked is what is saved.
LEMMA SavedAlone ==
  ASSUME Typed, Alone, pass # Idle, pass.phase = "running", SaveTracked
  PROVE  health' = pass.mem
<1>1. /\ health \in [Rules -> RuleHealthRows]
      /\ pass.mem \in [Rules -> RuleHealthRows] /\ pass.loaded = health
  BY DEF Typed, Passes, Alone
<1>2. \A r \in Rules : Merge(health[r], pass.loaded[r], pass.mem[r]) = pass.mem[r]
  BY <1>1, MergeResult
<1> QED BY <1>1, <1>2 DEF SaveTracked

\* The same of a reactivation.
LEMMA ReactivatedAlone ==
  ASSUME Typed, Alone, ReactivateSave
  PROVE  /\ request.rule \in Rules
         /\ health' = [health EXCEPT ![request.rule] = Reactivate(health[request.rule])]
         /\ attempts' = [attempts EXCEPT ![request.rule] = 0]
<1>1. /\ request.rule \in Rules /\ health[request.rule] \in RuleHealthRows
      /\ request.loaded = health[request.rule]
  BY DEF ReactivateSave, Typed, Served, Alone
<1>2. Reactivate(request.loaded) \in RuleHealthRows
  BY <1>1, WipedRow
<1>3. Merge(health[request.rule], request.loaded, Reactivate(request.loaded))
        = Reactivate(health[request.rule])
  BY <1>1, <1>2, MergeResult
<1> QED BY <1>1, <1>3 DEF ReactivateSave, Typed

\* The rows at the start are sane.
LEMMA StartsAlone == Init => Alone
<1> SUFFICES ASSUME Init
             PROVE  Alone
  OBVIOUS
<1>1. QuarantineThreshold(Options) \in Nat \ {0}
  BY OptionsAssumption, Thresholds
<1>2. /\ NewState.state = Healthy /\ NewState.count = 0
      /\ NewState.failures = 0 /\ NewState.slowRuns = 0
  BY DEF NewState
<1>3. Sane(NewState)
  BY <1>1, <1>2 DEF Sane, Strikes, Healthy, Quarantined
<1>4. \A r \in Rules : health[r] = NewState
  BY DEF Init
<1> QED BY <1>3, <1>4 DEF Init, Alone

\* The steps over the rules: each takes a row as the table has it, and judges it once.
LEMMA RulesAlone ==
  ASSUME Typed, Alone, NEW r \in Rules, SkipRule(r) \/ RunRule(r)
  PROVE  Alone'
<1>1. /\ pass \in Passes /\ pass # Idle /\ pass.phase = "running"
      /\ clock \in Nat /\ r \in pass.todo
      /\ UNCHANGED <<clock, health, request>>
  BY IdlePhase, SetupType DEF SkipRule, RunRule, IsCurrent, Typed
<1>2. /\ pass.mem[r] = health[r] /\ Sane(health[r]) /\ health[r] \in RuleHealthRows
      /\ pass.mem \in [Rules -> RuleHealthRows]
  BY <1>1 DEF Alone, Typed, Passes
<1>3. AfterGuard(Options, pass.mem[r], clock) = health[r]
  BY <1>1, <1>2, SaneGuard
<1>4. PICK h : /\ pass'.mem = [pass.mem EXCEPT ![r] = h]
               /\ pass'.todo = pass.todo \ {r}
               /\ pass'.phase = "running" /\ pass'.loaded = pass.loaded /\ pass' # Idle
               /\ Sane(h) /\ Judged(health[r], h)
  <2>1. CASE SkipRule(r)
    <3>1. pass' = [pass EXCEPT !.todo = @ \ {r}, !.mem[r] = health[r]]
      BY <1>1, <1>3, <2>1 DEF SkipRule, Passes
    <3>2. /\ pass'.mem = [pass.mem EXCEPT ![r] = health[r]]
          /\ pass'.todo = pass.todo \ {r}
          /\ pass'.phase = "running" /\ pass'.loaded = pass.loaded
      BY <1>1, <3>1 DEF Passes
    <3> QED BY <1>2, <3>2, IdlePhase DEF Judged
  <2>2. CASE RunRule(r)
    <3>1. PICK outcome, j :
            /\ outcome \in Runs
            /\ j = Record(Options, health[r], outcome, clock)
            /\ pass' = [pass EXCEPT
                 !.todo = @ \ {r},
                 !.mem[r] = j.row,
                 !.crossed = IF j.transition = NoChange THEN @
                             ELSE @ \union {[rule |-> r, transition |-> j.transition]},
                 !.used = IF IsIncident(Options, outcome) THEN @ + 1 ELSE @]
      BY <1>3, <2>2, RunFacts
    <3>2. /\ pass'.mem = [pass.mem EXCEPT ![r] = j.row]
          /\ pass'.todo = pass.todo \ {r}
          /\ pass'.phase = "running" /\ pass'.loaded = pass.loaded
      BY <1>1, <3>1 DEF Passes
    <3>3. outcome \in AllRuns /\ outcome \in Outcomes
      BY <3>1, SetupType DEF AllRuns, Typed, Spending, Runs
    <3>4. ~IsQuarantined(Options, health[r], clock)
      BY <1>1, <1>2, <2>2, SaneGuard DEF RunRule
    <3>5. Sane(j.row)
      BY <1>1, <1>2, <3>1, <3>3, SaneRun
    <3> QED BY <3>1, <3>2, <3>3, <3>4, <3>5, IdlePhase DEF Judged
  <2> QED BY <2>1, <2>2
<1>5. ASSUME NEW q \in Rules PROVE Sane(pass'.mem[q]) /\ Judged(health[q], pass'.mem[q])
  BY <1>1, <1>2, <1>4 DEF Alone
<1>6. ASSUME NEW q \in pass'.todo PROVE pass'.mem[q] = health[q]
  BY <1>1, <1>2, <1>4 DEF Alone, Passes
<1>7. \A q \in Rules : Judged(health[q], pass.mem[q])'
  BY <1>1, <1>5 DEF Judged
<1>8. pass.loaded = health /\ request = Idle /\ \A q \in Rules : Sane(health[q])
  BY <1>1 DEF Alone
<1> QED BY <1>1, <1>4, <1>5, <1>6, <1>7, <1>8 DEF Alone

\* The other steps.
LEMMA NextAlone ==
  ASSUME Typed, Exclusive, Alone, [Next]_vars
  PROVE  Alone'
<1>1. CASE \E r \in Rules : SkipRule(r) \/ RunRule(r)
  BY <1>1, RulesAlone
<1>2. CASE PassStart
  <2>1. /\ request = Idle /\ request' = Idle /\ health' = health /\ clock' = clock
        /\ pass'.phase = "running" /\ pass'.loaded = health /\ pass'.mem = health
        /\ pass'.todo \subseteq Rules
    BY <1>2 DEF PassStart
  <2> QED BY <2>1 DEF Alone, Judged
<1>3. CASE PassBreak \/ PassSave
  <2>1. pass # Idle /\ pass.phase = "running"
    BY <1>3, IdlePhase DEF PassBreak, PassSave
  <2>2. health' = pass.mem /\ request' = request
    BY <1>3, <2>1, SavedAlone DEF PassBreak, PassSave
  <2>3. pass' = Idle \/ (pass'.phase = "saved" /\ pass'.mem = pass.mem)
    BY <1>3, <2>1 DEF PassBreak, PassSave, Typed, Passes
  <2> QED BY <2>1, <2>2, <2>3 DEF Alone
<1>4. CASE PassCancel \/ PassPublish \/ Crash
  <2>1. pass' = Idle /\ health' = health /\ (request' = request \/ request' = Idle)
    BY <1>4 DEF PassCancel, PassPublish, Crash
  <2> QED BY <2>1 DEF Alone
<1>5. CASE ReactivateLoad
  <2>1. pass = Idle /\ pass' = Idle /\ health' = health
        /\ request'.loaded = health[request'.rule]
    BY <1>5 DEF ReactivateLoad
  <2> QED BY <2>1 DEF Alone
<1>6. CASE ReactivateSave
  <2>1. /\ request.rule \in Rules /\ health[request.rule] \in RuleHealthRows
        /\ health' = [health EXCEPT ![request.rule] = Reactivate(health[request.rule])]
    BY <1>6, ReactivatedAlone DEF Typed
  <2>2. pass = Idle /\ pass' = Idle /\ request' = Idle
    BY <1>6 DEF ReactivateSave, Alone
  <2>3. Sane(Reactivate(health[request.rule]))
    <3>1. QuarantineThreshold(Options) \in Nat \ {0}
      BY OptionsAssumption, Thresholds
    <3> QED BY <2>1, <3>1, WipedRow DEF Sane, Healthy, Quarantined
  <2>4. \A r \in Rules : Sane(health'[r])
    BY <2>1, <2>3 DEF Typed, Alone
  <2> QED BY <2>2, <2>4 DEF Alone
<1>7. CASE Tick \/ UNCHANGED vars
  BY <1>7 DEF Tick, vars, Alone, Judged
<1> QED BY <1>1, <1>2, <1>3, <1>4, <1>5, <1>6, <1>7 DEF Next

\* It holds in every state of a setup without overlap.
LEMMA AloneInvariant == Spec => [](Exclusive => Alone)
<1>1. Typed /\ (Exclusive => Alone) /\ [Next]_vars => (Exclusive => Alone)'
  BY NextAlone, SetupStays
<1>2. Init => (Exclusive => Alone)
  BY StartsAlone
<1>3. Typed /\ Dated => Typed
  OBVIOUS
<1> QED BY <1>1, <1>2, TypedInvariant, PTL DEF Spec

\* The operators of the abstract row are the same operators.
LEMMA SameOperators ==
  ASSUME NEW r
  PROVE  /\ Guarded(r)!NewState = NewState
         /\ \A h : Guarded(r)!Reactivate(h) = Reactivate(h)
         /\ \A o, h, now : Guarded(r)!IsQuarantined(o, h, now) = IsQuarantined(o, h, now)
         /\ \A o, h, outcome, now :
              Guarded(r)!Record(o, h, outcome, now) = Record(o, h, outcome, now)
<1> USE DEF Healthy, Degraded, Quarantined, NoTime, NoKind, NoChange, ToDegraded, ToQuarantined,
            Recovered, Guarded!Healthy, Guarded!Degraded, Guarded!Quarantined, Guarded!NoTime,
            Guarded!NoKind, Guarded!NoChange, Guarded!ToDegraded, Guarded!ToQuarantined,
            Guarded!Recovered
<1>1. /\ Guarded(r)!NewState = NewState
      /\ \A h : Guarded(r)!Reactivate(h) = Reactivate(h)
      /\ \A o, h, now : Guarded(r)!IsQuarantined(o, h, now) = IsQuarantined(o, h, now)
      /\ \A h : Guarded(r)!Strikes(h) = Strikes(h)
  BY DEF NewState, Reactivate, IsQuarantined, Strikes, Guarded!NewState, Guarded!Reactivate,
         Guarded!IsQuarantined, Guarded!Strikes
<1>2. \A o, outcome : Guarded(r)!IsIncident(o, outcome) = IsIncident(o, outcome)
  BY DEF IsIncident, IsSlow, Guarded!IsIncident, Guarded!IsSlow
<1>3. \A o : /\ Guarded(r)!WarningThreshold(o) = WarningThreshold(o)
             /\ Guarded(r)!QuarantineThreshold(o) = QuarantineThreshold(o)
             /\ Guarded(r)!QuarantineDuration(o) = QuarantineDuration(o)
  BY DEF WarningThreshold, QuarantineThreshold, QuarantineDuration, AtLeast, DefaultDuration,
         Guarded!WarningThreshold, Guarded!QuarantineThreshold, Guarded!QuarantineDuration,
         Guarded!AtLeast, Guarded!DefaultDuration
<1>4. \A h, outcome, now :
        Guarded(r)!CountIncident(h, outcome, now) = CountIncident(h, outcome, now)
  BY DEF CountIncident, Guarded!CountIncident
<1>5. \A h : Guarded(r)!ClearSlate(h) = ClearSlate(h)
  BY <1>1 DEF ClearSlate, Guarded!ClearSlate
<1>6. \A o, h, now : Guarded(r)!SetAside(o, h, now) = SetAside(o, h, now)
  BY <1>3 DEF SetAside, Guarded!SetAside
<1>7. \A o, h, now : Guarded(r)!JudgeIncident(o, h, now) = JudgeIncident(o, h, now)
  BY <1>1, <1>3, <1>6 DEF JudgeIncident, Guarded!JudgeIncident
<1>8. \A o, h, outcome, now :
        Guarded(r)!Record(o, h, outcome, now) = Record(o, h, outcome, now)
  BY <1>2, <1>4, <1>5, <1>7 DEF Record, Guarded!Record
<1> QED BY <1>1, <1>8

\* Each step of the pass leaves each row as it was, or does to it what GuardedRow does.
LEMMA StepsAreGuarded ==
  ASSUME Typed, Exclusive, Alone, [Next]_vars, NEW r \in Rules
  PROVE  [Guarded(r)!Next]_<<health[r], clock>>
<1>1. CASE UNCHANGED <<health, clock>>
  BY <1>1
<1>2. CASE SaveTracked /\ pass # Idle /\ pass.phase = "running" /\ clock' = clock
  <2>1. health'[r] = pass.mem[r] /\ Judged(health[r], pass.mem[r])
    BY <1>2, SavedAlone DEF Alone
  <2>2. CASE health'[r] = health[r]
    BY <1>2, <2>2
  <2>3. CASE \E outcome \in AllRuns :
               /\ ~IsQuarantined(Options, health[r], clock)
               /\ health'[r] = Record(Options, health[r], outcome, clock).row
    <3>1. Guarded(r)!Recorded
      BY <1>2, <2>3, SameOperators DEF Guarded!Recorded, AllRuns
    <3> QED BY <3>1 DEF Guarded!Next
  <2> QED BY <2>1, <2>2, <2>3 DEF Judged
<1>3. CASE ReactivateSave
  <2>1. /\ health' = [health EXCEPT ![request.rule] = Reactivate(health[request.rule])]
        /\ health \in [Rules -> RuleHealthRows] /\ clock' = clock
    BY <1>3, ReactivatedAlone DEF ReactivateSave, Typed
  <2>2. CASE r = request.rule
    BY <2>1, <2>2, SameOperators DEF Guarded!Next, Guarded!Reactivated
  <2>3. CASE r # request.rule
    BY <2>1, <2>3
  <2> QED BY <2>2, <2>3
<1>4. CASE Tick
  BY <1>4 DEF Tick, Guarded!Next, Guarded!Tick
<1>5. CASE PassBreak \/ PassSave
  BY <1>2, <1>5, IdlePhase DEF PassBreak, PassSave
<1>6. CASE \/ PassStart \/ PassCancel \/ PassPublish \/ ReactivateLoad \/ Crash \/ UNCHANGED vars
           \/ \E q \in Rules : SkipRule(q) \/ RunRule(q)
  BY <1>1, <1>6 DEF PassStart, PassCancel, PassPublish, ReactivateLoad, Crash, vars, SkipRule, RunRule
<1> QED BY <1>3, <1>4, <1>5, <1>6 DEF Next

\* Passes and reactivations that do not overlap implement GuardedRow, although each loads,
\* judges and saves the rows apart, and whatever cuts or cancels them in between.
THEOREM PassIsGuarded == Spec /\ Exclusive => RowsAreGuarded
<1>1. Init => \A r \in Rules : Guarded(r)!Init
  BY SameOperators DEF Init, Guarded!Init
<1>2. Typed /\ Exclusive /\ Alone /\ [Next]_vars
        => [\A r \in Rules : [Guarded(r)!Next]_<<health[r], clock>>]_vars
  BY StepsAreGuarded
<1>3. Typed /\ Exclusive /\ [Next]_vars => Exclusive'
  BY SetupStays
<1>4. Typed /\ Dated => Typed
  OBVIOUS
<1> QED BY <1>1, <1>2, <1>3, <1>4, TypedInvariant, AloneInvariant, PTL DEF Spec, RowsAreGuarded

-----------------------------------------------------------------------------
(* What is announced, shown and spent, when moreover no pass is lost. *)

\* The episode that begins at this instant was announced.
Told(r, since) == \E a \in announced : a.rule = r /\ a.cycle >= since

\* The pass is about to announce it.
Crossing(r) ==
  \E c \in pass.crossed :
    /\ c.rule = r /\ c.transition \in Events
    /\ Cycle(pass.mem[r], c.transition) >= pass.mem[r].since

\* The rows as they now are, saved or not.
Now(r) == IF pass = Idle THEN health[r] ELSE pass.mem[r]

Agrees ==
  /\ \A r \in Rules : Strikes(Now(r)) = attempts[r]
  /\ \A r \in Rules :
       Now(r).state # Healthy => Told(r, Now(r).since) \/ (pass # Idle /\ Crossing(r))
  /\ pass = Idle \/ pass.phase = "running" =>
       \A r \in Rules : /\ health[r].state # Healthy => Told(r, health[r].since)
                        /\ IsQuarantined(Options, health[r], clock) => r \in shown
  /\ pass # Idle /\ pass.phase = "saved" =>
       \A r \in Rules : IsQuarantined(Options, health[r], clock) => r \in shown

\* Nothing is announced yet of rows that are clean.
LEMMA StartsAgreed == Init => Agrees
<1> SUFFICES ASSUME Init
             PROVE  Agrees
  OBVIOUS
<1>1. /\ NewState.state = Healthy /\ NewState.failures = 0 /\ NewState.slowRuns = 0
  BY DEF NewState
<1>2. ~IsQuarantined(Options, NewState, clock) /\ Strikes(NewState) = 0
  BY <1>1 DEF IsQuarantined, Strikes, Healthy, Quarantined
<1>3. \A r \in Rules : health[r] = NewState /\ Now(r) = NewState /\ attempts[r] = 0
  BY DEF Init, Now
<1> QED BY <1>1, <1>2, <1>3 DEF Init, Agrees

\* Skipping a rule changes no row.
LEMMA SkipAgrees ==
  ASSUME Typed, Alone, Agrees, NEW r \in Rules, SkipRule(r)
  PROVE  Agrees'
<1>1. /\ pass \in Passes /\ pass # Idle /\ pass.phase = "running"
      /\ clock \in Nat /\ r \in pass.todo
      /\ UNCHANGED <<clock, health, announced, shown, attempts>>
  BY IdlePhase, SetupType DEF SkipRule, IsCurrent, Typed
<1>2. pass.mem[r] = health[r] /\ Sane(health[r]) /\ health[r] \in RuleHealthRows
  BY <1>1 DEF Alone, Typed
<1>3. AfterGuard(Options, pass.mem[r], clock) = pass.mem[r]
  BY <1>1, <1>2, SaneGuard
<1>4. pass' = [pass EXCEPT !.todo = @ \ {r}, !.mem[r] = pass.mem[r]]
  BY <1>3 DEF SkipRule, Typed, Passes
<1>5. /\ pass'.mem = pass.mem /\ pass'.crossed = pass.crossed
      /\ pass'.phase = "running" /\ pass' # Idle
  BY <1>1, <1>4, IdlePhase DEF Passes
<1> QED BY <1>1, <1>5 DEF Agrees, Told, Crossing, Now

\* An incident adds a strike, and crosses a threshold or stays in an episode that was told.
LEMMA RunAgrees ==
  ASSUME Typed, Dated, Alone, Agrees, NEW r \in Rules, RunRule(r)
  PROVE  Agrees'
<1>1. /\ pass \in Passes /\ pass # Idle /\ pass.phase = "running"
      /\ clock \in Nat /\ r \in pass.todo
      /\ UNCHANGED <<clock, health, announced, shown>>
  BY IdlePhase, SetupType DEF RunRule, IsCurrent, Typed
<1>2. /\ pass.mem[r] = health[r] /\ Sane(health[r]) /\ health[r] \in RuleHealthRows
      /\ pass.mem \in [Rules -> RuleHealthRows] /\ health[r].since <= clock
  BY <1>1 DEF Alone, Typed, Passes, Dated
<1>3. AfterGuard(Options, pass.mem[r], clock) = health[r]
  BY <1>1, <1>2, SaneGuard
<1>4. PICK outcome, j :
        /\ outcome \in Runs
        /\ j = Record(Options, health[r], outcome, clock)
        /\ pass' = [pass EXCEPT
             !.todo = @ \ {r},
             !.mem[r] = j.row,
             !.crossed = IF j.transition = NoChange THEN @
                         ELSE @ \union {[rule |-> r, transition |-> j.transition]},
             !.used = IF IsIncident(Options, outcome) THEN @ + 1 ELSE @]
        /\ attempts' = [attempts EXCEPT ![r] = IF IsIncident(Options, outcome) THEN @ + 1 ELSE 0]
  BY <1>3, RunFacts
<1> DEFINE crossed == IF j.transition = NoChange THEN pass.crossed
                      ELSE pass.crossed \union {[rule |-> r, transition |-> j.transition]}
           n == IF IsIncident(Options, outcome) THEN attempts[r] + 1 ELSE 0
<1>5. /\ pass'.mem = [pass.mem EXCEPT ![r] = j.row]
      /\ pass'.crossed = crossed
      /\ pass'.phase = "running" /\ pass' # Idle
      /\ attempts' = [attempts EXCEPT ![r] = n]
  BY <1>1, <1>4, IdlePhase DEF Passes, Typed
<1>6. pass.crossed \subseteq crossed
      /\ (j.transition # NoChange => [rule |-> r, transition |-> j.transition] \in crossed)
  OBVIOUS
<1>7. Strikes(health[r]) = attempts[r]
      /\ (health[r].state # Healthy => Told(r, health[r].since))
  BY <1>1, <1>2 DEF Agrees, Now
<1>8. Strikes(j.row) = n
  <2>1. CASE IsIncident(Options, outcome)
    BY <1>1, <1>2, <1>4, <1>7, <2>1, SetupType, OptionsAssumption, IncidentResult
  <2>2. CASE ~IsIncident(Options, outcome)
    BY <1>2, <1>4, <2>2, OptionsAssumption, SuccessResult, WipedRow
  <2> QED BY <2>1, <2>2
<1>9. j.row.state # Healthy => \/ Told(r, j.row.since)
                               \/ /\ j.transition \in Events
                                  /\ Cycle(j.row, j.transition) >= j.row.since
  <2> SUFFICES ASSUME j.row.state # Healthy
               PROVE  \/ Told(r, j.row.since)
                      \/ /\ j.transition \in Events
                         /\ Cycle(j.row, j.transition) >= j.row.since
    OBVIOUS
  <2>1. IsIncident(Options, outcome)
    BY <1>2, <1>4, OptionsAssumption, SuccessResult, WipedRow
  <2>2. /\ j.transition \in {NoChange, ToDegraded, ToQuarantined}
        /\ j.row.since = IF health[r].since = NoTime THEN clock ELSE health[r].since
        /\ j.transition = ToQuarantined => j.row.quarantinedAt = clock
        /\ j.transition = NoChange => health[r].state # Healthy
    BY <1>1, <1>2, <1>4, <2>1, SetupType, OptionsAssumption, IncidentResult
       DEF NoChange, ToQuarantined
  <2>3. CASE j.transition = NoChange
    <3>1. health[r].state # Healthy /\ health[r].since \in Nat
      BY <1>2, <2>2, <2>3 DEF Sane
    <3>2. j.row.since = health[r].since
      BY <2>2, <3>1 DEF NoTime
    <3> QED BY <1>7, <3>1, <3>2
  <2>4. CASE j.transition \in Events
    <3>1. j.row.since \in Int /\ j.row.since <= clock
      BY <1>1, <1>2, <2>2 DEF RuleHealthRows, Times, NoTime
    <3>2. Cycle(j.row, j.transition) \in {j.row.since, clock}
      BY <2>2 DEF Cycle
    <3> QED BY <1>1, <2>4, <3>1, <3>2
  <2> QED BY <2>2, <2>3, <2>4 DEF Events
<1> HIDE DEF crossed, n
<1>10. ASSUME NEW q \in Rules
       PROVE  /\ Strikes(pass'.mem[q]) = attempts'[q]
              /\ pass'.mem[q].state # Healthy => Told(q, pass'.mem[q].since) \/ Crossing(q)'
  <2>1. CASE q # r
    <3>1. /\ pass'.mem[q] = pass.mem[q] /\ attempts'[q] = attempts[q]
      BY <1>2, <1>5, <2>1 DEF Typed
    <3>2. Crossing(q) => Crossing(q)'
      BY <1>5, <1>6, <3>1 DEF Crossing
    <3> QED BY <1>1, <3>1, <3>2 DEF Agrees, Now
  <2>2. CASE q = r
    <3>1. pass'.mem[r] = j.row /\ attempts'[r] = n
      BY <1>2, <1>5 DEF Typed
    <3>2. ASSUME j.transition \in Events, Cycle(j.row, j.transition) >= j.row.since
          PROVE  Crossing(r)'
      <4> DEFINE c == [rule |-> r, transition |-> j.transition]
      <4>1. c \in pass'.crossed /\ c.rule = r /\ c.transition = j.transition
        BY <1>5, <1>6, <3>2 DEF Events, NoChange, ToDegraded, ToQuarantined
      <4> HIDE DEF c
      <4> QED BY <3>1, <3>2, <4>1 DEF Crossing
    <3> QED BY <1>8, <1>9, <2>2, <3>1, <3>2
  <2> QED BY <2>1, <2>2
<1>11. \A q \in Rules : Told(q, pass'.mem[q].since) <=> Told(q, pass.mem[q].since)'
  BY <1>1 DEF Told
<1>12. \A q \in Rules : Told(q, health[q].since)' <=> Told(q, health[q].since)
  BY <1>1 DEF Told
<1> QED BY <1>1, <1>5, <1>10, <1>11, <1>12 DEF Agrees, Now

\* What is saved is what was judged, and the rules set aside are shown.
LEMMA SaveAgrees == ASSUME Typed, Alone, Agrees, PassSave PROVE Agrees'
<1>1. pass \in Passes /\ pass # Idle /\ pass.phase = "running"
  BY IdlePhase DEF PassSave, Typed
<1>2. health' = pass.mem
  BY <1>1, SavedAlone DEF PassSave
<1>3. /\ pass' = [pass EXCEPT !.phase = "saved"]
      /\ shown' = SetAsideRules /\ UNCHANGED <<clock, announced, attempts>>
  BY DEF PassSave
<1>4. /\ pass'.mem = pass.mem /\ pass'.crossed = pass.crossed
      /\ pass'.phase = "saved" /\ pass' # Idle
  BY <1>1, <1>3, IdlePhase DEF Passes
<1>5. \A r \in Rules : Now(r)' = Now(r)
  BY <1>1, <1>4 DEF Now
<1>6. \A r \in Rules : Told(r, Now(r).since)' <=> Told(r, Now(r).since)
  BY <1>3, <1>5 DEF Told
<1>7. \A r \in Rules : Crossing(r)' <=> Crossing(r)
  BY <1>4 DEF Crossing
<1>8. \A r \in Rules : IsQuarantined(Options, health'[r], clock) => r \in shown'
  BY <1>2, <1>3 DEF SetAsideRules
<1>9. \A r \in Rules : IsQuarantined(Options, health[r], clock)' => r \in shown'
  BY <1>3, <1>8
<1> QED BY <1>1, <1>3, <1>4, <1>5, <1>6, <1>7, <1>9 DEF Agrees

\* What was crossed is announced.
LEMMA PublishAgrees == ASSUME Typed, Alone, Agrees, PassPublish PROVE Agrees'
<1>1. pass \in Passes /\ pass # Idle /\ pass.phase = "saved" /\ pass.mem = health
  BY IdlePhase DEF PassPublish, Typed, Alone
<1>2. /\ pass' = Idle /\ announced' = announced \union Notices
      /\ UNCHANGED <<clock, health, shown, attempts>>
  BY DEF PassPublish
<1>3. ASSUME NEW r \in Rules, health[r].state # Healthy
      PROVE  Told(r, health[r].since)'
  <2>1. Told(r, health[r].since) \/ Crossing(r)
    BY <1>1, <1>3 DEF Agrees, Now
  <2>2. CASE Told(r, health[r].since)
    BY <1>2, <2>2 DEF Told
  <2>3. CASE Crossing(r)
    <3>1. PICK c \in pass.crossed :
            /\ c.rule = r /\ c.transition \in Events
            /\ Cycle(pass.mem[r], c.transition) >= pass.mem[r].since
      BY <2>3 DEF Crossing
    <3> DEFINE a == [rule |-> r, event |-> c.transition, cycle |-> Cycle(pass.mem[r], c.transition)]
    <3>2. a \in Notices
      BY <3>1 DEF Notices
    <3>3. a.rule = r /\ a.cycle >= health[r].since
      BY <1>1, <3>1
    <3> HIDE DEF a
    <3> QED BY <1>2, <3>2, <3>3 DEF Told
  <2> QED BY <2>1, <2>2, <2>3
<1>4. \A r \in Rules : Now(r)' = health[r] /\ Now(r) = health[r]
  BY <1>1, <1>2 DEF Now
<1>5. \A r \in Rules : Strikes(health[r]) = attempts[r]
  BY <1>4 DEF Agrees
<1>6. \A r \in Rules : health[r].state # Healthy => Told(r, Now(r).since)'
  BY <1>2, <1>3, <1>4 DEF Told
<1>7. \A r \in Rules : IsQuarantined(Options, health[r], clock) => r \in shown
  BY <1>1 DEF Agrees
<1> QED BY <1>2, <1>3, <1>4, <1>5, <1>6, <1>7 DEF Agrees

\* The steps that judge nothing.
LEMMA OthersAgree ==
  ASSUME Typed, Exclusive, Alone, Agrees, PassStart \/ ReactivateLoad \/ ReactivateSave \/ Tick
  PROVE  Agrees'
<1>1. CASE PassStart
  <2>1. /\ pass = Idle /\ pass'.phase = "running" /\ pass'.mem = health
        /\ UNCHANGED <<clock, health, announced, shown, attempts>>
    BY <1>1 DEF PassStart
  <2>2. pass' # Idle
    BY <2>1, IdlePhase
  <2>3. \A r \in Rules : Now(r)' = health[r] /\ Now(r) = health[r]
    BY <2>1, <2>2 DEF Now
  <2> QED BY <2>1, <2>2, <2>3 DEF Agrees, Told
<1>2. CASE ReactivateLoad
  <2>1. UNCHANGED <<clock, health, pass, announced, shown, attempts>>
    BY <1>2 DEF ReactivateLoad
  <2> QED BY <2>1 DEF Agrees, Told, Crossing, Now
<1>3. CASE ReactivateSave
  <2> DEFINE q == request.rule
             h == Reactivate(health[q])
  <2>1. /\ q \in Rules /\ health[q] \in RuleHealthRows
        /\ health' = [health EXCEPT ![q] = h] /\ attempts' = [attempts EXCEPT ![q] = 0]
    BY <1>3, ReactivatedAlone DEF Typed
  <2>2. pass = Idle /\ pass' = Idle /\ UNCHANGED <<clock, announced, shown>>
    BY <1>3 DEF ReactivateSave, Alone
  <2>3. h.state = Healthy /\ Strikes(h) = 0 /\ ~IsQuarantined(Options, h, clock)
    BY <2>1, WipedRow DEF IsQuarantined, Healthy, Quarantined
  <2> HIDE DEF h, q
  <2>4. \A r \in Rules :
          \/ health'[r] = health[r] /\ attempts'[r] = attempts[r]
          \/ health'[r] = h /\ attempts'[r] = 0
    BY <2>1 DEF Typed
  <2>5. ASSUME NEW r \in Rules
        PROVE  /\ Strikes(health'[r]) = attempts'[r]
               /\ health'[r].state # Healthy => Told(r, health[r].since)'
               /\ IsQuarantined(Options, health'[r], clock) => r \in shown
    <3>1. CASE health'[r] = health[r] /\ attempts'[r] = attempts[r]
      BY <2>2, <3>1 DEF Agrees, Now, Told
    <3>2. CASE health'[r] = h /\ attempts'[r] = 0
      BY <2>3, <3>2
    <3> QED BY <2>4, <3>1, <3>2
  <2>6. \A r \in Rules : Now(r)' = health'[r]
    BY <2>2 DEF Now
  <2>7. \A r \in Rules : Told(r, Now(r).since)' <=> Told(r, health[r].since)'
    BY <2>6 DEF Told
  <2> QED BY <2>2, <2>5, <2>6, <2>7 DEF Agrees
<1>4. CASE Tick
  <2>1. /\ pass = Idle /\ clock \in Nat /\ clock' = clock + 1
        /\ UNCHANGED <<health, pass, announced, shown, attempts>>
    BY <1>4, SetupType DEF Tick
  <2>2. \A r \in Rules : health[r].until \in Times
    BY DEF Typed, RuleHealthRows
  <2>3. \A r \in Rules : IsQuarantined(Options, health[r], clock')
                           => IsQuarantined(Options, health[r], clock)
    BY <2>1, <2>2 DEF IsQuarantined, Times, NoTime
  <2>4. \A r \in Rules : IsQuarantined(Options, health[r], clock)' => r \in shown'
    BY <2>1, <2>3 DEF Agrees
  <2> QED BY <2>1, <2>4 DEF Agrees, Told, Crossing, Now
<1> QED BY <1>1, <1>2, <1>3, <1>4

\* A pass that is lost leaves the good behaviours.
LEMMA NextAgrees ==
  ASSUME Typed, Dated, Alone, Agrees, InTurn, [Next]_vars, InTurn'
  PROVE  Agrees'
<1>1. Exclusive
  BY DEF InTurn
<1>2. CASE PassCancel \/ PassBreak \/ Crash
  <2>1. spent'.lost = TRUE
    BY <1>2 DEF PassCancel, PassBreak, Crash, Typed, Spending
  <2> QED BY <2>1 DEF InTurn
<1>3. CASE UNCHANGED vars
  BY <1>3 DEF vars, Agrees, Told, Crossing, Now
<1> QED BY <1>1, <1>2, <1>3, SkipAgrees, RunAgrees, SaveAgrees, PublishAgrees, OthersAgree DEF Next

\* A pass that was lost stays lost.
LEMMA LostStays == Typed /\ [Next]_vars /\ InTurn' => InTurn
<1> SUFFICES ASSUME Typed, [Next]_vars, InTurn'
             PROVE  InTurn
  OBVIOUS
<1>1. Exclusive
  BY SetupStays DEF InTurn
<1>2. CASE PassCancel \/ PassBreak \/ Crash
  <2>1. spent'.lost = TRUE
    BY <1>2 DEF PassCancel, PassBreak, Crash, Typed, Spending
  <2> QED BY <2>1 DEF InTurn
<1>3. CASE \/ PassStart \/ ReactivateLoad
           \/ \E r \in Rules : SkipRule(r) \/ RunRule(r)
           \/ PassSave \/ PassPublish \/ ReactivateSave \/ Tick \/ UNCHANGED vars
  <2>1. spent'.lost = spent.lost
    BY <1>3 DEF PassStart, ReactivateLoad, SkipRule, RunRule, PassSave, PassPublish,
                ReactivateSave, Tick, vars, Typed, Spending
  <2> QED BY <1>1, <2>1 DEF InTurn
<1> QED BY <1>2, <1>3 DEF Next

\* The agreement holds in every state of the good behaviours.
LEMMA AgreedInvariant == Spec => [](InTurn => Agrees)
<1>1. /\ Typed /\ Dated /\ (Exclusive => Alone) /\ (InTurn => Agrees) /\ [Next]_vars
      => (InTurn => Agrees)'
  <2>1. InTurn => Exclusive
    BY DEF InTurn
  <2> QED BY <2>1, NextAgrees, LostStays
<1>2. Init => (InTurn => Agrees)
  BY StartsAgreed
<1> QED BY <1>1, <1>2, TypedInvariant, AloneInvariant, PTL DEF Spec

-----------------------------------------------------------------------------
(* The results: all the rest follows from the agreement. *)

\* PublishGuardEvents announces every episode of which the table tells.
THEOREM RowsAreTold == Spec => []NoSilentRow
<1>1. (InTurn => Agrees) => NoSilentRow
  <2> SUFFICES ASSUME Agrees, pass = Idle \/ pass.phase = "running",
                      NEW r \in Rules, health[r].state # Healthy
               PROVE  \E a \in announced : a.rule = r /\ a.cycle >= health[r].since
    BY DEF NoSilentRow
  <2> QED BY DEF Agrees, Told
<1> QED BY <1>1, AgreedInvariant, PTL

\* The list rebuilt at the end of each pass misses no rule that is set aside.
THEOREM SetAsideIsShown == Spec => []ShownIsComplete
<1>1. (InTurn => Agrees) => ShownIsComplete
  BY DEF ShownIsComplete, Agrees
<1> QED BY <1>1, AgreedInvariant, PTL

\* A reactivated rule starts from a clean slate (RulesController.Reactivate).
THEOREM SlatesAreClean == Spec => []ReactivationIsCleanInTurn
<1>1. Typed /\ (InTurn => Agrees) => ReactivationIsCleanInTurn
  <2> SUFFICES ASSUME Typed, Agrees, pass = Idle, NEW r \in Rules
               PROVE  Strikes(health[r]) <= attempts[r]
    BY DEF ReactivationIsCleanInTurn, ReactivationIsClean
  <2>1. Strikes(health[r]) = attempts[r] /\ attempts[r] \in Nat
    BY DEF Typed, Agrees, Now
  <2> QED BY <2>1
<1>2. Typed /\ Dated => Typed
  OBVIOUS
<1> QED BY <1>1, <1>2, AgreedInvariant, TypedInvariant, PTL

\* A rule that never recovers runs its threshold, and once more for each quarantine that
\* the table has counted, although a pass counts in memory first.
THEOREM PassesAreCapped == Spec => []CostIsCappedInTurn
<1>1. Typed /\ (Exclusive => Alone) /\ (InTurn => Agrees) => CostIsCappedInTurn
  <2> SUFFICES ASSUME Typed, Alone, Agrees, NEW r \in Rules, Options.enabled
               PROVE  attempts[r] <= QuarantineThreshold(Options) + health[r].count
    BY DEF CostIsCappedInTurn, CostIsCapped, InTurn
  <2> DEFINE quota == QuarantineThreshold(Options)
             old == health[r]
             new == Now(r)
  <2>1. quota \in Nat \ {0} /\ clock \in Nat
    BY OptionsAssumption, Thresholds, SetupType
  <2>2. old \in RuleHealthRows /\ new \in RuleHealthRows
    BY DEF Typed, Passes, Now
  <2>3. Sane(new) /\ Sane(old)
    BY DEF Alone, Now, Typed, Passes
  <2>4. new.count <= old.count + 1
    <3>1. CASE pass # Idle /\ pass.phase = "running"
      <4>1. Judged(old, new)
        BY <3>1 DEF Alone, Now
      <4>2. \A outcome \in AllRuns : outcome \in Outcomes
        BY SetupsAssumption DEF AllRuns
      <4> HIDE DEF old, new
      <4> QED BY <2>1, <2>2, <2>3, <4>1, <4>2, SaneRun DEF Judged, RuleHealthRows
    <3>2. CASE pass = Idle \/ pass.phase = "saved"
      <4>1. new = old
        BY <3>2 DEF Alone, Now
      <4> QED BY <2>2, <4>1 DEF RuleHealthRows
    <3> QED BY <3>1, <3>2 DEF Typed, Passes
  <2>5. Strikes(new) = attempts[r]
    BY DEF Agrees
  <2>6. Strikes(new) <= quota \/ Strikes(new) = quota + new.count - 1
    BY <2>1, <2>2, <2>3 DEF Sane, RuleHealthRows, Strikes
  <2> HIDE DEF quota, old, new
  <2>7. new.count \in Nat /\ old.count \in Nat /\ Strikes(new) \in Nat
    BY <2>2 DEF RuleHealthRows, Strikes
  <2>8. attempts[r] <= quota + old.count
    BY <2>1, <2>4, <2>5, <2>6, <2>7
  <2> QED BY <2>8 DEF quota, old
<1>2. Typed /\ Dated => Typed
  OBVIOUS
<1> QED BY <1>1, <1>2, AgreedInvariant, AloneInvariant, TypedInvariant, PTL
=============================================================================
