-------------------------- MODULE FindingLifecycle --------------------------
(***************************************************************************)
(* The findings of one instance (Findings/FindingService.cs) and the four  *)
(* actors that read rows, wait, and save what they changed:                *)
(*   - the analysis pass, which runs the rules and reconciles their rows;  *)
(*   - the operator's request that ignores or reconsiders a finding;       *)
(*   - the verification on demand, which replays a rule first;             *)
(*   - the purge of the rules that no longer exist.                        *)
(*                                                                         *)
(* Each actor has its own DbContext.  A save is one transaction that       *)
(* writes only the columns the actor changed since it loaded the row; it   *)
(* fails as a whole when a row it updates is gone, or when it inserts a    *)
(* row twice (the unique index on instance, rule and target).              *)
(*                                                                         *)
(* A target stands for its (rule, TargetKey) pair.  Dates are abstracted   *)
(* to their order: `detected' is a stamp that grows at every detection, and*)
(* `dated' says whether ResolvedAt is set.  Evidence is left out.          *)
(***************************************************************************)
EXTENDS Integers, Sequences, FiniteSets, FiniteSetsExt, SequencesExt

CONSTANTS
  Rules,        \* the rules that may be loaded
  Targets,      \* the targets they may report
  RuleOf,       \* the rule a target belongs to
  MaxRows,      \* bound on the rows the SQL of a rule returns for one target
  Limit,        \* the `limit' of the rules: candidates kept per run
  Setups        \* the setups that are explored together, see SetupsAssumption

ASSUME RuleOfAssumption == RuleOf \in [Targets -> Rules]
ASSUME BoundsAssumption == Limit \in Nat \ {0} /\ MaxRows \in Nat

\* A setup says whether one actor is served at a time (the code does not), and bounds the
\* changes of the observed database, the operator's requests and verifications, the rules
\* added or deleted, and the passes cancelled and the crashes.
ASSUME SetupsAssumption ==
  \A setup \in Setups :
    /\ setup.exclusive \in BOOLEAN
    /\ {setup.changes, setup.requests, setup.edits, setup.aborts} \subseteq Nat

VARIABLES
  rules,     \* ruleStore.Current
  world,     \* how many rows the rule's SQL returns for each target
  findings,  \* the Findings table
  history,   \* the FindingHistory entries of each finding
  pass,      \* the pass of the instance, and what it holds
  request,   \* the status change being served
  verify,    \* the verification being served
  purge,     \* the purge of the scheduler
  purgeRequested,
  queue,     \* the notifications enqueued, each with how many times
  stamp,     \* last detection stamp given
  spent      \* the setup, and what each bound has used up

vars == <<rules, world, findings, history, pass, request, verify, purge,
          purgeRequested, queue, stamp, spent>>

Exclusive == spent.setup.exclusive
MaxChanges == spent.setup.changes
MaxRequests == spent.setup.requests
MaxEdits == spent.setup.edits
MaxAborts == spent.setup.aborts

Absent == "absent"
Active == "active"
Ignored == "ignored"
Resolved == "resolved"

NoFinding == [status |-> Absent, dated |-> FALSE, detected |-> 0, id |-> 0]
FindingRows ==
  [status : {Active, Ignored, Resolved}, dated : BOOLEAN,
   detected : Nat \ {0}, id : Nat \ {0}] \union {NoFinding}

Exists(f) == f.status # Absent

Notice(event, f) == [event |-> event, id |-> f.id, cycle |-> f.detected]
NoticeCount(n) == IF n \in DOMAIN queue THEN queue[n] ELSE 0

Idle == [phase |-> "idle"]

\* A pass remembers, for the properties only, the database it observed (`world');
\* `loaded' is its copy of the table.
PassPhases == {"started", "ran", "loaded", "saved"}

TypeOK ==
  /\ rules \subseteq Rules
  /\ world \in [Targets -> 0..MaxRows]
  /\ findings \in [Targets -> FindingRows]
  /\ DOMAIN history = Targets
  /\ pass = Idle \/ pass.phase \in PassPhases
  /\ request = Idle \/ request.loaded \in FindingRows
  /\ verify = Idle \/ verify.loaded \in FindingRows
  /\ purge = Idle \/ /\ purge.known \subseteq Rules
                     /\ purge.phase = "loaded" => purge.orphans \subseteq Targets
  /\ purgeRequested \in BOOLEAN
  /\ \A n \in DOMAIN queue : queue[n] \in Nat \ {0}
  /\ stamp \in Nat

Init ==
  /\ rules = Rules
  /\ world \in [Targets -> 0..MaxRows]
  /\ findings = [t \in Targets |-> NoFinding]
  /\ history = [t \in Targets |-> << >>]
  /\ pass = Idle /\ request = Idle /\ verify = Idle /\ purge = Idle
  /\ purgeRequested = FALSE
  /\ queue = << >>
  /\ stamp = 0
  /\ \E setup \in Setups :
       spent = [setup |-> setup, changes |-> 0, requests |-> 0, edits |-> 0, aborts |-> 0, crashes |-> 0]

Spend(what) == spent' = [spent EXCEPT ![what] = @ + 1]

MayStart ==
  Exclusive => pass = Idle /\ request = Idle /\ verify = Idle /\ purge = Idle

-----------------------------------------------------------------------------
(* Running rules. *)

\* What one run of the rules `executed' reports: the rows of each target, cut to
\* the limit of its rule.  Which rows come first is up to the database.
RowsOf(r, reported) == MapThenSumSet(LAMBDA t : reported[t], {t \in Targets : RuleOf[t] = r})

\* The database returns more rows than the rule keeps.
Cut(r, w) == RowsOf(r, w) > Limit

Reports(executed) ==
  {reported \in [Targets -> 0..MaxRows] :
     /\ \A t \in Targets :
          /\ reported[t] <= world[t]
          /\ RuleOf[t] \notin executed => reported[t] = 0
          /\ RuleOf[t] \in executed /\ ~Cut(RuleOf[t], world) => reported[t] = world[t]
     /\ \A r \in executed : Cut(r, world) => RowsOf(r, reported) = Limit}

\* TickAsync starts a pass once the purge it was asked for is over.
PassStart ==
  /\ pass = Idle /\ MayStart
  /\ purge = Idle /\ ~purgeRequested
  /\ pass' = [phase |-> "started"]
  /\ UNCHANGED <<rules, world, findings, history, request, verify, purge,
                 purgeRequested, queue, stamp, spent>>

\* RunRulesAsync takes the rules then loaded and runs them; `executed' are those
\* that succeeded.  With none, the pass ends without reconciling.
PassRun(executed) ==
  /\ pass.phase = "started"
  /\ executed \subseteq rules
  /\ IF executed = {}
       THEN pass' = Idle
       ELSE \E reported \in Reports(executed) :
              pass' = [phase |-> "ran", executed |-> executed, reported |-> reported,
                       world |-> world]
  /\ UNCHANGED <<rules, world, findings, history, request, verify, purge,
                 purgeRequested, queue, stamp, spent>>

\* Mutant: the findings of the rules that failed are read too.
PassLoad_EveryRule ==
  /\ pass.phase = "ran"
  /\ pass' = [phase |-> "loaded", executed |-> pass.executed, reported |-> pass.reported,
              world |-> pass.world, loaded |-> findings]
  /\ UNCHANGED <<rules, world, findings, history, request, verify, purge,
                 purgeRequested, queue, stamp, spent>>

\* ReconcileAsync reads the findings of the executed rules...
PassLoad ==
  /\ pass.phase = "ran"
  /\ pass' = [phase |-> "loaded", executed |-> pass.executed, reported |-> pass.reported,
              world |-> pass.world,
              loaded |-> [t \in Targets |->
                            IF RuleOf[t] \in pass.executed THEN findings[t] ELSE NoFinding]]
  /\ UNCHANGED <<rules, world, findings, history, request, verify, purge,
                 purgeRequested, queue, stamp, spent>>

\* ...and sorts their targets.
Seen == {t \in Targets : pass.reported[t] > 0}
Created == {t \in Seen : ~Exists(pass.loaded[t])}
Reappeared == {t \in Seen : pass.loaded[t].status = Resolved}
Refreshed == {t \in Seen : pass.loaded[t].status \in {Active, Ignored}}
\* Mutant: an ignored finding is resolved too.
Vanished_IgnoredToo ==
  {t \in Targets : pass.loaded[t].status \in {Active, Ignored} /\ t \notin Seen}
\* Mutant: only the rules that still report something are looked at.
Vanished_OfReportingRules ==
  {t \in Targets : /\ pass.loaded[t].status = Active /\ t \notin Seen
                   /\ \E s \in Seen : RuleOf[s] = RuleOf[t]}
Vanished == {t \in Targets : pass.loaded[t].status = Active /\ t \notin Seen}

\* The save is refused: a row it updates was deleted, or a target is inserted twice.
SaveRefused ==
  \/ \E t \in Reappeared \union Refreshed \union Vanished :
       findings[t].id # pass.loaded[t].id
  \/ \E t \in Created : Exists(findings[t]) \/ pass.reported[t] > 1

\* Mutant: a reappearing finding keeps its first detection date.
Reconciled_KeepsDetection(t) ==
  CASE t \in Created    -> [status |-> Active, dated |-> FALSE,
                            detected |-> stamp + 1, id |-> stamp + 1]
    [] t \in Reappeared -> [findings[t] EXCEPT !.status = Active, !.dated = FALSE]
    [] t \in Vanished   -> [findings[t] EXCEPT !.status = Resolved, !.dated = TRUE]
    [] OTHER            -> findings[t]

\* The row after the save: only the changed columns are written over the table.
Reconciled(t) ==
  CASE t \in Created    -> [status |-> Active, dated |-> FALSE,
                            detected |-> stamp + 1, id |-> stamp + 1]
    [] t \in Reappeared -> [findings[t] EXCEPT !.status = Active, !.dated = FALSE,
                                               !.detected = stamp + 1]
    [] t \in Vanished   -> [findings[t] EXCEPT !.status = Resolved, !.dated = TRUE]
    [] OTHER            -> findings[t]

Entry(from, to) == [from |-> from, to |-> to]

\* Mutant: a reappearance leaves no trace in the history.
PassEntries_NoReappearance(t) ==
  CASE t \in Created    -> << Entry(Absent, Active) >>
    [] t \in Vanished   -> << Entry(Active, Resolved) >>
    [] OTHER            -> << >>

PassEntries(t) ==
  CASE t \in Created    -> << Entry(Absent, Active) >>
    [] t \in Reappeared -> << Entry(Resolved, Active) >>
    [] t \in Vanished   -> << Entry(Active, Resolved) >>
    [] OTHER            -> << >>

\* One SaveChanges for the whole reconciliation.  `ids' of two rows created together
\* differ in the code; here the target tells them apart.
PassSave ==
  /\ pass.phase = "loaded"
  /\ IF SaveRefused
       THEN /\ pass' = Idle
            /\ UNCHANGED <<findings, history, stamp>>
       ELSE /\ findings' = [t \in Targets |-> Reconciled(t)]
            /\ history' = [t \in Targets |-> history[t] \o PassEntries(t)]
            /\ stamp' = IF Created \union Reappeared = {} THEN stamp ELSE stamp + 1
            /\ pass' = [phase |-> "saved",
                        created |-> {<<t, findings'[t]>> : t \in Created \union Reappeared},
                        resolved |-> {<<t, findings'[t]>> : t \in Vanished}]
  /\ UNCHANGED <<rules, world, request, verify, purge, purgeRequested, queue, spent>>

\* PublishFindingEvents enqueues what the reconciliation returned, in memory.
PassPublish ==
  /\ pass.phase = "saved"
  /\ LET sent == {<<p[1], Notice("new_finding", p[2])>> : p \in pass.created}
                   \union {<<p[1], Notice("finding_resolved", p[2])>> : p \in pass.resolved}
     IN queue' = [n \in DOMAIN queue \union sent |-> NoticeCount(n) + (IF n \in sent THEN 1 ELSE 0)]
  /\ pass' = Idle
  /\ UNCHANGED <<rules, world, findings, history, request, verify, purge,
                 purgeRequested, stamp, spent>>

\* The instance timeout, or an error, ends the pass; nothing of it is saved.
PassAbort ==
  /\ pass.phase \in {"started", "ran", "loaded"}
  /\ spent.aborts < MaxAborts
  /\ Spend("aborts")
  /\ pass' = Idle
  /\ UNCHANGED <<rules, world, findings, history, request, verify, purge,
                 purgeRequested, queue, stamp>>

-----------------------------------------------------------------------------
(* The operator's request: ChangeStatusAsync with `active' or `ignored'. *)

RequestLoad ==
  /\ request = Idle /\ MayStart
  /\ spent.requests < MaxRequests
  /\ Spend("requests")
  /\ \E t \in Targets, s \in {Active, Ignored} :
       /\ Exists(findings[t])
       /\ findings[t].status # s
       /\ request' = [phase |-> "loaded", target |-> t, to |-> s, loaded |-> findings[t]]
  /\ UNCHANGED <<rules, world, findings, history, pass, verify, purge,
                 purgeRequested, queue, stamp>>

\* Mutant: ResolvedAt is left alone when the finding is reconsidered.
Changed_KeepsDate(f, loaded, to) ==
  [f EXCEPT !.status = to, !.dated = IF to = Resolved THEN TRUE ELSE @]

\* The columns ChangeStatusAsync changes: the status, and ResolvedAt if it differs
\* from what was loaded.
Changed(f, loaded, to) ==
  [f EXCEPT !.status = to,
            !.dated = IF loaded.dated # (to = Resolved) THEN to = Resolved ELSE @]

\* Mutant: the save writes back a row that was deleted meanwhile.
SaveStatus_Upsert(t, loaded, to) ==
  /\ findings' = [findings EXCEPT ![t] = Changed(@, loaded, to)]
  /\ history' = [history EXCEPT ![t] = Append(@, Entry(loaded.status, to))]

SaveStatus(t, loaded, to) ==
  IF findings[t].id # loaded.id
    THEN UNCHANGED <<findings, history>>
    ELSE /\ findings' = [findings EXCEPT ![t] = Changed(@, loaded, to)]
         /\ history' = [history EXCEPT ![t] = Append(@, Entry(loaded.status, to))]

RequestSave ==
  /\ request # Idle
  /\ SaveStatus(request.target, request.loaded, request.to)
  /\ request' = Idle
  /\ UNCHANGED <<rules, world, pass, verify, purge, purgeRequested, queue, stamp, spent>>

-----------------------------------------------------------------------------
(* The verification on demand: FindingsController.Verify. *)

VerifyLoad ==
  /\ verify = Idle /\ MayStart
  /\ spent.requests < MaxRequests
  /\ Spend("requests")
  /\ \E t \in Targets :
       /\ Exists(findings[t])
       /\ RuleOf[t] \in rules
       /\ verify' = [phase |-> "loaded", target |-> t, loaded |-> findings[t]]
  /\ UNCHANGED <<rules, world, findings, history, pass, request, purge,
                 purgeRequested, queue, stamp>>

TargetReported(t, reported) == reported[t] > 0

\* The dry run: it may fail or be skipped, may still report the target, or not.
VerifyRun ==
  /\ verify.phase = "loaded"
  /\ \/ verify' = Idle
     \/ \E reported \in Reports({RuleOf[verify.target]}) :
          verify' = IF TargetReported(verify.target, reported)
                      THEN Idle
                      ELSE [phase |-> "gone", target |-> verify.target,
                            loaded |-> verify.loaded]
  /\ UNCHANGED <<rules, world, findings, history, pass, request, purge,
                 purgeRequested, queue, stamp, spent>>

\* ChangeStatusAsync finds the row it tracks since VerifyLoad, with the status it
\* had then; no notification is enqueued.
VerifySave ==
  /\ verify.phase = "gone"
  /\ IF verify.loaded.status = Resolved
       THEN UNCHANGED <<findings, history>>
       ELSE SaveStatus(verify.target, verify.loaded, Resolved)
  /\ verify' = Idle
  /\ UNCHANGED <<rules, world, pass, request, purge, purgeRequested, queue, stamp, spent>>

-----------------------------------------------------------------------------
(* Rules that come and go, and the purge of SchedulerService. *)

EditRules ==
  /\ spent.edits < MaxEdits
  /\ MayStart
  /\ Spend("edits")
  /\ \E r \in Rules : rules' = IF r \in rules THEN rules \ {r} ELSE rules \union {r}
  /\ purgeRequested' = TRUE
  /\ UNCHANGED <<world, findings, history, pass, request, verify, purge, queue, stamp>>

PurgeStart ==
  /\ purgeRequested /\ purge = Idle /\ MayStart
  /\ purgeRequested' = FALSE
  /\ purge' = IF rules = {} THEN Idle ELSE [phase |-> "started", known |-> rules]
  /\ UNCHANGED <<rules, world, findings, history, pass, request, verify, queue, stamp, spent>>

\* Mutant: the purge keeps the unknown rules and deletes the known ones.
Orphans_Known == {t \in Targets : Exists(findings[t]) /\ RuleOf[t] \in purge.known}

Orphans == {t \in Targets : Exists(findings[t]) /\ RuleOf[t] \notin purge.known}

\* The orphans are read; a purge that finds none is over.
PurgeLoad ==
  /\ purge.phase = "started"
  /\ purge' = IF Orphans = {} THEN Idle
              ELSE [phase |-> "loaded", known |-> purge.known, orphans |-> Orphans]
  /\ UNCHANGED <<rules, world, findings, history, pass, request, verify, purgeRequested, queue, stamp, spent>>

\* They are deleted with their history, whatever was saved of them meanwhile; one that appeared
\* since they were read is not.
PurgeCommit ==
  /\ purge.phase = "loaded"
  /\ findings' = [t \in Targets |-> IF t \in purge.orphans THEN NoFinding ELSE findings[t]]
  /\ history' = [t \in Targets |-> IF t \in purge.orphans THEN << >> ELSE history[t]]
  /\ purge' = Idle
  /\ UNCHANGED <<rules, world, pass, request, verify, purgeRequested, queue, stamp, spent>>

-----------------------------------------------------------------------------
(* The observed database, and the process. *)

WorldChange ==
  /\ spent.changes < MaxChanges
  /\ Spend("changes")
  /\ \E t \in Targets, n \in 0..MaxRows :
       world[t] # n /\ world' = [world EXCEPT ![t] = n]
  /\ UNCHANGED <<rules, findings, history, pass, request, verify, purge,
                 purgeRequested, queue, stamp>>

\* The process stops and starts again: the table stays, what the actors held is
\* lost, and the scheduler purges at startup.
Crash ==
  /\ spent.aborts < MaxAborts
  /\ spent' = [spent EXCEPT !.aborts = @ + 1, !.crashes = @ + 1]
  /\ pass' = Idle /\ request' = Idle /\ verify' = Idle /\ purge' = Idle
  /\ purgeRequested' = TRUE
  /\ UNCHANGED <<rules, world, findings, history, queue, stamp>>

Next ==
  \/ PassStart \/ PassLoad \/ PassSave \/ PassPublish \/ PassAbort
  \/ \E executed \in SUBSET Rules : PassRun(executed)
  \/ RequestLoad \/ RequestSave
  \/ VerifyLoad \/ VerifyRun \/ VerifySave
  \/ EditRules \/ PurgeStart \/ PurgeLoad \/ PurgeCommit
  \/ WorldChange \/ Crash

Spec == Init /\ [][Next]_vars

\* The scheduler keeps ticking, started work goes on, and the rules manage to run
\* together again and again: no promise is made about instances that never answer.
Fairness ==
  /\ WF_vars(PassStart) /\ WF_vars(PassLoad) /\ WF_vars(PassSave) /\ WF_vars(PassPublish)
  /\ WF_vars(\E executed \in SUBSET Rules : PassRun(executed))
  /\ SF_vars(PassRun(rules))
  /\ WF_vars(RequestSave) /\ WF_vars(VerifyRun) /\ WF_vars(VerifySave)
  /\ WF_vars(PurgeStart) /\ WF_vars(PurgeLoad) /\ WF_vars(PurgeCommit)

FairSpec == Spec /\ Fairness

-----------------------------------------------------------------------------
(* What holds whatever the actors' steps interleave to. *)

\* The last history entry of a finding tells its status: no save writes one
\* without the other, even when it overwrites somebody else's.
HistoryTellsStatus ==
  \A t \in Targets :
    IF Exists(findings[t])
      THEN history[t] # << >> /\ Last(history[t]).to = findings[t].status
      ELSE history[t] = << >>

BecomesResolved(t) == findings[t].status # Resolved /\ findings'[t].status = Resolved

\* A rule that failed, was skipped or was quarantined never resolves its findings:
\* a pass resolves only what was gone when its own rule ran, or what the limit of that
\* rule cut off (FindingService.ReconcileAsync).
OnlyGoneIsResolved ==
  [][\A t \in Targets :
       (BecomesResolved(t) /\ pass.phase = "loaded" /\ pass' # pass) =>
          RuleOf[t] \in pass.executed /\ (Cut(RuleOf[t], pass.world) \/ pass.world[t] = 0)]_vars

\* Every episode of a finding is enqueued for notification exactly once, as long as
\* no crash falls between the save and the queue: a new detection has a new cycle.
EachEpisodeAnnouncedOnce ==
  /\ (spent.crashes = 0 /\ pass.phase # "saved") =>
        \A t \in Targets : Exists(findings[t]) =>
          NoticeCount(<<t, Notice("new_finding", findings[t])>>) = 1
  /\ \A n \in DOMAIN queue : n[2].event = "new_finding" => queue[n] = 1

\* Once the database, the rules and the operator leave it alone, the table ends up
\* telling the truth: what is there is active or ignored, what is gone is not active.
Accurate ==
  \A t \in Targets : RuleOf[t] \in rules =>
    IF world[t] > 0 THEN findings[t].status \in {Active, Ignored}
                    ELSE findings[t].status # Active

EventuallyAccurate == <>[]Accurate

-----------------------------------------------------------------------------
(* What holds when the actors are served one at a time. *)

\* A finding has a resolution date exactly when it is resolved, and each entry of its
\* history starts from the status the previous one ended with.
HistoryIsConsistent ==
  Exclusive =>
    \A t \in Targets :
      /\ Exists(findings[t]) => (findings[t].dated <=> findings[t].status = Resolved)
      /\ \A i \in 1..(Len(history[t]) - 1) : history[t][i].to = history[t][i + 1].from

PassMovesIgnored(t) ==
  /\ findings[t].status = Ignored /\ findings'[t].status \in {Active, Resolved}
  /\ request' = request /\ verify' = verify

\* "Un finding ignore reste ignore" (FindingService.cs): a pass never moves it.
IgnoredStaysIgnored == [][\A t \in Targets : ~PassMovesIgnored(t)]_vars

\* The same, of actors that are served one at a time.
IgnoredStaysIgnoredInTurn == [][Exclusive => \A t \in Targets : ~PassMovesIgnored(t)]_vars

\* The findings of a rule that no longer exists are on their way out: a purge is
\* requested or at work (SchedulerService, ruleStore.Changed).
NoLastingOrphan ==
  \A t \in Targets :
    (Exclusive /\ Exists(findings[t]) /\ RuleOf[t] \notin rules /\ rules # {} /\ pass = Idle) =>
      purgeRequested \/ purge # Idle

-----------------------------------------------------------------------------
(* What the documentation says and the code does not do. *)

\* "Without a key, the rule produces a single finding per instance" (RULES.md): what
\* an executed rule reports has a finding once the pass has saved.
ReportedIsKept ==
  [][(pass.phase = "loaded" /\ pass' # pass /\ spent' = spent) =>
       \A t \in Seen : Exists(findings'[t])]_vars
=============================================================================
