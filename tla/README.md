# PgAdvisor in TLA+

PgAdvisor watches PostgreSQL instances: a scheduler runs rules (SQL written in YAML) against each of
them, turns the rows they return into findings, scores the instance, streams events to browsers and
notifies webhooks. A cost guard sets aside the rules that weigh on an instance. This directory models
the parts of that program where steps of several actors meet a state they share (the rows of the
database, the queues, the pages of the browser), checks them with TLC on small instances, and proves
with TLAPS, for every value of the constants, nearly all the safety properties of the back-end and of the
pages of the browser.

Paths are under `src/PgAdvisor.Api/` of the repository, those of the front-end under
`src/pg-advisor-web/src/`.

## The system

| Component | State it keeps | Operations | What makes it correct |
| --- | --- | --- | --- |
| Cost guard (`Scheduler/RuleGuard.cs`) | one `RuleHealth` row per rule and instance (SQLite) | `Record`, `TryRelease`, `Reactivate`, `IsQuarantined` | the state follows the strikes; a faulty rule costs its threshold, then one run per quarantine; nothing is set aside in silence; episodes have distinct identifiers |
| Analysis pass (`Scheduler/AnalysisService.cs`) | the rows it tracks, `_lastRuleRun`, the instance state it publishes | `RunAsync`, `RunRulesAsync`, `DryRunAsync` | what is saved, announced and shown agree, also when the pass is cut short; what is scored is what was evaluated (the last is not modelled) |
| Findings (`Findings/FindingService.cs`, `Controllers/FindingsController.cs`) | `Findings` and `FindingHistory` | reconciliation, status change, verification, purge of orphans | only what is really gone is resolved; operator's decisions survive; history and notifications follow the episodes |
| Notifications (`Notifications/`, `Controllers/NotificationsController.cs`) | a bounded queue in memory, `NotificationHistory`, `NotificationConfigurations` | enqueue, dispatch, retry, deduplicate | one delivery per webhook and episode; nothing blocks the queue; every outcome is recorded |
| Scheduler (`Scheduler/SchedulerService.cs`) | `_lastRun`, `_running`, slots, `_purgeRequested` | `TickAsync`, `RunInstanceAsync`, `DueGroups` | no two passes of one instance, at most N at once, no instance starved |
| Rule store and hot reload (`Rules/RuleStore.cs`, `RuleWatcher.cs`, `RuleFileService.cs`) | the current snapshot, the fingerprint of the files, a debounce date | reload, poll, save, delete | every edit is loaded in the end; a snapshot is never older than one already served |
| Rule semantics (`Rules/`) | none | load, override, applicability, conditions, templates, SQL guard | the pure functions do what `docs/RULES.md` says |
| Health score (`Findings/HealthScoreCalculator.cs`) | none | `Compute` | bounded, monotone in the findings, silent on what was not evaluated |
| Live events (`Sse/EventBus.cs`) | one bounded queue per subscriber | subscribe, publish, dispose | a slow subscriber never slows a pass |
| Instance state and connections (`State/`, `ConnectionsController.cs`) | states in memory, `PostgresConnections` | create, update, delete, present | an instance deleted or disabled leaves nothing behind |
| Query analysis (`Postgres/QueryAnalysisService.cs`, `ExplainPlanParser.cs`) | stored plans | rank, suggest values, analyse, read again | a plan is the one of its query, its costs add up |
| Authentication (`Controllers/AuthController.cs`) | accounts, cookies | sign in and out, change and reset passwords, roles | an administrator remains; an obligation to change a password is enforced |
| Collectors, capabilities | none | SQL on the observed instances | see "Not modelled" |
| Pages (`pages/`, `api/client.ts`, `app/`, `components/layout/`) | what each page read, what is typed, what it waits for | load, gestures, events, polling | once quiet, what is shown is what the server holds; nothing typed is lost; an answer is about what is on screen |
| Widgets (`components/`, `lib/`) | filters, sorts, focus, folded cards, lists | keys, pointer, measures | nothing is hidden for good, nothing overlaps, keys reach everything, the text is not mangled |

They interact through calls (scheduler -> pass -> guard, engine, reconciliation), through rows of
SQLite that several `DbContext`s read and save on their own, through the notification queue and the
event bus (both in memory, both dropping their oldest element), and through `ruleStore.Changed`, which
asks the scheduler for a purge. A page talks to the controllers by requests whose callbacks hold the
values of the render they were created in, and hears of changes by one server-sent stream, which is
opened again without replay.

What is hard here: every handler reads rows, awaits, and saves the columns it changed over whatever the
table has become; the instance timeout cancels a pass anywhere; an exception handler saves again what
the interrupted pass was tracking; queues are lost by a restart while rows are not. In the browser, a
page goes on while it waits: answers come late, fail, or overtake each other; dialogs are closed while
they are busy; the stream breaks without telling.

## Modules

| Module | What it models |
| --- | --- |
| `RuleGuardOps` | `RuleGuard.cs` as pure operators on a row: options, `Record`, `Reactivate`, `TryRelease`, the episode identifier |
| `RuleGuard` | the life of one row: passes, incidents, reactivations, restarts with other thresholds, the clock |
| `GuardedRow` | what a row promises whoever writes it: the abstract specification |
| `RuleGuardOpsProofs` | lemmas on those operators, used by the two modules of proofs about the guard |
| `RuleGuardProofs` | the proofs about `RuleGuard`, which is shown to implement `GuardedRow` too |
| `AnalysisPass` | the pass over the rules of an instance, with the rows loaded at its start and saved at its end; uses `RuleGuardOps`, is shown to implement `GuardedRow` |
| `AnalysisPassProofs` | the proofs about `AnalysisPass`, that implementation included |
| `FindingLifecycle` | the findings of an instance and the pass, request, verification and purge that change them |
| `FindingProofs` | the proofs about `FindingLifecycle` |
| `NotificationDispatch` | the queue, the dispatcher, the history, and the edits that overlap them |
| `NotificationProofs` | the proofs about `NotificationDispatch` |
| `Scheduler` | the ticks, the slots and the passes seen from outside the rules, with the instances edited and deleted meanwhile |
| `SchedulerProofs` | the proofs about `Scheduler` |
| `Requests` | what all the pages do with the API: a request is sent, served or refused, lost, answered; every page and widget below extends it |
| `SessionPages` | who is signed in: login form, imposed change of password, profile, account menu, expiry |
| `LivePages` | the overview, the page of an instance and the count of the menu, on the stream of events and its fallback |
| `FindingsPage` | the list of the findings of a status, the actions on a row and their undo, the dialog of a finding |
| `FindingsFilters` | the filters, sorts and search of that list, which live in the address of the page |
| `RulesPage` | the catalogue, read in two requests, and its reload |
| `RuleEditorPage` | the text of a rule, validated while it is typed, and the card of its overrides |
| `InstancesPage`, `WebhooksPage`, `UsersPage` | lists, forms, tests and deletions, with secrets the page never sees |
| `QueriesPage` | the ranking of the queries, and the modal that measures a plan |
| `QueryTable` | the filters and sorts of a ranking |
| `PlanDiagram`, `PlanCanvas`, `PlanTables` | the layout of a plan, the pointer on its canvas, its tables |
| `YamlCompletion`, `LineDiff` | what the editor proposes at a place of the text, what it marks as changed |
| `Dialogs` | focus and keys in a modal with a drop-down list |
| `Navigation` | the column of navigation: sections folded or collapsed, and the count they announce |
| `Pages` | the pages over the API, one at a time: each as an instance with its own bound |
| `WebApp` | one of these pages, or the filters or the completion above, is mounted at a time: their composition |
| `Widgets` | one of the other widgets is mounted at a time: their composition |
| `FrontEnd` | a page of `WebApp` or a widget of `Widgets` is mounted: what TLC checks |
| `PagesProofs` | lemmas on the queue of requests of a page, whichever page it is, and inductive invariants of the pages: answers, arrivals, what a page owes, the accounts and the webhooks |
| `WebAppProofs` | what the other lists, the card, the overview, the session and the editor show and keep, then the composition, and the theorems about `WebApp` |
| `MC*` | the values of the constants for TLC |

Definitions whose name is `X_Something` next to an `X` and marked *Mutant* are deliberate mistakes; the
properties are tried against them, and no specification uses them.

### How state and actions correspond to the code

**RuleGuard.** `row` is the persisted `RuleHealth` entity (fields renamed shortly: `since` is
`IncidentsSince`, `until` is `QuarantinedUntil`, `count` is `QuarantineCount`...). `PassOver` and
`RunRule` are the two ways through the body of the loop of `RunRulesAsync`; `RunRule` calls `Record`
and enqueues the notification that the crossed threshold deserves. `ReactivateRule` is
`POST /api/rules/{id}/reactivate`. `Restart` picks other options and keeps the row. `slate`,
`incidents`, `settled` and `firstAside` are histories that no action reads. The code's `TryRelease`
never acts on the path of the pass: the pass calls it only when `IsQuarantined` holds, that is before
the deadline, and then it refuses. An expired quarantine is therefore released by `IsQuarantined`
alone and stays in the state `quarantined` until its trial run is recorded. The model says so
(`SkippedByGuard`, `AfterGuard`) instead of assuming the release that the comments describe.

**AnalysisPass.** `health` is the table, `pass.loaded` the original values of the rows the pass's
`DbContext` tracks and `pass.mem` their current values. `Merge` is what Entity Framework does at
`SaveChanges`: it updates the columns whose value differs from the original one. `PassCancel` is the
`OperationCanceledException` branch of `RunAsync` (nothing saved), `PassBreak` its general `catch`
(what is tracked is saved, nothing is announced), `PassSave` and `PassPublish` the end of
`RunRulesAsync`, before the reconciliation. `pass.todo` is the set of the rules left, taken in the
order of the snapshot (`IsCurrent`). `ReactivateLoad` and `ReactivateSave` are the operator's request; it
starts from a row that exists (without one it changes nothing), in one of the states of `setup.from`. A pass
that is cancelled after its last rule has saved nothing, but shows the list it rebuilt. The set of
evaluated rules, and the score that is computed from it, are left out. `attempts` is a history.

**FindingLifecycle.** A target is a (rule, `TargetKey`) pair; `world` says how many rows the rule's SQL
returns for it. `PassRun` runs the rules (any subset of them succeeds, each cut at its limit),
`PassLoad` is the query of `ReconcileAsync`, `PassSave` its single `SaveChanges`, refused as a whole
when a row is gone or inserted twice, and `PassPublish` enqueues what it returned. `RequestLoad` and
`RequestSave`, `VerifyLoad`, `VerifyRun` and `VerifySave`, `PurgeStart`, `PurgeLoad` and `PurgeCommit` are the
other handlers, split at their awaits: what the purge deletes is what it loaded. `detected` is a stamp that orders `DetectedAt`; `dated` says whether
`ResolvedAt` is set.

**NotificationDispatch.** `queue` is the channel, `work` the request being handled with the entries its
`DbContext` could not save yet (`tracked`): after a refused save they are tried again by every later
save of the request. `Take` and `Choose` are `HandleAsync`, `Attempt` one turn of the retry loop, and
`Record` the save of the outcome. `received` counts deliveries and is read by the properties only.

**Scheduler.** `TickRead` and `TickStart` are the two halves of `TickAsync`, before and after its await:
the passes it starts all stop at `slots.WaitAsync`, hence the queue `waiting`. `task` holds the tasks of
an instance, two of which could be alive at once if the code let them, and `running` the one `_running`
knows. `Acquire` and `End` are the slot; `Load`, `Resolve`, `SaveCapabilities`, `Complete`, `Fail` and
`TimeOut` are `RunAsync` between its awaits, the rules themselves being in `AnalysisPass`. `UpdateLoad`,
`UpdateSave`, `DeleteRow` and `DeleteState` are `ConnectionsController`, split where it awaits. `target`
numbers the servers a connection has pointed to, and `caps` says whose capabilities are remembered, in
the row and in the state. `elapsed` is `now - _lastRun`. `collecting` stands for the two
states of an instance at work, `collecting` and `analyzing`, the second of which is set when the rules begin. A version or an extension that changes on the
same server is not told apart from one that does not.

**The front-end.** `view` is the state of a component (its `useState`s, renamed shortly), `server` the
part of the server the page talks about, `calls` the requests that wait, oldest first, and `spent` the
bounds and the histories that only properties read. A gesture is one action (`Requests!Gesture`): the
event handler up to its first await, requests included. `Requests!Serve`, `Refuse` and `Fail` are the
ends of `request` in `api/client.ts` and the network between them; `Settle` is what follows an
await, in the callback or in its `catch`, and may send the next request. The argument of a request
holds what its callback keeps of the render it was made in (a tab, a filter, a form number), which is
how stale closures are modelled: `FindingsPage!TimerFires` reads the list of the tab that was on screen
when the event came, as the code does. Each page defines `Effect` (what the server does of a request),
`Reply`, `Answered` and `Refusal`, translated from the controllers and from the callbacks. A form or a
dialog has a number where its answer may come after it was closed. A widget has no requests and
`server` is constant (`None`), except in `FindingsFilters` where the findings come and go.

`Navigation` keeps one bubble per collapsed section, as the code does: the pointer may be in one while
the focus is in another. `YamlCompletion` knows a line by its form (a word, a field, a bullet, a
comment, an open template) and the fragment by what it starts; a list keeps the text it was computed
for (`of`), and a word accepted elsewhere gives a `Mangled` line, since the code inserts it between
offsets of the older text. `FindingsFilters` has the address of the page, the draft of the field and
what the field last took for the address (`applied`), the reference that decides which of the two wins.

## What is checked

Passing runs:

| Run | Question | Distinct states (about) |
| --- | --- | --- |
| `rule_guard` | Does the guard keep its promises under any mix of incidents, successes, reactivations and restarts that change the thresholds? | 280,000 |
| `findings` | Are the findings consistent when the actors interleave, and more so when they are served one at a time; does the table end up telling the truth? | 1,110,000 |
| `pass` | Do the rows evolve as the atomic guard says, although passes are cancelled, broken and crash; do announcements, the list shown, the cost and reactivations agree with them when passes run to their end? | 433,000 |
| `notify` | Is a recorded success final, are deliveries bounded, does each request leave its trace, and does the queue drain, whatever the webhooks answer? | 1,300,000 |
| `scheduler` | Are passes never doubled, slots never lost, no instance starved, and is what is remembered of a server true in the end, although instances come, change and go? | 409,000 |
| `web` | Does each page, alone, show what the server holds (unless an event was lost and it was not read since), keep what is typed, take answers for what they are, tell each arrival once; do the plan and the widgets do what they say? | 3,030,000 |

Runs that find a disagreement between the code and what the repository says of it:

| Run | What TLC finds |
| --- | --- |
| `pass_timed_out` | A pass cancelled by the instance timeout saves nothing, so the guard forgets the very incidents that used the time up, and the rule is never set aside |
| `pass_reactivated` | A rule set aside by earlier passes is reactivated while the pass that retries it is at work: that pass's save writes the columns it changed over the row just reset, and strikes of before the reactivation are back |
| `findings_ignored_overwritten` | A finding ignored while a pass reconciles is resolved by the pass |
| `findings_duplicate_target` | A rule without a key that returns two rows makes every reconciliation of the pass fail |
| `notify_after_failure` | Once an episode has failed for a webhook, it is sent at every enqueueing |
| `rule_editor_typing` | The box that applies a rule to an instance reads the page again as a whole, and erases what is being typed |

`findings` and `pass` explore several setups in one run (the constant `Setups`: what the environment may
do, and whether one actor is served at a time, which the code does not ensure). A property named
`...InTurn` is about the latter setups: it says what the logic of each handler guarantees on its own,
and the violation run beside it (`IgnoredStaysIgnored`, `ReactivationIsClean`) what interleaving takes
away. `CostIsCappedInTurn` also needs a timeout that is not reached; `pass_timed_out` lifts that.

The properties of `web` are conjunctions, each conjunct being the property of a page or of a widget under
its own name and with its own comment in its module: `PagesShowTheServer`, `InputIsKept`,
`AnswersAreAboutTheScreen`, `ArrivalsAreToldOnce`, `PlanIsReadable`, `WidgetsObey` (with `ListsObey`),
`HalvesAreKept` and `PollCatchesUp`. A single run can hold them because `App.tsx` mounts one page at a
time: the state space of `FrontEnd` is the sum of those of its pages and widgets, not their product. The
filters of the findings and the completion of the editor are in `WebApp` with the pages, for they hold what
is typed, and the theorems are about them too; the widgets that display or choose are in `Widgets`. The
theorems are about the specification of `WebApp`: the properties they state ask nothing while a widget is
mounted, and a step of `FrontEnd` mounts nothing else.

The conditions under which a property is checked are conditions it needs. Outside of them:

- `NoLastingOrphan` fails when a rule is deleted while a pass runs it: the pass inserts findings that
  no purge removes until the next rule change.
- `NoSilentRow` fails when a rule throws what the engine does not catch: the handler's save persists
  the rows set aside, and their announcements are never made.
- `EventuallyAccurate` fails when a rule returns more targets than its limit: one that is cut off is
  taken for gone. `OnlyGoneIsResolved` names that as its exception (`Cut`); the passing run stays below
  the limit, the theorem does not.
- `EveryRequestIsRecorded` excuses an entry that follows, within the same request, one whose save was
  refused: the refused entry stays tracked and keeps the next from being saved.
  `RecordedSuccessIsFinal` says nothing of a delivery whose answer came too late, which is retried.
- `CapabilitiesConverge` is about what lasts. For a while the capabilities may be those of a former
  server: a pass connected to it saves them after the edit that cleared them, and they are trusted until
  `CapabilityRefresh`.
- In the pages, "once nothing is under way" means no request that waits, no timer and no event on its
  way, and, where a property says `InOrder`, requests answered in the order they were sent (the bounds
  below say where both orders are explored). Nothing in the pages discards an answer that was overtaken:
  of two lists asked one after the other, the last to arrive is shown. `spent.faults = 0` excuses a
  reading that failed, which the page says or shows as unread.
- Events may be lost at any time: the stream is opened again without replay (`EventsContext.tsx:43-73`),
  and the queue of a subscriber drops its oldest item (`EventBus.cs:42-65`). `Requests!EventLost` is that
  loss in `FindingsPage`, `RulesPage`, `InstancesPage` and `RuleEditorPage`, which have no poll to make up for
  it: what they show then stays stale, with no error, until a gesture or a later event has them read
  again, and `PagesShowTheServer` excuses them from the loss to that reading (`CaughtUp`). `LivePages` models
  the queue, the break and the fallback themselves, and remembers in `missed` who has not read since.
- `FindingsPage!ListIsTrue` is about the tab the rows were read for. That it is the tab on screen
  (`ListIsOfItsTab`, not checked) does not hold: an undo, or the timer of the events, keeps the `load` of
  the render that made it.
- `TestIsOfTheForm` is about a form that was not edited while its test ran: the answer of a test is shown
  whatever the form has become. The badge of the editor is about a text that has stopped moving, and
  validations answered in order.
- `HalvesAreKept` is about a gesture made on a card that was up to date: another administrator's change
  of the same record is overwritten, here as in every form that sends a whole record.
- `ArrivalsAreCountedOnce` needs the lists in the order they were asked for: of two reloads that overtake
  each other, the page takes the older for news and counts again what it had counted.
- `TypingSurvivesTheGuard` is `NothingTypedIsLost` as long as the box of `rule_editor_typing` is not used.
- `ProposalsFitTheBlock` leaves out SQL indented by two levels or more: the editor then proposes the
  keys of a rule in the middle of a query, which the comment of `completionAt` rules out.
  `AcceptedTakesItsPlace` leaves out a word accepted within the frame that follows a keystroke, and
  a text that the page replaced under an open list.
- `ClearedStaysClear` leaves out a first search typed less than 250 ms before the filters are cleared:
  there is no applied search to fall back to, and the timer applies it nevertheless.
- `FocusIsKept` leaves out a press beside the controls and a button disabled while it has the focus.
  Nothing is said of which of two open dialogs takes the Escape key.
- `OnlyDragsAreSwallowed` is about the clicks of the pointer. A drag that ends where no click follows leaves
  the next click to be swallowed, and if it comes from the keyboard no pointer press has cleared that
  (`PlanView.tsx:834-845`).
- `EqualIsWhatIsRead` is about the operator `=` of the filters of a ranking; the others compare the measure
  itself, of which the cell shows a rounding.
- `CollectingIsTrue` compares the state shown with the passes at work. It does not say that a deleted
  instance has no state: a pass that ends after the deletion leaves one, which nothing reads.

### Bounds

- Two rules with one target each, or one rule with two targets, are enough for every interaction the
  code has: rules only meet in the single save of a pass and in the set of executed rules, targets of a
  rule only in its limit. `MaxRows = 2` is used where a target may be reported twice; `Limit` is above
  what a rule may return in every run.
- Thresholds of 1 to 5 incidents and quarantines of 2 seconds let a rule go through both thresholds, a
  quarantine, its renewal and a recovery within the clock (6 in `RuleGuard`, 3 to 5 in `AnalysisPass`).
  One configuration of `RuleGuard` has thresholds and a duration that the code must raise
  (`DefaultDuration` is 6 seconds there for six hours), another has the guard off.
- `MaxChanges`, `MaxRequests`, `MaxEdits`, `MaxAborts`, `MaxResets`, `MaxFaults`, `MaxEnqueues` and
  `MaxCrashes` bound what the environment does; each is at least what an overlap of two actors needs,
  and a second event after it. In `AnalysisPass`, the state of the rows a reactivation may start from is given
  by each setup (`from`): any state where the actors take turns, a rule set aside where they do not.
- `Capacity = 2` makes the queue overflow with the third request; `MaxRetries = 2` has a retry and a
  last attempt.
- In `Scheduler`, two instances share one slot. The operator touches one of them (`Edited`) and makes
  two requests (`MaxEvents`, which also counts restarts): an edit and a second one during the pass that
  follows it. The other instance shows that it is not starved. There is one group: groups only meet in
  the set a pass is started with. The two instances have different intervals.
- In the front-end, `MaxMoves` bounds together what the operator, the others and the network do to a page;
  `MCMoves` and `MCWidgetMoves` give each its own: from 2 for the catalogue, whose every event starts two
  requests, to 8 for the diff, whose texts grow one line at a time. Each is enough for a gesture, a second
  one while the first waits, and a failure or an event between them; where a page has fewer gestures, for
  more. `Unordered` names the pages whose requests may overtake each other (`Orders` has both values there);
  the editor, the overview and the ranking are checked in order only, since most of what they promise needs
  it.
- One finding in `FindingsPage` (`Items`), because rows only meet in the list, which is replaced as a whole;
  three in `FindingsFilters`, two of which tie on each sort. Two rules at first, any of which may be
  disabled or watched; two instances, any of which may be there at first, and one created later; a webhook
  and a new one; the administrator and another account, of either role or not created yet; a query with a
  parameter and one without; two scopes of an override. `Capacity = 2` makes the queue of the stream drop an
  event. In the diagram, the gap between two cards absorbs what is drawn above a card (the label of a
  subplan) and below it (the pill that folds it), which the property measures. `MaxNodes = 4` has every shape of a branch between siblings; two `Cards` are enough for a drag from
  one to another. Four `Options`, any of which but one may be disabled.
- Deadlock is checked in `rule_guard` only. In the other models the bounds of the environment make the
  system stop, with nothing left to do.

### Fairness

`FindingLifecycle!Fairness`: the scheduler ticks every second and a pass that started goes on, since the
timeout of an instance and of each statement ends every wait (weak fairness of the pass's steps, of the
purge and of the requests being served). That the rules manage to succeed together again and again is
an assumption about the observed instance (strong fairness of `PassRun(rules)`): nothing can be promised
about an instance that never answers. `NotificationDispatch!FairSpec`: the dispatcher is a background
loop, and an attempt ends because the HTTP client has a timeout; nothing is assumed of the webhooks.
`Scheduler!Fairness`: the timer ticks and time passes; a pass that has its slot goes on, or times out
(weak fairness of `PassGoesOn`); a free slot is taken, in the order of arrival, which is what
`SemaphoreSlim` does with asynchronous waiters today and not something its documentation promises; the
rows are loaded and saved well within the timeout; capabilities expire. Strong fairness of `Resolve` is
the assumption that a server answers again and again; `NoStarvation` does not depend on the server of
any instance for the others. `WebApp!Fairness`: the browser ends up noticing that its stream broke, a
request ends (the server or the network ends it), and the timers of the fallback fire as long as the
page knows that the stream is dead; nothing is assumed of the stream coming back.

## What is proved

`RuleGuardProofs` proves, for every set of options, every set of outcomes and every bound of the clock
(assumptions `ConfigsAssumption`, `RunsAssumption`, `MaxClockAssumption`):

- `TypeCorrect`: `[]TypeOK`;
- `StatesAreDeserved`: `[]StateMatchesStrikes`, the state of a row is what its incidents deserve;
- `NeverAsideInSilence`: `[]NeverSilent`, a rule degraded or set aside was announced;
- `CyclesAreUnique`: `[]CycleNamesEpisode`, deduplication cannot swallow a relapse;
- `QuarantinesEnd`: `[]QuarantineIsBounded`, a quarantine has a deadline after its start.

None of these is inductive alone. The invariant `IInv` adds two facts: `RowMatchesHistory` (the strikes
of the row are the incidents of the current slate, `since` dates the first of them and is null when
there is none, the last pass is not in the future) and `CyclesFollowSlates` (an announcement of an
earlier slate carries a cycle older than the first incident of the current one). The latter is what
makes cycles unique: a slate is wiped by a pass or by the operator, the next incident needs a later
pass, so its date is later than every cycle used before. `IInv` was checked with TLC on the instance of
`rule_guard`; the proof goes by the actions of `Next`, with one lemma for the two that wipe the slate
and one for an incident, which splits on the thresholds. The thresholds enter only through
`1 <= WarningThreshold <= QuarantineThreshold` and a positive duration (lemma `Thresholds`).

Two more invariants, each with its own strengthening, rest on `IInv`:

- `RenewalsAreAnnounced`: `[]RenewalsAnnounced`, no renewal of a quarantine is swallowed. `Renewals`
  says that the announced set is finite and that a slate without incidents has announced nothing; each
  announcement has a cycle later than those before it, so the cardinality grows with the count.
- `FaultyRulesAreCapped`: `[]FaultyRuleCost`. `Paid` says that every incident past the threshold has
  waited for the quarantine before it: `(incidents - threshold) * duration <= quarantinedAt - firstAside`;
  lemma `Quotient` turns the product into the quotient of the property.

`RuleGuardImplementsGuardedRow`: `Spec => Guarded!Spec`, the row evolves as `GuardedRow` says, step by
step: a run judged in full that the guard had let through, a reactivation, or nothing, an operator's
request on a rule that is well and a pass that leaves the rule aside included.

`AnalysisPassProofs` (assumptions `OptionsAssumption` and `SetupsAssumption`, any rules):

- `PassIsTyped`: `[]TypeOK`, from `Typed` and `Dated` (nothing is dated after now), whatever overlaps;
- `PassIsGuarded`: `Spec /\ Exclusive => RowsAreGuarded`, the pass implements `GuardedRow`, lost passes
  included. `Alone` is the invariant: what is loaded is what the table holds, and what is tracked was
  judged at most once since, so that each column saved over the table is that of one atomic step;
- `RowsAreTold`, `SetAsideIsShown`, `SlatesAreClean`, `PassesAreCapped`: `NoSilentRow`,
  `ShownIsComplete`, `ReactivationIsCleanInTurn` and `CostIsCappedInTurn`, from `Agrees`: as long as no
  pass is lost, the strikes of a row are the attempts since its last clean slate, and an episode was
  announced or is in what the pass is about to announce.

`FindingProofs` (any rules, targets and limits):

- `FindingsTyped` and `HistoryTells`: `[]TypeOK` and `[]HistoryTellsStatus`, for any interleaving.
  Every save of a status comes with its history entry and is refused when the row it was computed from
  is not there any more, so the pair of them (`Typed`, `HistoryTellsStatus`) is inductive;
- `AnnouncedOnce`: `[]EachEpisodeAnnouncedOnce`, from `Numbered` (no stamp comes from the future) and
  `Once` (an episode is announced, or is in the hands of the pass that saved it);
- `OnlyGoneGoes`: `OnlyGoneIsResolved`, for any interleaving. `Observed` says what ties a pass to the
  database it queried: from the run of its rules to its save, it reports all that was there unless the
  limit of the rule cut it, and has loaded no finding of a rule that failed or did not run;
- `HistoryIsAChain`, `OrphansGo` and `IgnoredStays`: `HistoryIsConsistent`, `NoLastingOrphan` and
  `IgnoredStaysIgnoredInTurn`, of actors served one at a time. `InTurn` says that one of them is at
  work, that what it loaded is still so, that orphans have a purge before them, and that each
  finding and its history are consistent.

`NotificationProofs` (any webhooks, requests, answers; `CapacityAssumption` and the assumptions on the
bounds):

- `DispatchIsTyped` and `SuccessIsFinal`: `[]TypeOK`, the unique index included, and
  `RecordedSuccessIsFinal`. The invariant adds that the entries which wait for the next save are those of
  webhooks handled before (`TrackedApart`), and that what is being sent has not succeeded (`NotYet`):
  the dispatcher alone adds to the history;
- `DeliveriesBounded`: `[]DeliveriesAreBounded`, from `Budget`: what a webhook received, what the request
  at work may still cost it, and what the queue holds, are paid for by the enqueueings;
- `RequestsAreRecorded`: `EveryRequestIsRecorded`, from `Traceable`: a webhook that was to get the request
  waits, is being handled, or left a trace; and an entry that was refused goes on being refused, which
  is what keeps a later entry of the same request out of the table.

`SchedulerProofs` (any finite set of instances, any groups, intervals and number of slots):

- `SchedulerIsSafe`: `[]SlotsGoToDistinctInstances`. `OnlyRunning` says that `_running` knows every task
  that is alive, `QueueWaits` that the queue of the semaphore holds each waiting task once: a restart, an
  edit or a deletion at any await breaks neither;
- `CollectingIsShownTrue`: `[]CollectingIsTrue`, since only a pass past its load writes that state;
- `SchedulerIsTyped`: `[]TypeOK`. What is not a matter of types in it is that no server has a number above
  the bound: each move to another server was counted when it was asked for, so that the servers an
  instance and the requests about it name are as many, at most, as the requests made.

`WebAppProofs`, over `PagesProofs` (any findings, rules, instances, webhooks and accounts; any number of
gestures and of failures; requests that overtake each other or not; assumptions `ItemsAssumption`: the
findings of a target are finitely many, and none is named as the absence of one, `CapacityAssumption`: the
queue of a subscriber has a place, and `NamesAssumption`: a rule is a number, its rank among the names, an
identifier is not the absence of one, and a new webhook is none of those there were). What stays fixed is
what the pages read of it: the two scopes of an override (all the instances, or one), and on the overview
the instance that is selected and one that is not:

- `AnswersStayAboutTheScreen`: `[]AnswersAreAboutTheScreen`, in the five pages where an answer may come
  to a page that went on;
- `HalvesStayKept`: the action property `HalvesAreKept` of the card of a rule;
- `ArrivalsStayToldOnce`: `[]ArrivalsAreToldOnce`, the count of the list of the findings and the
  announcements of the overview;
- `PagesStayTrue`: `[]PagesShowTheServer`, for the nine pages over the API: once nothing is under way,
  what each shows is what the server holds, under the conditions that the property states (most pages
  promise it of answers in order, and none of a request that was lost);
- `InputStaysKept`: `[]InputIsKept`, what is typed or chosen in the forms, the editor, the filters of the
  findings and the modal of a query, and where a completed word lands.

`WebInv` says that the page that is mounted keeps its own invariant, which speaks of what is on its way as
much as of what is shown:

- `UsersInv`, `RulesInv`: what is busy waits for a request of its own that is in the queue, and not for
  that of a dialog closed before (`UsersDialogWaits`, `RulesWait`);
- `InstancesInv`: a test that is on its way is of the form as it is, unless the form changed since
  (`InstancesPending`), and a form waits for one thing at a time (`InstancesOnce`);
- `EditorInv`: the text is about to be validated, or the last validation that waits is of that text, or
  none waits and the badge is right (`EditorBadge`);
- `CardInv`: the overrides of the card are those of the server, or the last reading that was served
  brings them, or one is still to be served, or is to be asked for by the answer to a gesture
  (`CardFresh`). It needs to know why a reading may be refused: the rule is gone, hence the removal was
  served before it, by this page, which leaves when it hears of it (`CardGone`, `CardBusy`). A gesture made
  with nothing on its way then has the half of the server, and only requests that touch no override can
  be served before it (`CardHalves`);
- `FindingsInv`: for the undo, what is known after no move, one and two (`FindingsUndo`); for the dialog,
  that the last reading of its finding is served after the last action on it (`FindingsRead`), and brings
  the status of the server (`FindingsFresh`);
- `ArrivalsInv`, `LiveInv`: what a page counts is the difference between two readings, and what happened
  is counted by the server, between readings and on its own. The invariant names a path from one to the
  other: position 0 is the state of the server that the page shows, 1 to n those in which each request
  of the queue was served (for one still to be served, the present one), n+1 the present one; each has
  the number of events there had been then, and going from a position to a later one costs no more
  than the events in between (`Climbs`). All pairs of positions are compared rather than neighbours, so
  that taking the first away, adding one or moving the last asks for no induction over the queue. For
  the list, the cost is the number of findings that enter a list (`Entries`, finite by
  `ItemsAssumption`), and what happened is the moves that were counted less the actions still to be
  served (`Happened`, `Owed`): an action is counted when the operator makes it and changes the lists when
  the server serves it.

What a page shows once quiet has one shape, `Fresh`: something still to come is owed to the page (an
event that is on its way or was lost, a timer, the answer to an act that will read again), or the last reading that was asked brings what
the server holds once it is served, or none is asked and the page shows it. Lemmas `AsksSent` and
`AsksAnswered` say what becomes of the last request of a kind when one is sent and when the first is
answered, and `ListSent`, `ListServed`, `ListAnswered` what becomes of `Fresh` for the lists, which are read
again after each act. Over it:

- `UsersQuiet`, `InstancesQuiet`, `WebhooksInv`: the lists. Beside them, a password or headers that were not
  replaced travel blank in every save, and what is stored then keeps the secret of before
  (`InstancesSecret`, `Webhooks!HeadersSurvive`); an instance that is created never takes the identifier of
  another, which would give it its secret;
- `CatalogueQuiet`: a reading of the catalogue comes in two parts, and what it has brought so far is good
  or will be read again;
- `FindingsQuiet`, `LiveTrue`: the event that is owed, the timer it starts, and for the pages that watch
  the stream, the events in its queue and those it had no place for;
- `QueriesInv`: the ranking is the one of the filters on screen, and marks the queries whose plan is kept,
  counting what a modal measured since (`QueriesRanked`); the values of a modal are read once, before any
  is typed (`QueriesOnce`);
- `TextInv`, `VerdictInv`: only the first reading of a page brings a text, unless the box of an instance
  reloads it; the verdict of the card is brought by the last reading served, or is owed. Its overrides are
  those of `CardInv`;
- `FiltersKept`, `CompletionKept`: the field of the search follows the address, and a list of completions is
  about the text unless the frame that refreshes it is still to come;
- `SessionInv`: the last request that was served and says who is signed in (a reading of the session, a
  login, a logout, a 401) says what the server holds, or the page does (`SessionTrue`). For the obligation
  (`SessionMust`), while the server or an answer holds it, one request at most can sign in or lift it, and the page is
  busy with it (`MustAlone`), so that no stale obligation is read after it was lifted (`MustLifted`); this
  one holds in any order of the answers.

Those of these invariants that name no path were checked with TLC before they were proved. The proof of each
page has one lemma for its gestures, one for what the server and the network do of a request, and one for
the answers; lemmas `OneSent`, `OneServed` and `Answers` say what each does to the queue.

Model-checked only: liveness (`EventuallyAccurate`, `QueueDrains`, `NoStarvation`, `CapabilitiesConverge`,
and those of `web`), which the prover cannot treat; the types of `web`, `PlanIsReadable` and
`WidgetsObey` (what the recursive functions compute of any plan or text would need an induction over data).

## What is not modelled, and why

- Evidence, titles, payloads, messages, durations that are only displayed.
- Failures of the Advisor's own SQLite database: it is taken as available, with atomic saves. In
  particular the purge that fails and is swallowed (`SchedulerService.cs:203`) is not an action.
- `IsDue`, the interval of a rule, abstracted in `AnalysisPass` to any set of due rules.
- The startup of the scheduler (its delay, the purge, the subscription to `ruleStore.Changed` made after
  it) and the purge of `RuleHealth` rows while a pass runs: planned.
- The password, the unique name and the interval of an instance: edits of them do not interact.
- The clock moves between passes: a pass uses one instant, as the code does, and the date at which a
  reactivation or a reconciliation happens is only compared with earlier ones.
- Query analysis, collectors and capability detection: requests to PostgreSQL with no state of their
  own; the plans and the accounts are modelled as the pages see them, each request served in one step.
  Two administrators who demote each other at once are therefore not. Migrations: generated.
- Of the front-end: translations, formatting, colours and tokenizers; zoom levels and the position of
  bubbles; what is kept from one page to another by the browser (history, scrolling); two tabs of one
  browser; virtualised rows. A page that is left is unmounted: the answers it waits for change nothing
  that is shown, so pages do not interact but through the server.
- The hot reload of the rules, the overrides as the engine merges them, the expressions and templates,
  the health score and what a pass hands to it (the set of evaluated rules): sequential code for the most part, planned below.

## Plan

The guard, the pass, the findings, the notifications and the scheduler came first because they decide
what the operator is told and hold all the persisted state; then the front-end, which is where most of
the waiting and the overtaking happens. What is left, in this order:

1. `RuleHotReload`: files, watcher events lost or late, debounce, fingerprint polling, saves from the
   API; every edit is loaded in the end, snapshots never go back. The startup of the scheduler, which
   subscribes to the reloads after its first purge, goes with it.
2. `AnalysisPass` gets the purge of `RuleHealth` rows that may meet a running pass.
3. `EventStream`: the bus with several subscribers and its disposal (`LivePages` has one).
4. Pure operators against reference definitions: `HealthScore` (and the set of evaluated rules in
   `AnalysisPass`, which it takes), the merge and overrides of rules and
   their applicability, the value semantics of expressions.
5. Proofs: the types of the pages, `ListsObey`, and the parts of `WidgetsObey` that rest on no recursive function.
