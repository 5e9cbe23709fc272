------------------------ MODULE NotificationDispatch ------------------------
(***************************************************************************)
(* The notifications, from the analysis to the webhooks                    *)
(* (Notifications/NotificationQueue.cs and NotificationDispatcher.cs): a   *)
(* bounded queue in memory that drops its oldest request, and one          *)
(* dispatcher that takes the requests one at a time, sends each to the     *)
(* webhooks that want it, retries, and records the outcome in a table      *)
(* whose unique index allows one entry per webhook and episode.            *)
(*                                                                         *)
(* The entries a save could not write stay tracked by the DbContext of the *)
(* request, and every later save of that request tries them again.         *)
(***************************************************************************)
EXTENDS Integers, Sequences, FiniteSets

CONSTANTS
  Hooks,        \* the webhook configurations
  Requests,     \* what may be notified: subject, event, cycle and severity
  Capacity,     \* NotificationQueue.Capacity
  MaxRetries,   \* NotificationOptions.MaxRetries
  Outcomes,     \* what may come of an attempt
  MaxEnqueues,  \* bound on the times each request is enqueued
  MaxEdits,     \* bound on the configurations edited and the subjects deleted
  MaxCrashes    \* bound on the stops of the process

\* An attempt is answered by a success; refused for good (most of the 4xx); fails in a
\* way worth a retry, before the webhook got the message or after (a late answer).
AllOutcomes == {"ok", "refused", "unavailable", "late"}

ASSUME OutcomesAssumption == Outcomes \subseteq AllOutcomes
ASSUME CapacityAssumption == Capacity \in Nat \ {0}
ASSUME DispatchBoundsAssumption ==
  MaxRetries \in Int /\ {MaxEnqueues, MaxEdits, MaxCrashes} \subseteq Nat

\* What deduplication compares; the severity is not part of it.
Key(r) == [subject |-> r.subject, event |-> r.event, cycle |-> r.cycle]
Keys == {Key(r) : r \in Requests}
Subjects == {r.subject : r \in Requests}
Events == {r.event : r \in Requests}

VARIABLES
  queue,      \* the channel
  hooks,      \* the NotificationConfigurations table
  subjects,   \* the findings and rule states that exist
  history,    \* the NotificationHistory table
  work,       \* the request being handled, and its DbContext
  received,   \* how many times each webhook got each episode
  enqueued,   \* how many times each request was enqueued
  spent       \* what each bound has used up

vars == <<queue, hooks, subjects, history, work, received, enqueued, spent>>

Idle == [phase |-> "idle"]

Configurations == [enabled : BOOLEAN, minimum : 0..2, events : SUBSET Events]
\* A row that is gone is like one that wants nothing.
Deleted == [enabled |-> FALSE, minimum |-> -1, events |-> {}]
Entries == [hook : Hooks, key : Keys, success : BOOLEAN]

TypeOK ==
  /\ queue \in Seq(Requests)
  /\ Len(queue) <= Capacity
  /\ hooks \in [Hooks -> Configurations \union {Deleted}]
  /\ subjects \subseteq Subjects
  /\ history \subseteq Entries
  /\ \A e, f \in history : (e.hook = f.hook /\ e.key = f.key) => e = f
  /\ work = Idle \/ /\ work.phase \in {"choosing", "sending", "saving"}
                    /\ work.request \in Requests
                    /\ work.tracked \subseteq Entries
  /\ received \in [Hooks \X Keys -> Nat]
  /\ enqueued \in [Requests -> Nat]

Init ==
  /\ queue = << >>
  /\ hooks \in [Hooks -> {c \in Configurations : c.enabled /\ c.events = Events /\ c.minimum < 2}]
  /\ subjects = Subjects
  /\ history = {}
  /\ work = Idle
  /\ received = [x \in Hooks \X Keys |-> 0]
  /\ enqueued = [r \in Requests |-> 0]
  /\ spent = [edits |-> 0, crashes |-> 0]

-----------------------------------------------------------------------------
(* The queue. *)

\* BoundedChannelFullMode.DropOldest: the oldest request makes room.
Pushed(r) == Append(IF Len(queue) = Capacity THEN Tail(queue) ELSE queue, r)

\* A pass enqueues; the same episode may be enqueued again, as when a finding resolved,
\* reconsidered by the operator and resolved once more keeps its detection date.
Enqueue ==
  /\ \E r \in Requests :
       /\ r.subject \in subjects
       /\ enqueued[r] < MaxEnqueues
       /\ queue' = Pushed(r)
       /\ enqueued' = [enqueued EXCEPT ![r] = @ + 1]
  /\ UNCHANGED <<hooks, subjects, history, work, received, spent>>

-----------------------------------------------------------------------------
(* The dispatcher. *)

Wants(c, r) == r.event \in c.events /\ r.severity >= c.minimum

\* HandleAsync: a request whose subject is gone is dropped; else the enabled webhooks
\* are loaded, once for the request.
Take ==
  /\ work = Idle /\ queue # << >>
  /\ queue' = Tail(queue)
  /\ work' = IF Head(queue).subject \notin subjects THEN Idle
             ELSE [phase |-> "choosing", request |-> Head(queue), hook |-> "none",
                   loaded |-> hooks,
                   todo |-> {h \in Hooks : hooks[h].enabled},
                   attempts |-> 0, success |-> FALSE, tracked |-> {}]
  /\ UNCHANGED <<hooks, subjects, history, received, enqueued, spent>>

\* Mutant: the entries that failed are taken for those that succeeded.
AlreadyNotified_Failed(h, key) ==
  \E e \in history : e.hook = h /\ e.key = key /\ ~e.success

AlreadyNotified(h, key) == \E e \in history : e.hook = h /\ e.key = key /\ e.success

\* The next webhook: passed over when it does not want the event or already has it.
Choose(h) ==
  /\ work.phase = "choosing" /\ h \in work.todo
  /\ IF ~Wants(work.loaded[h], work.request) \/ AlreadyNotified(h, Key(work.request))
       THEN work' = [work EXCEPT !.todo = @ \ {h}]
       ELSE work' = [work EXCEPT !.todo = @ \ {h}, !.phase = "sending", !.hook = h,
                                 !.attempts = 0, !.success = FALSE]
  /\ UNCHANGED <<queue, hooks, subjects, history, received, enqueued, spent>>

Finish ==
  /\ work.phase = "choosing" /\ work.todo = {}
  /\ work' = Idle
  /\ UNCHANGED <<queue, hooks, subjects, history, received, enqueued, spent>>

AllowedAttempts == IF MaxRetries >= 1 THEN MaxRetries ELSE 1

\* Mutant of the test that ends the retries: one attempt too many.
GivesUp_OneTooLate(attempts) == attempts > AllowedAttempts

GivesUp(attempts) == attempts >= AllowedAttempts

\* One turn of the loop of SendAsync, with the delay that follows it.
Attempt(outcome) ==
  /\ work.phase = "sending"
  /\ received' = IF outcome \in {"ok", "late"}
                   THEN [received EXCEPT ![<<work.hook, Key(work.request)>>] = @ + 1]
                   ELSE received
  /\ work' = [work EXCEPT
       !.attempts = @ + 1,
       !.success = (outcome = "ok"),
       !.phase = IF outcome \in {"ok", "refused"} \/ GivesUp(work.attempts + 1)
                   THEN "saving" ELSE "sending"]
  /\ UNCHANGED <<queue, hooks, subjects, history, enqueued, spent>>

ToWrite ==
  work.tracked \union
    {[hook |-> work.hook, key |-> Key(work.request), success |-> work.success]}

\* Mutant: without the unique index.
Refused_NoIndex == \E e \in ToWrite : hooks[e.hook] = Deleted

\* The save is refused when the unique index already has one of the entries, or the
\* webhook of one was deleted.
Refused ==
  \E e \in ToWrite : \/ hooks[e.hook] = Deleted
                     \/ \E f \in history : f.hook = e.hook /\ f.key = e.key

\* Mutant: the outcome of a request that failed is not recorded.
Record_SuccessOnly ==
  /\ work.phase = "saving"
  /\ history' = IF Refused THEN history ELSE history \union {e \in ToWrite : e.success}
  /\ work' = [work EXCEPT !.phase = "choosing", !.hook = "none",
                          !.tracked = IF Refused THEN ToWrite ELSE {}]
  /\ UNCHANGED <<queue, hooks, subjects, received, enqueued, spent>>

\* Mutant: the save is tried again until the table accepts it.
Record_UntilAccepted ==
  /\ work.phase = "saving" /\ ~Refused
  /\ history' = history \union ToWrite
  /\ work' = [work EXCEPT !.phase = "choosing", !.hook = "none"]
  /\ UNCHANGED <<queue, hooks, subjects, received, enqueued, spent>>

Record ==
  /\ work.phase = "saving"
  /\ history' = IF Refused THEN history ELSE history \union ToWrite
  /\ work' = [work EXCEPT !.phase = "choosing", !.hook = "none",
                          !.tracked = IF Refused THEN ToWrite ELSE {}]
  /\ UNCHANGED <<queue, hooks, subjects, received, enqueued, spent>>

-----------------------------------------------------------------------------
(* The administrator, the purge and the process. *)

\* PUT /api/notifications/{id}
UpdateHook ==
  /\ spent.edits < MaxEdits
  /\ spent' = [spent EXCEPT !.edits = @ + 1]
  /\ \E h \in Hooks, c \in Configurations :
       /\ hooks[h] \notin {c, Deleted}
       /\ c.events # {}
       /\ hooks' = [hooks EXCEPT ![h] = c]
  /\ UNCHANGED <<queue, subjects, history, work, received, enqueued>>

\* DELETE /api/notifications/{id}; the history of the webhook goes with it.
DeleteHook ==
  /\ spent.edits < MaxEdits
  /\ spent' = [spent EXCEPT !.edits = @ + 1]
  /\ \E h \in Hooks :
       /\ hooks[h] # Deleted
       /\ hooks' = [hooks EXCEPT ![h] = Deleted]
       /\ history' = {e \in history : e.hook # h}
  /\ UNCHANGED <<queue, subjects, work, received, enqueued>>

\* A finding or a rule state is purged, or its instance is deleted.
DeleteSubject ==
  /\ spent.edits < MaxEdits
  /\ spent' = [spent EXCEPT !.edits = @ + 1]
  /\ \E s \in subjects : subjects' = subjects \ {s}
  /\ UNCHANGED <<queue, hooks, history, work, received, enqueued>>

\* The process stops: the queue and the request being handled are lost.
Stop ==
  /\ spent.crashes < MaxCrashes
  /\ spent' = [spent EXCEPT !.crashes = @ + 1]
  /\ queue' = << >>
  /\ work' = Idle
  /\ UNCHANGED <<hooks, subjects, history, received, enqueued>>

Dispatch ==
  \/ Take \/ Finish \/ Record
  \/ \E h \in Hooks : Choose(h)
  \/ \E outcome \in Outcomes : Attempt(outcome)

Next == Enqueue \/ Dispatch \/ UpdateHook \/ DeleteHook \/ DeleteSubject \/ Stop

Spec == Init /\ [][Next]_vars

\* The dispatcher is a background service: what it can do, it ends up doing.  An attempt
\* ends because the HTTP client has a timeout.
FairSpec == Spec /\ WF_vars(Dispatch)

-----------------------------------------------------------------------------
(* Properties. *)

\* The point of deduplication: a webhook whose success is recorded for an episode never
\* gets that episode again, retries, re-enqueueings and stops included.
RecordedSuccessIsFinal ==
  [][\A h \in Hooks, k \in Keys :
       (\E e \in history : e.hook = h /\ e.key = k /\ e.success) =>
         received'[<<h, k>>] = received[<<h, k>>]]_vars

\* However the webhook answers, an enqueueing costs it at most MaxRetries deliveries.
DeliveriesAreBounded ==
  \A h \in Hooks, r \in Requests :
    (\A q \in Requests : Key(q) = Key(r) => q = r) =>
      received[<<h, Key(r)>>] <= enqueued[r] * AllowedAttempts

\* "Keep a notification history" (PROJECT.md): when the dispatcher is done with a
\* request, each webhook that was to get it has an entry for the episode, or is gone, or
\* came after another whose entry could not be saved.
EveryRequestIsRecorded ==
  [][(work # Idle /\ Finish) =>
       \A h \in Hooks :
         (work.loaded[h].enabled /\ Wants(work.loaded[h], work.request)
            /\ hooks[h] # Deleted) =>
           \/ \E e \in history : e.hook = h /\ e.key = Key(work.request)
           \/ \E e \in work.tracked : e.hook # h]_vars

\* "Un webhook injoignable est reessaye sans bloquer la supervision": once the passes
\* enqueue nothing more, the queue drains, whatever the webhooks answer.
QueueDrains == <>[](queue = << >> /\ work = Idle)

\* "Un meme episode n'est notifie qu'une fois par webhook" (NotificationDispatcher.cs).
NotifiedOnce == \A x \in Hooks \X Keys : received[x] <= 1
=============================================================================
