------------------------ MODULE NotificationProofs ------------------------
(***************************************************************************)
(* What TLAPS proves of NotificationDispatch, for any webhooks, requests,  *)
(* capacity of the queue, retries and answers: the table keeps one entry   *)
(* for each webhook and episode, and an episode whose success it holds is  *)
(* never sent again; the number of attempts of an episode is bounded by    *)
(* the number of times it was published; and a request that is handled to  *)
(* its end leaves a trace for each webhook that was to get it.             *)
(***************************************************************************)
EXTENDS NotificationDispatch, FiniteSetTheorems, FunctionTheorems, SequenceTheorems, TLAPS

-----------------------------------------------------------------------------
(* The inductive invariant. *)

\* A request being handled.
Handling ==
  [phase : {"choosing", "sending", "saving"}, request : Requests, hook : Hooks \union {"none"},
   loaded : [Hooks -> Configurations \union {Deleted}], todo : SUBSET Hooks,
   attempts : Nat, success : BOOLEAN, tracked : SUBSET Entries]

AtHook == work.phase \in {"sending", "saving"}

Typed ==
  /\ queue \in Seq(Requests)
  /\ Len(queue) <= Capacity
  /\ hooks \in [Hooks -> Configurations \union {Deleted}]
  /\ subjects \subseteq Subjects
  /\ history \subseteq Entries
  /\ work = Idle \/ work \in Handling
  /\ AtHook => work.hook \in Hooks \ work.todo
  /\ received \in [Hooks \X Keys -> Nat]
  /\ enqueued \in [Requests -> Nat]

SameIndex(e, f) == e.hook = f.hook /\ e.key = f.key

OneEntryEach == \A e, f \in history : SameIndex(e, f) => e = f

\* The entries that wait for the next save are those of webhooks already handled.
TrackedApart ==
  work # Idle =>
    \A e \in work.tracked :
      /\ e.key = Key(work.request) /\ e.hook \notin work.todo
      /\ AtHook => e.hook # work.hook
      /\ \A f \in work.tracked : SameIndex(e, f) => e = f

\* What is being sent has not succeeded yet: only Record adds to the history, and it is
\* the dispatcher itself that calls it.
NotYet == work.phase = "sending" => ~AlreadyNotified(work.hook, Key(work.request))

IInv == Typed /\ OneEntryEach /\ TrackedApart /\ NotYet

-----------------------------------------------------------------------------
(* The steps. *)

\* The dispatcher that handles nothing is in no phase of a request.
LEMMA IdlePhase == Idle.phase = "idle" /\ Idle \notin Handling
  BY DEF Idle, Handling

\* A request is about a subject of the history.
LEMMA KeyType == \A r \in Requests : Key(r) \in Keys
  BY DEF Keys

\* What Record writes is an entry of the history.
LEMMA EntryType ==
  \A e \in Entries : e.hook \in Hooks /\ e.key \in Keys /\ e.success \in BOOLEAN
  BY DEF Entries

\* The invariant holds at the start, with an empty queue and history.
LEMMA StartsWell == Init => IInv
<1> SUFFICES ASSUME Init
             PROVE  IInv
  OBVIOUS
<1>1. queue \in Seq(Requests) /\ Len(queue) <= Capacity
  BY CapacityAssumption DEF Init
<1>2. hooks \in [Hooks -> Configurations \union {Deleted}]
  BY DEF Init
<1>3. work = Idle /\ ~AtHook
  BY IdlePhase DEF Init, AtHook
<1>4. Typed
  BY <1>1, <1>2, <1>3 DEF Init, Typed
<1>5. QED  BY <1>3, <1>4, IdlePhase DEF Init, IInv, OneEntryEach, TrackedApart, NotYet

\* The queue alone changes, or what surrounds the dispatcher without adding to its table.
LEMMA AroundTheDispatcher ==
  ASSUME IInv, work' = work, history' \subseteq history,
         queue' \in Seq(Requests), Len(queue') <= Capacity,
         hooks' \in [Hooks -> Configurations \union {Deleted}], subjects' \subseteq subjects,
         received' = received, enqueued' \in [Requests -> Nat]
  PROVE  IInv'
<1>1. Typed'
  BY DEF IInv, Typed, AtHook
<1>2. OneEntryEach' /\ TrackedApart' /\ NotYet'
  BY DEF IInv, OneEntryEach, TrackedApart, NotYet, AtHook, AlreadyNotified
<1>3. QED  BY <1>1, <1>2 DEF IInv

\* The dispatcher has nothing at work any more.
LEMMA Rests ==
  ASSUME IInv, work' = Idle, queue' \in Seq(Requests), Len(queue') <= Capacity,
         UNCHANGED <<hooks, subjects, history, received, enqueued>>
  PROVE  IInv'
<1>1. ~AtHook'
  BY IdlePhase DEF AtHook
<1>2. Typed'
  BY <1>1 DEF IInv, Typed
<1>3. OneEntryEach' /\ TrackedApart' /\ NotYet'
  BY IdlePhase DEF IInv, OneEntryEach, TrackedApart, NotYet
<1>4. QED  BY <1>2, <1>3 DEF IInv

\* A crash, a purge and an edit of the webhooks preserve the invariant.
LEMMA QueueSteps ==
  ASSUME IInv
  PROVE  /\ \A r \in Requests : Pushed(r) \in Seq(Requests) /\ Len(Pushed(r)) <= Capacity
         /\ queue # << >> => /\ Tail(queue) \in Seq(Requests) /\ Len(Tail(queue)) <= Capacity
                             /\ Head(queue) \in Requests
<1>1. queue \in Seq(Requests) /\ Len(queue) <= Capacity /\ Len(queue) \in Nat
  BY DEF IInv, Typed
<1>2. queue # << >> => /\ Tail(queue) \in Seq(Requests) /\ Len(Tail(queue)) = Len(queue) - 1
                       /\ Head(queue) \in Requests
  BY <1>1, HeadTailProperties
<1>3. ASSUME NEW r \in Requests
      PROVE  Pushed(r) \in Seq(Requests) /\ Len(Pushed(r)) <= Capacity
  <2>1. CASE Len(queue) = Capacity
    <3>1. queue # << >>
      BY <2>1, CapacityAssumption
    <3>2. Len(Append(Tail(queue), r)) = Len(queue)
      BY <1>1, <1>2, <3>1, AppendProperties
    <3>3. QED  BY <1>1, <1>2, <2>1, <3>1, <3>2, AppendProperties DEF Pushed
  <2>2. CASE Len(queue) # Capacity
    BY <1>1, <2>2, CapacityAssumption, AppendProperties DEF Pushed
  <2>3. QED  BY <2>1, <2>2
<1>4. QED  BY <1>1, <1>2, <1>3, CapacityAssumption

\* Publishing a request, with a queue that may be full, preserves the invariant.
LEMMA EnqueueSteps == ASSUME IInv, Enqueue PROVE IInv'
<1>1. PICK r \in Requests : /\ queue' = Pushed(r)
                            /\ enqueued' = [enqueued EXCEPT ![r] = @ + 1]
  BY DEF Enqueue
<1>2. queue' \in Seq(Requests) /\ Len(queue') <= Capacity
  BY <1>1, QueueSteps
<1>3. enqueued' \in [Requests -> Nat]
  BY <1>1 DEF IInv, Typed
<1>4. QED  BY <1>2, <1>3, AroundTheDispatcher DEF Enqueue, IInv, Typed

\* Taking a request from the queue preserves the invariant.
LEMMA TakeSteps == ASSUME IInv, Take PROVE IInv'
<1>1. /\ queue' \in Seq(Requests) /\ Len(queue') <= Capacity /\ Head(queue) \in Requests
      /\ UNCHANGED <<hooks, subjects, history, received, enqueued>>
  BY QueueSteps DEF Take
<1>2. CASE Head(queue).subject \notin subjects
  BY <1>1, <1>2, Rests DEF Take
<1>3. CASE Head(queue).subject \in subjects
  <2>1. /\ work' \in Handling /\ work'.phase = "choosing" /\ work'.tracked = {}
    BY <1>1, <1>3 DEF Take, Handling, IInv, Typed
  <2>2. Typed'
    BY <1>1, <2>1 DEF IInv, Typed, AtHook
  <2>3. OneEntryEach' /\ TrackedApart' /\ NotYet'
    BY <1>1, <2>1 DEF IInv, OneEntryEach, TrackedApart, NotYet
  <2>4. QED  BY <2>2, <2>3 DEF IInv
<1>4. QED  BY <1>2, <1>3

\* Choosing a webhook, skipping it or not, preserves the invariant.
LEMMA ChooseSteps == ASSUME IInv, NEW h \in Hooks, Choose(h) PROVE IInv'
<1>1. /\ work \in Handling /\ work.phase = "choosing"
      /\ UNCHANGED <<queue, hooks, subjects, history, received, enqueued>>
  BY IdlePhase DEF IInv, Typed, Choose
<1>2. CASE work' = [work EXCEPT !.todo = @ \ {h}]
  <2>1. /\ work' \in Handling /\ work'.phase = "choosing" /\ work'.request = work.request
        /\ work'.tracked = work.tracked /\ work'.todo = work.todo \ {h}
    BY <1>1, <1>2 DEF Handling
  <2>2. Typed'
    BY <1>1, <2>1 DEF IInv, Typed, AtHook
  <2>3. OneEntryEach' /\ TrackedApart' /\ NotYet'
    BY <1>1, <2>1, IdlePhase DEF IInv, OneEntryEach, TrackedApart, NotYet, AtHook
  <2>4. QED  BY <2>2, <2>3 DEF IInv
<1>3. CASE /\ ~AlreadyNotified(h, Key(work.request))
           /\ work' = [work EXCEPT !.todo = @ \ {h}, !.phase = "sending", !.hook = h,
                                   !.attempts = 0, !.success = FALSE]
  <2>1. /\ work' \in Handling /\ work'.phase = "sending" /\ work'.request = work.request
        /\ work'.tracked = work.tracked /\ work'.todo = work.todo \ {h} /\ work'.hook = h
    BY <1>1, <1>3 DEF Handling
  <2>2. Typed'
    BY <1>1, <2>1 DEF IInv, Typed
  <2>3. TrackedApart'
    <3>1. h \in work.todo
      BY DEF Choose
    <3>2. QED  BY <1>1, <2>1, <3>1, IdlePhase DEF IInv, TrackedApart
  <2>4. OneEntryEach' /\ NotYet'
    BY <1>1, <1>3, <2>1 DEF IInv, OneEntryEach, NotYet, AlreadyNotified
  <2>5. QED  BY <2>2, <2>3, <2>4 DEF IInv
<1>4. QED  BY <1>2, <1>3 DEF Choose

\* An attempt, whatever it answers, preserves the invariant.
LEMMA AttemptSteps == ASSUME IInv, NEW outcome \in Outcomes, Attempt(outcome) PROVE IInv'
<1>1. /\ work \in Handling /\ work.phase = "sending" /\ work.hook \in Hooks \ work.todo
      /\ UNCHANGED <<queue, hooks, subjects, history, enqueued>>
  BY IdlePhase DEF IInv, Typed, AtHook, Attempt
<1>2. PICK p \in {"sending", "saving"}, b \in BOOLEAN :
        work' = [work EXCEPT !.attempts = @ + 1, !.success = b, !.phase = p]
  BY DEF Attempt
<1>3. /\ work' \in Handling /\ work'.phase = p /\ work'.request = work.request
      /\ work'.tracked = work.tracked /\ work'.todo = work.todo /\ work'.hook = work.hook
  <2>1. work'.attempts = work.attempts + 1 /\ work'.success = b /\ work'.phase = p
    BY <1>1, <1>2 DEF Handling
  <2>2. work.attempts + 1 \in Nat
    BY <1>1 DEF Handling
  <2>3. \A m \in Nat : [work EXCEPT !.attempts = m, !.success = b, !.phase = p] \in Handling
    BY <1>1 DEF Handling
  <2>4. work' = [work EXCEPT !.attempts = work.attempts + 1, !.success = b, !.phase = p]
    BY <1>2
  <2>5. work' \in Handling
    BY <2>2, <2>3, <2>4
  <2>6. /\ work'.request = work.request /\ work'.tracked = work.tracked
        /\ work'.todo = work.todo /\ work'.hook = work.hook
    BY <1>1, <2>4 DEF Handling
  <2>7. QED  BY <2>1, <2>5, <2>6
<1>4. received' \in [Hooks \X Keys -> Nat]
  <2>1. Key(work.request) \in Keys
    BY <1>1, KeyType DEF Handling
  <2>2. <<work.hook, Key(work.request)>> \in Hooks \X Keys
    BY <1>1, <2>1
  <2>3. \/ received' = received
        \/ received' = [received EXCEPT ![<<work.hook, Key(work.request)>>] = @ + 1]
    BY DEF Attempt
  <2>4. received \in [Hooks \X Keys -> Nat]
    BY DEF IInv, Typed
  <2>5. QED  BY <2>2, <2>3, <2>4
<1>5. Typed'
  BY <1>1, <1>3, <1>4 DEF IInv, Typed
<1>6. TrackedApart'
  BY <1>1, <1>3, IdlePhase DEF IInv, TrackedApart, AtHook
<1>7. OneEntryEach' /\ NotYet'
  BY <1>1, <1>3 DEF IInv, OneEntryEach, NotYet, AlreadyNotified
<1>8. QED  BY <1>5, <1>6, <1>7 DEF IInv

\* The save is taken whole or refused whole; what it writes, no index has yet.
LEMMA RecordSteps == ASSUME IInv, Record PROVE IInv'
<1> DEFINE entry == [hook |-> work.hook, key |-> Key(work.request), success |-> work.success]
<1>1. /\ work \in Handling /\ work.phase = "saving" /\ work.hook \in Hooks \ work.todo
      /\ UNCHANGED <<queue, hooks, subjects, received, enqueued>>
  BY IdlePhase DEF IInv, Typed, AtHook, Record
<1>2. ToWrite = work.tracked \union {entry} /\ work.tracked \subseteq Entries
  BY <1>1 DEF ToWrite, Handling
<1>3. /\ entry \in Entries
      /\ entry.hook = work.hook /\ entry.key = Key(work.request)
  BY <1>1, KeyType DEF Entries, Handling
<1> HIDE DEF entry
<1>4. \A e \in work.tracked :
        /\ e.key = Key(work.request) /\ e.hook \notin work.todo /\ e.hook # work.hook
        /\ \A f \in work.tracked : SameIndex(e, f) => e = f
  BY <1>1, IdlePhase DEF IInv, TrackedApart, AtHook
<1>5. \A e \in ToWrite : /\ e.key = Key(work.request) /\ e.hook \notin work.todo
                         /\ \A f \in ToWrite : SameIndex(e, f) => e = f
  BY <1>1, <1>2, <1>3, <1>4 DEF SameIndex
<1>6. /\ work' \in Handling /\ work'.phase = "choosing" /\ work'.request = work.request
      /\ work'.todo = work.todo /\ work'.tracked \in {ToWrite, {}}
  BY <1>1, <1>2, <1>3 DEF Record, Handling
<1>7. history' \subseteq Entries
  BY <1>2, <1>3 DEF Record, IInv, Typed
<1>8. Typed'
  BY <1>1, <1>6, <1>7 DEF IInv, Typed, AtHook
<1>9. OneEntryEach'
  <2>1. CASE Refused
    BY <2>1 DEF Record, IInv, OneEntryEach
  <2>2. CASE ~Refused
    <3>1. \A e \in ToWrite, f \in history : ~SameIndex(e, f) /\ ~SameIndex(f, e)
      BY <2>2 DEF Refused, SameIndex
    <3>2. history' = history \union ToWrite
      BY <2>2 DEF Record
    <3>3. QED  BY <1>5, <3>1, <3>2 DEF IInv, OneEntryEach
  <2>3. QED  BY <2>1, <2>2
<1>10. TrackedApart' /\ NotYet'
  BY <1>5, <1>6 DEF TrackedApart, NotYet, AtHook
<1>11. QED  BY <1>8, <1>9, <1>10 DEF IInv

\* The administrator, the purge and the stops.
LEMMA OtherSteps ==
  ASSUME IInv, UpdateHook \/ DeleteHook \/ DeleteSubject \/ Stop
  PROVE  IInv'
<1>1. CASE UpdateHook
  <2>1. hooks' \in [Hooks -> Configurations \union {Deleted}]
    BY <1>1 DEF UpdateHook, IInv, Typed
  <2>2. QED  BY <1>1, <2>1, AroundTheDispatcher DEF UpdateHook, IInv, Typed
<1>2. CASE DeleteHook
  <2>1. hooks' \in [Hooks -> Configurations \union {Deleted}] /\ history' \subseteq history
    BY <1>2 DEF DeleteHook, IInv, Typed
  <2>2. QED  BY <1>2, <2>1, AroundTheDispatcher DEF DeleteHook, IInv, Typed
<1>3. CASE DeleteSubject
  BY <1>3, AroundTheDispatcher DEF DeleteSubject, IInv, Typed
<1>4. CASE Stop
  <2>1. << >> \in Seq(Requests) /\ Len(<< >>) <= Capacity
    BY CapacityAssumption
  <2>2. QED  BY <1>4, <2>1, Rests DEF Stop
<1>5. QED  BY <1>1, <1>2, <1>3, <1>4

\* The invariant holds in every state.
LEMMA DispatchInvariant == Spec => []IInv
<1>1. IInv /\ [Next]_vars => IInv'
  <2> SUFFICES ASSUME IInv, [Next]_vars
               PROVE  IInv'
    OBVIOUS
  <2>1. CASE Enqueue
    BY <2>1, EnqueueSteps
  <2>2. CASE Dispatch
    <3>1. CASE Finish
      BY <3>1, Rests DEF Finish, IInv, Typed
    <3>2. QED  BY <2>2, <3>1, TakeSteps, RecordSteps, ChooseSteps, AttemptSteps DEF Dispatch
  <2>3. CASE UpdateHook \/ DeleteHook \/ DeleteSubject \/ Stop
    BY <2>3, OtherSteps
  <2>4. CASE UNCHANGED vars
    BY <2>4, AroundTheDispatcher DEF vars, IInv, Typed
  <2>5. QED  BY <2>1, <2>2, <2>3, <2>4 DEF Next
<1>2. QED  BY <1>1, StartsWell, PTL DEF Spec

-----------------------------------------------------------------------------
(* The theorems. *)

\* The types, and the unique index of the history: whatever the saves that were refused
\* and tried again, no webhook has two entries for an episode.
THEOREM DispatchIsTyped == Spec => []TypeOK
<1>1. IInv => TypeOK
  <2> SUFFICES ASSUME IInv
               PROVE  TypeOK
    OBVIOUS
  <2>1. work = Idle \/ /\ work.phase \in {"choosing", "sending", "saving"}
                       /\ work.request \in Requests
                       /\ work.tracked \subseteq Entries
    BY DEF IInv, Typed, Handling
  <2>2. \A e, f \in history : (e.hook = f.hook /\ e.key = f.key) => e = f
    BY DEF IInv, OneEntryEach, SameIndex
  <2>3. QED  BY <2>1, <2>2 DEF IInv, Typed, TypeOK
<1>2. QED  BY <1>1, DispatchInvariant, PTL

\* The deduplication: a webhook whose success is recorded for an episode never gets it
\* again, for any number of webhooks, requests, retries, edits and stops.
THEOREM SuccessIsFinal == Spec => RecordedSuccessIsFinal
<1> DEFINE Final == \A h \in Hooks, k \in Keys :
                      (\E e \in history : e.hook = h /\ e.key = k /\ e.success) =>
                        received'[<<h, k>>] = received[<<h, k>>]
<1>1. IInv /\ [Next]_vars => [Final]_vars
  <2> SUFFICES ASSUME IInv, Next
               PROVE  Final
    OBVIOUS
  <2>1. CASE received' = received
    BY <2>1
  <2>2. ASSUME NEW outcome \in Outcomes, Attempt(outcome)
        PROVE  Final
    <3> SUFFICES ASSUME NEW h \in Hooks, NEW k \in Keys, AlreadyNotified(h, k)
                 PROVE  received'[<<h, k>>] = received[<<h, k>>]
      BY DEF AlreadyNotified
    <3>1. <<h, k>> # <<work.hook, Key(work.request)>>
      BY <2>2 DEF Attempt, IInv, NotYet
    <3>2. QED  BY <2>2, <3>1 DEF Attempt, IInv, Typed
  <2>3. QED  BY <2>1, <2>2 DEF Next, Dispatch, Enqueue, Take, Finish, Record, Choose,
                               UpdateHook, DeleteHook, DeleteSubject, Stop
<1>2. QED  BY <1>1, DispatchInvariant, PTL DEF Spec, RecordedSuccessIsFinal

-----------------------------------------------------------------------------
(* How often a request is in the queue. *)

Places(s, r) == {k \in 1..Len(s) : s[k] = r}
Count(s, r) == Cardinality(Places(s, r))

\* A number of occurrences is a natural number.
LEMMA CountType ==
  ASSUME NEW S, NEW s \in Seq(S), NEW r
  PROVE  IsFiniteSet(Places(s, r)) /\ Count(s, r) \in Nat
<1>1. Len(s) \in Nat
  OBVIOUS
<1>2. IsFiniteSet(1..Len(s))
  BY <1>1, FS_Interval
<1>3. Places(s, r) \in SUBSET (1..Len(s))
  BY DEF Places
<1>4. QED  BY <1>2, <1>3, FS_Subset, FS_CardinalityType DEF Count

\* The head leaves.
LEMMA CountTail ==
  ASSUME NEW S, NEW s \in Seq(S), s # << >>, NEW r
  PROVE  Count(s, r) = Count(Tail(s), r) + IF Head(s) = r THEN 1 ELSE 0
<1> DEFINE Others == Places(s, r) \ {1}
           shift == [k \in Places(Tail(s), r) |-> k + 1]
<1>1. /\ Tail(s) \in Seq(S) /\ Len(s) \in Nat /\ Len(Tail(s)) = Len(s) - 1
      /\ \A k \in 1..Len(Tail(s)) : Tail(s)[k] = s[k + 1]
      /\ Head(s) = s[1] /\ 1 \in 1..Len(s)
  BY HeadTailProperties
<1>2. shift \in Bijection(Places(Tail(s), r), Others)
  <2>1. \A k \in Places(Tail(s), r) : k \in Int /\ k + 1 \in Others
    BY <1>1 DEF Places
  <2>2. shift \in [Places(Tail(s), r) -> Others]
    BY <2>1
  <2>3. \A k, l \in Places(Tail(s), r) : shift[k] = shift[l] => k = l
    BY <2>1
  <2>4. \A m \in Others : \E k \in Places(Tail(s), r) : shift[k] = m
    <3> SUFFICES ASSUME NEW m \in Others
                 PROVE  \E k \in Places(Tail(s), r) : shift[k] = m
      OBVIOUS
    <3>1. m \in 1..Len(s) /\ m # 1 /\ s[m] = r
      BY DEF Places
    <3>2. m - 1 \in 1..Len(Tail(s)) /\ (m - 1) + 1 = m
      BY <1>1, <3>1
    <3>3. m - 1 \in Places(Tail(s), r)
      BY <1>1, <3>1, <3>2 DEF Places
    <3>4. QED  BY <3>2, <3>3
  <2> HIDE DEF shift, Others
  <2>5. QED  BY <2>2, <2>3, <2>4, Fun_IsBij
<1>3. ExistsBijection(Places(Tail(s), r), Others)
  BY <1>2 DEF ExistsBijection
<1>4. Cardinality(Others) = Count(Tail(s), r)
  BY <1>1, <1>3, CountType, FS_Bijection DEF Count
<1>5. 1 \in Places(s, r) <=> Head(s) = r
  BY <1>1 DEF Places
<1>6. Cardinality(Others) = IF 1 \in Places(s, r) THEN Count(s, r) - 1 ELSE Count(s, r)
  BY CountType, FS_RemoveElement DEF Count
<1>7. Count(s, r) \in Nat /\ Count(Tail(s), r) \in Nat
  BY <1>1, CountType
<1>8. QED  BY <1>4, <1>5, <1>6, <1>7

\* A request is added.
LEMMA CountAppend ==
  ASSUME NEW S, NEW s \in Seq(S), NEW e \in S, NEW r
  PROVE  Count(Append(s, e), r) = Count(s, r) + IF e = r THEN 1 ELSE 0
<1>1. /\ Len(s) \in Nat /\ Len(Append(s, e)) = Len(s) + 1
      /\ \A k \in 1..Len(s) : Append(s, e)[k] = s[k]
      /\ Append(s, e)[Len(s) + 1] = e
  BY AppendProperties
<1>2. Len(s) + 1 \notin Places(s, r)
  BY <1>1 DEF Places
<1>3. IsFiniteSet(Places(s, r)) /\ Count(s, r) \in Nat
  BY CountType
<1>4. CASE e = r
  <2>1. Places(Append(s, e), r) = Places(s, r) \union {Len(s) + 1}
    BY <1>1, <1>4 DEF Places
  <2>2. Cardinality(Places(Append(s, e), r)) = Cardinality(Places(s, r)) + 1
    BY <1>2, <1>3, <2>1, FS_AddElement
  <2>3. QED  BY <1>4, <2>2 DEF Count
<1>5. CASE e # r
  <2>1. Places(Append(s, e), r) = Places(s, r)
    BY <1>1, <1>5 DEF Places
  <2>2. QED  BY <1>3, <1>5, <2>1 DEF Count
<1>6. QED  BY <1>4, <1>5

\* What is pushed adds one, the oldest request dropped or not.
LEMMA CountPushed ==
  ASSUME IInv, NEW e \in Requests, NEW r
  PROVE  Count(Pushed(e), r) <= Count(queue, r) + IF e = r THEN 1 ELSE 0
<1> DEFINE kept == IF Len(queue) = Capacity THEN Tail(queue) ELSE queue
<1>1. queue \in Seq(Requests) /\ Count(queue, r) \in Nat
  BY CountType DEF IInv, Typed
<1>2. kept \in Seq(Requests) /\ Count(kept, r) \in Nat /\ Count(kept, r) <= Count(queue, r)
  <2>1. CASE Len(queue) = Capacity
    <3>1. queue # << >>
      BY <2>1, CapacityAssumption
    <3>2. Tail(queue) \in Seq(Requests) /\ Count(Tail(queue), r) \in Nat
      BY <1>1, <3>1, HeadTailProperties, CountType
    <3>3. Count(Tail(queue), r) <= Count(queue, r)
      BY <1>1, <3>1, <3>2, CountTail
    <3>4. kept = Tail(queue)
      BY <2>1
    <3> HIDE DEF kept
    <3>5. QED  BY <3>2, <3>3, <3>4
  <2>2. CASE Len(queue) # Capacity
    <3>1. kept = queue
      BY <2>2
    <3> HIDE DEF kept
    <3>2. QED  BY <1>1, <3>1
  <2>3. QED  BY <2>1, <2>2
<1>3. Pushed(e) = Append(kept, e)
  BY DEF Pushed
<1> HIDE DEF kept
<1>4. Count(Pushed(e), r) = Count(kept, r) + IF e = r THEN 1 ELSE 0
  BY <1>2, <1>3, CountAppend
<1>5. QED  BY <1>1, <1>2, <1>4

-----------------------------------------------------------------------------
(* What the webhooks may still get. *)

\* A request that shares its episode with no other.
Only(r) == \A q \in Requests : Key(q) = Key(r) => q = r

\* The attempts that the request at work may still cost the webhook.
Left(h, r) ==
  IF work = Idle \/ work.request # r THEN 0
  ELSE IF h \in work.todo THEN AllowedAttempts
  ELSE IF work.phase = "sending" /\ work.hook = h THEN AllowedAttempts - work.attempts
  ELSE 0

\* Each enqueueing is worth AllowedAttempts: spent, left to the request at work, or kept
\* by the requests in the queue.
Budget ==
  \A h \in Hooks, r \in Requests : Only(r) =>
    received[<<h, Key(r)>>] + Left(h, r) + Count(queue, r) * AllowedAttempts
      <= enqueued[r] * AllowedAttempts

MayTry == work.phase = "sending" => work.attempts < AllowedAttempts

Bounded == Budget /\ MayTry

\* At least one attempt is allowed.
LEMMA AllowedType == AllowedAttempts \in Nat /\ AllowedAttempts >= 1
  BY DispatchBoundsAssumption DEF AllowedAttempts

\* What the proofs below use of products.
LEMMA Times ==
  ASSUME NEW m \in Nat, NEW n \in Nat, NEW k \in Nat
  PROVE  /\ m * k \in Nat
         /\ (m + 1) * k = m * k + k
         /\ m <= n => m * k <= n * k
         /\ m <= n + 1 => m * k <= n * k + k
  OBVIOUS

\* The terms of the budget are natural numbers.
LEMMA BudgetTypes ==
  ASSUME IInv, MayTry, NEW h \in Hooks, NEW r \in Requests
  PROVE  /\ received[<<h, Key(r)>>] \in Nat /\ Left(h, r) \in Nat /\ enqueued[r] \in Nat
         /\ Count(queue, r) \in Nat
         /\ Count(queue, r) * AllowedAttempts \in Nat /\ enqueued[r] * AllowedAttempts \in Nat
<1>1. received[<<h, Key(r)>>] \in Nat /\ enqueued[r] \in Nat
  BY KeyType DEF IInv, Typed
<1>2. Left(h, r) \in Nat
  BY AllowedType DEF IInv, Typed, Handling, MayTry, Left
<1>3. Count(queue, r) \in Nat
  BY CountType DEF IInv, Typed
<1>4. QED  BY <1>1, <1>2, <1>3, AllowedType, Times

\* Nothing is received, and what is left and what waits does not grow.
LEMMA BudgetKept ==
  ASSUME IInv, Bounded, received' = received, enqueued' = enqueued, MayTry',
         \A r \in Requests : Count(queue', r) \in Nat /\ Count(queue', r) <= Count(queue, r),
         \A h \in Hooks, r \in Requests : Left(h, r)' \in Nat /\ Left(h, r)' <= Left(h, r)
  PROVE  Bounded'
<1> SUFFICES ASSUME NEW h \in Hooks, NEW r \in Requests, Only(r)
             PROVE  received'[<<h, Key(r)>>] + Left(h, r)' + Count(queue', r) * AllowedAttempts
                      <= enqueued'[r] * AllowedAttempts
  BY DEF Bounded, Budget, Only
<1>1. received[<<h, Key(r)>>] + Left(h, r) + Count(queue, r) * AllowedAttempts
        <= enqueued[r] * AllowedAttempts
  BY DEF Bounded, Budget
<1>2. /\ Count(queue', r) * AllowedAttempts <= Count(queue, r) * AllowedAttempts
      /\ Count(queue', r) * AllowedAttempts \in Nat
  BY BudgetTypes, AllowedType, Times DEF Bounded
<1>3. QED  BY <1>1, <1>2, BudgetTypes DEF Bounded

\* A dispatcher at rest has nothing left to attempt.
LEMMA NothingLeft ==
  ASSUME work' = Idle
  PROVE  MayTry' /\ \A h, r : Left(h, r)' = 0
  BY IdlePhase DEF MayTry, Left

\* What is left to attempt is a natural number.
LEMMA LeftIsNat ==
  ASSUME IInv, MayTry
  PROVE  \A h \in Hooks, r \in Requests : Left(h, r) \in Nat
  BY BudgetTypes

\* What waits in the queue is a natural number of occurrences.
LEMMA WaitingIsNat ==
  ASSUME IInv
  PROVE  \A r \in Requests : Count(queue, r) \in Nat
  BY CountType DEF IInv, Typed

\* The dispatcher and its queue are left as they are.
LEMMA BudgetAlone ==
  ASSUME IInv, Bounded, UNCHANGED <<queue, work, received, enqueued>>
  PROVE  Bounded'
<1>1. MayTry' /\ \A h \in Hooks, r \in Requests : Left(h, r)' = Left(h, r)
  BY DEF Bounded, MayTry, Left
<1>2. QED  BY <1>1, BudgetKept, LeftIsNat, WaitingIsNat DEF Bounded

\* Publishing pays for the attempts to come.
LEMMA EnqueueBudget == ASSUME IInv, Bounded, Enqueue PROVE Bounded'
<1>1. PICK q \in Requests : /\ queue' = Pushed(q)
                            /\ enqueued' = [enqueued EXCEPT ![q] = @ + 1]
  BY DEF Enqueue
<1>2. MayTry' /\ \A h, r : Left(h, r)' = Left(h, r)
  BY DEF Enqueue, Bounded, MayTry, Left
<1> SUFFICES ASSUME NEW h \in Hooks, NEW r \in Requests, Only(r)
             PROVE  received'[<<h, Key(r)>>] + Left(h, r)' + Count(queue', r) * AllowedAttempts
                      <= enqueued'[r] * AllowedAttempts
  BY <1>2 DEF Bounded, Budget, Only
<1>3. received[<<h, Key(r)>>] + Left(h, r) + Count(queue, r) * AllowedAttempts
        <= enqueued[r] * AllowedAttempts
  BY DEF Bounded, Budget
<1>4. /\ received'[<<h, Key(r)>>] = received[<<h, Key(r)>>] /\ Left(h, r)' = Left(h, r)
      /\ received[<<h, Key(r)>>] \in Nat /\ Left(h, r) \in Nat /\ enqueued[r] \in Nat
      /\ Count(queue, r) * AllowedAttempts \in Nat /\ enqueued[r] * AllowedAttempts \in Nat
  BY <1>2, BudgetTypes DEF Enqueue, Bounded
<1>5. Count(queue', r) \in Nat /\ Count(queue, r) \in Nat
  BY <1>1, QueueSteps, CountType, WaitingIsNat
<1>6. Count(queue', r) <= Count(queue, r) + IF q = r THEN 1 ELSE 0
  BY <1>1, CountPushed
<1>7. CASE q = r
  <2>1. enqueued'[r] = enqueued[r] + 1
    BY <1>1, <1>7 DEF IInv, Typed
  <2>2. enqueued'[r] * AllowedAttempts = enqueued[r] * AllowedAttempts + AllowedAttempts
    BY <1>4, <2>1, AllowedType, Times
  <2>3. Count(queue', r) * AllowedAttempts <= Count(queue, r) * AllowedAttempts + AllowedAttempts
    BY <1>5, <1>6, <1>7, AllowedType, Times
  <2>4. Count(queue', r) * AllowedAttempts \in Nat
    BY <1>5, AllowedType, Times
  <2>5. QED  BY <1>3, <1>4, <2>2, <2>3, <2>4, AllowedType
<1>8. CASE q # r
  <2>1. enqueued'[r] = enqueued[r]
    BY <1>1, <1>8 DEF IInv, Typed
  <2>2. Count(queue', r) <= Count(queue, r)
    BY <1>5, <1>6, <1>8
  <2>3. /\ Count(queue', r) * AllowedAttempts <= Count(queue, r) * AllowedAttempts
        /\ Count(queue', r) * AllowedAttempts \in Nat
    BY <1>5, <2>2, AllowedType, Times
  <2>4. QED  BY <1>3, <1>4, <2>1, <2>3
<1>9. QED  BY <1>7, <1>8

\* Taking a request moves its budget from the queue to the work.
LEMMA TakeBudget == ASSUME IInv, Bounded, Take PROVE Bounded'
<1>1. /\ work = Idle /\ queue # << >> /\ queue' = Tail(queue) /\ Head(queue) \in Requests
      /\ received' = received /\ enqueued' = enqueued
  BY QueueSteps DEF Take
<1>2. MayTry'
  BY IdlePhase DEF Take, MayTry
<1>3. \A h \in Hooks, r \in Requests :
        Left(h, r)' \in {0, AllowedAttempts} /\ (Left(h, r)' # 0 => Head(queue) = r)
  BY DEF Take, Left
<1> SUFFICES ASSUME NEW h \in Hooks, NEW r \in Requests, Only(r)
             PROVE  received'[<<h, Key(r)>>] + Left(h, r)' + Count(queue', r) * AllowedAttempts
                      <= enqueued'[r] * AllowedAttempts
  BY <1>2 DEF Bounded, Budget, Only
<1>4. received[<<h, Key(r)>>] + Left(h, r) + Count(queue, r) * AllowedAttempts
        <= enqueued[r] * AllowedAttempts
  BY DEF Bounded, Budget
<1>5. /\ received[<<h, Key(r)>>] \in Nat /\ Left(h, r) \in Nat
      /\ Count(queue, r) \in Nat
      /\ Count(queue, r) * AllowedAttempts \in Nat /\ enqueued[r] * AllowedAttempts \in Nat
  BY BudgetTypes DEF Bounded
<1>6. Count(queue', r) \in Nat
  BY <1>1, QueueSteps, CountType
<1>7. Count(queue, r) = Count(queue', r) + IF Head(queue) = r THEN 1 ELSE 0
  BY <1>1, CountTail DEF IInv, Typed
<1>8. CASE Head(queue) = r
  <2>1. Count(queue, r) * AllowedAttempts = Count(queue', r) * AllowedAttempts + AllowedAttempts
    BY <1>6, <1>7, <1>8, AllowedType, Times
  <2>2. Count(queue', r) * AllowedAttempts \in Nat
    BY <1>6, AllowedType, Times
  <2>3. Left(h, r)' \in Nat /\ Left(h, r)' <= AllowedAttempts
    BY <1>3, AllowedType
  <2>4. received[<<h, Key(r)>>] + (Count(queue', r) * AllowedAttempts + AllowedAttempts)
          <= enqueued[r] * AllowedAttempts
    BY <1>4, <1>5, <2>1
  <2>5. received[<<h, Key(r)>>] + Left(h, r)' + Count(queue', r) * AllowedAttempts
          <= enqueued[r] * AllowedAttempts
    BY <1>5, <2>2, <2>3, <2>4, AllowedType
  <2>6. QED  BY <1>1, <2>5
<1>9. CASE Head(queue) # r
  <2>1. Left(h, r)' = 0 /\ Count(queue', r) = Count(queue, r)
    BY <1>3, <1>6, <1>7, <1>9
  <2>2. QED  BY <1>1, <1>4, <1>5, <2>1
<1>10. QED  BY <1>8, <1>9

\* Choosing a webhook spends nothing.
LEMMA ChooseBudget == ASSUME IInv, Bounded, IInv', NEW g \in Hooks, Choose(g) PROVE Bounded'
<1>1. /\ work \in Handling /\ work.phase = "choosing" /\ g \in work.todo
      /\ UNCHANGED <<queue, received, enqueued>>
  BY IdlePhase DEF IInv, Typed, Choose
<1>2. /\ work'.request = work.request /\ work'.todo = work.todo \ {g}
      /\ \/ work'.phase = "choosing"
         \/ work'.phase = "sending" /\ work'.hook = g /\ work'.attempts = 0
  BY <1>1 DEF Choose, Handling
<1>3. MayTry'
  BY <1>2, AllowedType DEF MayTry
<1>4. \A h \in Hooks, r \in Requests : Left(h, r)' <= Left(h, r)
  <2> SUFFICES ASSUME NEW h \in Hooks, NEW r \in Requests
               PROVE  Left(h, r)' <= Left(h, r)
    OBVIOUS
  <2>1. work # Idle /\ work' # Idle
    BY <1>1, <1>2, IdlePhase
  <2>2. CASE work.request # r
    BY <1>2, <2>1, <2>2 DEF Left
  <2>3. CASE work.request = r /\ h = g
    BY <1>1, <1>2, <2>1, <2>3, AllowedType DEF Left
  <2>4. CASE work.request = r /\ h # g
    BY <1>1, <1>2, <2>1, <2>4, AllowedType DEF Left
  <2>5. QED  BY <2>2, <2>3, <2>4
<1>5. \A h \in Hooks, r \in Requests : Left(h, r)' \in Nat
  BY <1>2, AllowedType DEF Left
<1>6. QED  BY <1>1, <1>3, <1>4, <1>5, BudgetKept, WaitingIsNat DEF Bounded

\* An attempt spends one of those left.
LEMMA AttemptBudget ==
  ASSUME IInv, Bounded, NEW outcome \in Outcomes, Attempt(outcome)
  PROVE  Bounded'
<1>1. /\ work \in Handling /\ work.phase = "sending" /\ work.hook \in Hooks \ work.todo
      /\ work.request \in Requests /\ work.attempts \in Nat
      /\ queue' = queue /\ enqueued' = enqueued
  BY IdlePhase DEF IInv, Typed, AtHook, Attempt, Handling
<1>2. work.attempts < AllowedAttempts
  BY <1>1 DEF Bounded, MayTry
<1>3. /\ work'.request = work.request /\ work'.todo = work.todo /\ work'.hook = work.hook
      /\ work'.attempts = work.attempts + 1
      /\ work'.phase \in {"sending", "saving"}
      /\ work'.phase = "sending" => work.attempts + 1 < AllowedAttempts
  BY <1>1, AllowedType DEF Attempt, GivesUp, Handling
<1>4. MayTry'
  BY <1>3 DEF MayTry
<1>5. work # Idle /\ work' # Idle
  BY <1>1, <1>3, IdlePhase
<1> SUFFICES ASSUME NEW h \in Hooks, NEW r \in Requests, Only(r)
             PROVE  received'[<<h, Key(r)>>] + Left(h, r)' + Count(queue', r) * AllowedAttempts
                      <= enqueued'[r] * AllowedAttempts
  BY <1>4 DEF Bounded, Budget, Only
<1>6. received[<<h, Key(r)>>] + Left(h, r) + Count(queue, r) * AllowedAttempts
        <= enqueued[r] * AllowedAttempts
  BY DEF Bounded, Budget
<1>7. /\ received[<<h, Key(r)>>] \in Nat /\ Left(h, r) \in Nat
      /\ Count(queue, r) * AllowedAttempts \in Nat /\ enqueued[r] * AllowedAttempts \in Nat
  BY BudgetTypes DEF Bounded
<1>8. CASE h = work.hook /\ r = work.request
  <2>1. Left(h, r) = AllowedAttempts - work.attempts
    BY <1>1, <1>5, <1>8 DEF Left
  <2>2. Left(h, r)' \in {0, AllowedAttempts - (work.attempts + 1)}
    BY <1>1, <1>3, <1>5, <1>8 DEF Left
  <2>3. /\ received'[<<h, Key(r)>>] \in {received[<<h, Key(r)>>], received[<<h, Key(r)>>] + 1}
    BY <1>8, KeyType DEF Attempt, IInv, Typed
  <2>4. received'[<<h, Key(r)>>] + Left(h, r)' <= received[<<h, Key(r)>>] + Left(h, r)
    BY <1>1, <1>2, <1>7, <2>1, <2>2, <2>3, AllowedType
  <2>5. received'[<<h, Key(r)>>] \in Nat /\ Left(h, r)' \in Nat
    BY <1>1, <1>2, <1>7, <2>2, <2>3, AllowedType
  <2>6. QED  BY <1>1, <1>6, <1>7, <2>4, <2>5
<1>9. CASE ~(h = work.hook /\ r = work.request)
  <2>1. <<h, Key(r)>> # <<work.hook, Key(work.request)>>
    BY <1>1, <1>9 DEF Only
  <2>2. received'[<<h, Key(r)>>] = received[<<h, Key(r)>>]
    BY <2>1, KeyType DEF Attempt, IInv, Typed
  <2>3. Left(h, r)' = Left(h, r)
    BY <1>1, <1>3, <1>5, <1>9 DEF Left
  <2>4. QED  BY <1>1, <1>6, <1>7, <2>2, <2>3
<1>10. QED  BY <1>8, <1>9

\* Recording an outcome gives nothing back.
LEMMA RecordBudget == ASSUME IInv, Bounded, Record PROVE Bounded'
<1>1. /\ work \in Handling /\ work.phase = "saving"
      /\ UNCHANGED <<queue, received, enqueued>>
  BY IdlePhase DEF IInv, Typed, Record
<1>2. work'.request = work.request /\ work'.todo = work.todo /\ work'.phase = "choosing"
  BY <1>1 DEF Record, Handling
<1>3. MayTry' /\ work # Idle /\ work' # Idle
  BY <1>1, <1>2, IdlePhase DEF MayTry
<1>4. \A h \in Hooks, r \in Requests : Left(h, r)' = Left(h, r)
  BY <1>1, <1>2, <1>3 DEF Left
<1>5. QED  BY <1>1, <1>3, <1>4, BudgetKept, LeftIsNat, WaitingIsNat DEF Bounded

\* The request at work is done with, or the process stops.
LEMMA RestBudget == ASSUME IInv, Bounded, Finish \/ Stop PROVE Bounded'
<1>1. received' = received /\ enqueued' = enqueued /\ work' = Idle
  BY DEF Finish, Stop
<1>2. \A r \in Requests : Count(queue', r) \in Nat /\ Count(queue', r) <= Count(queue, r)
  <2> SUFFICES ASSUME NEW r \in Requests
               PROVE  Count(queue', r) \in Nat /\ Count(queue', r) <= Count(queue, r)
    OBVIOUS
  <2>1. CASE queue' = queue
    BY <2>1, WaitingIsNat
  <2>2. CASE queue' = << >>
    <3>1. Places(queue', r) = {}
      BY <2>2 DEF Places
    <3>2. QED  BY <3>1, WaitingIsNat, FS_EmptySet DEF Count
  <2>3. QED  BY <2>1, <2>2 DEF Finish, Stop
<1>3. MayTry' /\ \A h \in Hooks, r \in Requests : Left(h, r)' \in Nat /\ Left(h, r)' <= Left(h, r)
  BY <1>1, NothingLeft, LeftIsNat DEF Bounded
<1>4. QED  BY <1>1, <1>2, <1>3, BudgetKept

\* However the webhook answers, an enqueueing costs it at most MaxRetries deliveries, for
\* any number of webhooks, requests, retries, edits and stops.
THEOREM DeliveriesBounded == Spec => []DeliveriesAreBounded
<1>1. Init => Bounded
  <2> SUFFICES ASSUME Init
               PROVE  Bounded
    OBVIOUS
  <2>1. MayTry /\ \A h, r : Left(h, r) = 0
    BY IdlePhase DEF Init, MayTry, Left
  <2>2. \A r : Count(queue, r) = 0
    BY FS_EmptySet DEF Init, Count, Places
  <2>3. 0 * AllowedAttempts = 0
    BY AllowedType
  <2>4. QED  BY <2>1, <2>2, <2>3, KeyType DEF Init, Bounded, Budget
<1>2. IInv /\ IInv' /\ Bounded /\ [Next]_vars => Bounded'
  <2> SUFFICES ASSUME IInv, IInv', Bounded, [Next]_vars
               PROVE  Bounded'
    OBVIOUS
  <2>1. CASE Enqueue
    BY <2>1, EnqueueBudget
  <2>2. CASE Dispatch
    BY <2>2, TakeBudget, RestBudget, RecordBudget, ChooseBudget, AttemptBudget DEF Dispatch
  <2>3. CASE UpdateHook \/ DeleteHook \/ DeleteSubject \/ UNCHANGED vars
    BY <2>3, BudgetAlone DEF UpdateHook, DeleteHook, DeleteSubject, vars
  <2>4. CASE Stop
    BY <2>4, RestBudget
  <2>5. QED  BY <2>1, <2>2, <2>3, <2>4 DEF Next
<1>3. IInv /\ Bounded => DeliveriesAreBounded
  <2> SUFFICES ASSUME IInv, Bounded, NEW h \in Hooks, NEW r \in Requests, Only(r)
               PROVE  received[<<h, Key(r)>>] <= enqueued[r] * AllowedAttempts
    BY DEF DeliveriesAreBounded, Only
  <2>1. received[<<h, Key(r)>>] + Left(h, r) + Count(queue, r) * AllowedAttempts
          <= enqueued[r] * AllowedAttempts
    BY DEF Bounded, Budget
  <2>2. QED  BY <2>1, BudgetTypes DEF Bounded
<1>4. QED  BY <1>1, <1>2, <1>3, DispatchInvariant, PTL DEF Spec
-----------------------------------------------------------------------------
(* What is left of a request. *)

\* What may stand for the entry of a webhook for the request at work.
Traced(h) ==
  \/ hooks[h] = Deleted
  \/ \E e \in history : e.hook = h /\ e.key = Key(work.request)
  \/ \E e \in work.tracked : e.hook # h

\* The webhooks that were to get the request at work wait, are being handled, or left a
\* trace.
Accounted ==
  \A h \in Hooks :
    (work.loaded[h].enabled /\ Wants(work.loaded[h], work.request)) =>
      \/ h \in work.todo
      \/ AtHook /\ work.hook = h
      \/ Traced(h)

\* One of the entries that wait was refused for good, so they go on waiting.
Blocked ==
  work.tracked # {} =>
    \E e \in work.tracked : \/ hooks[e.hook] = Deleted
                            \/ \E f \in history : f.hook = e.hook /\ f.key = e.key

Traceable == work # Idle => Accounted /\ Blocked

\* Beside the dispatcher, only DeleteHook takes entries away, with their webhook.
LEMMA TracesAround ==
  ASSUME IInv, Traceable, work' = work,
         \A h \in Hooks : hooks[h] = Deleted => hooks'[h] = Deleted,
         \A e \in history : e \in history' \/ hooks'[e.hook] = Deleted
  PROVE  Traceable'
<1> SUFFICES ASSUME work # Idle
             PROVE  Accounted' /\ Blocked'
  BY DEF Traceable
<1>1. Accounted /\ Blocked /\ work \in Handling /\ history \subseteq Entries
  BY DEF Traceable, IInv, Typed
<1>2. \A h \in Hooks : Traced(h) => Traced(h)'
  BY <1>1, EntryType DEF Traced
<1>3. Accounted'
  BY <1>1, <1>2 DEF Accounted, AtHook
<1>4. \A e \in work.tracked : e.hook \in Hooks
  BY <1>1, EntryType DEF Handling
<1>5. Blocked'
  BY <1>1, <1>4, EntryType DEF Blocked
<1>6. QED  BY <1>3, <1>5

\* A step of the dispatcher that saves nothing.
LEMMA TracesKept ==
  ASSUME IInv, Traceable, work \in Handling,
         Take \/ Finish \/ (\E h \in Hooks : Choose(h)) \/ (\E outcome \in Outcomes : Attempt(outcome))
  PROVE  Traceable'
<1>1. UNCHANGED <<hooks, history>> /\ Accounted /\ Blocked /\ work # Idle
  BY IdlePhase DEF Take, Finish, Choose, Attempt, Traceable
<1>2. ASSUME NEW h \in Hooks, Choose(h)
      PROVE  Traceable'
  <2>1. work.phase = "choosing"
    BY <1>2 DEF Choose
  <2>2. CASE /\ ~Wants(work.loaded[h], work.request) \/ AlreadyNotified(h, Key(work.request))
             /\ work' = [work EXCEPT !.todo = @ \ {h}]
    <3>1. /\ work'.loaded = work.loaded /\ work'.request = work.request
          /\ work'.todo = work.todo \ {h} /\ work'.tracked = work.tracked
      BY <2>2 DEF Handling
    <3>2. \A g \in Hooks : Traced(g) => Traced(g)'
      BY <1>1, <3>1 DEF Traced
    <3>3. AlreadyNotified(h, Key(work.request)) => Traced(h)'
      BY <1>1, <3>1 DEF Traced, AlreadyNotified
    <3>4. Accounted' /\ Blocked'
      BY <1>1, <2>1, <2>2, <3>1, <3>2, <3>3 DEF Accounted, Blocked, AtHook, Wants
    <3>5. QED  BY <3>4 DEF Traceable
  <2>3. CASE work' = [work EXCEPT !.todo = @ \ {h}, !.phase = "sending", !.hook = h,
                                  !.attempts = 0, !.success = FALSE]
    <3>1. /\ work'.loaded = work.loaded /\ work'.request = work.request
          /\ work'.todo = work.todo \ {h} /\ work'.tracked = work.tracked
          /\ work'.phase = "sending" /\ work'.hook = h
      BY <2>3 DEF Handling
    <3>2. \A g \in Hooks : Traced(g) => Traced(g)'
      BY <1>1, <3>1 DEF Traced
    <3>3. Accounted' /\ Blocked'
      BY <1>1, <2>1, <3>1, <3>2 DEF Accounted, Blocked, AtHook, Wants
    <3>4. QED  BY <3>3 DEF Traceable
  <2>4. QED  BY <1>2, <2>2, <2>3 DEF Choose
<1>3. ASSUME NEW outcome \in Outcomes, Attempt(outcome)
      PROVE  Traceable'
  <2>1. /\ work'.loaded = work.loaded /\ work'.request = work.request
        /\ work'.todo = work.todo /\ work'.tracked = work.tracked
        /\ work'.phase \in {"sending", "saving"} /\ work'.hook = work.hook
    BY <1>3 DEF Attempt, Handling
  <2>2. \A g \in Hooks : Traced(g) => Traced(g)'
    BY <1>1, <2>1 DEF Traced
  <2>3. Accounted' /\ Blocked'
    BY <1>1, <2>1, <2>2 DEF Accounted, Blocked, AtHook, Wants
  <2>4. QED  BY <2>3 DEF Traceable
<1>4. CASE Take
  BY <1>1, <1>4 DEF Take
<1>5. CASE Finish
  BY <1>5 DEF Finish, Traceable
<1>6. QED  BY <1>2, <1>3, <1>4, <1>5

\* A save that is refused leaves its entries, which go on being refused; one that is
\* taken had nothing of another webhook before it.
LEMMA TracesRecorded == ASSUME IInv, Traceable, Record PROVE Traceable'
<1> DEFINE entry == [hook |-> work.hook, key |-> Key(work.request), success |-> work.success]
<1>1. /\ work \in Handling /\ work.phase = "saving" /\ AtHook /\ UNCHANGED hooks
      /\ Accounted /\ Blocked
  BY IdlePhase DEF IInv, Typed, AtHook, Record, Traceable
<1>2. ToWrite = work.tracked \union {entry} /\ entry.hook = work.hook /\ entry.key = Key(work.request)
  BY DEF ToWrite
<1> HIDE DEF entry
<1>3. /\ work'.loaded = work.loaded /\ work'.request = work.request /\ work'.todo = work.todo
      /\ work'.phase = "choosing" /\ work'.tracked = IF Refused THEN ToWrite ELSE {}
  BY <1>1 DEF Record, Handling
<1>4. work.tracked # {} => Refused
  BY <1>1, <1>2 DEF Blocked, Refused
<1>5. Blocked'
  BY <1>1, <1>3 DEF Blocked, Refused, Record
<1>6. ASSUME NEW h \in Hooks, work.hook = h
      PROVE  Traced(h)'
  <2>1. CASE Refused
    <3>1. PICK e \in ToWrite : \/ hooks[e.hook] = Deleted
                               \/ \E f \in history : f.hook = e.hook /\ f.key = e.key
      BY <2>1 DEF Refused
    <3>2. CASE e.hook # h
      BY <1>3, <2>1, <3>2 DEF Traced
    <3>3. CASE e.hook = h
      <4>1. e.key = Key(work.request)
        <5>1. \A d \in work.tracked : d.key = Key(work.request)
          BY <1>1, IdlePhase DEF IInv, TrackedApart
        <5>2. QED  BY <1>2, <5>1
      <4>2. history' = history
        BY <2>1 DEF Record
      <4>3. QED  BY <1>1, <1>3, <3>1, <3>3, <4>1, <4>2 DEF Traced
    <3>4. QED  BY <3>2, <3>3
  <2>2. CASE ~Refused
    <3>1. entry \in history'
      BY <1>2, <2>2 DEF Record
    <3>2. QED  BY <1>2, <1>3, <1>6, <3>1 DEF Traced
  <2>3. QED  BY <2>1, <2>2
<1>7. ASSUME NEW h \in Hooks, Traced(h)
      PROVE  Traced(h)'
  <2>1. history \subseteq history'
    BY DEF Record
  <2>2. \A e \in work.tracked : e \in work'.tracked
    BY <1>2, <1>3, <1>4
  <2>3. QED  BY <1>1, <1>3, <1>7, <2>1, <2>2 DEF Traced
<1>8. Accounted'
  BY <1>1, <1>3, <1>6, <1>7 DEF Accounted, AtHook, Wants
<1>9. QED  BY <1>5, <1>8 DEF Traceable

\* The traces are kept by every step.
LEMMA TracesInvariant == Spec => []Traceable
<1>1. IInv /\ Traceable /\ [Next]_vars => Traceable'
  <2> SUFFICES ASSUME IInv, Traceable, [Next]_vars
               PROVE  Traceable'
    OBVIOUS
  <2>1. CASE Enqueue \/ DeleteSubject \/ UNCHANGED vars
    BY <2>1, TracesAround DEF Enqueue, DeleteSubject, vars
  <2>2. CASE UpdateHook
    <3>1. \A h \in Hooks : hooks[h] = Deleted => hooks'[h] = Deleted
      BY <2>2 DEF UpdateHook, IInv, Typed
    <3>2. QED  BY <2>2, <3>1, TracesAround DEF UpdateHook
  <2>3. CASE DeleteHook
    <3>1. /\ \A h \in Hooks : hooks[h] = Deleted => hooks'[h] = Deleted
          /\ \A e \in history : e \in history' \/ hooks'[e.hook] = Deleted
      BY <2>3 DEF DeleteHook, IInv, Typed
    <3>2. QED  BY <2>3, <3>1, TracesAround DEF DeleteHook
  <2>4. CASE Stop
    BY <2>4 DEF Stop, Traceable
  <2>5. CASE Record
    BY <2>5, TracesRecorded
  <2>6. CASE Take
    <3>1. CASE work' = Idle
      BY <3>1 DEF Traceable
    <3>2. CASE work' = [phase |-> "choosing", request |-> Head(queue), hook |-> "none",
                        loaded |-> hooks, todo |-> {h \in Hooks : hooks[h].enabled},
                        attempts |-> 0, success |-> FALSE, tracked |-> {}]
      BY <3>2 DEF Traceable, Accounted, Blocked
    <3>3. QED  BY <2>6, <3>1, <3>2 DEF Take
  <2>7. CASE Dispatch /\ ~Take /\ ~Record
    <3>1. work \in Handling
      BY <2>7, IdlePhase DEF Dispatch, Finish, Choose, Attempt, IInv, Typed
    <3>2. QED  BY <2>7, <3>1, TracesKept DEF Dispatch
  <2>8. QED  BY <2>1, <2>2, <2>3, <2>4, <2>5, <2>6, <2>7 DEF Next
<1>2. Init => Traceable
  BY DEF Init, Traceable
<1>3. QED  BY <1>1, <1>2, DispatchInvariant, PTL DEF Spec

\* "Keep a notification history": a request handled to its end leaves an entry for each
\* webhook that was to get it, unless a refused save of another stood in its way.
THEOREM RequestsAreRecorded == Spec => EveryRequestIsRecorded
<1> DEFINE Recorded == (work # Idle /\ Finish) =>
             \A h \in Hooks :
               (work.loaded[h].enabled /\ Wants(work.loaded[h], work.request)
                  /\ hooks[h] # Deleted) =>
                 \/ \E e \in history : e.hook = h /\ e.key = Key(work.request)
                 \/ \E e \in work.tracked : e.hook # h
<1>1. Traceable => Recorded
  BY DEF Traceable, Accounted, Traced, Finish, AtHook
<1>2. Traceable /\ [Next]_vars => [Recorded]_vars
  BY <1>1
<1>3. QED  BY <1>2, TracesInvariant, PTL DEF Spec, EveryRequestIsRecorded
=============================================================================
