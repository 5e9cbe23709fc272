---------------------------- MODULE WebAppProofs ----------------------------
(***************************************************************************)
(* What TLAPS proves of the front-end, for any findings, rules, instances, *)
(* webhooks and accounts, any number of gestures, requests and failures,   *)
(* and any order of the answers: an answer is about what the operator      *)
(* reads beside it, a gesture on the card of a rule changes its own half   *)
(* of an override, what arrives is told once, each page shows what the     *)
(* server holds once nothing is under way, and what is typed is kept.  One *)
(* page is mounted at a time, and keeps inductive invariants of its own:   *)
(* those of PagesProofs, and here those of what the other pages show and   *)
(* of what is typed in them.                                               *)
(***************************************************************************)
EXTENDS WebApp, PagesProofs

-----------------------------------------------------------------------------
(* What is read after an event was lost says what it would have made the page read: the requests
   that come after it, being served in their order, are served later still. *)

ServedInOrder(q) == \A j, k \in DOMAIN q : j < k /\ q[j].phase = "sent" => q[k].phase = "sent"

\* One that is sent is the last to be served.
LEMMA OrderSent ==
  ASSUME Queue(calls), ServedInOrder(calls),
         \/ calls' = calls
         \/ \E n : Shaped(n) /\ n.phase = "sent" /\ (calls' = calls \o <<n>> \/ calls' = Append(calls, n))
  PROVE  ServedInOrder(calls')
<1>1. CASE calls' = calls
  BY <1>1 DEF ServedInOrder
<1>2. ASSUME NEW n, Shaped(n), n.phase = "sent", calls' = calls \o <<n>> \/ calls' = Append(calls, n)
      PROVE  ServedInOrder(calls')
  <2>1. /\ Len(calls) \in Nat /\ DOMAIN calls = 1..Len(calls) /\ DOMAIN calls' = 1..(Len(calls) + 1)
        /\ \A j \in DOMAIN calls : calls'[j] = calls[j]
        /\ calls'[Len(calls) + 1] = n
    BY <1>2, OneSent
  <2>2. ASSUME NEW j \in DOMAIN calls', NEW k \in DOMAIN calls', j < k, calls'[j].phase = "sent"
        PROVE  calls'[k].phase = "sent"
    <3>1. CASE k = Len(calls) + 1
      BY <1>2, <2>1, <3>1
    <3>2. CASE k # Len(calls) + 1
      <4>1. j \in DOMAIN calls /\ k \in DOMAIN calls
        BY <2>1, <2>2, <3>2
      <4> QED BY <2>1, <2>2, <4>1 DEF ServedInOrder
    <3> QED BY <3>1, <3>2
  <2> QED BY <2>2 DEF ServedInOrder
<1> QED BY <1>1, <1>2

\* The first that waits is served, or refused.
LEMMA OrderServed ==
  ASSUME Queue(calls), ServedInOrder(calls), NEW k \in DOMAIN calls, NEW phase, NEW reply, Becomes(k, phase, reply),
         phase # "sent", \A j \in 1..(k - 1) : calls[j].phase # "sent"
  PROVE  ServedInOrder(calls')
<1>1. /\ Len(calls) \in Nat /\ DOMAIN calls = 1..Len(calls) /\ DOMAIN calls' = DOMAIN calls
      /\ \A j \in DOMAIN calls : j # k => calls'[j] = calls[j]
      /\ calls'[k].phase = phase
  BY OneServed
<1>2. ASSUME NEW i \in DOMAIN calls', NEW j \in DOMAIN calls', i < j, calls'[i].phase = "sent"
      PROVE  calls'[j].phase = "sent"
  <2>1. i # k /\ i \in DOMAIN calls /\ j \in DOMAIN calls /\ calls[i].phase = "sent"
    BY <1>1, <1>2
  <2>2. ~(i < k)
    BY <1>1, <2>1
  <2>3. j # k
    BY <1>1, <1>2, <2>1, <2>2
  <2> QED BY <1>1, <1>2, <2>1, <2>3 DEF ServedInOrder
<1> QED BY <1>2 DEF ServedInOrder

\* The first leaves, and may ask something.
LEMMA OrderAnswered ==
  ASSUME Queue(calls), ServedInOrder(calls), 1 \in DOMAIN calls, NEW n,
         calls' = Others(1) \o << >> \/ (Shaped(n) /\ n.phase = "sent" /\ calls' = Others(1) \o <<n>>)
  PROVE  ServedInOrder(calls')
<1>1. Len(calls) \in Nat \ {0} /\ DOMAIN calls = 1..Len(calls)
  BY QueueNumbers
<1>2. \A i \in DOMAIN calls' : i \in 1..Len(calls)
  BY Answers
<1>3. \A i \in DOMAIN calls' :
        \/ Came(1, i) \in DOMAIN calls /\ calls'[i] = calls[Came(1, i)]
        \/ i = Len(calls) /\ calls'[i].phase = "sent"
  <2>1. CASE calls' = Others(1) \o << >>
    BY <2>1, OneAnswered
  <2>2. CASE Shaped(n) /\ n.phase = "sent" /\ calls' = Others(1) \o <<n>>
    BY <2>2, Answers
  <2> QED BY <2>1, <2>2
<1>4. \A i \in DOMAIN calls' : Came(1, i) = i + 1
  BY <1>2 DEF Came
<1>7. ASSUME NEW j \in DOMAIN calls', NEW k \in DOMAIN calls', j < k, calls'[j].phase = "sent"
      PROVE  calls'[k].phase = "sent"
  <2>1. CASE k = Len(calls) /\ calls'[k].phase = "sent"
    BY <2>1
  <2>2. CASE k + 1 \in DOMAIN calls /\ calls'[k] = calls[k + 1]
    <3>1. j + 1 \in DOMAIN calls /\ calls'[j] = calls[j + 1]
      BY <1>1, <1>2, <1>3, <1>4, <1>7, <2>2
    <3>2. j + 1 < k + 1 /\ calls[j + 1].phase = "sent"
      BY <1>1, <1>2, <1>7, <3>1
    <3>3. calls[k + 1].phase = "sent"
      BY <2>2, <3>1, <3>2 DEF ServedInOrder
    <3> QED BY <2>2, <3>3
  <2> QED BY <1>3, <1>4, <2>1, <2>2
<1> QED BY <1>7 DEF ServedInOrder

\* The first of the readings that wait brings the truth, and those that come after will.
LEMMA ListCaughtUp ==
  ASSUME Queue(calls), NEW k \in DOMAIN calls, NEW truth, Becomes(k, "done", truth),
         calls[k].op = "load", calls[k].phase = "sent", ServedInOrder(calls), NEW acts, NEW rows
  PROVE  ListTrue(calls', acts, truth, rows)
<1>1. /\ Len(calls) \in Nat /\ DOMAIN calls = 1..Len(calls) /\ DOMAIN calls' = DOMAIN calls
      /\ \A j \in DOMAIN calls : calls'[j].op = calls[j].op
      /\ \A j \in DOMAIN calls : j # k => calls'[j] = calls[j]
      /\ calls'[k].reply = truth
  BY OneServed
<1>2. Asks(calls', "load") = Asks(calls, "load") /\ k \in Asks(calls, "load")
  BY <1>1 DEF Asks
<1>3. ASSUME NEW j \in Last(Asks(calls, "load")), calls'[j].phase = "done" PROVE calls'[j].reply = truth
  <2>1. j \in DOMAIN calls /\ k <= j
    BY <1>2 DEF Last, Asks
  <2>2. CASE j # k
    <3>1. k < j
      BY <1>1, <2>1, <2>2
    <3>2. calls[j].phase = "sent"
      BY <2>1, <3>1 DEF ServedInOrder
    <3> QED BY <1>1, <1>3, <2>1, <2>2, <3>2
  <2> QED BY <1>1, <2>2
<1>4. \A j \in Last(Asks(calls, "load")) : j \in DOMAIN calls'
  BY <1>1 DEF Last, Asks
<1> QED BY <1>2, <1>3, <1>4 DEF ListTrue, Fresh

-----------------------------------------------------------------------------
(* The instances: the list is that of the server, and a secret stays. *)

InstancesRows == [id \in DOMAIN server.rows |-> Targets!Row(server.rows[id])]
InstancesActs == {"save", "remove"}

\* Unless an event is on its way, or was lost since, or another administrator acted.
InstancesTrue ==
  InStep => /\ ListRead(calls) /\ ServedInOrder(calls)
            /\ server.event = Targets!None /\ ~spent.others => ListTrue(calls, InstancesActs, InstancesRows, view.rows)

InstancesServer ==
  /\ DOMAIN server = {"rows", "used", "event"}
  /\ DOMAIN server.rows \subseteq server.used /\ server.used \subseteq Ids
  /\ \A id \in DOMAIN server.rows : DOMAIN server.rows[id] = {"name", "target", "secret", "state"}
InstancesSpent == Counted /\ {"others", "typed", "first"} \subseteq DOMAIN spent

\* Whatever is saved, or is about to be, has the secret of before.
InstancesSecret ==
  /\ spent.first \subseteq server.used
  /\ \A one \in spent.first : one \notin spent.typed =>
       /\ one \in DOMAIN server.rows => server.rows[one].secret = "s1"
       /\ \A k \in DOMAIN calls : calls[k].op = "save" /\ calls[k].arg.id = one => calls[k].arg.password = Targets!Blank
       /\ view.form # Targets!NoForm => (view.form.id = one => view.form.password = Targets!Blank)

InstancesQuiet == InstancesServer /\ InstancesSpent /\ InstancesTrue /\ InstancesSecret

\* The page opens on its first reading.
LEMMA InstancesQuietInit == Targets!Init => InstancesQuiet
<1> SUFFICES ASSUME Targets!Init PROVE InstancesQuiet
  OBVIOUS
<1>4. PICK ids \in SUBSET Ids :
        /\ server = [rows |-> [id \in ids |-> [name |-> id, target |-> "here", secret |-> "s1", state |-> "idle"]],
                   used |-> ids, event |-> Targets!None]
        /\ Targets!Unspent([others |-> FALSE, typed |-> {}, first |-> ids])
  BY DEF Targets!Init
<1>1. InstancesSpent /\ spent.first = ids
  <2> DEFINE h == [others |-> FALSE, typed |-> {}, first |-> ids]
  <2>1. PICK ordered \in OrdersOn("instances") :
          spent = LET bounds == [moves |-> 0, faults |-> 0, inOrder |-> ordered]
                  IN  [x \in DOMAIN bounds \union DOMAIN h |-> IF x \in DOMAIN bounds THEN bounds[x] ELSE h[x]]
    BY <1>4 DEF Targets!Unspent
  <2>2. DOMAIN h = {"others", "typed", "first"} /\ h["first"] = ids
    OBVIOUS
  <2> HIDE DEF h
  <2>3. Counted
    BY <2>1, Opens
  <2>4. \A x \in DOMAIN h : x \notin {"moves", "faults", "inOrder"} => x \in DOMAIN spent /\ spent[x] = h[x]
    BY <2>1, OpensWith
  <2>5. "others" \in DOMAIN spent /\ "typed" \in DOMAIN spent /\ "first" \in DOMAIN spent /\ spent["first"] = ids
    BY <2>2, <2>4
  <2> QED BY <2>3, <2>5 DEF InstancesSpent
<1>2. DOMAIN calls = {1} /\ calls[1].op = "load" /\ calls[1].phase = "sent"
  BY DEF Targets!Init, Targets!Request
<1>3. ListRead(calls) /\ ListTrue(calls, InstancesActs, InstancesRows, view.rows) /\ ServedInOrder(calls)
  BY <1>2, OneRead DEF ServedInOrder
<1>5. InstancesServer /\ server.used = ids /\ \A one \in ids : server.rows[one].secret = "s1"
  BY <1>4 DEF InstancesServer
<1>6. view.form = Targets!NoForm
  BY DEF Targets!Init
<1>7. InstancesSecret
  BY <1>1, <1>2, <1>5, <1>6 DEF InstancesSecret
<1> QED BY <1>1, <1>3, <1>5, <1>7 DEF InstancesQuiet, InstancesTrue

\* A gesture changes neither the list nor what it is read from.
LEMMA InstancesQuietAside ==
  ASSUME InstancesInv, InstancesQuiet, server' = server, view'.rows = view.rows,
         Spends, "others" \in DOMAIN spent', "typed" \in DOMAIN spent', "first" \in DOMAIN spent', spent'.others = spent.others,
         \/ calls' = calls
         \/ \E n : Shaped(n) /\ n.phase = "sent" /\ (calls' = calls \o <<n>> \/ calls' = Append(calls, n))
  PROVE  InstancesServer' /\ InstancesSpent' /\ InstancesTrue'
<1>1. Queue(calls) /\ InstancesServer /\ InstancesTrue
  BY DEF InstancesInv, InstancesQuiet
<1>2. InStep' => InStep
  BY StaysInStep
<1>3. InstancesSpent'
  BY DEF InstancesSpent, Spends
<1>4. InStep' => ListRead(calls') /\ ServedInOrder(calls')
  <2>1. CASE calls' = calls
    BY <1>1, <1>2, <2>1 DEF InstancesTrue, ListRead, Asks, ServedInOrder
  <2>2. CASE \E n : Shaped(n) /\ n.phase = "sent" /\ (calls' = calls \o <<n>> \/ calls' = Append(calls, n))
    BY <1>1, <1>2, <2>2, ReadsSent, OrderSent DEF InstancesTrue
  <2> QED BY <2>1, <2>2
<1>5. ASSUME InStep', server.event = Targets!None, ~spent.others
      PROVE  ListTrue(calls', InstancesActs, InstancesRows, view.rows)
  <2>1. InStep => ListRead(calls) /\ ListTrue(calls, InstancesActs, InstancesRows, view.rows)
    BY <1>1, <1>5 DEF InstancesTrue
  <2> QED BY <1>1, <1>2, <1>5, <2>1, ListStays
<1>6. InstancesRows' = InstancesRows /\ InstancesServer'
  BY <1>1 DEF InstancesRows, InstancesServer
<1> QED BY <1>3, <1>4, <1>5, <1>6 DEF InstancesTrue

\* What is asked of an instance whose password was not touched has none.
LEMMA InstancesQuietGestures ==
  ASSUME InstancesInv, InstancesQuiet,
         \/ \E id \in Ids : Targets!AskDelete(id)
         \/ Targets!CancelDelete \/ Targets!ConfirmDelete \/ Targets!Close \/ Targets!RunTest \/ Targets!Save
         \/ \E id \in Ids \union {Targets!None} : Targets!Open(id)
  PROVE  InstancesQuiet'
<1>1. Queue(calls) /\ InstancesView /\ InstancesServer /\ InstancesSpent /\ InstancesSecret
  BY DEF InstancesInv, InstancesQuiet
<1>2. server' = server /\ spent' = [spent EXCEPT !.moves = @ + 1]
  BY DEF Targets!AskDelete, Targets!CancelDelete, Targets!ConfirmDelete, Targets!Close, Targets!RunTest, Targets!Save,
         Targets!Open, Targets!Gesture, Targets!Spend
<1>3. Spends /\ spent'.others = spent.others /\ spent'.typed = spent.typed /\ spent'.first = spent.first /\ DOMAIN spent' = DOMAIN spent
  BY <1>1, <1>2, Spent DEF InstancesSpent
<1>4. view'.rows = view.rows
  BY <1>1 DEF Targets!AskDelete, Targets!CancelDelete, Targets!ConfirmDelete, Targets!Close, Targets!RunTest, Targets!Save,
         Targets!Open, Targets!Gesture, InstancesView, InstancesFields
<1>5. \/ calls' = calls
      \/ \E n : /\ Shaped(n) /\ n.phase = "sent" /\ (calls' = calls \o <<n>> \/ calls' = Append(calls, n))
                /\ n.op = "save" => /\ n.arg = Targets!Body(view.form) /\ view.form # Targets!NoForm
  <2>1. \A op, arg : LET n == Targets!Request(op, arg) IN Shaped(n) /\ n.phase = "sent" /\ n.op = op /\ n.arg = arg
    BY DEF Targets!Request, Shaped
  <2>2. \/ calls' = calls \o << >>
        \/ \E op, arg : /\ calls' = calls \o <<Targets!Request(op, arg)>>
                        /\ op = "save" => arg = Targets!Body(view.form) /\ view.form # Targets!NoForm
    <3>1. CASE Targets!Save
      BY <3>1 DEF Targets!Save, Targets!Gesture
    <3>2. CASE Targets!RunTest
      <4>1. calls' = calls \o <<Targets!Request("test", Targets!Body(view.form))>>
        BY <3>2 DEF Targets!RunTest, Targets!Gesture
      <4> QED BY <4>1
    <3>3. CASE Targets!ConfirmDelete
      <4>1. calls' = calls \o <<Targets!Request("remove", view.confirm)>>
        BY <3>3 DEF Targets!ConfirmDelete, Targets!Gesture
      <4> QED BY <4>1
    <3>4. CASE ~Targets!Save /\ ~Targets!RunTest /\ ~Targets!ConfirmDelete
      <4>1. calls' = calls \o << >>
        BY <3>4 DEF Targets!AskDelete, Targets!CancelDelete, Targets!Close, Targets!Open, Targets!Gesture
      <4> QED BY <4>1
    <3> QED BY <3>1, <3>2, <3>3, <3>4
  <2>3. CASE calls' = calls \o << >>
    BY <1>1, <2>3, NothingSent
  <2>4. ASSUME NEW op, NEW arg, calls' = calls \o <<Targets!Request(op, arg)>>,
               op = "save" => arg = Targets!Body(view.form) /\ view.form # Targets!NoForm
        PROVE  \E n : /\ Shaped(n) /\ n.phase = "sent" /\ (calls' = calls \o <<n>> \/ calls' = Append(calls, n))
                      /\ n.op = "save" => /\ n.arg = Targets!Body(view.form) /\ view.form # Targets!NoForm
    <3>1. PICK n : n = Targets!Request(op, arg)
      OBVIOUS
    <3>2. Shaped(n) /\ n.phase = "sent" /\ n.op = op /\ n.arg = arg /\ calls' = calls \o <<n>>
      BY <2>1, <2>4, <3>1
    <3> QED BY <2>4, <3>2
  <2> QED BY <2>2, <2>3, <2>4
<1>6. InstancesServer' /\ InstancesSpent' /\ InstancesTrue'
  BY <1>1, <1>2, <1>3, <1>4, <1>5, InstancesQuietAside DEF InstancesSpent
<1>7. \/ view'.form = Targets!NoForm \/ view'.form = view.form
      \/ view'.form.password = Targets!Blank
      \/ /\ view.form # Targets!NoForm
         /\ view'.form.id = view.form.id /\ view'.form.password = view.form.password
  <2>1. CASE Targets!RunTest \/ Targets!Save
    <3>1. view.form # Targets!NoForm /\ InstancesFormFields \subseteq DOMAIN view.form
      BY <1>1, <2>1 DEF InstancesView, Targets!RunTest, Targets!Save
    <3>2. \/ view' = [view EXCEPT !.form.pending = "test", !.form.error = FALSE, !.form.changed = FALSE]
          \/ view' = [view EXCEPT !.form.pending = "save", !.form.error = FALSE]
      BY <2>1 DEF Targets!RunTest, Targets!Save, Targets!Gesture
    <3>3. \/ view'.form = [view.form EXCEPT !.pending = "test", !.error = FALSE, !.changed = FALSE]
          \/ view'.form = [view.form EXCEPT !.pending = "save", !.error = FALSE]
      BY <1>1, <3>2 DEF InstancesView, InstancesFields
    <3> QED BY <3>1, <3>3 DEF InstancesFormFields
  <2>2. CASE \E id \in Ids \union {Targets!None} : Targets!Open(id)
    <3>1. PICK id : Targets!Open(id)
      BY <2>2
    <3>2. PICK target : view' = [view EXCEPT !.opened = @ + 1, !.form = Targets!Form(id, view.opened + 1, target)]
      BY <3>1 DEF Targets!Open, Targets!Gesture
    <3>3. view'.form = Targets!Form(id, view.opened + 1, target)
      BY <1>1, <3>2 DEF InstancesView, InstancesFields
    <3> QED BY <3>3 DEF Targets!Form
  <2>3. CASE \/ \E id \in Ids : Targets!AskDelete(id)
             \/ Targets!CancelDelete \/ Targets!ConfirmDelete \/ Targets!Close
    <3>1. \/ \E id : view' = [view EXCEPT !.confirm = id]
          \/ view' = [view EXCEPT !.deleting = TRUE]
          \/ view' = [view EXCEPT !.form = Targets!NoForm]
      BY <2>3 DEF Targets!AskDelete, Targets!CancelDelete, Targets!ConfirmDelete, Targets!Close, Targets!Gesture
    <3> QED BY <1>1, <3>1 DEF InstancesView, InstancesFields
  <2> QED BY <2>1, <2>2, <2>3
<1>8. InstancesSecret'
  <2> SUFFICES ASSUME NEW one \in spent.first, one \notin spent.typed
               PROVE  /\ one \in DOMAIN server.rows => server.rows[one].secret = "s1"
                      /\ \A k \in DOMAIN calls' : calls'[k].op = "save" /\ calls'[k].arg.id = one => calls'[k].arg.password = Targets!Blank
                      /\ view'.form # Targets!NoForm => (view'.form.id = one => view'.form.password = Targets!Blank)
    BY <1>1, <1>2, <1>3 DEF InstancesSecret
  <2>1. view.form # Targets!NoForm => (view.form.id = one => view.form.password = Targets!Blank)
    BY <1>1 DEF InstancesSecret
  <2>2. \A k \in DOMAIN calls' : \/ k \in DOMAIN calls /\ calls'[k] = calls[k]
                                 \/ calls'[k].op = "save" => calls'[k].arg = Targets!Body(view.form) /\ view.form # Targets!NoForm
    BY <1>1, <1>5, OneSent
  <2>3. LET b == Targets!Body(view.form) IN b.id = view.form.id /\ b.password = view.form.password
    BY DEF Targets!Body
  <2>4. \A k \in DOMAIN calls' : calls'[k].op = "save" /\ calls'[k].arg.id = one => calls'[k].arg.password = Targets!Blank
    BY <1>1, <2>1, <2>2, <2>3 DEF InstancesSecret
  <2>5. view'.form # Targets!NoForm => (view'.form.id = one => view'.form.password = Targets!Blank)
    BY <1>7, <2>1
  <2> QED BY <1>1, <2>4, <2>5 DEF InstancesSecret
<1> QED BY <1>6, <1>8 DEF InstancesQuiet

\* A password that is typed is remembered as such.
LEMMA InstancesQuietUpdated ==
  ASSUME InstancesInv, InstancesQuiet, NEW field \in {"target", "password", "name"}, NEW value, Targets!Update(field, value)
  PROVE  InstancesQuiet'
<1>1. Queue(calls) /\ InstancesView /\ InstancesServer /\ InstancesSpent /\ InstancesSecret
  BY DEF InstancesInv, InstancesQuiet
<1>2. /\ view.form # Targets!NoForm /\ calls' = calls /\ server' = server
      /\ view' = [view EXCEPT !.form = [@ EXCEPT ![field] = value, !.tested = Targets!NoTest, !.changed = TRUE]]
      /\ spent' = [spent EXCEPT !.moves = @ + 1,
                                !.typed = IF field = "password" /\ view.form.id # Targets!None THEN @ \union {view.form.id} ELSE @]
  BY DEF Targets!Update, Targets!Updated
<1>3. InstancesFormFields \subseteq DOMAIN view.form
  BY <1>1, <1>2 DEF InstancesView
<1>4. view'.rows = view.rows /\ view'.form = [view.form EXCEPT ![field] = value, !.tested = Targets!NoTest, !.changed = TRUE]
  BY <1>1, <1>2 DEF InstancesView, InstancesFields
<1>5. view'.form.id = view.form.id /\ (field # "password" => view'.form.password = view.form.password)
  BY <1>3, <1>4 DEF InstancesFormFields
<1>6. Spends
  BY <1>1, <1>2, Spent DEF InstancesSpent
<1>7. /\ spent'.others = spent.others /\ DOMAIN spent' = DOMAIN spent /\ spent'.first = spent.first
      /\ spent'.typed = IF field = "password" /\ view.form.id # Targets!None THEN spent.typed \union {view.form.id} ELSE spent.typed
  BY <1>1, <1>2 DEF InstancesSpent
<1>8. InstancesServer' /\ InstancesSpent' /\ InstancesTrue'
  BY <1>1, <1>2, <1>4, <1>6, <1>7, InstancesQuietAside DEF InstancesSpent
<1>9. InstancesSecret'
  <2>1. \A one \in spent.first : one \notin spent'.typed =>
           one \notin spent.typed /\ (view.form.id = one => field # "password")
    BY <1>1, <1>7, NamesAssumption DEF InstancesSecret, InstancesServer, Targets!None, None
  <2> QED BY <1>1, <1>2, <1>5, <1>7, <2>1 DEF InstancesSecret
<1> QED BY <1>8, <1>9 DEF InstancesQuiet

\* What others do is told by an event, or is remembered.
LEMMA InstancesQuietElsewhere ==
  ASSUME InstancesInv, InstancesQuiet,
         Targets!EventArrives \/ Targets!EventLost \/ \E id \in Ids : Targets!Collected(id) \/ Targets!Elsewhere(id)
  PROVE  InstancesQuiet'
<1>1. Queue(calls) /\ InstancesView /\ InstancesServer /\ InstancesSpent /\ InstancesTrue /\ InstancesSecret
  BY DEF InstancesInv, InstancesQuiet
<1>2. ASSUME NEW id, Targets!Collected(id) PROVE InstancesQuiet'
  <2>1. /\ server' = [server EXCEPT !.rows[id].state = IF @ = "idle" THEN "error" ELSE "idle", !.event = "sent"]
        /\ id \in DOMAIN server.rows /\ spent' = [spent EXCEPT !.moves = @ + 1]
        /\ view' = view /\ calls' = calls
    BY <1>2 DEF Targets!Collected, Targets!Spend
  <2>2. Spends /\ spent'.typed = spent.typed /\ spent'.first = spent.first /\ InstancesSpent'
    BY <1>1, <2>1, Spent DEF InstancesSpent, Spends
  <2>3. PICK state :
          /\ DOMAIN server' = DOMAIN server /\ server'.used = server.used /\ server'.event = "sent"
          /\ server'.rows = [server.rows EXCEPT ![id] = [@ EXCEPT !.state = state]]
    BY <1>1, <2>1 DEF InstancesServer
  <2>4. InStep' => InStep
    BY <2>2, StaysInStep
  <2>5. /\ DOMAIN server'.rows = DOMAIN server.rows
        /\ \A x \in DOMAIN server.rows : /\ DOMAIN server'.rows[x] = {"name", "target", "secret", "state"}
                                         /\ server'.rows[x].secret = server.rows[x].secret
    BY <1>1, <2>1, <2>3 DEF InstancesServer
  <2>6. server'.event # Targets!None
    BY <2>3 DEF Targets!None
  <2> QED BY <1>1, <2>1, <2>2, <2>3, <2>4, <2>5, <2>6 DEF InstancesQuiet, InstancesServer, InstancesTrue, InstancesSecret
<1>5. CASE Targets!EventLost
  <2>1. /\ server' = [server EXCEPT !.event = Targets!Lost] /\ UNCHANGED <<view, calls, spent>>
    BY <1>5 DEF Targets!EventLost
  <2>2. /\ DOMAIN server' = DOMAIN server /\ server'.used = server.used /\ server'.rows = server.rows
        /\ server'.event # Targets!None
    BY <1>1, <2>1 DEF InstancesServer, Targets!None, Targets!Lost
  <2> QED BY <1>1, <2>1, <2>2 DEF InstancesQuiet, InstancesServer, InstancesSpent, Counted, InStep, InstancesTrue, InstancesSecret
<1>3. CASE Targets!EventArrives
  <2>1. /\ server' = [server EXCEPT !.event = Targets!None] /\ spent' = spent
        /\ view' = view /\ calls' = Append(calls, Targets!Request("load", Targets!None))
    BY <1>3 DEF Targets!EventArrives
  <2>2. DOMAIN server' = DOMAIN server /\ server'.rows = server.rows /\ server'.used = server.used
    BY <1>1, <2>1 DEF InstancesServer
  <2>3. PICK n : Shaped(n) /\ n.phase = "sent" /\ n.op = "load" /\ calls' = Append(calls, n)
    BY <2>1 DEF Targets!Request, Shaped
  <2>4. InStep' <=> InStep
    BY <2>1 DEF InStep
  <2>5. InStep => /\ ListRead(calls') /\ ListTrue(calls', InstancesActs, InstancesRows, view.rows)
                  /\ ServedInOrder(calls')
    BY <1>1, <2>3, ListSent, OrderSent DEF InstancesTrue
  <2>6. InstancesRows' = InstancesRows
    BY <2>2 DEF InstancesRows
  <2>7. \A i \in DOMAIN calls' : (i \in DOMAIN calls /\ calls'[i] = calls[i]) \/ calls'[i] = n
    BY <1>1, <2>3, OneSent
  <2>8. InstancesTrue'
    BY <2>1, <2>4, <2>5, <2>6 DEF InstancesTrue
  <2>9. InstancesSecret'
    BY <1>1, <2>1, <2>2, <2>3, <2>7 DEF InstancesSecret
  <2>10. InstancesServer' /\ InstancesSpent'
    BY <1>1, <2>1, <2>2 DEF InstancesServer, InstancesSpent, Counted
  <2> QED BY <2>8, <2>9, <2>10 DEF InstancesQuiet
<1>4. ASSUME NEW id, Targets!Elsewhere(id) PROVE InstancesQuiet'
  <2>1. /\ server' = [server EXCEPT !.rows[id].target = "there"] /\ id \in DOMAIN server.rows
        /\ spent' = [spent EXCEPT !.moves = @ + 1, !.others = TRUE]
        /\ view' = view /\ calls' = calls
    BY <1>4 DEF Targets!Elsewhere
  <2>2. Counted' /\ DOMAIN spent' = DOMAIN spent /\ spent'.others /\ spent'.typed = spent.typed /\ spent'.first = spent.first
        /\ spent'.inOrder = spent.inOrder /\ spent'.faults = spent.faults
    BY <1>1, <2>1 DEF InstancesSpent, Counted
  <2>3. /\ DOMAIN server' = DOMAIN server /\ server'.used = server.used
        /\ server'.rows = [server.rows EXCEPT ![id] = [@ EXCEPT !.target = "there"]]
    BY <1>1, <2>1 DEF InstancesServer
  <2>4. /\ DOMAIN server'.rows = DOMAIN server.rows
        /\ \A x \in DOMAIN server.rows : /\ DOMAIN server'.rows[x] = {"name", "target", "secret", "state"}
                                         /\ server'.rows[x].secret = server.rows[x].secret
    BY <1>1, <2>1, <2>3 DEF InstancesServer
  <2> QED BY <1>1, <2>1, <2>2, <2>3, <2>4
          DEF InstancesQuiet, InstancesServer, InstancesSpent, InstancesTrue, InstancesSecret, InStep
<1> QED BY <1>2, <1>3, <1>4, <1>5

\* What a request changes is read again; an update without a password keeps that of before, and
\* an instance that is created takes no other's place.
LEMMA InstancesQuietServed ==
  ASSUME InstancesInv, InstancesQuiet, NEW k \in DOMAIN calls, Targets!ServeOne(k) \/ Targets!Fail(k)
  PROVE  InstancesQuiet'
<1> DEFINE c == calls[k]
<1>1. /\ Queue(calls) /\ InstancesRequests
      /\ InstancesServer /\ InstancesSpent /\ InstancesTrue /\ InstancesSecret
  BY DEF InstancesInv, InstancesQuiet
<1>2. view' = view
  BY DEF Targets!ServeOne, Targets!Refuse, Targets!Serve, Targets!Fail
<1>3. PICK phase, reply : Becomes(k, phase, reply)
  BY DEF Targets!ServeOne, Targets!Refuse, Targets!Serve, Targets!Fail, Becomes
<1>4. /\ DOMAIN calls' = DOMAIN calls
      /\ \A j \in DOMAIN calls : calls'[j].op = calls[j].op /\ calls'[j].arg = calls[j].arg
  BY <1>1, <1>3, OneServed
<1>5. CASE server' = server /\ Targets!Fail(k)
  <2>1. Counted' /\ spent'.faults = spent.faults + 1 /\ DOMAIN spent' = DOMAIN spent /\ spent'.typed = spent.typed /\ spent'.first = spent.first
    BY <1>1, <1>5 DEF Targets!Fail, InstancesSpent, Counted
  <2>2. ~InStep'
    BY <1>1, <2>1 DEF InStep, InstancesSpent, Counted
  <2>3. InstancesServer' /\ InstancesSpent' /\ InstancesTrue'
    BY <1>1, <1>5, <2>1, <2>2 DEF InstancesServer, InstancesSpent, InstancesTrue
  <2>4. InstancesSecret'
    BY <1>1, <1>2, <1>4, <1>5, <2>1 DEF InstancesSecret
  <2> QED BY <2>3, <2>4 DEF InstancesQuiet
<1>6. CASE Targets!ServeOne(k)
  <2>1. UNCHANGED spent /\ c.phase = "sent"
    BY <1>6 DEF Targets!ServeOne, Targets!Refuse, Targets!Serve
  <2>2. InstancesSpent' /\ (InStep' <=> InStep)
    BY <1>1, <2>1 DEF InstancesSpent, Counted, InStep
  <2>3. /\ InstancesServer' /\ (server'.event = server.event \/ c.op = "load")
        /\ c.op \in {"load", "test"} => server'.rows = server.rows
        /\ server.used \subseteq server'.used
        /\ \A one \in server.used \cap DOMAIN server'.rows :
             /\ one \in DOMAIN server.rows
             /\ \/ server'.rows[one].secret = server.rows[one].secret
                \/ c.op = "save" /\ c.arg.id = one /\ c.arg.password # Targets!Blank
    <3>1. CASE server' = server
      BY <1>1, <3>1 DEF InstancesServer
    <3>8. CASE c.op \in {"load", "test"} /\ server' = Targets!Effect(server, c)
      <4>1. c.op = "test" => server' = server
        BY <3>8 DEF Targets!Effect
      <4>4. PICK event : event = IF server.event = Targets!Lost THEN Targets!None ELSE server.event
        OBVIOUS
      <4>2. c.op = "load" => server' = [server EXCEPT !.event = event]
        BY <1>1, <3>8, <4>4 DEF Targets!Effect, Targets!CaughtUp, InstancesServer
      <4>3. /\ DOMAIN server' = DOMAIN server /\ server'.rows = server.rows /\ server'.used = server.used
            /\ c.op = "test" => server'.event = server.event
        BY <1>1, <3>8, <4>1, <4>2 DEF InstancesServer
      <4> QED BY <1>1, <3>8, <4>3 DEF InstancesServer
    <3>2. CASE c.op = "remove" /\ server' = Targets!Effect(server, c)
      <4>1. server' = [server EXCEPT !.rows = [id \in DOMAIN server.rows \ {c.arg} |-> server.rows[id]]]
        BY <3>2 DEF Targets!Effect
      <4>2. /\ DOMAIN server' = DOMAIN server /\ server'.used = server.used /\ server'.event = server.event
            /\ server'.rows = [id \in DOMAIN server.rows \ {c.arg} |-> server.rows[id]]
        BY <1>1, <4>1 DEF InstancesServer
      <4> QED BY <1>1, <3>2, <4>2 DEF InstancesServer
    <3>3. CASE c.op = "save" /\ c.arg.id # Targets!None /\ c.arg.id \in DOMAIN server.rows /\ server' = Targets!Effect(server, c)
      <4>1. server' = [server EXCEPT !.rows[c.arg.id] = Targets!Stored(@, c.arg)]
        BY <3>3 DEF Targets!Effect
      <4>2. /\ DOMAIN server' = DOMAIN server /\ server'.used = server.used /\ server'.event = server.event
            /\ server'.rows = [server.rows EXCEPT ![c.arg.id] = Targets!Stored(@, c.arg)]
        BY <1>1, <4>1 DEF InstancesServer
      <4>3. LET s == Targets!Stored(server.rows[c.arg.id], c.arg)
            IN  /\ DOMAIN s = {"name", "target", "secret", "state"}
                /\ c.arg.password = Targets!Blank => s.secret = server.rows[c.arg.id].secret
        BY DEF Targets!Stored
      <4> QED BY <1>1, <3>3, <4>2, <4>3 DEF InstancesServer
    <3>4. CASE c.op = "save" /\ c.arg.id = Targets!None /\ server' = Targets!Effect(server, c) /\ server.used # Ids
      <4>1. PICK id : id = (CHOOSE x \in Ids : x \notin server.used)
        OBVIOUS
      <4>2. \E x \in Ids : x \notin server.used
        BY <1>1, <3>4 DEF InstancesServer
      <4>3. id \in Ids /\ id \notin server.used
        BY <4>1, <4>2
      <4>4. PICK row : row = Targets!Stored([secret |-> c.arg.password, state |-> "idle"], c.arg)
        OBVIOUS
      <4>5. server' = [server EXCEPT !.rows = [x \in DOMAIN @ \union {id} |-> IF x = id THEN row ELSE @[x]], !.used = @ \union {id}]
        BY <3>4, <4>1, <4>4 DEF Targets!Effect, Targets!Create
      <4>6. /\ DOMAIN server' = DOMAIN server /\ server'.used = server.used \union {id} /\ server'.event = server.event
            /\ server'.rows = [x \in DOMAIN server.rows \union {id} |-> IF x = id THEN row ELSE server.rows[x]]
        BY <1>1, <4>5 DEF InstancesServer
      <4>7. DOMAIN row = {"name", "target", "secret", "state"}
        BY <4>4 DEF Targets!Stored
      <4>8. /\ DOMAIN server'.rows = DOMAIN server.rows \union {id}
            /\ server'.rows[id] = row
            /\ \A x \in DOMAIN server.rows : x # id => server'.rows[x] = server.rows[x]
        BY <4>6
      <4> QED BY <1>1, <3>4, <4>3, <4>6, <4>7, <4>8 DEF InstancesServer
    <3>5. c.op \in InstancesOps
      BY <1>1 DEF InstancesRequests, InstancesRequest
    <3>6. CASE Targets!Refused(c)
      BY <1>6, <3>1, <3>6 DEF Targets!ServeOne, Targets!Refuse
    <3>7. CASE ~Targets!Refused(c)
      <4>1. server' = Targets!Effect(server, c) /\ (Targets!Creates(c) => server.used # Ids)
        BY <1>6, <3>7 DEF Targets!ServeOne, Targets!Serve
      <4>2. c.op = "save" => c.arg.id \in DOMAIN server.rows \union {Targets!None}
        BY <3>7 DEF Targets!Refused
      <4> QED BY <3>2, <3>3, <3>4, <3>5, <3>8, <4>1, <4>2 DEF Targets!Creates, InstancesOps
    <3> QED BY <3>6, <3>7
  <2>4. InstancesSecret'
    BY <1>1, <1>2, <1>4, <2>1, <2>3 DEF InstancesSecret
  <2>5. PICK p, r :
          /\ Becomes(k, p, r) /\ p # "sent"
          /\ c.op = "load" => p = "done" /\ r = InstancesRows'
          /\ InstancesRows' = InstancesRows \/ (c.op \in InstancesActs /\ p = "done")
    <3>1. CASE Targets!Refused(c)
      <4>1. Becomes(k, "refused", c.reply) /\ server' = server /\ c.op # "load"
        BY <1>6, <3>1 DEF Targets!ServeOne, Targets!Refuse, Becomes, Targets!Refused
      <4> QED BY <4>1 DEF InstancesRows
    <3>2. CASE ~Targets!Refused(c)
      <4>1. Becomes(k, "done", Targets!Reply(server, c))
        BY <1>6, <3>2 DEF Targets!ServeOne, Targets!Serve, Becomes
      <4>2. c.op = "load" => Targets!Reply(server, c) = InstancesRows
        BY DEF Targets!Reply, InstancesRows
      <4>3. c.op \in {"load", "test"} \/ c.op \in InstancesActs
        BY <1>1 DEF InstancesRequests, InstancesRequest, InstancesOps, InstancesActs
      <4>4. c.op \in {"load", "test"} => InstancesRows' = InstancesRows
        BY <2>3 DEF InstancesRows
      <4>5. c.op = "load" => c.op \in {"load", "test"}
        OBVIOUS
      <4> QED BY <4>1, <4>2, <4>3, <4>4, <4>5
    <3> QED BY <3>1, <3>2
  <2>6. InStep => ListRead(calls') /\ ServedInOrder(calls')
    <3>1. InStep => \A j \in 1..(k - 1) : calls[j].phase # "sent"
      BY <1>6 DEF InStep, Targets!ServeOne, Targets!Refuse, Targets!Serve, Targets!InOrder
    <3> QED BY <1>1, <2>1, <2>5, <3>1, ReadsServed, OrderServed DEF InstancesTrue
  <2>7. ASSUME InStep, server'.event = Targets!None, ~spent.others
        PROVE  ListTrue(calls', InstancesActs, InstancesRows', view.rows)
    <3>1. CASE server.event = Targets!None
      BY <1>1, <2>1, <2>5, <2>7, <3>1, ListServed DEF InstancesTrue
    <3>2. CASE c.op = "load"
      BY <1>1, <2>1, <2>5, <2>7, <3>2, ListCaughtUp DEF InstancesTrue
    <3> QED BY <2>3, <2>7, <3>1, <3>2
  <2>8. InstancesTrue'
    BY <1>2, <2>1, <2>2, <2>3, <2>6, <2>7 DEF InstancesTrue
  <2> QED BY <2>2, <2>3, <2>4, <2>8 DEF InstancesQuiet
<1>7. Targets!Fail(k) => server' = server
  BY DEF Targets!Fail
<1> QED BY <1>5, <1>6, <1>7

\* What is answered is shown, or read again.
LEMMA InstancesQuietAnswered ==
  ASSUME InstancesInv, InstancesQuiet, NEW k \in DOMAIN calls, Targets!HandleAnswer(k) \/ Targets!HandleRefusal(k)
  PROVE  InstancesQuiet'
<1> DEFINE c == calls[k]
<1>1. /\ Queue(calls) /\ InstancesView /\ InstancesRequests
      /\ InstancesServer /\ InstancesSpent /\ InstancesTrue /\ InstancesSecret
  BY DEF InstancesInv, InstancesQuiet
<1>2. UNCHANGED <<server, spent>> /\ (InStep => k = 1)
  BY DEF Targets!HandleAnswer, Targets!HandleRefusal, Targets!Settle, InStep, Targets!InOrder
<1>3. InstancesServer' /\ InstancesSpent' /\ (InStep' <=> InStep) /\ InstancesRows' = InstancesRows
  BY <1>1, <1>2 DEF InstancesServer, InstancesSpent, Counted, InStep, InstancesRows
<1>4. c.op \in InstancesOps
  BY <1>1 DEF InstancesRequests, InstancesRequest
<1>5. view' = Targets!Answered(view, c) \/ view' = Targets!Refusal(view, c)
  BY DEF Targets!HandleAnswer, Targets!HandleRefusal, Targets!Settle
<1>6. PICK n : /\ Shaped(n) /\ n.op = "load" /\ n.phase = "sent"
               /\ calls' = Others(k) \o << >> \/ calls' = Others(k) \o <<n>>
               /\ c.op \in InstancesActs /\ c.phase = "done" => calls' # Others(k) \o << >>
  <2> DEFINE n == Targets!Request("load", Targets!None)
  <2>1. Shaped(n) /\ n.op = "load" /\ n.phase = "sent"
    BY DEF Targets!Request, Shaped
  <2>2. Targets!Others(k) = Others(k)
    BY DEF Targets!Others, Others
  <2>3. calls' = Others(k) \o << >> \/ calls' = Others(k) \o <<n>>
    BY <2>2 DEF Targets!HandleAnswer, Targets!HandleRefusal, Targets!Settle, Targets!Then
  <2>4. c.op \in InstancesActs /\ c.phase = "done" => calls' = Others(k) \o <<n>>
    BY <2>2 DEF Targets!HandleAnswer, Targets!HandleRefusal, Targets!Settle, Targets!Then, InstancesActs
  <2>5. Others(k) \o <<n>> # Others(k) \o << >>
    BY <1>1, <2>1, AskedIsLonger
  <2> HIDE DEF n
  <2> QED BY <2>1, <2>3, <2>4, <2>5
<1>7. ASSUME InStep
      PROVE  /\ ListRead(calls') /\ ServedInOrder(calls')
             /\ server.event = Targets!None /\ ~spent.others => ListTrue(calls', InstancesActs, InstancesRows, view'.rows)
  <2>1. k = 1 /\ ListRead(calls) /\ 1 \in DOMAIN calls /\ "load" \notin InstancesActs
    BY <1>1, <1>2, <1>7 DEF InstancesTrue, InstancesActs
  <2>2. c.phase \in {"done", "refused"}
    BY DEF Targets!HandleAnswer, Targets!HandleRefusal, Targets!Settle
  <2>3. c.op # "load" => view'.rows = view.rows
    BY <1>1, <1>4, <1>5 DEF Targets!Answered, Targets!Refusal, InstancesView, InstancesFields, InstancesOps
  <2>4. c.op = "load" /\ c.phase = "done" => view'.rows = c.reply
    BY <1>1 DEF Targets!HandleAnswer, Targets!HandleRefusal, Targets!Settle, Targets!Answered, InstancesView, InstancesFields
  <2>5. /\ calls[1].op \in InstancesActs /\ calls[1].phase = "done" => calls' # Others(1) \o << >>
        /\ calls[1].op # "load" => view'.rows = view.rows
        /\ calls[1].op = "load" /\ calls[1].phase = "done" => view'.rows = calls[1].reply
        /\ calls[1].phase \in {"done", "refused"}
        /\ calls' = Others(1) \o << >> \/ calls' = Others(1) \o <<n>>
    BY <1>6, <2>1, <2>2, <2>3, <2>4
  <2>6. ListRead(calls') /\ ServedInOrder(calls')
    BY <1>1, <1>6, <1>7, <2>1, ReadsAnswered, OrderAnswered DEF InstancesTrue
  <2>7. ASSUME server.event = Targets!None, ~spent.others PROVE ListTrue(calls', InstancesActs, InstancesRows, view'.rows)
    <3>1. ListTrue(calls, InstancesActs, InstancesRows, view.rows)
      BY <1>1, <1>7, <2>7 DEF InstancesTrue
    <3> HIDE DEF c
    <3> QED BY <1>1, <1>6, <2>1, <2>5, <3>1, ListAnswered
  <2> QED BY <2>6, <2>7
<1>8. InstancesTrue'
  BY <1>2, <1>3, <1>7 DEF InstancesTrue
<1>9. \/ view'.form = view.form \/ view'.form = Targets!NoForm
      \/ view.form # Targets!NoForm /\ view'.form.id = view.form.id /\ view'.form.password = view.form.password
  <2>1. view.form # Targets!NoForm => InstancesFormFields \subseteq DOMAIN view.form
    BY <1>1 DEF InstancesView
  <2>2. CASE c.op \in {"load", "remove", "save"} /\ view' = Targets!Answered(view, c)
    BY <1>1, <2>2 DEF Targets!Answered, InstancesView, InstancesFields
  <2>3. CASE c.op \in {"load", "remove"} /\ view' = Targets!Refusal(view, c)
    BY <1>1, <2>3 DEF Targets!Refusal, InstancesView, InstancesFields
  <2>4. CASE c.op = "test" /\ view' = Targets!Answered(view, c)
    <3>1. view' = IF Targets!IsOpen(view, c)
                  THEN [view EXCEPT !.form.tested = c.reply, !.form.pending = Targets!None, !.form.sure = ~view.form.changed]
                  ELSE view
      BY <2>4 DEF Targets!Answered
    <3>2. CASE Targets!IsOpen(view, c)
      <4>1. view.form # Targets!NoForm
        BY <3>2 DEF Targets!IsOpen
      <4> QED BY <1>1, <2>1, <3>1, <3>2, <4>1 DEF InstancesView, InstancesFields, InstancesFormFields
    <3> QED BY <3>1, <3>2
  <2>5. CASE c.op \in {"save", "test"} /\ view' = Targets!Refusal(view, c)
    <3>1. view' = IF Targets!IsOpen(view, c) THEN [view EXCEPT !.form.error = TRUE, !.form.pending = Targets!None] ELSE view
      BY <2>5 DEF Targets!Refusal
    <3>2. CASE Targets!IsOpen(view, c)
      <4>1. view.form # Targets!NoForm
        BY <3>2 DEF Targets!IsOpen
      <4> QED BY <1>1, <2>1, <3>1, <3>2, <4>1 DEF InstancesView, InstancesFields, InstancesFormFields
    <3> QED BY <3>1, <3>2
  <2> QED BY <1>4, <1>5, <2>2, <2>3, <2>4, <2>5 DEF InstancesOps
<1>10. \A i \in DOMAIN calls' : (\E j \in DOMAIN calls : calls'[i] = calls[j]) \/ calls'[i] = n
  BY <1>1, <1>6, Answers
<1>11. InstancesSecret'
  BY <1>1, <1>2, <1>6, <1>9, <1>10 DEF InstancesSecret
<1> QED BY <1>3, <1>8, <1>11 DEF InstancesQuiet

\* The list of the instances stays what was read last, and their passwords what was typed.
LEMMA InstancesQuietStep == InstancesInv /\ InstancesQuiet /\ Targets!Next => InstancesQuiet'
BY InstancesQuietGestures, InstancesQuietUpdated, InstancesQuietElsewhere, InstancesQuietServed, InstancesQuietAnswered
   DEF Targets!Next

\* Once nothing is under way, the list is that of the server.
LEMMA InstancesQuietHolds == InstancesQuiet => Targets!ListIsTrue /\ Targets!SecretsSurvive
<1> SUFFICES ASSUME InstancesQuiet PROVE Targets!ListIsTrue /\ Targets!SecretsSurvive
  OBVIOUS
<1>1. Targets!ListIsTrue
  BY ListShown DEF InstancesQuiet, InstancesTrue, InstancesRows, Targets!ListIsTrue, Targets!InOrder, InStep
<1>2. Targets!SecretsSurvive
  BY DEF InstancesQuiet, InstancesSecret, Targets!SecretsSurvive
<1> QED BY <1>1, <1>2

-----------------------------------------------------------------------------
(* The queries: a value that is typed stays, and the ranking says which plans are kept. *)

QueriesFields == {"selection", "sort", "instances", "list", "loading", "error", "modal", "opened"}
QueriesModalFields ==
  {"nth", "query", "result", "reading", "busy", "required", "value", "panel", "error", "suggesting", "typed"}
Plans == Rankings!Values \union {Rankings!NoPlan}
OfModal(c) == c.op \in {"saved", "analyze", "suggest"}

QueriesRequest(c) ==
  /\ c.op \in {"instances", "load"} \/ OfModal(c)
  /\ OfModal(c) => c.arg.nth \in 0..view.opened /\ c.arg.query \in Instances
  /\ c.op = "analyze" => c.arg.value \in Rankings!Values
  /\ c.op = "saved" /\ c.phase = "done" => c.reply \in Plans
QueriesModal(m) ==
  QueriesModalFields \subseteq DOMAIN m /\ m.nth \in 0..view.opened /\ m.query \in Instances /\ m.value \in Rankings!Values
QueriesView ==
  /\ QueriesFields \subseteq DOMAIN view /\ view.opened \in Nat /\ view.selection \subseteq Instances
  /\ view.modal # Rankings!NoModal => QueriesModal(view.modal)
QueriesServer == DOMAIN server = {"kept"} /\ server.kept \in [Instances -> Plans]
QueriesBase == Queue(calls) /\ Counted /\ QueriesView /\ QueriesServer /\ \A k \in DOMAIN calls : QueriesRequest(calls[k])

\* What was typed is the value, in an editor, which no plan that was kept may change any more.
Typed(m, opened) ==
  /\ m.nth = opened /\ m.required \in {0, Rankings!RequiredBy(m.query)} /\ m.typed \in {Rankings!None, m.value}
  /\ m.typed # Rankings!None => m.value # "" /\ m.required > 0
Unread(q, nth) == \A k \in DOMAIN q : q[k].op = "saved" => q[k].arg.nth # nth
\* The plan that was kept is asked once for a modal, before it measures.
QueriesOnce ==
  \A j, k \in DOMAIN calls :
    calls[j].op = "saved" /\ calls[k].op \in {"saved", "analyze"} /\ calls[j].arg.nth = calls[k].arg.nth => j <= k
QueriesTyped ==
  spent.inOrder =>
    /\ QueriesOnce
    /\ view.modal # Rankings!NoModal =>
         Typed(view.modal, view.opened) /\ (view.modal.required > 0 => Unread(calls, view.modal.nth))

\* A ranking is that of the filters on screen, and says which plans are kept but for the measures that
\* were served after it.
Measures(c, i) == c.op = "analyze" /\ c.phase = "done" /\ c.reply # "missing" /\ c.arg.query = i
Measured(k, i) == \E j \in DOMAIN calls : j > k /\ Measures(calls[j], i)
Ranks(list, k) ==
  /\ list = [selection |-> view.selection, sort |-> view.sort, kept |-> list.kept] /\ list.kept \subseteq view.selection
  /\ \A i \in view.selection : server.kept[i] # Rankings!NoPlan <=> i \in list.kept \/ Measured(k, i)
RanksAt(k) == calls[k].arg = Rankings!Filters(view) /\ (calls[k].phase = "done" => Ranks(calls[k].reply, k))
QueriesServedFirst ==
  /\ \A k \in DOMAIN calls : calls[k].phase \in {"sent", "done"}
  /\ \A j, k \in DOMAIN calls : j < k /\ calls[k].phase = "done" => calls[j].phase # "sent"
QueriesRanked ==
  view.selection # {} =>
    /\ \A k \in Last(Asks(calls, "load")) : RanksAt(k)
    /\ Asks(calls, "load") = {} => Ranks(view.list, 0)
QueriesTrue == InStep => QueriesServedFirst /\ QueriesRanked

QueriesInv == QueriesBase /\ QueriesTyped /\ QueriesTrue

\* A request of the page has the four fields of a request.
LEMMA QueriesAsk ==
  \A op, arg : LET n == Rankings!Request(op, arg) IN Shaped(n) /\ n.phase = "sent" /\ n.op = op /\ n.arg = arg
BY DEF Rankings!Request, Shaped

\* The plans that a modal may get are no plan, or the values of one.
LEMMA PlansAre ==
  /\ Rankings!NoPlan \notin Rankings!Values
  /\ "typed" \in Rankings!Values /\ "proposed" \in Rankings!Values /\ "" \in Rankings!Values
  /\ Plans = Rankings!Values \union {Rankings!NoPlan}
  /\ \A i : Rankings!RequiredBy(i) \in {0, 1}
BY DEF Plans, Rankings!Values, Rankings!NoPlan, Rankings!RequiredBy

\* A gesture leaves the server; it asks one request at most.
LEMMA QueriesAside ==
  ASSUME QueriesInv, server' = server, Spends, QueriesView', view.opened <= view'.opened, NEW n,
         \/ calls' = calls
         \/ /\ Shaped(n) /\ n.phase = "sent" /\ calls' = calls \o <<n>> /\ QueriesRequest(n)'
            /\ n.op = "saved" => n.arg.nth = view.opened + 1 /\ view'.modal # Rankings!NoModal /\ view'.modal.required = 0
         \/ /\ Shaped(n) /\ n.phase = "sent" /\ calls' = calls \o <<n>> /\ n.op = "load"
            /\ n.arg = Rankings!Filters(view)',
         \/ /\ view'.selection = view.selection /\ view'.sort = view.sort /\ view'.list = view.list
            /\ calls' = calls \/ n.op # "load"
         \/ view'.selection = {}
         \/ calls' # calls /\ n.op = "load" /\ n.arg = Rankings!Filters(view)',
         spent.inOrder /\ view'.modal # Rankings!NoModal =>
           Typed(view'.modal, view'.opened) /\ (view'.modal.required > 0 => Unread(calls, view'.modal.nth))
  PROVE  QueriesInv'
<1>1. Queue(calls) /\ Counted /\ QueriesView /\ QueriesServer /\ (\A k \in DOMAIN calls : QueriesRequest(calls[k]))
  BY DEF QueriesInv, QueriesBase
<1>2. calls' = calls \/ (Shaped(n) /\ n.phase = "sent" /\ calls' = calls \o <<n>>)
  OBVIOUS
<1>3. \A i \in DOMAIN calls' : \/ i \in DOMAIN calls /\ calls'[i] = calls[i]
                               \/ i = Len(calls) + 1 /\ calls'[i] = n /\ Shaped(n) /\ n.phase = "sent" /\ calls' = calls \o <<n>>
  BY <1>1, <1>2, OneSent
<1>4. \A i \in DOMAIN calls : i \in DOMAIN calls' /\ calls'[i] = calls[i] /\ i \in Nat /\ i <= Len(calls) /\ i < Len(calls) + 1
  <2>1. DOMAIN calls = 1..Len(calls) /\ Len(calls) \in Nat
    BY <1>1, QueueNumbers
  <2> QED BY <1>1, <1>2, <2>1, OneSent
<1>5. QueriesBase'
  <2>1. Queue(calls')
    BY <1>1, <1>2, OneSent
  <2>2. \A c : QueriesRequest(c) => QueriesRequest(c)'
    BY <1>1 DEF QueriesRequest, QueriesView
  <2>3. n.op = "load" => QueriesRequest(n)'
    BY DEF QueriesRequest, OfModal
  <2>4. ASSUME NEW i \in DOMAIN calls' PROVE QueriesRequest(calls[i])'
    <3>1. CASE i \in DOMAIN calls /\ calls'[i] = calls[i]
      <4>1. PICK c : c = calls[i]
        OBVIOUS
      <4>2. QueriesRequest(c)'
        BY <1>1, <2>2, <3>1, <4>1
      <4> QED BY <3>1, <4>1, <4>2
    <3>2. CASE i \notin DOMAIN calls /\ calls'[i] = n
      <4>1. QueriesRequest(n)'
        BY <1>2, <2>3, <2>4, <3>2
      <4> QED BY <3>2, <4>1
    <3> QED BY <1>3, <1>4, <2>4, <3>1, <3>2, OneSent, <1>1, <1>2
  <2> QED BY <1>1, <2>1, <2>4 DEF QueriesBase, QueriesServer, Spends
<1>6. QueriesTyped'
  <2> SUFFICES ASSUME spent'.inOrder PROVE QueriesTyped'
    BY DEF QueriesTyped
  <2>1. spent.inOrder /\ QueriesOnce
    BY DEF QueriesInv, QueriesTyped, Spends
  <2>2. QueriesOnce'
    <3> SUFFICES ASSUME NEW j \in DOMAIN calls', NEW k \in DOMAIN calls', calls'[j].op = "saved",
                        calls'[k].op \in {"saved", "analyze"}, calls'[j].arg.nth = calls'[k].arg.nth
                 PROVE  j <= k
      BY DEF QueriesOnce
    <3>1. CASE k \in DOMAIN calls /\ j \in DOMAIN calls
      <4>1. calls'[j] = calls[j] /\ calls'[k] = calls[k]
        BY <1>4, <3>1
      <4> QED BY <2>1, <3>1, <4>1 DEF QueriesOnce
    <3>2. CASE k \notin DOMAIN calls
      <4>1. k = Len(calls) + 1 /\ (j = Len(calls) + 1 \/ (j \in Nat /\ j < Len(calls) + 1)) /\ Len(calls) \in Nat
        BY <1>1, <1>3, <1>4, <3>2, QueueNumbers
      <4> QED BY <4>1
    <3>3. CASE k \in DOMAIN calls /\ j \notin DOMAIN calls
      <4>1. calls'[k] = calls[k] /\ calls'[j] = n /\ n.op = "saved"
        BY <1>3, <1>4, <3>3
      <4>2. n.arg.nth = view.opened + 1
        BY <1>3, <3>3, <4>1
      <4>3. calls[k].arg.nth \in 0..view.opened /\ view.opened \in Nat
        BY <1>1, <3>3, <4>1 DEF QueriesRequest, OfModal, QueriesView
      <4> QED BY <4>1, <4>2, <4>3
    <3> QED BY <3>1, <3>2, <3>3
  <2>3. ASSUME view'.modal # Rankings!NoModal, view'.modal.required > 0 PROVE Unread(calls', view'.modal.nth)
    <3>1. Unread(calls, view'.modal.nth) /\ ~(view'.modal.required = 0)
      BY <2>1, <2>3
    <3>2. calls' = calls \/ n.op # "saved"
      BY <3>1
    <3> QED BY <1>3, <3>1, <3>2 DEF Unread
  <2> QED BY <2>1, <2>2, <2>3 DEF QueriesTyped
<1>7. QueriesTrue'
  <2> SUFFICES ASSUME InStep' PROVE QueriesServedFirst' /\ QueriesRanked'
    BY DEF QueriesTrue
  <2>1. QueriesServedFirst /\ QueriesRanked
    BY StaysInStep DEF QueriesInv, QueriesTrue
  <2>2. QueriesServedFirst'
    BY <1>3, <1>4, <2>1 DEF QueriesServedFirst
  <2>3. CASE view'.selection = {}
    BY <2>2, <2>3 DEF QueriesRanked
  <2>4. CASE calls' # calls /\ n.op = "load" /\ n.arg = Rankings!Filters(view)'
    <3>1. PICK l : l = Len(calls) + 1
      OBVIOUS
    <3>2. Last(Asks(calls', "load")) = {l} /\ Asks(calls', "load") # {} /\ calls'[l] = n
      BY <1>1, <1>2, <2>4, <3>1, AsksSent
    <3>3. RanksAt(l)'
      BY <1>2, <2>4, <3>2 DEF RanksAt
    <3> QED BY <2>2, <3>2, <3>3 DEF QueriesRanked
  <2>5. CASE /\ view'.selection = view.selection /\ view'.sort = view.sort /\ view'.list = view.list
             /\ calls' = calls \/ n.op # "load"
    <3>1. Asks(calls', "load") = Asks(calls, "load")
      BY <1>1, <1>2, <2>5, AsksSent
    <3>2. ASSUME NEW k, NEW i PROVE Measured(k, i)' <=> Measured(k, i)
      BY <1>3, <1>4 DEF Measured, Measures
    <3>3. ASSUME NEW list, NEW k, Ranks(list, k) PROVE Ranks(list, k)'
      BY <2>5, <3>2, <3>3 DEF Ranks
    <3>4. ASSUME NEW k \in Last(Asks(calls, "load")), RanksAt(k) PROVE RanksAt(k)'
      <4>1. k \in DOMAIN calls /\ calls'[k] = calls[k]
        BY <1>4, LastAsks
      <4>2. PICK reply : reply = calls[k].reply
        OBVIOUS
      <4>3. Rankings!Filters(view)' = Rankings!Filters(view)
        BY <2>5 DEF Rankings!Filters
      <4>4. calls[k].phase = "done" => Ranks(reply, k)'
        BY <3>3, <3>4, <4>2 DEF RanksAt
      <4> QED BY <3>4, <4>1, <4>2, <4>3, <4>4 DEF RanksAt
    <3>5. Ranks(view.list, 0) => Ranks(view.list, 0)'
      <4>1. PICK list : list = view.list
        OBVIOUS
      <4> QED BY <2>5, <3>3, <4>1
    <3> QED BY <2>1, <2>2, <2>5, <3>1, <3>4, <3>5 DEF QueriesRanked
  <2> QED BY <2>2, <2>3, <2>4, <2>5
<1> QED BY <1>5, <1>6, <1>7 DEF QueriesInv

\* Filters that change, or a list that is loaded again, ask for the ranking of the filters on screen.
LEMMA QueriesLoading ==
  ASSUME NEW v, QueriesFields \subseteq DOMAIN v
  PROVE  LET w == Rankings!Loading(v)
         IN  /\ DOMAIN w = DOMAIN v /\ w.selection = v.selection /\ w.sort = v.sort /\ w.modal = v.modal /\ w.opened = v.opened
             /\ Rankings!Load(v) = IF w.selection = {} THEN << >> ELSE <<Rankings!Request("load", Rankings!Filters(w))>>
<1>1. PICK w : w = Rankings!Loading(v)
  OBVIOUS
<1>2. /\ DOMAIN w = DOMAIN v /\ w.selection = v.selection /\ w.sort = v.sort /\ w.modal = v.modal /\ w.opened = v.opened
  BY <1>1 DEF Rankings!Loading, QueriesFields
<1>3. Rankings!Filters(w) = Rankings!Filters(v)
  BY <1>2 DEF Rankings!Filters
<1> QED BY <1>1, <1>2, <1>3 DEF Rankings!Load

\* The gestures on the filters and the list.
LEMMA QueriesFiltered ==
  ASSUME QueriesInv,
         \/ \E selection \in SUBSET Instances, sort \in Rankings!Sorts : Rankings!SetFilter(selection, sort)
         \/ Rankings!Refresh
  PROVE  QueriesInv'
<1>1. Queue(calls) /\ Counted /\ QueriesView
  BY DEF QueriesInv, QueriesBase
<1>2. /\ QueriesFields \subseteq DOMAIN view /\ view.opened \in Nat /\ view.selection \subseteq Instances
  BY <1>1 DEF QueriesView
<1>3. \E v : /\ DOMAIN v = DOMAIN view /\ v.modal = view.modal /\ v.opened = view.opened
             /\ v.selection \subseteq Instances
             /\ view.modal = Rankings!NoModal /\ server' = server /\ spent' = [spent EXCEPT !.moves = @ + 1]
             /\ \/ view' = Rankings!Loading(v) /\ calls' = calls \o Rankings!Load(v)
                \/ view' = Rankings!Loading(v) /\ calls' = calls \o Rankings!Load(Rankings!Loading(v))
  <2>1. CASE Rankings!Refresh
    BY <1>2, <2>1 DEF Rankings!Refresh, Rankings!Gesture, Rankings!Spend
  <2>2. ASSUME NEW selection \in SUBSET Instances, NEW sort, Rankings!SetFilter(selection, sort)
        PROVE  \E v : /\ DOMAIN v = DOMAIN view /\ v.modal = view.modal /\ v.opened = view.opened
                      /\ v.selection \subseteq Instances
                      /\ view.modal = Rankings!NoModal /\ server' = server /\ spent' = [spent EXCEPT !.moves = @ + 1]
                      /\ view' = Rankings!Loading(v) /\ calls' = calls \o Rankings!Load(Rankings!Loading(v))
    <3>1. PICK v : v = [view EXCEPT !.selection = selection, !.sort = sort]
      OBVIOUS
    <3>2. DOMAIN v = DOMAIN view /\ v.modal = view.modal /\ v.opened = view.opened /\ v.selection = selection
      BY <1>2, <3>1 DEF QueriesFields
    <3>3. /\ view.modal = Rankings!NoModal /\ server' = server /\ spent' = [spent EXCEPT !.moves = @ + 1]
          /\ view' = Rankings!Loading(v) /\ calls' = calls \o Rankings!Load(Rankings!Loading(v))
      BY <2>2, <3>1 DEF Rankings!SetFilter, Rankings!Filtered, Rankings!Gesture, Rankings!Spend
    <3> QED BY <3>2, <3>3
  <2> QED BY <2>1, <2>2
<1>4. PICK v : /\ DOMAIN v = DOMAIN view /\ v.modal = view.modal /\ v.opened = view.opened
               /\ v.selection \subseteq Instances
               /\ view.modal = Rankings!NoModal /\ server' = server /\ spent' = [spent EXCEPT !.moves = @ + 1]
               /\ \/ view' = Rankings!Loading(v) /\ calls' = calls \o Rankings!Load(v)
                  \/ view' = Rankings!Loading(v) /\ calls' = calls \o Rankings!Load(Rankings!Loading(v))
  BY <1>3
<1>5. PICK w : w = Rankings!Loading(v)
  OBVIOUS
<1>6. /\ DOMAIN w = DOMAIN v /\ w.selection = v.selection /\ w.sort = v.sort /\ w.modal = v.modal /\ w.opened = v.opened
      /\ Rankings!Load(v) = IF w.selection = {} THEN << >> ELSE <<Rankings!Request("load", Rankings!Filters(w))>>
  BY <1>2, <1>4, <1>5, QueriesLoading
<1>7. Rankings!Load(w) = IF w.selection = {} THEN << >> ELSE <<Rankings!Request("load", Rankings!Filters(w))>>
  BY DEF Rankings!Load
<1>8. view' = w /\ calls' = calls \o IF w.selection = {} THEN << >> ELSE <<Rankings!Request("load", Rankings!Filters(w))>>
  BY <1>4, <1>5, <1>6, <1>7
<1>9. Spends /\ QueriesView' /\ view'.opened = view.opened /\ view'.modal = Rankings!NoModal /\ view.opened <= view'.opened
  BY <1>1, <1>2, <1>4, <1>6, <1>8, Spent DEF QueriesView
<1>10. CASE w.selection = {}
  <2>1. calls' = calls
    BY <1>1, <1>8, <1>10, NothingSent
  <2> QED BY <1>4, <1>8, <1>9, <1>10, <2>1, QueriesAside
<1>11. CASE w.selection # {}
  <2>1. PICK n : n = Rankings!Request("load", Rankings!Filters(w))
    OBVIOUS
  <2>2. Shaped(n) /\ n.phase = "sent" /\ n.op = "load" /\ n.arg = Rankings!Filters(w) /\ calls' = calls \o <<n>>
    BY <1>8, <1>11, <2>1, QueriesAsk
  <2>3. n.arg = Rankings!Filters(view)'
    BY <1>8, <2>2
  <2>4. calls' # calls
    <3>1. Len(calls') = Len(calls) + 1 /\ Len(calls) \in Nat
      BY <1>1, <2>2, OneSent
    <3> QED BY <3>1
  <2> QED BY <1>4, <1>9, <2>2, <2>3, <2>4, QueriesAside
<1> QED BY <1>10, <1>11

\* A modal opens, closes, measures, and has its values typed.
LEMMA QueriesModals ==
  ASSUME QueriesInv,
         \/ Rankings!Close \/ Rankings!Run \/ Rankings!Suggest \/ Rankings!TypeValue
         \/ \E panel : Rankings!OpenPanel(panel)
         \/ \E i \in Instances : Rankings!Analyze(i)
  PROVE  QueriesInv'
<1>1. Queue(calls) /\ Counted /\ QueriesView /\ (\A k \in DOMAIN calls : QueriesRequest(calls[k]))
  BY DEF QueriesInv, QueriesBase
<1>2. QueriesFields \subseteq DOMAIN view /\ view.opened \in Nat /\ view.selection \subseteq Instances
  BY <1>1 DEF QueriesView
<1>3. server' = server /\ spent' = [spent EXCEPT !.moves = @ + 1]
  BY DEF Rankings!Close, Rankings!Run, Rankings!Suggest, Rankings!TypeValue, Rankings!OpenPanel, Rankings!Analyze, Rankings!Gesture,
         Rankings!Spend
<1>4. Spends
  BY <1>1, <1>3, Spent
<1> DEFINE m == view.modal
<1>5. CASE Rankings!Close
  <2>1. view' = [view EXCEPT !.modal = Rankings!NoModal] /\ calls' = calls \o << >>
    BY <1>5 DEF Rankings!Close, Rankings!Gesture
  <2>2. calls' = calls
    BY <1>1, <2>1, NothingSent
  <2>3. /\ DOMAIN view' = DOMAIN view /\ view'.selection = view.selection /\ view'.sort = view.sort /\ view'.list = view.list
        /\ view'.opened = view.opened /\ view'.modal = Rankings!NoModal
    BY <1>2, <2>1 DEF QueriesFields
  <2>4. QueriesView' /\ view.opened <= view'.opened
    BY <1>2, <2>3 DEF QueriesView
  <2> QED BY <1>3, <1>4, <2>2, <2>3, <2>4, QueriesAside
<1>6. CASE Rankings!Run \/ Rankings!Suggest \/ Rankings!TypeValue \/ \E panel : Rankings!OpenPanel(panel)
  <2>1. m # Rankings!NoModal /\ QueriesModal(m)
    BY <1>1, <1>6 DEF Rankings!Run, Rankings!Suggest, Rankings!TypeValue, Rankings!OpenPanel, QueriesView
  <2>2. \E o :
          /\ view' = [view EXCEPT !.modal = o] /\ DOMAIN o = DOMAIN m
          /\ o.nth = m.nth /\ o.query = m.query /\ o.required = m.required
          /\ \/ o.value = m.value /\ o.typed = m.typed
             \/ o.value = "typed" /\ o.typed = "typed" /\ m.required > 0
    <3>1. CASE Rankings!Run
      <4>1. PICK o : o = [m EXCEPT !.busy = TRUE, !.error = FALSE]
        OBVIOUS
      <4>2. view' = [view EXCEPT !.modal = o]
        BY <1>2, <3>1, <4>1 DEF Rankings!Run, Rankings!Gesture
      <4>3. DOMAIN o = DOMAIN m /\ o.nth = m.nth /\ o.query = m.query /\ o.required = m.required /\ o.value = m.value /\ o.typed = m.typed
        BY <2>1, <4>1 DEF QueriesModal, QueriesModalFields
      <4> QED BY <4>2, <4>3
    <3>2. CASE Rankings!Suggest
      <4>1. PICK o : o = [m EXCEPT !.suggesting = TRUE]
        OBVIOUS
      <4>2. view' = [view EXCEPT !.modal = o]
        BY <1>2, <3>2, <4>1 DEF Rankings!Suggest, Rankings!Gesture
      <4>3. DOMAIN o = DOMAIN m /\ o.nth = m.nth /\ o.query = m.query /\ o.required = m.required /\ o.value = m.value /\ o.typed = m.typed
        BY <2>1, <4>1 DEF QueriesModal, QueriesModalFields
      <4> QED BY <4>2, <4>3
    <3>3. CASE Rankings!TypeValue
      <4>1. PICK o : o = [m EXCEPT !.value = "typed", !.typed = "typed"]
        OBVIOUS
      <4>2. view' = [view EXCEPT !.modal = o] /\ m.required > 0
        BY <1>2, <3>3, <4>1 DEF Rankings!TypeValue, Rankings!Gesture, Rankings!Editor
      <4>3. DOMAIN o = DOMAIN m /\ o.nth = m.nth /\ o.query = m.query /\ o.required = m.required /\ o.value = "typed" /\ o.typed = "typed"
        BY <2>1, <4>1 DEF QueriesModal, QueriesModalFields
      <4> QED BY <4>2, <4>3
    <3>4. CASE \E panel : Rankings!OpenPanel(panel)
      <4>1. PICK panel : Rankings!OpenPanel(panel)
        BY <3>4
      <4>2. PICK o : o = [m EXCEPT !.panel = IF @ = panel THEN Rankings!None ELSE panel]
        OBVIOUS
      <4>3. view' = [view EXCEPT !.modal = o]
        BY <1>2, <4>1, <4>2 DEF Rankings!OpenPanel, Rankings!Gesture
      <4>4. DOMAIN o = DOMAIN m /\ o.nth = m.nth /\ o.query = m.query /\ o.required = m.required /\ o.value = m.value /\ o.typed = m.typed
        BY <2>1, <4>2 DEF QueriesModal, QueriesModalFields
      <4> QED BY <4>3, <4>4
    <3> QED BY <1>6, <3>1, <3>2, <3>3, <3>4
  <2>3. PICK o :
          /\ view' = [view EXCEPT !.modal = o] /\ DOMAIN o = DOMAIN m
          /\ o.nth = m.nth /\ o.query = m.query /\ o.required = m.required
          /\ \/ o.value = m.value /\ o.typed = m.typed
             \/ o.value = "typed" /\ o.typed = "typed" /\ m.required > 0
    BY <2>2
  <2>4. /\ DOMAIN view' = DOMAIN view /\ view'.selection = view.selection /\ view'.sort = view.sort /\ view'.list = view.list
        /\ view'.opened = view.opened /\ view'.modal = o
    BY <1>2, <2>3 DEF QueriesFields
  <2>5. QueriesModal(o)' /\ o # Rankings!NoModal
    <3>1. o.value \in Rankings!Values
      BY <2>1, <2>3, PlansAre DEF QueriesModal
    <3>2. o # Rankings!NoModal
      <4>1. DOMAIN Rankings!NoModal = {"nth"} /\ "busy" \in DOMAIN o
        BY <2>1, <2>3 DEF Rankings!NoModal, QueriesModal, QueriesModalFields
      <4> QED BY <4>1
    <3> QED BY <2>1, <2>3, <2>4, <3>1, <3>2 DEF QueriesModal
  <2>6. QueriesView' /\ view.opened <= view'.opened
    BY <1>2, <2>4, <2>5 DEF QueriesView
  <2>7. spent.inOrder => Typed(o, view.opened) /\ (o.required > 0 => Unread(calls, o.nth))
    <3> SUFFICES ASSUME spent.inOrder PROVE Typed(o, view.opened) /\ (o.required > 0 => Unread(calls, o.nth))
      OBVIOUS
    <3>1. Typed(m, view.opened) /\ (m.required > 0 => Unread(calls, m.nth))
      BY <2>1 DEF QueriesInv, QueriesTyped
    <3>2. CASE o.value = m.value /\ o.typed = m.typed
      BY <2>3, <3>1, <3>2 DEF Typed
    <3>3. CASE o.value = "typed" /\ o.typed = "typed" /\ m.required > 0
      BY <2>3, <3>1, <3>3 DEF Typed
    <3> QED BY <2>3, <3>2, <3>3
  <2>8. \/ calls' = calls
        \/ \E n : /\ Shaped(n) /\ n.phase = "sent" /\ calls' = calls \o <<n>> /\ QueriesRequest(n)'
                  /\ n.op # "saved" /\ n.op # "load"
    <3>1. CASE Rankings!TypeValue \/ \E panel : Rankings!OpenPanel(panel)
      <4>1. calls' = calls \o << >>
        BY <3>1 DEF Rankings!TypeValue, Rankings!OpenPanel, Rankings!Gesture
      <4> QED BY <1>1, <4>1, NothingSent
    <3>2. CASE Rankings!Run
      <4>5. PICK arg : arg = [nth |-> m.nth, query |-> m.query, given |-> m.required, value |-> m.value]
        OBVIOUS
      <4>6. arg.nth = m.nth /\ arg.query = m.query /\ arg.value = m.value
        BY <4>5
      <4>1. calls' = calls \o <<Rankings!Request("analyze", arg)>>
        BY <3>2, <4>5 DEF Rankings!Run, Rankings!Gesture
      <4>2. PICK n : n = Rankings!Request("analyze", arg)
        OBVIOUS
      <4>3. Shaped(n) /\ n.phase = "sent" /\ n.op = "analyze" /\ n.arg = arg
        BY <4>2, QueriesAsk
      <4>4. QueriesRequest(n)'
        BY <2>1, <2>4, <4>6, <4>3 DEF QueriesRequest, OfModal, QueriesModal
      <4> QED BY <4>1, <4>2, <4>3, <4>4
    <3>3. CASE Rankings!Suggest
      <4>5. PICK arg : arg = [nth |-> m.nth, query |-> m.query]
        OBVIOUS
      <4>6. arg.nth = m.nth /\ arg.query = m.query
        BY <4>5
      <4>1. calls' = calls \o <<Rankings!Request("suggest", arg)>>
        BY <3>3, <4>5 DEF Rankings!Suggest, Rankings!Gesture
      <4>2. PICK n : n = Rankings!Request("suggest", arg)
        OBVIOUS
      <4>3. Shaped(n) /\ n.phase = "sent" /\ n.op = "suggest" /\ n.arg = arg
        BY <4>2, QueriesAsk
      <4>4. QueriesRequest(n)'
        BY <2>1, <2>4, <4>6, <4>3 DEF QueriesRequest, OfModal, QueriesModal
      <4> QED BY <4>1, <4>2, <4>3, <4>4
    <3> QED BY <1>6, <3>1, <3>2, <3>3
  <2>9. CASE calls' = calls
    BY <1>3, <1>4, <2>4, <2>6, <2>7, <2>9, QueriesAside
  <2>10. ASSUME NEW n, Shaped(n), n.phase = "sent", calls' = calls \o <<n>>, QueriesRequest(n)', n.op # "saved", n.op # "load"
         PROVE  QueriesInv'
    BY <1>3, <1>4, <2>4, <2>6, <2>7, <2>10, QueriesAside
  <2> QED BY <2>8, <2>9, <2>10
<1>7. CASE \E i \in Instances : Rankings!Analyze(i)
  <2>1. PICK i \in Instances : Rankings!Analyze(i)
    BY <1>7
  <2> DEFINE nth == view.opened + 1
             r == [nth |-> nth, query |-> i, result |-> Rankings!NoPlan, reading |-> TRUE, busy |-> FALSE, required |-> 0,
                   value |-> "", panel |-> Rankings!None, error |-> FALSE, suggesting |-> FALSE, typed |-> Rankings!None]
             arg == [nth |-> nth, query |-> i]
  <2>10. /\ DOMAIN r = QueriesModalFields /\ r.nth = nth /\ r.query = i /\ r.required = 0
         /\ r.value = "" /\ r.typed = Rankings!None
    BY DEF QueriesModalFields
  <2>11. arg.nth = nth /\ arg.query = i
    OBVIOUS
  <2>12. view' = [view EXCEPT !.opened = @ + 1, !.modal = r] /\ calls' = calls \o <<Rankings!Request("saved", arg)>>
    BY <2>1 DEF Rankings!Analyze, Rankings!Gesture
  <2> HIDE DEF r, arg
  <2>2. PICK o : /\ DOMAIN o = QueriesModalFields /\ o.nth = view.opened + 1 /\ o.query = i /\ o.required = 0
                 /\ o.value = "" /\ o.typed = Rankings!None
                 /\ view' = [view EXCEPT !.opened = @ + 1, !.modal = o]
    BY <2>10, <2>12
  <2>3. /\ DOMAIN view' = DOMAIN view /\ view'.selection = view.selection /\ view'.sort = view.sort /\ view'.list = view.list
        /\ view'.opened = view.opened + 1 /\ view'.modal = o
    BY <1>2, <2>2 DEF QueriesFields
  <2>4. QueriesModal(o)' /\ o # Rankings!NoModal
    <3>1. o # Rankings!NoModal
      <4>1. DOMAIN Rankings!NoModal = {"nth"} /\ "busy" \in DOMAIN o
        BY <2>2 DEF Rankings!NoModal, QueriesModalFields
      <4> QED BY <4>1
    <3>2. QueriesModalFields \subseteq DOMAIN o /\ o.query \in Instances /\ o.value \in Rankings!Values
      BY <2>2, PlansAre
    <3>3. o.nth \in 0..view'.opened
      <4>1. \A x \in Nat : x + 1 \in 0..(x + 1)
        OBVIOUS
      <4>2. o.nth = view.opened + 1 /\ view'.opened = view.opened + 1
        BY <2>2, <2>3
      <4> QED BY <1>2, <4>1, <4>2
    <3> QED BY <3>1, <3>2, <3>3 DEF QueriesModal
  <2>5. QueriesView' /\ view.opened <= view'.opened
    BY <1>2, <2>3, <2>4 DEF QueriesView
  <2>6. Typed(o, view'.opened) /\ ~(o.required > 0)
    <3>1. o.nth = view'.opened /\ o.required = 0 /\ o.typed = Rankings!None
      BY <2>2, <2>3
    <3>2. ~(0 > 0)
      OBVIOUS
    <3> QED BY <3>1, <3>2 DEF Typed
  <2>7. PICK n : n = Rankings!Request("saved", arg)
    OBVIOUS
  <2>8. /\ Shaped(n) /\ n.phase = "sent" /\ n.op = "saved" /\ n.arg.nth = view.opened + 1 /\ n.arg.query = i
        /\ calls' = calls \o <<n>>
    BY <2>7, <2>11, <2>12, QueriesAsk
  <2>9. QueriesRequest(n)'
    BY <1>2, <2>3, <2>8 DEF QueriesRequest, OfModal
  <2> QED BY <1>3, <1>4, <2>2, <2>3, <2>4, <2>5, <2>6, <2>8, <2>9, QueriesAside
<1> QED BY <1>5, <1>6, <1>7

\* The page opens on the list of the instances, and on the ranking of those its address names.
LEMMA QueriesInit == Rankings!Init => QueriesInv
<1> SUFFICES ASSUME Rankings!Init PROVE QueriesInv
  OBVIOUS
<1>1. PICK selection \in SUBSET Instances, kept \in SUBSET Instances :
        /\ server = [kept |-> [i \in Instances |-> IF i \in kept THEN "proposed" ELSE Rankings!NoPlan]]
        /\ view = [selection |-> selection, sort |-> "time", instances |-> FALSE, list |-> Rankings!NoList,
                   loading |-> selection # {}, error |-> FALSE, modal |-> Rankings!NoModal, opened |-> 0]
        /\ calls = <<Rankings!Request("instances", [selection |-> selection, sort |-> "time"])>>
                   \o (IF selection = {} THEN << >> ELSE <<Rankings!Request("load", [selection |-> selection, sort |-> "time"])>>)
        /\ Rankings!Unspent(Rankings!NoHistory)
  BY DEF Rankings!Init
<1>2. Counted
  <2>1. PICK ordered \in OrdersOn("queries") :
          spent = LET bounds == [moves |-> 0, faults |-> 0, inOrder |-> ordered]
                  IN  [x \in DOMAIN bounds \union DOMAIN Rankings!NoHistory |->
                         IF x \in DOMAIN bounds THEN bounds[x] ELSE Rankings!NoHistory[x]]
    BY <1>1 DEF Rankings!Unspent
  <2> QED BY <2>1, Opens
<1>3. QueriesServer
  <2>1. "proposed" \in Plans /\ Rankings!NoPlan \in Plans
    BY <1>1, PlansAre
  <2> QED BY <1>1, <2>1 DEF QueriesServer
<1>4. /\ QueriesFields \subseteq DOMAIN view /\ view.opened = 0 /\ view.modal = Rankings!NoModal
      /\ view.selection = selection /\ view.sort = "time"
  BY <1>1 DEF QueriesFields
<1>5. QueriesView
  BY <1>1, <1>4, PlansAre DEF QueriesView
<1> DEFINE arg == [selection |-> selection, sort |-> "time"]
<1>6. PICK a, b : a = Rankings!Request("instances", arg) /\ b = Rankings!Request("load", arg)
  OBVIOUS
<1>7. Shaped(a) /\ a.phase = "sent" /\ a.op = "instances" /\ Shaped(b) /\ b.phase = "sent" /\ b.op = "load" /\ b.arg = arg
  BY <1>6, QueriesAsk
<1>8. calls = <<a>> \o (IF selection = {} THEN << >> ELSE <<b>>)
  BY <1>1, <1>6
<1>9. arg = Rankings!Filters(view)
  BY <1>4 DEF Rankings!Filters
<1> HIDE DEF arg
<1>10. Queue(<<a>>) /\ Len(<<a>>) = 1 /\ <<a>>[1] = a /\ Queue(<<b>>) /\ Len(<<b>>) = 1 /\ <<b>>[1] = b /\ Queue(<< >>) /\ Len(<< >>) = 0
  BY <1>7, Asked
<1>11. /\ Queue(calls)
       /\ selection = {} => DOMAIN calls = {1} /\ calls[1] = a
       /\ selection # {} => DOMAIN calls = {1, 2} /\ calls[1] = a /\ calls[2] = b
  <2>1. CASE selection = {}
    <3>1. /\ Queue(calls) /\ DOMAIN calls = 1..(1 + 0) /\ \A j \in 1..1 : calls[j] = <<a>>[j]
      BY <1>8, <1>10, <2>1, Sent
    <3> QED BY <1>10, <2>1, <3>1
  <2>2. CASE selection # {}
    <3>1. /\ Queue(calls) /\ DOMAIN calls = 1..(1 + 1)
          /\ \A j \in 1..1 : calls[j] = <<a>>[j]
          /\ \A j \in 1..1 : calls[1 + j] = <<b>>[j]
      BY <1>8, <1>10, <2>2, Sent
    <3> QED BY <1>10, <2>2, <3>1
  <2> QED BY <2>1, <2>2
<1>12. \A k \in DOMAIN calls : calls[k] = a \/ (calls[k] = b /\ selection # {})
  BY <1>11
<1>13. QueriesBase
  BY <1>2, <1>3, <1>5, <1>7, <1>11, <1>12 DEF QueriesBase, QueriesRequest, OfModal
<1>14. QueriesTyped
  BY <1>4, <1>7, <1>12 DEF QueriesTyped, QueriesOnce
<1>15. QueriesTrue
  <2>1. QueriesServedFirst
    BY <1>7, <1>12 DEF QueriesServedFirst
  <2>2. ASSUME selection # {} PROVE Asks(calls, "load") = {2} /\ RanksAt(2)
    BY <1>7, <1>9, <1>11, <2>2 DEF Asks, RanksAt
  <2>3. QueriesRanked
    BY <1>4, <2>2 DEF QueriesRanked, Last
  <2> QED BY <2>1, <2>3 DEF QueriesTrue
<1> QED BY <1>13, <1>14, <1>15 DEF QueriesInv

\* A request that is served, or fails, is still of its modal.
LEMMA QueriesPut ==
  ASSUME QueriesInv, NEW k \in DOMAIN calls, NEW phase, NEW reply, Becomes(k, phase, reply), view' = view,
         Counted', spent'.inOrder = spent.inOrder, QueriesServer',
         calls[k].op = "saved" /\ phase = "done" => reply \in Plans
  PROVE  QueriesBase' /\ QueriesTyped'
<1>1. Queue(calls) /\ Counted /\ QueriesView /\ QueriesServer /\ (\A j \in DOMAIN calls : QueriesRequest(calls[j]))
  BY DEF QueriesInv, QueriesBase
<1>2. /\ Queue(calls') /\ DOMAIN calls' = DOMAIN calls
      /\ \A j \in DOMAIN calls : calls'[j].op = calls[j].op /\ calls'[j].arg = calls[j].arg
      /\ \A j \in DOMAIN calls : j # k => calls'[j] = calls[j]
      /\ calls'[k].phase = phase /\ calls'[k].reply = reply
  BY <1>1, OneServed
<1>3. ASSUME NEW j \in DOMAIN calls' PROVE QueriesRequest(calls[j])'
  <2>1. QueriesRequest(calls[j]) /\ j \in DOMAIN calls
    BY <1>1, <1>2
  <2>2. calls'[j].op = "saved" /\ calls'[j].phase = "done" => calls'[j].reply \in Plans
    <3>1. CASE j = k
      BY <1>2, <3>1
    <3>2. CASE j # k
      BY <1>2, <2>1, <3>2 DEF QueriesRequest
    <3> QED BY <3>1, <3>2
  <2> QED BY <1>2, <2>1, <2>2 DEF QueriesRequest, OfModal
<1>4. QueriesBase'
  BY <1>1, <1>2, <1>3 DEF QueriesBase, QueriesView, QueriesModal
<1>5. QueriesTyped'
  <2>1. QueriesOnce => QueriesOnce'
    BY <1>2 DEF QueriesOnce
  <2>2. \A nth : Unread(calls, nth) => Unread(calls', nth)
    BY <1>2 DEF Unread
  <2> QED BY <2>1, <2>2 DEF QueriesInv, QueriesTyped
<1> QED BY <1>4, <1>5

\* What a request that is served measures.
MeasuresNow(k, reply, i) == calls[k].op = "analyze" /\ reply # "missing" /\ calls[k].arg.query = i

\* Requests are served in order: what is measured now comes after the rankings that were served.
LEMMA QueriesPlaced ==
  ASSUME QueriesInv, InStep, NEW k \in DOMAIN calls, NEW reply, Becomes(k, "done", reply), view' = view,
         calls[k].phase = "sent", \A j \in 1..(k - 1) : calls[j].phase # "sent",
         \A i \in Instances :
           server'.kept[i] # Rankings!NoPlan <=> server.kept[i] # Rankings!NoPlan \/ MeasuresNow(k, reply, i),
         calls[k].op = "load" => reply = Rankings!Ranking(server, calls[k].arg) /\ server' = server
  PROVE  QueriesServedFirst' /\ QueriesRanked'
<1>1. Queue(calls) /\ view.selection \subseteq Instances /\ QueriesServedFirst /\ QueriesRanked
  BY DEF QueriesInv, QueriesBase, QueriesView, QueriesTrue
<1>2. /\ DOMAIN calls' = DOMAIN calls /\ DOMAIN calls = 1..Len(calls) /\ Len(calls) \in Nat
      /\ \A j \in DOMAIN calls : calls'[j].op = calls[j].op /\ calls'[j].arg = calls[j].arg
      /\ \A j \in DOMAIN calls : j # k => calls'[j] = calls[j]
      /\ calls'[k].phase = "done" /\ calls'[k].reply = reply
  BY <1>1, OneServed
<1>3. \A j \in DOMAIN calls : (j < k => calls[j].phase = "done") /\ (calls[j].phase = "done" => j < k) /\ j \in Nat
  <2> TAKE j \in DOMAIN calls
  <2>1. j \in Nat /\ k \in Nat /\ (j < k => j \in 1..(k - 1))
    BY <1>2
  <2>2. calls[j].phase \in {"sent", "done"} /\ (k < j /\ calls[j].phase = "done" => calls[k].phase # "sent")
    BY <1>1 DEF QueriesServedFirst
  <2> QED BY <2>1, <2>2
<1>4. QueriesServedFirst'
  <2>1. \A j \in DOMAIN calls' : calls'[j].phase \in {"sent", "done"}
    BY <1>1, <1>2 DEF QueriesServedFirst
  <2>2. ASSUME NEW j \in DOMAIN calls', NEW l \in DOMAIN calls', j < l, calls'[l].phase = "done" PROVE calls'[j].phase # "sent"
    <3>1. CASE j = k
      BY <1>2, <3>1
    <3>2. CASE j # k /\ l = k
      BY <1>2, <1>3, <2>2, <3>2
    <3>3. CASE j # k /\ l # k
      BY <1>1, <1>2, <2>2, <3>3 DEF QueriesServedFirst
    <3> QED BY <3>1, <3>2, <3>3
  <2> QED BY <2>1, <2>2 DEF QueriesServedFirst
<1>5. ASSUME NEW n \in Nat, n < k, NEW i PROVE Measured(n, i)' <=> Measured(n, i) \/ MeasuresNow(k, reply, i)
  <2>1. Measures(calls'[k], i) <=> MeasuresNow(k, reply, i)
    BY <1>2 DEF Measures, MeasuresNow
  <2>2. ~Measures(calls[k], i)
    BY DEF Measures
  <2>3. \A j \in DOMAIN calls : j # k => (Measures(calls'[j], i) <=> Measures(calls[j], i))
    BY <1>2
  <2> QED BY <1>2, <1>5, <2>1, <2>2, <2>3 DEF Measured
<1>6. ASSUME NEW n \in Nat, n < k, NEW list, Ranks(list, n) PROVE Ranks(list, n)'
  BY <1>1, <1>5, <1>6 DEF Ranks
<1>7. Asks(calls', "load") = Asks(calls, "load")
  BY <1>2 DEF Asks
<1>8. Rankings!Filters(view)' = Rankings!Filters(view)
  BY DEF Rankings!Filters
<1>9. ASSUME NEW n \in Last(Asks(calls, "load")), RanksAt(n) PROVE RanksAt(n)'
  <2>1. n \in DOMAIN calls /\ calls[n].op = "load" /\ n \in Nat
    BY <1>2, LastAsks
  <2>2. CASE n # k
    <3>1. calls'[n] = calls[n]
      BY <1>2, <2>1, <2>2
    <3>2. PICK list : list = calls[n].reply
      OBVIOUS
    <3>3. calls[n].phase = "done" => Ranks(list, n)'
      BY <1>3, <1>6, <1>9, <2>1, <3>2 DEF RanksAt
    <3> QED BY <1>8, <1>9, <3>1, <3>2, <3>3 DEF RanksAt
  <2>3. CASE n = k
    <3>1. PICK list : list = reply
      OBVIOUS
    <3>2. /\ list = [selection |-> view.selection, sort |-> view.sort,
                     kept |-> {i \in view.selection : server.kept[i] # Rankings!NoPlan}]
          /\ calls[k].arg = Rankings!Filters(view) /\ server' = server
      BY <1>9, <2>1, <2>3, <3>1 DEF RanksAt, Rankings!Ranking, Rankings!Filters
    <3>3. list.kept = {i \in view.selection : server.kept[i] # Rankings!NoPlan}
      BY <3>2
    <3>4. ASSUME NEW i PROVE ~Measured(k, i)'
      <4>1. \A j \in DOMAIN calls : j > k => calls'[j].phase # "done"
        BY <1>2, <1>3
      <4> QED BY <1>2, <4>1 DEF Measured, Measures
    <3>5. Ranks(list, k)'
      BY <3>2, <3>3, <3>4 DEF Ranks
    <3> QED BY <1>2, <1>8, <2>3, <3>1, <3>2, <3>5 DEF RanksAt
  <2> QED BY <2>2, <2>3
<1>10. Ranks(view.list, 0) => Ranks(view.list, 0)'
  <2>1. PICK list : list = view.list
    OBVIOUS
  <2>2. 0 \in Nat /\ 0 < k
    BY <1>2
  <2> QED BY <1>6, <2>1, <2>2
<1>11. QueriesRanked'
  BY <1>1, <1>7, <1>9, <1>10 DEF QueriesRanked
<1> QED BY <1>4, <1>11

\* A measure keeps its plan; a ranking says which ones are kept.
LEMMA QueriesServed ==
  ASSUME QueriesInv, NEW k \in DOMAIN calls, Rankings!ServeOne(k) \/ Rankings!Fail(k)
  PROVE  QueriesInv'
<1>1. Queue(calls) /\ Counted /\ QueriesView /\ QueriesServer /\ QueriesRequest(calls[k])
  BY DEF QueriesInv, QueriesBase
<1>2. CASE Rankings!Fail(k)
  <2>1. /\ spent' = [spent EXCEPT !.moves = @ + 1, !.faults = @ + 1] /\ server' = server /\ view' = view
        /\ Becomes(k, "refused", Rankings!None)
    BY <1>2 DEF Rankings!Fail, Becomes
  <2>2. Counted' /\ spent'.inOrder = spent.inOrder /\ spent'.faults = spent.faults + 1
    BY <1>1, <2>1 DEF Counted
  <2>3. QueriesBase' /\ QueriesTyped'
    BY <1>1, <2>1, <2>2, QueriesPut DEF QueriesServer
  <2>4. ~InStep'
    BY <1>1, <2>2 DEF InStep, Counted
  <2> QED BY <2>3, <2>4 DEF QueriesInv, QueriesTrue
<1>3. CASE Rankings!ServeOne(k)
  <2> DEFINE c == calls[k]
  <2>1. PICK s, reply :
          /\ Rankings!Serve(k, s, reply)
          /\ \/ Rankings!Refused(c) /\ s = server /\ reply = "missing"
             \/ ~Rankings!Refused(c) /\ s = Rankings!Effect(server, c) /\ reply = Rankings!Reply(server, c)
    BY <1>3 DEF Rankings!ServeOne
  <2>2. /\ c.phase = "sent" /\ (spent.inOrder => \A j \in 1..(k - 1) : calls[j].phase # "sent")
        /\ server' = s /\ view' = view /\ spent' = spent /\ Becomes(k, "done", reply)
    BY <2>1 DEF Rankings!Serve, Rankings!InOrder, Becomes
  <2>3. c.op = "saved" => reply \in Plans
    BY <1>1, <2>1 DEF Rankings!Refused, Rankings!Reply, QueriesRequest, OfModal, QueriesServer
  <2>4. c.op = "load" => reply = Rankings!Ranking(server, c.arg)
    BY <2>1 DEF Rankings!Refused, Rankings!Reply
  <2>5. \/ server' = server /\ (c.op = "analyze" => reply = "missing")
        \/ /\ c.op = "analyze" /\ reply = c.arg.value /\ c.arg.query \in Instances /\ c.arg.value \in Rankings!Values
           /\ server' = [server EXCEPT !.kept[c.arg.query] = c.arg.value]
    <3>1. CASE c.op = "analyze" /\ ~Rankings!Refused(c)
      BY <1>1, <2>1, <2>2, <3>1 DEF Rankings!Effect, Rankings!Reply, QueriesRequest, OfModal
    <3>2. CASE Rankings!Refused(c)
      BY <2>1, <2>2, <3>2
    <3>3. CASE c.op # "analyze"
      BY <2>1, <2>2, <3>3 DEF Rankings!Effect
    <3> QED BY <3>1, <3>2, <3>3
  <2>6. /\ QueriesServer'
        /\ \A i \in Instances :
             server'.kept[i] # Rankings!NoPlan <=> server.kept[i] # Rankings!NoPlan \/ MeasuresNow(k, reply, i)
    <3>1. CASE server' = server /\ (c.op = "analyze" => reply = "missing")
      BY <1>1, <3>1 DEF QueriesServer, MeasuresNow
    <3>2. CASE /\ c.op = "analyze" /\ reply = c.arg.value /\ c.arg.query \in Instances /\ c.arg.value \in Rankings!Values
               /\ server' = [server EXCEPT !.kept[c.arg.query] = c.arg.value]
      <4>1. server'.kept = [server.kept EXCEPT ![c.arg.query] = c.arg.value] /\ DOMAIN server' = DOMAIN server
        BY <1>1, <3>2 DEF QueriesServer
      <4>2. c.arg.value \in Plans /\ c.arg.value # Rankings!NoPlan /\ c.arg.value # "missing"
        BY <3>2, PlansAre DEF Rankings!Values
      <4> HIDE DEF c
      <4>3. DOMAIN server.kept = Instances /\ server'.kept \in [Instances -> Plans]
        BY <1>1, <4>1, <4>2 DEF QueriesServer
      <4>4. \A i \in Instances : server'.kept[i] = IF i = c.arg.query THEN c.arg.value ELSE server.kept[i]
        BY <4>1, <4>3
      <4> QED BY <1>1, <3>2, <4>1, <4>2, <4>3, <4>4 DEF QueriesServer, MeasuresNow, c
    <3> QED BY <2>5, <3>1, <3>2
  <2>7. Counted' /\ spent'.inOrder = spent.inOrder
    BY <1>1, <2>2 DEF Counted
  <2>8. QueriesBase' /\ QueriesTyped'
    BY <2>2, <2>3, <2>6, <2>7, QueriesPut
  <2>9. c.op = "load" => server' = server
    BY <2>5
  <2>10. QueriesTrue'
    <3> SUFFICES ASSUME InStep' PROVE QueriesServedFirst' /\ QueriesRanked'
      BY DEF QueriesTrue
    <3>1. InStep /\ spent.inOrder
      BY <2>2 DEF InStep
    <3> QED BY <2>2, <2>4, <2>6, <2>9, <3>1, QueriesPlaced
  <2> QED BY <2>8, <2>10 DEF QueriesInv
<1> QED BY <1>2, <1>3

\* An answer: the modal it is about has its plan, and the ranking is that of the list it brings, or
\* marks what was measured.
LEMMA QueriesSettled ==
  ASSUME QueriesInv, NEW k \in DOMAIN calls, calls[k].phase \in {"done", "refused"}, spent.inOrder => k = 1, server' = server, spent' = spent,
         QueriesView', view'.opened = view.opened, NEW n,
         \/ calls' = Others(k) \o << >>
         \/ /\ Shaped(n) /\ n.phase = "sent" /\ n.op = "load" /\ n.arg = Rankings!Filters(view)'
            /\ calls' = Others(k) \o <<n>>,
         \/ view'.modal = view.modal
         \/ /\ view.modal # Rankings!NoModal /\ view'.modal.nth = view.modal.nth
            /\ spent.inOrder => Typed(view'.modal, view.opened)
            /\ view'.modal.required > 0 =>
                 view.modal.required > 0 \/ (calls[k].op \in {"saved", "analyze"} /\ calls[k].arg.nth = view.modal.nth),
         calls[k].phase = "done" =>
           \/ Shaped(n) /\ calls' = Others(k) \o <<n>> /\ n.op = "load" /\ n.arg = Rankings!Filters(view)' /\ n.phase = "sent"
           \/ /\ calls' = Others(k) \o << >> /\ view'.selection = view.selection /\ view'.sort = view.sort
              /\ calls[k].op = "load" => view'.list = calls[k].reply
              /\ calls[k].op # "load" =>
                   view'.list = IF calls[k].op = "analyze" /\ calls[k].reply # "missing" /\ calls[k].arg.query \in view.list.selection
                                THEN [view.list EXCEPT !.kept = @ \union {calls[k].arg.query}] ELSE view.list
  PROVE  QueriesInv'
<1>1. Queue(calls) /\ Counted /\ QueriesView /\ QueriesServer /\ (\A j \in DOMAIN calls : QueriesRequest(calls[j]))
  BY DEF QueriesInv, QueriesBase
<1>2. calls' = Others(k) \o << >> \/ (Shaped(n) /\ calls' = Others(k) \o <<n>>)
  OBVIOUS
<1>3. /\ Queue(calls') /\ Len(calls) \in Nat \ {0} /\ DOMAIN calls = 1..Len(calls)
      /\ \A j \in DOMAIN calls : j # k => Moved(k, j) \in DOMAIN calls' /\ calls'[Moved(k, j)] = calls[j]
      /\ \A i \in DOMAIN calls' : i \in 1..Len(calls)
      /\ \A i \in DOMAIN calls' :
           \/ Came(k, i) \in DOMAIN calls /\ Came(k, i) # k /\ calls'[i] = calls[Came(k, i)]
           \/ i = Len(calls) /\ calls'[i] = n
  BY <1>1, <1>2, Answers
<1>4. \A i \in DOMAIN calls' : \/ \E j \in DOMAIN calls : j # k /\ calls'[i] = calls[j]
                               \/ Shaped(n) /\ calls' = Others(k) \o <<n>> /\ calls'[i] = n
  <2>1. CASE calls' = Others(k) \o << >>
    BY <1>1, <2>1, OneAnswered
  <2>2. CASE Shaped(n) /\ calls' = Others(k) \o <<n>>
    BY <1>3, <2>2
  <2> QED BY <1>2, <2>1, <2>2
<1>5. QueriesBase'
  <2>1. ASSUME NEW i \in DOMAIN calls' PROVE QueriesRequest(calls[i])'
    <3>1. CASE \E j \in DOMAIN calls : calls'[i] = calls[j]
      <4>1. PICK j \in DOMAIN calls : calls'[i] = calls[j]
        BY <3>1
      <4>2. QueriesRequest(calls[j])
        BY <1>1
      <4> QED BY <4>1, <4>2 DEF QueriesRequest, OfModal
    <3>2. CASE calls'[i] = n /\ calls' = Others(k) \o <<n>> /\ n.op = "load"
      BY <3>2 DEF QueriesRequest, OfModal
    <3>3. CASE calls'[i] = n /\ calls' = Others(k) \o << >>
      <4>1. \E j \in DOMAIN calls : calls'[i] = calls[j]
        BY <1>1, <3>3, OneAnswered
      <4> QED BY <3>1, <4>1
    <3> QED BY <1>4, <3>1, <3>2, <3>3
  <2> QED BY <1>1, <1>3, <2>1 DEF QueriesBase, QueriesServer, Counted
<1>6. ASSUME spent.inOrder
      PROVE  /\ k = 1 /\ 1 \in DOMAIN calls /\ \A i \in DOMAIN calls' : i \in Nat /\ Came(1, i) = i + 1
             /\ \A i \in DOMAIN calls' : \/ i + 1 \in DOMAIN calls /\ calls'[i] = calls[i + 1]
                                         \/ calls'[i] = n /\ n.op = "load" /\ n.phase = "sent" /\ calls' = Others(1) \o <<n>>
             /\ \A j \in DOMAIN calls : j # 1 => j - 1 \in DOMAIN calls' /\ calls'[j - 1] = calls[j]
  <2>1. k = 1 /\ 1 \in DOMAIN calls
    BY <1>6
  <2>2. \A i \in DOMAIN calls' : i \in Nat /\ Came(1, i) = i + 1
    BY <1>3 DEF Came
  <2>3. \A j \in DOMAIN calls : j # 1 => j - 1 \in DOMAIN calls' /\ calls'[j - 1] = calls[j]
    BY <1>3, <2>1 DEF Moved
  <2>4. ASSUME NEW i \in DOMAIN calls'
        PROVE  \/ i + 1 \in DOMAIN calls /\ calls'[i] = calls[i + 1]
               \/ calls'[i] = n /\ n.op = "load" /\ n.phase = "sent" /\ calls' = Others(1) \o <<n>>
    <3>1. CASE calls' = Others(1) \o << >>
      BY <1>1, <2>1, <2>2, <2>4, <3>1, OneAnswered
    <3>2. CASE /\ Shaped(n) /\ n.phase = "sent" /\ n.op = "load" /\ calls' = Others(1) \o <<n>>
      BY <1>3, <2>1, <2>2, <3>2
    <3> QED BY <2>1, <3>1, <3>2
  <2> QED BY <2>1, <2>2, <2>3, <2>4
<1>7. QueriesTyped'
  <2> SUFFICES ASSUME spent.inOrder PROVE QueriesTyped'
    BY DEF QueriesTyped
  <2>1. QueriesOnce /\ (view.modal # Rankings!NoModal =>
          Typed(view.modal, view.opened) /\ (view.modal.required > 0 => Unread(calls, view.modal.nth)))
    BY DEF QueriesInv, QueriesTyped
  <2>2. \A i \in DOMAIN calls' : calls'[i].op = "saved" \/ calls'[i].op = "analyze" =>
          i \in Nat /\ i + 1 \in DOMAIN calls /\ calls'[i] = calls[i + 1]
    BY <1>6
  <2>3. QueriesOnce'
    <3> SUFFICES ASSUME NEW i \in DOMAIN calls', NEW j \in DOMAIN calls', calls'[i].op = "saved",
                        calls'[j].op \in {"saved", "analyze"}, calls'[i].arg.nth = calls'[j].arg.nth
                 PROVE  i <= j
      BY DEF QueriesOnce
    <3>1. /\ i \in Nat /\ i + 1 \in DOMAIN calls /\ calls'[i] = calls[i + 1]
          /\ j \in Nat /\ j + 1 \in DOMAIN calls /\ calls'[j] = calls[j + 1]
      BY <2>2
    <3>2. i + 1 <= j + 1
      BY <2>1, <3>1 DEF QueriesOnce
    <3> QED BY <3>1, <3>2
  <2>4. \A nth : Unread(calls, nth) => Unread(calls', nth)
    BY <2>2 DEF Unread
  <2>5. ASSUME calls[1].op \in {"saved", "analyze"} PROVE Unread(calls', calls[1].arg.nth)
    <3> SUFFICES ASSUME NEW i \in DOMAIN calls', calls'[i].op = "saved", calls'[i].arg.nth = calls[1].arg.nth PROVE FALSE
      BY DEF Unread
    <3>1. i \in Nat /\ i + 1 \in DOMAIN calls /\ calls'[i] = calls[i + 1] /\ i \in 1..Len(calls)
      BY <1>3, <2>2
    <3>2. i + 1 <= 1
      BY <1>6, <2>1, <2>5, <3>1 DEF QueriesOnce
    <3> QED BY <1>3, <3>1, <3>2
  <2>6. CASE view'.modal = view.modal
    BY <2>1, <2>3, <2>4, <2>6 DEF QueriesTyped
  <2>7. CASE /\ view.modal # Rankings!NoModal /\ view'.modal.nth = view.modal.nth
             /\ spent.inOrder => Typed(view'.modal, view.opened)
             /\ view'.modal.required > 0 =>
                  view.modal.required > 0 \/ (calls[k].op \in {"saved", "analyze"} /\ calls[k].arg.nth = view.modal.nth)
    <3>1. view'.modal.required > 0 => Unread(calls', view'.modal.nth)
      BY <1>6, <2>1, <2>4, <2>5, <2>7
    <3> QED BY <2>3, <2>7, <3>1 DEF QueriesTyped
  <2> QED BY <2>6, <2>7
<1>8. QueriesTrue'
  <2> SUFFICES ASSUME InStep' PROVE QueriesServedFirst' /\ QueriesRanked'
    BY DEF QueriesTrue
  <2>1. InStep /\ spent.inOrder /\ QueriesServedFirst /\ QueriesRanked
    BY DEF InStep, QueriesInv, QueriesTrue
  <2>2. QueriesServedFirst'
    <3>1. ASSUME NEW i \in DOMAIN calls' PROVE calls'[i].phase \in {"sent", "done"}
      BY <1>6, <2>1 DEF QueriesServedFirst
    <3>2. ASSUME NEW i \in DOMAIN calls', NEW j \in DOMAIN calls', i < j, calls'[j].phase = "done" PROVE calls'[i].phase # "sent"
      <4>1. j + 1 \in DOMAIN calls /\ calls'[j] = calls[j + 1] /\ i \in Nat /\ j \in Nat
        BY <1>6, <2>1, <3>2
      <4>2. i + 1 \in DOMAIN calls /\ calls'[i] = calls[i + 1]
        <5>1. Len(calls) \in Nat /\ j + 1 <= Len(calls) /\ i + 1 < j + 1 /\ i + 1 \in 1..Len(calls)
          BY <1>3, <3>2, <4>1
        <5>2. i + 1 \in DOMAIN calls /\ i + 1 # 1 /\ (i + 1) - 1 = i
          BY <1>3, <4>1, <5>1
        <5> QED BY <1>6, <2>1, <5>2
      <4>3. i + 1 < j + 1
        BY <3>2, <4>1
      <4> QED BY <2>1, <3>2, <4>1, <4>2, <4>3 DEF QueriesServedFirst
    <3> QED BY <3>1, <3>2 DEF QueriesServedFirst
  <2>3. k = 1 /\ calls[1].phase \in {"sent", "done"} /\ 1 \in DOMAIN calls
    BY <1>6, <2>1 DEF QueriesServedFirst
  <2>4. CASE Shaped(n) /\ calls' = Others(k) \o <<n>> /\ n.op = "load" /\ n.arg = Rankings!Filters(view)' /\ n.phase = "sent"
    <3>1. PICK l : l = Len(calls)
      OBVIOUS
    <3>2. Last(Asks(calls', "load")) = {l} /\ Asks(calls', "load") # {} /\ calls'[l] = n
      BY <1>1, <2>4, <3>1, AsksAgain
    <3>3. RanksAt(l)'
      BY <2>4, <3>2 DEF RanksAt
    <3> QED BY <2>2, <3>2, <3>3 DEF QueriesRanked
  <2>5. CASE /\ calls' = Others(1) \o << >> /\ view'.selection = view.selection /\ view'.sort = view.sort
             /\ calls[1].op = "load" => view'.list = calls[1].reply
             /\ calls[1].op # "load" =>
                  view'.list = IF calls[1].op = "analyze" /\ calls[1].reply # "missing" /\ calls[1].arg.query \in view.list.selection
                               THEN [view.list EXCEPT !.kept = @ \union {calls[1].arg.query}] ELSE view.list
    <3>1. /\ \A i \in Last(Asks(calls', "load")) :
               i + 1 \in Last(Asks(calls, "load")) /\ i + 1 \in DOMAIN calls /\ calls'[i] = calls[i + 1]
          /\ Asks(calls', "load") = {} => Asks(calls, "load") = {} \/ 1 \in Last(Asks(calls, "load"))
          /\ \A j \in DOMAIN calls : j # 1 => j - 1 \in DOMAIN calls' /\ calls'[j - 1] = calls[j]
          /\ \A i \in DOMAIN calls' : i + 1 \in DOMAIN calls /\ calls'[i] = calls[i + 1]
      BY <1>1, <2>3, <2>5, AsksAnswered
    <3>2. \A i \in DOMAIN calls' : i \in Nat \ {0}
      BY <1>3
    <3>3. \A j \in DOMAIN calls : j \in Nat \ {0}
      BY <1>3
    <3>4. ASSUME NEW l \in Nat, NEW x PROVE Measured(l, x)' <=> Measured(l + 1, x)
      <4>1. ASSUME NEW j \in DOMAIN calls', j > l, Measures(calls'[j], x) PROVE Measured(l + 1, x)
        <5>1. j + 1 \in DOMAIN calls /\ calls'[j] = calls[j + 1] /\ j + 1 > l + 1
          BY <3>1, <3>2, <4>1
        <5> QED BY <4>1, <5>1 DEF Measured
      <4>2. ASSUME NEW j \in DOMAIN calls, j > l + 1, Measures(calls[j], x) PROVE Measured(l, x)'
        <5>1. j # 1 /\ j - 1 > l
          BY <3>3, <4>2
        <5>2. j - 1 \in DOMAIN calls' /\ calls'[j - 1] = calls[j]
          BY <3>1, <5>1
        <5>3. PICK i : i = j - 1
          OBVIOUS
        <5> QED BY <4>2, <5>1, <5>2, <5>3 DEF Measured, Measures
      <4> QED BY <4>1, <4>2 DEF Measured, Measures
    <3>5. ASSUME NEW list, NEW l \in Nat, Ranks(list, l + 1) PROVE Ranks(list, l)'
      BY <2>5, <3>4, <3>5 DEF Ranks
    <3>6. Rankings!Filters(view)' = Rankings!Filters(view)
      BY <2>5 DEF Rankings!Filters
    <3>7. ASSUME view.selection # {}, NEW i \in Last(Asks(calls', "load")) PROVE RanksAt(i)'
      <4>1. i + 1 \in Last(Asks(calls, "load")) /\ calls'[i] = calls[i + 1] /\ i \in Nat
        BY <3>1, <3>2, <3>7, LastAsks
      <4>2. RanksAt(i + 1)
        BY <2>1, <3>7, <4>1 DEF QueriesRanked
      <4>3. PICK list : list = calls[i + 1].reply
        OBVIOUS
      <4>4. calls[i + 1].phase = "done" => Ranks(list, i)'
        BY <3>5, <4>1, <4>2, <4>3 DEF RanksAt
      <4> QED BY <3>6, <4>1, <4>2, <4>3, <4>4 DEF RanksAt
    <3>8. ASSUME view.selection # {}, Asks(calls', "load") = {} PROVE Ranks(view.list, 0)'
      <4>1. CASE Asks(calls, "load") = {}
        <5>1. Ranks(view.list, 0) /\ calls[1].op # "load"
          BY <2>1, <2>3, <3>8, <4>1 DEF QueriesRanked, Asks
        <5>2. \A x : Measured(0, x) <=> Measures(calls[1], x) \/ Measured(0 + 1, x)
          <6>1. \A j \in DOMAIN calls : j > 0 /\ (j = 1 \/ j > 0 + 1)
            BY <3>3
          <6> QED BY <2>3, <6>1 DEF Measured
        <5>3. \A x : Measured(0, x) <=> Measures(calls[1], x) \/ Measured(0, x)'
          BY <3>4, <5>2
        <5>4. PICK old, new : old = view.list /\ new = view'.list
          OBVIOUS
        <5>5. /\ old = [selection |-> view.selection, sort |-> view.sort, kept |-> old.kept] /\ old.kept \subseteq view.selection
              /\ \A x \in view.selection : server.kept[x] # Rankings!NoPlan <=> x \in old.kept \/ Measured(0, x)
              /\ old.selection = view.selection
          BY <5>1, <5>4 DEF Ranks
        <5>6. /\ new = [selection |-> view.selection, sort |-> view.sort, kept |-> new.kept] /\ new.kept \subseteq view.selection
              /\ \A x \in view.selection : x \in new.kept <=> x \in old.kept \/ Measures(calls[1], x)
          <6>1. calls[1].phase = "done"
            BY <2>3
          <6>2. CASE calls[1].op = "analyze" /\ calls[1].reply # "missing" /\ calls[1].arg.query \in view.selection
            <7>1. new = [old EXCEPT !.kept = @ \union {calls[1].arg.query}]
              BY <2>5, <5>1, <5>4, <5>5, <6>2
            <7>2. new = [selection |-> view.selection, sort |-> view.sort, kept |-> old.kept \union {calls[1].arg.query}]
              <8>1. \A a, b, c, d : [[selection |-> a, sort |-> b, kept |-> c] EXCEPT !.kept = d] = [selection |-> a, sort |-> b, kept |-> d]
                OBVIOUS
              <8>2. PICK d : d = old.kept \union {calls[1].arg.query}
                OBVIOUS
              <8>3. new = [old EXCEPT !.kept = d]
                BY <7>1, <8>2
              <8>4. PICK c : c = old.kept
                OBVIOUS
              <8>5. old = [selection |-> view.selection, sort |-> view.sort, kept |-> c]
                BY <5>5, <8>4
              <8>6. new = [selection |-> view.selection, sort |-> view.sort, kept |-> d]
                BY <8>1, <8>3, <8>5
              <8> QED BY <8>2, <8>6
            <7>3. new.kept = old.kept \union {calls[1].arg.query}
              BY <7>2
            <7> QED BY <5>5, <6>1, <6>2, <7>2, <7>3 DEF Measures
          <6>3. CASE ~(calls[1].op = "analyze" /\ calls[1].reply # "missing" /\ calls[1].arg.query \in view.selection)
            BY <2>5, <5>1, <5>4, <5>5, <6>3 DEF Measures
          <6> QED BY <6>2, <6>3
        <5>7. Ranks(new, 0)'
          BY <2>5, <5>3, <5>5, <5>6 DEF Ranks
        <5> QED BY <5>4, <5>7
      <4>2. CASE 1 \in Last(Asks(calls, "load"))
        <5>1. RanksAt(1) /\ calls[1].op = "load" /\ calls[1].phase = "done"
          BY <2>1, <2>3, <3>8, <4>2, LastAsks DEF QueriesRanked
        <5>2. PICK list : list = calls[1].reply
          OBVIOUS
        <5>3. Ranks(list, 0 + 1)
          BY <5>1, <5>2 DEF RanksAt
        <5> QED BY <2>5, <3>5, <5>1, <5>2, <5>3
      <4> QED BY <3>1, <3>8, <4>1, <4>2
    <3> QED BY <2>2, <2>5, <3>7, <3>8 DEF QueriesRanked
  <2>6. calls[1].phase = "done"
    BY <2>3
  <2> QED BY <2>3, <2>4, <2>5, <2>6
<1> QED BY <1>5, <1>7, <1>8 DEF QueriesInv

\* The modal an answer is about, when it is still open, changes; the others do not.
LEMMA QueriesInModal ==
  ASSUME QueriesInv, NEW c, NEW m,
         view.modal # Rankings!NoModal /\ view.modal.nth = c.arg.nth =>
           DOMAIN m = DOMAIN view.modal /\ m.nth = view.modal.nth /\ m.query \in Instances /\ m.value \in Rankings!Values
  PROVE  LET v == Rankings!InModal(view, c, m)
         IN  /\ DOMAIN v = DOMAIN view /\ v.selection = view.selection /\ v.sort = view.sort /\ v.list = view.list
             /\ v.opened = view.opened
             /\ \/ v.modal = view.modal
                \/ view.modal # Rankings!NoModal /\ view.modal.nth = c.arg.nth /\ v.modal = m
             /\ v.modal # Rankings!NoModal => QueriesModal(v.modal)
<1>1. QueriesView
  BY DEF QueriesInv, QueriesBase
<1>2. PICK v : v = Rankings!InModal(view, c, m)
  OBVIOUS
<1>3. CASE view.modal # Rankings!NoModal /\ view.modal.nth = c.arg.nth
  <2>1. v = [view EXCEPT !.modal = m]
    BY <1>2, <1>3 DEF Rankings!InModal, Rankings!IsOpen
  <2>2. /\ DOMAIN v = DOMAIN view /\ v.selection = view.selection /\ v.sort = view.sort /\ v.list = view.list
        /\ v.opened = view.opened /\ v.modal = m
    BY <1>1, <2>1 DEF QueriesView, QueriesFields
  <2>3. QueriesModal(m)
    BY <1>1, <1>3 DEF QueriesView, QueriesModal
  <2> QED BY <1>2, <1>3, <2>2, <2>3
<1>4. CASE ~(view.modal # Rankings!NoModal /\ view.modal.nth = c.arg.nth)
  BY <1>1, <1>2, <1>4 DEF Rankings!InModal, Rankings!IsOpen, QueriesView
<1> QED BY <1>3, <1>4

\* An answer leaves in the editor the value that was typed: the plan that was kept comes before one is.
LEMMA QueriesModalTold ==
  ASSUME QueriesInv, NEW k \in DOMAIN calls, view.modal # Rankings!NoModal, view.modal.nth = calls[k].arg.nth, NEW m,
         \/ calls[k].op = "saved" /\ calls[k].phase = "done" /\ m = Rankings!Reread(view.modal, calls[k].reply)
         \/ calls[k].op = "suggest" /\ m = Rankings!Suggested(view.modal)
         \/ calls[k].op = "analyze" /\ m = Rankings!Measured(view.modal, calls[k].reply)
         \/ m = [view.modal EXCEPT !.reading = FALSE]
         \/ m = [view.modal EXCEPT !.suggesting = FALSE, !.error = TRUE]
         \/ m = [view.modal EXCEPT !.busy = FALSE, !.error = TRUE]
  PROVE  /\ DOMAIN m = DOMAIN view.modal /\ m.nth = view.modal.nth /\ m.query \in Instances /\ m.value \in Rankings!Values
         /\ m.required > 0 => view.modal.required > 0 \/ calls[k].op \in {"saved", "analyze"}
         /\ spent.inOrder => Typed(m, view.opened)
<1> DEFINE o == view.modal
<1>1. /\ QueriesModalFields \subseteq DOMAIN o /\ o.query \in Instances /\ o.value \in Rankings!Values
      /\ QueriesRequest(calls[k])
  BY DEF QueriesInv, QueriesBase, QueriesView, QueriesModal
<1>2. spent.inOrder => Typed(o, view.opened) /\ (o.required > 0 => Unread(calls, o.nth))
  BY DEF QueriesInv, QueriesTyped
<1> HIDE DEF o
<1>3. CASE /\ DOMAIN m = DOMAIN o /\ m.nth = o.nth /\ m.query = o.query /\ m.required = o.required
           /\ m.value = o.value /\ m.typed = o.typed
  BY <1>1, <1>2, <1>3 DEF Typed, o
<1>4. CASE \/ m = [o EXCEPT !.reading = FALSE]
           \/ m = [o EXCEPT !.suggesting = FALSE, !.error = TRUE]
           \/ m = [o EXCEPT !.busy = FALSE, !.error = TRUE]
  BY <1>1, <1>3, <1>4 DEF QueriesModalFields
<1>5. CASE calls[k].op = "saved" /\ calls[k].phase = "done" /\ m = Rankings!Reread(o, calls[k].reply)
  <2>1. CASE calls[k].reply = Rankings!NoPlan
    BY <1>4, <1>5, <2>1 DEF Rankings!Reread
  <2>2. CASE calls[k].reply # Rankings!NoPlan
    <3>1. PICK plan : plan = calls[k].reply
      OBVIOUS
    <3>2. plan \in Rankings!Values
      BY <1>1, <1>5, <2>2, <3>1, PlansAre DEF QueriesRequest
    <3>3. m = [o EXCEPT !.reading = FALSE, !.result = plan, !.required = Rankings!RequiredBy(o.query),
                        !.value = IF Rankings!RequiredBy(o.query) > 0 THEN plan ELSE @]
      BY <1>5, <2>2, <3>1 DEF Rankings!Reread
    <3>4. /\ DOMAIN m = DOMAIN o /\ m.nth = o.nth /\ m.query = o.query /\ m.required = Rankings!RequiredBy(o.query)
          /\ m.value \in {plan, o.value} /\ m.typed = o.typed
      BY <1>1, <3>3 DEF QueriesModalFields
    <3>5. ASSUME spent.inOrder PROVE o.typed = Rankings!None
      <4>1. ~Unread(calls, o.nth)
        BY <1>5 DEF Unread, o
      <4> QED BY <1>2, <3>5, <4>1 DEF Typed
    <3> QED BY <1>1, <1>2, <1>5, <3>2, <3>4, <3>5 DEF Typed, o
  <2> QED BY <2>1, <2>2
<1>6. CASE calls[k].op = "suggest" /\ m = Rankings!Suggested(o)
  <2>1. m = [o EXCEPT !.suggesting = FALSE, !.value = IF @ = "" THEN "proposed" ELSE @]
    BY <1>6 DEF Rankings!Suggested
  <2>2. /\ DOMAIN m = DOMAIN o /\ m.nth = o.nth /\ m.query = o.query /\ m.required = o.required
        /\ m.value = (IF o.value = "" THEN "proposed" ELSE o.value) /\ m.typed = o.typed
    BY <1>1, <2>1 DEF QueriesModalFields
  <2>3. CASE o.value = ""
    BY <1>1, <1>2, <2>2, <2>3, PlansAre DEF Typed, o
  <2>4. CASE o.value # ""
    BY <1>3, <2>2, <2>4
  <2> QED BY <2>3, <2>4
<1>7. CASE calls[k].op = "analyze" /\ m = Rankings!Measured(o, calls[k].reply)
  <2>1. /\ DOMAIN m = DOMAIN o /\ m.nth = o.nth /\ m.query = o.query /\ m.required = Rankings!RequiredBy(o.query)
        /\ m.typed = o.typed
        /\ m.value = o.value \/ (m.value = "" /\ o.required # Rankings!RequiredBy(o.query))
    <3>1. CASE calls[k].reply = "missing"
      <4>1. m = [o EXCEPT !.busy = FALSE, !.required = Rankings!RequiredBy(o.query), !.panel = "params", !.error = TRUE,
                          !.value = IF o.required = Rankings!RequiredBy(o.query) THEN @ ELSE ""]
        BY <1>7, <3>1 DEF Rankings!Measured
      <4> QED BY <1>1, <4>1 DEF QueriesModalFields
    <3>2. CASE calls[k].reply # "missing"
      <4>1. m = [o EXCEPT !.busy = FALSE, !.required = Rankings!RequiredBy(o.query), !.panel = Rankings!None,
                          !.result = calls[k].reply]
        BY <1>7, <3>2 DEF Rankings!Measured
      <4> QED BY <1>1, <4>1 DEF QueriesModalFields
    <3> QED BY <3>1, <3>2
  <2>2. Rankings!RequiredBy(o.query) \in {0, 1}
    BY PlansAre
  <2>3. spent.inOrder => Typed(m, view.opened)
    <3> SUFFICES ASSUME spent.inOrder PROVE Typed(m, view.opened)
      OBVIOUS
    <3>1. CASE o.typed = Rankings!None
      BY <1>2, <2>1, <3>1 DEF Typed
    <3>2. CASE o.typed # Rankings!None
      <4>1. o.required = Rankings!RequiredBy(o.query) /\ o.required > 0
        <5>1. o.required > 0 /\ o.required \in {0, Rankings!RequiredBy(o.query)}
          BY <1>2, <3>2 DEF Typed
        <5> QED BY <2>2, <5>1
      <4> QED BY <1>2, <2>1, <3>2, <4>1 DEF Typed
    <3> QED BY <3>1, <3>2
  <2> QED BY <1>1, <1>7, <2>1, <2>3, PlansAre DEF o
<1> QED BY <1>4, <1>5, <1>6, <1>7 DEF o

\* An answer is of the modal that asked it, or of the list and its filters.
LEMMA QueriesAnswered ==
  ASSUME QueriesInv, NEW k \in DOMAIN calls, Rankings!HandleAnswer(k) \/ Rankings!HandleRefusal(k)
  PROVE  QueriesInv'
<1>1. Queue(calls) /\ QueriesView /\ QueriesRequest(calls[k])
  BY DEF QueriesInv, QueriesBase
<1>2. /\ QueriesFields \subseteq DOMAIN view /\ view.opened \in Nat /\ view.selection \subseteq Instances
  BY <1>1 DEF QueriesView
<1>3. PICK c : c = calls[k]
  OBVIOUS
<1>4. /\ c.phase \in {"done", "refused"} /\ (spent.inOrder => k = 1) /\ server' = server /\ spent' = spent
      /\ \/ c.phase = "done" /\ view' = Rankings!Answered(view, c) /\ calls' = Others(k) \o Rankings!Then(view, c)
         \/ c.phase = "refused" /\ view' = Rankings!Refusal(view, c) /\ calls' = Others(k) \o << >>
  BY <1>3 DEF Rankings!HandleAnswer, Rankings!HandleRefusal, Rankings!Settle, Rankings!InOrder, Rankings!Others, Others
<1>5. CASE OfModal(c)
  <2>1. PICK m :
          /\ \/ c.op = "saved" /\ c.phase = "done" /\ m = Rankings!Reread(view.modal, c.reply)
             \/ c.op = "suggest" /\ c.phase = "done" /\ m = Rankings!Suggested(view.modal)
             \/ c.op = "analyze" /\ c.phase = "done" /\ m = Rankings!Measured(view.modal, c.reply)
             \/ c.op = "saved" /\ c.phase = "refused" /\ m = [view.modal EXCEPT !.reading = FALSE]
             \/ c.op = "suggest" /\ c.phase = "refused" /\ m = [view.modal EXCEPT !.suggesting = FALSE, !.error = TRUE]
             \/ c.op = "analyze" /\ c.phase = "refused" /\ m = [view.modal EXCEPT !.busy = FALSE, !.error = TRUE]
          /\ view' = IF c.op = "analyze" /\ c.phase = "done" THEN Rankings!Marked(Rankings!InModal(view, c, m), c)
                     ELSE Rankings!InModal(view, c, m)
          /\ calls' = Others(k) \o << >>
    <3>1. CASE c.op = "saved"
      BY <1>4, <3>1 DEF Rankings!Answered, Rankings!Then, Rankings!Refusal
    <3>2. CASE c.op = "suggest"
      BY <1>4, <3>2 DEF Rankings!Answered, Rankings!Then, Rankings!Refusal
    <3>3. CASE c.op = "analyze"
      BY <1>4, <3>3 DEF Rankings!Answered, Rankings!Then, Rankings!Refusal
    <3> QED BY <1>5, <3>1, <3>2, <3>3 DEF OfModal
  <2>2. view.modal # Rankings!NoModal /\ view.modal.nth = c.arg.nth =>
          /\ DOMAIN m = DOMAIN view.modal /\ m.nth = view.modal.nth /\ m.query \in Instances /\ m.value \in Rankings!Values
          /\ m.required > 0 => view.modal.required > 0 \/ c.op \in {"saved", "analyze"}
          /\ spent.inOrder => Typed(m, view.opened)
    <3> SUFFICES ASSUME view.modal # Rankings!NoModal, view.modal.nth = c.arg.nth
                 PROVE  /\ DOMAIN m = DOMAIN view.modal /\ m.nth = view.modal.nth /\ m.query \in Instances
                        /\ m.value \in Rankings!Values
                        /\ m.required > 0 => view.modal.required > 0 \/ c.op \in {"saved", "analyze"}
                        /\ spent.inOrder => Typed(m, view.opened)
      OBVIOUS
    <3>1. \/ calls[k].op = "saved" /\ calls[k].phase = "done" /\ m = Rankings!Reread(view.modal, calls[k].reply)
          \/ calls[k].op = "suggest" /\ m = Rankings!Suggested(view.modal)
          \/ calls[k].op = "analyze" /\ m = Rankings!Measured(view.modal, calls[k].reply)
          \/ m = [view.modal EXCEPT !.reading = FALSE]
          \/ m = [view.modal EXCEPT !.suggesting = FALSE, !.error = TRUE]
          \/ m = [view.modal EXCEPT !.busy = FALSE, !.error = TRUE]
      BY <1>3, <2>1
    <3>2. view.modal.nth = calls[k].arg.nth
      BY <1>3
    <3> QED BY <1>3, <3>1, <3>2, QueriesModalTold
  <2>3. PICK v : v = Rankings!InModal(view, c, m)
    OBVIOUS
  <2>4. /\ DOMAIN v = DOMAIN view /\ v.selection = view.selection /\ v.sort = view.sort /\ v.list = view.list
        /\ v.opened = view.opened
        /\ \/ v.modal = view.modal
           \/ view.modal # Rankings!NoModal /\ view.modal.nth = c.arg.nth /\ v.modal = m
        /\ v.modal # Rankings!NoModal => QueriesModal(v.modal)
    BY <2>2, <2>3, QueriesInModal
  <2>5. /\ DOMAIN view' = DOMAIN view /\ view'.selection = view.selection /\ view'.sort = view.sort
        /\ view'.opened = view.opened /\ view'.modal = v.modal
        /\ c.phase = "done" =>
             view'.list = IF c.op = "analyze" /\ c.reply # "missing" /\ c.arg.query \in view.list.selection
                          THEN [view.list EXCEPT !.kept = @ \union {c.arg.query}] ELSE view.list
    <3>1. CASE ~(c.op = "analyze" /\ c.phase = "done" /\ c.reply # "missing" /\ c.arg.query \in view.list.selection)
      <4>1. view' = v
        BY <2>1, <2>3, <2>4, <3>1 DEF Rankings!Marked
      <4> QED BY <2>4, <3>1, <4>1
    <3>2. CASE c.op = "analyze" /\ c.phase = "done" /\ c.reply # "missing" /\ c.arg.query \in view.list.selection
      <4>1. view' = [v EXCEPT !.list.kept = @ \union {c.arg.query}]
        BY <2>1, <2>3, <2>4, <3>2 DEF Rankings!Marked
      <4>2. view'.list = [v.list EXCEPT !.kept = @ \union {c.arg.query}] /\ DOMAIN view' = DOMAIN v
        BY <1>2, <2>4, <4>1 DEF QueriesFields
      <4>3. /\ view'.selection = v.selection /\ view'.sort = v.sort /\ view'.opened = v.opened /\ view'.modal = v.modal
        BY <1>2, <2>4, <4>1 DEF QueriesFields
      <4> QED BY <2>4, <3>2, <4>2, <4>3
    <3> QED BY <3>1, <3>2
  <2>6. QueriesView'
    <3>1. view'.modal # Rankings!NoModal => QueriesModal(v.modal)
      BY <2>4, <2>5
    <3> QED BY <1>2, <2>5, <3>1 DEF QueriesView, QueriesModal
  <2>7. \/ view'.modal = view.modal
        \/ /\ view.modal # Rankings!NoModal /\ view'.modal.nth = view.modal.nth
           /\ spent.inOrder => Typed(view'.modal, view.opened)
           /\ view'.modal.required > 0 =>
                view.modal.required > 0 \/ (calls[k].op \in {"saved", "analyze"} /\ calls[k].arg.nth = view.modal.nth)
    <3>1. CASE v.modal = view.modal
      BY <2>5, <3>1
    <3>2. CASE view.modal # Rankings!NoModal /\ view.modal.nth = c.arg.nth /\ v.modal = m
      BY <1>3, <2>2, <2>5, <3>2
    <3> QED BY <2>4, <3>1, <3>2
  <2>8. calls[k].op # "load"
    BY <1>3, <1>5 DEF OfModal
  <2> QED BY <1>3, <1>4, <2>1, <2>5, <2>6, <2>7, <2>8, QueriesSettled
<1>6. CASE c.op = "load"
  <2>1. calls' = Others(k) \o << >>
    BY <1>4, <1>6 DEF Rankings!Then
  <2>2. \/ c.phase = "done" /\ view' = [view EXCEPT !.list = c.reply, !.loading = FALSE, !.error = FALSE]
        \/ c.phase = "refused" /\ view' = [view EXCEPT !.loading = FALSE, !.error = TRUE]
    BY <1>4, <1>6 DEF Rankings!Answered, Rankings!Refusal
  <2>3. /\ DOMAIN view' = DOMAIN view /\ view'.selection = view.selection /\ view'.sort = view.sort
        /\ view'.opened = view.opened /\ view'.modal = view.modal
        /\ c.phase = "done" => view'.list = c.reply
    <3>1. CASE c.phase = "done" /\ view' = [view EXCEPT !.list = c.reply, !.loading = FALSE, !.error = FALSE]
      BY <1>2, <3>1 DEF QueriesFields
    <3>2. CASE c.phase = "refused" /\ view' = [view EXCEPT !.loading = FALSE, !.error = TRUE]
      BY <1>2, <3>2 DEF QueriesFields
    <3> QED BY <2>2, <3>1, <3>2
  <2>4. QueriesView'
    BY <1>1, <1>2, <2>3 DEF QueriesView, QueriesModal
  <2> QED BY <1>3, <1>4, <1>6, <2>1, <2>3, <2>4, QueriesSettled
<1>7. CASE c.op = "instances"
  <2>1. CASE c.phase = "done" /\ Rankings!MustChoose(view, c)
    <3>1. PICK v : v = [[view EXCEPT !.instances = TRUE] EXCEPT !.selection = {Rankings!First}, !.sort = c.arg.sort]
      OBVIOUS
    <3>2. DOMAIN v = DOMAIN view /\ v.selection = {Rankings!First} /\ v.sort = c.arg.sort /\ v.modal = view.modal /\ v.opened = view.opened
      BY <1>2, <3>1 DEF QueriesFields
    <3>3. view' = Rankings!Loading(v)
      BY <1>4, <1>7, <2>1, <3>1 DEF Rankings!Answered, Rankings!Chosen, Rankings!Filtered
    <3>4. /\ DOMAIN view' = DOMAIN view /\ view'.selection = {Rankings!First} /\ view'.sort = c.arg.sort /\ view'.modal = view.modal
          /\ view'.opened = view.opened
      BY <1>2, <3>2, <3>3, QueriesLoading
    <3>5. PICK n : n = Rankings!Request("load", Rankings!FirstOnly(c))
      OBVIOUS
    <3>6. Shaped(n) /\ n.phase = "sent" /\ n.op = "load" /\ n.arg = Rankings!FirstOnly(c) /\ calls' = Others(k) \o <<n>>
      BY <1>4, <1>7, <2>1, <3>5, QueriesAsk DEF Rankings!Then
    <3>7. n.arg = Rankings!Filters(view)'
      BY <3>4, <3>6 DEF Rankings!FirstOnly, Rankings!Filters
    <3>8. QueriesView'
      <4>1. Rankings!First \in Instances
        BY <2>1 DEF Rankings!MustChoose, Rankings!First
      <4> QED BY <1>1, <1>2, <3>4, <4>1, PlansAre DEF QueriesView, QueriesModal
    <3> QED BY <1>3, <1>4, <3>4, <3>6, <3>7, <3>8, QueriesSettled
  <2>2. CASE c.phase = "refused" \/ ~Rankings!MustChoose(view, c)
    <3>1. calls' = Others(k) \o << >> /\ (view' = view \/ view' = [view EXCEPT !.instances = TRUE])
      BY <1>4, <1>7, <2>2 DEF Rankings!Answered, Rankings!Chosen, Rankings!Then, Rankings!Refusal
    <3>2. /\ DOMAIN view' = DOMAIN view /\ view'.selection = view.selection /\ view'.sort = view.sort
          /\ view'.opened = view.opened /\ view'.modal = view.modal /\ view'.list = view.list
      BY <1>2, <3>1 DEF QueriesFields
    <3>3. QueriesView'
      BY <1>1, <1>2, <3>2 DEF QueriesView, QueriesModal
    <3> QED BY <1>3, <1>4, <1>7, <3>1, <3>2, <3>3, QueriesSettled
  <2> QED BY <1>4, <2>1, <2>2
<1> QED BY <1>1, <1>3, <1>5, <1>6, <1>7 DEF QueriesRequest

\* Every step of the page keeps it.
LEMMA QueriesStep == QueriesInv /\ Rankings!Next => QueriesInv'
BY QueriesFiltered, QueriesModals, QueriesServed, QueriesAnswered DEF Rankings!Next

\* A step that leaves the page alone preserves the invariant.
LEMMA QueriesStutters == QueriesInv /\ UNCHANGED vars => QueriesInv'
<1> SUFFICES ASSUME QueriesInv, UNCHANGED vars PROVE QueriesInv'
  OBVIOUS
<1>1. view' = view /\ server' = server /\ calls' = calls /\ spent' = spent
  BY DEF vars
<1>2. QueriesBase'
  BY <1>1 DEF QueriesInv, QueriesBase, QueriesServer, QueriesView, Counted, Queue, QueriesRequest, QueriesModal
<1>3. QueriesTyped'
  BY <1>1 DEF QueriesInv, QueriesTyped, QueriesOnce
<1>4. InStep' <=> InStep
  BY <1>1 DEF InStep
<1>5. QueriesServedFirst' <=> QueriesServedFirst
  BY <1>1 DEF QueriesServedFirst
<1>6. \A k, i : Measured(k, i)' <=> Measured(k, i)
  BY <1>1 DEF Measured
<1>7. \A list, k : Ranks(list, k)' <=> Ranks(list, k)
  BY <1>1, <1>6 DEF Ranks
<1>8. \A k : RanksAt(k)' <=> RanksAt(k)
  BY <1>1, <1>7 DEF RanksAt
<1>9. QueriesRanked' <=> QueriesRanked
  BY <1>1, <1>7, <1>8 DEF QueriesRanked
<1> QED BY <1>2, <1>3, <1>4, <1>5, <1>9 DEF QueriesInv, QueriesTrue

\* Once nothing is under way, the ranking is that of the filters and of the plans that are kept, and
\* the value that was typed is on screen.
LEMMA QueriesHold == QueriesInv => Rankings!RankingIsTrue /\ Rankings!TypedValuesStay
<1> SUFFICES ASSUME QueriesInv PROVE Rankings!RankingIsTrue /\ Rankings!TypedValuesStay
  OBVIOUS
<1>1. Rankings!TypedValuesStay
  BY DEF QueriesInv, QueriesTyped, Typed, Rankings!TypedValuesStay, Rankings!InOrder
<1>2. ASSUME Rankings!InOrder, calls = << >>, spent.faults = 0, view.selection # {}
      PROVE  view.list = Rankings!Ranking(server, Rankings!Filters(view))
  <2>1. QueriesRanked /\ Asks(calls, "load") = {}
    BY <1>2 DEF QueriesInv, QueriesTrue, InStep, Rankings!InOrder, Asks
  <2>2. Ranks(view.list, 0)
    BY <1>2, <2>1 DEF QueriesRanked
  <2>3. \A i : ~Measured(0, i)
    BY <1>2 DEF Measured
  <2>4. view.list.kept = {i \in view.selection : server.kept[i] # Rankings!NoPlan}
    BY <2>2, <2>3 DEF Ranks
  <2> QED BY <2>2, <2>4 DEF Ranks, Rankings!Ranking, Rankings!Filters
<1> QED BY <1>1, <1>2 DEF Rankings!RankingIsTrue

-----------------------------------------------------------------------------
(* The catalogue: once nothing is under way, its rules and its refused files are those of the server. *)

CatalogueParts == {"rules", "errors"}

\* What a reading has brought is what the server still holds.
CatalogueGood(c) == \A part \in DOMAIN c.reply : c.reply[part] = Catalogue!Part(server, part)
CatalogueReads ==
  /\ \A k \in DOMAIN calls : calls[k].op \in {"load", "reload"}
  /\ \A k \in Asks(calls, "load") :
       calls[k].phase \in {"sent", "done"} /\ (calls[k].phase = "done" => DOMAIN calls[k].reply = CatalogueParts)
CatalogueFresh ==
  Fresh(Asks(calls, "load"), server.event # Catalogue!None, {k \in DOMAIN calls : CatalogueGood(calls[k])},
        view.rules = server.rules /\ view.errors = server.errors)
\* None of the parts of a reading is served before the requests that came first.
CatalogueUnread(c) == c.phase = "sent" /\ (c.op = "load" => DOMAIN c.reply = {})
CatalogueInOrder ==
  \A j, k \in DOMAIN calls : j < k /\ calls[j].phase = "sent" => CatalogueUnread(calls[k])
CatalogueQuiet ==
  /\ Counted /\ {"rules", "errors", "event"} \subseteq DOMAIN server
  /\ InStep => CatalogueReads /\ CatalogueInOrder /\ CatalogueFresh

\* What is asked last is served last.
LEMMA CatalogueAsked ==
  ASSUME Queue(calls), CatalogueInOrder, NEW n, Shaped(n), CatalogueUnread(n), calls' = calls \o <<n>> \/ calls' = Append(calls, n)
  PROVE  CatalogueInOrder'
<1>1. /\ Len(calls) \in Nat /\ DOMAIN calls = 1..Len(calls) /\ DOMAIN calls' = 1..(Len(calls) + 1)
      /\ \A j \in DOMAIN calls : calls'[j] = calls[j]
      /\ calls'[Len(calls) + 1] = n
  BY OneSent
<1>2. ASSUME NEW j \in DOMAIN calls', NEW k \in DOMAIN calls', j < k, calls'[j].phase = "sent"
      PROVE  CatalogueUnread(calls'[k])
  <2>1. CASE k = Len(calls) + 1
    BY <1>1, <2>1
  <2>2. CASE k # Len(calls) + 1
    <3>1. j \in DOMAIN calls /\ k \in DOMAIN calls
      BY <1>1, <1>2, <2>2
    <3> QED BY <1>1, <1>2, <3>1 DEF CatalogueInOrder
  <2> QED BY <2>1, <2>2
<1> QED BY <1>2 DEF CatalogueInOrder, CatalogueUnread

\* The first request that waits is served, in part or in whole.
LEMMA CatalogueTurn ==
  ASSUME Queue(calls), CatalogueInOrder, NEW k \in DOMAIN calls, NEW phase, NEW reply, Becomes(k, phase, reply),
         calls[k].phase = "sent", \A j \in 1..(k - 1) : calls[j].phase # "sent"
  PROVE  CatalogueInOrder'
<1>1. /\ Len(calls) \in Nat /\ DOMAIN calls = 1..Len(calls) /\ DOMAIN calls' = DOMAIN calls
      /\ \A j \in DOMAIN calls : j # k => calls'[j] = calls[j]
  BY OneServed
<1>2. ASSUME NEW i \in DOMAIN calls', NEW j \in DOMAIN calls', i < j, calls'[i].phase = "sent"
      PROVE  CatalogueUnread(calls'[j])
  <2>1. i \in DOMAIN calls /\ j \in DOMAIN calls
    BY <1>1
  <2>2. calls[i].phase = "sent"
    BY <1>1, <1>2, <2>1
  <2>3. ~(i < k)
    BY <1>1, <2>1, <2>2
  <2>4. j # k
    BY <1>1, <1>2, <2>1, <2>3
  <2> QED BY <1>1, <1>2, <2>1, <2>2, <2>4 DEF CatalogueInOrder
<1> QED BY <1>2 DEF CatalogueInOrder, CatalogueUnread

\* The first request leaves, and may ask for a reading.
LEMMA CatalogueLeft ==
  ASSUME Queue(calls), CatalogueInOrder, 1 \in DOMAIN calls, NEW n,
         calls' = Others(1) \o << >> \/ (Shaped(n) /\ CatalogueUnread(n) /\ calls' = Others(1) \o <<n>>)
  PROVE  CatalogueInOrder'
<1>1. Len(calls) \in Nat \ {0} /\ DOMAIN calls = 1..Len(calls)
  BY QueueNumbers
<1>2. \A i \in DOMAIN calls' : i \in 1..Len(calls)
  BY Answers
<1>3. \A i \in DOMAIN calls' :
        \/ Came(1, i) \in DOMAIN calls /\ calls'[i] = calls[Came(1, i)]
        \/ i = Len(calls) /\ CatalogueUnread(calls'[i])
  <2>1. CASE calls' = Others(1) \o << >>
    BY <2>1, OneAnswered
  <2>2. CASE Shaped(n) /\ CatalogueUnread(n) /\ calls' = Others(1) \o <<n>>
    BY <2>2, Answers
  <2> QED BY <2>1, <2>2
<1>4. \A i \in DOMAIN calls' : Came(1, i) = i + 1
  BY <1>2 DEF Came
<1>5. ASSUME NEW j \in DOMAIN calls', NEW k \in DOMAIN calls', j < k, calls'[j].phase = "sent"
      PROVE  CatalogueUnread(calls'[k])
  <2>1. CASE k = Len(calls) /\ CatalogueUnread(calls'[k])
    BY <2>1
  <2>2. CASE k + 1 \in DOMAIN calls /\ calls'[k] = calls[k + 1]
    <3>1. j + 1 \in DOMAIN calls /\ calls'[j] = calls[j + 1]
      BY <1>1, <1>2, <1>3, <1>4, <1>5, <2>2
    <3>2. j + 1 < k + 1 /\ calls[j + 1].phase = "sent"
      BY <1>1, <1>2, <1>5, <3>1
    <3> QED BY <2>2, <3>1, <3>2 DEF CatalogueInOrder
  <2> QED BY <1>3, <1>4, <2>1, <2>2
<1> QED BY <1>5 DEF CatalogueInOrder, CatalogueUnread

\* A reading starts with none of its parts.
LEMMA CatalogueLoad ==
  \A from : LET n == Catalogue!Load(from)
            IN  Shaped(n) /\ n.op = "load" /\ n.phase = "sent" /\ DOMAIN n.reply = {}
<1>1. DOMAIN << >> = {}
  OBVIOUS
<1> QED BY <1>1 DEF Catalogue!Load, Catalogue!Request, Shaped

\* A reading that is sent, or sent again, is the last one, and nothing it brought is wrong.
LEMMA CatalogueAgain ==
  ASSUME NEW l, Last(Asks(calls', "load")) = {l}, Asks(calls', "load") # {}, l \in DOMAIN calls', DOMAIN calls'[l].reply = {}
  PROVE  CatalogueFresh'
<1>1. CatalogueGood(calls[l])'
  BY DEF CatalogueGood
<1> QED BY <1>1 DEF CatalogueFresh, Fresh

\* The page opens on a reading.
LEMMA CatalogueInit == Catalogue!Init => CatalogueQuiet
<1> SUFFICES ASSUME Catalogue!Init PROVE CatalogueQuiet
  OBVIOUS
<1>1. PICK n : n = Catalogue!Load("page")
  OBVIOUS
<1>2. Shaped(n) /\ n.op = "load" /\ n.phase = "sent" /\ DOMAIN n.reply = {} /\ calls = <<n>>
  BY <1>1, CatalogueLoad DEF Catalogue!Init
<1>3. DOMAIN calls = {1} /\ calls[1] = n
  BY <1>2, Asked
<1>4. Counted
  <2>1. PICK ordered \in OrdersOn("rules") :
          spent = LET bounds == [moves |-> 0, faults |-> 0, inOrder |-> ordered]
                  IN  [x \in DOMAIN bounds \union DOMAIN Catalogue!NoHistory |->
                         IF x \in DOMAIN bounds THEN bounds[x] ELSE Catalogue!NoHistory[x]]
    BY DEF Catalogue!Init, Catalogue!Unspent
  <2> QED BY <2>1, Opens
<1>5. {"rules", "errors", "event"} \subseteq DOMAIN server
  BY DEF Catalogue!Init
<1>6. Asks(calls, "load") = {1}
  BY <1>2, <1>3 DEF Asks
<1>7. CatalogueReads /\ CatalogueInOrder
  BY <1>2, <1>3, <1>6 DEF CatalogueReads, CatalogueInOrder
<1>8. CatalogueGood(calls[1])
  BY <1>2, <1>3 DEF CatalogueGood
<1>9. Last(Asks(calls, "load")) = {1}
  BY <1>6 DEF Last
<1>10. CatalogueFresh
  BY <1>3, <1>6, <1>8, <1>9 DEF CatalogueFresh, Fresh
<1> QED BY <1>4, <1>5, <1>7, <1>10 DEF CatalogueQuiet

\* What was announced is lost.
LEMMA CatalogueLost == ASSUME CatalogueQuiet, Catalogue!EventLost PROVE CatalogueQuiet'
<1>1. server' = [server EXCEPT !.event = Catalogue!Lost] /\ UNCHANGED <<view, calls, spent>>
  BY DEF Catalogue!EventLost
<1>2. server'.event # Catalogue!None /\ DOMAIN server' = DOMAIN server
  BY <1>1 DEF CatalogueQuiet, Catalogue!None, Catalogue!Lost
<1> QED BY <1>1, <1>2 DEF CatalogueQuiet, CatalogueReads, CatalogueInOrder, CatalogueFresh, Fresh, Asks, Counted, InStep

\* The guard and the files change, and say so.
LEMMA CatalogueChanged ==
  ASSUME RulesInv, CatalogueQuiet,
         \E r \in Rules :
           \/ Catalogue!Rewritten(r)
           \/ \E health \in {{}, {"degraded"}, {"quarantined"}} : Catalogue!Guards(r, health)
  PROVE  CatalogueQuiet'
<1>1. calls' = calls /\ spent' = [spent EXCEPT !.moves = @ + 1]
  BY DEF Catalogue!Rewritten, Catalogue!Guards, Catalogue!Spend
<1>2. server'.event # Catalogue!None /\ DOMAIN server' = DOMAIN server
  <2>1. ASSUME NEW r, NEW health, Catalogue!Guards(r, health)
        PROVE  server'.event # Catalogue!None /\ DOMAIN server' = DOMAIN server
    BY <2>1 DEF Catalogue!Guards, Catalogue!None, CatalogueQuiet
  <2>2. ASSUME NEW r, Catalogue!Rewritten(r) PROVE server'.event # Catalogue!None /\ DOMAIN server' = DOMAIN server
    <3>1. \E e, f : \/ server' = [server EXCEPT !.errors = e, !.event = "reloaded", !.rules = f]
      <4>1. CASE r \in server.errors
        <5>1. PICK e, f : /\ e = server.errors \ {r}
                          /\ f = [x \in DOMAIN server.rules \union {r} |->
                                    IF x = r THEN [Catalogue!Rule(TRUE, {}) EXCEPT !.category = "memory"] ELSE server.rules[x]]
          OBVIOUS
        <5>2. server' = [server EXCEPT !.errors = e, !.event = "reloaded", !.rules = f]
          BY <2>2, <4>1, <5>1 DEF Catalogue!Rewritten, CatalogueQuiet
        <5> QED BY <5>2
      <4>2. CASE r \notin server.errors
        <5>1. PICK e, f : e = server.errors \union {r} /\ f = [x \in DOMAIN server.rules \ {r} |-> server.rules[x]]
          OBVIOUS
        <5>2. server' = [server EXCEPT !.errors = e, !.event = "reloaded", !.rules = f]
          BY <2>2, <4>2, <5>1 DEF Catalogue!Rewritten, CatalogueQuiet
        <5> QED BY <5>2
      <4> QED BY <4>1, <4>2
    <3> QED BY <3>1 DEF Catalogue!None, CatalogueQuiet
  <2> QED BY <2>1, <2>2
<1>3. Spends
  BY <1>1, Spent DEF CatalogueQuiet
<1>4. CatalogueReads /\ CatalogueInOrder => CatalogueReads' /\ CatalogueInOrder'
  BY <1>1 DEF CatalogueReads, CatalogueInOrder, Asks
<1>5. CatalogueFresh'
  BY <1>2 DEF CatalogueFresh, Fresh
<1> QED BY <1>2, <1>3, <1>4, <1>5, StaysInStep DEF CatalogueQuiet, Spends

\* The filters and the order of the table leave the rest.
LEMMA CatalogueTable ==
  ASSUME RulesInv, CatalogueQuiet,
         \/ \E values \in {{}, {"storage"}} : Catalogue!SetFilter("category", values)
         \/ \E values \in {{}, {"enabled"}, {"disabled"}, Catalogue!Watched} : Catalogue!SetFilter("state", values)
         \/ \E column \in Catalogue!Columns : Catalogue!ToggleSort(column)
         \/ Catalogue!ShowGuarded \/ Catalogue!ClearFilters
  PROVE  CatalogueQuiet'
<1>1. Queue(calls) /\ RulesFields \subseteq DOMAIN view
  BY DEF RulesInv
<1>2. view'.rules = view.rules /\ view'.errors = view.errors
  <2>1. CASE \E f : view' = [view EXCEPT !.filters = f]
    BY <1>1, <2>1 DEF RulesFields
  <2>2. CASE \E key, f : view' = [view EXCEPT !.filters[key] = f]
    BY <1>1, <2>2 DEF RulesFields
  <2>3. CASE \E f : view' = [view EXCEPT !.filters.state = f]
    BY <1>1, <2>3 DEF RulesFields
  <2>4. CASE \E c, d : view' = [view EXCEPT !.column = c, !.descending = d]
    BY <1>1, <2>4 DEF RulesFields
  <2> QED BY <2>1, <2>2, <2>3, <2>4
        DEF Catalogue!SetFilter, Catalogue!ToggleSort, Catalogue!ShowGuarded, Catalogue!ClearFilters, Catalogue!Gesture
<1>3. calls' = calls /\ server' = server /\ spent' = [spent EXCEPT !.moves = @ + 1]
  BY <1>1, NothingSent
     DEF Catalogue!SetFilter, Catalogue!ToggleSort, Catalogue!ShowGuarded, Catalogue!ClearFilters, Catalogue!Gesture, Catalogue!Spend
<1>4. Spends
  BY <1>3, Spent DEF CatalogueQuiet
<1>5. CatalogueReads /\ CatalogueInOrder => CatalogueReads' /\ CatalogueInOrder'
  BY <1>3 DEF CatalogueReads, CatalogueInOrder, Asks
<1>6. CatalogueFresh => CatalogueFresh'
  BY <1>2, <1>3 DEF CatalogueFresh, Fresh, Asks, CatalogueGood, Catalogue!Part
<1> QED BY <1>3, <1>4, <1>5, <1>6, StaysInStep DEF CatalogueQuiet, Spends

\* A reload is asked, or an event has the catalogue read again.
LEMMA CatalogueSent ==
  ASSUME RulesInv, CatalogueQuiet, Catalogue!Reload \/ Catalogue!EventArrives
  PROVE  CatalogueQuiet'
<1>1. Queue(calls) /\ RulesFields \subseteq DOMAIN view
  BY DEF RulesInv
<1>2. Spends
  BY Spent DEF CatalogueQuiet, Catalogue!Reload, Catalogue!EventArrives, Catalogue!Gesture, Catalogue!Spend
<1>3. CASE Catalogue!Reload
  <2>1. PICK n : n = Catalogue!Request("reload", Catalogue!None)
    OBVIOUS
  <2>2. Shaped(n) /\ n.op = "reload" /\ CatalogueUnread(n) /\ calls' = calls \o <<n>>
    BY <1>3, <2>1, RulesAsk DEF Catalogue!Reload, Catalogue!Gesture, Catalogue!Request, CatalogueUnread
  <2>3. server' = server /\ view'.rules = view.rules /\ view'.errors = view.errors
    BY <1>1, <1>3 DEF Catalogue!Reload, Catalogue!Gesture, RulesFields
  <2>4. /\ Asks(calls', "load") = Asks(calls, "load")
        /\ \A k \in DOMAIN calls : k \in DOMAIN calls' /\ calls'[k] = calls[k]
    BY <1>1, <2>2, AsksSent
  <2>5. CatalogueReads => CatalogueReads'
    <3>1. \A i \in DOMAIN calls' : (i \in DOMAIN calls /\ calls'[i] = calls[i]) \/ calls'[i] = n
      BY <1>1, <2>2, OneSent
    <3> QED BY <2>2, <3>1 DEF CatalogueReads, Asks
  <2>6. CatalogueFresh => CatalogueFresh'
    <3>1. \A k \in DOMAIN calls : CatalogueGood(calls[k]) => CatalogueGood(calls[k])'
      BY <2>3, <2>4 DEF CatalogueGood, Catalogue!Part
    <3> QED BY <2>3, <2>4, <3>1 DEF CatalogueFresh, Fresh
  <2>7. CatalogueInOrder => CatalogueInOrder'
    BY <1>1, <2>2, CatalogueAsked
  <2> QED BY <1>2, <2>3, <2>5, <2>6, <2>7, StaysInStep DEF CatalogueQuiet, Spends
<1>4. CASE Catalogue!EventArrives
  <2>1. PICK n : n = Catalogue!Load("page")
    OBVIOUS
  <2>2. Shaped(n) /\ n.op = "load" /\ n.phase = "sent" /\ DOMAIN n.reply = {} /\ calls' = Append(calls, n)
    BY <1>4, <2>1, CatalogueLoad DEF Catalogue!EventArrives
  <2>3. DOMAIN server' = DOMAIN server
    BY <1>4 DEF Catalogue!EventArrives
  <2>4. PICK l : l = Len(calls) + 1
    OBVIOUS
  <2>5. /\ Last(Asks(calls', "load")) = {l} /\ Asks(calls', "load") # {} /\ l \in DOMAIN calls' /\ calls'[l] = n
        /\ \A k \in DOMAIN calls : k \in DOMAIN calls' /\ calls'[k] = calls[k]
    BY <1>1, <2>2, <2>4, AsksSent
  <2>6. CatalogueFresh'
    BY <2>2, <2>5, CatalogueAgain
  <2>7. \A i \in DOMAIN calls' : (i \in DOMAIN calls /\ calls'[i] = calls[i]) \/ calls'[i] = n
    BY <1>1, <2>2, OneSent
  <2>8. CatalogueReads /\ CatalogueInOrder => CatalogueReads' /\ CatalogueInOrder'
    BY <1>1, <2>2, <2>7, CatalogueAsked DEF CatalogueReads, CatalogueUnread, Asks
  <2> QED BY <1>2, <2>3, <2>6, <2>8, StaysInStep DEF CatalogueQuiet, Spends
<1> QED BY <1>3, <1>4

\* The two parts of a reading are served apart; a reload is announced.
LEMMA CatalogueServed ==
  ASSUME RulesInv, CatalogueQuiet, NEW k \in DOMAIN calls,
         \/ \E part \in {"rules", "errors"} : Catalogue!ServeLoad(k, part)
         \/ Catalogue!ServeReload(k) \/ Catalogue!Fail(k)
  PROVE  CatalogueQuiet'
<1>1. Queue(calls) /\ Counted /\ {"rules", "errors", "event"} \subseteq DOMAIN server
  BY DEF RulesInv, CatalogueQuiet
<1>2. CASE Catalogue!Fail(k)
  <2>1. spent' = [spent EXCEPT !.moves = @ + 1, !.faults = @ + 1] /\ server' = server
    BY <1>2 DEF Catalogue!Fail
  <2>2. Counted' /\ spent'.faults = spent.faults + 1
    BY <1>1, <2>1 DEF Counted
  <2>3. ~InStep'
    BY <1>1, <2>2 DEF InStep, Counted
  <2> QED BY <1>1, <2>1, <2>2, <2>3 DEF CatalogueQuiet
<1>3. CASE Catalogue!ServeReload(k)
  <2>1. Becomes(k, "done", Catalogue!None) /\ spent' = spent /\ server' = [server EXCEPT !.event = "reloaded"] /\ calls[k].op = "reload"
    BY <1>3 DEF Catalogue!ServeReload, Catalogue!Serve, Becomes
  <2>2. server'.event # Catalogue!None /\ DOMAIN server' = DOMAIN server
    BY <1>1, <2>1 DEF Catalogue!None
  <2>3. /\ DOMAIN calls' = DOMAIN calls /\ \A j \in DOMAIN calls : j # k => calls'[j] = calls[j]
        /\ calls'[k].op = calls[k].op
    BY <1>1, <2>1, OneServed
  <2>6. InStep /\ CatalogueInOrder => CatalogueInOrder'
    BY <1>1, <1>3, <2>1, CatalogueTurn DEF Catalogue!ServeReload, Catalogue!Serve, Catalogue!InOrder, InStep
  <2>4. CatalogueReads => CatalogueReads'
    BY <2>1, <2>3 DEF CatalogueReads, Asks
  <2>5. CatalogueFresh'
    BY <2>2 DEF CatalogueFresh, Fresh
  <2> QED BY <1>1, <2>1, <2>2, <2>4, <2>5, <2>6 DEF CatalogueQuiet, InStep, Counted
<1>4. ASSUME NEW part \in {"rules", "errors"}, Catalogue!ServeLoad(k, part) PROVE CatalogueQuiet'
  <2>1. PICK phase, reply :
          /\ reply = [x \in DOMAIN calls[k].reply \union {part} |-> IF x = part THEN Catalogue!Part(server, part) ELSE calls[k].reply[x]]
          /\ phase = (IF DOMAIN reply = {"rules", "errors"} THEN "done" ELSE "sent")
    OBVIOUS
  <2>2. /\ calls' = [calls EXCEPT ![k].reply = reply, ![k].phase = phase]
        /\ server' = IF DOMAIN calls[k].reply = {} THEN Catalogue!CaughtUp(server) ELSE server
        /\ view' = view /\ spent' = spent /\ calls[k].op = "load" /\ calls[k].phase = "sent"
        /\ InStep => \A j \in 1..(k - 1) : calls[j].phase # "sent"
    BY <1>4, <2>1 DEF Catalogue!ServeLoad, Catalogue!InOrder, InStep
  <2>9. /\ DOMAIN server' = DOMAIN server /\ server'.rules = server.rules /\ server'.errors = server.errors
        /\ server'.event = server.event \/ DOMAIN calls[k].reply = {}
    <3>1. CASE server' = server
      BY <3>1
    <3>2. CASE DOMAIN calls[k].reply = {} /\ server' = Catalogue!CaughtUp(server)
      BY <1>1, <3>2 DEF Catalogue!CaughtUp
    <3> QED BY <2>2, <3>1, <3>2
  <2>3. Becomes(k, phase, reply)
    BY <2>2 DEF Becomes
  <2>4. /\ DOMAIN calls' = DOMAIN calls /\ \A j \in DOMAIN calls : j # k => calls'[j] = calls[j]
        /\ \A j \in DOMAIN calls : calls'[j].op = calls[j].op
        /\ calls'[k].phase = phase /\ calls'[k].reply = reply
    BY <1>1, <2>3, OneServed
  <2>5. CatalogueReads => CatalogueReads'
    BY <2>1, <2>4 DEF CatalogueReads, CatalogueParts, Asks
  <2>6. ASSUME NEW j \in DOMAIN calls, CatalogueGood(calls[j]) PROVE CatalogueGood(calls[j])'
    <3>1. CASE j # k
      BY <2>4, <2>6, <2>9, <3>1 DEF CatalogueGood, Catalogue!Part
    <3>2. CASE j = k
      <4>1. \A x \in DOMAIN reply : reply[x] = Catalogue!Part(server, x)
        BY <2>1, <2>6, <3>2 DEF CatalogueGood
      <4> QED BY <2>4, <2>9, <3>2, <4>1 DEF CatalogueGood, Catalogue!Part
    <3> QED BY <3>1, <3>2
  <2>7. Asks(calls', "load") = Asks(calls, "load")
    BY <2>4 DEF Asks
  <2>8. CatalogueInOrder /\ CatalogueFresh => CatalogueFresh'
    <3>1. CASE server'.event = server.event
      BY <2>2, <2>4, <2>6, <2>7, <2>9, <3>1 DEF CatalogueFresh, Fresh
    <3>2. ASSUME DOMAIN calls[k].reply = {}, CatalogueInOrder PROVE CatalogueFresh'
      <4>1. k \in Asks(calls, "load")
        BY <2>2 DEF Asks
      <4>2. ASSUME NEW j \in Last(Asks(calls, "load")) PROVE j \in DOMAIN calls' /\ CatalogueGood(calls[j])'
        <5>1. j \in DOMAIN calls /\ k <= j /\ calls[j].op = "load"
          BY <4>1 DEF Last, Asks
        <5>2. DOMAIN calls[j].reply = {}
          <6>1. CASE j = k
            BY <3>2, <6>1
          <6>2. CASE j # k
            <7>1. k < j
              BY <1>1, <5>1, <6>2, QueueNumbers
            <7> QED BY <2>2, <3>2, <5>1, <7>1 DEF CatalogueInOrder, CatalogueUnread
          <6> QED BY <6>1, <6>2
        <5>3. CatalogueGood(calls[j])
          BY <5>2 DEF CatalogueGood
        <5> QED BY <2>4, <2>6, <5>1, <5>3
      <4> QED BY <2>7, <4>1, <4>2 DEF CatalogueFresh, Fresh
    <3> QED BY <2>9, <3>1, <3>2
  <2>10. InStep /\ CatalogueInOrder => CatalogueInOrder'
    BY <1>1, <2>2, <2>3, CatalogueTurn
  <2> QED BY <1>1, <2>2, <2>5, <2>8, <2>9, <2>10 DEF CatalogueQuiet, InStep, Counted
<1> QED BY <1>2, <1>3, <1>4

\* What was read is shown; what a reload did is read again.
LEMMA CatalogueAnswered ==
  ASSUME RulesInv, CatalogueQuiet, NEW k \in DOMAIN calls, Catalogue!HandleAnswer(k) \/ Catalogue!HandleRefusal(k)
  PROVE  CatalogueQuiet'
<1>1. Queue(calls) /\ RulesFields \subseteq DOMAIN view /\ Counted /\ {"rules", "errors", "event"} \subseteq DOMAIN server
  BY DEF RulesInv, CatalogueQuiet
<1>2. server' = server /\ spent' = spent /\ (spent.inOrder => k = 1) /\ calls[k].phase \in {"done", "refused"}
  BY DEF Catalogue!HandleAnswer, Catalogue!HandleRefusal, Catalogue!Settle, Catalogue!InOrder
<1>3. Counted' /\ {"rules", "errors", "event"} \subseteq DOMAIN server'
  BY <1>1, <1>2 DEF Counted
<1>4. ASSUME InStep PROVE CatalogueReads' /\ CatalogueInOrder' /\ CatalogueFresh'
  <2>1. k = 1 /\ CatalogueReads /\ CatalogueInOrder /\ CatalogueFresh /\ 1 \in DOMAIN calls
    BY <1>2, <1>4 DEF InStep, CatalogueQuiet
  <2>2. CASE Catalogue!HandleAnswer(k) /\ calls[k].op = "reload"
    <3>1. PICK n : n = Catalogue!Load("reload")
      OBVIOUS
    <3>2. Shaped(n) /\ n.op = "load" /\ n.phase = "sent" /\ DOMAIN n.reply = {} /\ calls' = Others(1) \o <<n>>
      BY <2>1, <2>2, <3>1, CatalogueLoad DEF Catalogue!HandleAnswer, Catalogue!Settle, Catalogue!Then, Catalogue!Others, Others
    <3>3. PICK l : l = Len(calls)
      OBVIOUS
    <3>4. Last(Asks(calls', "load")) = {l} /\ Asks(calls', "load") # {} /\ l \in DOMAIN calls' /\ calls'[l] = n
      BY <1>1, <2>1, <3>2, <3>3, AsksAgain
    <3>5. CatalogueFresh'
      BY <3>2, <3>4, CatalogueAgain
    <3>6. \A i \in DOMAIN calls' : (\E j \in DOMAIN calls : calls'[i] = calls[j]) \/ calls'[i] = n
      BY <1>1, <2>1, <3>2, Answers
    <3>7. CatalogueReads'
      BY <2>1, <3>2, <3>6 DEF CatalogueReads, Asks
    <3>8. CatalogueInOrder'
      BY <1>1, <2>1, <3>2, CatalogueLeft DEF CatalogueUnread
    <3> QED BY <3>5, <3>7, <3>8
  <2>3. CASE ~(Catalogue!HandleAnswer(k) /\ calls[k].op = "reload")
    <3>1. calls' = Others(1) \o << >>
      BY <2>1, <2>3 DEF Catalogue!HandleAnswer, Catalogue!HandleRefusal, Catalogue!Settle, Catalogue!Then, Catalogue!Others, Others
    <3>2. /\ \A i \in Last(Asks(calls', "load")) :
               i + 1 \in Last(Asks(calls, "load")) /\ i + 1 \in DOMAIN calls /\ calls'[i] = calls[i + 1]
          /\ Asks(calls', "load") = {} => Asks(calls, "load") = {} \/ 1 \in Last(Asks(calls, "load"))
          /\ \A i \in DOMAIN calls' : i + 1 \in DOMAIN calls /\ calls'[i] = calls[i + 1]
      BY <1>1, <2>1, <3>1, AsksAnswered
    <3>3. CatalogueReads' /\ CatalogueInOrder'
      BY <1>1, <2>1, <3>1, <3>2, CatalogueLeft DEF CatalogueReads, Asks
    <3>4. calls[1].op # "load" => view'.rules = view.rules /\ view'.errors = view.errors
      <4> SUFFICES ASSUME calls[1].op # "load" PROVE view'.rules = view.rules /\ view'.errors = view.errors
        OBVIOUS
      <4>1. calls[1].op = "reload" /\ Catalogue!HandleRefusal(1)
        BY <2>1, <2>3 DEF CatalogueReads
      <4>2. \E f, l, b, d : view' = [view EXCEPT !.failure = f, !.loading = l, !.reloading = b, !.said = d]
        <5>1. PICK l, b, d : /\ l = (view.loading /\ calls[1].op # "load")
                             /\ b = (view.reloading /\ ~(calls[1].op = "reload" \/ calls[1].arg = "reload"))
                             /\ d = (IF calls[1].arg = "reload" THEN "reloaded" ELSE view.said)
          OBVIOUS
        <5>2. view' = [view EXCEPT !.failure = TRUE, !.loading = l, !.reloading = b, !.said = d]
          BY <4>1, <5>1 DEF Catalogue!HandleRefusal, Catalogue!Settle
        <5> QED BY <5>2
      <4> QED BY <1>1, <4>2 DEF RulesFields
    <3>5. calls[1].op = "load" => calls[1].phase = "done" /\ DOMAIN calls[1].reply = CatalogueParts
      BY <1>2, <2>1 DEF CatalogueReads, Asks
    <3>6. calls[1].op = "load" => view'.rules = calls[1].reply.rules /\ view'.errors = calls[1].reply.errors
      <4> SUFFICES ASSUME calls[1].op = "load" PROVE view'.rules = calls[1].reply.rules /\ view'.errors = calls[1].reply.errors
        OBVIOUS
      <4>1. Catalogue!HandleAnswer(1)
        BY <2>1, <3>5 DEF Catalogue!HandleRefusal, Catalogue!Settle
      <4>2. view' = [view EXCEPT !.rules = calls[1].reply.rules, !.errors = calls[1].reply.errors, !.loading = FALSE, !.failure = FALSE,
                                 !.reloading = @ /\ calls[1].arg # "reload", !.said = IF calls[1].arg = "reload" THEN "reloaded" ELSE @]
        BY <4>1 DEF Catalogue!HandleAnswer, Catalogue!Settle
      <4> QED BY <1>1, <4>2 DEF RulesFields
    <3>7. CatalogueFresh'
      <4> SUFFICES ASSUME server.event = Catalogue!None PROVE CatalogueFresh'
        BY <1>2 DEF CatalogueFresh, Fresh
      <4>1. /\ \A i \in Last(Asks(calls, "load")) : CatalogueGood(calls[i])
            /\ Asks(calls, "load") = {} => view.rules = server.rules /\ view.errors = server.errors
        BY <2>1 DEF CatalogueFresh, Fresh
      <4>2. ASSUME NEW i \in Last(Asks(calls', "load")) PROVE i \in DOMAIN calls' /\ CatalogueGood(calls[i])'
        <5>1. CatalogueGood(calls[i + 1]) /\ calls'[i] = calls[i + 1]
          BY <3>2, <4>1
        <5> QED BY <1>2, <5>1, LastAsks DEF CatalogueGood, Catalogue!Part
      <4>3. ASSUME Asks(calls', "load") = {} PROVE view'.rules = server.rules /\ view'.errors = server.errors
        <5>1. CASE Asks(calls, "load") = {}
          BY <2>1, <3>4, <4>1, <5>1 DEF Asks
        <5>2. CASE 1 \in Last(Asks(calls, "load"))
          <6>1. CatalogueGood(calls[1]) /\ calls[1].op = "load"
            BY <4>1, <5>2, LastAsks
          <6> QED BY <3>5, <3>6, <6>1 DEF CatalogueGood, CatalogueParts, Catalogue!Part
        <5> QED BY <3>2, <4>3, <5>1, <5>2
      <4> QED BY <1>2, <4>2, <4>3 DEF CatalogueFresh, Fresh
    <3> QED BY <3>3, <3>7
  <2> QED BY <2>2, <2>3
<1> QED BY <1>2, <1>3, <1>4 DEF CatalogueQuiet, InStep

\* Every step of the page keeps it.
LEMMA CatalogueStep == RulesInv /\ CatalogueQuiet /\ Catalogue!Next => CatalogueQuiet'
BY CatalogueChanged, CatalogueLost, CatalogueTable, CatalogueSent, CatalogueServed, CatalogueAnswered DEF Catalogue!Next

\* Once nothing is under way, the catalogue is that of the server.
LEMMA CatalogueHolds == CatalogueQuiet => Catalogue!CatalogueIsTrue
<1> SUFFICES ASSUME CatalogueQuiet, Catalogue!InOrder, calls = << >>, server.event = Catalogue!None, spent.faults = 0
             PROVE  view.rules = server.rules /\ view.errors = server.errors
  BY DEF Catalogue!CatalogueIsTrue
<1>1. CatalogueFresh /\ Asks(calls, "load") = {}
  BY DEF CatalogueQuiet, InStep, Catalogue!InOrder, Asks
<1> QED BY <1>1 DEF CatalogueFresh, Fresh

-----------------------------------------------------------------------------
(* The findings: once nothing is under way, the rows are those the server holds for the tab they   *)
(* were read for, or an error is shown.                                                            *)

FindingsGood(c) == c.phase = "done" => c.reply = Findings!ListOf(server, c.arg.tab)
FindingsOwed == server.event # Findings!None \/ view.timer # Findings!None
FindingsShown == view.error \/ view.rows = Findings!ListOf(server, view.snapshot.tab)
FindingsTrue == Fresh(Asks(calls, "load"), FindingsOwed, {k \in DOMAIN calls : FindingsGood(calls[k])}, FindingsShown)
FindingsQuiet == view.tab \in Findings!Tabs /\ (spent.inOrder => FindingsTrue)

\* A reload has the four fields of a request.
LEMMA FindingsReload ==
  \A tab : LET n == Findings!Reload(tab) IN Shaped(n) /\ n.op = "load" /\ n.phase = "sent"
BY DEF Findings!Reload, Findings!Request, Shaped

\* A reading is the last that was asked: it will bring what the server holds then.
LEMMA FindingsSent ==
  ASSUME Queue(calls), NEW n, Shaped(n), calls' = calls \o <<n>> \/ calls' = Append(calls, n),
         n.op = "load" => n.phase = "sent",
         n.op # "load" => FindingsTrue /\ server' = server /\ (FindingsOwed => FindingsOwed') /\ (FindingsShown => FindingsShown')
  PROVE  FindingsTrue'
<1>1. /\ n.op # "load" => Asks(calls', "load") = Asks(calls, "load")
      /\ n.op = "load" => Last(Asks(calls', "load")) = {Len(calls) + 1} /\ Asks(calls', "load") # {}
      /\ Len(calls) + 1 \in DOMAIN calls' /\ calls'[Len(calls) + 1] = n
      /\ \A k \in DOMAIN calls : k \in DOMAIN calls' /\ calls'[k] = calls[k]
  BY AsksSent
<1>2. CASE n.op = "load"
  <2>1. PICK l : l = Len(calls) + 1
    OBVIOUS
  <2>2. Last(Asks(calls', "load")) = {l} /\ Asks(calls', "load") # {} /\ l \in DOMAIN calls' /\ calls'[l] = n
    BY <1>1, <1>2, <2>1
  <2>3. FindingsGood(calls[l])'
    BY <1>2, <2>2 DEF FindingsGood
  <2> QED BY <2>2, <2>3 DEF FindingsTrue, Fresh
<1>3. CASE n.op # "load"
  <2>1. \A k \in DOMAIN calls : FindingsGood(calls[k]) => FindingsGood(calls[k])'
    BY <1>1, <1>3 DEF FindingsGood, Findings!ListOf
  <2> QED BY <1>1, <1>3, <2>1 DEF FindingsTrue, Fresh
<1> QED BY <1>2, <1>3

\* The page opens on a reading.
LEMMA FindingsQuietInit == Findings!Init => FindingsQuiet
<1> SUFFICES ASSUME Findings!Init PROVE FindingsQuiet
  OBVIOUS
<1>1. PICK n : n = Findings!Reload("active")
  OBVIOUS
<1>2. Shaped(n) /\ n.op = "load" /\ n.phase = "sent" /\ calls = <<n>>
  BY <1>1, FindingsReload DEF Findings!Init
<1>3. DOMAIN calls = {1} /\ calls[1] = n
  BY <1>2, Asked
<1>4. Asks(calls, "load") = {1} /\ FindingsGood(calls[1])
  BY <1>2, <1>3 DEF Asks, FindingsGood
<1>5. Last(Asks(calls, "load")) = {1}
  BY <1>4 DEF Last
<1>6. FindingsTrue
  BY <1>3, <1>4, <1>5 DEF FindingsTrue, Fresh
<1>7. view.tab \in Findings!Tabs
  BY DEF Findings!Init, Findings!Tabs
<1> QED BY <1>6, <1>7 DEF FindingsQuiet

\* What a step leaves of what is shown.
FindingsKeep ==
  view'.rows = view.rows /\ view'.snapshot = view.snapshot /\ view'.tab = view.tab /\ view'.timer = view.timer

\* The operator acts, the dialog opens and closes.
LEMMA FindingsQuietGestures ==
  ASSUME FindingsInv, FindingsQuiet,
         \/ \E tab \in Findings!Tabs : Findings!SwitchTab(tab)
         \/ \E f \in Items : Findings!ChangeStatus(f) \/ Findings!Verify(f) \/ Findings!Open(f)
         \/ Findings!Undo \/ Findings!Close
         \/ \E op \in {"dialogSet", "dialogVerify"} : Findings!ActInDialog(op)
  PROVE  FindingsQuiet'
<1>1. Queue(calls) /\ DOMAIN view = FindingsFields /\ Counted /\ DOMAIN view.dialog = {"item", "status", "busy"}
  BY DEF FindingsInv, FindingsBase, FindingsView, FindingsSpent
<1>2. server' = server /\ (spent' = spent \/ spent' = [spent EXCEPT !.moves = @ + 1])
  BY DEF Findings!SwitchTab, Findings!ChangeStatus, Findings!Verify, Findings!Open, Findings!Undo, Findings!Close,
         Findings!ActInDialog, Findings!Gesture, Findings!Spend
<1>3. spent'.inOrder <=> spent.inOrder
  BY <1>1, <1>2 DEF Counted
<1>4. CASE \E tab \in Findings!Tabs : Findings!SwitchTab(tab)
  <2>1. PICK tab \in Findings!Tabs : Findings!SwitchTab(tab)
    BY <1>4
  <2>2. PICK n : n = Findings!Reload(tab)
    OBVIOUS
  <2>3. Shaped(n) /\ n.op = "load" /\ n.phase = "sent" /\ calls' = calls \o <<n>>
    BY <2>1, <2>2, FindingsReload DEF Findings!SwitchTab, Findings!Gesture
  <2>4. FindingsTrue'
    BY <1>1, <2>3, FindingsSent
  <2>5. view'.tab = tab
    BY <1>1, <2>1 DEF Findings!SwitchTab, Findings!Gesture, FindingsFields
  <2> QED BY <2>4, <2>5 DEF FindingsQuiet
<1>5. ASSUME FindingsKeep, view'.error = view.error,
             calls' = calls \/ \E n : Shaped(n) /\ n.op # "load" /\ calls' = calls \o <<n>>
      PROVE  FindingsQuiet'
  <2>1. (FindingsOwed => FindingsOwed') /\ (FindingsShown => FindingsShown')
    BY <1>2, <1>5 DEF FindingsKeep, FindingsOwed, FindingsShown, Findings!ListOf
  <2>2. ASSUME FindingsTrue PROVE FindingsTrue'
    <3>1. CASE calls' = calls
      <4>1. \A k \in DOMAIN calls : FindingsGood(calls[k]) => FindingsGood(calls[k])'
        BY <1>2, <3>1 DEF FindingsGood, Findings!ListOf
      <4> QED BY <2>1, <2>2, <3>1, <4>1 DEF FindingsTrue, Fresh, Asks
    <3>2. CASE \E n : Shaped(n) /\ n.op # "load" /\ calls' = calls \o <<n>>
      BY <1>1, <1>2, <2>1, <2>2, <3>2, FindingsSent
    <3> QED BY <1>5, <3>1, <3>2
  <2> QED BY <1>3, <1>5, <2>2 DEF FindingsQuiet, FindingsKeep
<1>6. CASE Findings!Close
  <2>1. FindingsKeep /\ view'.error = view.error
    BY <1>1, <1>6 DEF Findings!Close, FindingsKeep, FindingsFields
  <2>2. calls' = calls
    BY <1>6 DEF Findings!Close
  <2> QED BY <1>5, <2>1, <2>2
<1>7. CASE \/ \E f \in Items : Findings!ChangeStatus(f) \/ Findings!Verify(f) \/ Findings!Open(f)
           \/ Findings!Undo
           \/ \E op \in {"dialogSet", "dialogVerify"} : Findings!ActInDialog(op)
  <2>1. \E op \in {"set", "undo", "verify", "read", "dialogSet", "dialogVerify"} : \E arg : calls' = calls \o <<Findings!Request(op, arg)>>
    BY <1>7 DEF Findings!ChangeStatus, Findings!Verify, Findings!Open, Findings!Undo, Findings!ActInDialog, Findings!Gesture, Findings!Change
  <2>2. \E n : Shaped(n) /\ n.op # "load" /\ calls' = calls \o <<n>>
    <3>1. PICK op, arg : op \in {"set", "undo", "verify", "read", "dialogSet", "dialogVerify"} /\ calls' = calls \o <<Findings!Request(op, arg)>>
      BY <2>1
    <3>2. PICK n : n = Findings!Request(op, arg)
      OBVIOUS
    <3> QED BY <3>1, <3>2, FindingsAsk
  <2>3. FindingsKeep /\ view'.error = view.error
    <3>1. CASE \E a, b : view' = [view EXCEPT !.notice = a, !.busy = b]
      BY <1>1, <3>1 DEF FindingsKeep, FindingsFields
    <3>2. CASE \E a : view' = [view EXCEPT !.dialog = a]
      BY <1>1, <3>2 DEF FindingsKeep, FindingsFields
    <3>3. CASE \E a : view' = [view EXCEPT !.dialog.busy = a]
      BY <1>1, <3>3 DEF FindingsKeep, FindingsFields
    <3> QED BY <1>7, <3>1, <3>2, <3>3
          DEF Findings!ChangeStatus, Findings!Verify, Findings!Open, Findings!Undo, Findings!ActInDialog, Findings!Gesture
  <2> QED BY <1>5, <2>2, <2>3
<1> QED BY <1>4, <1>6, <1>7

\* What changes is announced, the announce sets the timer, and the timer asks.
LEMMA FindingsQuietTimed ==
  ASSUME FindingsInv, FindingsQuiet,
         \/ \E f \in Items, s \in Findings!Statuses : Findings!Outside(f, s)
         \/ Findings!EventArrives \/ Findings!EventLost \/ Findings!TimerFires
  PROVE  FindingsQuiet'
<1>1. Queue(calls) /\ DOMAIN view = FindingsFields /\ Counted /\ FindingsServer
  BY DEF FindingsInv, FindingsBase, FindingsView, FindingsSpent
<1>2. CASE \E f \in Items, s \in Findings!Statuses : Findings!Outside(f, s)
  <2>1. server'.event # Findings!None /\ view' = view
    BY <1>2 DEF Findings!Outside, Findings!None
  <2> QED BY <2>1 DEF FindingsQuiet, FindingsTrue, FindingsOwed, Fresh
<1>5. CASE Findings!EventLost
  <2>1. server' = [server EXCEPT !.event = Findings!Lost] /\ UNCHANGED <<view, calls, spent>>
    BY <1>5 DEF Findings!EventLost
  <2>2. server'.event # Findings!None
    BY <1>1, <2>1 DEF FindingsServer, Findings!None, Findings!Lost
  <2> QED BY <2>1, <2>2 DEF FindingsQuiet, FindingsTrue, FindingsOwed, Fresh
<1>3. CASE Findings!EventArrives
  <2>1. view'.timer = view.tab /\ view'.tab = view.tab
    BY <1>1, <1>3 DEF Findings!EventArrives, FindingsFields
  <2>2. view'.timer # Findings!None
    BY <2>1 DEF FindingsQuiet, Findings!Tabs, Findings!None
  <2> QED BY <2>1, <2>2 DEF FindingsQuiet, FindingsTrue, FindingsOwed, Fresh
<1>4. CASE Findings!TimerFires
  <2>1. PICK n : n = Findings!Reload(view.timer)
    OBVIOUS
  <2>2. Shaped(n) /\ n.op = "load" /\ n.phase = "sent" /\ calls' = Append(calls, n)
    BY <1>4, <2>1, FindingsReload DEF Findings!TimerFires
  <2>3. FindingsTrue'
    BY <1>1, <2>2, FindingsSent
  <2>4. view'.tab = view.tab
    BY <1>1, <1>4 DEF Findings!TimerFires, FindingsFields
  <2> QED BY <2>3, <2>4 DEF FindingsQuiet
<1> QED BY <1>2, <1>3, <1>4, <1>5

\* A reading brings what there is, and those that come after the first one will; what changes is announced.
LEMMA FindingsQuietServed ==
  ASSUME FindingsInv, FindingsQuiet, NEW k \in DOMAIN calls,
         Findings!ServeOne(k) \/ Findings!ServeVerification(k) \/ Findings!Fail(k)
  PROVE  FindingsQuiet'
<1>1. Queue(calls) /\ Counted /\ FindingsRequest(calls[k]) /\ FindingsServer /\ FindingsOrder
  BY DEF FindingsInv, FindingsBase, FindingsSpent, FindingsRequests, FindingsDialog
<1>2. view' = view /\ (spent'.inOrder <=> spent.inOrder)
  BY <1>1 DEF Findings!ServeOne, Findings!ServeVerification, Findings!Serve, Findings!Fail, Counted
<1>3. CASE server'.event # Findings!None
  BY <1>2, <1>3 DEF FindingsQuiet, FindingsTrue, FindingsOwed, Fresh
<1>4. CASE server' = server
  <2>1. \E phase, reply :
          /\ Becomes(k, phase, reply)
          /\ phase = "done" /\ calls[k].op = "load" => reply = Findings!ListOf(server, calls[k].arg.tab)
    <3>1. CASE Findings!Fail(k)
      <4>1. Becomes(k, "refused", Findings!None)
        BY <3>1 DEF Findings!Fail, Becomes
      <4> QED BY <4>1
    <3>2. CASE Findings!ServeOne(k)
      <4>1. Becomes(k, "done", Findings!Reply(server, calls[k]))
        BY <3>2 DEF Findings!ServeOne, Findings!Serve, Becomes
      <4>2. calls[k].op = "load" => Findings!Reply(server, calls[k]) = Findings!ListOf(server, calls[k].arg.tab)
        BY DEF Findings!Reply, Findings!Actions
      <4> QED BY <4>1, <4>2
    <3>3. CASE Findings!ServeVerification(k)
      <4>1. \E verdict : Becomes(k, "done", verdict)
        BY <3>3 DEF Findings!ServeVerification, Findings!Serve, Becomes
      <4>2. calls[k].op # "load"
        BY <3>3 DEF Findings!ServeVerification
      <4> QED BY <4>1, <4>2
    <3> QED BY <3>1, <3>2, <3>3
  <2>2. PICK phase, reply :
          /\ Becomes(k, phase, reply)
          /\ phase = "done" /\ calls[k].op = "load" => reply = Findings!ListOf(server, calls[k].arg.tab)
    BY <2>1
  <2>3. /\ DOMAIN calls' = DOMAIN calls
        /\ \A j \in DOMAIN calls : calls'[j].op = calls[j].op /\ calls'[j].arg = calls[j].arg
        /\ \A j \in DOMAIN calls : j # k => calls'[j] = calls[j]
        /\ calls'[k].phase = phase /\ calls'[k].reply = reply
    BY <1>1, <2>2, OneServed
  <2>4. ASSUME NEW j \in DOMAIN calls, FindingsGood(calls[j]), calls[j].op = "load" PROVE FindingsGood(calls[j])'
    <3>1. CASE j = k
      BY <1>4, <2>2, <2>3, <2>4, <3>1 DEF FindingsGood, Findings!ListOf
    <3>2. CASE j # k
      BY <1>4, <2>3, <2>4, <3>2 DEF FindingsGood, Findings!ListOf
    <3> QED BY <3>1, <3>2
  <2>5. Asks(calls', "load") = Asks(calls, "load")
    BY <2>3 DEF Asks
  <2>6. (FindingsOwed <=> FindingsOwed') /\ (FindingsShown <=> FindingsShown')
    BY <1>2, <1>4 DEF FindingsOwed, FindingsShown, Findings!ListOf
  <2>7. FindingsTrue => FindingsTrue'
    <3>1. \A j \in Last(Asks(calls, "load")) : j \in DOMAIN calls /\ calls[j].op = "load"
      BY LastAsks
    <3> QED BY <2>3, <2>4, <2>5, <2>6, <3>1 DEF FindingsTrue, Fresh
  <2> QED BY <1>2, <2>7 DEF FindingsQuiet
<1>6. CASE server' = Findings!CaughtUp(server) /\ calls[k].op = "load" /\ Findings!ServeOne(k)
  <2>1. Becomes(k, "done", Findings!ListOf(server, calls[k].arg.tab)) /\ calls[k].phase = "sent"
    <3>1. calls[k].op = "load" => Findings!Reply(server, calls[k]) = Findings!ListOf(server, calls[k].arg.tab)
      BY DEF Findings!Reply, Findings!Actions
    <3> QED BY <1>6, <3>1 DEF Findings!ServeOne, Findings!Serve, Becomes
  <2>2. /\ DOMAIN calls' = DOMAIN calls /\ DOMAIN calls = 1..Len(calls) /\ Len(calls) \in Nat
        /\ \A j \in DOMAIN calls : calls'[j].op = calls[j].op /\ calls'[j].arg = calls[j].arg
        /\ \A j \in DOMAIN calls : j # k => calls'[j] = calls[j]
        /\ calls'[k].phase = "done" /\ calls'[k].reply = Findings!ListOf(server, calls[k].arg.tab)
    BY <1>1, <2>1, OneServed
  <2>3. server'.status = server.status
    BY <1>1, <1>6 DEF Findings!CaughtUp, FindingsServer
  <2>4. Asks(calls', "load") = Asks(calls, "load") /\ k \in Asks(calls, "load")
    BY <1>6, <2>2 DEF Asks
  <2>5. ASSUME spent.inOrder, NEW j \in Last(Asks(calls, "load")) PROVE j \in DOMAIN calls' /\ FindingsGood(calls[j])'
    <3>1. j \in DOMAIN calls /\ k <= j
      BY <2>4, <2>5 DEF Last, Asks
    <3>2. CASE j = k
      BY <2>2, <2>3, <3>1, <3>2 DEF FindingsGood, Findings!ListOf
    <3>3. CASE j # k
      <4>1. k < j
        BY <2>2, <3>1, <3>3
      <4>2. calls[j].phase # "done"
        BY <1>1, <2>1, <2>5, <3>1, <4>1 DEF FindingsOrder
      <4> QED BY <2>2, <3>1, <3>3, <4>2 DEF FindingsGood
    <3> QED BY <3>2, <3>3
  <2>6. spent.inOrder => FindingsTrue'
    BY <2>4, <2>5 DEF FindingsTrue, Fresh
  <2> QED BY <1>2, <2>6 DEF FindingsQuiet
<1>5. \/ server' = server \/ server'.event = "sent"
      \/ server' = Findings!CaughtUp(server) /\ calls[k].op = "load" /\ Findings!ServeOne(k)
  BY DEF Findings!ServeOne, Findings!ServeVerification, Findings!Serve, Findings!Fail, Findings!Effect
<1>7. "sent" # Findings!None
  BY DEF Findings!None
<1> QED BY <1>3, <1>4, <1>5, <1>6, <1>7

\* What was read is shown, or an error is; what was done is read again.
LEMMA FindingsQuietAnswered ==
  ASSUME FindingsInv, FindingsQuiet, NEW k \in DOMAIN calls,
         Findings!HandleList(k) \/ Findings!HandleRead(k) \/ Findings!HandleAction(k) \/ Findings!HandleFailure(k)
  PROVE  FindingsQuiet'
<1>1. /\ Queue(calls) /\ DOMAIN view = FindingsFields /\ Counted /\ DOMAIN view.dialog = {"item", "status", "busy"}
      /\ FindingsRequest(calls[k])
  BY DEF FindingsInv, FindingsBase, FindingsView, FindingsSpent, FindingsRequests
<1>2. server' = server /\ spent' = spent /\ (spent.inOrder => k = 1)
  BY DEF Findings!HandleList, Findings!HandleRead, Findings!HandleAction, Findings!HandleFailure, Findings!Settle, Findings!InOrder
<1>3. \/ calls' = Others(k) \o << >>
      \/ \E n : Shaped(n) /\ (n.op = "load" => n.phase = "sent") /\ calls' = Others(k) \o <<n>>
  <2>1. Findings!Others(k) = Others(k)
    BY DEF Findings!Others, Others
  <2>2. CASE \E op, arg : calls' = Others(k) \o <<Findings!Request(op, arg)>>
    <3>1. PICK op, arg : calls' = Others(k) \o <<Findings!Request(op, arg)>>
      BY <2>2
    <3>2. PICK n : n = Findings!Request(op, arg)
      OBVIOUS
    <3> QED BY <3>1, <3>2, FindingsAsk
  <2>3. CASE Findings!HandleList(k) \/ Findings!HandleFailure(k)
    BY <2>1, <2>3 DEF Findings!HandleList, Findings!HandleFailure, Findings!Settle
  <2>4. CASE Findings!HandleRead(k)
    <3>1. calls' = Others(k) \o << >> \/ calls' = Others(k) \o <<Findings!Reload(calls[k].arg.ends)>>
      BY <2>1, <2>4 DEF Findings!HandleRead, Findings!Settle
    <3> QED BY <3>1, FindingsReload
  <2>5. CASE Findings!HandleAction(k)
    <3>1. \/ calls' = Others(k) \o << >> \/ calls' = Others(k) \o <<Findings!ReloadAfter(calls[k])>>
          \/ calls' = Others(k) \o <<Findings!Request("read", [item |-> calls[k].arg.item, ends |-> calls[k].arg.tab])>>
      BY <2>1, <2>5 DEF Findings!HandleAction, Findings!Settle
    <3> QED BY <2>2, <3>1 DEF Findings!ReloadAfter
  <2> QED BY <2>3, <2>4, <2>5
<1>4. view'.tab = view.tab /\ view'.timer = view.timer
  BY <1>1 DEF Findings!HandleList, Findings!HandleRead, Findings!HandleAction, Findings!HandleFailure, Findings!Settle,
              Findings!Finished, Findings!WithList, Findings!OpenOn, FindingsFields, FindingsRequest, RowActions
<1>5. calls[k].op # "load" => view'.rows = view.rows /\ view'.snapshot = view.snapshot /\ (view.error => view'.error)
  BY <1>1 DEF Findings!HandleList, Findings!HandleRead, Findings!HandleAction, Findings!HandleFailure, Findings!Settle,
              Findings!Finished, Findings!WithList, Findings!OpenOn, FindingsFields
<1>6. calls[k].op = "load" =>
        \/ view'.error
        \/ calls[k].phase = "done" /\ view'.rows = calls[k].reply /\ view'.snapshot.tab = calls[k].arg.tab
  <2> SUFFICES ASSUME calls[k].op = "load"
               PROVE  \/ view'.error
                      \/ calls[k].phase = "done" /\ view'.rows = calls[k].reply /\ view'.snapshot.tab = calls[k].arg.tab
    OBVIOUS
  <2>1. CASE Findings!HandleList(k)
    <3>1. PICK v : v = Findings!WithList(view, calls[k].arg.tab, calls[k].reply)
      OBVIOUS
    <3>2. DOMAIN v = FindingsFields /\ v.rows = calls[k].reply /\ v.snapshot.tab = calls[k].arg.tab
      BY <1>1, <3>1 DEF Findings!WithList, FindingsFields
    <3>3. calls[k].phase = "done" /\ view' = Findings!Finished(v, calls[k].arg)
      BY <2>1, <3>1 DEF Findings!HandleList, Findings!Settle
    <3>4. view'.rows = v.rows /\ view'.snapshot = v.snapshot
      BY <1>1, <3>2, <3>3 DEF Findings!Finished, FindingsRequest, RowActions, FindingsFields
    <3> QED BY <3>2, <3>3, <3>4
  <2>2. CASE Findings!HandleFailure(k)
    <3>1. PICK v : v = [view EXCEPT !.error = TRUE]
      OBVIOUS
    <3>2. DOMAIN v = FindingsFields /\ v.error
      BY <1>1, <3>1 DEF FindingsFields
    <3>3. view' = Findings!Finished(v, calls[k].arg)
      BY <2>2, <3>1 DEF Findings!HandleFailure, Findings!Settle
    <3>4. view'.error = v.error
      BY <1>1, <3>2, <3>3 DEF Findings!Finished, FindingsRequest, RowActions, FindingsFields
    <3> QED BY <3>2, <3>4
  <2> QED BY <2>1, <2>2 DEF Findings!HandleRead, Findings!HandleAction
<1>7. ASSUME spent.inOrder PROVE FindingsTrue'
  <2>1. k = 1 /\ FindingsTrue /\ 1 \in DOMAIN calls
    BY <1>2, <1>7 DEF FindingsQuiet
  <2>2. CASE \E n : Shaped(n) /\ n.op = "load" /\ n.phase = "sent" /\ calls' = Others(k) \o <<n>>
    <3>1. PICK n : Shaped(n) /\ n.op = "load" /\ n.phase = "sent" /\ calls' = Others(k) \o <<n>>
      BY <2>2
    <3>2. PICK l : l = Len(calls)
      OBVIOUS
    <3>3. Last(Asks(calls', "load")) = {l} /\ Asks(calls', "load") # {} /\ l \in DOMAIN calls' /\ calls'[l] = n
      BY <1>1, <3>1, <3>2, AsksAgain
    <3>4. FindingsGood(calls[l])'
      BY <3>1, <3>3 DEF FindingsGood
    <3> QED BY <3>3, <3>4 DEF FindingsTrue, Fresh
  <2>3. CASE ~(\E n : Shaped(n) /\ n.op = "load" /\ n.phase = "sent" /\ calls' = Others(k) \o <<n>>)
    <3>1. PICK n : calls' = Others(1) \o << >> \/ (Shaped(n) /\ n.op # "load" /\ calls' = Others(1) \o <<n>>)
      BY <1>3, <2>1, <2>3
    <3>2. /\ \A i \in Last(Asks(calls', "load")) :
               i + 1 \in Last(Asks(calls, "load")) /\ i + 1 \in DOMAIN calls /\ calls'[i] = calls[i + 1]
          /\ Asks(calls', "load") = {} => Asks(calls, "load") = {} \/ 1 \in Last(Asks(calls, "load"))
      BY <1>1, <2>1, <3>1, AsksAnswered
    <3>3. FindingsOwed => FindingsOwed'
      BY <1>2, <1>4 DEF FindingsOwed
    <3> SUFFICES ASSUME ~FindingsOwed PROVE FindingsTrue'
      BY <3>3 DEF FindingsTrue, Fresh
    <3>4. /\ \A i \in Last(Asks(calls, "load")) : FindingsGood(calls[i])
          /\ Asks(calls, "load") = {} => FindingsShown
      BY <2>1 DEF FindingsTrue, Fresh
    <3>5. ASSUME NEW i \in Last(Asks(calls', "load")) PROVE i \in DOMAIN calls' /\ FindingsGood(calls[i])'
      <4>1. FindingsGood(calls[i + 1]) /\ calls'[i] = calls[i + 1]
        BY <3>2, <3>4
      <4> QED BY <1>2, <4>1, LastAsks DEF FindingsGood, Findings!ListOf
    <3>6. ASSUME Asks(calls', "load") = {} PROVE FindingsShown'
      <4>1. CASE Asks(calls, "load") = {}
        BY <1>2, <1>5, <2>1, <3>4, <4>1 DEF Asks, FindingsShown, Findings!ListOf
      <4>2. CASE 1 \in Last(Asks(calls, "load"))
        <5>1. FindingsGood(calls[1]) /\ calls[1].op = "load"
          BY <3>4, <4>2, LastAsks
        <5> QED BY <1>2, <1>6, <2>1, <5>1 DEF FindingsGood, FindingsShown, Findings!ListOf
      <4> QED BY <3>2, <3>6, <4>1, <4>2
    <3> QED BY <3>5, <3>6 DEF FindingsTrue, Fresh
  <2> QED BY <2>2, <2>3
<1> QED BY <1>2, <1>4, <1>7 DEF FindingsQuiet

\* Every step of the page keeps it.
LEMMA FindingsQuietStep == FindingsInv /\ FindingsQuiet /\ Findings!Next => FindingsQuiet'
BY FindingsQuietGestures, FindingsQuietTimed, FindingsQuietServed, FindingsQuietAnswered DEF Findings!Next

\* Once nothing is under way and no error is shown, the rows are those of the server.
LEMMA FindingsQuietHolds == FindingsQuiet => Findings!ListIsTrue
BY DEF FindingsQuiet, FindingsTrue, FindingsOwed, FindingsShown, Fresh, Asks, Findings!ListIsTrue, Findings!Quiet, Findings!InOrder

-----------------------------------------------------------------------------
(* The editor: what is typed stays on screen until it is saved. *)

\* A request that brings no text: what is typed waits for none of those that do.
Textless(c) == c.op \notin {"save", "load"} /\ (c.op = "override" => c.arg.then = "refresh")

TextShape == {"typed", "reloads", "written"} \subseteq DOMAIN spent /\ spent.reloads \in Nat
TextKept ==
  spent.reloads = 0 /\ ~spent.written =>
    /\ \A k \in DOMAIN calls : Textless(calls[k]) \/ (calls[k].op = "load" /\ view.loading)
    /\ \A j, k \in DOMAIN calls : calls[j].op = "load" /\ calls[k].op = "load" => j = k
    /\ view.loading => spent.typed = Editor!None
    /\ spent.typed # Editor!None => view.text = spent.typed
TextInv == TextShape /\ TextKept

\* The page opens on a text that is being read, and nothing is typed.
LEMMA TextInit == Editor!Init => TextInv
<1> SUFFICES ASSUME Editor!Init PROVE TextInv
  OBVIOUS
<1>1. PICK mode : view.loading /\ calls = <<Editor!Request("load", mode)>>
  BY DEF Editor!Init
<1>2. DOMAIN calls = {1} /\ calls[1].op = "load"
  <2>1. PICK c : Shaped(c) /\ c.op = "load" /\ calls = <<c>>
    BY <1>1, EditorAsk
  <2> QED BY <2>1, Asked
<1>3. TextShape /\ spent.typed = Editor!None
  <2> DEFINE h == [typed |-> Editor!None, reloads |-> 0, written |-> FALSE]
  <2>1. PICK ordered :
          spent = LET bounds == [moves |-> 0, faults |-> 0, inOrder |-> ordered]
                  IN  [x \in DOMAIN bounds \union DOMAIN h |-> IF x \in DOMAIN bounds THEN bounds[x] ELSE h[x]]
    BY DEF Editor!Init, Editor!Unspent
  <2>2. DOMAIN h = {"typed", "reloads", "written"} /\ h["typed"] = Editor!None /\ h["reloads"] = 0
    OBVIOUS
  <2> HIDE DEF h
  <2>3. \A x \in DOMAIN h : x \notin {"moves", "faults", "inOrder"} => x \in DOMAIN spent /\ spent[x] = h[x]
    BY <2>1, OpensWith
  <2> QED BY <2>2, <2>3 DEF TextShape
<1> QED BY <1>1, <1>2, <1>3 DEF TextInv, TextKept

\* What is counted beside the text leaves what is remembered of it.
TextSpends ==
  /\ DOMAIN spent' = DOMAIN spent /\ spent'.typed = spent.typed
  /\ spent'.reloads = spent.reloads /\ spent'.written = spent.written

\* The text is left alone, and a request that brings none may be sent.
LEMMA TextBeside ==
  ASSUME EditorInv, TextInv, TextSpends, view'.text = view.text, view'.loading = view.loading, NEW n,
         \/ calls' = calls
         \/ Shaped(n) /\ Textless(n) /\ (calls' = calls \o <<n>> \/ calls' = Append(calls, n))
  PROVE  TextInv'
<1>1. \A i \in DOMAIN calls' : \/ i \in DOMAIN calls /\ calls'[i] = calls[i]
                               \/ calls'[i] = n /\ Textless(n)
  BY OneSent DEF EditorInv
<1>2. TextShape'
  BY DEF TextInv, TextShape, TextSpends
<1>3. TextKept'
  <2> SUFFICES ASSUME spent.reloads = 0, ~spent.written PROVE TextKept'
    BY DEF TextKept, TextSpends
  <2>1. TextKept
    BY DEF TextInv
  <2>2. ASSUME NEW i \in DOMAIN calls' PROVE Textless(calls'[i]) \/ (calls'[i].op = "load" /\ view'.loading)
    BY <1>1, <2>1 DEF TextKept
  <2>3. ASSUME NEW i \in DOMAIN calls', NEW j \in DOMAIN calls', calls'[i].op = "load", calls'[j].op = "load" PROVE i = j
    BY <1>1, <2>1, <2>3 DEF TextKept, Textless
  <2>4. \A i \in DOMAIN calls' : Textless(calls[i])' <=> Textless(calls'[i])
    BY DEF Textless
  <2> QED BY <2>1, <2>2, <2>3, <2>4 DEF TextKept, TextSpends
<1> QED BY <1>2, <1>3 DEF TextInv

\* The gestures, and what the server says by itself.
LEMMA TextGestures ==
  ASSUME EditorInv, TextInv,
         \/ Editor!DeleteRule \/ Editor!RunDry \/ Editor!TimerFires
         \/ \E scope \in Editor!Scopes : Editor!Select(scope)
         \/ \E value \in {Editor!None, Editor!Value} : Editor!TypeVariable(value)
         \/ Editor!SaveVariables \/ Editor!ClearVariables \/ Editor!Reactivate
         \/ Editor!Trip \/ Editor!EventArrives \/ Editor!EventLost
  PROVE  TextInv'
<1>1. DOMAIN view = EditorFields
  BY DEF EditorInv, EditorView
<1>2. TextSpends
  BY DEF TextSpends, TextInv, TextShape, Editor!DeleteRule, Editor!RunDry, Editor!TimerFires, Editor!Select, Editor!TypeVariable,
         Editor!SaveVariables, Editor!ClearVariables, Editor!Reactivate, Editor!Trip, Editor!EventArrives, Editor!EventLost, Editor!Gesture,
         Editor!Spend
<1>3. view'.text = view.text /\ view'.loading = view.loading
  <2>1. CASE view' = view
    BY <2>1
  <2>2. CASE \E x : \/ view' = [view EXCEPT !.busy = x] \/ view' = [view EXCEPT !.running = x] \/ view' = [view EXCEPT !.working = x]
                    \/ view' = [view EXCEPT !.form = x] \/ view' = [view EXCEPT !.timer = x]
    BY <1>1, <2>2 DEF EditorFields
  <2>3. CASE \E s, f : view' = [view EXCEPT !.target = s, !.form = f]
    BY <1>1, <2>3 DEF EditorFields
  <2>4. ASSUME NEW scope, Editor!Select(scope) PROVE \E s, f : view' = [view EXCEPT !.target = s, !.form = f]
    BY <2>4 DEF Editor!Select, Editor!Gesture, Editor!WithTarget
  <2>5. ASSUME NEW value, Editor!TypeVariable(value) PROVE \E x : view' = [view EXCEPT !.form = x]
    BY <2>5 DEF Editor!TypeVariable, Editor!Gesture
  <2>6. CASE Editor!SaveVariables \/ Editor!ClearVariables \/ Editor!Reactivate
    BY <2>2, <2>6 DEF Editor!SaveVariables, Editor!ClearVariables, Editor!Reactivate, Editor!Gesture
  <2>7. CASE Editor!DeleteRule \/ Editor!RunDry \/ Editor!TimerFires \/ Editor!Trip \/ Editor!EventArrives \/ Editor!EventLost
    BY <2>1, <2>2, <2>7
       DEF Editor!DeleteRule, Editor!RunDry, Editor!TimerFires, Editor!Trip, Editor!EventArrives, Editor!EventLost, Editor!Gesture
  <2> QED BY <2>2, <2>3, <2>4, <2>5, <2>6, <2>7
<1>4. \/ calls' = calls
      \/ \E op, arg :
           /\ op \in {"remove", "dryRun", "validate", "override", "clear", "reactivate", "refresh"}
           /\ op = "override" => arg.then = "refresh"
           /\ calls' = calls \o <<Editor!Request(op, arg)>> \/ calls' = Append(calls, Editor!Request(op, arg))
  <2>1. CASE \E scope \in Editor!Scopes : Editor!Select(scope)
    BY <2>1, NothingSent DEF Editor!Select, Editor!Gesture, EditorInv
  <2>2. CASE \E value \in {Editor!None, Editor!Value} : Editor!TypeVariable(value)
    BY <2>2, NothingSent DEF Editor!TypeVariable, Editor!Gesture, EditorInv
  <2>3. CASE Editor!Trip \/ Editor!EventLost
    BY <2>3 DEF Editor!Trip, Editor!EventLost
  <2>4. CASE Editor!SaveVariables
    <3>1. PICK arg : arg.then = "refresh" /\ calls' = calls \o <<Editor!Request("override", arg)>>
      BY <2>4 DEF Editor!SaveVariables, Editor!Store, Editor!Gesture
    <3> QED BY <3>1
  <2>5. CASE Editor!EventArrives
    <3>1. CASE view.mode = "edit"
      <4>1. PICK arg : calls' = Append(calls, Editor!Request("refresh", arg))
        BY <2>5, <3>1 DEF Editor!EventArrives
      <4> QED BY <4>1
    <3>2. CASE view.mode # "edit"
      BY <2>5, <3>2 DEF Editor!EventArrives
    <3> QED BY <3>1, <3>2
  <2>6. CASE Editor!DeleteRule
    BY <2>6 DEF Editor!DeleteRule, Editor!Gesture
  <2>7. CASE Editor!RunDry
    BY <2>7 DEF Editor!RunDry, Editor!Gesture
  <2>8. CASE Editor!TimerFires
    BY <2>8 DEF Editor!TimerFires
  <2>9. CASE Editor!ClearVariables
    BY <2>9 DEF Editor!ClearVariables, Editor!Gesture
  <2>10. CASE Editor!Reactivate
    BY <2>10 DEF Editor!Reactivate, Editor!Gesture
  <2> QED BY <2>1, <2>2, <2>3, <2>4, <2>5, <2>6, <2>7, <2>8, <2>9, <2>10
<1>5. CASE calls' = calls
  BY <1>2, <1>3, <1>5, TextBeside
<1>6. CASE calls' # calls
  <2>1. PICK op, arg :
          /\ op \in {"remove", "dryRun", "validate", "override", "clear", "reactivate", "refresh"}
          /\ op = "override" => arg.then = "refresh"
          /\ calls' = calls \o <<Editor!Request(op, arg)>> \/ calls' = Append(calls, Editor!Request(op, arg))
    BY <1>4, <1>6
  <2>2. PICK n : n = Editor!Request(op, arg)
    OBVIOUS
  <2>3. Shaped(n) /\ Textless(n)
    BY <2>1, <2>2, EditorAsk DEF Textless
  <2> QED BY <1>2, <1>3, <2>1, <2>2, <2>3, TextBeside
<1> QED BY <1>5, <1>6

\* What is typed is on screen; a text that is saved, or the box of an instance, is another matter.
LEMMA TextTyped ==
  ASSUME EditorInv, TextInv,
         \/ \E text \in Editor!Typable : Editor!Type(text)
         \/ Editor!Save \/ \E applied \in BOOLEAN : Editor!SetApplied(applied)
  PROVE  TextInv'
<1>1. DOMAIN view = EditorFields /\ TextShape
  BY DEF EditorInv, EditorView, TextInv
<1>2. CASE \E text \in Editor!Typable : Editor!Type(text)
  <2>1. PICK text : Editor!Type(text)
    BY <1>2
  <2>2. /\ spent' = [spent EXCEPT !.moves = @ + 1, !.typed = text] /\ calls' = calls /\ ~view.loading
        /\ view' = Editor!WithText(view, text)
    BY <2>1 DEF Editor!Type, Editor!Shown
  <2>3. view'.text = text /\ (view'.loading <=> view.loading)
    BY <1>1, <2>2, EditorReads DEF EditorFields
  <2>4. spent'.typed = text /\ spent'.reloads = spent.reloads /\ spent'.written = spent.written /\ TextShape'
    BY <1>1, <2>2 DEF TextShape
  <2> QED BY <2>2, <2>3, <2>4 DEF TextInv, TextKept, Textless
<1>3. CASE Editor!Save
  <2>1. spent' = [spent EXCEPT !.moves = @ + 1, !.written = TRUE]
    BY <1>3 DEF Editor!Save
  <2>2. spent'.written /\ TextShape'
    BY <1>1, <2>1 DEF TextShape
  <2> QED BY <2>2 DEF TextInv, TextKept
<1>4. CASE \E applied \in BOOLEAN : Editor!SetApplied(applied)
  <2>1. spent' = [spent EXCEPT !.moves = @ + 1, !.reloads = @ + 1]
    BY <1>4 DEF Editor!SetApplied
  <2>2. spent'.reloads = spent.reloads + 1 /\ DOMAIN spent' = DOMAIN spent
    BY <1>1, <2>1 DEF TextShape
  <2>3. \A x \in Nat : x + 1 # 0 /\ x + 1 \in Nat
    OBVIOUS
  <2> QED BY <1>1, <2>2, <2>3 DEF TextInv, TextKept, TextShape
<1> QED BY <1>2, <1>3, <1>4

\* The server and the network change the phase of a request.
LEMMA TextServed ==
  ASSUME EditorInv, TextInv, NEW k \in DOMAIN calls, Editor!ServeOne(k) \/ Editor!Fail(k)
  PROVE  TextInv'
<1>1. view' = view /\ TextSpends /\ \E phase, reply : Becomes(k, phase, reply)
  <2>1. CASE Editor!ServeOne(k) /\ Editor!Refused(calls[k])
    BY <2>1 DEF Editor!ServeOne, Editor!Refuse, Becomes, TextSpends
  <2>2. CASE Editor!ServeOne(k) /\ ~Editor!Refused(calls[k])
    BY <2>2 DEF Editor!ServeOne, Editor!Serve, Becomes, TextSpends
  <2>3. CASE Editor!Fail(k)
    BY <2>3 DEF Editor!Fail, Becomes, TextSpends, TextInv, TextShape
  <2> QED BY <2>1, <2>2, <2>3
<1>2. /\ DOMAIN calls' = DOMAIN calls
      /\ \A j \in DOMAIN calls : calls'[j].op = calls[j].op /\ calls'[j].arg = calls[j].arg
  BY <1>1, OneServed DEF EditorInv
<1>3. TextShape'
  BY <1>1 DEF TextInv, TextShape, TextSpends
<1>4. TextKept'
  <2>1. \A j \in DOMAIN calls : Textless(calls[j])' <=> Textless(calls[j])
    BY <1>2 DEF Textless
  <2> QED BY <1>1, <1>2, <2>1 DEF TextInv, TextKept, TextSpends
<1> QED BY <1>3, <1>4 DEF TextInv

\* The text is read once; the other answers leave it.
LEMMA TextAnswered ==
  ASSUME EditorInv, TextInv, NEW k \in DOMAIN calls, Editor!HandleAnswer(k) \/ Editor!HandleRefusal(k)
  PROVE  TextInv'
<1>1. Queue(calls) /\ DOMAIN view = EditorFields /\ EditorRequest(calls[k]) /\ TextShape
  BY DEF EditorInv, EditorView, EditorRequests, TextInv
<1>2. spent' = spent
  BY DEF Editor!HandleAnswer, Editor!HandleRefusal, Editor!Settle
<1>3. TextShape'
  BY <1>1, <1>2 DEF TextShape
<1>4. TextKept'
  <2> SUFFICES ASSUME spent.reloads = 0, ~spent.written PROVE TextKept'
    BY <1>2 DEF TextKept
  <2> DEFINE c == calls[k]
  <2>1. TextKept /\ (Textless(c) \/ (c.op = "load" /\ view.loading))
    BY DEF TextInv, TextKept
  <2>2. \/ /\ view'.loading <=> view.loading
           /\ view'.text = view.text /\ c.op # "load"
           /\ calls' = Others(k) \o << >> \/ \E n : Shaped(n) /\ Textless(n) /\ calls' = Others(k) \o <<n>>
        \/ c.op = "load" /\ ~view'.loading /\ calls' = Others(k) \o << >>
    <3>1. CASE Editor!HandleRefusal(k)
      <4>1. view' = Editor!Refusal(view, c) /\ calls' = Others(k) \o << >>
        BY <3>1 DEF Editor!HandleRefusal, Editor!Settle, Editor!Others, Others
      <4>2. CASE c.op = "load"
        BY <1>1, <4>1, <4>2 DEF Editor!Refusal, EditorFields
      <4>3. CASE c.op # "load"
        BY <1>1, <4>1, <4>3 DEF Editor!Refusal, EditorRequest, EditorOps, EditorFields
      <4> QED BY <4>2, <4>3
    <3>2. CASE Editor!HandleAnswer(k)
      <4>1. view' = Editor!Answered(view, c) /\ calls' = Others(k) \o Editor!Then(view, c)
        BY <3>2 DEF Editor!HandleAnswer, Editor!Settle, Editor!Others, Others
      <4>2. CASE c.op = "load"
        <5> DEFINE v == [view EXCEPT !.loading = FALSE]
        <5>1. DOMAIN v = EditorFields /\ v.loading = FALSE
          BY <1>1 DEF EditorFields
        <5>2. \/ \E text : view' = Editor!WithText(v, text) \/ view' = [Editor!WithText(v, text) EXCEPT !.validated = "invalid"]
              \/ \E d, text : view' = Editor!WithText(Editor!WithDetail(v, d), text)
          BY <1>1, <4>1, <4>2 DEF Editor!Answered, Editor!Loaded, EditorRequest
        <5> HIDE DEF v
        <5>3. ASSUME NEW text PROVE DOMAIN Editor!WithText(v, text) = EditorFields /\ Editor!WithText(v, text).loading = FALSE
          BY <5>1, EditorReads DEF EditorFields
        <5>4. ASSUME NEW d PROVE DOMAIN Editor!WithDetail(v, d) = EditorFields /\ Editor!WithDetail(v, d).loading = FALSE
          BY <5>1, EditorReadsRule DEF EditorFields
        <5>5. ~view'.loading
          <6>1. ASSUME NEW text, view' = Editor!WithText(v, text) PROVE ~view'.loading
            BY <5>3, <6>1
          <6>2. ASSUME NEW text, view' = [Editor!WithText(v, text) EXCEPT !.validated = "invalid"] PROVE ~view'.loading
            <7>1. PICK w : w = Editor!WithText(v, text)
              OBVIOUS
            <7>2. w.loading = FALSE /\ DOMAIN w = EditorFields
              BY <5>3, <7>1
            <7>3. view'.loading = w.loading
              BY <6>2, <7>1, <7>2 DEF EditorFields
            <7> QED BY <7>2, <7>3
          <6>3. ASSUME NEW d, NEW text, view' = Editor!WithText(Editor!WithDetail(v, d), text) PROVE ~view'.loading
            <7>1. PICK u : u = Editor!WithDetail(v, d)
              OBVIOUS
            <7>2. DOMAIN u = EditorFields /\ u.loading = FALSE
              BY <5>4, <7>1
            <7>3. view'.loading = u.loading
              BY <6>3, <7>1, <7>2, EditorReads DEF EditorFields
            <7> QED BY <7>2, <7>3
          <6> QED BY <5>2, <6>1, <6>2, <6>3
        <5>6. calls' = Others(k) \o << >>
          BY <4>1, <4>2 DEF Editor!Then
        <5> QED BY <4>2, <5>5, <5>6
      <4>3. CASE c.op = "refresh"
        <5>1. PICK u : u = Editor!WithDetail(view, c.reply)
          OBVIOUS
        <5>2. DOMAIN u = EditorFields /\ u.text = view.text /\ u.loading = view.loading
          BY <1>1, <5>1, EditorReadsRule DEF EditorFields
        <5>3. view' = [u EXCEPT !.working = @ /\ ~c.arg]
          BY <4>1, <4>3, <5>1 DEF Editor!Answered, Editor!Refreshed
        <5>4. view'.text = u.text /\ view'.loading = u.loading
          BY <5>2, <5>3 DEF EditorFields
        <5> QED BY <4>1, <4>3, <5>2, <5>4 DEF Editor!Then
      <4>4. CASE c.op \notin {"load", "refresh"}
        <5>1. c.op \in {"validate", "remove", "dryRun", "override", "clear", "reactivate"} /\ (c.op = "override" => c.arg.then = "refresh")
          BY <1>1, <2>1, <4>4 DEF Textless, EditorRequest, EditorOps
        <5>2. view'.text = view.text /\ view'.loading = view.loading
          BY <1>1, <4>1, <5>1 DEF Editor!Answered, EditorFields
        <5>3. calls' = Others(k) \o << >> \/ \E arg : calls' = Others(k) \o <<Editor!Request("refresh", arg)>>
          BY <4>1, <5>1 DEF Editor!Then
        <5>4. ASSUME NEW arg PROVE Shaped(Editor!Request("refresh", arg)) /\ Textless(Editor!Request("refresh", arg))
          BY EditorAsk DEF Textless
        <5> QED BY <4>4, <5>2, <5>3, <5>4
      <4> QED BY <4>2, <4>3, <4>4
    <3> QED BY <3>1, <3>2
  <2>3. PICK n : \/ calls' = Others(k) \o << >>
                 \/ Shaped(n) /\ Textless(n) /\ calls' = Others(k) \o <<n>>
    BY <2>2
  <2>4. \A i \in DOMAIN calls' : \/ Came(k, i) \in DOMAIN calls /\ Came(k, i) # k /\ calls'[i] = calls[Came(k, i)]
                                 \/ calls'[i] = n /\ Textless(n)
    <3>1. CASE calls' = Others(k) \o << >>
      BY <1>1, <3>1, OneAnswered
    <3>2. CASE Shaped(n) /\ Textless(n) /\ calls' = Others(k) \o <<n>>
      BY <1>1, <3>2, Answers
    <3> QED BY <2>3, <3>1, <3>2
  <2>5. /\ \A i \in DOMAIN calls' : i \in Nat
        /\ k \in Nat
    <3>1. Len(calls) \in Nat /\ k \in 1..Len(calls) /\ \A i \in DOMAIN calls' : i \in 1..Len(calls)
      BY <1>1, <2>3, Answers
    <3> QED BY <3>1
  <2>6. ASSUME NEW i \in DOMAIN calls', NEW j \in DOMAIN calls', Came(k, i) = Came(k, j) PROVE i = j
    BY <2>5, <2>6 DEF Came
  <2>7. ASSUME NEW i \in DOMAIN calls', NEW j \in DOMAIN calls', calls'[i].op = "load", calls'[j].op = "load" PROVE i = j
    <3>1. /\ Came(k, i) \in DOMAIN calls /\ calls[Came(k, i)].op = "load"
          /\ Came(k, j) \in DOMAIN calls /\ calls[Came(k, j)].op = "load"
      BY <2>4, <2>7 DEF Textless
    <3> QED BY <2>1, <2>6, <3>1 DEF TextKept
  <2>8. ASSUME NEW i \in DOMAIN calls' PROVE Textless(calls'[i]) \/ (calls'[i].op = "load" /\ view'.loading)
    <3> SUFFICES ASSUME Came(k, i) \in DOMAIN calls, Came(k, i) # k, calls'[i] = calls[Came(k, i)], calls'[i].op = "load"
                 PROVE  view'.loading
      BY <2>1, <2>4 DEF TextKept
    <3>1. view.loading /\ c.op # "load"
      BY <2>1 DEF TextKept, Textless
    <3> QED BY <2>2, <3>1
  <2>9. \A i \in DOMAIN calls' : Textless(calls[i])' <=> Textless(calls'[i])
    BY DEF Textless
  <2>10. (view'.loading => spent.typed = Editor!None) /\ (spent.typed # Editor!None => view'.text = spent.typed)
    <3>1. CASE view.loading
      BY <2>1, <3>1 DEF TextKept
    <3>2. CASE ~view.loading
      BY <2>1, <2>2, <3>2 DEF TextKept, Textless
    <3> QED BY <3>1, <3>2
  <2> QED BY <1>2, <2>7, <2>8, <2>9, <2>10 DEF TextKept
<1> QED BY <1>3, <1>4 DEF TextInv

\* Every step of the page keeps it.
LEMMA TextStep == EditorInv /\ TextInv /\ Editor!Next => TextInv'
BY TextGestures, TextTyped, TextServed, TextAnswered DEF Editor!Next

\* What was typed is on screen, whatever the guard and the variables do.
LEMMA TextHolds == TextInv => Editor!TypingSurvivesTheGuard
BY DEF TextInv, TextKept, Editor!TypingSurvivesTheGuard, Editor!NothingTypedIsLost

-----------------------------------------------------------------------------
(* The editor: the card shows the overrides, and the verdict of the guard, that the server holds. *)

\* The verdict will be read again: an event is to come, or a reading is sent, or comes after a removal.
VerdictComes ==
  \E k \in DOMAIN calls : /\ Reading(calls[k]) /\ calls[k].op # "save"
                          /\ \/ calls[k].phase = "sent"
                             \/ \E j \in DOMAIN calls : j < k /\ calls[j].op = "remove"

\* A reading that was served is the last one of those.
VerdictLast(k) ==
  /\ k \in DOMAIN calls /\ Reading(calls[k]) /\ calls[k].phase = "done"
  /\ \A j \in DOMAIN calls : Reading(calls[j]) /\ calls[j].phase = "done" => j <= k
VerdictUnread == \A k \in DOMAIN calls : ~(Reading(calls[k]) /\ calls[k].phase = "done")

\* The verdict of the card will be read again, is on its way, or is that of the server.
VerdictFresh ==
  spent.inOrder /\ spent.faults = 0 /\ ~view.left /\ view.mode = "edit" =>
    \/ server.event # Editor!None
    \/ VerdictComes
    \/ \E k \in DOMAIN calls : VerdictLast(k) /\ calls[k].reply.tripped = server.tripped
    \/ VerdictUnread /\ (view.detail # Editor!NoDetail => view.detail.tripped = server.tripped)

VerdictInv ==
  /\ {"tripped", "event"} \subseteq DOMAIN server
  /\ \A k \in DOMAIN calls : calls[k].op = "save" /\ view.mode # "edit" => calls[k].arg.mode # "edit"
  /\ VerdictFresh

\* The page opens with its first reading on its way.
LEMMA VerdictInit == Editor!Init => VerdictInv
<1> SUFFICES ASSUME Editor!Init PROVE VerdictInv
  OBVIOUS
<1>1. PICK mode \in {"edit", "create", "repair"} :
        /\ view.mode = mode
        /\ calls = <<Editor!Request("load", mode)>>
        /\ {"tripped", "event"} \subseteq DOMAIN server
  <2>1. PICK mode \in {"edit", "create", "repair"}, tuned \in BOOLEAN :
          /\ server = [yaml |-> CASE mode = "edit" -> "stored" [] mode = "create" -> Editor!None [] mode = "repair" -> Editor!Faulty,
                       overrides |-> [x \in IF tuned THEN {"i1"} ELSE {} |-> [enabled |-> Editor!None, value |-> Editor!Value]],
                       tripped |-> FALSE, event |-> Editor!None]
          /\ view = [mode |-> mode, loading |-> TRUE, text |-> Editor!Empty, detail |-> Editor!NoDetail, validated |-> Editor!None,
                     timer |-> FALSE, busy |-> FALSE, running |-> FALSE, ran |-> Editor!None, left |-> FALSE,
                     target |-> "all", form |-> Editor!None, working |-> FALSE]
          /\ calls = <<Editor!Request("load", mode)>>
    BY DEF Editor!Init
  <2> QED BY <2>1
<1>2. DOMAIN calls = {1} /\ calls[1].op = "load" /\ calls[1].arg = mode /\ calls[1].phase = "sent"
  <2>1. PICK c : Shaped(c) /\ c.op = "load" /\ c.arg = mode /\ c.phase = "sent" /\ calls = <<c>>
    BY <1>1, EditorAsk
  <2> QED BY <2>1, Asked
<1>3. view.mode = "edit" => VerdictComes
  BY <1>1, <1>2 DEF VerdictComes, Reading
<1> QED BY <1>1, <1>2, <1>3 DEF VerdictInv, VerdictFresh

\* The verdict, and what the page shows of it, stay.
VerdictKept ==
  /\ {"tripped", "event"} \subseteq DOMAIN server'
  /\ server'.tripped = server.tripped /\ (server.event # Editor!None => server'.event # Editor!None)
  /\ view'.detail = view.detail /\ view'.mode = view.mode /\ view'.left = view.left
  /\ spent'.inOrder = spent.inOrder /\ spent'.faults = spent.faults

\* A gesture sends one request at most.
VerdictAsks(n) ==
  /\ Shaped(n) /\ n.phase = "sent" /\ (n.op = "save" => n.arg.mode = view.mode)
  /\ calls' = calls \o <<n>> \/ calls' = Append(calls, n)

\* What is beside the card keeps it.
LEMMA VerdictStays ==
  ASSUME Queue(calls), VerdictInv, VerdictKept, calls' = calls \/ \E n : VerdictAsks(n)
  PROVE  VerdictInv'
<1>1. CASE calls' = calls
  <2>1. VerdictFresh'
    BY <1>1 DEF VerdictInv, VerdictKept, VerdictFresh, VerdictComes, VerdictLast, VerdictUnread
  <2> QED BY <1>1, <2>1 DEF VerdictInv, VerdictKept
<1>2. ASSUME NEW n, VerdictAsks(n) PROVE VerdictInv'
  <2>1. n.phase = "sent" /\ (n.op = "save" => n.arg.mode = view.mode)
    BY <1>2 DEF VerdictAsks
  <2>2. \A j \in DOMAIN calls : j \in DOMAIN calls' /\ calls'[j] = calls[j]
    BY <1>2, OneSent DEF VerdictAsks
  <2>3. \A i \in DOMAIN calls' : (i \in DOMAIN calls /\ calls'[i] = calls[i]) \/ calls'[i] = n
    BY <1>2, OneSent DEF VerdictAsks
  <2>4. VerdictComes => VerdictComes'
    BY <2>2 DEF VerdictComes
  <2>5. VerdictUnread => VerdictUnread'
    BY <2>1, <2>3 DEF VerdictUnread
  <2>6. \A k : VerdictLast(k) => VerdictLast(k)' /\ calls'[k] = calls[k]
    BY <2>1, <2>2, <2>3 DEF VerdictLast
  <2>7. VerdictFresh'
    <3> SUFFICES ASSUME spent.inOrder, spent.faults = 0, ~view.left, view.mode = "edit" PROVE VerdictFresh'
      BY DEF VerdictFresh, VerdictKept
    <3>1. CASE server.event # Editor!None \/ VerdictComes
      BY <2>4, <3>1 DEF VerdictFresh, VerdictKept
    <3>2. CASE \E k \in DOMAIN calls : VerdictLast(k) /\ calls[k].reply.tripped = server.tripped
      BY <2>2, <2>6, <3>2 DEF VerdictFresh, VerdictKept
    <3>3. CASE VerdictUnread /\ (view.detail # Editor!NoDetail => view.detail.tripped = server.tripped)
      BY <2>5, <3>3 DEF VerdictFresh, VerdictKept
    <3> QED BY <3>1, <3>2, <3>3 DEF VerdictInv, VerdictFresh
  <2>8. \A k \in DOMAIN calls' : calls'[k].op = "save" /\ view'.mode # "edit" => calls'[k].arg.mode # "edit"
    BY <2>1, <2>3 DEF VerdictInv, VerdictKept
  <2> QED BY <2>7, <2>8 DEF VerdictInv, VerdictKept
<1> QED BY <1>1, <1>2

\* The gestures, the text and its timer are beside the card; the guard and its events are read again.
LEMMA VerdictGestures ==
  ASSUME EditorInv, VerdictInv,
         \/ \E text \in Editor!Typable : Editor!Type(text)
         \/ Editor!TimerFires \/ Editor!Save \/ Editor!DeleteRule \/ Editor!RunDry
         \/ \E scope \in Editor!Scopes : Editor!Select(scope)
         \/ \E value \in {Editor!None, Editor!Value} : Editor!TypeVariable(value)
         \/ Editor!SaveVariables \/ Editor!ClearVariables \/ Editor!Reactivate
         \/ \E applied \in BOOLEAN : Editor!SetApplied(applied)
         \/ Editor!Trip \/ Editor!EventArrives \/ Editor!EventLost
  PROVE  VerdictInv'
<1>1. Counted /\ DOMAIN view = EditorFields /\ Queue(calls) /\ {"tripped", "event"} \subseteq DOMAIN server
  BY DEF EditorInv, EditorView, VerdictInv
<1>2. spent'.inOrder = spent.inOrder /\ spent'.faults = spent.faults
  <2>1. \/ UNCHANGED spent \/ spent' = [spent EXCEPT !.moves = @ + 1]
        \/ spent' = [spent EXCEPT !.moves = @ + 1, !.written = TRUE]
        \/ spent' = [spent EXCEPT !.moves = @ + 1, !.reloads = @ + 1]
        \/ \E text : spent' = [spent EXCEPT !.moves = @ + 1, !.typed = text]
    BY DEF Editor!Type, Editor!TimerFires, Editor!Save, Editor!DeleteRule, Editor!RunDry, Editor!Select, Editor!TypeVariable,
           Editor!SaveVariables, Editor!ClearVariables, Editor!Reactivate, Editor!SetApplied, Editor!Trip, Editor!EventArrives,
           Editor!EventLost, Editor!Gesture, Editor!Spend
  <2> QED BY <1>1, <2>1, Spent DEF Spends
<1>3. ASSUME server' = server,
             \/ view' = view
             \/ view' = [view EXCEPT !.running = TRUE]
             \/ view' = [view EXCEPT !.working = TRUE]
             \/ view' = [view EXCEPT !.busy = TRUE]
             \/ view' = [view EXCEPT !.timer = FALSE]
             \/ \E f : view' = [view EXCEPT !.form = f]
             \/ \E s, f : view' = [view EXCEPT !.target = s, !.form = f]
             \/ \E t, m, w : view' = [view EXCEPT !.text = t, !.timer = m, !.validated = w]
      PROVE  VerdictKept
  BY <1>1, <1>2, <1>3 DEF VerdictKept, EditorFields
<1>4. CASE \E text \in Editor!Typable : Editor!Type(text)
  <2>1. PICK text \in Editor!Typable : Editor!Type(text)
    BY <1>4
  <2>2. server' = server /\ calls' = calls /\ \E t, m, w : view' = [view EXCEPT !.text = t, !.timer = m, !.validated = w]
    BY <2>1 DEF Editor!Type, Editor!WithText
  <2>3. VerdictKept
    BY <1>3, <2>2
  <2> QED BY <1>1, <2>2, <2>3, VerdictStays
<1>5. ASSUME NEW op, NEW arg, op = "save" => arg.mode = view.mode,
             calls' = calls \o <<Editor!Request(op, arg)>> \/ calls' = Append(calls, Editor!Request(op, arg))
      PROVE  \E n : VerdictAsks(n)
  <2>1. PICK n : n = Editor!Request(op, arg)
    OBVIOUS
  <2>2. Shaped(n) /\ n.op = op /\ n.arg = arg /\ n.phase = "sent"
    BY <2>1, EditorAsk
  <2>3. VerdictAsks(n)
    BY <1>5, <2>1, <2>2 DEF VerdictAsks
  <2> QED BY <2>3
<1>6. CASE Editor!TimerFires
  <2>1. server' = server /\ view' = [view EXCEPT !.timer = FALSE] /\ calls' = Append(calls, Editor!Request("validate", view.text))
    BY <1>6 DEF Editor!TimerFires
  <2>2. VerdictKept
    BY <1>3, <2>1
  <2>3. \E op, arg : op # "save" /\ calls' = Append(calls, Editor!Request(op, arg))
    BY <2>1
  <2>4. \E n : VerdictAsks(n)
    BY <1>5, <2>3
  <2> QED BY <1>1, <2>2, <2>4, VerdictStays
<1>7. CASE Editor!Save
  <2>1. PICK arg : /\ arg.mode = view.mode /\ calls' = Append(calls, Editor!Request("save", arg))
    BY <1>7 DEF Editor!Save
  <2>2. server' = server /\ view' = [view EXCEPT !.busy = TRUE]
    BY <1>7 DEF Editor!Save
  <2>3. VerdictKept /\ \E n : VerdictAsks(n)
    BY <1>3, <1>5, <2>1, <2>2
  <2> QED BY <1>1, <2>3, VerdictStays
<1>8. CASE Editor!DeleteRule \/ Editor!RunDry \/ Editor!ClearVariables \/ Editor!Reactivate
  <2>1. /\ server' = server
        /\ \/ view' = [view EXCEPT !.busy = TRUE] \/ view' = [view EXCEPT !.running = TRUE] \/ view' = [view EXCEPT !.working = TRUE]
    BY <1>8 DEF Editor!DeleteRule, Editor!RunDry, Editor!ClearVariables, Editor!Reactivate, Editor!Gesture
  <2>2. \E op, arg : op # "save" /\ calls' = calls \o <<Editor!Request(op, arg)>>
    <3>1. CASE Editor!DeleteRule
      BY <3>1 DEF Editor!DeleteRule, Editor!Gesture
    <3>2. CASE Editor!RunDry
      BY <3>2 DEF Editor!RunDry, Editor!Gesture
    <3>3. CASE Editor!ClearVariables
      BY <3>3 DEF Editor!ClearVariables, Editor!Gesture
    <3>4. CASE Editor!Reactivate
      BY <3>4 DEF Editor!Reactivate, Editor!Gesture
    <3> QED BY <1>8, <3>1, <3>2, <3>3, <3>4
  <2>3. VerdictKept /\ \E n : VerdictAsks(n)
    BY <1>3, <1>5, <2>1, <2>2
  <2> QED BY <1>1, <2>3, VerdictStays
<1>9. CASE \/ \E scope \in Editor!Scopes : Editor!Select(scope)
           \/ \E value \in {Editor!None, Editor!Value} : Editor!TypeVariable(value)
  <2>1. ASSUME NEW scope, Editor!Select(scope)
        PROVE  server' = server /\ \E s, f : view' = [view EXCEPT !.target = s, !.form = f]
    BY <2>1 DEF Editor!Select, Editor!Gesture, Editor!WithTarget
  <2>2. ASSUME NEW value, Editor!TypeVariable(value) PROVE server' = server /\ \E f : view' = [view EXCEPT !.form = f]
    BY <2>2 DEF Editor!TypeVariable, Editor!Gesture
  <2>3. calls' = calls
    BY <1>1, <1>9, NothingSent DEF Editor!Select, Editor!TypeVariable, Editor!Gesture
  <2>4. VerdictKept
    BY <1>3, <1>9, <2>1, <2>2
  <2> QED BY <1>1, <2>3, <2>4, VerdictStays
<1>10. CASE Editor!SaveVariables \/ \E applied \in BOOLEAN : Editor!SetApplied(applied)
  <2>1. server' = server /\ view' = [view EXCEPT !.working = TRUE]
    BY <1>10 DEF Editor!SaveVariables, Editor!SetApplied, Editor!Gesture
  <2>2. \E arg : calls' = calls \o <<Editor!Request("override", arg)>> \/ calls' = Append(calls, Editor!Request("override", arg))
    BY <1>10 DEF Editor!SaveVariables, Editor!SetApplied, Editor!Gesture, Editor!Store
  <2>3. VerdictKept /\ \E n : VerdictAsks(n)
    BY <1>3, <1>5, <2>1, <2>2
  <2> QED BY <1>1, <2>3, VerdictStays
<1>11. CASE Editor!Trip
  <2>1. UNCHANGED <<view, calls>> /\ server' = [server EXCEPT !.tripped = TRUE, !.event = "sent"]
    BY <1>11 DEF Editor!Trip
  <2>2. {"tripped", "event"} \subseteq DOMAIN server' /\ server'.event # Editor!None
    BY <1>1, <2>1 DEF Editor!None
  <2> QED BY <2>1, <2>2 DEF VerdictInv, VerdictFresh
<1>13. CASE Editor!EventLost
  <2>1. UNCHANGED <<view, calls>> /\ server' = [server EXCEPT !.event = Editor!Lost]
    BY <1>13 DEF Editor!EventLost
  <2>2. {"tripped", "event"} \subseteq DOMAIN server' /\ server'.event # Editor!None
    BY <1>1, <2>1 DEF Editor!None, Editor!Lost
  <2> QED BY <2>1, <2>2 DEF VerdictInv, VerdictFresh
<1>12. CASE Editor!EventArrives
  <2>1. view' = view /\ server' = [server EXCEPT !.event = Editor!None]
    BY <1>12 DEF Editor!EventArrives
  <2>2. {"tripped", "event"} \subseteq DOMAIN server' /\ server'.tripped = server.tripped
    BY <1>1, <2>1
  <2>3. CASE view.mode # "edit"
    <3>1. calls' = calls
      BY <1>12, <2>3 DEF Editor!EventArrives
    <3> QED BY <2>1, <2>2, <2>3, <3>1 DEF VerdictInv, VerdictFresh
  <2>4. CASE view.mode = "edit"
    <3>1. PICK n : n = Editor!Request("refresh", FALSE)
      OBVIOUS
    <3>2. Shaped(n) /\ n.op = "refresh" /\ n.phase = "sent" /\ calls' = Append(calls, n)
      BY <1>12, <2>4, <3>1, EditorAsk DEF Editor!EventArrives
    <3>3. \E k \in DOMAIN calls' : calls'[k] = n
      BY <1>1, <3>2, OneSent
    <3>4. VerdictComes'
      BY <3>2, <3>3 DEF VerdictComes, Reading
    <3> QED BY <2>1, <2>2, <2>4, <3>4 DEF VerdictInv, VerdictFresh
  <2> QED BY <2>3, <2>4
<1> QED BY <1>4, <1>6, <1>7, <1>8, <1>9, <1>10, <1>11, <1>12, <1>13

\* The server refuses a request: when it is a reading, the rule was removed before.
LEMMA VerdictRefused ==
  ASSUME EditorInv, CardInv, VerdictInv, NEW k \in DOMAIN calls, Editor!ServeOne(k), Editor!Refused(calls[k])
  PROVE  VerdictInv'
<1>1. CardOrder /\ CardGone /\ Queue(calls) /\ EditorRequests
  BY DEF EditorInv, CardInv
<1>2. calls[k].phase = "sent" /\ UNCHANGED <<server, view, spent>> /\ Becomes(k, "refused", calls[k].reply)
  BY DEF Editor!ServeOne, Editor!Refuse, Becomes
<1>3. /\ DOMAIN calls' = DOMAIN calls /\ DOMAIN calls = 1..Len(calls) /\ Len(calls) \in Nat
      /\ \A j \in DOMAIN calls : calls'[j].op = calls[j].op /\ calls'[j].arg = calls[j].arg
      /\ \A j \in DOMAIN calls : j # k => calls'[j] = calls[j]
      /\ calls'[k].phase = "refused"
  BY <1>1, <1>2, OneServed
<1>4. VerdictUnread => VerdictUnread'
  BY <1>3 DEF VerdictUnread
<1>5. \A m : VerdictLast(m) => VerdictLast(m)' /\ calls'[m] = calls[m]
  <2> SUFFICES ASSUME NEW m, VerdictLast(m) PROVE VerdictLast(m)' /\ calls'[m] = calls[m]
    OBVIOUS
  <2>1. m \in DOMAIN calls /\ calls'[m] = calls[m]
    BY <1>2, <1>3 DEF VerdictLast
  <2>2. \A j \in DOMAIN calls : Reading(calls'[j]) /\ calls'[j].phase = "done" => j <= m
    BY <1>3 DEF VerdictLast
  <2> QED BY <1>3, <2>1, <2>2 DEF VerdictLast
<1>6. ASSUME spent.inOrder, spent.faults = 0, ~view.left, view.mode = "edit", VerdictComes PROVE VerdictComes'
  <2>1. PICK m \in DOMAIN calls : /\ Reading(calls[m]) /\ calls[m].op # "save"
                                  /\ \/ calls[m].phase = "sent"
                                     \/ \E j \in DOMAIN calls : j < m /\ calls[j].op = "remove"
    BY <1>6 DEF VerdictComes
  <2>2. Reading(calls'[m]) /\ calls'[m].op # "save"
    BY <1>3, <2>1 DEF Reading
  <2>3. CASE \E j \in DOMAIN calls : j < m /\ calls[j].op = "remove"
    BY <1>3, <2>2, <2>3 DEF VerdictComes
  <2>4. CASE m # k /\ calls[m].phase = "sent"
    BY <1>3, <2>2, <2>4 DEF VerdictComes
  <2>5. CASE m = k
    <3>1. server.yaml = Editor!None
      BY <2>1, <2>5 DEF Reading, Editor!Refused
    <3>2. PICK j \in DOMAIN calls : calls[j].op = "remove" /\ calls[j].phase = "done"
      BY <1>1, <1>6, <3>1 DEF CardGone
    <3>3. ~(k < j) /\ j # k
      BY <1>1, <1>2, <1>6, <3>2 DEF CardOrder
    <3>4. j < k
      BY <1>3, <3>3
    <3> QED BY <1>3, <2>2, <2>5, <3>2, <3>4 DEF VerdictComes
  <2> QED BY <2>1, <2>3, <2>4, <2>5
<1>7. VerdictFresh'
  <2> SUFFICES ASSUME spent.inOrder, spent.faults = 0, ~view.left, view.mode = "edit" PROVE VerdictFresh'
    BY <1>2 DEF VerdictFresh
  <2>1. CASE server.event # Editor!None \/ VerdictComes
    BY <1>2, <1>6, <2>1 DEF VerdictFresh
  <2>2. CASE \E m \in DOMAIN calls : VerdictLast(m) /\ calls[m].reply.tripped = server.tripped
    BY <1>2, <1>3, <1>5, <2>2 DEF VerdictFresh
  <2>3. CASE VerdictUnread /\ (view.detail # Editor!NoDetail => view.detail.tripped = server.tripped)
    BY <1>2, <1>4, <2>3 DEF VerdictFresh
  <2> QED BY <2>1, <2>2, <2>3 DEF VerdictInv, VerdictFresh
<1> QED BY <1>2, <1>3, <1>7 DEF VerdictInv

\* What a request does of the verdict, once it is served.
LEMMA VerdictEffect ==
  ASSUME {"tripped", "event"} \subseteq DOMAIN server, NEW c, NEW s, s = Editor!Effect(server, c)
  PROVE  /\ {"tripped", "event"} \subseteq DOMAIN s
         /\ c.op = "reactivate" => s.event = "sent"
         /\ c.op # "reactivate" => s.tripped = server.tripped /\ (s.event = server.event \/ Reading(c))
<1>6. PICK caught : caught = Editor!CaughtUp(server)
  OBVIOUS
<1>7. {"tripped", "event"} \subseteq DOMAIN caught /\ caught.tripped = server.tripped
  BY <1>6 DEF Editor!CaughtUp
<1>1. CASE c.op = "save"
  <2>1. s = [caught EXCEPT !.yaml = c.arg.text]
    BY <1>1, <1>6 DEF Editor!Effect
  <2> QED BY <1>1, <1>7, <2>1 DEF Reading
<1>8. CASE c.op = "refresh" \/ (c.op = "load" /\ c.arg = "edit")
  <2>1. s = caught
    BY <1>6, <1>8 DEF Editor!Effect
  <2> QED BY <1>7, <1>8, <2>1 DEF Reading
<1>2. CASE c.op = "remove"
  BY <1>2 DEF Editor!Effect
<1>3. CASE c.op \in {"override", "clear"}
  <2>1. \E o : s = [server EXCEPT !.overrides = o]
    BY <1>3 DEF Editor!Effect
  <2> QED BY <1>3, <2>1
<1>4. CASE c.op = "reactivate"
  BY <1>4 DEF Editor!Effect
<1>5. CASE /\ c.op \notin {"save", "remove", "override", "clear", "reactivate"}
           /\ ~(c.op = "refresh" \/ (c.op = "load" /\ c.arg = "edit"))
  BY <1>5 DEF Editor!Effect
<1> QED BY <1>1, <1>2, <1>3, <1>4, <1>5, <1>8

\* The server serves a request, in its turn: a reading brings the verdict of that time.
LEMMA VerdictServed ==
  ASSUME EditorInv, CardInv, VerdictInv, NEW k \in DOMAIN calls, Editor!ServeOne(k), ~Editor!Refused(calls[k])
  PROVE  VerdictInv'
<1> DEFINE c == calls[k]
<1>1. CardOrder /\ Queue(calls) /\ EditorRequests
  BY DEF EditorInv, CardInv
<1>2. /\ c.phase = "sent" /\ UNCHANGED <<view, spent>> /\ server' = Editor!Effect(server, c)
      /\ Becomes(k, "done", Editor!Reply(server, c))
  BY DEF Editor!ServeOne, Editor!Serve, Becomes
<1>3. /\ DOMAIN calls' = DOMAIN calls /\ DOMAIN calls = 1..Len(calls) /\ Len(calls) \in Nat
      /\ \A j \in DOMAIN calls : calls'[j].op = calls[j].op /\ calls'[j].arg = calls[j].arg
      /\ \A j \in DOMAIN calls : j # k => calls'[j] = calls[j]
      /\ calls'[k].phase = "done" /\ calls'[k].reply = Editor!Reply(server, c)
  BY <1>1, <1>2, OneServed
<1>4. /\ {"tripped", "event"} \subseteq DOMAIN server'
      /\ c.op = "reactivate" => server'.event = "sent"
      /\ c.op # "reactivate" => server'.tripped = server.tripped /\ (server'.event = server.event \/ Reading(c))
  BY <1>2, VerdictEffect DEF VerdictInv
<1>5. Reading(c) => calls'[k].reply.tripped = server'.tripped
  BY <1>2, <1>3 DEF Editor!Reply, Editor!Detail, Reading
<1>6. VerdictFresh'
  <2> SUFFICES ASSUME spent.inOrder, spent.faults = 0, ~view.left, view.mode = "edit" PROVE VerdictFresh'
    BY <1>2 DEF VerdictFresh
  <2>1. ASSUME NEW j \in DOMAIN calls, calls'[j].phase = "done" PROVE j <= k
    <3>1. ~(k < j)
      BY <1>1, <1>2, <1>3, <2>1 DEF CardOrder
    <3> QED BY <1>3, <3>1
  <2>2. CASE c.op = "reactivate"
    BY <1>4, <2>2 DEF VerdictFresh, Editor!None
  <2>3. CASE Reading(c)
    <3>1. VerdictLast(k)'
      BY <1>3, <2>1, <2>3 DEF VerdictLast, Reading
    <3> QED BY <1>3, <1>5, <2>3, <3>1 DEF VerdictFresh
  <2>4. CASE ~Reading(c) /\ c.op # "reactivate"
    <3>1. ~Reading(calls'[k])
      BY <1>3, <2>4 DEF Reading
    <3>2. VerdictComes => VerdictComes'
      <4> SUFFICES ASSUME VerdictComes PROVE VerdictComes'
        OBVIOUS
      <4>1. PICK m \in DOMAIN calls : /\ Reading(calls[m]) /\ calls[m].op # "save"
                                      /\ \/ calls[m].phase = "sent"
                                         \/ \E j \in DOMAIN calls : j < m /\ calls[j].op = "remove"
        BY DEF VerdictComes
      <4>2. m # k /\ calls'[m] = calls[m]
        BY <1>3, <2>4, <4>1
      <4> QED BY <1>3, <4>1, <4>2 DEF VerdictComes
    <3>3. \A m : VerdictLast(m) => VerdictLast(m)' /\ calls'[m] = calls[m]
      <4> SUFFICES ASSUME NEW m, VerdictLast(m) PROVE VerdictLast(m)' /\ calls'[m] = calls[m]
        OBVIOUS
      <4>1. m \in DOMAIN calls /\ calls'[m] = calls[m]
        BY <1>2, <1>3 DEF VerdictLast
      <4>2. \A j \in DOMAIN calls : Reading(calls'[j]) /\ calls'[j].phase = "done" => j <= m
        BY <1>3, <3>1 DEF VerdictLast
      <4> QED BY <1>3, <4>1, <4>2 DEF VerdictLast
    <3>4. VerdictUnread => VerdictUnread'
      BY <1>3, <3>1 DEF VerdictUnread
    <3>5. CASE server.event # Editor!None \/ VerdictComes
      BY <1>4, <2>4, <3>2, <3>5 DEF VerdictFresh
    <3>6. CASE \E m \in DOMAIN calls : VerdictLast(m) /\ calls[m].reply.tripped = server.tripped
      BY <1>3, <1>4, <2>4, <3>3, <3>6 DEF VerdictFresh
    <3>7. CASE VerdictUnread /\ (view.detail # Editor!NoDetail => view.detail.tripped = server.tripped)
      BY <1>2, <1>4, <2>4, <3>4, <3>7 DEF VerdictFresh
    <3> QED BY <3>5, <3>6, <3>7 DEF VerdictInv, VerdictFresh
  <2> QED BY <2>2, <2>3, <2>4
<1> QED BY <1>2, <1>3, <1>4, <1>6 DEF VerdictInv

\* A failure of the network ends what is promised of the card.
LEMMA VerdictFailed ==
  ASSUME EditorInv, VerdictInv, NEW k \in DOMAIN calls, Editor!Fail(k)
  PROVE  VerdictInv'
<1>1. Queue(calls) /\ Counted
  BY DEF EditorInv
<1>2. /\ UNCHANGED <<server, view>> /\ Becomes(k, "refused", Editor!None)
      /\ spent' = [spent EXCEPT !.moves = @ + 1, !.faults = @ + 1]
  BY DEF Editor!Fail, Becomes
<1>3. /\ DOMAIN calls' = DOMAIN calls
      /\ \A j \in DOMAIN calls : calls'[j].op = calls[j].op /\ calls'[j].arg = calls[j].arg
  BY <1>1, <1>2, OneServed
<1>4. spent'.faults # 0
  BY <1>1, <1>2 DEF Counted
<1> QED BY <1>2, <1>3, <1>4 DEF VerdictInv, VerdictFresh

\* A rule that gets its identifier is read again.
LEMMA VerdictNamed ==
  ASSUME EditorInv, CardInv, VerdictInv, NEW k \in DOMAIN calls, Editor!HandleAnswer(k) \/ Editor!HandleRefusal(k),
         view.mode # "edit", view'.mode = "edit"
  PROVE  VerdictComes'
<1>1. CardTells(k) /\ Queue(calls)
  BY CardTold, CardRefusedTold DEF EditorInv
<1>2. calls[k].op = "save" /\ calls[k].phase = "done"
  BY <1>1 DEF CardTells
<1>3. calls' = Others(k) \o <<Editor!Request("load", "edit")>>
  BY <1>2 DEF VerdictInv, Editor!HandleAnswer, Editor!HandleRefusal, Editor!Settle, Editor!Then, Editor!Others, Others
<1>4. PICK n : n = Editor!Request("load", "edit")
  OBVIOUS
<1>5. Shaped(n) /\ n.op = "load" /\ n.arg = "edit" /\ n.phase = "sent"
  BY <1>4, EditorAsk
<1>6. Len(calls) \in DOMAIN calls' /\ calls'[Len(calls)] = n
  BY <1>1, <1>3, <1>4, <1>5, AsksAgain
<1> QED BY <1>5, <1>6 DEF VerdictComes, Reading

\* An answer leaves the card such that its verdict is read again, or is that of the server.
LEMMA VerdictAnswered ==
  ASSUME EditorInv, CardInv, VerdictInv, NEW k \in DOMAIN calls, Editor!HandleAnswer(k) \/ Editor!HandleRefusal(k)
  PROVE  VerdictInv'
<1> DEFINE c == calls[k]
<1>1. CardTells(k) /\ CardWaits(k) /\ CardRequest(c)
  BY CardTold, CardRefusedTold, CardQueue DEF CardInv, CardRequests
<1>2. UNCHANGED <<server, spent>> /\ (spent.inOrder => k = 1) /\ c.phase \in {"done", "refused"}
  BY DEF Editor!HandleAnswer, Editor!HandleRefusal, Editor!Settle, Editor!InOrder
<1>3. \A j \in DOMAIN calls : j # k => Moved(k, j) \in DOMAIN calls' /\ calls'[Moved(k, j)] = calls[j]
  BY <1>1 DEF CardWaits
<1>4. \A i \in DOMAIN calls' :
        \/ Came(k, i) \in DOMAIN calls /\ Came(k, i) # k /\ calls'[i] = calls[Came(k, i)]
        \/ calls'[i].phase = "sent" /\ calls'[i].op \in {"load", "refresh"}
  BY <1>1 DEF CardWaits, Rereads
<1>5. ASSUME NEW i \in DOMAIN calls', calls'[i].op = "save", view'.mode # "edit" PROVE calls'[i].arg.mode # "edit"
  <2>1. Came(k, i) \in DOMAIN calls /\ calls'[i] = calls[Came(k, i)]
    BY <1>4, <1>5
  <2>2. view.mode # "edit"
    <3>1. EditorRule
      BY EditorLoads, EditorTells DEF Editor!HandleAnswer, Editor!Settle
    <3> QED BY <1>5, <3>1 DEF EditorRule
  <2> QED BY <1>5, <2>1, <2>2 DEF VerdictInv
<1>6. VerdictFresh'
  <2> SUFFICES ASSUME spent.inOrder, spent.faults = 0, ~view'.left, view'.mode = "edit" PROVE VerdictFresh'
    BY <1>2 DEF VerdictFresh
  <2>1. ~view.left /\ ~(c.op = "remove" /\ c.phase = "done") /\ k = 1
    BY <1>1, <1>2 DEF CardTells
  <2>2. c.op # "remove"
    BY <1>1, <1>2, <2>1 DEF CardRequest
  <2>3. \A j \in DOMAIN calls : ~(j < 1) /\ (j <= 1 => j = 1)
    BY QueueNumbers DEF EditorInv
  <2>4. CASE view.mode # "edit"
    <3>1. VerdictComes'
      BY <2>4, VerdictNamed
    <3> QED BY <3>1 DEF VerdictFresh
  <2>5. CASE server.event # Editor!None
    BY <1>2, <2>5 DEF VerdictFresh
  <2>6. CASE VerdictComes
    <3>1. PICK m \in DOMAIN calls : /\ Reading(calls[m]) /\ calls[m].op # "save"
                                    /\ \/ calls[m].phase = "sent"
                                       \/ \E j \in DOMAIN calls : j < m /\ calls[j].op = "remove"
      BY <2>6 DEF VerdictComes
    <3>2. m # k
      BY <1>2, <2>1, <2>3, <3>1
    <3>3. Moved(k, m) \in DOMAIN calls' /\ calls'[Moved(k, m)] = calls[m]
      BY <1>3, <3>2
    <3>4. CASE calls[m].phase = "sent"
      BY <3>1, <3>3, <3>4 DEF VerdictFresh, VerdictComes
    <3>5. CASE \E j \in DOMAIN calls : j < m /\ calls[j].op = "remove"
      <4>1. PICK j \in DOMAIN calls : j < m /\ calls[j].op = "remove"
        BY <3>5
      <4>2. j # k
        BY <2>2, <4>1
      <4>3. Moved(k, j) \in DOMAIN calls' /\ calls'[Moved(k, j)] = calls[j] /\ Moved(k, j) < Moved(k, m)
        BY <1>1, <1>3, <3>2, <4>1, <4>2 DEF CardWaits
      <4> QED BY <3>1, <3>3, <4>1, <4>3 DEF VerdictFresh, VerdictComes
    <3> QED BY <3>1, <3>4, <3>5
  <2>7. CASE \E m \in DOMAIN calls : VerdictLast(m) /\ calls[m].reply.tripped = server.tripped
    <3>1. PICK m \in DOMAIN calls : VerdictLast(m) /\ calls[m].reply.tripped = server.tripped
      BY <2>7
    <3>2. /\ Reading(calls[m]) /\ calls[m].phase = "done"
          /\ \A j \in DOMAIN calls : Reading(calls[j]) /\ calls[j].phase = "done" => j <= m
      BY <3>1 DEF VerdictLast
    <3>3. CASE m # k
      <4>1. Moved(k, m) \in DOMAIN calls' /\ calls'[Moved(k, m)] = calls[m]
        BY <1>3, <3>3
      <4>2. ASSUME NEW i \in DOMAIN calls', Reading(calls'[i]), calls'[i].phase = "done"
            PROVE  i <= Moved(k, m)
        <5>1. Came(k, i) \in DOMAIN calls /\ Came(k, i) # k /\ calls'[i] = calls[Came(k, i)]
          BY <1>4, <4>2
        <5>2. Came(k, i) <= m
          BY <3>2, <4>2, <5>1
        <5>3. Moved(k, Came(k, i)) <= Moved(k, m)
          BY <1>1, <3>3, <5>1, <5>2 DEF CardWaits
        <5>4. Moved(k, Came(k, i)) = i
          BY <1>1 DEF CardWaits
        <5> QED BY <5>3, <5>4
      <4>3. VerdictLast(Moved(k, m))'
        <5>1. PICK p : p = Moved(k, m)
          OBVIOUS
        <5>2. p \in DOMAIN calls' /\ Reading(calls'[p]) /\ calls'[p].phase = "done"
              /\ \A i \in DOMAIN calls' : Reading(calls'[i]) /\ calls'[i].phase = "done" => i <= p
          BY <3>2, <4>1, <4>2, <5>1
        <5>3. /\ Moved(k, m) \in DOMAIN calls' /\ Reading(calls'[Moved(k, m)]) /\ calls'[Moved(k, m)].phase = "done"
              /\ \A i \in DOMAIN calls' : Reading(calls'[i]) /\ calls'[i].phase = "done" => i <= Moved(k, m)
          BY <5>1, <5>2
        <5> QED BY <5>3 DEF VerdictLast
      <4> QED BY <1>2, <3>1, <4>1, <4>3 DEF VerdictFresh
    <3>4. CASE m = k
      <4>1. view'.detail.tripped = server.tripped
        BY <1>1, <3>1, <3>2, <3>4 DEF CardTells
      <4>2. VerdictUnread'
        <5> SUFFICES ASSUME NEW i \in DOMAIN calls', Reading(calls'[i]), calls'[i].phase = "done" PROVE FALSE
          BY DEF VerdictUnread
        <5>1. Came(k, i) \in DOMAIN calls /\ Came(k, i) # k /\ calls'[i] = calls[Came(k, i)]
          BY <1>4
        <5> QED BY <2>1, <2>3, <3>2, <3>4, <5>1
      <4> QED BY <1>2, <4>1, <4>2 DEF VerdictFresh
    <3> QED BY <3>3, <3>4
  <2>8. CASE VerdictUnread /\ (view.detail # Editor!NoDetail => view.detail.tripped = server.tripped)
    <3>1. view'.detail = view.detail
      BY <1>1, <2>8 DEF CardTells, VerdictUnread
    <3>2. VerdictUnread'
      BY <1>4, <2>8 DEF VerdictUnread
    <3> QED BY <1>2, <2>8, <3>1, <3>2 DEF VerdictFresh
  <2> QED BY <2>1, <2>4, <2>5, <2>6, <2>7, <2>8 DEF VerdictInv, VerdictFresh
<1> QED BY <1>2, <1>5, <1>6 DEF VerdictInv

\* Every step of the page keeps what is said of the verdict,
LEMMA VerdictStep == EditorInv /\ CardInv /\ VerdictInv /\ Editor!Next => VerdictInv'
BY VerdictGestures, VerdictServed, VerdictRefused, VerdictFailed, VerdictAnswered DEF Editor!Next

\* and, once nothing is under way, the card shows what the server holds.
LEMMA VerdictHolds == EditorInv /\ CardInv /\ VerdictInv => Editor!CardIsTrue
<1> SUFFICES ASSUME EditorInv, CardInv, VerdictInv, Editor!InOrder, Editor!Quiet, Editor!Card, spent.faults = 0
             PROVE  view.detail.overrides = server.overrides /\ view.detail.tripped = server.tripped
  BY DEF Editor!CardIsTrue
<1>1. DOMAIN calls = {} /\ spent.inOrder /\ ~view.left /\ view.detail # Editor!NoDetail /\ server.event = Editor!None
  BY DEF Editor!InOrder, Editor!Quiet, Editor!Card, Editor!Shown
<1>2. view.mode = "edit"
  BY <1>1 DEF EditorInv, EditorView
<1>3. view.detail.overrides = server.overrides
  BY <1>1 DEF CardInv, CardFresh
<1>4. view.detail.tripped = server.tripped
  BY <1>1, <1>2 DEF VerdictInv, VerdictFresh, VerdictComes, VerdictLast
<1> QED BY <1>3, <1>4

-----------------------------------------------------------------------------
(* The pages that watch: once nothing is under way, what they show is what the server holds, unless *)
(* an event was lost since it was last read.                                                       *)

LiveHeeds(event) == view.kind = "overview" \/ event.about = "mine"
LiveBrings(truth) == {k \in DOMAIN calls : calls[k].phase = "done" => calls[k].reply = truth}
LivePageOwed == "page" \in spent.missed \/ \E e \in DOMAIN server.queue : LiveHeeds(server.queue[e])
LivePageTrue ==
  Fresh(Asks(calls, "load"), LivePageOwed, LiveBrings(LiveData), view.error \/ view.data = LiveData)
LivePillOwed == "pill" \in spent.missed \/ server.queue # << >>
LivePillTrue ==
  Fresh(Asks(calls, "count"), LivePillOwed, LiveBrings(Live!Total(server)), view.pill \in {Live!Unread, Live!Total(server)})
LiveStream == view.kind \in {"overview", "detail"} /\ \E S : server.queue \in Seq(S)
LiveTrue == LiveStream /\ (spent.inOrder => LivePageTrue /\ LivePillTrue)

\* The page opens on a reading and a count.
LEMMA LiveTrueInit == Live!Init => LiveTrue
<1> SUFFICES ASSUME Live!Init PROVE LiveTrue
  OBVIOUS
<1>1. PICK c, d : /\ calls = <<c, d>> /\ c.op = "load" /\ c.phase = "sent" /\ d.op = "count" /\ d.phase = "sent"
                  /\ Shaped(c) /\ Shaped(d)
  BY LiveAsk DEF Live!Init
<1>2. DOMAIN calls = {1, 2} /\ calls[1] = c /\ calls[2] = d
  <2>1. calls \in Seq({c, d}) /\ Len(calls) = 2
    BY <1>1
  <2> QED BY <1>1, <2>1
<1>3. Asks(calls, "load") = {1} /\ Asks(calls, "count") = {2}
  BY <1>1, <1>2 DEF Asks
<1>4. Last(Asks(calls, "load")) = {1} /\ Last(Asks(calls, "count")) = {2}
  BY <1>3 DEF Last
<1>5. LivePageTrue /\ LivePillTrue
  BY <1>1, <1>2, <1>3, <1>4 DEF LivePageTrue, LivePillTrue, LiveBrings, Fresh
<1>6. LiveStream
  <2>1. view.kind \in {"overview", "detail"} /\ server.queue = << >>
    BY DEF Live!Init
  <2>2. << >> \in Seq({})
    OBVIOUS
  <2> QED BY <2>1, <2>2 DEF LiveStream
<1> QED BY <1>5, <1>6 DEF LiveTrue

\* What the server holds changes: unless the page does not heed it, it is told, or misses an event.
LEMMA LiveTrueChanges ==
  ASSUME LiveInv, LiveTrue, NEW i \in Live!Supervised, NEW by \in {1, -1}, NEW guard \in BOOLEAN, Live!Changes(i, by, guard)
  PROVE  LiveTrue'
<1>1. /\ Queue(calls) /\ DOMAIN view = LiveFields /\ DOMAIN server = {"critical", "open", "queue"}
      /\ server.critical \in [Live!Supervised -> Nat] /\ {"moves", "faults", "inOrder", "missed", "raised", "told", "first"} \subseteq DOMAIN spent
  BY DEF LiveInv, LiveView, LiveServer, LiveSpent
<1>2. /\ view' = view /\ calls' = calls /\ (spent'.inOrder <=> spent.inOrder)
      /\ spent'.missed = spent.missed \union Live!Deprived(server)
  BY <1>1 DEF Live!Changes
<1>3. PICK event, held : /\ event = [about |-> i, guard |-> guard] /\ held = [server EXCEPT !.critical[i] = @ + by]
  OBVIOUS
<1>4. /\ DOMAIN held = DOMAIN server /\ held.open = server.open /\ held.queue = server.queue
      /\ held.critical = [server.critical EXCEPT ![i] = @ + by] /\ event.about = i
  BY <1>1, <1>3
<1>5. server' = Live!Publish(held, event)
  BY <1>3 DEF Live!Changes
<1>6. PICK S : server.queue \in Seq(S)
  BY DEF LiveTrue, LiveStream
<1>7. CASE ~server.open
  <2>1. server' = held /\ spent'.missed = spent.missed \union {"page", "pill"}
    BY <1>2, <1>4, <1>5, <1>7 DEF Live!Publish, Live!Deprived
  <2> QED BY <1>2, <1>4, <1>6, <2>1 DEF LiveTrue, LiveStream, LivePageTrue, LivePillTrue, LivePageOwed, LivePillOwed, Fresh
<1>8. CASE server.open
  <2>1. PICK rest : rest = (IF Len(server.queue) = Capacity THEN Tail(server.queue) ELSE server.queue)
    OBVIOUS
  <2>2. rest \in Seq(S \union {event})
    <3>1. CASE Len(server.queue) = Capacity
      <4>1. server.queue # << >>
        BY <1>6, <3>1, CapacityAssumption
      <4>2. Tail(server.queue) \in Seq(S)
        BY <1>6, <4>1
      <4> QED BY <2>1, <3>1, <4>2
    <3>2. CASE Len(server.queue) # Capacity
      BY <1>6, <2>1, <3>2
    <3> QED BY <3>1, <3>2
  <2>3. server' = [held EXCEPT !.queue = Append(rest, event)]
    BY <1>4, <1>5, <1>8, <2>1 DEF Live!Publish
  <2>4. server'.queue = Append(rest, event) /\ server'.critical = held.critical
    BY <1>1, <1>4, <2>3
  <2>5. /\ server'.queue \in Seq(S \union {event}) /\ server'.queue # << >>
        /\ Len(rest) + 1 \in DOMAIN server'.queue /\ server'.queue[Len(rest) + 1] = event
        /\ \A e \in DOMAIN rest : e \in DOMAIN server'.queue /\ server'.queue[e] = rest[e]
    <3>1. PICK q : q = Append(rest, event)
      OBVIOUS
    <3>2. /\ q \in Seq(S \union {event}) /\ Len(q) = Len(rest) + 1 /\ q[Len(rest) + 1] = event /\ Len(rest) \in Nat
          /\ \A e \in 1..Len(rest) : q[e] = rest[e]
      BY <2>2, <3>1, AppendProperties
    <3>3. DOMAIN q = 1..(Len(rest) + 1) /\ DOMAIN rest = 1..Len(rest)
      BY <2>2, <3>2
    <3>4. q # << >>
      BY <3>2, <3>3
    <3>5. Len(rest) + 1 \in DOMAIN q
      BY <3>2, <3>3
    <3> QED BY <2>4, <3>1, <3>2, <3>3, <3>4, <3>5
  <2>6. LiveStream'
    BY <1>2, <2>5 DEF LiveStream, LiveTrue
  <2>7. LivePillTrue'
    BY <2>5 DEF LivePillTrue, LivePillOwed, Fresh
  <2>8. ASSUME spent.inOrder PROVE LivePageTrue'
    <3>1. CASE LiveHeeds(event)
      <4>1. LivePageOwed'
        BY <1>2, <2>5, <3>1 DEF LivePageOwed, LiveHeeds
      <4> QED BY <4>1 DEF LivePageTrue, Fresh
    <3>2. CASE ~LiveHeeds(event)
      <4>1. view.kind = "detail" /\ i = "other"
        BY <1>4, <3>2 DEF LiveHeeds, LiveTrue, LiveStream, Live!Supervised
      <4>2. CASE Len(server.queue) = Capacity
        <5>1. "page" \in spent'.missed
          BY <1>2, <1>8, <4>1, <4>2 DEF Live!Deprived
        <5> QED BY <5>1 DEF LivePageTrue, LivePageOwed, Fresh
      <4>3. CASE Len(server.queue) # Capacity
        <5>1. LivePageOwed => LivePageOwed'
          BY <1>2, <2>1, <2>5, <4>3 DEF LivePageOwed, LiveHeeds
        <5>2. LiveData' = LiveData
          <6>1. held.critical["mine"] = server.critical["mine"]
            BY <1>1, <1>4, <4>1
          <6> QED BY <1>2, <2>4, <4>1, <6>1 DEF LiveData, Live!DataOf
        <5>3. LivePageTrue
          BY <2>8 DEF LiveTrue
        <5>4. Asks(calls', "load") = Asks(calls, "load") /\ LiveBrings(LiveData)' = LiveBrings(LiveData)
          BY <1>2, <5>2 DEF LiveBrings
        <5> QED BY <1>2, <5>1, <5>2, <5>3, <5>4 DEF LivePageTrue, Fresh
      <4> QED BY <4>2, <4>3
    <3> QED BY <3>1, <3>2
  <2> QED BY <1>2, <2>6, <2>7, <2>8 DEF LiveTrue
<1> QED BY <1>7, <1>8

\* The stream breaks, is seen broken, is open again: what waited there is missed.
LEMMA LiveTrueBroken ==
  ASSUME LiveInv, LiveTrue, Live!Breaks \/ Live!SeesItBroken \/ Live!Reconnects
  PROVE  LiveTrue'
<1>1. /\ Queue(calls) /\ DOMAIN view = LiveFields /\ DOMAIN server = {"critical", "open", "queue"}
      /\ {"moves", "faults", "inOrder", "missed", "raised", "told", "first"} \subseteq DOMAIN spent
  BY DEF LiveInv, LiveView, LiveServer, LiveSpent
<1>2. /\ calls' = calls /\ server'.critical = server.critical /\ (spent'.inOrder <=> spent.inOrder)
      /\ view'.kind = view.kind /\ view'.data = view.data /\ view'.error = view.error /\ view'.pill = view.pill
  BY <1>1 DEF Live!Breaks, Live!SeesItBroken, Live!Reconnects, LiveFields
<1>3. \/ server'.queue = server.queue /\ spent'.missed = spent.missed
      \/ server'.queue = << >> /\ spent'.missed = {"page", "pill"}
  BY <1>1 DEF Live!Breaks, Live!SeesItBroken, Live!Reconnects
<1>4. LiveStream'
  <2>1. << >> \in Seq({})
    OBVIOUS
  <2> QED BY <1>2, <1>3, <2>1 DEF LiveTrue, LiveStream
<1>5. (LivePageOwed => LivePageOwed') /\ (LivePillOwed => LivePillOwed')
  BY <1>2, <1>3 DEF LivePageOwed, LivePillOwed, LiveHeeds
<1>6. LiveData' = LiveData /\ Live!Total(server') = Live!Total(server)
  BY <1>2 DEF LiveData, Live!DataOf, Live!Total
<1>7. LiveBrings(LiveData)' = LiveBrings(LiveData) /\ LiveBrings(Live!Total(server))' = LiveBrings(Live!Total(server))
  BY <1>2, <1>6 DEF LiveBrings
<1>8. Asks(calls', "load") = Asks(calls, "load") /\ Asks(calls', "count") = Asks(calls, "count")
  BY <1>2
<1>9. LivePageTrue => LivePageTrue'
  BY <1>2, <1>5, <1>6, <1>7, <1>8 DEF LivePageTrue, Fresh
<1>10. LivePillTrue => LivePillTrue'
  BY <1>2, <1>5, <1>6, <1>7, <1>8 DEF LivePillTrue, Fresh
<1> QED BY <1>2, <1>4, <1>9, <1>10 DEF LiveTrue

\* A queue grows by one request, and by another.
LEMMA LiveTwoSent ==
  ASSUME Queue(calls), NEW c, NEW d, Shaped(c), Shaped(d), calls' = (calls \o <<c>>) \o <<d>>
  PROVE  /\ Len(calls) \in Nat /\ DOMAIN calls = 1..Len(calls) /\ DOMAIN calls' = 1..(Len(calls) + 2)
         /\ \A j \in DOMAIN calls : j \in DOMAIN calls' /\ calls'[j] = calls[j]
         /\ Len(calls) + 1 \in DOMAIN calls' /\ calls'[Len(calls) + 1] = c
         /\ Len(calls) + 2 \in DOMAIN calls' /\ calls'[Len(calls) + 2] = d
<1>1. PICK S : calls \in Seq(S)
  BY DEF Queue
<1>2. PICK p : p = calls \o <<c>>
  OBVIOUS
<1>3. /\ p \in Seq(S \union {c, d}) /\ Len(p) = Len(calls) + 1 /\ Len(calls) \in Nat /\ DOMAIN calls = 1..Len(calls)
      /\ \A j \in 1..Len(calls) : p[j] = calls[j]
      /\ p[Len(calls) + 1] = c
  <2>1. calls \in Seq(S \union {c, d}) /\ p = Append(calls, c)
    BY <1>1, <1>2
  <2> QED BY <2>1
<1>4. calls' = Append(p, d)
  BY <1>2, <1>3
<1>5. /\ calls' \in Seq(S \union {c, d}) /\ Len(calls') = Len(calls) + 2
      /\ \A j \in 1..(Len(calls) + 1) : calls'[j] = p[j]
      /\ calls'[Len(calls) + 2] = d
  <2>1. /\ calls' \in Seq(S \union {c, d}) /\ Len(calls') = Len(p) + 1 /\ calls'[Len(p) + 1] = d
        /\ \A j \in 1..Len(p) : calls'[j] = p[j]
    <3>1. PICK q : q = Append(p, d)
      OBVIOUS
    <3>2. /\ q \in Seq(S \union {c, d}) /\ Len(q) = Len(p) + 1 /\ q[Len(p) + 1] = d
          /\ \A j \in 1..Len(p) : q[j] = p[j]
      BY <1>3, <3>1, AppendProperties
    <3> QED BY <1>4, <3>1, <3>2
  <2>2. (Len(calls) + 1) + 1 = Len(calls) + 2
    BY <1>3
  <2> QED BY <1>3, <2>1, <2>2
<1>6. DOMAIN calls' = 1..(Len(calls) + 2)
  BY <1>3, <1>5
<1> QED BY <1>3, <1>5, <1>6

\* An event that is heeded has the page read again; each has the pill counted again.
LEMMA LiveTrueDelivered ==
  ASSUME LiveInv, LiveTrue, Live!Delivered
  PROVE  LiveTrue'
<1>1. /\ Queue(calls) /\ DOMAIN view = LiveFields /\ DOMAIN server = {"critical", "open", "queue"}
  BY DEF LiveInv, LiveView, LiveServer
<1>2. PICK S : server.queue \in Seq(S) /\ server.queue # << >>
  BY DEF LiveTrue, LiveStream, Live!Delivered
<1>3. PICK event, l : event = Head(server.queue) /\ l = Len(calls)
  OBVIOUS
<1>4. PICK c, d : c = Live!Reading(event.guard) /\ d = Live!Count
  OBVIOUS
<1>5. /\ Shaped(c) /\ c.op = "load" /\ c.phase = "sent" /\ Shaped(d) /\ d.op = "count" /\ d.phase = "sent"
  BY <1>4, LiveAsk
<1>6. /\ spent' = spent /\ server' = [server EXCEPT !.queue = Tail(@)]
      /\ view'.kind = view.kind /\ view'.data = view.data /\ view'.error = view.error /\ view'.pill = view.pill
  BY <1>1 DEF Live!Delivered, LiveFields
<1>7. server'.queue = Tail(server.queue) /\ server'.critical = server.critical
  BY <1>1, <1>6
<1>8. /\ server'.queue \in Seq(S)
      /\ \A e \in DOMAIN server.queue : e = 1 \/ (e - 1 \in DOMAIN server'.queue /\ server'.queue[e - 1] = server.queue[e])
      /\ server.queue[1] = event
  <2>1. PICK q : q = Tail(server.queue)
    OBVIOUS
  <2>2. q \in Seq(S) /\ Len(q) = Len(server.queue) - 1 /\ Len(server.queue) \in Nat \ {0}
    BY <1>2, <2>1
  <2>3. \A e \in 1..Len(q) : q[e] = server.queue[e + 1]
    BY <1>2, <2>1, <2>2
  <2>4. ASSUME NEW e \in DOMAIN server.queue, e # 1 PROVE e - 1 \in DOMAIN q /\ q[e - 1] = server.queue[e]
    <3>1. e \in 1..Len(server.queue)
      BY <1>2, <2>4
    <3>2. e - 1 \in 1..Len(q) /\ (e - 1) + 1 = e
      BY <2>2, <2>4, <3>1
    <3>3. q[e - 1] = server.queue[(e - 1) + 1]
      BY <2>3, <3>2
    <3> QED BY <2>2, <3>2, <3>3
  <2> QED BY <1>2, <1>3, <1>7, <2>1, <2>2, <2>4
<1>9. LiveStream'
  BY <1>6, <1>8 DEF LiveTrue, LiveStream
<1>10. LiveHeeds(event) => calls' = (calls \o <<c>>) \o <<d>>
  BY <1>3, <1>4 DEF Live!Delivered, LiveHeeds
<1>11. ~LiveHeeds(event) => calls' = calls \o <<d>>
  <2>1. ~LiveHeeds(event) => calls' = calls \o << >> \o <<d>>
    BY <1>3, <1>4 DEF Live!Delivered, LiveHeeds
  <2>2. calls \o << >> = calls
    BY <1>1, LiveGrowsByOne
  <2> QED BY <2>1, <2>2
<1>12. LiveData' = LiveData /\ Live!Total(server') = Live!Total(server)
  BY <1>6, <1>7 DEF LiveData, Live!DataOf, Live!Total
<1>13. CASE LiveHeeds(event)
  <2>1. /\ l \in Nat /\ DOMAIN calls' = 1..(l + 2)
        /\ l + 1 \in DOMAIN calls' /\ calls'[l + 1] = c /\ l + 2 \in DOMAIN calls' /\ calls'[l + 2] = d
    BY <1>1, <1>3, <1>5, <1>10, <1>13, LiveTwoSent
  <2>2. Last(Asks(calls', "count")) = {l + 2} /\ Asks(calls', "count") # {}
    <3>1. l + 2 \in Nat \ {0} /\ calls'[l + 2].op = "count"
      BY <1>5, <2>1
    <3> QED BY <2>1, <3>1, AsksEnd
  <2>3. Last(Asks(calls', "load")) = {l + 1} /\ Asks(calls', "load") # {}
    <3>1. Asks(calls', "load") \subseteq Nat /\ l + 1 \in Asks(calls', "load")
      BY <1>5, <2>1 DEF Asks
    <3>2. \A k \in Asks(calls', "load") : k <= l + 1
      <4>1. \A k \in Asks(calls', "load") : k \in 1..(l + 2) /\ k # l + 2
        BY <1>5, <2>1 DEF Asks
      <4> QED BY <2>1, <4>1
    <3> QED BY <3>1, <3>2, LastAdded
  <2>4. LivePageTrue' /\ LivePillTrue'
    BY <1>5, <2>1, <2>2, <2>3 DEF LivePageTrue, LivePillTrue, LiveBrings, Fresh
  <2> QED BY <1>9, <2>4 DEF LiveTrue
<1>14. CASE ~LiveHeeds(event)
  <2>1. /\ Asks(calls', "load") = Asks(calls, "load")
        /\ Last(Asks(calls', "count")) = {l + 1} /\ Asks(calls', "count") # {}
        /\ l + 1 \in DOMAIN calls' /\ calls'[l + 1] = d
        /\ \A k \in DOMAIN calls : k \in DOMAIN calls' /\ calls'[k] = calls[k]
    BY <1>1, <1>3, <1>5, <1>11, <1>14, AsksSent
  <2>2. LivePillTrue'
    BY <1>5, <2>1 DEF LivePillTrue, LiveBrings, Fresh
  <2>3. LivePageOwed => LivePageOwed'
    <3>1. CASE "page" \in spent.missed
      BY <1>6, <3>1 DEF LivePageOwed
    <3>2. ASSUME NEW e \in DOMAIN server.queue, LiveHeeds(server.queue[e]) PROVE LivePageOwed'
      <4>1. e # 1
        BY <1>8, <1>14, <3>2
      <4>2. e - 1 \in DOMAIN server'.queue /\ server'.queue[e - 1] = server.queue[e]
        BY <1>8, <4>1
      <4> QED BY <1>6, <3>2, <4>2 DEF LivePageOwed, LiveHeeds
    <3> QED BY <3>1, <3>2 DEF LivePageOwed
  <2>4. LivePageTrue => LivePageTrue'
    <3>1. \A k \in LiveBrings(LiveData) : k \in LiveBrings(LiveData)'
      BY <1>12, <2>1 DEF LiveBrings
    <3> QED BY <1>6, <1>12, <2>1, <2>3, <3>1 DEF LivePageTrue, Fresh
  <2> QED BY <1>6, <1>9, <2>2, <2>4 DEF LiveTrue
<1> QED BY <1>13, <1>14

\* A poll asks for what it waits for.
LEMMA LiveTruePolled ==
  ASSUME LiveInv, LiveTrue, NEW op \in LiveOps, Live!Poll(op)
  PROVE  LiveTrue'
<1>1. Queue(calls) /\ DOMAIN view = LiveFields
  BY DEF LiveInv, LiveView
<1>2. PICK n, l : /\ n = (IF op = "load" THEN Live!Reading(FALSE) ELSE Live!Count) /\ l = Len(calls) + 1
  OBVIOUS
<1>3. Shaped(n) /\ n.op = op /\ n.phase = "sent" /\ calls' = Append(calls, n)
  BY <1>2, LiveAsk DEF Live!Poll, LiveOps
<1>4. /\ server' = server /\ spent' = spent
      /\ view'.kind = view.kind /\ view'.data = view.data /\ view'.error = view.error /\ view'.pill = view.pill
  BY <1>1 DEF Live!Poll, LiveFields
<1>5. ASSUME NEW kind
      PROVE  /\ op # kind => Asks(calls', kind) = Asks(calls, kind)
             /\ op = kind => Last(Asks(calls', kind)) = {l} /\ Asks(calls', kind) # {}
             /\ l \in DOMAIN calls' /\ calls'[l] = n
             /\ \A k \in DOMAIN calls : k \in DOMAIN calls' /\ calls'[k] = calls[k]
  BY <1>1, <1>2, <1>3, AsksSent
<1>6. LiveStream'
  BY <1>4 DEF LiveTrue, LiveStream
<1>7. LiveData' = LiveData /\ Live!Total(server') = Live!Total(server)
  BY <1>4 DEF LiveData, Live!DataOf, Live!Total
<1>8. (LivePageOwed => LivePageOwed') /\ (LivePillOwed => LivePillOwed')
  BY <1>4 DEF LivePageOwed, LivePillOwed, LiveHeeds
<1>9. LivePageTrue => LivePageTrue'
  <2>1. CASE op = "load"
    BY <1>3, <1>5, <2>1 DEF LivePageTrue, LiveBrings, Fresh
  <2>2. CASE op # "load"
    <3>1. \A k \in LiveBrings(LiveData) : k \in LiveBrings(LiveData)'
      BY <1>5, <1>7 DEF LiveBrings
    <3> QED BY <1>4, <1>5, <1>7, <1>8, <2>2, <3>1 DEF LivePageTrue, Fresh
  <2> QED BY <2>1, <2>2
<1>10. LivePillTrue => LivePillTrue'
  <2>1. CASE op = "count"
    BY <1>3, <1>5, <2>1 DEF LivePillTrue, LiveBrings, Fresh
  <2>2. CASE op # "count"
    <3>1. \A k \in LiveBrings(Live!Total(server)) : k \in LiveBrings(Live!Total(server))'
      BY <1>5, <1>7 DEF LiveBrings
    <3> QED BY <1>4, <1>5, <1>7, <1>8, <2>2, <3>1 DEF LivePillTrue, Fresh
  <2> QED BY <2>1, <2>2
<1> QED BY <1>4, <1>6, <1>9, <1>10 DEF LiveTrue

\* What is served after all that was missed brings the truth, and so will what was sent after it.
LEMMA LiveTrueServed ==
  ASSUME LiveInv, LiveTrue, NEW k \in DOMAIN calls, Live!ServeOne(k) \/ Live!Fail(k)
  PROVE  LiveTrue'
<1>1. /\ Queue(calls) /\ LiveRequests /\ LiveOrder
      /\ {"moves", "faults", "inOrder", "missed", "raised", "told", "first"} \subseteq DOMAIN spent
  BY DEF LiveInv, LiveSpent
<1>2. UNCHANGED <<server, view>> /\ (spent'.inOrder <=> spent.inOrder) /\ LiveStream'
  BY <1>1 DEF Live!ServeOne, Live!Fail, LiveTrue, LiveStream
<1>3. LiveData' = LiveData /\ Live!Total(server') = Live!Total(server)
  BY <1>2 DEF LiveData, Live!DataOf, Live!Total
<1>4. PICK phase, reply :
        /\ Becomes(k, phase, reply)
        /\ phase = "done" => /\ calls[k].phase = "sent"
                             /\ reply = IF calls[k].op = "load" THEN LiveData ELSE Live!Total(server)
                             /\ spent'.missed = spent.missed \ {IF calls[k].op = "load" THEN "page" ELSE "pill"}
        /\ phase # "done" => spent'.missed = spent.missed
  <2>1. CASE Live!Fail(k)
    <3>1. Becomes(k, "refused", Live!None) /\ spent'.missed = spent.missed
      BY <1>1, <2>1 DEF Live!Fail, Becomes
    <3> QED BY <3>1
  <2>2. CASE Live!ServeOne(k)
    <3>1. /\ Becomes(k, "done", IF calls[k].op = "load" THEN LiveData ELSE Live!Total(server))
          /\ calls[k].phase = "sent"
          /\ spent'.missed = spent.missed \ {IF calls[k].op = "load" THEN "page" ELSE "pill"}
      BY <1>1, <2>2 DEF Live!ServeOne, Becomes, LiveData
    <3> QED BY <3>1
  <2> QED BY <2>1, <2>2
<1>5. /\ DOMAIN calls' = DOMAIN calls
      /\ \A j \in DOMAIN calls : calls'[j].op = calls[j].op
      /\ \A j \in DOMAIN calls : j # k => calls'[j] = calls[j]
      /\ calls'[k].phase = phase /\ calls'[k].reply = reply
  BY <1>1, <1>4, OneServed
<1>6. ASSUME NEW op PROVE Asks(calls', op) = Asks(calls, op)
  BY <1>5 DEF Asks
<1>7. DOMAIN calls \subseteq Nat
  BY <1>1, QueueNumbers
\* What is served is the truth for the last of its kind, served or not.
<1>8. ASSUME NEW op, NEW truth, spent.inOrder, calls[k].op = op, phase = "done", reply = truth
      PROVE  Asks(calls, op) # {} /\ \A j \in Last(Asks(calls, op)) : j \in DOMAIN calls' /\ (calls'[j].phase = "done" => calls'[j].reply = truth)
  <2>1. k \in Asks(calls, op)
    BY <1>8 DEF Asks
  <2>2. ASSUME NEW j \in Last(Asks(calls, op)), calls'[j].phase = "done" PROVE calls'[j].reply = truth
    <3>1. j \in DOMAIN calls /\ k <= j
      BY <2>1, LastAsks DEF Last
    <3>2. CASE j = k
      BY <1>5, <1>8, <3>2
    <3>3. CASE j # k
      <4>1. k < j /\ calls[j].phase = "done" /\ calls[k].phase = "sent"
        BY <1>4, <1>5, <1>7, <1>8, <2>2, <3>1, <3>3
      <4> QED BY <1>1, <1>8, <3>1, <4>1 DEF LiveOrder
    <3> QED BY <3>2, <3>3
  <2> QED BY <1>5, <2>1, <2>2, LastAsks
\* What is not served of a kind leaves what is known of it.
<1>9. ASSUME NEW op, NEW truth, phase = "done" => calls[k].op # op, Last(Asks(calls, op)) \subseteq LiveBrings(truth)
      PROVE  \A j \in Last(Asks(calls, op)) : j \in DOMAIN calls' /\ (calls'[j].phase = "done" => calls'[j].reply = truth)
  BY <1>5, <1>9, LastAsks DEF LiveBrings
<1>10. ASSUME spent.inOrder PROVE LivePageTrue'
  <2>1. CASE phase = "done" /\ calls[k].op = "load"
    <3>1. reply = LiveData
      BY <1>4, <2>1
    <3>2. Asks(calls, "load") # {} /\ \A j \in Last(Asks(calls, "load")) : j \in DOMAIN calls' /\ (calls'[j].phase = "done" => calls'[j].reply = LiveData)
      BY <1>8, <1>10, <2>1, <3>1
    <3> QED BY <1>3, <1>6, <3>2 DEF LivePageTrue, LiveBrings, Fresh
  <2>2. CASE ~(phase = "done" /\ calls[k].op = "load")
    <3>1. LivePageOwed => LivePageOwed'
      BY <1>2, <1>4, <2>2 DEF LivePageOwed, LiveHeeds
    <3>2. LivePageTrue
      BY <1>10 DEF LiveTrue
    <3>3. ~LivePageOwed => \A j \in Last(Asks(calls, "load")) : j \in DOMAIN calls' /\ (calls'[j].phase = "done" => calls'[j].reply = LiveData)
      BY <1>9, <2>2, <3>2 DEF LivePageTrue, Fresh
    <3> QED BY <1>2, <1>3, <1>6, <3>1, <3>2, <3>3 DEF LivePageTrue, LiveBrings, Fresh
  <2> QED BY <2>1, <2>2
<1>11. ASSUME spent.inOrder PROVE LivePillTrue'
  <2>1. CASE phase = "done" /\ calls[k].op = "count"
    <3>1. reply = Live!Total(server)
      BY <1>4, <2>1
    <3>2. Asks(calls, "count") # {} /\ \A j \in Last(Asks(calls, "count")) : j \in DOMAIN calls' /\ (calls'[j].phase = "done" => calls'[j].reply = Live!Total(server))
      BY <1>8, <1>11, <2>1, <3>1
    <3> QED BY <1>3, <1>6, <3>2 DEF LivePillTrue, LiveBrings, Fresh
  <2>2. CASE ~(phase = "done" /\ calls[k].op = "count")
    <3>1. LivePillOwed => LivePillOwed'
      <4>1. phase = "done" => calls[k].op = "load"
        BY <1>1, <2>2 DEF LiveRequests, LiveOps
      <4> QED BY <1>2, <1>4, <4>1 DEF LivePillOwed
    <3>2. LivePillTrue
      BY <1>11 DEF LiveTrue
    <3>3. ~LivePillOwed => \A j \in Last(Asks(calls, "count")) : j \in DOMAIN calls' /\ (calls'[j].phase = "done" => calls'[j].reply = Live!Total(server))
      BY <1>9, <2>2, <3>2 DEF LivePillTrue, Fresh
    <3> QED BY <1>2, <1>3, <1>6, <3>1, <3>2, <3>3 DEF LivePillTrue, LiveBrings, Fresh
  <2> QED BY <2>1, <2>2
<1> QED BY <1>2, <1>10, <1>11 DEF LiveTrue

\* What is answered is shown.
LEMMA LiveTrueAnswered ==
  ASSUME LiveInv, LiveTrue, NEW k \in DOMAIN calls,
         Live!HandleReading(k) \/ Live!HandleFailure(k) \/ Live!HandleCount(k)
  PROVE  LiveTrue'
<1>1. /\ Queue(calls) /\ DOMAIN view = LiveFields
      /\ {"moves", "faults", "inOrder", "missed", "raised", "told", "first"} \subseteq DOMAIN spent
  BY DEF LiveInv, LiveView, LiveSpent
<1>2. calls' = Others(k) \o << >> /\ server' = server /\ (spent.inOrder => k = 1)
  <2>1. CASE Live!HandleReading(k)
    <3>1. Live!Others(k) = Others(k)
      BY DEF Live!Others, Others
    <3>2. Others(k) \o << >> = Others(k)
      <4>1. PICK q : q = Others(k)
        OBVIOUS
      <4>2. Queue(q)
        BY <1>1, <4>1, Taken DEF Others
      <4> QED BY <4>1, <4>2, LiveGrowsByOne
    <3> QED BY <2>1, <3>1, <3>2 DEF Live!HandleReading, Live!InOrder
  <2>2. CASE Live!HandleFailure(k) \/ Live!HandleCount(k)
    BY <2>2 DEF Live!HandleFailure, Live!HandleCount, Live!Settle, Live!Others, Others, Live!InOrder
  <2> QED BY <2>1, <2>2
<1>3. /\ (spent'.inOrder <=> spent.inOrder) /\ spent'.missed = spent.missed /\ view'.kind = view.kind
      /\ view'.pill \in {Live!Unread, view.pill} \/ (calls[k].op = "count" /\ view'.pill = calls[k].reply /\ calls[k].phase = "done")
      /\ calls[k].op = "count" => view'.pill = Live!Unread \/ (view'.pill = calls[k].reply /\ calls[k].phase = "done")
      /\ calls[k].op # "load" => view'.data = view.data /\ view'.error = view.error
      /\ calls[k].op = "load" => view'.error \/ (view'.data = calls[k].reply /\ calls[k].phase = "done")
  <2>1. CASE Live!HandleReading(k)
    <3>1. PICK v : v = Live!Read(view, calls[k].reply)
      OBVIOUS
    <3>2. DOMAIN v = LiveFields /\ v.data = calls[k].reply /\ v.kind = view.kind /\ v.pill = view.pill
      BY <1>1, <3>1 DEF Live!Read, LiveFields
    <3>3. view' = v \/ view' = [v EXCEPT !.said = "guard"]
      BY <2>1, <3>1 DEF Live!HandleReading
    <3>4. view'.data = calls[k].reply /\ view'.kind = view.kind /\ view'.pill = view.pill
      BY <3>2, <3>3 DEF LiveFields
    <3>5. (spent'.inOrder <=> spent.inOrder) /\ spent'.missed = spent.missed /\ calls[k].op = "load" /\ calls[k].phase = "done"
      BY <1>1, <2>1 DEF Live!HandleReading
    <3> QED BY <3>4, <3>5
  <2>2. CASE Live!HandleFailure(k)
    BY <1>1, <2>2 DEF Live!HandleFailure, Live!Settle, LiveFields
  <2>3. CASE Live!HandleCount(k)
    BY <1>1, <2>3 DEF Live!HandleCount, Live!Settle, LiveFields
  <2> QED BY <2>1, <2>2, <2>3
<1>4. LiveStream' /\ LiveData' = LiveData /\ Live!Total(server') = Live!Total(server)
  BY <1>2, <1>3 DEF LiveTrue, LiveStream, LiveData, Live!DataOf, Live!Total
<1>5. ASSUME spent.inOrder PROVE LivePageTrue' /\ LivePillTrue'
  <2>1. k = 1 /\ LivePageTrue /\ LivePillTrue /\ 1 \in DOMAIN calls
    BY <1>2, <1>5 DEF LiveTrue
  <2>2. ASSUME NEW op
        PROVE  /\ \A i \in Last(Asks(calls', op)) : i \in DOMAIN calls' /\ i + 1 \in Last(Asks(calls, op)) /\ calls'[i] = calls[i + 1]
               /\ Asks(calls', op) = {} => Asks(calls, op) = {} \/ 1 \in Last(Asks(calls, op))
    BY <1>1, <1>2, <2>1, AsksAnswered, LastAsks
  <2>3. LivePageTrue'
    <3>1. LivePageOwed => LivePageOwed'
      BY <1>2, <1>3 DEF LivePageOwed, LiveHeeds
    <3> SUFFICES ASSUME ~LivePageOwed PROVE LivePageTrue'
      BY <3>1 DEF LivePageTrue, Fresh
    <3>2. Last(Asks(calls, "load")) \subseteq LiveBrings(LiveData) /\ (Asks(calls, "load") = {} => view.error \/ view.data = LiveData)
      BY <2>1 DEF LivePageTrue, Fresh
    <3>3. Last(Asks(calls', "load")) \subseteq LiveBrings(LiveData)'
      BY <1>4, <2>2, <3>2 DEF LiveBrings
    <3>4. ASSUME Asks(calls', "load") = {} PROVE view'.error \/ view'.data = LiveData
      <4>1. CASE Asks(calls, "load") = {}
        <5>1. calls[k].op # "load"
          BY <4>1 DEF Asks
        <5> QED BY <1>3, <3>2, <4>1, <5>1
      <4>2. CASE 1 \in Last(Asks(calls, "load"))
        <5>1. calls[1].op = "load" /\ (calls[1].phase = "done" => calls[1].reply = LiveData)
          BY <3>2, <4>2, LastAsks DEF LiveBrings
        <5> QED BY <1>3, <2>1, <5>1
      <4> QED BY <2>2, <3>4, <4>1, <4>2
    <3> QED BY <1>4, <3>3, <3>4 DEF LivePageTrue, Fresh
  <2>4. LivePillTrue'
    <3>1. LivePillOwed => LivePillOwed'
      BY <1>2, <1>3 DEF LivePillOwed
    <3> SUFFICES ASSUME ~LivePillOwed PROVE LivePillTrue'
      BY <3>1 DEF LivePillTrue, Fresh
    <3>2. /\ Last(Asks(calls, "count")) \subseteq LiveBrings(Live!Total(server))
          /\ Asks(calls, "count") = {} => view.pill \in {Live!Unread, Live!Total(server)}
      BY <2>1 DEF LivePillTrue, Fresh
    <3>3. Last(Asks(calls', "count")) \subseteq LiveBrings(Live!Total(server))'
      BY <1>4, <2>2, <3>2 DEF LiveBrings
    <3>4. ASSUME Asks(calls', "count") = {} PROVE view'.pill \in {Live!Unread, Live!Total(server)}
      <4>1. CASE Asks(calls, "count") = {}
        <5>1. calls[k].op # "count"
          BY <4>1 DEF Asks
        <5> QED BY <1>3, <3>2, <4>1, <5>1
      <4>2. CASE 1 \in Last(Asks(calls, "count"))
        <5>1. calls[1].op = "count" /\ (calls[1].phase = "done" => calls[1].reply = Live!Total(server))
          BY <3>2, <4>2, LastAsks DEF LiveBrings
        <5> QED BY <1>3, <2>1, <5>1
      <4> QED BY <2>2, <3>4, <4>1, <4>2
    <3> QED BY <1>4, <3>3, <3>4 DEF LivePillTrue, Fresh
  <2> QED BY <2>3, <2>4
<1> QED BY <1>3, <1>4, <1>5 DEF LiveTrue

\* Every step of the page keeps it.
LEMMA LiveTrueStep == LiveInv /\ LiveTrue /\ Live!Next => LiveTrue'
BY LiveTrueChanges, LiveTrueBroken, LiveTrueDelivered, LiveTruePolled, LiveTrueServed, LiveTrueAnswered DEF Live!Next, LiveOps

\* Once nothing is under way, nothing is owed but what was missed.
LEMMA LiveTrueHolds == LiveTrue => Live!PageIsFresh /\ Live!PillIsTrue
<1> SUFFICES ASSUME LiveTrue, spent.inOrder, calls = << >>, server.queue = << >>
             PROVE  /\ "page" \notin spent.missed /\ ~view.error => view.data = LiveData
                    /\ "pill" \notin spent.missed => view.pill \in {Live!Unread, Live!Total(server)}
  BY DEF Live!PageIsFresh, Live!PillIsTrue, Live!InOrder, Live!Quiet, LiveData
<1>1. Asks(calls, "load") = {} /\ Asks(calls, "count") = {}
  BY DEF Asks
<1>2. DOMAIN server.queue = {}
  OBVIOUS
<1> QED BY <1>1, <1>2 DEF LiveTrue, LivePageTrue, LivePillTrue, LivePageOwed, LivePillOwed, Fresh

-----------------------------------------------------------------------------
(* The session: who is signed in, and whether a password is to be changed, is what the server holds. *)

SessionFields == {"user", "loading", "screen", "password", "busy", "error", "done"}

\* A request that says who is signed in, once it is served.
Entering(c) == c.op \in {"login", "change", "me"}
Welcomes(c) == c.op \in {"me", "login"} /\ c.phase = "done"
Stale(c) == Welcomes(c) /\ c.reply.must

SessionRequest(c) ==
  /\ c.op \in {"me", "login", "change", "data", "logout"}
  /\ c.op = "change" => c.arg.from # "start"
  /\ Welcomes(c) => c.reply.in = TRUE /\ c.reply.must \in BOOLEAN

\* The page that loads waits for its first reading, and for nothing else.
SessionStarts ==
  /\ view.loading => view.screen = "app" /\ \A k \in DOMAIN calls : calls[k].op = "me" /\ calls[k].arg = "start"
  /\ \A k \in DOMAIN calls : calls[k].op = "me" /\ calls[k].arg = "start" =>
       view.loading /\ \A j \in DOMAIN calls : j = k

SessionShape ==
  /\ Queue(calls) /\ Counted /\ {"unnoticed", "reset"} \subseteq DOMAIN spent
  /\ DOMAIN server = {"cookie", "must", "password", "account"}
  /\ server.cookie \in BOOLEAN /\ server.must \in BOOLEAN /\ server.account \in BOOLEAN
  /\ DOMAIN view = SessionFields /\ view.user.in \in BOOLEAN /\ view.user.must \in BOOLEAN
  /\ \A k \in DOMAIN calls : SessionRequest(calls[k])
  /\ SessionStarts

\* A request that was served, and whose answer changes who is signed in; whether it says that someone is.
Tells(c) ==
  \/ c.op = "me" /\ c.phase # "sent"
  \/ c.op \in {"login", "logout"} /\ c.phase = "done"
  \/ c.op \in {"change", "data", "logout"} /\ c.phase = "refused" /\ c.reply = "401"
Told(c) == c.phase = "done" /\ c.op # "logout"
Telling(q) == {k \in DOMAIN q : Tells(q[k])}

\* The last of them says what the server holds, or the page does, when nothing says it, unless the
\* session is read again.
SessionOrder == \A j, k \in DOMAIN calls : j < k /\ calls[k].phase # "sent" => calls[j].phase # "sent"
SessionTrue ==
  \/ spent.unnoticed
  \/ \E k \in DOMAIN calls : calls[k].op = "me" /\ calls[k].phase = "sent"
  \/ /\ \A k \in Last(Telling(calls)) : Told(calls[k]) <=> Session!Session(server)
     /\ Telling(calls) = {} => (view.user.in <=> Session!Session(server))

\* What the page is told of the obligation, while the server holds it, and once it was lifted; until
\* then, one request at most can lift it, and the page is busy with it.
Obliged == server.must \/ \E k \in DOMAIN calls : Stale(calls[k])
Forced == view.user.in /\ view.user.must
Lifts(c) == c.op = "change" /\ c.phase = "done"
MustKnown ==
  server.must => (\A k \in DOMAIN calls : Welcomes(calls[k]) => Stale(calls[k])) /\ (view.user.in => view.user.must)
MustLifted ==
  \A k \in DOMAIN calls : Lifts(calls[k]) \/ (calls[k].op = "me" /\ calls[k].arg # "start") =>
    ~server.must /\ ~Stale(calls[k])
MustAlone ==
  Obliged => \A k \in DOMAIN calls : Entering(calls[k]) =>
    (view.busy \/ view.loading) /\ \A j \in DOMAIN calls : Entering(calls[j]) => j = k
MustLogins == Forced => \A k \in DOMAIN calls : calls[k].op # "login"
MustEnds ==
  server.must \/ spent.reset \/ /\ \A k \in DOMAIN calls : ~Stale(calls[k])
                                /\ Forced => \E k \in DOMAIN calls : calls[k].op = "me" \/ Lifts(calls[k])
SessionMust == MustKnown /\ MustLifted /\ MustAlone /\ MustLogins /\ MustEnds

SessionInv ==
  /\ SessionShape
  /\ InStep => SessionOrder /\ SessionTrue
  /\ spent.faults = 0 => SessionMust

\* A request of the page has the four fields of a request.
LEMMA SessionAsk ==
  \A op, arg : LET c == Session!Request(op, arg) IN Shaped(c) /\ c.op = op /\ c.arg = arg /\ c.phase = "sent"
BY DEF Session!Request, Shaped

\* The page opens reading the session.
LEMMA SessionInit == Session!Init => SessionInv
<1> SUFFICES ASSUME Session!Init PROVE SessionInv
  OBVIOUS
<1>1. PICK cookie \in BOOLEAN, must \in BOOLEAN :
        /\ server = [cookie |-> cookie, must |-> must, password |-> "first", account |-> TRUE]
        /\ view = [user |-> Session!Nobody, loading |-> TRUE, screen |-> "app", password |-> Session!None, busy |-> FALSE,
                   error |-> FALSE, done |-> FALSE]
        /\ calls = <<Session!Request("me", "start")>>
        /\ Session!Unspent([unnoticed |-> FALSE, reset |-> FALSE])
  BY DEF Session!Init
<1>2. PICK n : n = Session!Request("me", "start")
  OBVIOUS
<1>3. Shaped(n) /\ n.op = "me" /\ n.arg = "start" /\ n.phase = "sent"
  BY <1>2, SessionAsk
<1>4. Queue(calls) /\ DOMAIN calls = {1} /\ calls[1] = n
  BY <1>1, <1>2, <1>3, Asked
<1>5. Counted /\ {"unnoticed", "reset"} \subseteq DOMAIN spent
  <2>1. PICK h : h = [unnoticed |-> FALSE, reset |-> FALSE]
    OBVIOUS
  <2>2. DOMAIN h = {"unnoticed", "reset"}
    BY <2>1
  <2>3. Counted /\ \A x \in DOMAIN h : x \notin {"moves", "faults", "inOrder"} => x \in DOMAIN spent
    BY <1>1, <2>1, Opens, OpensWith DEF Session!Unspent
  <2> QED BY <2>2, <2>3
<1>6. /\ DOMAIN view = SessionFields /\ view.user = Session!Nobody /\ view.loading /\ view.screen = "app"
      /\ DOMAIN server = {"cookie", "must", "password", "account"}
      /\ server.cookie \in BOOLEAN /\ server.must \in BOOLEAN /\ server.account \in BOOLEAN
  BY <1>1 DEF SessionFields
<1>7. view.user.in = FALSE /\ view.user.must = FALSE
  BY <1>6 DEF Session!Nobody
<1>8. SessionShape
  BY <1>3, <1>4, <1>5, <1>6, <1>7 DEF SessionShape, SessionRequest, SessionStarts, Welcomes
<1>9. SessionOrder /\ SessionTrue
  BY <1>3, <1>4 DEF SessionOrder, SessionTrue
<1>10. SessionMust
  BY <1>3, <1>4, <1>6, <1>7
     DEF SessionMust, MustKnown, MustLifted, MustAlone, MustLogins, MustEnds, Obliged, Forced, Lifts, Welcomes, Stale, Entering
<1> QED BY <1>8, <1>9, <1>10 DEF SessionInv

\* A gesture changes neither who is signed in nor what the server holds.
SessionKept ==
  /\ server' = server
  /\ Counted' /\ {"unnoticed", "reset"} \subseteq DOMAIN spent'
  /\ spent'.inOrder = spent.inOrder /\ spent'.faults = spent.faults
  /\ spent'.unnoticed = spent.unnoticed /\ spent'.reset = spent.reset
  /\ DOMAIN view' = SessionFields /\ view'.user = view.user /\ view'.loading = view.loading
  /\ view.loading => view'.screen = view.screen
  /\ view.busy => view'.busy

\* What it asks is asked of a page that is not loading, and is the only thing that is asked of a form.
SessionAsks(n) ==
  /\ Shaped(n) /\ n.phase = "sent" /\ SessionRequest(n) /\ n.op # "me"
  /\ calls' = calls \o <<n>> \/ calls' = Append(calls, n)
  /\ ~view.loading
  /\ n.op \in {"login", "change"} => ~view.busy /\ view'.busy
  /\ n.op = "login" => ~view.user.in

\* What is beside the session keeps it.
LEMMA SessionStays ==
  ASSUME SessionInv, SessionKept, calls' = calls
  PROVE  SessionInv'
<1>1. SessionShape'
  BY DEF SessionInv, SessionKept, SessionShape, SessionStarts
<1>2. InStep' => SessionOrder' /\ SessionTrue'
  BY DEF SessionInv, SessionKept, InStep, SessionOrder, SessionTrue
<1>3. spent'.faults = 0 => SessionMust'
  BY DEF SessionInv, SessionKept, SessionMust, MustKnown, MustLifted, MustAlone, MustLogins, MustEnds, Obliged, Forced
<1> QED BY <1>1, <1>2, <1>3 DEF SessionInv

\* A gesture asks something.
LEMMA SessionAsked ==
  ASSUME SessionInv, SessionKept, NEW n, SessionAsks(n)
  PROVE  SessionInv'
<1>1. SessionShape
  BY DEF SessionInv
<1>2. /\ Queue(calls') /\ Len(calls) \in Nat /\ DOMAIN calls = 1..Len(calls)
      /\ \A j \in DOMAIN calls : j \in DOMAIN calls' /\ calls'[j] = calls[j]
      /\ \A i \in DOMAIN calls' : \/ i \in DOMAIN calls /\ calls'[i] = calls[i]
                                  \/ i = Len(calls) + 1 /\ i \notin DOMAIN calls /\ calls'[i] = n
  BY <1>1, OneSent DEF SessionAsks, SessionShape
<1>3. \A j \in DOMAIN calls : j < Len(calls) + 1 /\ ~(Len(calls) + 1 < j)
  BY <1>2
<1>4. n.phase = "sent" /\ SessionRequest(n) /\ n.op # "me" /\ ~view.loading
  BY DEF SessionAsks
<1>5. ~Stale(n) /\ ~Welcomes(n) /\ ~Lifts(n) /\ ~Tells(n)
  BY <1>4 DEF Stale, Welcomes, Lifts, Tells
<1>6. SessionStarts'
  <2>1. ~view'.loading
    BY <1>4 DEF SessionKept
  <2>2. \A i \in DOMAIN calls' : ~(calls'[i].op = "me" /\ calls'[i].arg = "start")
    BY <1>1, <1>2, <1>4 DEF SessionShape, SessionStarts
  <2> QED BY <2>1, <2>2 DEF SessionStarts
<1>7. SessionShape'
  <2>1. \A i \in DOMAIN calls' : SessionRequest(calls'[i])
    BY <1>1, <1>2, <1>4 DEF SessionShape
  <2> QED BY <1>1, <1>2, <1>6, <2>1 DEF SessionShape, SessionKept
<1>8. ASSUME InStep' PROVE SessionOrder' /\ SessionTrue'
  <2>1. SessionOrder /\ SessionTrue
    BY <1>8 DEF InStep, SessionKept, SessionInv
  <2>2. SessionOrder'
    BY <1>2, <1>3, <1>4, <2>1 DEF SessionOrder
  <2>3. Telling(calls') = Telling(calls)
    BY <1>2, <1>5 DEF Telling
  <2>4. \A i \in Last(Telling(calls)) : calls'[i] = calls[i]
    BY <1>2 DEF Telling, Last
  <2>5. CASE spent.unnoticed
    BY <2>2, <2>5 DEF SessionKept, SessionTrue
  <2>6. CASE \E k \in DOMAIN calls : calls[k].op = "me" /\ calls[k].phase = "sent"
    <3>1. \E k \in DOMAIN calls' : calls'[k].op = "me" /\ calls'[k].phase = "sent"
      BY <1>2, <2>6
    <3> QED BY <2>2, <3>1 DEF SessionTrue
  <2>7. CASE /\ \A k \in Last(Telling(calls)) : Told(calls[k]) <=> Session!Session(server)
             /\ Telling(calls) = {} => (view.user.in <=> Session!Session(server))
    <3>1. \A k \in Last(Telling(calls')) : Told(calls'[k]) <=> Session!Session(server)
      BY <2>3, <2>4, <2>7
    <3>2. Telling(calls') = {} => (view'.user.in <=> Session!Session(server))
      BY <2>3, <2>7 DEF SessionKept
    <3>3. server' = server
      BY DEF SessionKept
    <3> QED BY <2>2, <3>1, <3>2, <3>3 DEF SessionTrue
  <2> QED BY <2>1, <2>2, <2>5, <2>6, <2>7 DEF SessionTrue
<1>9. ASSUME spent'.faults = 0 PROVE SessionMust'
  <2>1. SessionMust
    BY <1>9 DEF SessionInv, SessionKept
  <2>2. MustKnown'
    BY <1>2, <1>5, <2>1 DEF SessionMust, MustKnown, SessionKept
  <2>3. MustLifted'
    BY <1>2, <1>4, <1>5, <2>1 DEF SessionMust, MustLifted, SessionKept
  <2>4. MustAlone'
    <3> SUFFICES ASSUME Obliged', NEW i \in DOMAIN calls', Entering(calls'[i])
                 PROVE  (view'.busy \/ view'.loading) /\ \A j \in DOMAIN calls' : Entering(calls'[j]) => j = i
      BY DEF MustAlone
    <3>1. Obliged
      BY <1>2, <1>5 DEF Obliged, SessionKept
    <3>2. CASE i \in DOMAIN calls /\ calls'[i] = calls[i]
      <4>1. view.busy /\ \A j \in DOMAIN calls : Entering(calls[j]) => j = i
        BY <1>4, <2>1, <3>1, <3>2 DEF SessionMust, MustAlone
      <4>2. ~Entering(n)
        BY <1>4, <4>1 DEF Entering, SessionAsks
      <4> QED BY <1>2, <4>1, <4>2 DEF SessionKept
    <3>3. CASE i = Len(calls) + 1 /\ calls'[i] = n
      <4>1. ~view.busy /\ view'.busy
        BY <1>4, <3>3 DEF Entering, SessionAsks
      <4>2. \A j \in DOMAIN calls : ~Entering(calls[j])
        BY <1>4, <2>1, <3>1, <4>1 DEF SessionMust, MustAlone
      <4> QED BY <1>2, <3>3, <4>1, <4>2
    <3> QED BY <1>2, <3>2, <3>3
  <2>5. MustLogins'
    BY <1>2, <2>1 DEF SessionMust, MustLogins, Forced, SessionKept, SessionAsks
  <2>6. MustEnds'
    BY <1>2, <1>5, <2>1 DEF SessionMust, MustEnds, Forced, SessionKept
  <2> QED BY <2>2, <2>3, <2>4, <2>5, <2>6 DEF SessionMust
<1> QED BY <1>7, <1>8, <1>9 DEF SessionInv

\* The routes change the screen and its form, once the page is loaded.
LEMMA SessionRouted ==
  ASSUME NEW v, DOMAIN v = SessionFields
  PROVE  LET w == Session!Routed(v)
         IN  /\ DOMAIN w = SessionFields /\ w.user = v.user /\ w.loading = v.loading /\ w.busy = v.busy
             /\ v.loading => w = v
<1>1. PICK w : w = Session!Routed(v)
  OBVIOUS
<1>2. CASE v.loading
  <2>1. w = v
    BY <1>1, <1>2 DEF Session!Routed
  <2> QED BY <1>1, <1>2, <2>1
<1>3. CASE ~v.loading /\ v.screen # "login" /\ ~v.user.in
  <2>1. w = [v EXCEPT !.screen = "login", !.password = Session!None, !.error = FALSE]
    BY <1>1, <1>3 DEF Session!Routed
  <2>2. DOMAIN w = SessionFields /\ w.user = v.user /\ w.loading = v.loading /\ w.busy = v.busy
    BY <2>1 DEF SessionFields
  <2> QED BY <1>1, <1>3, <2>2
<1>4. CASE ~v.loading /\ v.screen = "login" /\ v.user.in /\ ~v.user.must
  <2>1. w = [v EXCEPT !.screen = "app"]
    BY <1>1, <1>4 DEF Session!Routed
  <2>2. DOMAIN w = SessionFields /\ w.user = v.user /\ w.loading = v.loading /\ w.busy = v.busy
    BY <2>1 DEF SessionFields
  <2> QED BY <1>1, <1>4, <2>2
<1>5. CASE /\ ~v.loading /\ ~(v.screen # "login" /\ ~v.user.in)
           /\ ~(v.screen = "login" /\ v.user.in /\ ~v.user.must)
  <2>1. w = v
    BY <1>1, <1>5 DEF Session!Routed
  <2> QED BY <1>1, <1>5, <2>1
<1> QED BY <1>2, <1>3, <1>4, <1>5

\* The gestures of the page.
LEMMA SessionGestures ==
  ASSUME SessionInv,
         \/ \E password \in Session!Passwords : Session!SubmitLogin(password) \/ Session!SubmitImposedChange(password)
         \/ \E current, new \in Session!Passwords : Session!SubmitChange(current, new)
         \/ \E screen \in Session!Screens : Session!Visit(screen)
         \/ Session!Mismatch \/ Session!Ask \/ Session!Logout
  PROVE  SessionInv'
<1>1. SessionShape /\ Queue(calls) /\ Counted /\ DOMAIN view = SessionFields /\ {"unnoticed", "reset"} \subseteq DOMAIN spent
  BY DEF SessionInv, SessionShape
<1>2. server' = server /\ spent' = [spent EXCEPT !.moves = @ + 1]
  BY DEF Session!SubmitLogin, Session!SubmitImposedChange, Session!SubmitChange, Session!Visit, Session!Mismatch,
         Session!Ask, Session!Logout, Session!Gesture, Session!Spend
<1>3. /\ Counted' /\ {"unnoticed", "reset"} \subseteq DOMAIN spent'
      /\ spent'.inOrder = spent.inOrder /\ spent'.faults = spent.faults
      /\ spent'.unnoticed = spent.unnoticed /\ spent'.reset = spent.reset
  BY <1>1, <1>2 DEF Counted
<1>4. ASSUME NEW op, NEW arg, calls' = calls \o <<Session!Request(op, arg)>>, op \in {"login", "change", "data", "logout"},
             op = "change" => arg.from # "start", ~view.loading,
             op \in {"login", "change"} => ~view.busy /\ view'.busy,
             op = "login" => ~view.user.in
      PROVE  \E n : SessionAsks(n)
  <2>1. PICK n : n = Session!Request(op, arg)
    OBVIOUS
  <2>2. Shaped(n) /\ n.op = op /\ n.arg = arg /\ n.phase = "sent"
    BY <2>1, SessionAsk
  <2>3. SessionRequest(n)
    BY <1>4, <2>2 DEF SessionRequest, Welcomes
  <2>4. SessionAsks(n)
    BY <1>4, <2>1, <2>2, <2>3 DEF SessionAsks
  <2> QED BY <2>4
<1>5. CASE \E password \in Session!Passwords : Session!SubmitLogin(password)
  <2>1. PICK password : Session!SubmitLogin(password)
    BY <1>5
  <2>2. /\ view' = [view EXCEPT !.password = password, !.busy = TRUE, !.error = FALSE]
        /\ calls' = calls \o <<Session!Request("login", password)>>
        /\ ~view.loading /\ ~view.busy /\ ~view.user.in
    BY <2>1 DEF Session!SubmitLogin, Session!Gesture, Session!Shown
  <2>3. /\ DOMAIN view' = SessionFields /\ view'.user = view.user /\ view'.loading = view.loading
        /\ view'.screen = view.screen /\ view'.busy = TRUE
    BY <1>1, <2>2 DEF SessionFields
  <2>4. SessionKept
    BY <1>2, <1>3, <2>3 DEF SessionKept
  <2>5. \E n : SessionAsks(n)
    BY <1>4, <2>2, <2>3
  <2> QED BY <2>4, <2>5, SessionAsked
<1>6. CASE \E password \in Session!Passwords : Session!SubmitImposedChange(password)
  <2>1. PICK password : Session!SubmitImposedChange(password)
    BY <1>6
  <2>2. PICK arg : arg = [current |-> view.password, new |-> password, from |-> "login"]
    OBVIOUS
  <2>3. /\ view' = [view EXCEPT !.busy = TRUE, !.error = FALSE]
        /\ calls' = calls \o <<Session!Request("change", arg)>>
        /\ ~view.loading /\ ~view.busy /\ arg.from # "start"
    BY <2>1, <2>2 DEF Session!SubmitImposedChange, Session!Gesture, Session!Shown
  <2>4. /\ DOMAIN view' = SessionFields /\ view'.user = view.user /\ view'.loading = view.loading
        /\ view'.screen = view.screen /\ view'.busy = TRUE
    BY <1>1, <2>3 DEF SessionFields
  <2>5. SessionKept
    BY <1>2, <1>3, <2>4 DEF SessionKept
  <2>6. \E n : SessionAsks(n)
    BY <1>4, <2>3, <2>4
  <2> QED BY <2>5, <2>6, SessionAsked
<1>7. CASE \E current, new \in Session!Passwords : Session!SubmitChange(current, new)
  <2>1. PICK current, new \in Session!Passwords : Session!SubmitChange(current, new)
    BY <1>7
  <2>2. PICK arg : arg = [current |-> current, new |-> new, from |-> "profile"]
    OBVIOUS
  <2>3. /\ view' = [view EXCEPT !.busy = TRUE, !.error = FALSE, !.done = FALSE]
        /\ calls' = calls \o <<Session!Request("change", arg)>>
        /\ view.screen = "profile" /\ ~view.busy /\ arg.from # "start"
    BY <2>1, <2>2 DEF Session!SubmitChange, Session!Gesture
  <2>4. ~view.loading
    BY <1>1, <2>3 DEF SessionShape, SessionStarts
  <2>5. /\ DOMAIN view' = SessionFields /\ view'.user = view.user /\ view'.loading = view.loading
        /\ view'.screen = view.screen /\ view'.busy = TRUE
    BY <1>1, <2>3 DEF SessionFields
  <2>6. SessionKept
    BY <1>2, <1>3, <2>5 DEF SessionKept
  <2>7. \E n : SessionAsks(n)
    BY <1>4, <2>3, <2>4, <2>5
  <2> QED BY <2>6, <2>7, SessionAsked
<1>8. CASE \E screen \in Session!Screens : Session!Visit(screen)
  <2>1. PICK screen : Session!Visit(screen)
    BY <1>8
  <2>2. PICK v : v = [view EXCEPT !.screen = screen, !.password = Session!None, !.error = FALSE, !.done = FALSE]
    OBVIOUS
  <2>3. view' = Session!Routed(v) /\ calls' = calls \o << >> /\ ~view.loading
    BY <2>1, <2>2 DEF Session!Visit, Session!Gesture, Session!Shown
  <2>4. DOMAIN v = SessionFields /\ v.user = view.user /\ v.loading = view.loading /\ v.busy = view.busy
    BY <1>1, <2>2 DEF SessionFields
  <2>5. /\ DOMAIN view' = SessionFields /\ view'.user = view.user /\ view'.loading = view.loading /\ view'.busy = view.busy
    BY <2>3, <2>4, SessionRouted
  <2>6. SessionKept
    BY <1>2, <1>3, <2>3, <2>5 DEF SessionKept
  <2> QED BY <1>1, <2>3, <2>6, NothingSent, SessionStays
<1>9. CASE Session!Mismatch
  <2>1. view' = [view EXCEPT !.error = TRUE] /\ calls' = calls \o << >>
    BY <1>9 DEF Session!Mismatch, Session!Gesture
  <2>2. /\ DOMAIN view' = SessionFields /\ view'.user = view.user /\ view'.loading = view.loading
        /\ view'.screen = view.screen /\ view'.busy = view.busy
    BY <1>1, <2>1 DEF SessionFields
  <2>3. SessionKept
    BY <1>2, <1>3, <2>2 DEF SessionKept
  <2> QED BY <1>1, <2>1, <2>3, NothingSent, SessionStays
<1>10. CASE Session!Ask \/ Session!Logout
  <2>1. view' = view /\ ~view.loading
    BY <1>10 DEF Session!Ask, Session!Logout, Session!Gesture, Session!Shown
  <2>2. \E op \in {"data", "logout"} : \E arg : calls' = calls \o <<Session!Request(op, arg)>>
    BY <1>10 DEF Session!Ask, Session!Logout, Session!Gesture
  <2>3. SessionKept
    BY <1>1, <1>2, <1>3, <2>1 DEF SessionKept
  <2>4. \E n : SessionAsks(n)
    BY <1>4, <2>1, <2>2
  <2> QED BY <2>3, <2>4, SessionAsked
<1> QED BY <1>5, <1>6, <1>7, <1>8, <1>9, <1>10

\* The session ends, or the obligation is lifted, elsewhere.
LEMMA SessionElsewhere ==
  ASSUME SessionInv, Session!Expire \/ Session!Reset
  PROVE  SessionInv'
<1>1. SessionShape /\ Counted /\ {"unnoticed", "reset"} \subseteq DOMAIN spent /\ DOMAIN server = {"cookie", "must", "password", "account"}
  BY DEF SessionInv, SessionShape
<1>2. CASE Session!Expire
  <2>1. /\ UNCHANGED <<view, calls>> /\ spent' = [spent EXCEPT !.moves = @ + 1, !.unnoticed = TRUE]
        /\ server' = [server EXCEPT !.cookie = FALSE] \/ server' = [server EXCEPT !.account = FALSE]
    BY <1>2 DEF Session!Expire
  <2>2. /\ DOMAIN server' = {"cookie", "must", "password", "account"} /\ server'.must = server.must
        /\ server'.cookie \in BOOLEAN /\ server'.account \in BOOLEAN
    BY <1>1, <2>1 DEF SessionShape
  <2>3. /\ Counted' /\ {"unnoticed", "reset"} \subseteq DOMAIN spent' /\ spent'.inOrder = spent.inOrder
        /\ spent'.faults = spent.faults /\ spent'.unnoticed = TRUE /\ spent'.reset = spent.reset
    BY <1>1, <2>1 DEF Counted
  <2>4. SessionShape'
    BY <1>1, <2>1, <2>2, <2>3 DEF SessionShape, SessionStarts
  <2>5. InStep' => SessionOrder' /\ SessionTrue'
    BY <2>1, <2>3 DEF SessionInv, InStep, SessionOrder, SessionTrue
  <2>6. spent'.faults = 0 => SessionMust'
    BY <2>1, <2>2, <2>3
       DEF SessionInv, SessionMust, MustKnown, MustLifted, MustAlone, MustLogins, MustEnds, Obliged, Forced
  <2> QED BY <2>4, <2>5, <2>6 DEF SessionInv
<1>3. CASE Session!Reset
  <2>1. /\ UNCHANGED <<view, calls>> /\ spent' = [spent EXCEPT !.moves = @ + 1, !.reset = TRUE]
        /\ server' = [server EXCEPT !.password = "second", !.must = FALSE]
    BY <1>3 DEF Session!Reset
  <2>2. /\ DOMAIN server' = {"cookie", "must", "password", "account"} /\ server'.must = FALSE
        /\ server'.cookie = server.cookie /\ server'.account = server.account
    BY <1>1, <2>1
  <2>3. /\ Counted' /\ {"unnoticed", "reset"} \subseteq DOMAIN spent' /\ spent'.inOrder = spent.inOrder
        /\ spent'.faults = spent.faults /\ spent'.unnoticed = spent.unnoticed /\ spent'.reset = TRUE
    BY <1>1, <2>1 DEF Counted
  <2>4. SessionShape'
    BY <1>1, <2>1, <2>2, <2>3 DEF SessionShape, SessionStarts
  <2>5. InStep' => SessionOrder' /\ SessionTrue'
    BY <2>1, <2>2, <2>3 DEF SessionInv, InStep, SessionOrder, SessionTrue, Session!Session
  <2>6. spent'.faults = 0 => SessionMust'
    BY <2>1, <2>2, <2>3
       DEF SessionInv, SessionMust, MustKnown, MustLifted, MustAlone, MustLogins, MustEnds, Obliged, Forced
  <2> QED BY <2>4, <2>5, <2>6 DEF SessionInv
<1> QED BY <1>2, <1>3

\* What the serving of request k does, and what its answer says of the session and of the obligation.
SessionServes(k, phase, reply) ==
  /\ view' = view /\ calls[k].phase = "sent" /\ phase \in {"done", "refused"} /\ Becomes(k, phase, reply)
  /\ spent.inOrder => \A j \in 1..(k - 1) : calls[j].phase # "sent"
  /\ Counted' /\ {"unnoticed", "reset"} \subseteq DOMAIN spent'
  /\ spent'.inOrder = spent.inOrder /\ spent'.faults = spent.faults
  /\ DOMAIN server' = {"cookie", "must", "password", "account"}
  /\ server'.cookie \in BOOLEAN /\ server'.must \in BOOLEAN /\ server'.account \in BOOLEAN
  /\ server'.must <=> server.must /\ ~(calls[k].op = "change" /\ phase = "done")
  /\ IF calls[k].op \in {"me", "login"} /\ phase = "done"
       THEN reply.in = TRUE /\ reply.must = server.must
       ELSE spent'.reset <=> spent.reset
  /\ IF \/ calls[k].op = "me" \/ (calls[k].op \in {"login", "logout"} /\ phase = "done")
        \/ (calls[k].op \in {"change", "data", "logout"} /\ phase = "refused" /\ reply = "401")
       THEN phase = "done" /\ calls[k].op # "logout" <=> Session!Session(server')
       ELSE (spent'.unnoticed <=> spent.unnoticed) /\ (Session!Session(server') <=> Session!Session(server))

\* The server serves a request, or refuses it.
LEMMA SessionServe ==
  ASSUME SessionInv, NEW k \in DOMAIN calls, Session!ServeOne(k)
  PROVE  \E phase, reply : SessionServes(k, phase, reply)
<1>1. SessionShape /\ SessionRequest(calls[k])
  BY DEF SessionInv, SessionShape
<1>2. PICK c : c = calls[k]
  OBVIOUS
<1>3. PICK phase : phase = IF Session!Refused(c) THEN "refused" ELSE "done"
  OBVIOUS
<1>4. PICK reply : reply = CASE Session!Unauthorized(c) -> "401"
                             [] Session!Refused(c) /\ ~Session!Unauthorized(c) -> "no"
                             [] ~Session!Refused(c) -> Session!User(server)
  OBVIOUS
<1>5. /\ c.phase = "sent" /\ (spent.inOrder => \A j \in 1..(k - 1) : calls[j].phase # "sent")
      /\ server' = CASE ~Session!Refused(c) -> Session!Effect(server, c)
                     [] Session!Refused(c) /\ c.op = "me" -> [server EXCEPT !.cookie = FALSE]
                     [] Session!Refused(c) /\ c.op # "me" -> server
      /\ calls' = [calls EXCEPT ![k].phase = phase, ![k].reply = reply]
      /\ spent' = [spent EXCEPT !.unnoticed = @ /\ ~Session!Unauthorized(c) /\ (Session!Refused(c) \/ c.op \notin {"login", "logout"}),
                                !.reset = @ /\ (Session!Refused(c) \/ c.op \notin {"me", "login"})]
      /\ view' = view
  BY <1>2, <1>3, <1>4 DEF Session!ServeOne, Session!InOrder
<1>6. /\ Counted' /\ {"unnoticed", "reset"} \subseteq DOMAIN spent'
      /\ spent'.inOrder = spent.inOrder /\ spent'.faults = spent.faults
  BY <1>1, <1>5 DEF SessionShape, Counted
<1>7. /\ spent'.unnoticed <=> spent.unnoticed /\ ~Session!Unauthorized(c) /\ (Session!Refused(c) \/ c.op \notin {"login", "logout"})
      /\ spent'.reset <=> spent.reset /\ (Session!Refused(c) \/ c.op \notin {"me", "login"})
  BY <1>1, <1>5 DEF SessionShape
<1>8. /\ DOMAIN server = {"cookie", "must", "password", "account"} /\ c.op \in {"me", "change", "login", "data", "logout"}
      /\ server.cookie \in BOOLEAN /\ server.must \in BOOLEAN /\ server.account \in BOOLEAN
  BY <1>1, <1>2 DEF SessionShape, SessionRequest
<1>9. Session!Unauthorized(c) => Session!Refused(c)
  BY DEF Session!Refused
<1>10. /\ phase \in {"done", "refused"} /\ (phase = "refused" <=> Session!Refused(c))
       /\ (reply = "401" /\ phase = "refused" <=> Session!Unauthorized(c))
       /\ phase = "done" => reply.in = TRUE /\ reply.must = server.must
  <2>1. CASE Session!Unauthorized(c)
    BY <1>3, <1>4, <1>9, <2>1
  <2>2. CASE Session!Refused(c) /\ ~Session!Unauthorized(c)
    BY <1>3, <1>4, <2>2
  <2>3. CASE ~Session!Refused(c)
    <3>1. reply = Session!User(server) /\ phase = "done"
      BY <1>3, <1>4, <1>9, <2>3
    <3> QED BY <1>9, <2>3, <3>1 DEF Session!User
  <2> QED BY <2>1, <2>2, <2>3
<1>11. /\ DOMAIN server' = {"cookie", "must", "password", "account"}
       /\ server'.cookie \in BOOLEAN /\ server'.must \in BOOLEAN /\ server'.account \in BOOLEAN
       /\ server'.account = server.account
       /\ server'.must <=> server.must /\ ~(c.op = "change" /\ phase = "done")
       /\ server'.cookie <=> IF phase = "done" THEN c.op = "login" \/ (c.op # "logout" /\ server.cookie)
                                               ELSE c.op # "me" /\ server.cookie
  <2>1. CASE Session!Refused(c) /\ c.op = "me"
    <3>1. server' = [server EXCEPT !.cookie = FALSE]
      BY <1>5, <2>1
    <3> QED BY <1>8, <1>10, <2>1, <3>1
  <2>2. CASE Session!Refused(c) /\ c.op # "me"
    <3>1. server' = server
      BY <1>5, <2>2
    <3> QED BY <1>8, <1>10, <2>2, <3>1
  <2>3. CASE ~Session!Refused(c)
    <3>1. server' = Session!Effect(server, c) /\ phase = "done"
      BY <1>5, <1>10, <2>3
    <3>2. CASE c.op = "login"
      <4>1. server' = [server EXCEPT !.cookie = TRUE]
        BY <3>1, <3>2 DEF Session!Effect
      <4> QED BY <1>8, <3>1, <3>2, <4>1
    <3>3. CASE c.op = "logout"
      <4>1. server' = [server EXCEPT !.cookie = FALSE]
        BY <3>1, <3>3 DEF Session!Effect
      <4> QED BY <1>8, <3>1, <3>3, <4>1
    <3>4. CASE c.op = "change"
      <4>1. server' = [server EXCEPT !.password = c.arg.new, !.must = FALSE]
        BY <3>1, <3>4 DEF Session!Effect
      <4> QED BY <1>8, <3>1, <3>4, <4>1
    <3>5. CASE c.op \in {"me", "data"}
      <4>1. server' = server
        BY <3>1, <3>5 DEF Session!Effect
      <4> QED BY <1>8, <3>1, <3>5, <4>1
    <3> QED BY <1>8, <3>2, <3>3, <3>4, <3>5
  <2> QED BY <2>1, <2>2, <2>3
<1>12. /\ Session!Session(server) <=> server.cookie /\ server.account
       /\ Session!Session(server') <=> server'.cookie /\ server.account
  BY <1>11 DEF Session!Session
<1>13. /\ c.op = "data" /\ Session!Unauthorized(c) => ~server.cookie
       /\ c.op \in {"me", "change"} => (Session!Unauthorized(c) <=> ~(server.cookie /\ server.account))
       /\ c.op \in {"login", "logout"} => ~Session!Unauthorized(c)
       /\ c.op \in {"me", "data", "logout"} => (Session!Refused(c) <=> Session!Unauthorized(c))
       /\ c.op = "login" /\ ~Session!Refused(c) => server.account
  BY <1>8, <1>12 DEF Session!Unauthorized, Session!Refused
<1>14. IF c.op \in {"me", "login"} /\ phase = "done"
         THEN reply.in = TRUE /\ reply.must = server.must
         ELSE spent'.reset <=> spent.reset
  BY <1>7, <1>10
<1>15. IF \/ c.op = "me" \/ (c.op \in {"login", "logout"} /\ phase = "done")
          \/ (c.op \in {"change", "data", "logout"} /\ phase = "refused" /\ reply = "401")
         THEN phase = "done" /\ c.op # "logout" <=> Session!Session(server')
         ELSE (spent'.unnoticed <=> spent.unnoticed) /\ (Session!Session(server') <=> Session!Session(server))
  <2>1. CASE c.op = "me"
    BY <1>10, <1>11, <1>12, <1>13, <2>1
  <2>2. CASE c.op = "login"
    BY <1>7, <1>10, <1>11, <1>12, <1>13, <2>2
  <2>3. CASE c.op = "logout"
    BY <1>7, <1>10, <1>11, <1>12, <1>13, <2>3
  <2>4. CASE c.op = "change"
    BY <1>7, <1>10, <1>11, <1>12, <1>13, <2>4
  <2>5. CASE c.op = "data"
    BY <1>7, <1>10, <1>11, <1>12, <1>13, <2>5
  <2> QED BY <1>8, <2>1, <2>2, <2>3, <2>4, <2>5
<1>16. SessionServes(k, phase, reply)
  <2>1. Becomes(k, phase, reply)
    BY <1>5 DEF Becomes
  <2> QED BY <1>2, <1>5, <1>6, <1>10, <1>11, <1>14, <1>15, <2>1 DEF SessionServes
<1> QED BY <1>16

\* What is served says what the server holds, and is the last that does.
LEMMA SessionServed ==
  ASSUME SessionInv, NEW k \in DOMAIN calls, Session!ServeOne(k)
  PROVE  SessionInv'
<1>1. PICK phase, reply : SessionServes(k, phase, reply)
  BY SessionServe
<1>2. /\ SessionShape /\ Queue(calls) /\ SessionRequest(calls[k]) /\ view' = view
      /\ calls[k].phase = "sent" /\ phase \in {"done", "refused"} /\ Becomes(k, phase, reply)
      /\ spent'.inOrder = spent.inOrder /\ spent'.faults = spent.faults
  BY <1>1 DEF SessionInv, SessionShape, SessionServes
<1>3. /\ Queue(calls') /\ Len(calls) \in Nat /\ DOMAIN calls = 1..Len(calls) /\ DOMAIN calls' = DOMAIN calls
      /\ \A j \in DOMAIN calls : calls'[j].op = calls[j].op /\ calls'[j].arg = calls[j].arg
      /\ \A j \in DOMAIN calls : j # k => calls'[j] = calls[j]
      /\ calls'[k].phase = phase /\ calls'[k].reply = reply
  BY <1>2, OneServed
<1>4. /\ calls'[k].op = calls[k].op /\ calls'[k].arg = calls[k].arg
      /\ ~Stale(calls[k]) /\ ~Welcomes(calls[k]) /\ ~Lifts(calls[k]) /\ ~Tells(calls[k])
  BY <1>2, <1>3 DEF Stale, Welcomes, Lifts, Tells
<1>5. SessionRequest(calls'[k])
  BY <1>1, <1>2, <1>3, <1>4 DEF SessionServes, SessionRequest, Welcomes, SessionShape
<1>6. SessionShape'
  <2>1. \A j \in DOMAIN calls' : SessionRequest(calls'[j])
    BY <1>2, <1>3, <1>5 DEF SessionShape
  <2>2. SessionStarts'
    BY <1>2, <1>3 DEF SessionShape, SessionStarts
  <2> QED BY <1>1, <1>2, <1>3, <2>1, <2>2 DEF SessionShape, SessionServes
<1>7. ASSUME InStep' PROVE SessionOrder' /\ SessionTrue'
  <2>1. SessionOrder /\ SessionTrue /\ spent.inOrder
    BY <1>2, <1>7 DEF InStep, SessionInv
  <2>2. \A j \in DOMAIN calls : j < k => calls[j].phase # "sent"
    <3>1. \A j \in DOMAIN calls : j < k => j \in 1..(k - 1)
      BY <1>3
    <3> QED BY <1>1, <2>1, <3>1 DEF SessionServes
  <2>3. \A j \in DOMAIN calls : calls[j].phase # "sent" => j < k
    <3> SUFFICES ASSUME NEW j \in DOMAIN calls, calls[j].phase # "sent" PROVE j < k
      OBVIOUS
    <3>1. j # k /\ ~(k < j)
      BY <1>2, <2>1 DEF SessionOrder
    <3> QED BY <1>3, <3>1
  <2>4. SessionOrder'
    <3> SUFFICES ASSUME NEW i \in DOMAIN calls, NEW j \in DOMAIN calls, i < j, calls'[j].phase # "sent"
                 PROVE  calls'[i].phase # "sent"
      BY <1>3 DEF SessionOrder
    <3>1. CASE i = k
      BY <1>2, <1>3, <3>1
    <3>2. CASE i # k /\ j = k
      BY <1>3, <2>2, <3>2
    <3>3. CASE i # k /\ j # k
      BY <1>3, <2>1, <3>3 DEF SessionOrder
    <3> QED BY <3>1, <3>2, <3>3
  <2>5. CASE Tells(calls'[k])
    <3>1. Telling(calls') \subseteq Nat /\ k \in Telling(calls') /\ \A j \in Telling(calls') : j <= k
      <4>1. \A j \in DOMAIN calls' : Tells(calls'[j]) => calls'[j].phase # "sent"
        BY DEF Tells
      <4>2. \A j \in DOMAIN calls' : calls'[j].phase # "sent" => j <= k
        BY <1>3, <2>3
      <4> QED BY <1>3, <2>5, <4>1, <4>2 DEF Telling
    <3>2. Last(Telling(calls')) = {k} /\ Telling(calls') # {}
      <4> HIDE DEF Telling
      <4> QED BY <3>1, LastAdded
    <3>3. \/ calls[k].op = "me" \/ (calls[k].op \in {"login", "logout"} /\ phase = "done")
          \/ (calls[k].op \in {"change", "data", "logout"} /\ phase = "refused" /\ reply = "401")
      BY <1>3, <1>4, <2>5 DEF Tells
    <3>4. phase = "done" /\ calls[k].op # "logout" <=> Session!Session(server')
      BY <1>1, <3>3 DEF SessionServes
    <3>5. Told(calls'[k]) <=> Session!Session(server')
      BY <1>3, <1>4, <3>4 DEF Told
    <3> QED BY <2>4, <3>2, <3>5 DEF SessionTrue
  <2>6. CASE ~Tells(calls'[k])
    <3>1. ~(\/ calls[k].op = "me" \/ (calls[k].op \in {"login", "logout"} /\ phase = "done")
            \/ (calls[k].op \in {"change", "data", "logout"} /\ phase = "refused" /\ reply = "401"))
      BY <1>2, <1>3, <1>4, <2>6 DEF Tells
    <3>2. (spent'.unnoticed <=> spent.unnoticed) /\ (Session!Session(server') <=> Session!Session(server))
      BY <1>1, <3>1 DEF SessionServes
    <3>3. Telling(calls') = Telling(calls)
      BY <1>3, <1>4, <2>6 DEF Telling
    <3>4. \A i \in Last(Telling(calls)) : calls'[i] = calls[i]
      BY <1>3, <1>4 DEF Telling, Last
    <3>5. CASE spent.unnoticed
      BY <2>4, <3>2, <3>5 DEF SessionTrue
    <3>6. CASE \E j \in DOMAIN calls : calls[j].op = "me" /\ calls[j].phase = "sent"
      <4>1. \E j \in DOMAIN calls' : calls'[j].op = "me" /\ calls'[j].phase = "sent"
        BY <1>3, <3>1, <3>6
      <4> QED BY <2>4, <4>1 DEF SessionTrue
    <3>7. CASE /\ \A i \in Last(Telling(calls)) : Told(calls[i]) <=> Session!Session(server)
               /\ Telling(calls) = {} => (view.user.in <=> Session!Session(server))
      <4>1. \A i \in Last(Telling(calls')) : Told(calls'[i]) <=> Session!Session(server')
        BY <3>2, <3>3, <3>4, <3>7
      <4>2. Telling(calls') = {} => (view'.user.in <=> Session!Session(server'))
        BY <1>2, <3>2, <3>3, <3>7
      <4> QED BY <2>4, <4>1, <4>2 DEF SessionTrue
    <3> QED BY <2>1, <3>5, <3>6, <3>7 DEF SessionTrue
  <2> QED BY <2>5, <2>6
<1>8. ASSUME spent'.faults = 0 PROVE SessionMust'
  <2>1. SessionMust
    BY <1>2, <1>8 DEF SessionInv
  <2>2. /\ server'.must <=> server.must /\ ~(calls[k].op = "change" /\ phase = "done")
        /\ calls[k].op \in {"me", "login"} /\ phase = "done" => reply.must = server.must
        /\ ~(calls[k].op \in {"me", "login"} /\ phase = "done") => (spent'.reset <=> spent.reset)
    BY <1>1 DEF SessionServes
  <2>3. /\ Welcomes(calls'[k]) <=> calls[k].op \in {"me", "login"} /\ phase = "done"
        /\ Stale(calls'[k]) <=> calls[k].op \in {"me", "login"} /\ phase = "done" /\ server.must
        /\ Lifts(calls'[k]) <=> calls[k].op = "change" /\ phase = "done"
    BY <1>3, <1>4, <2>2 DEF Welcomes, Stale, Lifts
  <2>4. \A j \in DOMAIN calls : Entering(calls'[j]) <=> Entering(calls[j])
    BY <1>3 DEF Entering
  <2>5. Obliged' => Obliged
    BY <1>3, <2>2, <2>3 DEF Obliged
  <2>6. MustKnown'
    <3>1. ASSUME server'.must, NEW j \in DOMAIN calls, Welcomes(calls'[j]) PROVE Stale(calls'[j])
      <4>1. CASE j = k
        BY <2>2, <2>3, <3>1, <4>1
      <4>2. CASE j # k
        BY <1>3, <2>1, <2>2, <3>1, <4>2 DEF SessionMust, MustKnown
      <4> QED BY <4>1, <4>2
    <3>2. server'.must /\ view'.user.in => view'.user.must
      BY <1>2, <2>1, <2>2 DEF SessionMust, MustKnown
    <3> QED BY <1>3, <3>1, <3>2 DEF MustKnown
  <2>7. MustLifted'
    <3> SUFFICES ASSUME NEW j \in DOMAIN calls, Lifts(calls'[j]) \/ (calls'[j].op = "me" /\ calls'[j].arg # "start")
                 PROVE  ~server'.must /\ ~Stale(calls'[j])
      BY <1>3 DEF MustLifted
    <3>1. CASE j = k
      <4>1. CASE Lifts(calls'[k])
        BY <2>2, <2>3, <3>1, <4>1
      <4>2. CASE calls[k].op = "me" /\ calls[k].arg # "start"
        <5>1. ~server.must
          BY <2>1, <4>2 DEF SessionMust, MustLifted
        <5> QED BY <2>2, <2>3, <3>1, <5>1
      <4> QED BY <1>4, <3>1, <4>1, <4>2
    <3>2. CASE j # k
      <4>1. ~server.must /\ ~Stale(calls[j])
        BY <1>3, <2>1, <3>2 DEF SessionMust, MustLifted
      <4> QED BY <1>3, <2>2, <3>2, <4>1
    <3> QED BY <3>1, <3>2
  <2>8. MustAlone'
    <3>1. ASSUME Obliged', NEW j \in DOMAIN calls, Entering(calls'[j])
          PROVE  (view'.busy \/ view'.loading) /\ \A i \in DOMAIN calls : Entering(calls'[i]) => i = j
      BY <1>2, <2>1, <2>4, <2>5, <3>1 DEF SessionMust, MustAlone
    <3> QED BY <1>3, <3>1 DEF MustAlone
  <2>9. MustLogins'
    BY <1>2, <1>3, <2>1 DEF SessionMust, MustLogins, Forced
  <2>10. MustEnds'
    <3>1. Forced' <=> Forced
      BY <1>2 DEF Forced
    <3>2. ASSUME NEW j \in DOMAIN calls, Stale(calls[j]), Entering(calls[k]) PROVE FALSE
      <4>1. Obliged /\ Entering(calls[j])
        BY <3>2 DEF Obliged, Stale, Welcomes, Entering
      <4>2. j = k
        BY <2>1, <3>2, <4>1 DEF SessionMust, MustAlone
      <4> QED BY <1>4, <3>2, <4>2
    <3>3. CASE server'.must
      BY <3>3 DEF MustEnds
    <3>4. CASE ~server'.must /\ calls[k].op = "change" /\ phase = "done"
      <4>1. \A j \in DOMAIN calls : ~Stale(calls'[j])
        BY <1>3, <2>3, <3>2, <3>4 DEF Entering
      <4>2. \E j \in DOMAIN calls' : Lifts(calls'[j])
        BY <1>3, <2>3, <3>4
      <4> QED BY <1>3, <4>1, <4>2 DEF MustEnds
    <3>5. CASE ~server'.must /\ ~server.must /\ calls[k].op \in {"me", "login"} /\ phase = "done"
      <4>1. \A j \in DOMAIN calls : ~Stale(calls'[j])
        BY <1>3, <2>3, <3>2, <3>5 DEF Entering
      <4>2. Forced => calls'[k].op = "me"
        BY <1>4, <2>1, <3>5 DEF SessionMust, MustLogins
      <4> QED BY <1>3, <3>1, <4>1, <4>2 DEF MustEnds
    <3>6. CASE ~server'.must /\ ~server.must /\ ~(calls[k].op \in {"me", "login"} /\ phase = "done")
      <4>1. CASE spent.reset
        BY <2>2, <3>6, <4>1 DEF MustEnds
      <4>2. CASE /\ \A j \in DOMAIN calls : ~Stale(calls[j])
                 /\ Forced => \E j \in DOMAIN calls : calls[j].op = "me" \/ Lifts(calls[j])
        <5>1. \A j \in DOMAIN calls : ~Stale(calls'[j])
          BY <1>3, <2>3, <3>6, <4>2
        <5>2. \A j \in DOMAIN calls : calls[j].op = "me" \/ Lifts(calls[j]) => calls'[j].op = "me" \/ Lifts(calls'[j])
          BY <1>3, <1>4
        <5> QED BY <1>3, <3>1, <4>2, <5>1, <5>2 DEF MustEnds
      <4> QED BY <2>1, <3>6, <4>1, <4>2 DEF SessionMust, MustEnds
    <3> QED BY <2>2, <3>3, <3>4, <3>5, <3>6
  <2> QED BY <2>6, <2>7, <2>8, <2>9, <2>10 DEF SessionMust
<1> QED BY <1>6, <1>7, <1>8 DEF SessionInv

\* The network fails: whatever was asked is refused, and says nothing.
LEMMA SessionFailed ==
  ASSUME SessionInv, NEW k \in DOMAIN calls, Session!Fail(k)
  PROVE  SessionInv'
<1>1. /\ SessionShape /\ Queue(calls) /\ view' = view /\ server' = server
      /\ calls' = [calls EXCEPT ![k].phase = "refused", ![k].reply = Session!None]
      /\ spent' = [spent EXCEPT !.moves = @ + 1, !.faults = @ + 1]
  BY DEF SessionInv, SessionShape, Session!Fail
<1>2. Becomes(k, "refused", Session!None)
  BY <1>1 DEF Becomes
<1>3. /\ Queue(calls') /\ DOMAIN calls' = DOMAIN calls
      /\ \A j \in DOMAIN calls : calls'[j].op = calls[j].op /\ calls'[j].arg = calls[j].arg
      /\ \A j \in DOMAIN calls : j # k => calls'[j] = calls[j]
      /\ calls'[k].phase = "refused"
  BY <1>1, <1>2, OneServed
<1>4. Counted' /\ {"unnoticed", "reset"} \subseteq DOMAIN spent' /\ spent'.faults # 0
  BY <1>1 DEF SessionShape, Counted
<1>5. \A j \in DOMAIN calls : SessionRequest(calls'[j])
  BY <1>1, <1>3 DEF SessionShape, SessionRequest, Welcomes
<1>6. SessionStarts'
  BY <1>1, <1>3 DEF SessionShape, SessionStarts
<1>7. SessionShape'
  BY <1>1, <1>3, <1>4, <1>5, <1>6 DEF SessionShape
<1> QED BY <1>4, <1>7 DEF SessionInv, InStep

\* What an answer, or a refusal, makes of the page, which n may ask after it.
SessionAnswers(k, n) ==
  /\ calls[k].phase \in {"done", "refused"} /\ server' = server /\ spent' = spent /\ (spent.inOrder => k = 1)
  /\ IF Lifts(calls[k])
       THEN /\ Shaped(n) /\ n.op = "me" /\ n.phase = "sent" /\ n.arg # "start" /\ calls' = Others(k) \o <<n>>
       ELSE calls' = Others(k) \o << >>
  /\ DOMAIN view' = SessionFields /\ ~view'.loading
  /\ view'.user = IF Welcomes(calls[k]) THEN calls[k].reply ELSE IF Tells(calls[k]) THEN Session!Nobody ELSE view.user
  /\ ~Entering(calls[k]) => view'.busy = view.busy

\* The page refuses, or takes, an answer.
LEMMA SessionSettles ==
  ASSUME SessionInv, NEW k \in DOMAIN calls, Session!HandleAnswer(k) \/ Session!HandleRefusal(k)
  PROVE  \E n : SessionAnswers(k, n)
<1>1. /\ SessionShape /\ DOMAIN view = SessionFields /\ SessionRequest(calls[k])
      /\ \A j \in DOMAIN calls : SessionRequest(calls[j])
  BY DEF SessionInv, SessionShape
<1>2. PICK c : c = calls[k]
  OBVIOUS
<1>3. c.op \in {"me", "change", "data", "login", "logout"} /\ (c.op = "change" => c.arg.from # "start")
  BY <1>1, <1>2 DEF SessionRequest
<1>4. view.loading => c.op = "me"
  BY <1>1, <1>2 DEF SessionShape, SessionStarts
<1>5. server' = server /\ spent' = spent /\ (spent.inOrder => k = 1)
  BY DEF Session!HandleAnswer, Session!HandleRefusal, Session!Settle, Session!InOrder
<1>6. CASE Session!HandleAnswer(k)
  <2>1. PICK w : w = Session!Answered(view, c)
    OBVIOUS
  <2>2. c.phase = "done" /\ view' = Session!Routed(w) /\ calls' = Others(k) \o Session!Then(c)
    BY <1>2, <1>6, <2>1 DEF Session!HandleAnswer, Session!Settle, Others, Session!Others
  <2>3. /\ DOMAIN w = SessionFields /\ ~w.loading
        /\ w.user = IF c.op \in {"me", "login"} THEN c.reply ELSE IF c.op = "logout" THEN Session!Nobody ELSE view.user
        /\ ~Entering(c) => w.busy = view.busy
    <3>1. CASE c.op = "me"
      <4>1. w = [view EXCEPT !.user = c.reply, !.loading = FALSE, !.busy = @ /\ c.arg # "login",
                             !.screen = IF c.arg = "login" THEN "app" ELSE @]
        BY <2>1, <3>1 DEF Session!Answered
      <4> QED BY <1>1, <3>1, <4>1 DEF SessionFields, Entering
    <3>2. CASE c.op = "login"
      <4>1. w = [view EXCEPT !.user = c.reply, !.busy = FALSE]
        BY <2>1, <3>2 DEF Session!Answered
      <4> QED BY <1>1, <1>4, <3>2, <4>1 DEF SessionFields, Entering
    <3>3. CASE c.op = "logout"
      <4>1. w = [view EXCEPT !.user = Session!Nobody, !.screen = "login"]
        BY <2>1, <3>3 DEF Session!Answered
      <4> QED BY <1>1, <1>4, <3>3, <4>1 DEF SessionFields, Entering
    <3>4. CASE c.op = "change"
      <4>1. w = [view EXCEPT !.busy = c.arg.from = "login",
                             !.done = c.arg.from = "profile" /\ view.screen = "profile"]
        BY <2>1, <3>4 DEF Session!Answered
      <4> QED BY <1>1, <1>4, <3>4, <4>1 DEF SessionFields, Entering
    <3>5. CASE c.op = "data"
      <4>1. w = view
        BY <2>1, <3>5 DEF Session!Answered
      <4> QED BY <1>1, <1>4, <3>5, <4>1 DEF SessionFields, Entering
    <3> QED BY <1>3, <3>1, <3>2, <3>3, <3>4, <3>5
  <2>4. DOMAIN view' = SessionFields /\ view'.user = w.user /\ view'.loading = w.loading /\ view'.busy = w.busy
    BY <2>2, <2>3, SessionRouted
  <2>5. view'.user = IF Welcomes(c) THEN c.reply ELSE IF Tells(c) THEN Session!Nobody ELSE view.user
    BY <1>3, <2>2, <2>3, <2>4 DEF Welcomes, Tells
  <2>6. CASE Lifts(c)
    <3>1. PICK n : n = Session!Request("me", c.arg.from)
      OBVIOUS
    <3>2. Shaped(n) /\ n.op = "me" /\ n.phase = "sent" /\ n.arg # "start"
      BY <1>3, <2>6, <3>1, SessionAsk DEF Lifts
    <3>3. calls' = Others(k) \o <<n>>
      BY <2>2, <2>6, <3>1 DEF Lifts, Session!Then
    <3>4. SessionAnswers(k, n)
      BY <1>2, <1>5, <2>2, <2>3, <2>4, <2>5, <2>6, <3>2, <3>3 DEF SessionAnswers
    <3> QED BY <3>4
  <2>7. CASE ~Lifts(c)
    <3>1. calls' = Others(k) \o << >>
      BY <2>2, <2>7 DEF Lifts, Session!Then
    <3>2. SessionAnswers(k, k)
      BY <1>2, <1>5, <2>2, <2>3, <2>4, <2>5, <2>7, <3>1 DEF SessionAnswers
    <3> QED BY <3>2
  <2> QED BY <2>6, <2>7
<1>7. CASE Session!HandleRefusal(k)
  <2>1. PICK w : w = Session!Refusal(view, c)
    OBVIOUS
  <2>2. c.phase = "refused" /\ view' = Session!Routed(w) /\ calls' = Others(k) \o << >>
    BY <1>2, <1>7, <2>1 DEF Session!HandleRefusal, Session!Settle, Others, Session!Others
  <2>3. /\ DOMAIN w = SessionFields /\ ~w.loading
        /\ w.user = IF c.op = "me" \/ (c.op \in {"change", "data", "logout"} /\ c.reply = "401") THEN Session!Nobody ELSE view.user
        /\ ~Entering(c) => w.busy = view.busy
    <3>1. CASE c.op = "me"
      <4>1. w = [view EXCEPT !.user = Session!Nobody, !.loading = FALSE, !.busy = FALSE]
        BY <2>1, <3>1 DEF Session!Refusal
      <4> QED BY <1>1, <3>1, <4>1 DEF SessionFields, Entering
    <3>2. CASE c.op = "login"
      <4>1. w = [view EXCEPT !.busy = FALSE, !.error = TRUE]
        BY <2>1, <3>2 DEF Session!Refusal
      <4> QED BY <1>1, <1>4, <3>2, <4>1 DEF SessionFields, Entering
    <3>3. CASE c.op = "change"
      <4>1. w = [view EXCEPT !.busy = FALSE, !.error = @ \/ c.arg.from = view.screen,
                             !.user = IF c.reply = "401" THEN Session!Nobody ELSE @]
        BY <2>1, <3>3 DEF Session!Refusal
      <4> QED BY <1>1, <1>4, <3>3, <4>1 DEF SessionFields, Entering
    <3>4. CASE c.op \in {"data", "logout"}
      <4>1. w = [view EXCEPT !.user = IF c.reply = "401" THEN Session!Nobody ELSE @]
        BY <2>1, <3>4 DEF Session!Refusal
      <4> QED BY <1>1, <1>4, <3>4, <4>1 DEF SessionFields, Entering
    <3> QED BY <1>3, <3>1, <3>2, <3>3, <3>4
  <2>4. DOMAIN view' = SessionFields /\ view'.user = w.user /\ view'.loading = w.loading /\ view'.busy = w.busy
    BY <2>2, <2>3, SessionRouted
  <2>5. view'.user = IF Welcomes(c) THEN c.reply ELSE IF Tells(c) THEN Session!Nobody ELSE view.user
    BY <1>3, <2>2, <2>3, <2>4 DEF Welcomes, Tells
  <2>6. ~Lifts(c)
    BY <2>2 DEF Lifts
  <2>7. SessionAnswers(k, k)
    BY <1>2, <1>5, <2>2, <2>3, <2>4, <2>5, <2>6 DEF SessionAnswers
  <2> QED BY <2>7
<1> QED BY <1>6, <1>7

\* The page holds what the answer says, and asks again once a password was changed.
LEMMA SessionAnswered ==
  ASSUME SessionInv, NEW k \in DOMAIN calls, Session!HandleAnswer(k) \/ Session!HandleRefusal(k)
  PROVE  SessionInv'
<1>1. PICK n : SessionAnswers(k, n)
  BY SessionSettles
<1>2. /\ SessionShape /\ Queue(calls) /\ SessionRequest(calls[k]) /\ \A j \in DOMAIN calls : SessionRequest(calls[j])
      /\ server' = server /\ spent' = spent /\ calls[k].phase \in {"done", "refused"}
      /\ DOMAIN view' = SessionFields /\ ~view'.loading
      /\ view'.user = IF Welcomes(calls[k]) THEN calls[k].reply ELSE IF Tells(calls[k]) THEN Session!Nobody ELSE view.user
  BY <1>1 DEF SessionInv, SessionShape, SessionAnswers
<1>3. /\ Queue(calls') /\ Len(calls) \in Nat \ {0} /\ DOMAIN calls = 1..Len(calls) /\ k \in 1..Len(calls)
      /\ \A j \in DOMAIN calls : j # k => Moved(k, j) \in DOMAIN calls' /\ calls'[Moved(k, j)] = calls[j]
      /\ \A i \in DOMAIN calls' : i \in 1..Len(calls)
  <2>1. calls' = Others(k) \o << >> \/ (Shaped(n) /\ calls' = Others(k) \o <<n>>)
    BY <1>1 DEF SessionAnswers
  <2> QED BY <1>2, <2>1, Answers
<1>4. \A i \in DOMAIN calls' :
        \/ Came(k, i) \in DOMAIN calls /\ Came(k, i) # k /\ calls'[i] = calls[Came(k, i)]
        \/ Lifts(calls[k]) /\ i = Len(calls) /\ calls'[i] = n
  <2>1. CASE Lifts(calls[k])
    <3>1. Shaped(n) /\ calls' = Others(k) \o <<n>>
      BY <1>1, <2>1 DEF SessionAnswers
    <3> QED BY <1>2, <2>1, <3>1, Answers
  <2>2. CASE ~Lifts(calls[k])
    <3>1. calls' = Others(k) \o << >>
      BY <1>1, <2>2 DEF SessionAnswers
    <3> QED BY <1>2, <3>1, OneAnswered
  <2> QED BY <2>1, <2>2
<1>5. Lifts(calls[k]) =>
        /\ Len(calls) \in DOMAIN calls' /\ calls'[Len(calls)] = n
        /\ n.op = "me" /\ n.phase = "sent" /\ n.arg # "start"
  <2> SUFFICES ASSUME Lifts(calls[k])
               PROVE  /\ Len(calls) \in DOMAIN calls' /\ calls'[Len(calls)] = n
                      /\ n.op = "me" /\ n.phase = "sent" /\ n.arg # "start"
    OBVIOUS
  <2>1. Shaped(n) /\ calls' = Others(k) \o <<n>> /\ n.op = "me" /\ n.phase = "sent" /\ n.arg # "start"
    BY <1>1 DEF SessionAnswers
  <2>2. DOMAIN calls' = DOMAIN calls /\ calls'[Len(calls)] = n
    BY <1>2, <2>1, OneAsked
  <2>3. Len(calls) \in DOMAIN calls
    BY <1>3
  <2> QED BY <2>1, <2>2, <2>3
<1>6. Lifts(calls[k]) => ~Stale(n) /\ ~Welcomes(n) /\ ~Lifts(n) /\ ~Tells(n) /\ SessionRequest(n)
  BY <1>5 DEF Stale, Welcomes, Lifts, Tells, SessionRequest
<1>7. SessionShape'
  <2>1. \A i \in DOMAIN calls' : SessionRequest(calls'[i])
    BY <1>2, <1>4, <1>6
  <2>2. view'.user.in \in BOOLEAN /\ view'.user.must \in BOOLEAN
    <3>1. CASE Welcomes(calls[k])
      BY <1>2, <3>1 DEF SessionRequest
    <3>2. CASE ~Welcomes(calls[k]) /\ Tells(calls[k])
      BY <1>2, <3>2 DEF Session!Nobody
    <3>3. CASE ~Welcomes(calls[k]) /\ ~Tells(calls[k])
      BY <1>2, <3>3 DEF SessionShape
    <3> QED BY <3>1, <3>2, <3>3
  <2>3. SessionStarts'
    <3>1. ASSUME NEW i \in DOMAIN calls', calls'[i].op = "me", calls'[i].arg = "start" PROVE FALSE
      <4>1. Came(k, i) \in DOMAIN calls /\ Came(k, i) # k /\ calls'[i] = calls[Came(k, i)]
        BY <1>4, <1>5, <3>1
      <4> QED BY <1>2, <3>1, <4>1 DEF SessionShape, SessionStarts
    <3> QED BY <1>2, <3>1 DEF SessionStarts
  <2>4. Counted' /\ {"unnoticed", "reset"} \subseteq DOMAIN spent'
    BY <1>2 DEF SessionShape, Counted
  <2>5. /\ DOMAIN server' = {"cookie", "must", "password", "account"}
        /\ server'.cookie \in BOOLEAN /\ server'.must \in BOOLEAN /\ server'.account \in BOOLEAN
    BY <1>2 DEF SessionShape
  <2> QED BY <1>2, <1>3, <2>1, <2>2, <2>3, <2>4, <2>5 DEF SessionShape
<1>8. ASSUME InStep' PROVE SessionOrder' /\ SessionTrue'
  <2>1. SessionOrder /\ SessionTrue /\ k = 1
    BY <1>1, <1>2, <1>8 DEF InStep, SessionInv, SessionAnswers
  <2>2. \A i \in DOMAIN calls' : i \in Nat \ {0} /\ Came(1, i) = i + 1
    BY <1>3 DEF Came
  <2>3. \A j \in DOMAIN calls : j # 1 => j - 1 \in DOMAIN calls' /\ calls'[j - 1] = calls[j]
    BY <1>3, <2>1 DEF Moved
  <2>4. SessionOrder'
    <3> SUFFICES ASSUME NEW i \in DOMAIN calls', NEW j \in DOMAIN calls', i < j, calls'[j].phase # "sent"
                 PROVE  calls'[i].phase # "sent"
      BY DEF SessionOrder
    <3>1. j + 1 \in DOMAIN calls /\ calls'[j] = calls[j + 1]
      BY <1>4, <1>5, <2>1, <2>2
    <3>2. i # Len(calls)
      BY <1>3
    <3>3. i + 1 \in DOMAIN calls /\ calls'[i] = calls[i + 1] /\ i + 1 < j + 1
      BY <1>4, <2>1, <2>2, <3>2
    <3> QED BY <2>1, <3>1, <3>3 DEF SessionOrder
  <2>5. CASE Lifts(calls[k])
    <3>1. \E j \in DOMAIN calls' : calls'[j].op = "me" /\ calls'[j].phase = "sent"
      BY <1>5, <2>5
    <3> QED BY <2>4, <3>1 DEF SessionTrue
  <2>6. CASE ~Lifts(calls[k])
    <3>1. \A i \in DOMAIN calls' : i + 1 \in DOMAIN calls /\ calls'[i] = calls[i + 1]
      BY <1>4, <2>1, <2>2, <2>6
    <3>2. \A i \in Nat \ {0} : i \in Telling(calls') <=> i + 1 \in Telling(calls)
      <4> TAKE i \in Nat \ {0}
      <4>1. ASSUME i \in Telling(calls') PROVE i + 1 \in Telling(calls)
        BY <3>1, <4>1 DEF Telling
      <4>2. ASSUME i + 1 \in Telling(calls) PROVE i \in Telling(calls')
        <5>1. i + 1 \in DOMAIN calls /\ i + 1 # 1 /\ (i + 1) - 1 = i
          BY <4>2 DEF Telling
        <5>2. i \in DOMAIN calls' /\ calls'[i] = calls[i + 1]
          BY <2>3, <5>1
        <5> QED BY <4>2, <5>2 DEF Telling
      <4> QED BY <4>1, <4>2
    <3>3. Telling(calls) \subseteq Nat \ {0} /\ Telling(calls') \subseteq Nat \ {0}
      BY <1>3, <2>2 DEF Telling
    <3>4. /\ \A i \in Last(Telling(calls')) : i + 1 \in Last(Telling(calls))
          /\ Telling(calls') = {} => Telling(calls) = {} \/ 1 \in Last(Telling(calls))
      <4> HIDE DEF Telling
      <4> QED BY <3>2, <3>3, LastMoved
    <3>5. \A i \in Last(Telling(calls')) : calls'[i] = calls[i + 1]
      BY <3>1 DEF Last, Telling
    <3>6. CASE spent.unnoticed
      BY <1>2, <2>4, <3>6 DEF SessionTrue
    <3>7. CASE \E j \in DOMAIN calls : calls[j].op = "me" /\ calls[j].phase = "sent"
      <4>1. PICK j \in DOMAIN calls : calls[j].op = "me" /\ calls[j].phase = "sent"
        BY <3>7
      <4>2. j # 1
        BY <1>2, <2>1, <4>1
      <4>3. \E i \in DOMAIN calls' : calls'[i].op = "me" /\ calls'[i].phase = "sent"
        BY <2>3, <4>1, <4>2
      <4> QED BY <2>4, <4>3 DEF SessionTrue
    <3>8. CASE /\ \A i \in Last(Telling(calls)) : Told(calls[i]) <=> Session!Session(server)
               /\ Telling(calls) = {} => (view.user.in <=> Session!Session(server))
      <4>1. \A i \in Last(Telling(calls')) : Told(calls'[i]) <=> Session!Session(server)
        BY <3>4, <3>5, <3>8
      <4>2. ASSUME Telling(calls') = {} PROVE view'.user.in <=> Session!Session(server)
        <5>1. CASE Telling(calls) = {}
          <6>1. ~Tells(calls[k])
            BY <5>1 DEF Telling
          <6>2. ~Welcomes(calls[k])
            BY <6>1 DEF Tells, Welcomes
          <6> QED BY <1>2, <3>8, <5>1, <6>1, <6>2
        <5>2. CASE 1 \in Last(Telling(calls))
          <6>1. Tells(calls[k]) /\ (Told(calls[k]) <=> Session!Session(server))
            BY <2>1, <3>8, <5>2 DEF Last, Telling
          <6>2. CASE Welcomes(calls[k])
            <7>1. view'.user.in = TRUE /\ Told(calls[k])
              BY <1>2, <6>2 DEF SessionRequest, Welcomes, Told
            <7> QED BY <6>1, <7>1
          <6>3. CASE ~Welcomes(calls[k])
            <7>1. view'.user.in = FALSE
              BY <1>2, <6>1, <6>3 DEF Session!Nobody
            <7>2. ~Told(calls[k])
              BY <1>2, <6>1, <6>3 DEF Tells, Welcomes, Told
            <7> QED BY <6>1, <7>1, <7>2
          <6> QED BY <6>2, <6>3
        <5> QED BY <3>4, <4>2, <5>1, <5>2
      <4> QED BY <1>2, <2>4, <4>1, <4>2 DEF SessionTrue
    <3> QED BY <2>1, <3>6, <3>7, <3>8 DEF SessionTrue
  <2> QED BY <2>5, <2>6
<1>9. ASSUME spent'.faults = 0 PROVE SessionMust'
  <2>1. SessionMust
    BY <1>2, <1>9 DEF SessionInv
  <2>2. Obliged' => Obliged
    BY <1>2, <1>4, <1>6 DEF Obliged
  <2>3. Lifts(calls[k]) => ~Obliged'
    <3> SUFFICES ASSUME Lifts(calls[k]), Obliged' PROVE FALSE
      OBVIOUS
    <3>1. ~server.must /\ Entering(calls[k])
      BY <2>1 DEF SessionMust, MustLifted, Lifts, Entering
    <3>2. PICK i \in DOMAIN calls' : Stale(calls'[i])
      BY <1>2, <3>1 DEF Obliged
    <3>3. Came(k, i) \in DOMAIN calls /\ Came(k, i) # k /\ Stale(calls[Came(k, i)])
      BY <1>4, <1>6, <3>2
    <3>4. Entering(calls[Came(k, i)])
      BY <3>3 DEF Stale, Welcomes, Entering
    <3> QED BY <2>1, <2>2, <3>1, <3>3, <3>4 DEF SessionMust, MustAlone
  <2>4. MustKnown'
    <3>1. server'.must => \A i \in DOMAIN calls' : Welcomes(calls'[i]) => Stale(calls'[i])
      BY <1>2, <1>4, <1>6, <2>1 DEF SessionMust, MustKnown
    <3>2. server'.must /\ view'.user.in => view'.user.must
      <4>1. CASE Welcomes(calls[k])
        BY <1>2, <2>1, <4>1 DEF SessionMust, MustKnown, Stale
      <4>2. CASE ~Welcomes(calls[k]) /\ Tells(calls[k])
        BY <1>2, <4>2 DEF Session!Nobody
      <4>3. CASE ~Welcomes(calls[k]) /\ ~Tells(calls[k])
        BY <1>2, <2>1, <4>3 DEF SessionMust, MustKnown
      <4> QED BY <4>1, <4>2, <4>3
    <3> QED BY <3>1, <3>2 DEF MustKnown
  <2>5. MustLifted'
    BY <1>2, <1>4, <1>6, <2>1 DEF SessionMust, MustLifted
  <2>6. MustAlone'
    <3> SUFFICES ASSUME Obliged', NEW i \in DOMAIN calls', Entering(calls'[i])
                 PROVE  (view'.busy \/ view'.loading) /\ \A j \in DOMAIN calls' : Entering(calls'[j]) => j = i
      BY DEF MustAlone
    <3>1. \A j \in DOMAIN calls' : Came(k, j) \in DOMAIN calls /\ Came(k, j) # k /\ calls'[j] = calls[Came(k, j)]
      BY <1>4, <2>3
    <3>2. /\ view.busy \/ view.loading
          /\ \A j \in DOMAIN calls : Entering(calls[j]) => j = Came(k, i)
      BY <2>1, <2>2, <3>1 DEF SessionMust, MustAlone
    <3>3. ~view.loading
      BY <1>2, <3>1 DEF SessionShape, SessionStarts
    <3>4. ~Entering(calls[k])
      BY <3>1, <3>2
    <3>5. view'.busy
      BY <1>1, <3>2, <3>3, <3>4 DEF SessionAnswers
    <3>6. ASSUME NEW j \in DOMAIN calls', Entering(calls'[j]) PROVE j = i
      <4>1. Came(k, j) = Came(k, i)
        BY <3>1, <3>2, <3>6
      <4> QED BY <1>3, <4>1 DEF Came
    <3> QED BY <3>5, <3>6
  <2>7. MustLogins'
    <3> SUFFICES ASSUME Forced', NEW i \in DOMAIN calls', calls'[i].op = "login" PROVE FALSE
      BY DEF MustLogins
    <3>1. Came(k, i) \in DOMAIN calls /\ Came(k, i) # k /\ calls'[i] = calls[Came(k, i)]
      BY <1>4, <1>5
    <3>2. CASE Welcomes(calls[k])
      <4>1. Stale(calls[k])
        BY <1>2, <3>2 DEF Forced, Stale
      <4>2. Obliged /\ Entering(calls[k]) /\ Entering(calls[Came(k, i)])
        BY <3>1, <4>1 DEF Obliged, Stale, Welcomes, Entering
      <4> QED BY <2>1, <3>1, <4>2 DEF SessionMust, MustAlone
    <3>3. CASE ~Welcomes(calls[k]) /\ Tells(calls[k])
      BY <1>2, <3>3 DEF Forced, Session!Nobody
    <3>4. CASE ~Welcomes(calls[k]) /\ ~Tells(calls[k])
      <4>1. Forced
        BY <1>2, <3>4 DEF Forced
      <4> QED BY <2>1, <3>1, <4>1 DEF SessionMust, MustLogins
    <3> QED BY <3>2, <3>3, <3>4
  <2>8. MustEnds'
    <3>1. CASE server.must \/ spent.reset
      BY <1>2, <3>1 DEF MustEnds
    <3>2. CASE /\ \A j \in DOMAIN calls : ~Stale(calls[j])
               /\ Forced => \E j \in DOMAIN calls : calls[j].op = "me" \/ Lifts(calls[j])
      <4>1. \A i \in DOMAIN calls' : ~Stale(calls'[i])
        BY <1>4, <1>6, <3>2
      <4>2. ASSUME Forced' PROVE \E i \in DOMAIN calls' : calls'[i].op = "me" \/ Lifts(calls'[i])
        <5>1. ~Welcomes(calls[k])
          BY <1>2, <3>2, <4>2 DEF Forced, Stale
        <5>2. ~Tells(calls[k])
          BY <1>2, <4>2, <5>1 DEF Forced, Session!Nobody
        <5>3. Forced
          BY <1>2, <4>2, <5>1, <5>2 DEF Forced
        <5>4. PICK j \in DOMAIN calls : calls[j].op = "me" \/ Lifts(calls[j])
          BY <3>2, <5>3
        <5>5. CASE j = k
          <6>1. Lifts(calls[k])
            BY <1>2, <5>2, <5>4, <5>5 DEF Tells
          <6> QED BY <1>5, <6>1
        <5>6. CASE j # k
          BY <1>3, <5>4, <5>6
        <5> QED BY <5>5, <5>6
      <4> QED BY <4>1, <4>2 DEF MustEnds
    <3> QED BY <2>1, <3>1, <3>2 DEF SessionMust, MustEnds
  <2> QED BY <2>4, <2>5, <2>6, <2>7, <2>8 DEF SessionMust
<1> QED BY <1>7, <1>8, <1>9 DEF SessionInv

\* Every step of the session keeps what its page knows of it.
LEMMA SessionStep == SessionInv /\ Session!Next => SessionInv'
BY SessionGestures, SessionElsewhere, SessionServed, SessionFailed, SessionAnswered DEF Session!Next

\* Once nothing is under way, the page shows who is signed in, and whether a password is to be changed.
LEMMA SessionHolds == SessionInv => Session!SessionIsTrue /\ Session!ObligationIsTrue
<1> SUFFICES ASSUME SessionInv PROVE Session!SessionIsTrue /\ Session!ObligationIsTrue
  OBVIOUS
<1>1. /\ SessionShape /\ view.user.in \in BOOLEAN /\ view.user.must \in BOOLEAN
      /\ server.cookie \in BOOLEAN /\ server.account \in BOOLEAN /\ server.must \in BOOLEAN
  BY DEF SessionInv, SessionShape
<1>2. ASSUME Session!InOrder, Session!Settled, ~spent.unnoticed PROVE view.user.in = Session!Session(server)
  <2>1. InStep /\ DOMAIN calls = {}
    BY <1>2 DEF Session!InOrder, Session!Settled, InStep
  <2>2. Telling(calls) = {}
    BY <2>1 DEF Telling
  <2>3. view.user.in <=> Session!Session(server)
    BY <1>2, <2>1, <2>2 DEF SessionInv, SessionTrue
  <2> QED BY <1>1, <2>3 DEF Session!Session
<1>3. ASSUME Session!Settled, view.user.in, ~spent.reset, ~spent.unnoticed PROVE view.user.must = server.must
  <2>1. SessionMust /\ DOMAIN calls = {}
    BY <1>3 DEF SessionInv, Session!Settled
  <2>2. server.must => view.user.must
    BY <1>3, <2>1 DEF SessionMust, MustKnown
  <2>3. ~server.must => ~view.user.must
    BY <1>3, <2>1 DEF SessionMust, MustEnds, Forced
  <2> QED BY <1>1, <2>2, <2>3
<1> QED BY <1>2, <1>3 DEF Session!SessionIsTrue, Session!ObligationIsTrue

-----------------------------------------------------------------------------
(* The filters of the findings: the field follows the address, and what was cleared stays so. *)

FiltersKept ==
  /\ {"url", "draft", "applied"} \subseteq DOMAIN view /\ {"severity", "category", "search"} \subseteq DOMAIN view.url
  /\ "cleared" \in DOMAIN spent /\ view.applied = view.url.search
  /\ spent.cleared => view.draft = "" /\ view.url.search = ""

\* A link opens the page on its search.
LEMMA FiltersInit == Filters!Init => FiltersKept
<1> SUFFICES ASSUME Filters!Init PROVE FiltersKept
  OBVIOUS
<1>1. PICK url \in Filters!Links : view = [url |-> url, draft |-> url.search, applied |-> url.search]
  BY DEF Filters!Init
<1>2. {"severity", "category", "search"} \subseteq DOMAIN url
  <2>1. PICK severity, category, search : url = Filters!Address(severity, category, search)
    BY DEF Filters!Links
  <2> QED BY <2>1 DEF Filters!Address
<1>3. "cleared" \in DOMAIN spent /\ spent.cleared = FALSE
  <2> DEFINE h == [cleared |-> FALSE]
  <2>1. PICK ordered \in OrdersOn("filters") :
          spent = LET bounds == [moves |-> 0, faults |-> 0, inOrder |-> ordered]
                  IN  [x \in DOMAIN bounds \union DOMAIN h |-> IF x \in DOMAIN bounds THEN bounds[x] ELSE h[x]]
    BY DEF Filters!Init, Filters!Unspent
  <2> DEFINE f == [moves |-> 0, faults |-> 0, inOrder |-> ordered]
  <2>2. spent = [x \in DOMAIN f \union DOMAIN h |-> IF x \in DOMAIN f THEN f[x] ELSE h[x]]
    BY <2>1
  <2>3. DOMAIN f = {"moves", "faults", "inOrder"} /\ DOMAIN h = {"cleared"} /\ h["cleared"] = FALSE
    OBVIOUS
  <2> HIDE DEF f, h
  <2> QED BY <2>2, <2>3
<1> QED BY <1>1, <1>2, <1>3 DEF FiltersKept

\* Another address: the field follows it when it has another search, which no gesture but a link to
\* the bare page brings.
LEMMA FiltersGo ==
  ASSUME FiltersKept, NEW url, Filters!Go(url), {"severity", "category", "search"} \subseteq DOMAIN url,
         url.search \in {"", view.url.search}
  PROVE  FiltersKept'
<1>1. view' = Filters!Followed([view EXCEPT !.url = url]) /\ spent' = [spent EXCEPT !.moves = @ + 1]
  BY DEF Filters!Go, Filters!Gesture, Filters!Spend
<1> DEFINE v == [view EXCEPT !.url = url]
<1>2. DOMAIN v = DOMAIN view /\ v.url = url /\ v.draft = view.draft /\ v.applied = view.applied
  BY DEF FiltersKept
<1>3. "cleared" \in DOMAIN spent' /\ spent'.cleared = spent.cleared
  BY <1>1 DEF FiltersKept
<1> HIDE DEF v
<1>4. CASE url.search = view.applied
  <2>1. view' = v
    BY <1>1, <1>2, <1>4 DEF Filters!Followed, v
  <2> QED BY <1>2, <1>3, <1>4, <2>1 DEF FiltersKept
<1>5. CASE url.search # view.applied
  <2>1. view' = [v EXCEPT !.draft = url.search, !.applied = url.search]
    BY <1>1, <1>2, <1>5 DEF Filters!Followed, v
  <2>2. DOMAIN view' = DOMAIN view /\ view'.url = url /\ view'.draft = url.search /\ view'.applied = url.search
    BY <1>2, <2>1 DEF FiltersKept
  <2>3. url.search = ""
    BY <1>5 DEF FiltersKept
  <2> QED BY <1>3, <2>2, <2>3 DEF FiltersKept
<1> QED BY <1>4, <1>5

\* The filters, the tabs, the sorts and the links change the address.
LEMMA FiltersGone ==
  ASSUME FiltersKept,
         \/ Filters!ShowCritical \/ Filters!FollowLink
         \/ \E key \in {"severity", "category"} : \E value : Filters!Choose(key, value)
         \/ \E values : Filters!ChooseAll("severity", values)
         \/ \E status : Filters!SwitchTab(status)
         \/ \E key : Filters!ToggleSort(key)
  PROVE  FiltersKept'
<1>1. {"severity", "category", "search"} \subseteq DOMAIN view.url
  BY DEF FiltersKept
<1>2. CASE Filters!ShowCritical
  <2> DEFINE url == [view.url EXCEPT !.status = "active", !.severity = {"critical"}]
  <2>1. DOMAIN url = DOMAIN view.url /\ url.search = view.url.search
    BY <1>1
  <2>2. Filters!Go(url)
    BY <1>2 DEF Filters!ShowCritical
  <2> HIDE DEF url
  <2> QED BY <1>1, <2>1, <2>2, FiltersGo
<1>3. CASE Filters!FollowLink
  <2> DEFINE url == Filters!Address({}, {}, "")
  <2>1. {"severity", "category", "search"} \subseteq DOMAIN url /\ url.search = ""
    BY DEF Filters!Address
  <2>2. Filters!Go(url)
    BY <1>3 DEF Filters!FollowLink
  <2> HIDE DEF url
  <2> QED BY <2>1, <2>2, FiltersGo
<1>4. CASE \E key \in {"severity", "category"} : \E value : Filters!Choose(key, value)
  <2>1. PICK key, value : key \in {"severity", "category"} /\ Filters!Choose(key, value)
    BY <1>4
  <2> DEFINE url == [view.url EXCEPT ![key] = IF value \in @ THEN @ \ {value} ELSE @ \union {value}]
  <2>2. DOMAIN url = DOMAIN view.url /\ url.search = view.url.search
    BY <1>1, <2>1
  <2>3. Filters!Go(url)
    BY <2>1 DEF Filters!Choose
  <2> HIDE DEF url
  <2> QED BY <1>1, <2>2, <2>3, FiltersGo
<1>5. CASE \E values : Filters!ChooseAll("severity", values)
  <2>1. PICK values : Filters!ChooseAll("severity", values)
    BY <1>5
  <2> DEFINE url == [view.url EXCEPT !["severity"] = IF @ = values THEN {} ELSE values]
  <2>2. DOMAIN url = DOMAIN view.url /\ url.search = view.url.search
    BY <1>1
  <2>3. Filters!Go(url)
    BY <2>1 DEF Filters!ChooseAll
  <2> HIDE DEF url
  <2> QED BY <1>1, <2>2, <2>3, FiltersGo
<1>6. CASE \E status : Filters!SwitchTab(status)
  <2>1. PICK status : Filters!SwitchTab(status)
    BY <1>6
  <2> DEFINE url == [view.url EXCEPT !.status = status]
  <2>2. DOMAIN url = DOMAIN view.url /\ url.search = view.url.search
    BY <1>1
  <2>3. Filters!Go(url)
    BY <2>1 DEF Filters!SwitchTab
  <2> HIDE DEF url
  <2> QED BY <1>1, <2>2, <2>3, FiltersGo
<1>7. CASE \E key : Filters!ToggleSort(key)
  <2>1. PICK key : Filters!ToggleSort(key)
    BY <1>7
  <2>2. PICK descending : Filters!Go([view.url EXCEPT !.sort = key, !.descending = descending])
    BY <2>1 DEF Filters!ToggleSort
  <2> DEFINE url == [view.url EXCEPT !.sort = key, !.descending = descending]
  <2>3. DOMAIN url = DOMAIN view.url /\ url.search = view.url.search
    BY <1>1
  <2>4. Filters!Go(url)
    BY <2>2
  <2> HIDE DEF url
  <2> QED BY <1>1, <2>3, <2>4, FiltersGo
<1> QED BY <1>2, <1>3, <1>4, <1>5, <1>6, <1>7

\* The field and the button that clears the filters.
LEMMA FiltersSearched ==
  ASSUME FiltersKept,
         \/ \E text : Filters!Type(text)
         \/ Filters!SearchFires \/ Filters!ClearFilters
         \/ \E f : Filters!Changes(f)
  PROVE  FiltersKept'
<1>1. CASE \E text : Filters!Type(text)
  <2>1. PICK text : view' = [view EXCEPT !.draft = text] /\ spent' = [spent EXCEPT !.moves = @ + 1, !.cleared = FALSE]
    BY <1>1 DEF Filters!Type, Filters!Remembering
  <2>2. DOMAIN view' = DOMAIN view /\ view'.url = view.url /\ view'.applied = view.applied
    BY <2>1 DEF FiltersKept
  <2>3. "cleared" \in DOMAIN spent' /\ spent'.cleared = FALSE
    BY <2>1 DEF FiltersKept
  <2> QED BY <2>2, <2>3 DEF FiltersKept
<1>2. CASE Filters!SearchFires
  <2>1. view' = [view EXCEPT !.applied = view.draft, !.url.search = view.draft] /\ spent' = spent
    BY <1>2 DEF Filters!SearchFires
  <2>2. /\ DOMAIN view' = DOMAIN view /\ view'.url = [view.url EXCEPT !.search = view.draft]
        /\ view'.draft = view.draft /\ view'.applied = view.draft
    BY <2>1 DEF FiltersKept
  <2>3. DOMAIN view'.url = DOMAIN view.url /\ view'.url.search = view.draft
    BY <2>2 DEF FiltersKept
  <2> QED BY <2>1, <2>2, <2>3 DEF FiltersKept
<1>3. CASE Filters!ClearFilters
  <2> DEFINE v == [view EXCEPT !.url.severity = {}, !.url.category = {}, !.url.search = ""]
  <2>1. view' = Filters!Followed(v) /\ Filters!Remembering(view.applied # "" \/ ~Filters!Pending)
    BY <1>3 DEF Filters!ClearFilters
  <2>2. /\ DOMAIN v = DOMAIN view /\ v.draft = view.draft /\ v.applied = view.applied
        /\ v.url = [view.url EXCEPT !.severity = {}, !.category = {}, !.search = ""]
    BY DEF FiltersKept
  <2>3. DOMAIN v.url = DOMAIN view.url /\ v.url.search = ""
    BY <2>2 DEF FiltersKept
  <2>4. "cleared" \in DOMAIN spent' /\ (spent'.cleared => view.applied # "" \/ view.draft = view.applied)
    <3>1. PICK cleared : /\ cleared => view.applied # "" \/ view.draft = view.applied
                         /\ spent' = [spent EXCEPT !.moves = @ + 1, !.cleared = cleared]
      BY <2>1 DEF Filters!Remembering, Filters!Pending
    <3> QED BY <3>1 DEF FiltersKept
  <2> HIDE DEF v
  <2>5. CASE view.applied = ""
    <3>1. view' = v
      BY <2>1, <2>2, <2>3, <2>5 DEF Filters!Followed
    <3> QED BY <2>2, <2>3, <2>4, <2>5, <3>1 DEF FiltersKept
  <2>6. CASE view.applied # ""
    <3>1. view' = [v EXCEPT !.draft = "", !.applied = ""]
      BY <2>1, <2>2, <2>3, <2>6 DEF Filters!Followed
    <3>2. DOMAIN view' = DOMAIN view /\ view'.url = v.url /\ view'.draft = "" /\ view'.applied = ""
      BY <2>2, <3>1 DEF FiltersKept
    <3> QED BY <2>3, <2>4, <3>2 DEF FiltersKept
  <2> QED BY <2>5, <2>6
<1>4. CASE \E f : Filters!Changes(f)
  <2>1. view' = view /\ spent' = [spent EXCEPT !.moves = @ + 1]
    BY <1>4 DEF Filters!Changes, Filters!Spend
  <2>2. "cleared" \in DOMAIN spent' /\ spent'.cleared = spent.cleared
    BY <2>1 DEF FiltersKept
  <2> QED BY <2>1, <2>2 DEF FiltersKept
<1> QED BY <1>1, <1>2, <1>3, <1>4

\* The filters stay those of the address.
LEMMA FiltersStep == FiltersKept /\ Filters!Next => FiltersKept'
BY FiltersGone, FiltersSearched DEF Filters!Next

\* What is kept is what the run checks.
LEMMA FiltersHold == FiltersKept => Filters!FieldFollowsTheAddress /\ Filters!ClearedStaysClear
BY DEF FiltersKept, Filters!FieldFollowsTheAddress, Filters!ClearedStaysClear, Filters!Pending

-----------------------------------------------------------------------------
(* The completion: a word that is accepted takes the place it was proposed for. *)

\* An open list is about the text, unless it is about to be computed again, or the page replaced
\* the text under it.
CompletionKept ==
  /\ {"doc", "line", "list", "active", "frame"} \subseteq DOMAIN view /\ "hasty" \in DOMAIN spent
  /\ "form" \in DOMAIN view.line
  /\ Completion!Listed => view.list.of = <<view.doc, view.line>> \/ view.frame \/ spent.hasty
  /\ Completion!AcceptedTakesItsPlace

\* A list that is computed is about the text.
LEMMA CompletionRefreshed ==
  ASSUME NEW v, {"doc", "line", "list", "active", "frame"} \subseteq DOMAIN v
  PROVE  LET r == Completion!Refreshed(v)
         IN  /\ DOMAIN r = DOMAIN v /\ r.doc = v.doc /\ r.line = v.line /\ r.frame = v.frame
             /\ r.list # Completion!NoList => r.list.of = <<v.doc, v.line>>
<1>1. PICK list : /\ Completion!Refreshed(v) = [v EXCEPT !.list = list, !.active = 0]
                  /\ list # Completion!NoList => list.of = <<v.doc, v.line>>
  <2> DEFINE items == Completion!CompletionAt(v.doc, v.line)
             list == IF items = << >> THEN Completion!NoList ELSE [items |-> items, of |-> <<v.doc, v.line>>]
  <2>1. Completion!Refreshed(v) = [v EXCEPT !.list = list, !.active = 0]
    BY DEF Completion!Refreshed
  <2>2. list # Completion!NoList => list.of = <<v.doc, v.line>>
    <3> HIDE DEF items
    <3> QED OBVIOUS
  <2> QED BY <2>1, <2>2
<1> QED BY <1>1

\* The words that are written, and those that are completed, are no mangled ones.
LEMMA CompletionWords ==
  /\ \A line \in Completion!Lines : line # Completion!MangledLine /\ "form" \in DOMAIN line
  /\ \A line, word : "form" \in DOMAIN line =>
       LET completed == Completion!Completed(line, word)
       IN  completed # Completion!MangledLine /\ "form" \in DOMAIN completed
  /\ "form" \in DOMAIN Completion!MangledLine
<1>1. \A indent, form, key, fragment :
        LET line == Completion!Line(indent, form, key, fragment)
        IN  "form" \in DOMAIN line /\ line.form = form /\ line.fragment = fragment
  BY DEF Completion!Line
<1>2. ASSUME NEW line \in Completion!Lines
      PROVE  line # Completion!MangledLine /\ "form" \in DOMAIN line
  <2>1. \E indent, form, key, fragment :
          /\ line = Completion!Line(indent, form, key, fragment)
          /\ fragment \in {"", "c", "v", "p", "t", "SELECT"}
    <3> DEFINE words(i) == {Completion!Line(i, "word", Completion!None, f) : f \in {"", "c", "v", Completion!Select}}
               fields(i) == UNION {{Completion!Line(i, "field", k, f) : f \in {"", "t"}} : k \in {"category", "primary", "impact"}}
               bullets(i) == {Completion!Line(i, "bullet", Completion!None, f) : f \in {"", "p"}}
               templates(i) == {Completion!Line(i, "template", k, "") : k \in {Completion!None, "|"}}
               remarks(i) == {Completion!Line(i, "remark", Completion!None, "")}
    <3> DEFINE written(i) ==
                 {Completion!Line(i, "word", Completion!None, f) : f \in {"", "c", "v", Completion!Select}}
                   \union (UNION {{Completion!Line(i, "field", k, f) : f \in {"", "t"}} : k \in {"category", "primary", "impact"}})
                   \union {Completion!Line(i, "bullet", Completion!None, f) : f \in {"", "p"}}
                   \union {Completion!Line(i, "template", k, "") : k \in {Completion!None, "|"}}
                   \union {Completion!Line(i, "remark", Completion!None, "")}
    <3>7. PICK i \in 0..2 : line \in written(i)
      BY DEF Completion!Lines
    <3>1. line \in words(i) \/ line \in fields(i) \/ line \in bullets(i) \/ line \in templates(i) \/ line \in remarks(i)
      BY <3>7
    <3>2. CASE line \in words(i)
      BY <3>2 DEF Completion!Select
    <3>3. CASE line \in fields(i)
      <4>1. PICK k : line \in {Completion!Line(i, "field", k, f) : f \in {"", "t"}}
        BY <3>3
      <4> QED BY <4>1
    <3>4. CASE line \in bullets(i)
      BY <3>4
    <3>5. CASE line \in templates(i)
      BY <3>5
    <3>6. CASE line \in remarks(i)
      BY <3>6
    <3> HIDE DEF words, fields, bullets, templates, remarks
    <3> QED BY <3>1, <3>2, <3>3, <3>4, <3>5, <3>6
  <2>2. line.fragment # "mangled" /\ "form" \in DOMAIN line
    <3>1. PICK indent, form, key, fragment :
          /\ line = Completion!Line(indent, form, key, fragment)
          /\ fragment \in {"", "c", "v", "p", "t", "SELECT"}
      BY <2>1
    <3> QED BY <3>1 DEF Completion!Line
  <2>3. Completion!MangledLine.fragment = "mangled"
    BY <1>1 DEF Completion!MangledLine, Completion!Mangled
  <2> QED BY <2>2, <2>3
<1>3. Completion!MangledLine.form = "word" /\ "form" \in DOMAIN Completion!MangledLine
  BY <1>1 DEF Completion!MangledLine
<1>4. ASSUME NEW line, NEW word, "form" \in DOMAIN line
      PROVE  /\ Completion!Completed(line, word) # Completion!MangledLine
             /\ "form" \in DOMAIN Completion!Completed(line, word)
  <2>1. CASE line.form = "word"
    <3>1. /\ Completion!Completed(line, word).form = "field" /\ "field" # "word"
          /\ "form" \in DOMAIN Completion!Completed(line, word)
      BY <2>1 DEF Completion!Completed, Completion!Key, Completion!Line
    <3> QED BY <1>3, <3>1
  <2>2. CASE line.form # "word"
    <3>1. Completion!Completed(line, word) = [line EXCEPT !.fragment = word]
      BY <2>2 DEF Completion!Completed
    <3>2. "form" \in DOMAIN [line EXCEPT !.fragment = word] /\ [line EXCEPT !.fragment = word].form = line.form
      BY <1>4
    <3> QED BY <1>3, <2>2, <3>1, <3>2
  <2> QED BY <2>1, <2>2
<1> QED BY <1>2, <1>3, <1>4

\* The editor opens on an empty line, without a list.
LEMMA CompletionInit == Completion!Init => CompletionKept
<1> SUFFICES ASSUME Completion!Init PROVE CompletionKept
  OBVIOUS
<1>1. PICK doc : view = [doc |-> doc, line |-> Completion!Line(0, "word", Completion!None, ""), list |-> Completion!NoList,
                         active |-> 0, frame |-> FALSE]
  BY DEF Completion!Init
<1>2. "hasty" \in DOMAIN spent
  <2> DEFINE h == [hasty |-> FALSE]
  <2>1. PICK ordered \in OrdersOn("completion") :
          spent = LET bounds == [moves |-> 0, faults |-> 0, inOrder |-> ordered]
                  IN  [x \in DOMAIN bounds \union DOMAIN h |-> IF x \in DOMAIN bounds THEN bounds[x] ELSE h[x]]
    BY DEF Completion!Init, Completion!Unspent
  <2> QED BY <2>1
<1>3. view.line.fragment = "" /\ "form" \in DOMAIN view.line /\ Completion!MangledLine.fragment = "mangled"
  BY <1>1 DEF Completion!Line, Completion!MangledLine, Completion!Mangled
<1> QED BY <1>1, <1>2, <1>3 DEF CompletionKept, Completion!Listed, Completion!AcceptedTakesItsPlace

\* The list is asked for, computed after the text, closed, or one of its words is looked at.
LEMMA CompletionListed ==
  ASSUME CompletionKept,
         \/ Completion!Frame \/ Completion!Ask \/ Completion!Dismiss
         \/ \E step : Completion!Arrow(step)
         \/ \E index : Completion!Hover(index)
  PROVE  CompletionKept'
<1>1. "hasty" \in DOMAIN spent' /\ spent'.hasty = spent.hasty
  <2>1. spent' = spent \/ spent' = [spent EXCEPT !.moves = @ + 1]
    BY DEF Completion!Frame, Completion!Ask, Completion!Dismiss, Completion!Arrow, Completion!Hover, Completion!Gesture,
           Completion!Spend
  <2> QED BY <2>1 DEF CompletionKept
<1>2. \/ \E f : view' = Completion!Refreshed([view EXCEPT !.frame = f])
      \/ view' = Completion!Refreshed(view)
      \/ view' = [view EXCEPT !.list = Completion!NoList]
      \/ \E active : view' = [view EXCEPT !.active = active]
  <2>1. CASE Completion!Frame
    BY <2>1 DEF Completion!Frame
  <2>2. CASE Completion!Ask
    BY <2>2 DEF Completion!Ask, Completion!Gesture
  <2>3. CASE Completion!Dismiss
    BY <2>3 DEF Completion!Dismiss, Completion!Gesture
  <2>4. CASE \E step : Completion!Arrow(step)
    BY <2>4 DEF Completion!Arrow, Completion!Gesture
  <2>5. CASE \E index : Completion!Hover(index)
    BY <2>5 DEF Completion!Hover, Completion!Gesture
  <2> QED BY <2>1, <2>2, <2>3, <2>4, <2>5
<1>3. /\ DOMAIN view' = DOMAIN view /\ view'.doc = view.doc /\ view'.line = view.line
      /\ \/ view'.list # Completion!NoList => view'.list.of = <<view.doc, view.line>>
         \/ view'.list = view.list /\ view'.frame = view.frame
  <2>1. {"doc", "line", "list", "active", "frame"} \subseteq DOMAIN view
    BY DEF CompletionKept
  <2>2. CASE \E f : view' = Completion!Refreshed([view EXCEPT !.frame = f])
    <3>1. PICK f : view' = Completion!Refreshed([view EXCEPT !.frame = f])
      BY <2>2
    <3> DEFINE v == [view EXCEPT !.frame = f]
    <3>2. DOMAIN v = DOMAIN view /\ v.doc = view.doc /\ v.line = view.line
      BY <2>1
    <3> HIDE DEF v
    <3>3. view' = Completion!Refreshed(v)
      BY <3>1 DEF v
    <3>4. DOMAIN view' = DOMAIN v /\ view'.doc = v.doc /\ view'.line = v.line
          /\ (view'.list # Completion!NoList => view'.list.of = <<v.doc, v.line>>)
      BY <2>1, <3>2, <3>3, CompletionRefreshed
    <3> QED BY <3>2, <3>4
  <2>3. CASE view' = Completion!Refreshed(view)
    BY <2>1, <2>3, CompletionRefreshed
  <2>4. CASE view' = [view EXCEPT !.list = Completion!NoList]
    BY <2>1, <2>4
  <2>5. CASE \E active : view' = [view EXCEPT !.active = active]
    BY <2>1, <2>5
  <2> QED BY <1>2, <2>2, <2>3, <2>4, <2>5
<1> QED BY <1>1, <1>3 DEF CompletionKept, Completion!Listed, Completion!AcceptedTakesItsPlace

\* The text is written, replaced, or completed.
LEMMA CompletionWritten ==
  ASSUME CompletionKept,
         \/ \E line \in Completion!Lines : Completion!Write(line)
         \/ \E doc : Completion!Replace(doc)
         \/ Completion!Accept
  PROVE  CompletionKept'
<1>1. CASE \E line \in Completion!Lines : Completion!Write(line)
  <2>1. PICK line \in Completion!Lines :
          view' = [view EXCEPT !.line = line, !.frame = TRUE] /\ spent' = [spent EXCEPT !.moves = @ + 1]
    BY <1>1 DEF Completion!Write, Completion!Gesture, Completion!Spend
  <2>2. line # Completion!MangledLine /\ "form" \in DOMAIN line
    BY CompletionWords
  <2>3. DOMAIN view' = DOMAIN view /\ view'.line = line /\ view'.frame = TRUE
    BY <2>1 DEF CompletionKept
  <2>4. "hasty" \in DOMAIN spent'
    BY <2>1 DEF CompletionKept
  <2> QED BY <2>2, <2>3, <2>4 DEF CompletionKept, Completion!Listed, Completion!AcceptedTakesItsPlace
<1>2. CASE \E doc : Completion!Replace(doc)
  <2>1. PICK doc : /\ view' = [view EXCEPT !.doc = doc]
                   /\ spent' = [spent EXCEPT !.moves = @ + 1, !.hasty = @ \/ Completion!Listed]
    BY <1>2 DEF Completion!Replace
  <2>2. DOMAIN view' = DOMAIN view /\ view'.line = view.line /\ view'.list = view.list
    BY <2>1 DEF CompletionKept
  <2>3. "hasty" \in DOMAIN spent' /\ (spent.hasty \/ Completion!Listed => spent'.hasty)
    BY <2>1 DEF CompletionKept
  <2> QED BY <2>2, <2>3 DEF CompletionKept, Completion!Listed, Completion!AcceptedTakesItsPlace
<1>3. CASE Completion!Accept
  <2>1. PICK word :
          /\ view' = [view EXCEPT !.line = IF view.list.of = <<view.doc, view.line>> THEN Completion!Completed(view.line, word)
                                           ELSE Completion!MangledLine, !.list = Completion!NoList]
          /\ spent' = [spent EXCEPT !.moves = @ + 1, !.hasty = @ \/ view.frame]
    BY <1>3 DEF Completion!Accept
  <2>2. DOMAIN view' = DOMAIN view /\ view'.list = Completion!NoList
    BY <2>1 DEF CompletionKept
  <2>3. "hasty" \in DOMAIN spent' /\ (spent.hasty \/ view.frame => spent'.hasty)
    BY <2>1 DEF CompletionKept
  <2>4. CASE view.list.of = <<view.doc, view.line>>
    <3>1. view'.line = Completion!Completed(view.line, word)
      BY <2>1, <2>4 DEF CompletionKept
    <3>2. view'.line # Completion!MangledLine /\ "form" \in DOMAIN view'.line
      BY <3>1, CompletionWords DEF CompletionKept
    <3> QED BY <2>2, <2>3, <3>2 DEF CompletionKept, Completion!Listed, Completion!AcceptedTakesItsPlace
  <2>5. CASE view.list.of # <<view.doc, view.line>>
    <3>1. view'.line = Completion!MangledLine
      BY <2>1, <2>5 DEF CompletionKept
    <3>2. spent'.hasty
      BY <1>3, <2>3, <2>5 DEF CompletionKept, Completion!Accept
    <3> QED BY <2>2, <2>3, <3>1, <3>2, CompletionWords DEF CompletionKept, Completion!Listed, Completion!AcceptedTakesItsPlace
  <2> QED BY <2>4, <2>5
<1> QED BY <1>1, <1>2, <1>3

\* A word that is completed lands where it was asked for.
LEMMA CompletionStep == CompletionKept /\ Completion!Next => CompletionKept'
BY CompletionListed, CompletionWritten DEF Completion!Next

-----------------------------------------------------------------------------
(* The front-end: the page that is mounted keeps its invariant. *)

WebInv ==
  /\ On("session") => SessionInv
  /\ On("live") => LiveInv /\ LiveTrue
  /\ On("findings") => FindingsInv /\ ArrivalsInv /\ FindingsQuiet
  /\ On("rules") => RulesInv /\ CatalogueQuiet
  /\ On("editor") => EditorInv /\ CardInv /\ TextInv /\ VerdictInv
  /\ On("instances") => InstancesInv /\ InstancesQuiet
  /\ On("webhooks") => WebhooksInv
  /\ On("users") => UsersInv /\ UsersQuiet
  /\ On("queries") => QueriesInv
  /\ On("filters") => FiltersKept
  /\ On("completion") => CompletionKept

\* Whichever page is mounted, it opens in a state of its invariant.
LEMMA WebInit == Init => WebInv
<1> SUFFICES ASSUME Init PROVE WebInv
  OBVIOUS
<1>1. On("session") => SessionInv
  BY SessionInit DEF Init, On
<1>2. On("live") => LiveInv /\ LiveTrue
  BY LiveInit, LiveTrueInit DEF Init, On
<1>3. On("findings") => FindingsInv /\ ArrivalsInv /\ FindingsQuiet
  BY FindingsInit, ArrivalsInit, FindingsQuietInit DEF Init, On
<1>4. On("rules") => RulesInv /\ CatalogueQuiet
  BY RulesInit, CatalogueInit DEF Init, On
<1>5. On("editor") => EditorInv /\ CardInv /\ TextInv /\ VerdictInv
  BY EditorInit, CardInit, TextInit, VerdictInit DEF Init, On
<1>6. On("instances") => InstancesInv /\ InstancesQuiet
  BY InstancesInit, InstancesQuietInit DEF Init, On
<1>7. On("webhooks") => WebhooksInv
  BY WebhooksInit DEF Init, On
<1>8. On("users") => UsersInv /\ UsersQuiet
  BY UsersInit, UsersQuietInit DEF Init, On
<1>9. On("queries") => QueriesInv
  BY QueriesInit DEF Init, On
<1>10. On("filters") => FiltersKept
  BY FiltersInit DEF Init, On
<1>11. On("completion") => CompletionKept
  BY CompletionInit DEF Init, On
<1> QED BY <1>1, <1>2, <1>3, <1>4, <1>5, <1>6, <1>7, <1>8, <1>9, <1>10, <1>11 DEF WebInv

\* Nothing of a page changes when nothing happens.
LEMMA WebStutters == WebInv /\ UNCHANGED <<page, vars>> => WebInv'
<1> SUFFICES ASSUME WebInv, UNCHANGED <<page, vars>> PROVE WebInv'
  OBVIOUS
<1>1. UNCHANGED <<page, server, view, calls, spent>>
  BY DEF vars
<1>2. On("session") => SessionInv'
  BY <1>1 DEF WebInv, SessionInv, SessionShape, SessionStarts, SessionOrder, SessionTrue, SessionMust, MustKnown,
              MustLifted, MustAlone, MustLogins, MustEnds, Obliged, Forced, Counted, InStep
<1>3. On("live") => LiveInv'
  BY <1>1 DEF WebInv, LiveInv, LiveRequests, LiveView, LiveServer, LiveSpent, LiveShown, LiveOrder, LiveTold,
              LivePath, LiveData, Live!DataOf, Live!Total
<1>4. On("live") => LiveTrue'
  BY <1>1 DEF WebInv, LiveTrue, LivePageTrue, LivePillTrue, LiveStream, LiveBrings, LiveData, LivePageOwed,
              LivePillOwed, LiveHeeds
<1>5. On("findings") => FindingsInv'
  BY <1>1 DEF WebInv, FindingsInv, FindingsBase, FindingsRequests, FindingsRequest, FindingsView,
              FindingsServer, FindingsSpent, Counted, FindingsUndo, FindingsUndo0, FindingsUndo1,
              FindingsUndo2, FindingsDialog, FindingsOrder, FindingsRead, FindingsFresh, Undisturbed
<1>6. On("findings") => ArrivalsInv'
  BY <1>1 DEF WebInv, ArrivalsInv, ArrivalsRequests, ArrivalsRequest, ArrivalsView, ArrivalsCounted, ArrivalsPath,
              FindingsLists, Happened
<1>7. On("findings") => FindingsQuiet'
  BY <1>1 DEF WebInv, FindingsQuiet, FindingsTrue, FindingsGood, FindingsOwed, FindingsShown
<1>8. On("rules") => RulesInv' /\ CatalogueQuiet'
  BY <1>1 DEF WebInv, RulesInv, RulesWait, CatalogueQuiet, CatalogueReads, CatalogueInOrder,
              CatalogueFresh, CatalogueGood, Counted, InStep
<1>9. On("editor") => EditorInv'
  BY <1>1 DEF WebInv, EditorInv, Counted, EditorView, EditorRequests, EditorRequest, OfRule, EditorRepairs,
              EditorBadge
<1>10. On("editor") => CardInv'
  BY <1>1 DEF WebInv, CardInv, CardRequests, CardRequest, CardShape, CardOrder, CardBusy, CardSaved, CardGone,
              CardFresh, CardHalves, Half, Editor!Override
<1>11. On("editor") => TextInv' /\ VerdictInv'
  BY <1>1 DEF WebInv, TextInv, TextShape, TextKept, VerdictInv, VerdictFresh, VerdictComes, VerdictLast, VerdictUnread
<1>12. On("instances") => InstancesInv'
  BY <1>1 DEF WebInv, InstancesInv, InstancesView, InstancesRequests, InstancesRequest, InstancesPending,
              InstancesOnce, Targets!TestIsOfTheForm
<1>13. On("instances") => InstancesQuiet'
  BY <1>1 DEF WebInv, InstancesQuiet, InstancesServer, InstancesSpent, InstancesTrue, InstancesSecret, InstancesRows,
              Counted, InStep
<1>14. On("webhooks") => WebhooksInv'
  BY <1>1 DEF WebInv, WebhooksInv, WebhooksKept, WebhooksTrue, WebhooksRequests, WebhooksRequest, WebhooksServer,
              WebhooksSpent, WebhooksView, WebhooksRows, Webhooks!HeadersSurvive, Counted, InStep
<1>15. On("users") => UsersInv' /\ UsersQuiet'
  BY <1>1 DEF WebInv, UsersInv, UsersDialogWaits, UsersDeletionWaits, UsersAsked, UsersQuiet, UsersTrue, Counted, InStep
<1>16. On("queries") => QueriesInv'
  BY <1>1, QueriesStutters DEF WebInv
<1>17. On("filters") => FiltersKept'
  BY <1>1 DEF WebInv, FiltersKept
<1>18. On("completion") => CompletionKept'
  BY <1>1 DEF WebInv, CompletionKept, Completion!AcceptedTakesItsPlace, Completion!Listed
<1> QED BY <1>1, <1>2, <1>3, <1>4, <1>5, <1>6, <1>7, <1>8, <1>9, <1>10, <1>11, <1>12, <1>13, <1>14, <1>15, <1>16,
           <1>17, <1>18 DEF WebInv, On

\* Each step of the front-end is one of the page that is mounted.
LEMMA WebStep == WebInv /\ [Next]_<<page, vars>> => WebInv'
<1> SUFFICES ASSUME WebInv, Next PROVE WebInv'
  BY WebStutters
<1>1. UNCHANGED page
  BY DEF Next
<1>2. On("session") => SessionInv'
  BY SessionStep DEF Next, WebInv, On
<1>3. On("live") => LiveInv' /\ LiveTrue'
  BY LiveStep, LiveTrueStep DEF Next, WebInv, On
<1>4. On("findings") => FindingsInv' /\ ArrivalsInv' /\ FindingsQuiet'
  BY FindingsStep, ArrivalsStep, FindingsQuietStep DEF Next, WebInv, On
<1>5. On("rules") => RulesInv' /\ CatalogueQuiet'
  BY RulesStep, CatalogueStep DEF Next, WebInv, On
<1>6. On("editor") => EditorInv' /\ CardInv' /\ TextInv' /\ VerdictInv'
  BY EditorStep, CardStep, TextStep, VerdictStep DEF Next, WebInv, On
<1>7. On("instances") => InstancesInv' /\ InstancesQuiet'
  BY InstancesStep, InstancesQuietStep DEF Next, WebInv, On
<1>8. On("webhooks") => WebhooksInv'
  BY WebhooksStep DEF Next, WebInv, On
<1>9. On("users") => UsersInv' /\ UsersQuiet'
  BY UsersStep, UsersQuietStep DEF Next, WebInv, On
<1>10. On("queries") => QueriesInv'
  BY QueriesStep DEF Next, WebInv, On
<1>11. On("filters") => FiltersKept'
  BY FiltersStep DEF Next, WebInv, On
<1>12. On("completion") => CompletionKept'
  BY CompletionStep DEF Next, WebInv, On
<1> QED BY <1>1, <1>2, <1>3, <1>4, <1>5, <1>6, <1>7, <1>8, <1>9, <1>10, <1>11, <1>12 DEF WebInv, On

\* An answer is about what the operator reads beside it (pages/FindingsPage.tsx,
\* RuleEditorPage.tsx, InstancesPage.tsx, UsersPage.tsx, RulesPage.tsx): an undo gives the
\* finding its status back, the dialog and the badge are those of their finding and of the
\* text, the test is of the form on screen, and what is busy waits for its own answer.
THEOREM AnswersStayAboutTheScreen == Spec => []AnswersAreAboutTheScreen
<1>1. Init => WebInv
  BY WebInit
<1>2. WebInv /\ [Next]_<<page, vars>> => WebInv'
  BY WebStep
<1>3. WebInv => AnswersAreAboutTheScreen
  BY FindingsHold, EditorHold, InstancesHold, UsersHold, RulesHold DEF WebInv, AnswersAreAboutTheScreen
<1> QED BY <1>1, <1>2, <1>3, PTL DEF Spec

\* The box of an instance and its variables are two halves of one override, that each gesture
\* sends whole (pages/RuleEditorPage.tsx, VariablesCard): one that was made on a page up to
\* date changes its own half, whatever the server serves before it.
THEOREM HalvesStayKept == Spec => HalvesAreKept
<1>1. Init => WebInv
  BY WebInit
<1>2. WebInv /\ [Next]_<<page, vars>> => WebInv'
  BY WebStep
<1>3. WebInv /\ [Next]_<<page, vars>> => [On("editor") => Editor!HalfIsKept]_<<page, vars>>
  <2> SUFFICES ASSUME WebInv, Next, On("editor") PROVE Editor!HalfIsKept
    OBVIOUS
  <2>1. EditorInv /\ CardInv /\ Editor!Next
    BY DEF WebInv, Next, On
  <2> QED BY <2>1, CardHolds
<1> QED BY <1>1, <1>2, <1>3, PTL DEF Spec, HalvesAreKept

\* What arrives is told once (pages/FindingsPage.tsx, DashboardPage.tsx),
\* however many reloads, events and readings see it: each change of the server adds one at most
\* to what the list of the findings counts, and no more is announced of the critical findings
\* than what was raised, nor less than what is shown, as long as answers keep their order.
THEOREM ArrivalsStayToldOnce == Spec => []ArrivalsAreToldOnce
<1>1. Init => WebInv
  BY WebInit
<1>2. WebInv /\ [Next]_<<page, vars>> => WebInv'
  BY WebStep
<1>3. WebInv => ArrivalsAreToldOnce
  BY ArrivalsHold, LiveHolds DEF WebInv, ArrivalsAreToldOnce
<1> QED BY <1>1, <1>2, <1>3, PTL DEF Spec

\* Once nothing is under way, each page shows what the server holds (app/AuthContext.tsx, and the
\* pages over the API): each gesture is followed by the reading that shows what it did, and no
\* answer or event leaves something stale: not the list of a page, nor the ranking of the
\* queries, the card of a rule, the counts of the menu, who is signed in or the password to be changed.
\* Events may be lost at any time (app/EventsContext.tsx:43-73, Sse/EventBus.cs:42-65): the page whose
\* event was lost is excused until it is read again, as is one whose reading failed.
THEOREM PagesStayTrue == Spec => []PagesShowTheServer
<1>1. Init => WebInv
  BY WebInit
<1>2. WebInv /\ [Next]_<<page, vars>> => WebInv'
  BY WebStep
<1>3. WebInv => PagesShowTheServer
  BY SessionHolds, LiveTrueHolds, FindingsQuietHolds, CatalogueHolds, VerdictHolds, InstancesQuietHolds, WebhooksHold,
     UsersQuietHolds, QueriesHold DEF WebInv, PagesShowTheServer
<1> QED BY <1>1, <1>2, <1>3, PTL DEF Spec

\* What the operator typed, or chose, is neither overwritten by what arrives nor erased by what is
\* saved (pages/RuleEditorPage.tsx, QueriesPage.tsx, InstancesPage.tsx, WebhooksPage.tsx,
\* FindingsPage.tsx, components/YamlEditor.tsx): the text of a rule, the values of a query, a
\* password, headers, a format, a search; and a word that is completed lands where it was asked for.
THEOREM InputStaysKept == Spec => []InputIsKept
<1>1. Init => WebInv
  BY WebInit
<1>2. WebInv /\ [Next]_<<page, vars>> => WebInv'
  BY WebStep
<1>3. WebInv => InputIsKept
  BY TextHolds, QueriesHold, InstancesQuietHolds, WebhooksHold, FiltersHold DEF WebInv, InputIsKept, CompletionKept
<1> QED BY <1>1, <1>2, <1>3, PTL DEF Spec
=============================================================================
