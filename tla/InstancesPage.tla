---------------------------- MODULE InstancesPage ----------------------------
(***************************************************************************)
(* The page of the supervised instances (pages/InstancesPage.tsx): their   *)
(* list, which events keep up to date, the form that plugs one in, tests   *)
(* it and saves it, and the deletion.                                      *)
(*                                                                         *)
(* An instance is a name, a target (host, port, base, user, SSL mode) and  *)
(* a secret; a form has a number, for its answers may come after it was    *)
(* closed (the Escape key closes it even while it is busy).                *)
(***************************************************************************)
EXTENDS Requests

CONSTANT Ids   \* the identifiers of the instances, those of now and of later

New == "new"
Names == Ids \union {New}
Targets == {"here", "there"}
Blank == ""

NoForm == [nth |-> 0]
NoTest == [target |-> None, password |-> None]

Init ==
  \E ids \in SUBSET Ids :
    /\ server = [rows |-> [id \in ids |-> [name |-> id, target |-> "here", secret |-> "s1", state |-> "idle"]],
               used |-> ids, event |-> None]
    /\ view = [rows |-> << >>, loading |-> TRUE, error |-> FALSE, form |-> NoForm, opened |-> 0,
               confirm |-> None, deleting |-> FALSE]
    /\ calls = <<Request("load", None)>>
    /\ Unspent([others |-> FALSE, typed |-> {}, first |-> ids])

TypeOK ==
  /\ DOMAIN view.rows \subseteq Ids /\ DOMAIN server.rows \subseteq server.used
  /\ view.form # NoForm => /\ view.form.pending \in {None, "test", "save"}
                           /\ view.form.nth = view.opened
  /\ view.deleting \in BOOLEAN /\ view.error \in BOOLEAN

Shown == ~view.loading /\ view.form = NoForm /\ view.confirm = None

-----------------------------------------------------------------------------
(* The list. *)

\* What the list says of an instance: never its secret.
Row(c) == [name |-> c.name, target |-> c.target, state |-> c.state]

\* A collection of an instance fails, or works again, and an event says so.
Collected(id) ==
  /\ id \in DOMAIN server.rows
  /\ Spend
  /\ server' = [server EXCEPT !.rows[id].state = IF @ = "idle" THEN "error" ELSE "idle", !.event = "sent"]
  /\ UNCHANGED <<view, calls>>

EventArrives ==
  /\ Underway
  /\ server' = [server EXCEPT !.event = None]
  /\ calls' = Append(calls, Request("load", None))
  /\ UNCHANGED <<view, spent>>

AskDelete(id) ==
  /\ Shown /\ id \in DOMAIN view.rows
  /\ Gesture([view EXCEPT !.confirm = id], << >>)

\* `Escape' works while the deletion is under way.
CancelDelete ==
  /\ view.confirm # None
  /\ Gesture([view EXCEPT !.confirm = None], << >>)

ConfirmDelete ==
  /\ view.confirm # None /\ ~view.deleting
  /\ Gesture([view EXCEPT !.deleting = TRUE], <<Request("remove", view.confirm)>>)

-----------------------------------------------------------------------------
(* The form. *)

Form(id, nth, target) ==
  [nth |-> nth, id |-> id, name |-> IF id = None THEN New ELSE id, target |-> target, password |-> Blank,
   pending |-> None, tested |-> NoTest, error |-> FALSE,
   changed |-> FALSE, sure |-> FALSE]

Open(id) ==
  /\ Shown /\ id \in DOMAIN view.rows \union {None}
  /\ Gesture([view EXCEPT !.opened = @ + 1,
                          !.form = Form(id, view.opened + 1, IF id = None THEN "here" ELSE view.rows[id].target)], << >>)

Close ==
  /\ view.form # NoForm
  /\ Gesture([view EXCEPT !.form = NoForm], << >>)

\* `update': any change clears the result of the test; one that is under way goes on.
Updated(form, field, value) ==
  [form EXCEPT ![field] = value, !.tested = NoTest, !.changed = TRUE]

Update(field, value) ==
  /\ view.form # NoForm /\ view.form[field] # value
  /\ spent.moves < MaxMoves
  /\ spent' = [spent EXCEPT !.moves = @ + 1,
                            !.typed = IF field = "password" /\ view.form.id # None THEN @ \union {view.form.id} ELSE @]
  /\ view' = [view EXCEPT !.form = Updated(@, field, value)]
  /\ UNCHANGED <<server, calls>>

Body(form) == [nth |-> form.nth, id |-> form.id, name |-> form.name, target |-> form.target, password |-> form.password]

RunTest ==
  /\ view.form # NoForm /\ view.form.pending = None
  /\ Gesture([view EXCEPT !.form.pending = "test", !.form.error = FALSE, !.form.changed = FALSE],
             <<Request("test", Body(view.form))>>)

\* A new instance needs a password.
Save ==
  /\ view.form # NoForm /\ view.form.pending = None /\ (view.form.id = None => view.form.password # Blank)
  /\ Gesture([view EXCEPT !.form.pending = "save", !.form.error = FALSE], <<Request("save", Body(view.form))>>)

-----------------------------------------------------------------------------
(* The server. *)

\* Another administrator changes the target of an instance.
Elsewhere(id) ==
  /\ id \in DOMAIN server.rows /\ ~spent.others
  /\ spent.moves < MaxMoves
  /\ spent' = [spent EXCEPT !.moves = @ + 1, !.others = TRUE]
  /\ server' = [server EXCEPT !.rows[id].target = "there"]
  /\ UNCHANGED <<view, calls>>

\* The instance of an update: a password that is absent keeps the stored one.
Stored(old, body) ==
  [name |-> body.name, target |-> body.target, secret |-> IF body.password = Blank THEN old.secret ELSE body.password,
   state |-> old.state]

Taken(name, id) == \E other \in DOMAIN server.rows \ {id} : server.rows[other].name = name

Refused(c) ==
  \/ c.op = "save" /\ (Taken(c.arg.name, c.arg.id) \/ c.arg.id \notin DOMAIN server.rows \union {None})
  \/ c.op = "test" /\ c.arg.password = Blank /\ c.arg.id \notin DOMAIN server.rows

\* An identifier is never used again.
Create(s, c) ==
  LET id == CHOOSE x \in Ids : x \notin s.used
      row == Stored([secret |-> c.arg.password, state |-> "idle"], c.arg)
  IN  [s EXCEPT !.rows = [x \in DOMAIN @ \union {id} |-> IF x = id THEN row ELSE @[x]], !.used = @ \union {id}]

Effect(s, c) ==
  CASE c.op = "remove" -> [s EXCEPT !.rows = [id \in DOMAIN @ \ {c.arg} |-> @[id]]]
    [] c.op = "save" /\ c.arg.id = None -> Create(s, c)
    [] c.op = "save" /\ c.arg.id # None -> [s EXCEPT !.rows[c.arg.id] = Stored(@, c.arg)]
    [] c.op = "load" -> CaughtUp(s)
    [] c.op = "test" -> s

\* A test answers for the target and the secret it was given, or for the stored one.
Reply(s, c) ==
  CASE c.op = "load" -> [id \in DOMAIN s.rows |-> Row(s.rows[id])]
    [] c.op = "test" -> [target |-> c.arg.target, password |-> c.arg.password]
    [] c.op \in {"remove", "save"} -> None

\* Bound: no instance is created once every identifier was used.
Creates(c) == c.op = "save" /\ c.arg.id = None

ServeOne(k) ==
  IF Refused(calls[k]) THEN Refuse(k)
  ELSE /\ Creates(calls[k]) => server.used # Ids
       /\ Serve(k, Effect(server, calls[k]), Reply(server, calls[k]))

-----------------------------------------------------------------------------
(* The answers. *)

\* The state of a form that was closed is gone with it.
IsOpen(v, c) == v.form # NoForm /\ v.form.nth = c.arg.nth

\* What is saved closes the form that is open; so does a deletion the dialog.
Answered(v, c) ==
  CASE c.op = "load" -> [v EXCEPT !.rows = c.reply, !.loading = FALSE, !.error = FALSE]
    [] c.op = "remove" -> [v EXCEPT !.confirm = None, !.deleting = FALSE]
    [] c.op = "save" -> [v EXCEPT !.form = NoForm]
    [] c.op = "test" -> IF IsOpen(v, c) 
           THEN [v EXCEPT !.form.tested = c.reply, !.form.pending = None, !.form.sure = ~v.form.changed] ELSE v

Then(c) == IF c.op \in {"save", "remove"} THEN <<Request("load", None)>> ELSE << >>

HandleAnswer(k) == Settle(k, "done", Answered(view, calls[k]), Then(calls[k]))

Refusal(v, c) ==
  CASE c.op = "load" -> [v EXCEPT !.loading = FALSE, !.error = TRUE]
    [] c.op = "remove" -> [v EXCEPT !.confirm = None, !.deleting = FALSE, !.error = TRUE]
    [] c.op \in {"save", "test"} ->
         IF IsOpen(v, c) THEN [v EXCEPT !.form.error = TRUE, !.form.pending = None] ELSE v

HandleRefusal(k) == Settle(k, "refused", Refusal(view, calls[k]), << >>)

Next ==
  \/ EventArrives \/ EventLost
  \/ \E id \in Ids : Collected(id) \/ AskDelete(id) \/ Elsewhere(id)
  \/ CancelDelete \/ ConfirmDelete \/ Close \/ RunTest \/ Save
  \/ \E id \in Ids \union {None} : Open(id)
  \/ \E target \in Targets : Update("target", target)
  \/ \E password \in {Blank, "s2"} : Update("password", password)
  \/ \E name \in Names : Update("name", name)
  \/ \E k \in DOMAIN calls : ServeOne(k) \/ Fail(k) \/ HandleAnswer(k) \/ HandleRefusal(k)

Spec == Init /\ [][Next]_vars

-----------------------------------------------------------------------------
(* Properties. *)

\* The result of a test is about the target and the password on screen, unless they were
\* changed while it ran.
TestIsOfTheForm ==
  view.form # NoForm => (view.form.tested # NoTest /\ view.form.sure
    => view.form.tested = [target |-> view.form.target, password |-> view.form.password])

\* "Un mot de passe enregistre ne se reaffiche pas": nor is it lost, whatever else of the
\* instance is saved, until another is typed.
SecretsSurvive ==
  \A id \in spent.first \cap DOMAIN server.rows : id \notin spent.typed => server.rows[id].secret = "s1"

\* Once nothing is under way and nothing failed, the list is that of the server, but for
\* what another administrator did, and after an event that was lost until it is read again.
ListIsTrue ==
  InOrder /\ calls = << >> /\ server.event = None /\ spent.faults = 0 /\ ~spent.others
    => view.rows = [id \in DOMAIN server.rows |-> Row(server.rows[id])]
=============================================================================
