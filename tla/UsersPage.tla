------------------------------ MODULE UsersPage ------------------------------
(***************************************************************************)
(* The page of the accounts (pages/UsersPage.tsx), for administrators: an  *)
(* account is created, given another role on the spot, another password,   *)
(* or deleted; the server keeps one administrator.                         *)
(*                                                                         *)
(* A dialog has a number: it can be closed while it is busy, and its       *)
(* answer comes later.                                                     *)
(***************************************************************************)
EXTENDS Requests

CONSTANT Accounts   \* the names of the accounts, but for that of the administrator who looks at the page

Me == "me"
Names == Accounts \union {Me}
Roles == {"Admin", "Viewer"}
NoDialog == [nth |-> 0]

Init ==
  \E known, admins \in SUBSET Accounts :
    /\ server = [users |-> [name \in known \union {Me} |->
                             [role |-> IF name \in admins \union {Me} THEN "Admin" ELSE "Viewer", must |-> FALSE]]]
    /\ view = [users |-> << >>, loading |-> TRUE, error |-> FALSE, dialog |-> NoDialog, opened |-> 0, deleting |-> FALSE]
    /\ calls = <<Request("load", None)>>
    /\ Unspent(NoHistory)

TypeOK ==
  /\ DOMAIN server.users \subseteq Names /\ DOMAIN view.users \subseteq Names
  /\ \A name \in DOMAIN server.users : server.users[name].role \in Roles
  /\ view.deleting \in BOOLEAN /\ view.dialog # NoDialog => view.dialog.kind \in {"create", "reset", "delete"}

Shown == ~view.loading /\ view.dialog = NoDialog

-----------------------------------------------------------------------------
(* The gestures. *)

\* The list of the roles of a row: what is shown changes when the list is read again.
ChangeRole(name, role) ==
  /\ Shown /\ name \in DOMAIN view.users /\ view.users[name].role # role
  /\ Gesture(view, <<Request("role", [name |-> name, role |-> role])>>)

\* One does not delete one's own account.
Open(kind, name) ==
  /\ Shown
  /\ CASE kind = "create" -> name \in Names
       [] kind = "reset" -> name \in DOMAIN view.users
       [] kind = "delete" -> name \in DOMAIN view.users \ {Me}
  /\ Gesture([view EXCEPT !.opened = @ + 1,
                          !.dialog = [nth |-> view.opened + 1, kind |-> kind, name |-> name, busy |-> FALSE, error |-> FALSE]],
             << >>)

Close ==
  /\ view.dialog # NoDialog
  /\ Gesture([view EXCEPT !.dialog = NoDialog], << >>)

\* A form is busy by itself; deletions share one flag.
Submit ==
  /\ view.dialog # NoDialog
  /\ LET d == view.dialog
     IN  /\ ~(IF d.kind = "delete" THEN view.deleting ELSE d.busy)
         /\ Gesture(IF d.kind = "delete" THEN [view EXCEPT !.deleting = TRUE]
                    ELSE [view EXCEPT !.dialog.busy = TRUE, !.dialog.error = FALSE],
                    <<Request(d.kind, [name |-> d.name, nth |-> d.nth])>>)

-----------------------------------------------------------------------------
(* The server. *)

Admins(s) == {name \in DOMAIN s.users : s.users[name].role = "Admin"}

\* A name is taken, an account is gone, or nobody would be left to administer.
Refused(c) ==
  \/ c.op = "create" /\ c.arg.name \in DOMAIN server.users
  \/ c.op \in {"role", "reset"} /\ c.arg.name \notin DOMAIN server.users
  \/ c.op = "role" /\ c.arg.role # "Admin" /\ Admins(server) = {c.arg.name}
  \/ c.op = "delete" /\ Admins(server) = {c.arg.name}

Effect(s, c) ==
  CASE c.op = "create" -> [s EXCEPT !.users = [name \in DOMAIN @ \union {c.arg.name} |->
                                               IF name = c.arg.name THEN [role |-> "Viewer", must |-> FALSE] ELSE @[name]]]
    [] c.op = "role" -> [s EXCEPT !.users[c.arg.name].role = c.arg.role]
    [] c.op = "reset" -> [s EXCEPT !.users[c.arg.name].must = FALSE]
    [] c.op = "delete" -> [s EXCEPT !.users = [name \in DOMAIN @ \ {c.arg.name} |-> @[name]]]
    [] c.op = "load" -> s

ServeOne(k) ==
  IF Refused(calls[k]) THEN Refuse(k)
  ELSE Serve(k, Effect(server, calls[k]), IF calls[k].op = "load" THEN server.users ELSE None)

-----------------------------------------------------------------------------
(* The answers. *)

IsOpen(v, c) == v.dialog # NoDialog /\ v.dialog.nth = c.arg.nth
Without(v, kind) == IF v.dialog # NoDialog /\ v.dialog.kind = kind THEN [v EXCEPT !.dialog = NoDialog] ELSE v

\* What is saved closes whichever dialog of its kind is open.
Answered(v, c) ==
  CASE c.op = "load" -> [v EXCEPT !.users = c.reply, !.loading = FALSE, !.error = FALSE]
    [] c.op \in {"create", "reset"} -> Without(v, c.op)
    [] c.op = "delete" -> [Without(v, "delete") EXCEPT !.deleting = FALSE]
    [] c.op = "role" -> v

Then(c) == IF c.op # "load" THEN <<Request("load", None)>> ELSE << >>

HandleAnswer(k) == Settle(k, "done", Answered(view, calls[k]), Then(calls[k]))

Refusal(v, c) ==
  CASE c.op = "load" -> [v EXCEPT !.loading = FALSE, !.error = TRUE]
    [] c.op = "role" -> [v EXCEPT !.error = TRUE]
    [] c.op = "delete" -> [Without(v, "delete") EXCEPT !.deleting = FALSE, !.error = TRUE]
    [] c.op \in {"create", "reset"} -> IF IsOpen(v, c) THEN [v EXCEPT !.dialog.busy = FALSE, !.dialog.error = TRUE] ELSE v

HandleRefusal(k) == Settle(k, "refused", Refusal(view, calls[k]), << >>)

Next ==
  \/ \E name \in Names, role \in Roles : ChangeRole(name, role)
  \/ \E name \in Names, kind \in {"create", "reset", "delete"} : Open(kind, name)
  \/ Close \/ Submit
  \/ \E k \in DOMAIN calls : ServeOne(k) \/ Fail(k) \/ HandleAnswer(k) \/ HandleRefusal(k)

Spec == Init /\ [][Next]_vars

-----------------------------------------------------------------------------
(* Properties. *)

\* Once nothing is under way and nothing failed, the list is that of the server.
ListIsTrue == InOrder /\ calls = << >> /\ spent.faults = 0 => view.users = server.users

\* A form or a deletion that is busy is waiting for an answer: none is stuck by a refusal,
\* by a failure, or by having been closed meanwhile.
BusyIsWaiting ==
  /\ view.deleting => Waiting({"delete"})
  /\ view.dialog # NoDialog => (view.dialog.busy => Waiting({view.dialog.kind}))
=============================================================================
