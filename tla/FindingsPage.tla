---------------------------- MODULE FindingsPage ----------------------------
(***************************************************************************)
(* The page of the findings (pages/FindingsPage.tsx): the list of one      *)
(* status, reloaded when the stream says that something changed, the       *)
(* actions of the operator on a row, each followed by a reload, and the    *)
(* dialog of one finding, which reads it apart.                            *)
(*                                                                         *)
(* A callback uses the values of the render it was created in: what waits  *)
(* for an answer or a timer keeps the tab of that render.  The counters of *)
(* the summary, asked with each list, are left out.                        *)
(***************************************************************************)
EXTENDS Requests

CONSTANTS Items  \* the findings of the server

Statuses == {"active", "ignored", "resolved"}
Tabs == {"active", "ignored", "resolved", "all"}

NoNotice == [item |-> None]
Closed == [item |-> None, status |-> None, busy |-> FALSE]

\* The answer to api.findings.list.
ListOf(s, tab) ==
  [f \in {f \in Items : tab = "all" \/ s.status[f] = tab} |-> s.status[f]]

\* A reload, alone or at the end of an action.
Reload(tab) == Request("load", [tab |-> tab, ends |-> None, change |-> NoNotice])
ReloadAfter(c) == Request("load", [tab |-> c.arg.tab, ends |-> c.op, change |-> c.arg])

Init ==
  /\ server = [status |-> [f \in Items |-> "active"], event |-> None]
  /\ view = [tab |-> "active", rows |-> << >>, snapshot |-> [tab |-> None, ids |-> {}],
             arrived |-> 0, notice |-> NoNotice, busy |-> None, timer |-> None,
             error |-> FALSE, dialog |-> Closed]
  /\ calls = <<Reload("active")>>
  /\ Unspent([outside |-> 0])

TypeOK ==
  /\ server.status \in [Items -> Statuses]
  /\ view.tab \in Tabs /\ view.timer \in Tabs \union {None}
  /\ view.snapshot.ids = DOMAIN view.rows
  /\ view.busy \in Items \union {None}

-----------------------------------------------------------------------------
(* The operator. *)

\* A tab is in the URL: the effect of `load' runs again when it changes.
SwitchTab(tab) ==
  /\ tab # view.tab /\ view.dialog = Closed
  /\ Gesture([view EXCEPT !.tab = tab], <<Reload(tab)>>)

\* The button of a row: what is active can be ignored, what is ignored reconsidered.
Opposite(status) == IF status = "active" THEN "ignored" ELSE "active"
Free(f) == f \in DOMAIN view.rows /\ view.busy # f

Change(op, f, from, to, tab) ==
  Request(op, [item |-> f, from |-> from, to |-> to, tab |-> tab])

ChangeStatus(f) ==
  /\ Free(f) /\ view.rows[f] \in {"active", "ignored"} /\ view.dialog = Closed
  /\ Gesture([view EXCEPT !.notice = NoNotice, !.busy = f],
             <<Change("set", f, view.rows[f], Opposite(view.rows[f]), view.tab)>>)

\* The undo of a notice was made with the action: its reload is of the tab of that time.
Undo ==
  /\ view.notice # NoNotice /\ view.dialog = Closed
  /\ Gesture([view EXCEPT !.notice = NoNotice, !.busy = view.notice.item],
             <<Change("undo", view.notice.item, view.notice.to, view.notice.from, view.notice.tab)>>)

Verify(f) ==
  /\ Free(f) /\ view.dialog = Closed
  /\ Gesture([view EXCEPT !.notice = NoNotice, !.busy = f],
             <<Change("verify", f, view.rows[f], "resolved", view.tab)>>)

\* The dialog of a finding reads it, and acts on it as a row does.
Open(f) ==
  /\ f \in DOMAIN view.rows /\ view.dialog = Closed
  /\ Gesture([view EXCEPT !.dialog = [Closed EXCEPT !.item = f]], <<Request("read", [item |-> f, ends |-> None])>>)

Close ==
  /\ view.dialog # Closed
  /\ view' = [view EXCEPT !.dialog = Closed]
  /\ UNCHANGED <<server, calls, spent>>

ActInDialog(op) ==
  /\ view.dialog.status # None /\ ~view.dialog.busy
  /\ op = "dialogSet" => view.dialog.status \in {"active", "ignored"}
  /\ Gesture([view EXCEPT !.dialog.busy = TRUE],
             <<Change(op, view.dialog.item, view.dialog.status,
                      IF op = "dialogSet" THEN Opposite(view.dialog.status) ELSE "resolved", view.tab)>>)

-----------------------------------------------------------------------------
(* The server and the stream. *)

\* The engine resolves a finding or sees it again, another operator ignores it...
Outside(f, status) ==
  /\ server.status[f] # status
  /\ spent.moves < MaxMoves
  /\ spent' = [spent EXCEPT !.moves = @ + 1, !.outside = @ + 1]
  /\ server' = [status |-> [server.status EXCEPT ![f] = status], event |-> "sent"]
  /\ UNCHANGED <<view, calls>>

Actions == {"set", "undo", "verify", "dialogSet", "dialogVerify"}

\* A status that changes is announced; a list shows what was not announced too.
Effect(s, c) ==
  IF c.op \in Actions THEN [status |-> [s.status EXCEPT ![c.arg.item] = c.arg.to], event |-> "sent"]
  ELSE IF c.op = "load" THEN CaughtUp(s) ELSE s

Reply(s, c) ==
  CASE c.op = "load" -> ListOf(s, c.arg.tab)
    [] c.op = "read" -> s.status[c.arg.item]
    [] c.op \in Actions -> "conclusive"

ServeOne(k) ==
  /\ Serve(k, Effect(server, calls[k]), Reply(server, calls[k]))

\* A verification that finds the fact still there, or that concludes nothing.
ServeVerification(k) ==
  /\ calls[k].op \in {"verify", "dialogVerify"}
  /\ \E verdict \in {"conclusive", "vain"} : Serve(k, server, verdict)

\* A burst of events restarts one timer, with the `load' of the render it is set in.
EventArrives ==
  /\ Underway
  /\ server' = [server EXCEPT !.event = None]
  /\ view' = [view EXCEPT !.timer = view.tab]
  /\ UNCHANGED <<calls, spent>>

\* Mutant: a reload is spared while another one is on its way.
TimerFires_Spared ==
  /\ view.timer # None
  /\ calls' = IF Waiting({"load"}) THEN calls ELSE Append(calls, Reload(view.timer))
  /\ view' = [view EXCEPT !.timer = None]
  /\ UNCHANGED <<server, spent>>

TimerFires ==
  /\ view.timer # None
  /\ calls' = Append(calls, Reload(view.timer))
  /\ view' = [view EXCEPT !.timer = None]
  /\ UNCHANGED <<server, spent>>

-----------------------------------------------------------------------------
(* The answers. *)

Added(rows) == DOMAIN rows \ view.snapshot.ids

\* What `load' does of an answer: what was not in the last list of the same tab arrived.
WithList(v, tab, rows) ==
  [v EXCEPT !.rows = rows,
            !.snapshot = [tab |-> tab, ids |-> DOMAIN rows],
            !.arrived = IF view.snapshot.tab = tab THEN @ + Cardinality(Added(rows)) ELSE 0,
            !.error = FALSE]

\* The end of an action on a row: no row is busy any more, and a change of status is
\* announced with its undo, even if the reload failed.
Finished(v, load) ==
  CASE load.ends = None -> v
    [] load.ends = "set" -> [v EXCEPT !.busy = None, !.notice = load.change]
    [] load.ends \in {"undo", "verify"} -> [v EXCEPT !.busy = None]

\* The dialog that asked is still open.
OpenOn(v, item) == v.dialog.item = item

HandleList(k) ==
  /\ calls[k].op = "load"
  /\ Settle(k, "done", Finished(WithList(view, calls[k].arg.tab, calls[k].reply), calls[k].arg), << >>)

\* The finding of the dialog is read; after an action the page is told, that reloads.
HandleRead(k) ==
  /\ calls[k].op = "read"
  /\ \E phase \in {"done", "refused"} :
       Settle(k, phase,
              IF ~OpenOn(view, calls[k].arg.item) THEN view
              ELSE [view EXCEPT !.dialog.status = IF phase = "done" THEN calls[k].reply ELSE @,
                                !.dialog.busy = @ /\ calls[k].arg.ends = None],
              IF calls[k].arg.ends = None THEN << >> ELSE <<Reload(calls[k].arg.ends)>>)

\* The action is done: on to its reload, unless the verification concluded nothing.
HandleAction(k) ==
  LET c == calls[k]
  IN  \/ /\ c.op \in {"set", "undo", "verify"} /\ c.reply = "conclusive"
         /\ Settle(k, "done", view, <<ReloadAfter(c)>>)
      \/ /\ c.op = "verify" /\ c.reply = "vain"
         /\ Settle(k, "done", [view EXCEPT !.busy = None], << >>)
      \/ /\ c.op \in {"dialogSet", "dialogVerify"}
         /\ Settle(k, "done", view, <<Request("read", [item |-> c.arg.item, ends |-> c.arg.tab])>>)

\* A list that cannot be read keeps the rows; an action that fails is not followed by a
\* reload.
HandleFailure(k) ==
  LET c == calls[k]
  IN  \/ /\ c.op = "load"
         /\ Settle(k, "refused", Finished([view EXCEPT !.error = TRUE], c.arg), << >>)
      \/ /\ c.op \in {"set", "undo", "verify"}
         /\ Settle(k, "refused", [view EXCEPT !.busy = None, !.error = TRUE], << >>)
      \/ /\ c.op \in {"dialogSet", "dialogVerify"}
         /\ Settle(k, "refused", IF OpenOn(view, c.arg.item) THEN [view EXCEPT !.dialog.busy = FALSE] ELSE view, << >>)

Next ==
  \/ \E tab \in Tabs : SwitchTab(tab)
  \/ \E f \in Items : ChangeStatus(f) \/ Verify(f) \/ Open(f)
  \/ Undo \/ Close
  \/ \E op \in {"dialogSet", "dialogVerify"} : ActInDialog(op)
  \/ \E f \in Items, s \in Statuses : Outside(f, s)
  \/ EventArrives \/ EventLost \/ TimerFires
  \/ \E k \in DOMAIN calls :
       \/ ServeOne(k) \/ ServeVerification(k) \/ Fail(k)
       \/ HandleList(k) \/ HandleRead(k) \/ HandleAction(k) \/ HandleFailure(k)

Spec == Init /\ [][Next]_vars

-----------------------------------------------------------------------------
(* Properties. *)

\* Nothing is under way, and no event was lost since the server last answered a list.
Quiet == calls = << >> /\ view.timer = None /\ server.event = None

\* "Tout le statut courant est charge": once nothing is under way and nothing failed, the
\* rows are those of the tab on screen.  The undo of an action made on another tab, and a
\* reload planned there, break it.
ListIsOfItsTab == Quiet /\ spent.faults = 0 => view.snapshot.tab = view.tab

\* Once nothing is under way and no error is shown, the rows are what the server holds
\* for the tab they were read for, however events, reloads and actions interleaved; an
\* event that is lost leaves them stale until a list is read again.
ListIsTrue == InOrder /\ Quiet /\ ~view.error => view.rows = ListOf(server, view.snapshot.tab)

\* "Le decompte s'ajoute d'un passage a l'autre": each change of the server counts at most
\* once as an arrival, however many reloads see it, as long as they do not overtake each
\* other: the page does not tell an old list from a new one.
ArrivalsAreCountedOnce == InOrder => view.arrived <= spent.moves

\* The undo of an action gives a finding the status the action took away, when nothing
\* else was done to it.
UndoRestores ==
  \A k \in DOMAIN calls :
    calls[k].op = "undo" /\ calls[k].phase = "done" /\ spent.moves = 2
      => server.status[calls[k].arg.item] = "active"

\* What the dialog shows of a finding, once its own action and those of the rows are over,
\* is what the server holds, unless the engine or somebody else changed it since.
DialogIsTrue ==
  InOrder /\ Quiet /\ spent.faults = 0 /\ spent.outside = 0 /\ view.dialog # Closed
    => view.dialog.status = server.status[view.dialog.item]
=============================================================================
