---------------------------- MODULE WebhooksPage ----------------------------
(***************************************************************************)
(* The page of the webhooks (pages/WebhooksPage.tsx): their list, a test,  *)
(* the correction of a format that does not suit the address, the form and *)
(* the deletion.  The headers of a webhook are never sent to the page.     *)
(*                                                                         *)
(* "rest" stands for what is sent back as it was read: key, severity,      *)
(* events, instance, enabled.                                              *)
(***************************************************************************)
EXTENDS Requests

CONSTANT Hooks   \* the webhooks there are at first

New == "new"
Keys == Hooks \union {New}
Addresses == {"discord", "slack", "other"}
Formats == {"generic", "discord", "slack"}
NoForm == [nth |-> 0]

\* `guessFormat'.
Guess(url) == IF url = "other" THEN None ELSE url

Init ==
  \E url \in [Hooks -> Addresses] :
    /\ server = [rows |-> [id \in Hooks |-> [url |-> url[id], format |-> "generic", rest |-> "r1", headers |-> "h1"]]]
    /\ view = [rows |-> << >>, loading |-> TRUE, error |-> FALSE, notice |-> None, form |-> NoForm, opened |-> 0,
               confirm |-> None, deleting |-> FALSE]
    /\ calls = <<Request("load", None)>>
    /\ Unspent([replaced |-> {}])

TypeOK ==
  /\ DOMAIN server.rows \subseteq Keys /\ DOMAIN view.rows \subseteq Keys
  /\ \A id \in DOMAIN server.rows : server.rows[id].format \in Formats
  /\ view.notice \in {None, "sent", "failed", "fixed"} /\ view.deleting \in BOOLEAN

Shown == ~view.loading /\ view.form = NoForm /\ view.confirm = None

\* What the list says of a webhook: whether it has headers, never which.
Row(w) == [url |-> w.url, format |-> w.format, rest |-> w.rest, hasHeaders |-> w.headers # None]

-----------------------------------------------------------------------------
(* The list. *)

Test(id) ==
  /\ Shown /\ id \in DOMAIN view.rows
  /\ Gesture([view EXCEPT !.notice = None], <<Request("test", id)>>)

\* The address names the service it expects.
Mismatch(row) == Guess(row.url) \notin {None, row.format}

\* What is sent to save webhook id; no headers means those that are stored.
Body(nth, id, url, format, rest, headers) ==
  [nth |-> nth, id |-> id, url |-> url, format |-> format, rest |-> rest, headers |-> headers]

\* `fixFormat': the deduced format, and the rest as it was read.
Fix(id) ==
  /\ Shown /\ id \in DOMAIN view.rows /\ Mismatch(view.rows[id])
  /\ Gesture([view EXCEPT !.notice = None],
             <<Request("fix", Body(0, id, view.rows[id].url, Guess(view.rows[id].url), view.rows[id].rest, None))>>)

AskDelete(id) ==
  /\ Shown /\ id \in DOMAIN view.rows
  /\ Gesture([view EXCEPT !.confirm = id], << >>)

CancelDelete ==
  /\ view.confirm # None
  /\ Gesture([view EXCEPT !.confirm = None], << >>)

ConfirmDelete ==
  /\ view.confirm # None /\ ~view.deleting
  /\ Gesture([view EXCEPT !.deleting = TRUE], <<Request("remove", view.confirm)>>)

-----------------------------------------------------------------------------
(* The form. *)

\* A new webhook has everything to be told; an existing one keeps its headers, and its format
\* counts as chosen.
Form(nth, id, url, format, rest, existing) ==
  [nth |-> nth, id |-> id, url |-> url, format |-> format, rest |-> rest,
   replace |-> ~existing, touched |-> existing, chosen |-> IF existing THEN format ELSE None,
   busy |-> FALSE, error |-> FALSE]
Blank(nth) == Form(nth, None, "other", "generic", "r1", FALSE)
Existing(nth, id, row) == Form(nth, id, row.url, row.format, row.rest, TRUE)

Open(id) ==
  /\ Shown /\ id \in DOMAIN view.rows \union {None}
  /\ LET nth == view.opened + 1
     IN  Gesture([view EXCEPT !.opened = nth,
                              !.form = IF id = None THEN Blank(nth) ELSE Existing(nth, id, view.rows[id])], << >>)

\* The Escape key closes a busy form too.
Close ==
  /\ view.form # NoForm
  /\ Gesture([view EXCEPT !.form = NoForm], << >>)

\* The format follows the address, until it is chosen.
Typed(form, url) ==
  [form EXCEPT !.url = url, !.format = IF Guess(url) # None /\ ~form.touched THEN Guess(url) ELSE @]

TypeAddress(url) ==
  /\ view.form # NoForm /\ view.form.url # url
  /\ Gesture([view EXCEPT !.form = Typed(@, url)], << >>)

Choose(format) ==
  /\ view.form # NoForm /\ (view.form.format # format \/ ~view.form.touched)
  /\ Gesture([view EXCEPT !.form.format = format, !.form.touched = TRUE, !.form.chosen = format], << >>)

ChangeRest ==
  /\ view.form # NoForm /\ view.form.rest # "r2"
  /\ Gesture([view EXCEPT !.form.rest = "r2"], << >>)

ReplaceHeaders ==
  /\ view.form # NoForm /\ view.form.id # None
  /\ Gesture([view EXCEPT !.form.replace = ~@], << >>)

\* The headers are those of the text, which may be empty, or none: keep what is stored.
Submit(headers) ==
  /\ view.form # NoForm /\ ~view.form.busy
  /\ headers = None <=> ~view.form.replace
  /\ spent.moves < MaxMoves
  /\ spent' = [spent EXCEPT !.moves = @ + 1, !.replaced = IF view.form.replace THEN @ \union {view.form.id} ELSE @]
  /\ view' = [view EXCEPT !.form.busy = TRUE, !.form.error = FALSE]
  /\ calls' = Append(calls, Request("save", Body(view.form.nth, view.form.id, view.form.url, view.form.format,
                                                 view.form.rest, headers)))
  /\ UNCHANGED server

-----------------------------------------------------------------------------
(* The server. *)

Stored(old, body) ==
  [url |-> body.url, format |-> body.format, rest |-> body.rest,
   headers |-> CASE body.headers = None -> old.headers [] body.headers = "empty" -> None [] OTHER -> body.headers]

Refused(c) ==
  \/ c.op \in {"fix", "save"} /\ c.arg.id \notin DOMAIN server.rows \union {None}
  \/ c.op = "save" /\ c.arg.id = None /\ New \in DOMAIN server.rows
  \/ c.op = "test" /\ c.arg \notin DOMAIN server.rows

\* One webhook is new: a second one would bear a key that is taken.
Effect(s, c) ==
  CASE c.op = "remove" -> [s EXCEPT !.rows = [id \in DOMAIN @ \ {c.arg} |-> @[id]]]
    [] c.op = "save" /\ c.arg.id = None -> [s EXCEPT !.rows = [id \in DOMAIN @ \union {New} |->
                                                        IF id = New THEN Stored([headers |-> None], c.arg) ELSE @[id]]]
    [] c.op \in {"save", "fix"} /\ c.arg.id # None -> [s EXCEPT !.rows[c.arg.id] = Stored(@, c.arg)]
    [] c.op \in {"load", "test"} -> s

\* A service refuses the format of another; a test answers what it says.
Accepts(w) == Guess(w.url) \in {None, w.format}

Reply(s, c) ==
  CASE c.op = "load" -> [id \in DOMAIN s.rows |-> Row(s.rows[id])]
    [] c.op = "test" -> IF Accepts(s.rows[c.arg]) THEN "sent" ELSE "failed"
    [] c.op \in {"remove", "save", "fix"} -> None

ServeOne(k) ==
  IF Refused(calls[k]) THEN Refuse(k)
  ELSE Serve(k, Effect(server, calls[k]), Reply(server, calls[k]))

-----------------------------------------------------------------------------
(* The answers. *)

Answered(v, c) ==
  CASE c.op = "load" -> [v EXCEPT !.rows = c.reply, !.loading = FALSE, !.error = FALSE]
    [] c.op = "remove" -> [v EXCEPT !.confirm = None, !.deleting = FALSE]
    [] c.op = "save" -> [v EXCEPT !.form = NoForm]
    [] c.op = "test" -> [v EXCEPT !.notice = c.reply]
    [] c.op = "fix" -> [v EXCEPT !.notice = "fixed"]

\* Whatever was done, the list is read again.
Then(c) == IF c.op # "load" THEN <<Request("load", None)>> ELSE << >>

HandleAnswer(k) == Settle(k, "done", Answered(view, calls[k]), Then(calls[k]))

\* A test that fails to be asked says nothing.
Refusal(v, c) ==
  CASE c.op = "load" -> [v EXCEPT !.loading = FALSE, !.error = TRUE]
    [] c.op = "remove" -> [v EXCEPT !.confirm = None, !.deleting = FALSE, !.error = TRUE]
    [] c.op = "fix" -> [v EXCEPT !.error = TRUE]
    [] c.op = "test" -> v
    [] c.op = "save" -> IF v.form # NoForm /\ v.form.nth = c.arg.nth
                        THEN [v EXCEPT !.form.error = TRUE, !.form.busy = FALSE] ELSE v

HandleRefusal(k) == Settle(k, "refused", Refusal(view, calls[k]), << >>)

Next ==
  \/ \E id \in Keys : Test(id) \/ Fix(id) \/ AskDelete(id)
  \/ CancelDelete \/ ConfirmDelete \/ Close \/ ChangeRest \/ ReplaceHeaders
  \/ \E id \in Keys \union {None} : Open(id)
  \/ \E url \in Addresses : TypeAddress(url)
  \/ \E format \in Formats : Choose(format)
  \/ \E headers \in {None, "empty", "h2"} : Submit(headers)
  \/ \E k \in DOMAIN calls : ServeOne(k) \/ Fail(k) \/ HandleAnswer(k) \/ HandleRefusal(k)

Spec == Init /\ [][Next]_vars

-----------------------------------------------------------------------------
(* Properties. *)

\* The headers the page never sees are lost only by a form that asked to replace them:
\* neither by another form, nor by the correction of a format.
HeadersSurvive ==
  \A id \in Hooks \cap DOMAIN server.rows : id \notin spent.replaced => server.rows[id].headers = "h1"

\* The format of a form is the one that was chosen, if any, however the address is typed
\* before and after; until then, no address that names a service keeps the format of another.
FormatIsDecided ==
  view.form # NoForm =>
    IF view.form.chosen # None THEN view.form.format = view.form.chosen
    ELSE Guess(view.form.url) \in {None, view.form.format}

\* Once nothing is under way and nothing failed, the list is that of the server.
ListIsTrue ==
  InOrder /\ calls = << >> /\ spent.faults = 0 => view.rows = [id \in DOMAIN server.rows |-> Row(server.rows[id])]
=============================================================================
