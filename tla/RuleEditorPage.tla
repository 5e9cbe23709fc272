--------------------------- MODULE RuleEditorPage ---------------------------
(***************************************************************************)
(* The page of a rule (pages/RuleEditorPage.tsx): its text, validated      *)
(* while it is typed, saved, run without effect; and, beside it, the       *)
(* variables of the rule for all the instances or for one, and what the    *)
(* guard says of it, which changes while one writes.                       *)
(*                                                                         *)
(* A text is one of a few names; one instance; a confirmation dialog is    *)
(* part of the gesture it confirms.                                        *)
(***************************************************************************)
EXTENDS Requests

Scopes == {"all", "i1"}
Template == "template"
Faulty == "faulty"
Empty == ""
Typable == {"typed", Faulty, Empty}
NoOverride == [enabled |-> None, value |-> None]
NoDetail == [yaml |-> None, overrides |-> << >>, tripped |-> FALSE]
Value == "5"

\* Compilation of the text by the server.
Compiles(text) == text \notin {Faulty, Empty}

\* What api.rules.get answers; what api.rules.saveOverride stores, upserting.
Detail(s) == [yaml |-> s.yaml, overrides |-> s.overrides, tripped |-> s.tripped]

Init ==
  \E mode \in {"edit", "create", "repair"}, tuned \in BOOLEAN :
    /\ tuned => mode = "edit"
    /\ server = [yaml |-> CASE mode = "edit" -> "stored" [] mode = "create" -> None [] mode = "repair" -> Faulty,
                 overrides |-> [x \in IF tuned THEN {"i1"} ELSE {} |-> [enabled |-> None, value |-> Value]],
                 tripped |-> FALSE, event |-> None]
    /\ view = [mode |-> mode, loading |-> TRUE, text |-> Empty, detail |-> NoDetail, validated |-> None,
               timer |-> FALSE, busy |-> FALSE, running |-> FALSE, ran |-> None, left |-> FALSE,
               target |-> "all", form |-> None, working |-> FALSE]
    /\ calls = <<Request("load", mode)>>
    /\ Unspent([typed |-> None, reloads |-> 0, written |-> FALSE])

TypeOK ==
  /\ view.mode \in {"edit", "create", "repair"} /\ view.target \in Scopes
  /\ view.validated \in {None, "valid", "invalid"}
  /\ DOMAIN server.overrides \subseteq Scopes
  /\ view.timer => view.text # Empty

Shown == ~view.loading /\ ~view.left

Override(d, scope) == IF scope \in DOMAIN d.overrides THEN d.overrides[scope] ELSE NoOverride

-----------------------------------------------------------------------------
(* The text. *)

\* Mutant: a text is validated once, until it is emptied.
WithText_ValidatedOnce(v, text) ==
  [v EXCEPT !.text = text,
            !.timer = IF text = v.text THEN @ ELSE text # Empty /\ v.validated = None,
            !.validated = IF text = Empty THEN None ELSE @]

\* A new text: the timer of its validation starts again; an empty one is not validated.
WithText(v, text) ==
  [v EXCEPT !.text = text,
            !.timer = IF text = v.text THEN @ ELSE text # Empty,
            !.validated = IF text = Empty /\ v.text # Empty THEN None ELSE @]

Type(text) ==
  /\ Shown /\ text # view.text
  /\ spent.moves < MaxMoves
  /\ spent' = [spent EXCEPT !.moves = @ + 1, !.typed = text]
  /\ view' = WithText(view, text)
  /\ UNCHANGED <<server, calls>>

TimerFires ==
  /\ view.timer /\ ~view.left
  /\ view' = [view EXCEPT !.timer = FALSE]
  /\ calls' = Append(calls, Request("validate", view.text))
  /\ UNCHANGED <<server, spent>>

Save ==
  /\ Shown /\ ~view.busy /\ view.validated # "invalid"
  /\ spent.moves < MaxMoves
  /\ spent' = [spent EXCEPT !.moves = @ + 1, !.written = TRUE]
  /\ view' = [view EXCEPT !.busy = TRUE]
  /\ calls' = Append(calls, Request("save", [text |-> view.text, mode |-> view.mode]))
  /\ UNCHANGED server

\* A rule of the operator can be deleted; a bundled one cannot.
DeleteRule ==
  /\ Shown /\ ~view.busy /\ view.detail # NoDetail
  /\ Gesture([view EXCEPT !.busy = TRUE], <<Request("remove", None)>>)

\* The button, or the shortcut, which does not look at the validation.
RunDry ==
  /\ Shown /\ ~view.running
  /\ Gesture([view EXCEPT !.running = TRUE], <<Request("dryRun", view.text)>>)

-----------------------------------------------------------------------------
(* The variables. *)

\* The form is filled again when the override it edits is another object: a detail that
\* was read again brings new ones, "no override" is always the same.
Existing(v, scope) == Override(v.detail, scope)

WithTarget(v, scope) ==
  [v EXCEPT !.target = scope,
            !.form = IF Existing(v, v.target) = NoOverride /\ Existing(v, scope) = NoOverride
                       THEN @ ELSE Existing(v, scope).value]

WithDetail(v, d) ==
  [v EXCEPT !.detail = d,
            !.form = IF Existing(v, v.target) = NoOverride /\ Override(d, v.target) = NoOverride
                       THEN @ ELSE Override(d, v.target).value]

Card == Shown /\ view.detail # NoDetail

Select(scope) ==
  /\ Card /\ scope # view.target
  /\ Gesture(WithTarget(view, scope), << >>)

\* A value is typed, or put back to what is inherited.
TypeVariable(value) ==
  /\ Card /\ view.form # value
  /\ Gesture([view EXCEPT !.form = value], << >>)

\* A request made on what the page had just read, with nothing on its way.
Calm == spent.faults = 0 /\ ~Waiting({"load", "refresh", "save", "override", "clear", "reactivate"})

Store(scope, override, then) ==
  Request("override", [scope |-> scope, override |-> override, then |-> then, calm |-> Calm])

\* Mutant: the box forgets the variables of the override.
SetApplied_BoxOnly(applied) ==
  /\ Card /\ ~view.working
  /\ spent.moves < MaxMoves
  /\ spent' = [spent EXCEPT !.moves = @ + 1, !.reloads = @ + 1]
  /\ view' = [view EXCEPT !.working = TRUE]
  /\ calls' = Append(calls, Store("i1", [enabled |-> IF applied THEN None ELSE "no", value |-> None], "load"))
  /\ UNCHANGED server

\* The box of the instance: the rest of its override is sent back as it was read.
SetApplied(applied) ==
  /\ Card /\ ~view.working
  /\ spent.moves < MaxMoves
  /\ spent' = [spent EXCEPT !.moves = @ + 1, !.reloads = @ + 1]
  /\ view' = [view EXCEPT !.working = TRUE]
  /\ calls' = Append(calls, Store("i1", [Existing(view, "i1") EXCEPT !.enabled = IF applied THEN None ELSE "no"], "load"))
  /\ UNCHANGED server

SaveVariables ==
  /\ Card /\ ~view.working
  /\ Gesture([view EXCEPT !.working = TRUE],
             <<Store(view.target, [Existing(view, view.target) EXCEPT !.value = view.form], "refresh")>>)

ClearVariables ==
  /\ Card /\ ~view.working /\ view.target \in DOMAIN view.detail.overrides
  /\ Gesture([view EXCEPT !.working = TRUE], <<Request("clear", view.target)>>)

Reactivate ==
  /\ Card /\ view.detail.tripped /\ ~view.working
  /\ Gesture([view EXCEPT !.working = TRUE], <<Request("reactivate", None)>>)

-----------------------------------------------------------------------------
(* The server. *)

\* The guard sets the rule aside on the instance, and says so.
Trip ==
  /\ ~server.tripped /\ server.yaml \notin {None, Faulty}
  /\ Spend
  /\ server' = [server EXCEPT !.tripped = TRUE, !.event = "sent"]
  /\ UNCHANGED <<view, calls>>

\* An event about this rule: it is announced, and the rule is read again.
EventArrives ==
  /\ Underway /\ ~view.left
  /\ server' = [server EXCEPT !.event = None]
  /\ calls' = IF view.mode = "edit" THEN Append(calls, Request("refresh", FALSE)) ELSE calls
  /\ UNCHANGED <<view, spent>>

\* What answers with the card of the rule shows what was not announced too.
Effect(s, c) ==
  CASE c.op = "save" -> [CaughtUp(s) EXCEPT !.yaml = c.arg.text]
    [] c.op = "refresh" \/ (c.op = "load" /\ c.arg = "edit") -> CaughtUp(s)
    [] c.op = "remove" -> [s EXCEPT !.yaml = None]
    [] c.op = "override" ->
         [s EXCEPT !.overrides = [x \in DOMAIN @ \union {c.arg.scope} |-> IF x = c.arg.scope THEN c.arg.override ELSE @[x]]]
    [] c.op = "clear" -> [s EXCEPT !.overrides = [x \in DOMAIN @ \ {c.arg} |-> @[x]]]
    [] c.op = "reactivate" -> [s EXCEPT !.tripped = FALSE, !.event = "sent"]
    [] OTHER -> s

Reply(s, c) ==
  CASE c.op \in {"load", "refresh", "save"} -> Detail(Effect(s, c))
    [] c.op = "validate" -> IF Compiles(c.arg) THEN "valid" ELSE "invalid"
    [] OTHER -> None

Refused(c) ==
  \/ c.op \in {"save", "dryRun"} /\ ~Compiles(IF c.op = "save" THEN c.arg.text ELSE c.arg)
  \/ c.op = "save" /\ c.arg.mode = "create" /\ server.yaml # None
  \/ c.op = "load" /\ c.arg = "edit" /\ server.yaml = None
  \/ c.op = "refresh" /\ server.yaml = None

ServeOne(k) ==
  IF Refused(calls[k]) THEN Refuse(k)
  ELSE Serve(k, Effect(server, calls[k]), Reply(server, calls[k]))

-----------------------------------------------------------------------------
(* The answers. *)

\* What `load' does: a new rule starts from the template, a refused file from its own
\* text, marked invalid; a rule is read with its text.
Loaded(v, c) ==
  LET w == [v EXCEPT !.loading = FALSE]
  IN  CASE c.arg = "create" -> WithText(w, Template)
        [] c.arg = "repair" -> [WithText(w, c.reply.yaml) EXCEPT !.validated = "invalid"]
        [] c.arg = "edit" -> WithText(WithDetail(w, c.reply), c.reply.yaml)

\* Mutant: the rule is read again with its text.
Refreshed_WithText(v, c) ==
  [WithText(WithDetail(v, c.reply), c.reply.yaml) EXCEPT !.working = @ /\ ~c.arg]

\* `refreshDetail': the text that is being written stays.
Refreshed(v, c) == [WithDetail(v, c.reply) EXCEPT !.working = @ /\ ~c.arg]

Saved(v, c) == [WithText(WithDetail(v, c.reply), c.reply.yaml) EXCEPT !.busy = FALSE, !.mode = "edit"]

Answered(v, c) ==
  CASE c.op = "load" -> Loaded(v, c)
    [] c.op = "refresh" -> Refreshed(v, c)
    [] c.op = "save" -> Saved(v, c)
    [] c.op = "validate" -> [v EXCEPT !.validated = c.reply]
    [] c.op = "remove" -> [v EXCEPT !.busy = FALSE, !.left = TRUE]
    [] c.op = "dryRun" -> [v EXCEPT !.running = FALSE, !.ran = c.arg]
    [] c.op \in {"override", "clear"} -> [v EXCEPT !.working = FALSE]
    [] c.op = "reactivate" -> v

\* What is asked next: a rule that gets its identifier changes the address, hence `load';
\* the box reloads everything; the rest reads the rule again, a reactivation waiting for it.
Then(v, c) ==
  CASE c.op = "save" /\ c.arg.mode # "edit" -> <<Request("load", "edit")>>
    [] c.op = "override" -> <<Request(c.arg.then, IF c.arg.then = "load" THEN v.mode ELSE FALSE)>>
    [] c.op = "clear" -> <<Request("refresh", FALSE)>>
    [] c.op = "reactivate" -> <<Request("refresh", TRUE)>>
    [] OTHER -> << >>

HandleAnswer(k) == Settle(k, "done", Answered(view, calls[k]), Then(view, calls[k]))

\* A failed validation or refresh is silent; the others are told.
Refusal(v, c) ==
  CASE c.op = "load" -> [v EXCEPT !.loading = FALSE]
    [] c.op \in {"save", "remove"} -> [v EXCEPT !.busy = FALSE]
    [] c.op = "dryRun" -> [v EXCEPT !.running = FALSE]
    [] c.op = "refresh" -> [v EXCEPT !.working = @ /\ ~c.arg]
    [] c.op \in {"override", "clear", "reactivate"} -> [v EXCEPT !.working = FALSE]
    [] c.op = "validate" -> v

HandleRefusal(k) == Settle(k, "refused", Refusal(view, calls[k]), << >>)

Next ==
  \/ \E text \in Typable : Type(text)
  \/ TimerFires \/ Save \/ DeleteRule \/ RunDry
  \/ \E scope \in Scopes : Select(scope)
  \/ \E value \in {None, Value} : TypeVariable(value)
  \/ SaveVariables \/ ClearVariables \/ Reactivate
  \/ \E applied \in BOOLEAN : SetApplied(applied)
  \/ Trip \/ EventArrives \/ EventLost
  \/ \E k \in DOMAIN calls : ServeOne(k) \/ Fail(k) \/ HandleAnswer(k) \/ HandleRefusal(k)

Spec == Init /\ [][Next]_vars

-----------------------------------------------------------------------------
(* Properties. *)

\* Nothing is under way, and no event was lost since the server last answered with the card.
Quiet == calls = << >> /\ ~view.timer /\ server.event = None

\* "Recharger le YAML effacerait la frappe, ce qui n'est jamais acceptable": what was
\* typed is on screen, whatever arrives, as long as it was not saved.
NothingTypedIsLost == spent.typed # None /\ ~spent.written => view.text = spent.typed

\* The same, when the box of an instance was not used either: events, reactivations and
\* variables never touch the text.
TypingSurvivesTheGuard == spent.reloads = 0 => NothingTypedIsLost

\* Once nothing moves, the badge beside the text is about the text on screen, and not
\* about one that was typed before it.
BadgeIsOfTheText ==
  InOrder /\ Quiet /\ Shown /\ spent.faults = 0 /\ view.text # Empty
    => view.validated = (IF Compiles(view.text) THEN "valid" ELSE "invalid")

\* Once nothing moves and nothing failed, the card shows the overrides and the guard's
\* verdict of the server: every gesture is followed by the reading that shows it.  A
\* verdict whose event is lost waits for the next reading.
CardIsTrue ==
  InOrder /\ Quiet /\ Card /\ spent.faults = 0
    => view.detail.overrides = server.overrides /\ view.detail.tripped = server.tripped

\* The box and the variables are two halves of one record, sent whole: a gesture made
\* on a page that was up to date changes its own half only.
HalfIsKept ==
  \A k \in DOMAIN calls :
    InOrder /\ calls[k].op = "override" /\ calls[k].phase = "sent" /\ calls[k].arg.calm /\ server' # server
      => LET before == Override(server, calls[k].arg.scope)
             after == Override(server', calls[k].arg.scope)
         IN  before.enabled = after.enabled \/ before.value = after.value

HalvesAreKept == [][HalfIsKept]_vars
=============================================================================
