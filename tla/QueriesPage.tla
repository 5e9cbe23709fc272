---------------------------- MODULE QueriesPage ----------------------------
(***************************************************************************)
(* The page of the queries (pages/QueriesPage.tsx): a ranking of the       *)
(* queries of the instances that are selected, and the modal that measures *)
(* the plan of one of them, with values for its parameters that are typed, *)
(* suggested, or those of the plan that was kept.                          *)
(*                                                                         *)
(* One query per instance, with one parameter or none; the filters are the *)
(* selection and an order.  A modal has a number, for its answers may come *)
(* after it was closed.                                                    *)
(***************************************************************************)
EXTENDS Requests

CONSTANTS
  Instances,   \* the instances that are supervised
  Normalised   \* those whose query has a parameter

Sorts == {"time", "calls"}
Values == {"typed", "proposed", ""}
NoModal == [nth |-> 0]
NoList == [selection |-> {}, sort |-> None, kept |-> {}]
NoPlan == "no plan"

RequiredBy(i) == IF i \in Normalised THEN 1 ELSE 0
First == CHOOSE i \in Instances : TRUE

\* What the server ranks, with the queries whose plan it keeps.
Ranking(s, filters) ==
  [selection |-> filters.selection, sort |-> filters.sort,
   kept |-> {i \in filters.selection : s.kept[i] # NoPlan}]

Init ==
  \E selection, kept \in SUBSET Instances :
    /\ server = [kept |-> [i \in Instances |-> IF i \in kept THEN "proposed" ELSE NoPlan]]
    /\ view = [selection |-> selection, sort |-> "time", instances |-> FALSE, list |-> NoList,
               loading |-> selection # {}, error |-> FALSE, modal |-> NoModal, opened |-> 0]
    /\ calls = <<Request("instances", [selection |-> selection, sort |-> "time"])>>
               \o (IF selection = {} THEN << >> ELSE <<Request("load", [selection |-> selection, sort |-> "time"])>>)
    /\ Unspent(NoHistory)

TypeOK ==
  /\ view.selection \subseteq Instances /\ view.sort \in Sorts /\ view.list.kept \subseteq view.list.selection
  /\ view.modal # NoModal => /\ view.modal.panel \in {None, "sql", "params"} /\ view.modal.required \in 0..1
                             /\ view.modal.value \in Values
  /\ \A i \in Instances : server.kept[i] \in Values \union {NoPlan}

-----------------------------------------------------------------------------
(* The ranking. *)

Filters(v) == [selection |-> v.selection, sort |-> v.sort]

\* `load': nothing is asked when nothing is selected.
Load(v) == IF v.selection = {} THEN << >> ELSE <<Request("load", Filters(v))>>
Loading(v) == IF v.selection = {} THEN [v EXCEPT !.list = NoList, !.loading = FALSE] ELSE [v EXCEPT !.loading = TRUE]

\* The filters are in the address: another one loads the list again.
Filtered(v, selection, sort) == Loading([v EXCEPT !.selection = selection, !.sort = sort])

SetFilter(selection, sort) ==
  /\ view.modal = NoModal /\ [selection |-> selection, sort |-> sort] # Filters(view)
  /\ selection = view.selection \/ view.instances
  /\ LET v == Filtered(view, selection, sort) IN Gesture(v, Load(v))

Refresh == view.modal = NoModal /\ Gesture(Loading(view), Load(view))

-----------------------------------------------------------------------------
(* The modal. *)

Analyze(i) ==
  /\ view.modal = NoModal /\ i \in view.list.selection
  /\ Gesture([view EXCEPT !.opened = @ + 1,
                          !.modal = [nth |-> view.opened + 1, query |-> i, result |-> NoPlan, reading |-> TRUE,
                                     busy |-> FALSE, required |-> 0, value |-> "", panel |-> None, error |-> FALSE,
                                     suggesting |-> FALSE, typed |-> None]],
             <<Request("saved", [nth |-> view.opened + 1, query |-> i])>>)

Close ==
  /\ view.modal # NoModal
  /\ Gesture([view EXCEPT !.modal = NoModal], << >>)

\* The values are sent when the editor has some.
Run ==
  /\ view.modal # NoModal /\ ~view.modal.busy
  /\ LET m == view.modal
     IN  Gesture([view EXCEPT !.modal.busy = TRUE, !.modal.error = FALSE],
                 <<Request("analyze", [nth |-> m.nth, query |-> m.query, given |-> m.required, value |-> m.value])>>)

\* The editor is in its panel beside a plan, open when there is none.
Editor(m) == m.required > 0 /\ (m.result = NoPlan \/ m.panel = "params")

Suggest ==
  /\ view.modal # NoModal /\ ~view.modal.suggesting /\ Editor(view.modal)
  /\ Gesture([view EXCEPT !.modal.suggesting = TRUE],
             <<Request("suggest", [nth |-> view.modal.nth, query |-> view.modal.query])>>)

TypeValue ==
  /\ view.modal # NoModal /\ Editor(view.modal) /\ view.modal.value # "typed"
  /\ Gesture([view EXCEPT !.modal.value = "typed", !.modal.typed = "typed"], << >>)

\* The panels are offered beside a plan.
OpenPanel(panel) ==
  /\ view.modal # NoModal /\ view.modal.result # NoPlan /\ (panel = "params" => view.modal.required > 0)
  /\ Gesture([view EXCEPT !.modal.panel = IF @ = panel THEN None ELSE panel], << >>)

-----------------------------------------------------------------------------
(* The server. *)

\* A normalised query needs its values.
Refused(c) == c.op = "analyze" /\ c.arg.given < RequiredBy(c.arg.query)

Effect(s, c) == IF c.op = "analyze" THEN [s EXCEPT !.kept[c.arg.query] = c.arg.value] ELSE s

Reply(s, c) ==
  CASE c.op = "instances" -> None
    [] c.op = "load" -> Ranking(s, c.arg)
    [] c.op = "saved" -> s.kept[c.arg.query]
    [] c.op = "suggest" -> "proposed"
    [] c.op = "analyze" -> c.arg.value

\* A refusal that says how many values are missing is not a failure.
ServeOne(k) ==
  IF Refused(calls[k]) THEN Serve(k, server, "missing")
  ELSE Serve(k, Effect(server, calls[k]), Reply(server, calls[k]))

-----------------------------------------------------------------------------
(* The answers. *)

IsOpen(v, c) == v.modal # NoModal /\ v.modal.nth = c.arg.nth
InModal(v, c, m) == IF IsOpen(v, c) THEN [v EXCEPT !.modal = m] ELSE v

\* When nothing was selected at first, the first instance is, with the order of then.
FirstOnly(c) == [selection |-> {First}, sort |-> c.arg.sort]
MustChoose(v, c) == Instances # {} /\ c.arg.selection = {} /\ Filters(v) # FirstOnly(c)

Chosen(v, c) ==
  IF ~MustChoose(v, c) THEN [v EXCEPT !.instances = TRUE]
  ELSE Filtered([v EXCEPT !.instances = TRUE], {First}, c.arg.sort)

\* "Une valeur deja saisie par l'operateur prime sur la proposition."
Suggested(m) == [m EXCEPT !.suggesting = FALSE, !.value = IF @ = "" THEN "proposed" ELSE @]

\* The plan that was kept brings its values.
Reread(m, plan) ==
  IF plan = NoPlan THEN [m EXCEPT !.reading = FALSE]
  ELSE [m EXCEPT !.reading = FALSE, !.result = plan, !.required = RequiredBy(m.query),
                 !.value = IF RequiredBy(m.query) > 0 THEN plan ELSE @]

\* A measure closes the panel; a refusal opens the editor, with as many values as it needs.
Measured(m, reply) ==
  IF reply = "missing"
    THEN [m EXCEPT !.busy = FALSE, !.required = RequiredBy(m.query), !.panel = "params", !.error = TRUE,
                   !.value = IF m.required = RequiredBy(m.query) THEN @ ELSE ""]
    ELSE [m EXCEPT !.busy = FALSE, !.required = RequiredBy(m.query), !.panel = None, !.result = reply]

\* `onMeasured': the ranking says that a plan is kept, even of a modal that was closed.
Marked(v, c) ==
  IF c.reply # "missing" /\ c.arg.query \in v.list.selection
    THEN [v EXCEPT !.list.kept = @ \union {c.arg.query}] ELSE v

Answered(v, c) ==
  CASE c.op = "instances" -> Chosen(v, c)
    [] c.op = "load" -> [v EXCEPT !.list = c.reply, !.loading = FALSE, !.error = FALSE]
    [] c.op = "saved" -> InModal(v, c, Reread(v.modal, c.reply))
    [] c.op = "suggest" -> InModal(v, c, Suggested(v.modal))
    [] c.op = "analyze" -> Marked(InModal(v, c, Measured(v.modal, c.reply)), c)

Then(v, c) ==
  IF c.op = "instances" /\ MustChoose(v, c) THEN <<Request("load", FirstOnly(c))>> ELSE << >>

HandleAnswer(k) == Settle(k, "done", Answered(view, calls[k]), Then(view, calls[k]))

Refusal(v, c) ==
  CASE c.op = "instances" -> v
    [] c.op = "load" -> [v EXCEPT !.loading = FALSE, !.error = TRUE]
    [] c.op = "saved" -> InModal(v, c, [v.modal EXCEPT !.reading = FALSE])
    [] c.op = "suggest" -> InModal(v, c, [v.modal EXCEPT !.suggesting = FALSE, !.error = TRUE])
    [] c.op = "analyze" -> InModal(v, c, [v.modal EXCEPT !.busy = FALSE, !.error = TRUE])

HandleRefusal(k) == Settle(k, "refused", Refusal(view, calls[k]), << >>)

Next ==
  \/ \E selection \in SUBSET Instances, sort \in Sorts : SetFilter(selection, sort)
  \/ Refresh \/ Close \/ Run \/ Suggest \/ TypeValue
  \/ \E i \in Instances : Analyze(i)
  \/ \E panel \in {"sql", "params"} : OpenPanel(panel)
  \/ \E k \in DOMAIN calls : ServeOne(k) \/ Fail(k) \/ HandleAnswer(k) \/ HandleRefusal(k)

Spec == Init /\ [][Next]_vars

-----------------------------------------------------------------------------
(* Properties. *)

\* Once nothing is under way and nothing failed, the ranking is that of the filters on
\* screen, and says of each query whether its plan is kept.
RankingIsTrue ==
  InOrder /\ calls = << >> /\ spent.faults = 0 /\ view.selection # {} => view.list = Ranking(server, Filters(view))

\* A value that was typed is on screen until the modal is closed, whatever was asked
\* before or after it: the plan that was kept, a proposal, a measure.
TypedValuesStay == InOrder /\ view.modal # NoModal => view.modal.typed \in {None, view.modal.value}
=============================================================================
