----------------------------- MODULE PlanCanvas -----------------------------
(***************************************************************************)
(* The pointer on the canvas of a plan (components/PlanView.tsx): a press  *)
(* that moves drags the canvas, from a card too, one that does not is a    *)
(* click, which opens or closes the card.  While it drags, the layer is    *)
(* painted without going through the state.                                *)
(*                                                                         *)
(* One axis, no zoom.                                                      *)
(***************************************************************************)
EXTENDS Requests, FiniteSetsExt

CONSTANT Cards

NoClick == [card |-> None, moved |-> FALSE]

Init ==
  /\ server = None /\ calls = << >>
  /\ view = [expanded |-> {}, box |-> 0, painted |-> 0, drag |-> None, origin |-> 0, swallow |-> FALSE,
             click |-> NoClick]
  /\ Unspent(NoHistory)

TypeOK ==
  /\ view.expanded \subseteq Cards /\ view.drag \in {None, "pressed", "moved"}
  /\ view.click.card \in Cards \union {None} /\ view.swallow \in BOOLEAN

React(v) == view' = v /\ UNCHANGED <<server, calls, spent>>
SetBox(v, x) == [v EXCEPT !.box = x, !.painted = x]
Toggle(v, card) == [v EXCEPT !.expanded = SymDiff(@, {card})]

\* `startPan'.
Press(card) ==
  /\ view.drag = None /\ view.click = NoClick
  /\ Gesture([view EXCEPT !.drag = "pressed", !.origin = view.box, !.swallow = FALSE, !.click.card = card], << >>)

\* `pan': beyond the threshold the press is a drag, and the layer follows.
Move(distance) ==
  /\ view.drag # None
  /\ Gesture([view EXCEPT !.drag = "moved", !.painted = view.origin + distance, !.click.moved = TRUE], << >>)

\* `endPan': the state catches up with the layer, the click that follows is swallowed.
Ended(v) ==
  IF v.drag = "moved" THEN [SetBox(v, v.painted) EXCEPT !.drag = None, !.swallow = TRUE]
  ELSE [v EXCEPT !.drag = None]

Release == view.drag # None /\ React(Ended(view))

\* The gesture is interrupted, or the browser makes no click of a drag.
NoClickFollows ==
  /\ view.click # NoClick /\ (view.drag = None => view.click.moved)
  /\ React([Ended(view) EXCEPT !.click = NoClick])

\* The click the browser makes of the gesture reaches the card, unless the canvas takes it.
Click ==
  /\ view.drag = None /\ view.click # NoClick
  /\ React([IF view.swallow THEN view ELSE Toggle(view, view.click.card)
            EXCEPT !.swallow = FALSE, !.click = NoClick])

\* The key on a focused card makes a click too, which the canvas may take as well.
KeyClick(card) ==
  /\ view.click = NoClick
  /\ Gesture([IF view.swallow THEN view ELSE Toggle(view, card) EXCEPT !.swallow = FALSE], << >>)

\* The wheel with the shift key, and `fit': the state moves, and the layer with it.
Shift(distance) == Gesture(SetBox(view, view.box - distance), << >>)
Fit == Gesture(SetBox(view, 0), << >>)

Next ==
  \/ \E card \in Cards : Press(card) \/ KeyClick(card)
  \/ \E distance \in {5, 9} : Move(distance) \/ Shift(distance)
  \/ Fit \/ Release \/ NoClickFollows \/ Click

Spec == Init /\ [][Next]_vars

-----------------------------------------------------------------------------
(* Properties. *)

\* "Le relachement d'un glisser ne doit pas deplier la carte", and a click that ends no
\* drag is never swallowed for an earlier one.
OnlyDragsAreSwallowed ==
  view.drag = None /\ view.click # NoClick => view.swallow = view.click.moved

\* "L'etat la rattrape": out of a drag, the layer is where the state says, whatever the
\* wheel did meanwhile.
LayerIsWhereStateSays == view.drag # "moved" => view.painted = view.box
=============================================================================
