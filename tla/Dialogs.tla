------------------------------- MODULE Dialogs -------------------------------
(***************************************************************************)
(* A modal with a drop-down list in it (Modal, ConfirmDialog and Select in *)
(* components/ui/primitives.tsx, components/ui/Bubble.tsx): where the      *)
(* focus goes, and what the keys do.                                       *)
(*                                                                         *)
(* The focus is on the page, before or after the modal, on a control of    *)
(* the modal in the order of the document, or on none, after a press       *)
(* beside the controls.  The browser goes on from where it was.            *)
(***************************************************************************)
EXTENDS Requests, FiniteSetsExt

CONSTANT Options  \* the number of options of the list

Opener == 0
Cross == 1
List == 2
Cancel == 3
Confirm == 4
Rest == 5
Panel == {Cross, List, Cancel, Confirm}
Elements == Panel \union {Opener, Rest}
Indices == 0..(Options - 1)

\* Options that are disabled, but for one at least.
Init ==
  /\ server = None /\ calls = << >>
  /\ \E disabled \in SUBSET Indices, value \in Indices :
       /\ disabled # Indices
       /\ view = [shown |-> FALSE, busy |-> FALSE, focus |-> Opener, at |-> Opener, disabled |-> disabled, value |-> value,
                  open |-> FALSE, active |-> 0]
  /\ Unspent([lost |-> FALSE, chosen |-> -1])

TypeOK ==
  /\ view.focus \in Elements \union {-1} /\ view.at \in Elements
  /\ view.active \in Indices /\ view.value \in Indices
  /\ view.open => view.shown

\* What the operator does; whether the focus was lost, and what was chosen, are remembered.
Act(v, lost, chosen) ==
  /\ spent.moves < MaxMoves
  /\ spent' = [spent EXCEPT !.moves = @ + 1, !.lost = lost, !.chosen = chosen]
  /\ view' = v
  /\ UNCHANGED <<server, calls>>

FocusOn(v, e) == [v EXCEPT !.focus = e, !.at = e]

-----------------------------------------------------------------------------
(* The modal. *)

\* The first control takes the focus.
Open ==
  /\ ~view.shown
  /\ Act(FocusOn([view EXCEPT !.shown = TRUE, !.busy = FALSE], Cross), FALSE, spent.chosen)

\* The focus is given back.
Closed(v) == FocusOn([v EXCEPT !.shown = FALSE, !.open = FALSE], Opener)

\* The cross, the end of what was confirmed, or Escape, busy or not; Cancel when it is not.  The list listens to Escape
\* on the document as the modal does: one key closes the two of them.
Close == view.shown /\ Act(Closed(view), FALSE, spent.chosen)

\* The confirmation waits: both buttons are disabled, and the pressed one loses the focus it had.
ConfirmIt ==
  /\ view.shown /\ ~view.busy
  /\ Act([view EXCEPT !.busy = TRUE, !.focus = -1, !.at = Confirm, !.open = FALSE], TRUE, spent.chosen)

\* What was confirmed is refused.
Refused ==
  /\ view.shown /\ view.busy
  /\ Act([view EXCEPT !.busy = FALSE], spent.lost, spent.chosen)

\* A press beside the controls, which closes the list too.
PressBeside ==
  /\ view.shown /\ view.focus # -1
  /\ \E at \in Panel : Act([view EXCEPT !.focus = -1, !.at = at, !.open = FALSE], TRUE, spent.chosen)

Focusable == IF view.busy THEN Panel \ {Cancel, Confirm} ELSE Panel

\* Where the browser goes on the page.
NextOf(at) == Min({e \in Focusable \union {Opener, Rest} : e > at} \union {Rest})
PreviousOf(at) == Max({e \in Focusable \union {Opener, Rest} : e < at} \union {Opener})

\* Mutant: the modal lets the key to the browser.
Tabbed_Browser(shift) == IF shift THEN PreviousOf(view.at) ELSE NextOf(view.at)

\* The trap: at its ends the focus turns, and a way back from outside leads to the last control.
Tabbed(shift) ==
  CASE shift /\ (view.focus = Min(Focusable) \/ view.focus \notin Panel) -> Max(Focusable)
    [] ~shift /\ view.focus = Max(Focusable) -> Min(Focusable)
    [] OTHER -> IF shift THEN PreviousOf(view.at) ELSE NextOf(view.at)

Tab(shift) == view.shown /\ Act(FocusOn(view, Tabbed(shift)), spent.lost, spent.chosen)

-----------------------------------------------------------------------------
(* The list. *)

Enabled == Indices \ view.disabled

\* A click on its button, or a key on it while it is closed.
Toggle ==
  /\ view.shown
  /\ Act(FocusOn([view EXCEPT !.open = ~@, !.active = view.value], List), spent.lost, spent.chosen)

\* `move': the next option that is not disabled, round the list.
Moved(active, delta) ==
  LET Step(n) == (active + n * delta + Options * Options) % Options
      steps == {n \in 1..Options : Step(n) \in Enabled}
  IN  IF steps = {} THEN active ELSE Step(Min(steps))

OnList == view.shown /\ view.focus = List

OpenList == OnList /\ ~view.open /\ Act([view EXCEPT !.open = TRUE, !.active = view.value], spent.lost, spent.chosen)

Arrow(delta) == OnList /\ view.open /\ Act([view EXCEPT !.active = Moved(@, delta)], spent.lost, spent.chosen)

\* Home and End go to an option that may be disabled.
Jump(index) == OnList /\ view.open /\ Act([view EXCEPT !.active = index], spent.lost, spent.chosen)

Choosable == Enabled

\* `choose', by Enter on the active option or a click on one: the focus goes back to the button.
Choose(index) ==
  /\ view.shown /\ view.open /\ index \in Choosable
  /\ Act(FocusOn([view EXCEPT !.open = FALSE, !.value = index], List), spent.lost, index)

Next ==
  \/ Open \/ Close \/ ConfirmIt \/ Refused \/ PressBeside
  \/ \E shift \in BOOLEAN : Tab(shift)
  \/ Toggle \/ OpenList
  \/ \E delta \in {-1, 1} : Arrow(delta)
  \/ \E index \in {0, Options - 1} : Jump(index)
  \/ \E index \in Indices : Choose(index)

Spec == Init /\ [][Next]_vars

-----------------------------------------------------------------------------
(* Properties. *)

\* "Au clavier, on parcourait un contenu masque": as long as no press and no disabled button
\* takes the focus away, the keys leave it in the modal, and on its opener once it is closed.
FocusIsKept == ~spent.lost => view.focus \in (IF view.shown THEN Panel ELSE {Opener})

\* Every option that can be chosen is reached with the arrows, and one comes back as one went.
ArrowsReachEveryOption ==
  view.active \in Enabled =>
    LET down[n \in Nat] == IF n = 0 THEN view.active ELSE Moved(down[n - 1], 1)
    IN  /\ {down[n] : n \in Indices} = Enabled
        /\ Moved(Moved(view.active, 1), -1) = view.active

\* No option that is disabled is ever chosen, though it may be active.
DisabledIsNotChosen == spent.chosen \notin view.disabled
=============================================================================
