------------------------------ MODULE FrontEnd ------------------------------
(***************************************************************************)
(* The whole front-end (pg-advisor-web/src): the pages of WebApp, and the  *)
(* widgets beside them.  What is mounted is one or the other: a widget     *)
(* reads nothing of a page but what it is given.                           *)
(***************************************************************************)
EXTENDS WebApp

CONSTANTS
  WidgetMoves, \* the bound of each widget
  Options,     \* the options of a drop-down list
  MaxNodes,    \* the size of the largest plan
  Cards        \* the cards of a plan that can be pressed

Beside == INSTANCE Widgets WITH widget <- page, Moves <- WidgetMoves, Orders <- {TRUE}

ASSUME WidgetMovesAssumption == WidgetMoves \in [Beside!Kinds -> 0..MaxMoves]

FrontEndSpec == (Init \/ Beside!Init) /\ [][Next \/ Beside!Next]_<<page, vars>> /\ Fairness

-----------------------------------------------------------------------------
(* Properties, beside those of WebApp. *)

\* What is mounted is a page of its type, or a widget of its own.
FrontEndTypeOK == TypeOK \/ Beside!TypeOK

\* The plan can be read: no card covers another, no node is lost, a shortcut leads to its node,
\* a drag is no click, the layer is where it says, and the tables add up.
PlanIsReadable == Beside!PlanIsReadable

\* The tables, the lists and the dialogs do what they say, those of the pages and those beside them.
WidgetsObey == ListsObey /\ Beside!WidgetsObey
=============================================================================
