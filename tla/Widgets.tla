------------------------------ MODULE Widgets ------------------------------
(***************************************************************************)
(* The widgets of the front-end that ask nothing of the server             *)
(* (pg-advisor-web/src/components): the plan, its canvas and its tables,   *)
(* the ranking, the diff of the editor, the dialogs and the column of      *)
(* navigation.  None reads the state of another: each is a system of its   *)
(* own, and one is mounted at a time.                                      *)
(***************************************************************************)
EXTENDS Requests

CONSTANTS
  Moves,     \* the bound of each widget, see MaxMoves
  Options,   \* the options of a drop-down list
  MaxNodes,  \* the size of the largest plan
  Cards      \* the cards of a plan that can be pressed

VARIABLE widget

Kinds == {"table", "diagram", "canvas", "relations", "diff", "dialog", "menu"}

Table == INSTANCE QueryTable WITH MaxMoves <- Moves["table"]
Diagram == INSTANCE PlanDiagram WITH MaxMoves <- Moves["diagram"]
Canvas == INSTANCE PlanCanvas WITH MaxMoves <- Moves["canvas"]
Relations == INSTANCE PlanTables WITH MaxMoves <- Moves["relations"]
Diff == INSTANCE LineDiff WITH MaxMoves <- Moves["diff"]
Dialog == INSTANCE Dialogs WITH MaxMoves <- Moves["dialog"]
Menu == INSTANCE Navigation WITH MaxMoves <- Moves["menu"]

On(kind) == widget = kind

Init ==
  \/ On("table") /\ Table!Init
  \/ On("diagram") /\ Diagram!Init
  \/ On("canvas") /\ Canvas!Init
  \/ On("relations") /\ Relations!Init
  \/ On("diff") /\ Diff!Init
  \/ On("dialog") /\ Dialog!Init
  \/ On("menu") /\ Menu!Init

Next ==
  \/ On("table") /\ UNCHANGED widget /\ Table!Next
  \/ On("diagram") /\ UNCHANGED widget /\ Diagram!Next
  \/ On("canvas") /\ UNCHANGED widget /\ Canvas!Next
  \/ On("relations") /\ UNCHANGED widget /\ Relations!Next
  \/ On("diff") /\ UNCHANGED widget /\ Diff!Next
  \/ On("dialog") /\ UNCHANGED widget /\ Dialog!Next
  \/ On("menu") /\ UNCHANGED widget /\ Menu!Next

Spec == Init /\ [][Next]_<<widget, vars>>

-----------------------------------------------------------------------------
(* Properties. *)

TypeOK ==
  /\ widget \in Kinds
  /\ On("table") => Table!TypeOK
  /\ On("diagram") => Diagram!TypeOK
  /\ On("canvas") => Canvas!TypeOK
  /\ On("relations") => Relations!TypeOK
  /\ On("diff") => Diff!TypeOK
  /\ On("dialog") => Dialog!TypeOK
  /\ On("menu") => Menu!TypeOK

\* The plan can be read: no card covers another, no node is lost, a shortcut leads to its node,
\* a drag is no click, the layer is where it says, and the tables add up.
PlanIsReadable ==
  /\ On("diagram") => Diagram!CardsDoNotOverlap /\ Diagram!NoNodeIsLost /\ Diagram!RevealedIsInTheMiddle
  /\ On("canvas") => Canvas!OnlyDragsAreSwallowed /\ Canvas!LayerIsWhereStateSays
  /\ On("relations") => Relations!OwnCostsShareThePlan /\ Relations!RelationsAddUp

\* The tables, the lists and the dialogs do what they say: a column that is sorted is the one that
\* ranks, a filter hides nothing for good, keys reach every option, a diff marks what changed, and no
\* fold of the menu hides what waits.
WidgetsObey ==
  /\ On("table") => Table!SortedOnItsCriterion /\ Table!HiddenRowsComeBack /\ Table!EqualIsWhatIsRead
  /\ On("diff") => Diff!MarksAreTheFewest
  /\ On("dialog") => Dialog!FocusIsKept /\ Dialog!ArrowsReachEveryOption /\ Dialog!DisabledIsNotChosen
  /\ On("menu") => Menu!CountIsNeverHidden /\ Menu!PlaceIsShown
=============================================================================
