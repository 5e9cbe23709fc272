----------------------------- MODULE PlanDiagram -----------------------------
(***************************************************************************)
(* The diagram of a measured plan (components/PlanView.tsx): a tree of     *)
(* cards that measure themselves and are placed again, branches that fold, *)
(* and the shortcut to a node that may be folded away.                     *)
(*                                                                         *)
(* A plan is the parent of each of its nodes, numbered as they are listed. *)
(* The window is large enough for the plan, hence a zoom of 1; sizes are   *)
(* those of the code, in pixels.                                           *)
(***************************************************************************)
EXTENDS Requests, FiniteSetsExt, TLC

CONSTANT MaxNodes  \* the size of the largest plan

NODE_W == 360
GAP_X == 32
GAP_Y == 56
PAD == 32
ESTIMATED_H == 110
LABEL_H == 26
PILL_H == 12
Root == -1
Window == [w |-> 4000, h |-> 4000]

\* Each node of a plan, with those above it.
Above(plan) ==
  LET up[i \in DOMAIN plan] == {i} \union (IF plan[i] = Root THEN {} ELSE up[plan[i]]) IN up

\* The parser lists the nodes in prefix order: a node hangs from the one before it, or
\* from one above that one.
Plans ==
  UNION {{p \in [0..n -> Root..(n - 1)] :
            p[0] = Root /\ \A i \in 1..n : p[i] \in 0..(i - 1) /\ p[i] \in Above(p)[i - 1]}
         : n \in 1..(MaxNodes - 1)}

Nodes == DOMAIN view.plan
\* The height a card has once it is drawn: it grows with its details.
Drawn(i) == IF i \in view.expanded THEN 300 ELSE 100 + 10 * i
Height(i) == IF i \in DOMAIN view.heights THEN view.heights[i] ELSE ESTIMATED_H

\* The name of a sub-plan (a CTE, an InitPlan) pushes its card down; it is not in the height the card
\* reports.  Here every other node begins a sub-plan.
Label(i) == IF i % 2 = 1 THEN LABEL_H ELSE 0

-----------------------------------------------------------------------------
(* Placement. *)

\* The nodes no folded branch hides; a folded one is a leaf.
Placed == {i \in Nodes : Above(view.plan)[i] \intersect view.folded \subseteq {i}}
Children(i) == {c \in Placed : view.plan[c] = i}
Leaves == {i \in Placed : Children(i) = {}}

Depth(i) == Cardinality(Above(view.plan)[i]) - 1
Row(d) == {i \in Placed : Depth(i) = d}
RowHeight(d) == Max({Height(i) : i \in Row(d)})

\* Mutant: the rows have the height of their first card.
RowY_FirstCard(d) == FoldSet(LAMBDA r, sum : sum + Height(Min(Row(r))) + GAP_Y, 0, 0..(d - 1))

\* A row starts below the tallest card of the row above.
RowY(d) == FoldSet(LAMBDA r, sum : sum + RowHeight(r) + GAP_Y, 0, 0..(d - 1))

\* Leaves are packed from left to right, a parent is in the middle of its first and last
\* children.
Center ==
  LET center[i \in Placed] ==
        IF i \in Leaves THEN Cardinality({l \in Leaves : l < i}) * (NODE_W + GAP_X) + NODE_W \div 2
        ELSE (center[Min(Children(i))] + center[Max(Children(i))]) \div 2
  IN  center

\* What is drawn of a node: its label, its card, and the pill that hangs below.
Card(i) ==
  [left |-> Center[i] - NODE_W \div 2, top |-> RowY(Depth(i)), height |-> Label(i) + Height(i) + PILL_H]

Width == Cardinality(Leaves) * (NODE_W + GAP_X) - GAP_X

\* What the pill of a folded branch says is under it.
Hidden(i) == IF i \in view.folded THEN Cardinality({j \in Nodes : i \in Above(view.plan)[j]}) - 1 ELSE 0

-----------------------------------------------------------------------------
(* The state. *)

Init ==
  /\ server = None /\ calls = << >>
  /\ \E plan \in Plans :
       view = [plan |-> plan, folded |-> {}, expanded |-> {}, selected |-> Root, focus |-> Root,
               heights |-> << >>, fitted |-> FALSE, box |-> PAD]
  /\ Unspent([shown |-> Root])

TypeOK ==
  /\ view.plan \in Plans /\ view.folded \subseteq Nodes /\ view.expanded \subseteq Nodes
  /\ {view.selected, view.focus} \subseteq Nodes \union {Root}

Measured == \A i \in Placed : i \in DOMAIN view.heights /\ view.heights[i] = Drawn(i)

\* A gesture finds the effects of the last render done; what the shortcut shows is remembered until the next one.
Gest(v, shown) ==
  /\ Measured /\ view.fitted /\ view.focus = Root
  /\ spent.moves < MaxMoves
  /\ spent' = [spent EXCEPT !.moves = @ + 1, !.shown = shown]
  /\ view' = v
  /\ UNCHANGED <<server, calls>>

React(v) == view' = v /\ UNCHANGED <<server, calls, spent>>

Toggle(S, i) == SymDiff(S, {i})

-----------------------------------------------------------------------------
(* What React does after a render. *)

\* The cards on screen report their heights; those that left keep the last one.
Measure ==
  /\ ~Measured
  /\ React([view EXCEPT !.heights = [i \in Placed |-> Drawn(i)] @@ @])

Fitted(v) == [v EXCEPT !.box = (Window.w - (Width + PAD * 2)) \div 2]

\* The plan is framed once, when all its cards are measured.
FirstFit ==
  /\ ~view.fitted /\ Cardinality(DOMAIN view.heights) >= Cardinality(Placed)
  /\ React([Fitted(view) EXCEPT !.fitted = TRUE])

\* The node the shortcut asked for is brought to the middle, if it is on screen.
Focus ==
  /\ view.focus # Root
  /\ React(IF view.focus \notin Placed THEN [view EXCEPT !.focus = Root]
           ELSE [view EXCEPT !.box = Window.w \div 2 - (Card(view.focus).left + PAD + NODE_W \div 2), !.focus = Root])

-----------------------------------------------------------------------------
(* The operator. *)

ToggleBranch(i) ==
  /\ i \in Placed /\ (\E c \in Nodes : view.plan[c] = i)
  /\ Gest([view EXCEPT !.folded = Toggle(@, i)], Root)

\* A click on the card.
ToggleDetails(i) ==
  /\ i \in Placed
  /\ Gest([view EXCEPT !.selected = i, !.expanded = Toggle(@, i)], spent.shown)

ExpandAll ==
  Gest([view EXCEPT !.expanded = IF Cardinality(@) = Cardinality(Nodes) THEN {} ELSE Nodes], spent.shown)

\* A shortcut of the bar, to the slowest, the largest or the costliest node.
Reveal(i) ==
  Gest([view EXCEPT !.selected = i, !.folded = {}, !.focus = i], i)

\* The button, or the key 0.
Fit == Gest(Fitted(view), Root)

\* Another measure of the query: its plan replaces this one.
NewPlan(plan) ==
  /\ plan # view.plan
  /\ Gest([view EXCEPT !.plan = plan, !.expanded = {}, !.folded = {}, !.selected = Root, !.focus = Root], Root)

Next ==
  \/ \E i \in Nodes : ToggleBranch(i) \/ Reveal(i) \/ ToggleDetails(i)
  \/ Measure \/ FirstFit \/ Focus \/ ExpandAll \/ Fit
  \/ \E plan \in Plans : NewPlan(plan)

Spec == Init /\ [][Next]_vars

-----------------------------------------------------------------------------
(* Properties. *)

\* Once the cards are measured, none covers another and each is below its parent, whatever
\* is folded or open: the gap between two rows takes the label and the pill, which no row counts.
CardsDoNotOverlap ==
  Measured =>
    LET card == [i \in Placed |-> Card(i)]
        Beside(i, j) == \/ card[i].left + NODE_W + GAP_X <= card[j].left
                        \/ card[j].left + NODE_W + GAP_X <= card[i].left
    IN  \A i, j \in Placed :
          i < j =>
            /\ view.plan[j] = i => card[i].top + card[i].height <= card[j].top
            /\ \/ Beside(i, j)
               \/ card[i].top + card[i].height <= card[j].top
               \/ card[j].top + card[j].height <= card[i].top

\* Every node of the plan is on screen, or counted by the pill of one folded branch.
NoNodeIsLost ==
  Cardinality(Nodes) = Cardinality(Placed) + FoldSet(LAMBDA i, sum : sum + Hidden(i), 0, Placed)

\* "La cible peut etre sous une branche repliee": the node a shortcut leads to ends up on
\* screen and in the middle of the window.
RevealedIsInTheMiddle ==
  spent.shown # Root /\ view.focus = Root =>
    /\ spent.shown \in Placed
    /\ Card(spent.shown).left + NODE_W \div 2 + PAD + view.box = Window.w \div 2
=============================================================================
