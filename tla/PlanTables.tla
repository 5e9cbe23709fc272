------------------------------ MODULE PlanTables ------------------------------
(***************************************************************************)
(* The tables of a measured plan (PlanTables, ownCosts in                  *)
(* components/PlanView.tsx): the column its nodes are sorted on, what they *)
(* add up to on each relation, and what each costs without its children.   *)
(***************************************************************************)
EXTENDS Requests, FiniteSetsExt

Root == 0
Relations == {"r1", "r2"}
Columns == {"node", "self", "cost"}

\* A plan lists a parent before its children; a limit may cost less than its child.
Plans ==
  {p \in [1..3 -> [parent : 0..2, cost : {10, 25, 40}, relation : Relations \union {None}]] :
     /\ p[1].parent = Root /\ p[1].relation = None /\ p[2].parent = 1 /\ p[3].parent \in {1, 2}
     /\ p[3].relation # None}

Self == <<1, 5, 7>>

Init ==
  /\ server = None /\ calls = << >> /\ Unspent(NoHistory)
  /\ \E plan \in Plans : view = [plan |-> plan, column |-> "self", descending |-> TRUE]

TypeOK == view.plan \in Plans /\ view.column \in Columns /\ view.descending \in BOOLEAN

-----------------------------------------------------------------------------

FromChildren(plan, n) == MapThenSumSet(LAMBDA c : plan[c].cost, {c \in DOMAIN plan : plan[c].parent = n})

\* `ownCosts': never below zero, for a parent may cost less than its children.
OwnCost(plan, n) == Max({0, plan[n].cost - FromChildren(plan, n)})

\* `byRelation'
ByRelation(plan) ==
  LET On(r) == {n \in DOMAIN plan : plan[n].relation = r}
  IN  [r \in {plan[n].relation : n \in DOMAIN plan} \ {None} |->
         [self |-> MapThenSumSet(LAMBDA n : Self[n], On(r)), cost |-> MapThenSumSet(LAMBDA n : plan[n].cost, On(r)),
          nodes |-> Cardinality(On(r))]]

\* A measure is read from the largest, a name from the first.
ToggleSort(column) ==
  Gesture([view EXCEPT !.column = column, !.descending = IF column = view.column THEN ~@ ELSE column # "node"], << >>)

Next == \E column \in Columns : ToggleSort(column)

Spec == Init /\ [][Next]_vars

-----------------------------------------------------------------------------
(* Properties. *)

\* "Le cout brut est cumulatif": the own costs share the cost of the plan among its nodes,
\* more than all of it only when a parent costs less than its children.
OwnCostsShareThePlan ==
  LET plan == view.plan
      shared == MapThenSumSet(LAMBDA n : OwnCost(plan, n), DOMAIN plan)
  IN  /\ shared >= plan[1].cost
      /\ (\A n \in DOMAIN plan : plan[n].cost >= FromChildren(plan, n)) => shared = plan[1].cost

\* Each node of the relations is in the total of one of them, with its time and its cost.
RelationsAddUp ==
  LET plan == view.plan
      totals == ByRelation(plan)
      on == {n \in DOMAIN plan : plan[n].relation # None}
  IN  /\ MapThenSumSet(LAMBDA r : totals[r].nodes, DOMAIN totals) = Cardinality(on)
      /\ MapThenSumSet(LAMBDA r : totals[r].self, DOMAIN totals) = MapThenSumSet(LAMBDA n : Self[n], on)
      /\ MapThenSumSet(LAMBDA r : totals[r].cost, DOMAIN totals) = MapThenSumSet(LAMBDA n : plan[n].cost, on)
=============================================================================
