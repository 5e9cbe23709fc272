----------------------------- MODULE QueryTable -----------------------------
(***************************************************************************)
(* The table of a ranking (components/QueryTable.tsx, with the filters of  *)
(* ui/FilterInput.tsx): the rows the server ranked, which the operator     *)
(* filters and sorts in memory, while another ranking may be asked for.    *)
(*                                                                         *)
(* A measure is in thousandths, a ratio too; a text is a rank.  The text   *)
(* of a filter is a number, nothing (Blank) or something else (NotANumber).*)
(***************************************************************************)
EXTENDS Requests

Queries == {1, 2, 3}
Numbers == {"total", "rows", "cache"}
Columns == Numbers \union {"query"}
Operators == {">=", "<=", "="}
NoValue == -1
Blank == -1
NotANumber == -2
Thresholds == {Blank, NotANumber, 12000, 50000}

\* The ratio of the third query is not known; it is the shortest, and returns 12.4 rows a call.
Measures ==
  [q \in Queries |->
     CASE q = 1 -> [query |-> 1, total |-> 9000, rows |-> 50000, cache |-> 990]
       [] q = 2 -> [query |-> 2, total |-> 5000, rows |-> 12000, cache |-> 500]
       [] q = 3 -> [query |-> 3, total |-> 1000, rows |-> 12400, cache |-> NoValue]]

\* RANKED_BY
RankedBy == [total_time |-> "total", rows |-> "rows"]
Criteria == DOMAIN RankedBy

NoFilter == [operator |-> ">=", threshold |-> Blank]
Fresh(rank) == [column |-> RankedBy[rank], descending |-> TRUE, needle |-> {}, filters |-> [c \in Numbers |-> NoFilter]]

\* The table is mounted with a first list.
Init ==
  /\ server = None /\ calls = << >>
  /\ \E rank \in Criteria : view = [rank |-> rank, list |-> Queries, table |-> Fresh(rank)]
  /\ Unspent([sorted |-> FALSE])

-----------------------------------------------------------------------------
(* What the table shows. *)

Round(value) == (value + 500) \div 1000
Ignored(filter) == filter.threshold \in {Blank, NotANumber}
Known(value) == IF value = NoValue THEN 0 ELSE value

\* Rates are stored between 0 and 1, and typed as percentages.
Value(q, column) == Known(Measures[q][column]) * (IF column = "cache" THEN 100 ELSE 1)

Passes(q, column, filter) ==
  \/ Ignored(filter)
  \/ filter.operator = ">=" /\ Value(q, column) >= filter.threshold
  \/ filter.operator = "<=" /\ Value(q, column) <= filter.threshold
  \/ filter.operator = "=" /\ Round(Value(q, column)) = Round(filter.threshold)

\* `filtered': a text is looked for in the queries, an empty one in all of them.
Filtered(t) ==
  {q \in view.list : /\ t.needle # {} => q \in t.needle
                     /\ \A column \in Numbers : Passes(q, column, t.filters[column])}

\* `visible': q before p, for a stable sort of the list.
Before(t, q, p) ==
  LET a == Known(Measures[q][t.column])
      b == Known(Measures[p][t.column])
  IN  IF a = b THEN q < p ELSE IF t.descending THEN a > b ELSE a < b

\* Whether the filters can be cleared.
Filtering(t) == t.needle # {} \/ \E column \in Numbers : t.filters[column].threshold # Blank

TypeOK ==
  /\ view.rank \in Criteria /\ view.list \subseteq Queries
  /\ view.table.column \in Columns /\ view.table.descending \in BOOLEAN /\ view.table.needle \subseteq Queries
  /\ view.table.filters \in [Numbers -> [operator : Operators, threshold : Thresholds]]

-----------------------------------------------------------------------------
(* The gestures; a sort by the operator is remembered until another ranking. *)

Do(t, sorted) ==
  /\ view.list # {}
  /\ spent.moves < MaxMoves
  /\ spent' = [spent EXCEPT !.moves = @ + 1, !.sorted = sorted]
  /\ view' = [view EXCEPT !.table = t]
  /\ UNCHANGED <<server, calls>>

ToggleSort(column) ==
  Do([view.table EXCEPT !.column = column, !.descending = column # view.table.column \/ ~@], TRUE)

Look(needle) == Do([view.table EXCEPT !.needle = needle], spent.sorted)

\* The operator stays in the field when its text is erased.
Compare(column, operator) == Do([view.table EXCEPT !.filters[column].operator = operator], spent.sorted)
Type(column, threshold) == Do([view.table EXCEPT !.filters[column].threshold = threshold], spent.sorted)

ClearFilters ==
  /\ Filtering(view.table) \/ (\A q \in view.list : q \notin Filtered(view.table))
  /\ Do([view.table EXCEPT !.needle = {}, !.filters = Fresh(view.rank).filters], spent.sorted)

\* During the render that follows another criterion.
Ranked(t, rank) ==
  IF RankedBy[rank] = t.column THEN t ELSE [t EXCEPT !.column = RankedBy[rank], !.descending = TRUE]

\* Another criterion is chosen in the bar; without a list there is no table.
Rank(rank) ==
  /\ rank # view.rank /\ spent.moves < MaxMoves
  /\ spent' = [spent EXCEPT !.moves = @ + 1, !.sorted = FALSE]
  /\ view' = [view EXCEPT !.rank = rank, !.table = IF view.list = {} THEN Fresh(rank) ELSE Ranked(@, rank)]
  /\ UNCHANGED <<server, calls>>

\* Another list arrives: the table stays as it is, unless it disappears with its last row.
List(list) ==
  /\ list # view.list /\ spent.moves < MaxMoves
  /\ spent' = [spent EXCEPT !.moves = @ + 1, !.sorted = @ /\ list # {}]
  /\ view' = [view EXCEPT !.list = list, !.table = IF list = {} THEN Fresh(view.rank) ELSE @]
  /\ UNCHANGED <<server, calls>>

Next ==
  \/ \E column \in Columns : ToggleSort(column)
  \/ \E needle \in {{}, {1, 2}} : Look(needle)
  \/ \E column \in Numbers :
       (\E operator \in Operators : Compare(column, operator)) \/ (\E threshold \in Thresholds : Type(column, threshold))
  \/ ClearFilters
  \/ (\E rank \in Criteria : Rank(rank)) \/ (\E list \in SUBSET Queries : List(list))

Spec == Init /\ [][Next]_vars

-----------------------------------------------------------------------------
(* Properties. *)

\* "On classait sur une grandeur, on en lisait une autre": until the operator sorts them, the
\* rows are in the order of the criterion the server ranks by, or in the reverse order.
SortedOnItsCriterion ==
  LET Criterion(q) == Known(Measures[q][RankedBy[view.rank]])
      pairs == {pair \in Filtered(view.table) \X Filtered(view.table) : Before(view.table, pair[1], pair[2])}
  IN  ~spent.sorted => \/ \A pair \in pairs : Criterion(pair[1]) >= Criterion(pair[2])
                       \/ \A pair \in pairs : Criterion(pair[1]) <= Criterion(pair[2])

\* "Un tableau vide par ses propres filtres n'est pas un tableau vide": whatever hides a row can be
\* cleared, and then every row is there.
HiddenRowsComeBack == Filtered(view.table) # view.list => Filtering(view.table)

\* "La condition se lit d'un trait": an equality keeps the rows whose cell reads the number
\* that was typed, a percentage as a percentage.
EqualIsWhatIsRead ==
  \A column \in {"rows", "cache"} :
    LET filter == view.table.filters[column]
        Percent(q) == Known(Measures[q][column]) \div 10
        Cell(q) == IF column = "cache" THEN Percent(q) ELSE Round(Measures[q][column])
    IN  filter.operator = "=" /\ ~Ignored(filter)
          => \A q \in view.list : Passes(q, column, filter) <=> Cell(q) = filter.threshold \div 1000
=============================================================================
