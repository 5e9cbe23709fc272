------------------------------ MODULE LineDiff ------------------------------
(***************************************************************************)
(* The lines that the editor of a rule marks (lib/lineDiff.ts): those of   *)
(* the text that are not in the text it was read as.  A line is a model    *)
(* value; both texts grow one line at a time, so that all are compared.    *)
(***************************************************************************)
EXTENDS Requests, FiniteSetsExt

Lines == {"a", "b"}

Init ==
  /\ server = None /\ calls = << >> /\ Unspent(NoHistory)
  /\ view = [before |-> << >>, after |-> << >>]

TypeOK == view.before \in Seq(Lines) /\ view.after \in Seq(Lines)

\* `table[i][j]', from 0: the longest subsequence that both texts have, from lines i and j on.
Table(source, target) ==
  LET table[i \in 0..Len(source), j \in 0..Len(target)] ==
        IF i = Len(source) \/ j = Len(target) THEN 0
        ELSE IF source[i + 1] = target[j + 1] THEN table[i + 1, j + 1] + 1
        ELSE Max({table[i + 1, j], table[i, j + 1]})
  IN  table

\* `changedLines': the two texts are walked through together; a line of the text is changed when the
\* walk cannot pass over one of the other text without losing.
ChangedLines(source, target) ==
  LET table == Table(source, target)
      changed[i \in 0..Len(source), j \in 0..Len(target)] ==
        IF j = Len(target) THEN {}
        ELSE IF i = Len(source) THEN {j + 1} \union changed[i, j + 1]
        ELSE IF source[i + 1] = target[j + 1] THEN changed[i + 1, j + 1]
        ELSE IF table[i + 1, j] >= table[i, j + 1] THEN changed[i + 1, j]
        ELSE {j + 1} \union changed[i, j + 1]
  IN  changed[0, 0]

Write(key, line) == Gesture([view EXCEPT ![key] = Append(@, line)], << >>)

Next == \E key \in {"before", "after"}, line \in Lines : Write(key, line)

Spec == Init /\ [][Next]_vars

-----------------------------------------------------------------------------
(* Properties. *)

\* The lines of s that are kept, in their order.
Kept(s, kept) == [n \in 1..Cardinality(kept) |-> s[CHOOSE k \in kept : Cardinality({j \in kept : j <= k}) = n]]

\* "Ne laisse ressortir que ce qui a bouge": the lines that are not marked are lines of the text that was
\* read, in the same order, and no choice of fewer lines would do.
MarksAreTheFewest ==
  LET Common == {kept \in SUBSET DOMAIN view.after :
                   \E read \in SUBSET DOMAIN view.before :
                     Cardinality(read) = Cardinality(kept) /\ Kept(view.before, read) = Kept(view.after, kept)}
      unmarked == DOMAIN view.after \ ChangedLines(view.before, view.after)
  IN  unmarked \in Common /\ \A kept \in Common : Cardinality(kept) <= Cardinality(unmarked)
=============================================================================
