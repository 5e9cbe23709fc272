--------------------------- MODULE MCAnalysisPass ---------------------------
(* The instances of AnalysisPass that TLC checks. *)
EXTENDS AnalysisPass

MCOptions == [enabled |-> TRUE, warning |-> 1, quarantine |-> 2, duration |-> 2, slowBudget |-> 2]

Fast == [succeeded |-> TRUE, kind |-> NoKind, duration |-> 1]
Slow == [succeeded |-> TRUE, kind |-> NoKind, duration |-> 2]
TimeOut == [succeeded |-> FALSE, kind |-> "timeout", duration |-> 0]

MCTwoRules == <<"r1", "r2">>

Setup(runs, budget, from, exclusive, time, resets, faults) ==
  [runs |-> runs, budget |-> budget, from |-> from, exclusive |-> exclusive,
   clock |-> time, resets |-> resets, faults |-> faults]

\* Passes that are cancelled, broken and cut short, and passes that last longer.
MCSetups == {Setup({Fast, Slow, TimeOut}, 2, States, TRUE, 3, 1, 1),
             Setup({Fast, TimeOut}, 5, States, TRUE, 5, 1, 0)}
MCTimedOut == {Setup({Fast, TimeOut}, 1, {}, TRUE, 4, 0, 0)}

\* A rule that is set aside is reactivated while a pass is under way.
MCOverlapping == {Setup({Fast, TimeOut}, 5, {Quarantined}, FALSE, 5, 1, 0)}
=============================================================================
