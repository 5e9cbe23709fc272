---------------------------- MODULE MCRuleGuard ----------------------------
(* The instance of RuleGuard that TLC checks. *)
EXTENDS RuleGuard

Options(e, w, q, d, s) ==
  [enabled |-> e, warning |-> w, quarantine |-> q, duration |-> d, slowBudget |-> s]

\* Ordinary thresholds, higher ones, a quarantine threshold below the warning
\* one with no duration (both raised by the code), and the guard turned off.
MCConfigs ==
  {Options(TRUE, 2, 3, 2, 2), Options(TRUE, 3, 5, 2, 2),
   Options(TRUE, 0, -1, 0, 0), Options(FALSE, 2, 3, 2, 2)}

MCRuns ==
  {[succeeded |-> TRUE, kind |-> NoKind, duration |-> 1],
   [succeeded |-> TRUE, kind |-> NoKind, duration |-> 2],
   [succeeded |-> FALSE, kind |-> "timeout", duration |-> 0]}
=============================================================================
