----------------------------- MODULE GuardedRow -----------------------------
(***************************************************************************)
(* What a RuleHealth row promises its readers, whoever writes it and       *)
(* however the writers interleave: each of its changes is one run judged   *)
(* by the guard as it stood, a run the guard let through, or a             *)
(* reactivation.  There is no half-written row and no lost reset.          *)
(***************************************************************************)
EXTENDS RuleGuardOps

CONSTANTS Configs, Runs

VARIABLES row, clock

Init == row = NewState /\ clock = 0

Recorded ==
  /\ \E opt \in Configs, outcome \in Runs :
       /\ ~IsQuarantined(opt, row, clock)
       /\ row' = Record(opt, row, outcome, clock).row
  /\ UNCHANGED clock

Reactivated == row' = Reactivate(row) /\ UNCHANGED clock

Tick == clock' = clock + 1 /\ UNCHANGED row

Next == Recorded \/ Reactivated \/ Tick

Spec == Init /\ [][Next]_<<row, clock>>
=============================================================================
