------------------------- MODULE MCFindingLifecycle -------------------------
(* The instances of FindingLifecycle that TLC checks. *)
EXTENDS FindingLifecycle, TLC

\* One target per rule, or two targets of one rule.
MCOneEach == ("t1" :> "r1") @@ ("t2" :> "r2")
MCTwoTargets == ("t1" :> "r1") @@ ("t2" :> "r1")

Setup(exclusive, changes, requests, edits, aborts) ==
  [exclusive |-> exclusive, changes |-> changes, requests |-> requests, edits |-> edits, aborts |-> aborts]

\* The actors interleaved, and served one at a time with more of everything.
MCSetups ==
  {Setup(FALSE, 1, 1, 1, 1), Setup(FALSE, 1, 2, 1, 0), Setup(TRUE, 2, 2, 1, 1), Setup(TRUE, 2, 2, 2, 0)}
MCOneRequest == {Setup(FALSE, 1, 1, 0, 0)}
MCNothingElse == {Setup(FALSE, 0, 0, 0, 0)}
=============================================================================
