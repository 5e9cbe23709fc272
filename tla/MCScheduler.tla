---------------------------- MODULE MCScheduler ----------------------------
(* The instance of Scheduler that TLC checks. *)
EXTENDS Scheduler, TLC

\* One group, every second, or every two for the second instance.
MCInterval == ("health" :> 1)
MCOwnInterval == ("i1" :> 0) @@ ("i2" :> 2)
=============================================================================
