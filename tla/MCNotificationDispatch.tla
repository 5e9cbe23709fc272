----------------------- MODULE MCNotificationDispatch -----------------------
(* The instances of NotificationDispatch that TLC checks. *)
EXTENDS NotificationDispatch

\* The resolution of a finding.
MCOneRequest == {[subject |-> "f1", event |-> "resolved", cycle |-> 1, severity |-> 1]}
=============================================================================
