----------------------------- MODULE MCFrontEnd -----------------------------
(* The instance of FrontEnd that TLC checks. *)
EXTENDS FrontEnd

MCMoves ==
  [session |-> 5, live |-> 3, findings |-> 3, rules |-> 2, editor |-> 3, instances |-> 4,
   webhooks |-> 4, users |-> 4, queries |-> 4, filters |-> 4, completion |-> 3]

MCWidgetMoves ==
  [table |-> 3, diagram |-> 3, canvas |-> 7, relations |-> 3, diff |-> 8, dialog |-> 6, menu |-> 5]

MCUnordered == {"session", "findings", "rules", "instances", "webhooks", "users"}
=============================================================================
