------------------------------ MODULE MCTrigger ------------------------------
(* Model values for Trigger.                                               *)
EXTENDS Trigger

CONSTANTS d1, d2, b1, b2
=============================================================================
