-------------------------- MODULE MCTriggerDelivery --------------------------
(* Instances of TriggerDelivery for TLC. *)
EXTENDS TriggerDelivery

CONSTANTS f1, f2, f3

ThreeTriggers == {f1, f2, f3}
=============================================================================
