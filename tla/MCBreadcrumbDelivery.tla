------------------------ MODULE MCBreadcrumbDelivery ------------------------
(* Instances of BreadcrumbDelivery for TLC. *)
EXTENDS BreadcrumbDelivery

CONSTANTS t1, t2, a1, a2

\* two traces that both visited two other agents
TwoByTwo == {t1, t2} \X {a1, a2}
=============================================================================
