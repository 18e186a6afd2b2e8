---------------------------- MODULE MCCoordinator ----------------------------
(* Instances of Coordinator for TLC. *)
EXTENDS Coordinator, TLC

CONSTANTS a1, a2, t1, t2, f1, f2, f3

\* two triggers share a trace, a third has one of its own
OneTraceEach == {<<f1, t1>>, <<f2, t1>>, <<f3, t2>>}

\* one trigger, t2 is lateral to t1
Lateral == {<<f1, t1>>, <<f1, t2>>}

AgentSymmetry == Permutations(Agents)
=============================================================================
