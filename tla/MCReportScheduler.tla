--------------------------- MODULE MCReportScheduler ---------------------------
(***************************************************************************)
(* Two queues that share a trace, and the tree that holds the triggers of  *)
(* a queue.  A behaviour is one of the scheduler or one of a tree: the     *)
(* scheduler knows of a tree only what PopsInOrder says of it.             *)
(***************************************************************************)
EXTENDS ReportScheduler, PartialPriorityTree

VARIABLE part

MCFireable == {<<"q1", 1>>, <<"q1", 2>>, <<"q2", 2>>, <<"q2", 3>>}

MCInit ==
  /\ Init /\ TreeInit
  /\ part \in {"scheduler", "tree"}
  /\ part = "tree" => queues = {}

MCNext ==
  /\ UNCHANGED part
  /\ \/ part = "scheduler" /\ Next /\ UNCHANGED tree
     \/ part = "tree" /\ TreeNext /\ UNCHANGED vars

MCSpec == MCInit /\ [][MCNext]_<<vars, tree, part>> /\ (part = "scheduler" => Fairness)
=============================================================================
