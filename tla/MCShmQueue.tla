----------------------------- MODULE MCShmQueue -----------------------------
(***************************************************************************)
(* The two ways in which the system uses a queue.  Client threads put      *)
(* single elements and the agent takes batches (complete, trigger and      *)
(* breadcrumb queues), or the agent puts batches and client threads take   *)
(* single elements (available queue).  These are the behaviours of         *)
(* ShmQueue in which the threads make only the calls of one use; nobody    *)
(* calls queue_get_blocking.                                               *)
(***************************************************************************)
EXTENDS ShmQueue, TLC

CONSTANTS w1, w2, r1, r2

\* threads, sizes and blocking flags of their calls, and elements a writer puts
ClientsPut == [threads |-> {w1, w2, r1}, puts |-> {1} \X BOOLEAN, gets |-> {2}, max |-> 2]
AgentPuts == [threads |-> {w1, r1, r2}, puts |-> {1, 2} \X {TRUE}, gets |-> {1}, max |-> 3]

VARIABLE use

MCInit == Init /\ use \in {ClientsPut, AgentPuts}

Begins(t) == pc[t] = "idle" /\ pc'[t] # "idle"

MCNext ==
  /\ Next
  /\ \A t \in Threads : Begins(t) => t \in use.threads
  /\ \A w \in Writers : Begins(w) =>
       <<want'[w], blk'[w]>> \in use.puts /\ seq[w] + want'[w] <= use.max
  /\ \A r \in Readers : Begins(r) => want'[r] \in use.gets /\ ~blk'[r]
  /\ UNCHANGED use

MCSpec == MCInit /\ [][MCNext]_<<vars, use>> /\ Fairness
=============================================================================
