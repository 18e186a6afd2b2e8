------------------------------- MODULE MCClient -------------------------------
(* Instances of Client for TLC. *)
EXTENDS Client, TLC

CONSTANTS p, q

TwoThreads == {p, q}
Interchangeable == Permutations({p, q})

(* Bound: while a trace is detached no thread is spreading a payload over buffers. *)
OneAtATime == detached' # {} => \A t \in Threads : call'[t].left = 0

MCSpec == Init /\ [][Next /\ OneAtATime]_vars
=============================================================================
