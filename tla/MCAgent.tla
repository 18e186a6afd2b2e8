------------------------------- MODULE MCAgent -------------------------------
(* Instances of Agent for TLC. *)
EXTENDS Agent, TLC

CONSTANTS b1, b2, b3, a1

ThreeBuffers == {b1, b2, b3}

\* two queues that share trace 1; trace 2 is lateral to 1
TwoQueues == {<<"q1", 1, 1>>, <<"q1", 1, 2>>, <<"q2", 1, 1>>}

\* trace 1 is shared by two triggers of one queue and a trigger of another
Shared == {<<"q1", 1, 1>>, <<"q1", 2, 2>>, <<"q1", 2, 1>>, <<"q2", 1, 1>>}

\* buffers are interchangeable
BufferSymmetry == Permutations(Buffers)
=============================================================================
