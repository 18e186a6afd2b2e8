----------------------------- MODULE MCBufferCycle -----------------------------
(***************************************************************************)
(* Two agents and the collector.  In one workload an agent fills a buffer  *)
(* again and the other only connects; in the other both report.            *)
(***************************************************************************)
EXTENDS BufferCycle, TLC

MCPool == (11 :> {1, 2}) @@ (12 :> {1})
MCWorkloads == {(11 :> <<5, 5, 0>>) @@ (12 :> <<>>), (11 :> <<5>>) @@ (12 :> <<5>>)}
=============================================================================
