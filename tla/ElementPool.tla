----------------------------- MODULE ElementPool -----------------------------
(***************************************************************************)
(* What a shared-memory queue promises its users: a bounded pool from      *)
(* which every element put in is taken out at most once, nothing is taken  *)
(* out that was not put in, and nothing disappears.  No order is promised. *)
(***************************************************************************)
EXTENDS Integers, FiniteSets

CONSTANTS Element, Limit

VARIABLES stored, taken

Init == stored = {} /\ taken = {}

Put(e) ==
  /\ e \notin stored \cup taken
  /\ Cardinality(stored \cup {e}) <= Limit
  /\ stored' = stored \cup {e}
  /\ UNCHANGED taken

Take(e) ==
  /\ e \in stored
  /\ e \notin taken
  /\ stored' = stored \ {e}
  /\ taken' = taken \cup {e}

Next == \E e \in Element : Put(e) \/ Take(e)

Spec == Init /\ [][Next]_<<stored, taken>>
=============================================================================
