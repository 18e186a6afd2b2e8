-------------------------------- MODULE Lists --------------------------------
(***************************************************************************)
(* Go's container/list as the agent and the coordinator use it, to keep    *)
(* traces and triggers in the order in which they were last touched: a     *)
(* sequence, front first.                                                  *)
(***************************************************************************)
EXTENDS Integers, Sequences, FiniteSets, Functions

WithoutForgotten(s, S) == s

\* s without the elements of S: the n-th element is at the n-th position kept
Without(s, S) ==
    LET keep == {i \in DOMAIN s : s[i] \notin S}
    IN  [n \in 1 .. Cardinality(keep) |->
            s[CHOOSE i \in keep : Cardinality(keep \cap (1 .. i)) = n]]

PushBack(s, x) == Append(s, x)
PushFront(s, x) == <<x>> \o s
StayInPlace(s, x) == IF x \in Range(s) THEN s ELSE PushFront(s, x)
MoveToFront(s, x) == PushFront(Without(s, {x}), x)
Back(s) == s[Len(s)]

\* the lists of the elements of S, each once, in any order
Orders(S) == Bijection(1 .. Cardinality(S), S)

-----------------------------------------------------------------------------
\* no element is in s twice, and later ones are not more recent under stamps m
Ordered(s, m) ==
    \A i, j \in DOMAIN s : i < j => s[i] # s[j] /\ m[s[j]] <= m[s[i]]

(* What the operations do to a list of elements of T with time stamps m: removal
   keeps the order, what is put in front of others must
   not be older, and the back is the oldest. *)
ListFacts ==
    \A T : \A s \in Seq(T) :
        /\ \A S : /\ Without(s, S) \in Seq(T)
                  /\ Range(Without(s, S)) = Range(s) \ S
                  /\ \A m : Ordered(s, m) => Ordered(Without(s, S), m)
        /\ \A r \in Seq(T) :
              /\ r \o s \in Seq(T)
              /\ Range(r \o s) = Range(r) \cup Range(s)
              /\ \A m : (/\ Ordered(r, m) /\ Ordered(s, m)
                        /\ \A x \in Range(r), y \in Range(s) : x # y /\ m[y] <= m[x])
                       => Ordered(r \o s, m)
        /\ \A x \in T : /\ <<x>> \in Seq(T) /\ Range(<<x>>) = {x}
                        /\ \A m : Ordered(<<x>>, m)
        /\ s # <<>> => /\ Back(s) \in Range(s)
                       /\ \A m : (m \in [T -> Int] /\ Ordered(s, m))
                               => \A x \in Range(s) : m[Back(s)] <= m[x]
        /\ \A S \in SUBSET Range(s) : \A r \in Orders(S) :
              /\ r \in Seq(T) /\ Range(r) = S
              /\ \A m : (\A x, y \in S : m[x] <= m[y]) => Ordered(r, m)
        /\ \A m, o : (/\ Ordered(s, m)
                      /\ \A x \in Range(s) : o[x] = m[x]) => Ordered(s, o)
        /\ \A m : Ordered(s, m) => Len(s) = Cardinality(Range(s))
=============================================================================
