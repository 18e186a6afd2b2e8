------------------------------ MODULE ListProofs ------------------------------
(***************************************************************************)
(* What removing elements does to a list, for any list.                    *)
(***************************************************************************)
EXTENDS Lists, FiniteSetTheorems, TLAPS

(* Leaves are first-order unless they say SMT, which does arithmetic.      *)
USE ZenonT(40)

(* The positions of a set K of positions are numbered 1, 2, ... in order.  *)
LEMMA Ranks ==
  ASSUME NEW m \in Nat, NEW K \in SUBSET (1 .. m)
  PROVE  LET Rank(i) == Cardinality(K \cap (1 .. i))
         IN  /\ Cardinality(K) \in Nat
             /\ \A i \in K : Rank(i) \in 1 .. Cardinality(K)
             /\ \A i, j \in K : i < j => Rank(i) < Rank(j)
             /\ \A n \in 1 .. Cardinality(K) : \E i \in K : Rank(i) = n
  <1> DEFINE Upto(i) == K \cap (1 .. i)
             Rank(i) == Cardinality(Upto(i))
             N == Cardinality(K)
  <1>1. IsFiniteSet(K)
    <2>1. IsFiniteSet(1 .. m)
      BY FS_Interval, SMT
    <2> QED
      BY <2>1, FS_Subset
  <1>2. N \in Nat
    BY <1>1, FS_CardinalityType
  <1>3. \A i : IsFiniteSet(Upto(i)) /\ Rank(i) \in Nat /\ Rank(i) <= N
    <2> SUFFICES ASSUME NEW i PROVE IsFiniteSet(Upto(i)) /\ Rank(i) \in Nat /\ Rank(i) <= N
      OBVIOUS
    <2>1. Upto(i) \in SUBSET K
      OBVIOUS
    <2> QED
      BY <1>1, <2>1, FS_Subset, FS_CardinalityType
  <1>4. \A i \in K : Rank(i) \in 1 .. N
    <2> SUFFICES ASSUME NEW i \in K PROVE Rank(i) \in 1 .. N
      OBVIOUS
    <2>1. i \in Upto(i)
      BY SMT
    <2>2. Rank(i) # 0
      BY <1>3, <2>1, FS_EmptySet
    <2>3. \A a, b \in Nat : a # 0 /\ a <= b => a \in 1 .. b
      BY SMT
    <2> HIDE DEF Rank, N
    <2> QED
      BY <1>2, <1>3, <2>2, <2>3
  <1>5. \A i, j \in K : i < j => Rank(i) < Rank(j)
    <2> SUFFICES ASSUME NEW i \in K, NEW j \in K, i < j PROVE Rank(i) < Rank(j)
      OBVIOUS
    <2>1. Upto(i) \in SUBSET Upto(j) /\ j \in Upto(j) /\ j \notin Upto(i)
      BY SMT
    <2>2. Rank(i) <= Rank(j) /\ Rank(i) # Rank(j)
      BY <1>3, <2>1, FS_Subset
    <2>3. \A a, b \in Nat : a <= b /\ a # b => a < b
      BY SMT
    <2> HIDE DEF Rank
    <2> QED
      BY <1>3, <2>2, <2>3
  <1>6. \A n \in 1 .. N : \E i \in K : Rank(i) = n
    <2> DEFINE r == [i \in K |-> Rank(i)]
    <2>1. \A i, j \in K : Rank(i) = Rank(j) => i = j
      <3>1. \A i, j \in K : i < j \/ j < i \/ i = j
        BY SMT
      <3>2. \A a \in Nat : ~(a < a)
        BY SMT
      <3> HIDE DEF Rank
      <3> QED
        BY <1>3, <1>5, <3>1, <3>2
    <2> HIDE DEF Rank
    <2>2. r \in [K -> 1 .. N]
      BY <1>4
    <2>3. r \in Injection(K, 1 .. N)
      BY <2>1, <2>2 DEF Injection, IsInjective
    <2>4. IsFiniteSet(1 .. N) /\ Cardinality(1 .. N) = N
      BY <1>2, FS_Interval, SMT
    <2>5. r \in Surjection(K, 1 .. N)
      BY <2>3, <2>4, FS_Injection
    <2> QED
      BY <2>5 DEF Surjection
  <1> QED
    BY <1>2, <1>4, <1>5, <1>6

(* What is left when elements are removed: each element that is not to go, *)
(* no other, and in the order they had.                                    *)
LEMMA WithoutKeeps ==
  ASSUME NEW T, NEW s \in Seq(T), NEW S
  PROVE  /\ Without(s, S) \in Seq(T)
         /\ Range(Without(s, S)) = Range(s) \ S
         /\ \A i, j \in DOMAIN Without(s, S) : i < j =>
               \E k, l \in DOMAIN s : k < l /\ s[k] = Without(s, S)[i] /\ s[l] = Without(s, S)[j]
  <1> DEFINE K == {i \in DOMAIN s : s[i] \notin S}
             N == Cardinality(K)
             Rank(i) == Cardinality(K \cap (1 .. i))
             At(n) == CHOOSE i \in K : Rank(i) = n
             w == [n \in 1 .. N |-> s[At(n)]]
  <1>1. Len(s) \in Nat /\ K \in SUBSET (1 .. Len(s))
    BY SMT
  <1>2. /\ N \in Nat
        /\ \A i \in K : Rank(i) \in 1 .. N
        /\ \A i, j \in K : i < j => Rank(i) < Rank(j)
        /\ \A n \in 1 .. N : \E i \in K : Rank(i) = n
    <2> HIDE DEF K
    <2> QED
      BY <1>1, Ranks
  <1>3. Without(s, S) = w
    BY DEF Without
  <1>k. \A i \in K : i \in DOMAIN s /\ s[i] \in T /\ s[i] \notin S /\ i \in Int
    BY SMT
  <1>d. \A i \in DOMAIN s : s[i] \notin S => i \in K
    OBVIOUS
  <1> HIDE DEF K, N, Rank
  <1>4. \A n \in 1 .. N : At(n) \in K /\ Rank(At(n)) = n
    BY <1>2
  <1> HIDE DEF At
  <1>5. DOMAIN w = 1 .. N /\ \A n \in 1 .. N : w[n] = s[At(n)]
    OBVIOUS
  <1>6. w \in Seq(T)
    BY <1>2, <1>4, <1>k, SMT
  <1> HIDE DEF w
  <1>7. Range(w) \subseteq Range(s) \ S
    BY <1>4, <1>5, <1>k DEF Range
  <1>8. Range(s) \ S \subseteq Range(w)
    <2> SUFFICES ASSUME NEW i \in DOMAIN s, s[i] \notin S PROVE s[i] \in Range(w)
      BY DEF Range
    <2>1. i \in K /\ Rank(i) \in 1 .. N
      BY <1>2, <1>d
    <2>2. At(Rank(i)) = i
      <3>1. At(Rank(i)) \in K /\ Rank(At(Rank(i))) = Rank(i)
        BY <1>4, <2>1
      <3>2. \A j \in K : Rank(j) = Rank(i) => j = i
        BY <1>2, <1>k, <2>1, SMTT(20)
      <3> QED
        BY <3>1, <3>2
    <2> QED
      BY <1>5, <2>1, <2>2 DEF Range
  <1>9. ASSUME NEW i \in DOMAIN w, NEW j \in DOMAIN w, i < j
        PROVE  \E k, l \in DOMAIN s : k < l /\ s[k] = w[i] /\ s[l] = w[j]
    <2>1. At(i) \in K /\ At(j) \in K /\ Rank(At(i)) = i /\ Rank(At(j)) = j /\ i \in 1 .. N /\ j \in 1 .. N
      BY <1>4, <1>5
    <2>2. At(i) < At(j)
      <3> DEFINE a == At(i)
                 b == At(j)
      <3>1. a \in K /\ b \in K /\ Rank(a) = i /\ Rank(b) = j
        BY <2>1
      <3>2. a \in Int /\ b \in Int /\ i \in Int /\ j \in Int
        BY <1>k, <2>1, SMT
      <3>3. b < a => j < i
        BY <1>2, <3>1
      <3>4. a # b
        BY <1>9, <3>1, <3>2, SMT
      <3> HIDE DEF a, b
      <3>5. a < b
        BY <1>9, <3>2, <3>3, <3>4, SMT
      <3> QED
        BY <3>5 DEF a, b
    <2> QED
      BY <1>5, <1>k, <2>1, <2>2
  <1>10. Range(w) = Range(s) \ S
    BY <1>7, <1>8
  <1>11. \A i, j \in DOMAIN w : i < j =>
            \E k, l \in DOMAIN s : k < l /\ s[k] = w[i] /\ s[l] = w[j]
    BY <1>9
  <1> QED
    BY <1>3, <1>6, <1>10, <1>11, SMT

LEMMA WithoutOrdered ==
  ASSUME NEW T, NEW s \in Seq(T), NEW S, NEW m, Ordered(s, m)
  PROVE  Ordered(Without(s, S), m)
  <1> DEFINE w == Without(s, S)
  <1> HIDE DEF w
  <1>1. \A i, j \in DOMAIN w : i < j =>
           \E k, l \in DOMAIN s : k < l /\ s[k] = w[i] /\ s[l] = w[j]
    BY WithoutKeeps, SMT DEF w
  <1>2. ASSUME NEW i \in DOMAIN w, NEW j \in DOMAIN w, i < j
        PROVE  w[i] # w[j] /\ m[w[j]] <= m[w[i]]
    <2>1. PICK k \in DOMAIN s, l \in DOMAIN s : k < l /\ s[k] = w[i] /\ s[l] = w[j]
      BY <1>1, <1>2
    <2>2. s[k] # s[l] /\ m[s[l]] <= m[s[k]]
      BY <2>1 DEF Ordered
    <2> QED
      BY <2>1, <2>2
  <1>3. Ordered(w, m)
    BY <1>2 DEF Ordered
  <1> QED
    BY <1>3 DEF w

LEMMA ConcatFacts ==
  ASSUME NEW T, NEW r \in Seq(T), NEW s \in Seq(T)
  PROVE  /\ r \o s \in Seq(T)
         /\ Range(r \o s) = Range(r) \cup Range(s)
         /\ \A m : (/\ Ordered(r, m) /\ Ordered(s, m)
                   /\ \A x \in Range(r), y \in Range(s) : x # y /\ m[y] <= m[x])
                  => Ordered(r \o s, m)
  <1> DEFINE c == r \o s
  <1>1. /\ c \in Seq(T) /\ Len(c) = Len(r) + Len(s)
        /\ Len(r) \in Nat /\ Len(s) \in Nat
        /\ DOMAIN c = 1 .. Len(c) /\ DOMAIN r = 1 .. Len(r) /\ DOMAIN s = 1 .. Len(s)
    BY SMT
  <1>2. /\ \A i \in DOMAIN r : i \in DOMAIN c /\ c[i] = r[i]
        /\ \A i \in DOMAIN s : Len(r) + i \in DOMAIN c /\ c[Len(r) + i] = s[i]
    BY SMT
  <1>3. \A i \in DOMAIN c : \/ i \in DOMAIN r /\ c[i] = r[i]
                            \/ i - Len(r) \in DOMAIN s /\ c[i] = s[i - Len(r)]
    BY SMT
  <1> HIDE DEF c
  <1>4. Range(c) = Range(r) \cup Range(s)
    <2>1. Range(c) \subseteq Range(r) \cup Range(s)
      BY <1>3 DEF Range
    <2>2. Range(r) \cup Range(s) \subseteq Range(c)
      BY <1>2, SMT DEF Range
    <2> QED
      BY <2>1, <2>2
  <1>5. ASSUME NEW m, Ordered(r, m), Ordered(s, m),
               \A x \in Range(r), y \in Range(s) : x # y /\ m[y] <= m[x],
               NEW i \in DOMAIN c, NEW j \in DOMAIN c, i < j
        PROVE  c[i] # c[j] /\ m[c[j]] <= m[c[i]]
    <2>1. CASE i \in DOMAIN r /\ j \in DOMAIN r
      BY <1>2, <1>5, <2>1 DEF Ordered
    <2>2. CASE i \in DOMAIN r /\ j \notin DOMAIN r
      <3>1. c[i] \in Range(r)
        BY <1>2, <2>2 DEF Range
      <3>2. c[j] \in Range(s)
        BY <1>3, <2>2 DEF Range
      <3> QED
        BY <1>5, <3>1, <3>2
    <2>3. CASE i \notin DOMAIN r
      <3> DEFINE k == i - Len(r)
                 l == j - Len(r)
      <3>1. j \notin DOMAIN r /\ k < l
        BY <1>1, <1>5, <2>3, SMT
      <3>2. k \in DOMAIN s /\ l \in DOMAIN s /\ c[i] = s[k] /\ c[j] = s[l]
        BY <1>3, <2>3, <3>1
      <3> QED
        BY <1>5, <3>1, <3>2 DEF Ordered
    <2> QED
      BY <2>1, <2>2, <2>3
  <1>6. \A m : (/\ Ordered(r, m) /\ Ordered(s, m)
               /\ \A x \in Range(r), y \in Range(s) : x # y /\ m[y] <= m[x])
              => Ordered(c, m)
    BY <1>5 DEF Ordered
  <1> QED
    BY <1>1, <1>4, <1>6 DEF c

LEMMA SingleFacts ==
  ASSUME NEW T, NEW x \in T
  PROVE  /\ <<x>> \in Seq(T) /\ Range(<<x>>) = {x}
         /\ \A m : Ordered(<<x>>, m)
  <1>1. <<x>> \in Seq(T) /\ DOMAIN <<x>> = {1} /\ <<x>>[1] = x /\ ~(1 < 1)
    BY SMT
  <1> QED
    BY <1>1 DEF Range, Ordered

LEMMA BackFacts ==
  ASSUME NEW T, NEW s \in Seq(T), s # <<>>
  PROVE  /\ Back(s) \in Range(s)
         /\ \A m : (m \in [T -> Int] /\ Ordered(s, m))
                  => \A x \in Range(s) : m[Back(s)] <= m[x]
  <1>1. /\ Len(s) \in DOMAIN s
        /\ \A i \in DOMAIN s : s[i] \in T /\ (i < Len(s) \/ i = Len(s))
    BY SMT
  <1>2. Back(s) \in Range(s)
    BY <1>1 DEF Back, Range
  <1>3. ASSUME NEW m \in [T -> Int], Ordered(s, m), NEW i \in DOMAIN s
        PROVE  m[Back(s)] <= m[s[i]]
    <2>1. CASE i < Len(s)
      BY <1>1, <1>3, <2>1 DEF Ordered, Back
    <2>2. CASE i = Len(s)
      <3>1. m[s[i]] \in Int
        BY <1>1
      <3>2. m[s[i]] <= m[s[i]]
        BY <3>1, SMT
      <3> QED
        BY <2>2, <3>2 DEF Back
    <2> QED
      BY <1>1, <2>1, <2>2
  <1> QED
    BY <1>2, <1>3 DEF Range

LEMMA SameStamps ==
  ASSUME NEW s, NEW m, NEW o, Ordered(s, m), \A x \in Range(s) : o[x] = m[x]
  PROVE  Ordered(s, o)
  BY DEF Ordered, Range

(* A list that holds no element twice is as long as its set is large.      *)
LEMMA ListIsFinite ==
  ASSUME NEW T, NEW s \in Seq(T)
  PROVE  /\ IsFiniteSet(Range(s))
         /\ \A m : Ordered(s, m) => Len(s) = Cardinality(Range(s))
  <1>1. Len(s) \in Nat /\ DOMAIN s = 1 .. Len(s) /\ s \in [1 .. Len(s) -> T]
    BY SMT
  <1>2. IsFiniteSet(1 .. Len(s)) /\ Cardinality(1 .. Len(s)) = Len(s)
    BY <1>1, FS_Interval, SMTT(20)
  <1>3. s \in Surjection(1 .. Len(s), Range(s))
    BY <1>1 DEF Surjection, Range
  <1>4. ASSUME NEW m, Ordered(s, m) PROVE s \in Injection(1 .. Len(s), Range(s))
    <2>1. \A i, j \in 1 .. Len(s) : i < j \/ j < i \/ i = j
      BY <1>1, SMT
    <2> QED
      BY <1>1, <1>3, <1>4, <2>1 DEF Ordered, Injection, IsInjective, Surjection
  <1> QED
    BY <1>2, <1>3, <1>4, FS_Surjection

LEMMA OrderFacts ==
  ASSUME NEW T, NEW S \in SUBSET T, IsFiniteSet(S), NEW r \in Orders(S)
  PROVE  /\ r \in Seq(T) /\ Range(r) = S
         /\ \A m : (\A x, y \in S : m[x] <= m[y]) => Ordered(r, m)
  <1> DEFINE n == Cardinality(S)
  <1>1. n \in Nat
    BY FS_CardinalityType
  <1>2. /\ r \in [1 .. n -> S]
        /\ \A i, j \in 1 .. n : r[i] = r[j] => i = j
        /\ \A x \in S : \E i \in 1 .. n : r[i] = x
    BY DEF Orders, Bijection, Injection, IsInjective, Surjection
  <1> HIDE DEF n
  <1>3. r \in Seq(T)
    BY <1>1, <1>2, SMT
  <1>4. Range(r) = S
    BY <1>2, SMT DEF Range
  <1>5. \A i, j \in 1 .. n : i < j => i # j
    BY <1>1, SMT
  <1>6. \A m : (\A x, y \in S : m[x] <= m[y]) => Ordered(r, m)
    BY <1>2, <1>5 DEF Ordered
  <1> QED
    BY <1>3, <1>4, <1>6

(* The list operations keep lists that are ordered by time ordered.        *)
LEMMA ListFactsHold == ListFacts
  <1> SUFFICES ASSUME NEW T, NEW s \in Seq(T)
               PROVE  ListFacts!(T)!(s)
    BY DEF ListFacts
  <1>1. \A S : /\ Without(s, S) \in Seq(T)
              /\ Range(Without(s, S)) = Range(s) \ S
              /\ \A m : Ordered(s, m) => Ordered(Without(s, S), m)
    BY WithoutKeeps, WithoutOrdered
  <1>2. \A S \in SUBSET Range(s) : \A r \in Orders(S) :
           /\ r \in Seq(T) /\ Range(r) = S
           /\ \A m : (\A x, y \in S : m[x] <= m[y]) => Ordered(r, m)
    <2>1. Range(s) \subseteq T
      BY SMT DEF Range
    <2>2. \A S \in SUBSET Range(s) : S \in SUBSET T /\ IsFiniteSet(S)
      BY <2>1, ListIsFinite, FS_Subset
    <2> QED
      BY <2>2, OrderFacts
  <1> QED
    BY <1>1, <1>2, ConcatFacts, SingleFacts, BackFacts, SameStamps, ListIsFinite
=============================================================================
