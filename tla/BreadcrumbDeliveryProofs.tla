------------------------ MODULE BreadcrumbDeliveryProofs ------------------------
(***************************************************************************)
(* Proofs about BreadcrumbDelivery for any breadcrumbs, channel capacity   *)
(* and number of dropped requests and failed calls.                        *)
(***************************************************************************)
EXTENDS BreadcrumbDelivery, FiniteSetTheorems, TLAPS

(* Leaves are first-order unless they say SMT, which does arithmetic.      *)
USE ZenonT(40)

Traces == {c[1] : c \in Crumbs}
Ids(entries) == {e[1] : e \in entries}
Named(r) == {x[2] : x \in r.crumbs}        \* the numbers that request r uses
Open == pending \cup Range(incoming)       \* the requests still to be processed

Requests == [call : 1 .. MaxCalls, addresses : SUBSET (Nat \X Addrs), crumbs : SUBSET (Traces \X Nat)]

TypeInv ==
  /\ added \subseteq Crumbs
  /\ channel \in Seq(Crumbs) /\ Range(channel) \subseteq added
  /\ table \subseteq Nat \X Addrs
  /\ seed \in Nat /\ \A e \in table : e[1] < seed
  /\ pc \in {"collect", "waiting"} /\ session \in Nat \ {0}
  /\ pending \subseteq Requests /\ incoming \in Seq(Requests)
  /\ answers \in [1 .. MaxCalls -> {"none", "ok", "error"}]
  /\ known \subseteq Nat \X Addrs /\ drops \in Nat

\* a call takes a breadcrumb at least, so there are at most MaxCalls; every
\* request has a call of its own, and a call not made yet has no answer
CallsInv ==
  /\ calls \in Nat
  /\ calls + (IF channel = <<>> THEN 0 ELSE 1) <= Cardinality(added)
  /\ \A r \in Open : r.call <= calls
  /\ \A r, s \in Open : r.call = s.call => r = s
  /\ \A n \in 1 .. MaxCalls : n > calls => answers[n] = "none"

\* the coordinator has the numbers of the agent's table, but for those that
\* the request under way carries
NumbersKnown ==
  \/ Ids(table) \subseteq Ids(known)
  \/ /\ pc = "waiting" /\ answers[calls] = "none"
     /\ \E r \in Open : r.call = calls /\ Ids(table) \subseteq Ids(known) \cup Ids(r.addresses)

NoDropInv ==
  drops = 0 =>
    /\ \A n \in 1 .. MaxCalls : answers[n] # "error"
    /\ \A r \in Open : Named(r) \subseteq Ids(known) \cup Ids(r.addresses)
    /\ NumbersKnown

\* in the first session the tables agree, and a request means what was added
FirstInv ==
  session = 1 =>
    /\ \A e, f \in table : e[1] = f[1] => e = f
    /\ known \subseteq table
    /\ \A r \in Open : r.addresses \subseteq table
    /\ \A r \in Open : \A x \in r.crumbs : \E e \in table : e[1] = x[2] /\ <<x[1], e[2]>> \in added
    /\ decoded \subseteq added

IndInv == TypeInv /\ CallsInv /\ NoDropInv /\ FirstInv

-----------------------------------------------------------------------------
(* An order of the new addresses is an enumeration of them.                *)
LEMMA OrderCovers ==
  ASSUME NEW S, IsFiniteSet(S), NEW order \in Orders(S)
  PROVE  /\ Cardinality(S) \in Nat /\ Len(order) = Cardinality(S)
         /\ DOMAIN order = 1 .. Cardinality(S)
         /\ \A i \in 1 .. Cardinality(S) : order[i] \in S
         /\ \A a \in S : \E i \in 1 .. Cardinality(S) : order[i] = a
  <1> DEFINE n == Cardinality(S)
  <1>1. n \in Nat
    BY FS_CardinalityType
  <1>2. order \in [1 .. n -> S] /\ \A a \in S : \E i \in 1 .. n : order[i] = a
    BY DEF Orders, Bijection, Surjection
  <1>3. Len(order) = n
    BY <1>1, <1>2, SMT
  <1> QED
    BY <1>1, <1>2, <1>3

LEMMA AddrsFinite == IsFiniteSet(Addrs)
  <1> DEFINE f == [c \in Crumbs |-> c[2]]
  <1>1. f \in Surjection(Crumbs, Addrs)
    BY DEF Addrs, Surjection
  <1> QED
    BY <1>1, FS_Surjection, DeliveryAssumption

LEMMA MaxCallsNat == MaxCalls \in Nat
  BY DeliveryAssumption, FS_CardinalityType DEF MaxCalls

(* What ReportBreadcrumbs does to the table: the new entries have fresh    *)
(* numbers, and every address of the batch has an entry.                   *)
LEMMA ReportNumbers ==
  ASSUME TypeInv,
         NEW order \in Orders({c[2] : c \in Range(channel)} \ {e[2] : e \in table})
  PROVE  /\ Len(order) \in Nat
         /\ Entries(order) \subseteq Nat \X Addrs
         /\ \A e \in Entries(order) : seed <= e[1] /\ e[1] < seed + Len(order)
         /\ \A e, f \in Entries(order) : e[1] = f[1] => e = f
         /\ \A c \in Range(channel) : \E e \in table \cup Entries(order) : e[2] = c[2]
  <1> DEFINE new == {c[2] : c \in Range(channel)} \ {e[2] : e \in table}
  <1>1. new \in SUBSET Addrs
    BY DEF Addrs, TypeInv
  <1>2. IsFiniteSet(new)
    BY <1>1, AddrsFinite, FS_Subset
  <1> DEFINE n == Cardinality(new)
  <1>3. /\ n \in Nat /\ Len(order) = n /\ DOMAIN order = 1 .. n
        /\ \A i \in 1 .. n : order[i] \in new
        /\ \A a \in new : \E i \in 1 .. n : order[i] = a
    <2> HIDE DEF new
    <2>1. order \in Orders(new)
      BY DEF new
    <2> QED
      BY <1>2, <2>1, OrderCovers, SMT
  <1>4. seed \in Nat
    BY DEF TypeInv
  <1>5. \A e \in Entries(order) : \E i \in 1 .. n : e = <<seed + i - 1, order[i]>>
    BY <1>3 DEF Entries
  <1>6. \A i \in 1 .. n : <<seed + i - 1, order[i]>> \in Entries(order)
    BY <1>3 DEF Entries
  <1>7. \A c \in Range(channel) : \E e \in table \cup Entries(order) : e[2] = c[2]
    <2> SUFFICES ASSUME NEW c \in Range(channel) PROVE \E e \in table \cup Entries(order) : e[2] = c[2]
      OBVIOUS
    <2>1. CASE c[2] \in {e[2] : e \in table}
      <3>1. PICK e \in table : e[2] = c[2]
        BY <2>1
      <3> QED
        BY <3>1
    <2>2. CASE c[2] \notin {e[2] : e \in table}
      <3>1. PICK i \in 1 .. n : order[i] = c[2]
        <4>1. c[2] \in new
          BY <2>2
        <4> QED
          BY <1>3, <4>1
      <3>2. <<seed + i - 1, order[i]>>[2] = c[2]
        BY <3>1
      <3> QED
        BY <1>6, <3>2
    <2> QED
      BY <2>1, <2>2
  <1> HIDE DEF n, new
  <1>8. Entries(order) \subseteq Nat \X Addrs
    BY <1>1, <1>3, <1>4, <1>5, SMT
  <1>9. \A e \in Entries(order) : seed <= e[1] /\ e[1] < seed + Len(order)
    BY <1>3, <1>4, <1>5, SMT
  <1>10. \A e, f \in Entries(order) : e[1] = f[1] => e = f
    <2> SUFFICES ASSUME NEW e \in Entries(order), NEW f \in Entries(order), e[1] = f[1]
                 PROVE  e = f
      OBVIOUS
    <2>1. PICK i \in 1 .. n : e = <<seed + i - 1, order[i]>>
      BY <1>5
    <2>2. PICK j \in 1 .. n : f = <<seed + j - 1, order[j]>>
      BY <1>5
    <2>3. i = j
      BY <1>3, <1>4, <2>1, <2>2, SMT
    <2> QED
      BY <2>1, <2>2, <2>3
  <1> QED
    BY <1>3, <1>7, <1>8, <1>9, <1>10

(* The number of an address in a table is that of an entry for it.         *)
LEMMA NumberIsEntry ==
  ASSUME NEW entries \in SUBSET (Nat \X Addrs), NEW a, \E e \in entries : e[2] = a
  PROVE  <<Number(entries, a), a>> \in entries
  <1> DEFINE e == CHOOSE x \in entries : x[2] = a
  <1>1. e \in entries /\ e[2] = a
    OBVIOUS
  <1>2. e = <<e[1], e[2]>>
    BY <1>1, SMT
  <1> QED
    BY <1>1, <1>2 DEF Number

(* Learning keeps the numbers that are known.                              *)
LEMMA LearnIds ==
  ASSUME NEW A PROVE Ids(Learn(A)) = Ids(known) \cup Ids(A)
  <1>1. \A n \in Ids(known) : n \in Ids(Learn(A))
    <2> SUFFICES ASSUME NEW e \in known PROVE e[1] \in Ids(Learn(A))
      BY DEF Ids
    <2>1. CASE \E x \in A : x[1] = e[1]
      BY <2>1 DEF Learn, Ids
    <2>2. CASE ~ \E x \in A : x[1] = e[1]
      BY <2>2 DEF Learn, Ids
    <2> QED
      BY <2>1, <2>2
  <1> QED
    BY <1>1 DEF Learn, Ids

(* Taking the first request from the queue.                                *)
LEMMA TakeFirst ==
  ASSUME incoming \in Seq(Requests), incoming # <<>>
  PROVE  /\ Head(incoming) \in Requests /\ Tail(incoming) \in Seq(Requests)
         /\ Range(incoming) = {Head(incoming)} \cup Range(Tail(incoming))
  <1>1. /\ Head(incoming) = incoming[1] /\ 1 \in DOMAIN incoming
        /\ Head(incoming) \in Requests /\ Tail(incoming) \in Seq(Requests)
    BY SMT
  <1>2. \A i \in DOMAIN incoming : i # 1 => i - 1 \in DOMAIN Tail(incoming) /\ incoming[i] = Tail(incoming)[i - 1]
    BY SMT
  <1>3. \A i \in DOMAIN Tail(incoming) : i + 1 \in DOMAIN incoming /\ incoming[i + 1] = Tail(incoming)[i]
    BY SMT
  <1> DEFINE h == Head(incoming)
             s == Tail(incoming)
  <1> HIDE DEF h, s
  <1>4. Range(incoming) \subseteq {h} \cup Range(s)
    BY <1>1, <1>2 DEF Range, h, s
  <1>5. {h} \cup Range(s) \subseteq Range(incoming)
    BY <1>1, <1>3, SMT DEF Range, h, s
  <1> QED
    BY <1>1, <1>4, <1>5 DEF h, s

LEMMA PutLast ==
  ASSUME NEW S, NEW s \in Seq(S), NEW x \in S
  PROVE  /\ Append(s, x) \in Seq(S) /\ Append(s, x) # <<>>
         /\ Range(Append(s, x)) = Range(s) \cup {x}
  <1>1. /\ Append(s, x) \in Seq(S) /\ Append(s, x) # <<>>
        /\ Len(s) + 1 \in DOMAIN Append(s, x) /\ Append(s, x)[Len(s) + 1] = x
    BY SMT
  <1>2. \A i \in DOMAIN s : i \in DOMAIN Append(s, x) /\ Append(s, x)[i] = s[i]
    BY SMT
  <1>3. \A i \in DOMAIN Append(s, x) : i = Len(s) + 1 \/ i \in DOMAIN s
    BY SMT
  <1> QED
    BY <1>1, <1>2, <1>3 DEF Range

LEMMA OpenRequests ==
  ASSUME TypeInv PROVE \A r \in Open : r \in Requests /\ r.call \in 1 .. MaxCalls
  <1>1. \A i \in DOMAIN incoming : incoming[i] \in Requests
    BY SMT DEF TypeInv
  <1>2. \A r \in Open : r \in Requests
    BY <1>1 DEF TypeInv, Open, Range
  <1> QED
    BY <1>2 DEF Requests

LEMMA AnswerIs ==
  ASSUME answers \in [1 .. MaxCalls -> {"none", "ok", "error"}],
         NEW n \in 1 .. MaxCalls, NEW v \in {"ok", "error"},
         answers' = [answers EXCEPT ![n] = v]
  PROVE  /\ answers' \in [1 .. MaxCalls -> {"none", "ok", "error"}]
         /\ answers'[n] = v
         /\ \A m \in 1 .. MaxCalls : m # n => answers'[m] = answers[m]
  OBVIOUS

-----------------------------------------------------------------------------
LEMMA InitIndInv == Init => IndInv
  <1> SUFFICES ASSUME Init PROVE IndInv
    OBVIOUS
  <1>1. Range(<<>>) = {}
    BY SMT DEF Range
  <1>2. Open = {} /\ Range(channel) = {}
    BY <1>1 DEF Open, Init
  <1>3. TypeInv
    BY <1>2, SMT DEF Init, TypeInv
  <1>4. CallsInv
    <2>1. Cardinality(added) = 0
      BY FS_EmptySet DEF Init
    <2> QED
      BY <1>2, <2>1, SMT DEF Init, CallsInv
  <1>5. NoDropInv
    <2>1. answers \in [1 .. MaxCalls -> {"none"}] /\ table = {}
      BY DEF Init
    <2> QED
      BY <1>2, <2>1 DEF NoDropInv, NumbersKnown, Ids
  <1>6. FirstInv
    BY <1>2 DEF Init, FirstInv
  <1> QED
    BY <1>3, <1>4, <1>5, <1>6 DEF IndInv

(* Requests and calls that only become fewer.                              *)
LEMMA CallsStay ==
  ASSUME CallsInv, Open' \subseteq Open, UNCHANGED <<added, channel, calls>>,
         \A n \in 1 .. MaxCalls : n > calls => answers'[n] = answers[n]
  PROVE  CallsInv'
  BY DEF CallsInv

LEMMA FirstStays ==
  ASSUME FirstInv, Open' \subseteq Open, UNCHANGED <<added, table, known, decoded, session>>
  PROVE  FirstInv'
  BY DEF FirstInv

(* A new session is not the first one.                                     *)
LEMMA NotFirst ==
  ASSUME session \in Nat \ {0}, session' = session + 1
  PROVE  session' \in Nat \ {0} /\ FirstInv'
  BY SMT DEF FirstInv

(* A breadcrumb is put on the channel.                                     *)
LEMMA AddKeeps ==
  ASSUME IndInv, NEW c \in Crumbs, AddBreadcrumbs(c) PROVE IndInv'
  <1>u. UNCHANGED <<table, seed, pc, calls, session, pending, incoming, answers, known,
                    decoded, drops>>
    BY DEF AddBreadcrumbs, serverVars
  <1>o. Open' = Open
    BY <1>u DEF Open
  <1>1. /\ channel' = Append(channel, c) /\ added' = added \cup {c} /\ c \notin added
        /\ channel \in Seq(Crumbs) /\ added \in SUBSET Crumbs
    BY DEF AddBreadcrumbs, IndInv, TypeInv
  <1>2. /\ channel' \in Seq(Crumbs) /\ channel' # <<>>
        /\ Range(channel') = Range(channel) \cup {c}
    BY <1>1, PutLast
  <1>3. TypeInv'
    BY <1>u, <1>1, <1>2 DEF IndInv, TypeInv
  <1>4. CallsInv'
    <2>1. IsFiniteSet(added)
      BY <1>1, DeliveryAssumption, FS_Subset
    <2>2. Cardinality(added) \in Nat /\ Cardinality(added') = Cardinality(added) + 1
      BY <1>1, <2>1, FS_AddElement, FS_CardinalityType
    <2>3. calls \in Nat /\ calls + 1 <= Cardinality(added')
      BY <2>2, SMT DEF IndInv, CallsInv
    <2> QED
      BY <1>u, <1>o, <1>2, <2>3 DEF IndInv, CallsInv
  <1>5. NoDropInv'
    BY <1>u, <1>o DEF IndInv, NoDropInv, NumbersKnown
  <1>6. FirstInv'
    <2>1. added \subseteq added'
      BY <1>1
    <2>2. \A x, y : <<x, y>> \in added => <<x, y>> \in added'
      BY <2>1
    <2> QED
      BY <1>u, <1>o, <2>1, <2>2, SMT DEF IndInv, FirstInv
  <1> QED
    BY <1>3, <1>4, <1>5, <1>6 DEF IndInv

(* The agent reads the answer to its call.                                 *)
LEMMA AnsweredKeeps == ASSUME IndInv, Answered PROVE IndInv'
  <1>u. UNCHANGED <<added, channel, calls, pending, incoming, answers, known, decoded, drops>>
    BY DEF Answered, serverVars
  <1>o. Open' = Open
    BY <1>u DEF Open
  <1>1. CallsInv'
    BY <1>u, <1>o, CallsStay DEF IndInv
  <1>2. CASE UNCHANGED <<table, seed, session>> /\ pc' = "collect" /\ answers[calls] = "ok"
    <2>1. TypeInv'
      BY <1>u, <1>2 DEF IndInv, TypeInv
    <2>2. FirstInv'
      BY <1>u, <1>o, <1>2, FirstStays DEF IndInv
    <2>3. NoDropInv'
      <3>1. answers[calls] # "none"
        BY <1>2
      <3> QED
        BY <1>u, <1>o, <1>2, <3>1 DEF IndInv, NoDropInv, NumbersKnown
    <2> QED
      BY <1>1, <2>1, <2>2, <2>3 DEF IndInv
  <1>3. CASE NextSession
    <2>1. session' \in Nat \ {0} /\ FirstInv'
      BY <1>3, NotFirst DEF IndInv, TypeInv, NextSession
    <2>2. TypeInv'
      BY <1>u, <1>3, <2>1, SMT DEF IndInv, TypeInv, NextSession
    <2>3. Ids(table') = {}
      BY <1>3 DEF Ids, NextSession
    <2>4. NoDropInv'
      BY <1>u, <1>o, <2>3 DEF IndInv, NoDropInv, NumbersKnown
    <2> QED
      BY <1>1, <2>1, <2>2, <2>4 DEF IndInv
  <1> QED
    BY <1>2, <1>3 DEF Answered

(* A call that fails begins a new session, with an empty table.            *)
LEMMA CallFailsKeeps == ASSUME IndInv, CallFails PROVE IndInv'
  <1>u. UNCHANGED <<added, channel, calls, incoming, answers, known, decoded, drops>>
    BY DEF CallFails
  <1>p. pending' \subseteq pending
    BY DEF CallFails
  <1>o. Open' \subseteq Open
    BY <1>u, <1>p DEF Open
  <1>1. CallsInv'
    BY <1>u, <1>o, CallsStay DEF IndInv
  <1>3. NextSession
    BY DEF CallFails
  <1>4. session' \in Nat \ {0} /\ FirstInv'
    BY <1>3, NotFirst DEF IndInv, TypeInv, NextSession
  <1>5. TypeInv'
    BY <1>u, <1>p, <1>3, <1>4, SMT DEF IndInv, TypeInv, NextSession
  <1>6. Ids(table') = {}
    BY <1>3 DEF Ids, NextSession
  <1>7. NoDropInv'
    BY <1>u, <1>o, <1>6 DEF IndInv, NoDropInv, NumbersKnown
  <1> QED
    BY <1>1, <1>4, <1>5, <1>7 DEF IndInv

(* A request enters the coordinator's queue.                               *)
LEMMA QueuedKeeps ==
  ASSUME IndInv, NEW r \in pending, Breadcrumbs(r) PROVE IndInv'
  <1>u. UNCHANGED <<added, channel, table, seed, pc, calls, session, answers, known, decoded, drops>>
    BY DEF Breadcrumbs, agentVars
  <1>1. r \in Requests /\ incoming \in Seq(Requests) /\ incoming' = Append(incoming, r)
    BY DEF IndInv, TypeInv, Breadcrumbs
  <1>2. incoming' \in Seq(Requests) /\ Range(incoming') = Range(incoming) \cup {r}
    <2>1. /\ Append(incoming, r) \in Seq(Requests)
          /\ Range(Append(incoming, r)) = Range(incoming) \cup {r}
      BY <1>1, PutLast, SMT
    <2> QED
      BY <1>1, <2>1
  <1>o. Open' = Open
    BY <1>2, SMT DEF Open, Breadcrumbs
  <1>3. TypeInv'
    BY <1>u, <1>2 DEF IndInv, TypeInv, Breadcrumbs
  <1>4. CallsInv'
    BY <1>u, <1>o, CallsStay DEF IndInv
  <1>5. FirstInv'
    BY <1>u, <1>o, FirstStays DEF IndInv
  <1>6. NoDropInv'
    BY <1>u, <1>o DEF IndInv, NoDropInv, NumbersKnown
  <1> QED
    BY <1>3, <1>4, <1>5, <1>6 DEF IndInv

(* A request that is dropped is answered; what it leaves behind matters    *)
(* only as long as nothing was dropped.                                    *)
LEMMA DroppedKeeps ==
  ASSUME IndInv, NEW r \in pending, BreadcrumbsDropped(r) PROVE IndInv'
  <1>u. UNCHANGED <<added, channel, table, seed, pc, calls, session, incoming, known, decoded>>
    BY DEF BreadcrumbsDropped, agentVars
  <1>o. Open' \subseteq Open /\ r \in Open
    BY <1>u DEF BreadcrumbsDropped, Open
  <1>1. /\ answers \in [1 .. MaxCalls -> {"none", "ok", "error"}]
        /\ answers' = [answers EXCEPT ![r.call] = "ok"]
        /\ drops' = drops + 1 /\ drops \in Nat /\ pending' \subseteq pending
    BY DEF BreadcrumbsDropped, IndInv, TypeInv
  <1>c. r.call \in 1 .. MaxCalls
    BY <1>o, OpenRequests DEF IndInv
  <1>a. /\ answers' \in [1 .. MaxCalls -> {"none", "ok", "error"}]
        /\ \A n \in 1 .. MaxCalls : n # r.call => answers'[n] = answers[n]
    BY <1>1, <1>c, AnswerIs
  <1>2. TypeInv'
    <2>1. drops' \in Nat
      BY <1>1, SMT
    <2> QED
      BY <1>u, <1>1, <1>a, <2>1 DEF IndInv, TypeInv
  <1>3. CallsInv'
    <2>1. r.call <= calls /\ calls \in Nat /\ MaxCalls \in Nat
      BY <1>o, MaxCallsNat DEF IndInv, CallsInv
    <2>2. \A n \in 1 .. MaxCalls : n > calls => answers'[n] = answers[n]
      BY <1>a, <1>c, <2>1, SMT
    <2> QED
      BY <1>u, <1>o, <2>2, CallsStay DEF IndInv
  <1>4. FirstInv'
    BY <1>u, <1>o, FirstStays DEF IndInv
  <1>5. drops' # 0
    BY <1>1, SMT
  <1> QED
    BY <1>2, <1>3, <1>4, <1>5 DEF IndInv, NoDropInv

(* The coordinator processes a request: it learns the addresses and        *)
(* unravels the breadcrumbs, or refuses them.                              *)
LEMMA ProcessKeeps == ASSUME IndInv, ProcessBreadcrumbRequest PROVE IndInv'
  <1> DEFINE r == Head(incoming)
  <1>u. UNCHANGED <<added, channel, table, seed, pc, calls, session, pending, drops>>
    BY DEF ProcessBreadcrumbRequest, agentVars
  <1>i. incoming \in Seq(Requests) /\ incoming # <<>> /\ incoming' = Tail(incoming)
    BY DEF ProcessBreadcrumbRequest, IndInv, TypeInv
  <1>h. /\ r \in Requests /\ incoming' \in Seq(Requests)
        /\ Range(incoming) = {r} \cup Range(incoming')
    BY <1>i, TakeFirst
  <1>k. known' = Learn(r.addresses)
    BY DEF ProcessBreadcrumbRequest
  <1>m. /\ Mapped(r, known') => /\ decoded' = decoded \cup Unravel(r, known')
                                /\ answers' = [answers EXCEPT ![r.call] = "ok"]
        /\ ~Mapped(r, known') => /\ decoded' = decoded
                                 /\ answers' = [answers EXCEPT ![r.call] = "error"]
    BY DEF ProcessBreadcrumbRequest
  <1> HIDE DEF r
  <1>r. /\ r.call \in 1 .. MaxCalls
        /\ r.addresses \in SUBSET (Nat \X Addrs) /\ r.crumbs \in SUBSET (Traces \X Nat)
    BY <1>h DEF Requests
  <1>o. Open' \subseteq Open /\ r \in Open /\ Open \subseteq {r} \cup Open'
    BY <1>u, <1>h, SMT DEF Open
  <1>a. /\ answers' \in [1 .. MaxCalls -> {"none", "ok", "error"}]
        /\ answers'[r.call] \in {"ok", "error"}
        /\ answers'[r.call] = "error" => ~Mapped(r, known')
        /\ \A n \in 1 .. MaxCalls : n # r.call => answers'[n] = answers[n]
    <2>1. answers \in [1 .. MaxCalls -> {"none", "ok", "error"}]
      BY DEF IndInv, TypeInv
    <2>2. CASE Mapped(r, known')
      BY <1>m, <1>r, <2>1, <2>2, AnswerIs
    <2>3. CASE ~Mapped(r, known')
      BY <1>m, <1>r, <2>1, <2>3, AnswerIs
    <2> QED
      BY <2>2, <2>3
  <1>1. TypeInv'
    <2>1. known' \subseteq Nat \X Addrs
      BY <1>k, <1>r, SMT DEF Learn, IndInv, TypeInv
    <2> QED
      BY <1>u, <1>h, <1>a, <2>1 DEF IndInv, TypeInv
  <1>2. CallsInv'
    <2>1. r.call <= calls /\ calls \in Nat /\ MaxCalls \in Nat
      BY <1>o, MaxCallsNat DEF IndInv, CallsInv
    <2>2. \A n \in 1 .. MaxCalls : n > calls => answers'[n] = answers[n]
      BY <1>a, <1>r, <2>1, SMT
    <2> QED
      BY <1>u, <1>o, <2>2, CallsStay DEF IndInv
  <1>3. FirstInv'
    <2> SUFFICES ASSUME session = 1 PROVE FirstInv'
      BY <1>u DEF FirstInv
    <2>f. /\ \A e, f \in table : e[1] = f[1] => e = f
          /\ known \subseteq table
          /\ r.addresses \subseteq table
          /\ \A x \in r.crumbs : \E e \in table : e[1] = x[2] /\ <<x[1], e[2]>> \in added
          /\ decoded \subseteq added
      BY <1>o DEF IndInv, FirstInv
    <2>1. known' \subseteq table
      BY <1>k, <2>f DEF Learn
    <2>2. Unravel(r, known') \subseteq added
      <3> SUFFICES ASSUME NEW c \in r.crumbs, NEW e \in known', c[2] = e[1]
                   PROVE  <<c[1], e[2]>> \in added
        BY SMT DEF Unravel
      <3>1. PICK f \in table : f[1] = c[2] /\ <<c[1], f[2]>> \in added
        BY <2>f
      <3>2. e = f
        BY <2>1, <2>f, <3>1
      <3> QED
        BY <3>1, <3>2
    <2>3. decoded' \subseteq added
      BY <1>m, <2>2, <2>f
    <2> QED
      BY <1>u, <1>o, <2>1, <2>3 DEF IndInv, FirstInv
  <1>4. NoDropInv'
    <2> SUFFICES ASSUME drops = 0 PROVE NoDropInv'
      BY <1>u DEF NoDropInv
    <2>n. /\ \A n \in 1 .. MaxCalls : answers[n] # "error"
          /\ \A s \in Open : Named(s) \subseteq Ids(known) \cup Ids(s.addresses)
          /\ NumbersKnown
      BY DEF IndInv, NoDropInv
    <2>1. Ids(known') = Ids(known) \cup Ids(r.addresses)
      BY <1>k, LearnIds
    <2>2. Named(r) \subseteq Ids(known')
      BY <1>o, <2>1, <2>n
    <2>3. Mapped(r, known')
      BY <2>2 DEF Mapped, Named, Ids
    <2>4. \A n \in 1 .. MaxCalls : answers'[n] # "error"
      BY <1>a, <2>3, <2>n
    <2>5. \A s \in Open' : Named(s) \subseteq Ids(known') \cup Ids(s.addresses)
      BY <1>o, <2>1, <2>n
    <2>6. CASE Ids(table) \subseteq Ids(known)
      BY <1>u, <2>1, <2>4, <2>5, <2>6 DEF NoDropInv, NumbersKnown
    <2>7. CASE /\ pc = "waiting" /\ answers[calls] = "none"
               /\ \E s \in Open : s.call = calls /\ Ids(table) \subseteq Ids(known) \cup Ids(s.addresses)
      <3>1. PICK s \in Open : s.call = calls /\ Ids(table) \subseteq Ids(known) \cup Ids(s.addresses)
        BY <2>7
      <3>2. CASE s = r
        BY <1>u, <2>1, <2>4, <2>5, <3>1, <3>2 DEF NoDropInv, NumbersKnown
      <3>3. CASE s # r
        <4>1. s \in Open' /\ s.call # r.call
          BY <1>o, <3>3 DEF IndInv, CallsInv
        <4>2. s.call \in 1 .. MaxCalls
          BY OpenRequests DEF IndInv
        <4>3. answers'[calls] = "none"
          BY <1>a, <2>7, <3>1, <4>1, <4>2
        <4>4. Ids(table) \subseteq Ids(known') \cup Ids(s.addresses)
          BY <2>1, <3>1
        <4>5. NumbersKnown'
          BY <1>u, <2>7, <3>1, <4>1, <4>3, <4>4 DEF NumbersKnown
        <4> QED
          BY <2>4, <2>5, <4>5 DEF NoDropInv
      <3> QED
        BY <3>2, <3>3
    <2> QED
      BY <2>6, <2>7, <2>n DEF NumbersKnown
  <1> QED
    BY <1>1, <1>2, <1>3, <1>4 DEF IndInv

(* A request is made of the batch: it carries the addresses that get a     *)
(* number now, and its breadcrumbs refer to the table.                     *)
LEMMA ReportKeeps == ASSUME IndInv, ReportBreadcrumbs PROVE IndInv'
  <1> DEFINE batch == Range(channel)
             new == {c[2] : c \in batch} \ {e[2] : e \in table}
  <1>u. UNCHANGED <<added, session, incoming, answers, known, decoded, drops>>
    BY DEF ReportBreadcrumbs
  <1>v. channel # <<>> /\ channel' = <<>> /\ calls' = calls + 1 /\ pc' = "waiting"
    BY DEF ReportBreadcrumbs
  <1>b. batch \in SUBSET Crumbs /\ batch \subseteq added
    BY DEF IndInv, TypeInv
  <1>1. PICK order \in Orders(new) :
           /\ table' = table \cup Entries(order)
           /\ seed' = seed + Len(order)
           /\ pending' = pending \cup
                {[call |-> calls + 1, addresses |-> Entries(order),
                  crumbs |-> {<<c[1], Number(table', c[2])>> : c \in batch}]}
    BY DEF ReportBreadcrumbs
  <1> DEFINE A == Entries(order)
             C == {<<c[1], Number(table', c[2])>> : c \in batch}
             r == [call |-> calls + 1, addresses |-> A, crumbs |-> C]
  <1>2. /\ Len(order) \in Nat
        /\ A \subseteq Nat \X Addrs
        /\ \A e \in A : seed <= e[1] /\ e[1] < seed + Len(order)
        /\ \A e, f \in A : e[1] = f[1] => e = f
        /\ \A c \in batch : \E e \in table \cup A : e[2] = c[2]
    BY ReportNumbers DEF IndInv
  <1>t. table' = table \cup A /\ seed' = seed + Len(order) /\ pending' = pending \cup {r}
    BY <1>1
  <1>s. seed \in Nat /\ table \in SUBSET (Nat \X Addrs) /\ \A e \in table : e[1] < seed
    BY DEF IndInv, TypeInv
  <1> HIDE DEF A
  <1>3. table' \in SUBSET (Nat \X Addrs)
    BY <1>2, <1>t, <1>s
  <1>4. \A c \in batch : <<Number(table', c[2]), c[2]>> \in table'
    BY <1>2, <1>3, <1>t, NumberIsEntry
  <1>5. \A x \in C : \E c \in batch : x = <<c[1], Number(table', c[2])>>
    OBVIOUS
  <1>6. C \in SUBSET (Traces \X Nat)
    <2> SUFFICES ASSUME NEW c \in batch PROVE c[1] \in Traces /\ Number(table', c[2]) \in Nat
      BY <1>5, SMT
    <2>1. <<Number(table', c[2]), c[2]>> \in Nat \X Addrs
      BY <1>3, <1>4
    <2> QED
      BY <1>b, <2>1 DEF Traces
  <1>c. calls \in Nat /\ MaxCalls \in Nat /\ calls + 1 \in 1 .. MaxCalls /\ calls + 1 <= Cardinality(added)
    <2>1. Cardinality(added) <= MaxCalls /\ Cardinality(added) \in Nat
      BY DeliveryAssumption, FS_Subset, FS_CardinalityType DEF MaxCalls, IndInv, TypeInv
    <2>2. calls \in Nat /\ calls + 1 <= Cardinality(added)
      BY <1>v DEF IndInv, CallsInv
    <2> QED
      BY <2>1, <2>2, MaxCallsNat, SMT
  <1> HIDE DEF C
  <1>7. r \in Requests /\ r.call = calls + 1 /\ r.addresses = A /\ r.crumbs = C
    BY <1>2, <1>6, <1>c DEF Requests
  <1> HIDE DEF r
  <1>o. Open' = Open \cup {r}
    BY <1>u, <1>t, SMT DEF Open
  <1>8. TypeInv'
    <2>1. seed' \in Nat /\ \A e \in table' : e[1] < seed'
      BY <1>2, <1>3, <1>t, <1>s, SMT
    <2>2. pending' \subseteq Requests
      BY <1>t, <1>7 DEF IndInv, TypeInv
    <2>3. channel' \in Seq(Crumbs) /\ Range(channel') = {}
      BY <1>v, SMT DEF Range
    <2> QED
      BY <1>u, <1>v, <1>3, <2>1, <2>2, <2>3 DEF IndInv, TypeInv
  <1>9. CallsInv'
    <2>1. \A s \in Open : s.call <= calls /\ s.call \in 1 .. MaxCalls
      BY OpenRequests DEF IndInv, CallsInv
    <2>2. \A s \in Open : s.call <= calls' /\ s.call # calls'
      BY <1>v, <1>c, <2>1, SMT
    <2>3. calls' \in Nat /\ calls' <= calls' /\ calls' + 0 <= Cardinality(added')
      BY <1>u, <1>v, <1>c, SMT
    <2>4. \A n \in 1 .. MaxCalls : n > calls' => n > calls
      BY <1>v, <1>c, SMT
    <2>5. \A s \in Open' : s.call <= calls'
      BY <1>o, <1>v, <1>7, <2>2, <2>3
    <2>6. \A s, q \in Open' : s.call = q.call => s = q
      <3>1. \A s, q \in Open : s.call = q.call => s = q
        BY DEF IndInv, CallsInv
      <3> QED
        BY <1>o, <1>v, <1>7, <2>2, <3>1
    <2>7. \A n \in 1 .. MaxCalls : n > calls' => answers'[n] = "none"
      BY <1>u, <2>4 DEF IndInv, CallsInv
    <2> QED
      BY <1>v, <2>3, <2>5, <2>6, <2>7 DEF CallsInv
  <1>10. NoDropInv'
    <2> SUFFICES ASSUME drops = 0 PROVE NoDropInv'
      BY <1>u DEF NoDropInv
    <2>n. /\ \A n \in 1 .. MaxCalls : answers[n] # "error"
          /\ \A s \in Open : Named(s) \subseteq Ids(known) \cup Ids(s.addresses)
          /\ Ids(table) \subseteq Ids(known)
      <3>1. pc = "collect"
        BY DEF ReportBreadcrumbs
      <3> QED
        BY <3>1 DEF IndInv, NoDropInv, NumbersKnown
    <2>1. Ids(table') = Ids(table) \cup Ids(A)
      BY <1>t DEF Ids
    <2>2. Named(r) \subseteq Ids(table')
      <3> SUFFICES ASSUME NEW x \in C PROVE x[2] \in Ids(table')
        BY <1>7 DEF Named
      <3>1. PICK c \in batch : x = <<c[1], Number(table', c[2])>>
        BY <1>5
      <3>2. <<Number(table', c[2]), c[2]>>[1] = x[2]
        BY <3>1
      <3> QED
        BY <1>4, <3>2 DEF Ids
    <2>3. \A s \in Open' : Named(s) \subseteq Ids(known') \cup Ids(s.addresses)
      BY <1>u, <1>o, <1>7, <2>n, <2>1, <2>2
    <2>4. answers'[calls'] = "none"
      <3>1. calls' \in 1 .. MaxCalls /\ calls' > calls
        BY <1>v, <1>c, SMT
      <3> QED
        BY <1>u, <3>1 DEF IndInv, CallsInv
    <2>5. r \in Open' /\ r.call = calls' /\ Ids(table') \subseteq Ids(known') \cup Ids(r.addresses)
      BY <1>u, <1>o, <1>v, <1>7, <2>n, <2>1
    <2>6. NumbersKnown'
      BY <1>v, <2>4, <2>5 DEF NumbersKnown
    <2> QED
      BY <1>u, <2>n, <2>3, <2>6 DEF NoDropInv
  <1>11. FirstInv'
    <2> SUFFICES ASSUME session = 1 PROVE FirstInv'
      BY <1>u DEF FirstInv
    <2>f. /\ \A e, f \in table : e[1] = f[1] => e = f
          /\ known \subseteq table
          /\ \A s \in Open : s.addresses \subseteq table
          /\ \A s \in Open : \A x \in s.crumbs : \E e \in table : e[1] = x[2] /\ <<x[1], e[2]>> \in added
          /\ decoded \subseteq added
      BY DEF IndInv, FirstInv
    <2>1. \A e \in A, f \in table : e[1] # f[1]
      BY <1>2, <1>s, SMT
    <2>2. \A e, f \in table' : e[1] = f[1] => e = f
      BY <1>2, <1>t, <2>f, <2>1
    <2>3. table \subseteq table' /\ known' \subseteq table' /\ decoded' \subseteq added'
      BY <1>u, <1>t, <2>f
    <2>4. \A s \in Open' : s.addresses \subseteq table'
      BY <1>o, <1>t, <1>7, <2>f
    <2>5. \A x \in r.crumbs : \E e \in table' : e[1] = x[2] /\ <<x[1], e[2]>> \in added
      <3> SUFFICES ASSUME NEW x \in C
                   PROVE  \E e \in table' : e[1] = x[2] /\ <<x[1], e[2]>> \in added
        BY <1>7
      <3>1. PICK c \in batch : x = <<c[1], Number(table', c[2])>>
        BY <1>5
      <3> DEFINE e == <<Number(table', c[2]), c[2]>>
      <3>2. c = <<c[1], c[2]>>
        BY <1>b, DeliveryAssumption
      <3>3. x[1] = c[1] /\ x[2] = Number(table', c[2]) /\ e[1] = Number(table', c[2]) /\ e[2] = c[2]
        BY <3>1
      <3>4. e \in table'
        BY <1>4
      <3> HIDE DEF e
      <3>5. <<x[1], e[2]>> \in added
        BY <1>b, <3>2, <3>3
      <3> QED
        BY <3>3, <3>4, <3>5
    <2>6. \A s \in Open' : \A x \in s.crumbs : \E e \in table' : e[1] = x[2] /\ <<x[1], e[2]>> \in added'
      BY <1>u, <1>o, <2>f, <2>3, <2>5
    <2> QED
      BY <2>2, <2>3, <2>4, <2>6 DEF FirstInv
  <1> QED
    BY <1>8, <1>9, <1>10, <1>11 DEF IndInv

LEMMA NextIndInv == IndInv /\ [Next]_vars => IndInv'
  <1>1. ASSUME IndInv, UNCHANGED vars PROVE IndInv'
    BY <1>1 DEF vars, agentVars, serverVars, IndInv, TypeInv, CallsInv, NoDropInv, NumbersKnown,
                FirstInv, Open
  <1> QED
    BY <1>1, AddKeeps, ReportKeeps, AnsweredKeeps, CallFailsKeeps, QueuedKeeps, DroppedKeeps,
       ProcessKeeps
    DEF Next, CoordinatorNext

-----------------------------------------------------------------------------
(* In the first session of an agent, processBreadcrumbRequest hands to     *)
(* AddBreadcrumb only what the agent put on its channel: requests that a   *)
(* full queue dropped, answered "ok", or that arrive out of order make it  *)
(* refuse a number, never take it for another address.                     *)
THEOREM FirstSessionDecodedAsAddedHolds == Spec => []FirstSessionDecodedAsAdded
  <1>1. IndInv => FirstSessionDecodedAsAdded
    BY DEF IndInv, FirstInv, FirstSessionDecodedAsAdded, DecodedAsAdded
  <1> QED
    BY InitIndInv, NextIndInv, <1>1, PTL DEF Spec

(* As long as Breadcrumbs has dropped no request, no request is refused    *)
(* for a number without an address, whatever calls fail or time out,       *)
(* however late their requests are processed and however many sessions     *)
(* begin again with an empty table.                                        *)
THEOREM RefusedOnlyAfterDropHolds == Spec => []RefusedOnlyAfterDrop
  <1>1. IndInv => RefusedOnlyAfterDrop
    BY DEF IndInv, NoDropInv, RefusedOnlyAfterDrop
  <1> QED
    BY InitIndInv, NextIndInv, <1>1, PTL DEF Spec
=============================================================================
