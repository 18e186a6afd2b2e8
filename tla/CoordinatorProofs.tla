-------------------------- MODULE CoordinatorProofs --------------------------
(***************************************************************************)
(* Proofs about Coordinator for any agents, traces, triggers and timeout.  *)
(***************************************************************************)
EXTENDS Coordinator, TLAPS

\* what the invariants below talk about; the LRU lists only decide which
\* entries expire, and the invariants hold whichever they are
IndInv == TypeOK /\ LinksAgree

(* What agents fire is a trigger and a trace.                              *)
LEMMA FireableTyped == \A x \in Fireable : x[1] \in Triggers /\ x[2] \in TraceIds
  BY FireableTraces DEF Triggers

LEMMA InitIndInv == Init => IndInv
  BY TimesPositive DEF Init, Pairs, IndInv, TypeOK, LinksAgree, NoRequest

(* Every step keeps the types and the links symmetric.                     *)
LEMMA NextIndInv == IndInv /\ [Next]_vars => IndInv'
  <1> SUFFICES ASSUME IndInv, [Next]_vars PROVE IndInv'
    OBVIOUS
  <1> USE TimesPositive
      DEF IndInv, TypeOK, LinksAgree, ReadClock, Pairs, traceVars, triggerVars
  <1>1. ASSUME NEW kind \in {"triggers", "breadcrumbs"}, NEW a \in Agents, Receive(kind, a)
        PROVE  IndInv'
    BY <1>1 DEF Receive
  <1>2. ASSUME NEW a \in Agents, NEW f \in Triggers, NEW t \in TraceIds, AddTrigger(a, f, t)
        PROVE  IndInv'
    <2>1. CASE t \notin triggerLinks[f]
      <3>1. Attach(a, f, t)
        BY <1>2, <2>1 DEF AddTrigger
      <3>2. TypeOK'
        BY <1>2, <3>1 DEF AddTrigger, Attach
      <3>3. LinksAgree'
        BY <1>2, <3>1 DEF AddTrigger, Attach
      <3> QED
        BY <3>2, <3>3
    <2>2. CASE t \in triggerLinks[f]
      BY <1>2, <2>2, SMTT(20) DEF AddTrigger
    <2> QED
      BY <2>1, <2>2
  <1>3. ASSUME NEW a \in Agents, NEW t \in TraceIds, NEW addrs \in SUBSET Agents,
               AddBreadcrumb(a, t, addrs)
        PROVE  IndInv'
    <2>1. TypeOK'
      BY <1>3 DEF AddBreadcrumb
    <2>2. LinksAgree'
      BY <1>3 DEF AddBreadcrumb
    <2> QED
      BY <2>1, <2>2
  <1>4. CASE ItemsEnd
    BY <1>4 DEF ItemsEnd
  <1>5. CASE ExpireTraces
    <2>1. TypeOK'
      BY <1>5 DEF ExpireTraces
    <2>2. LinksAgree'
      BY <1>5 DEF ExpireTraces
    <2> QED
      BY <2>1, <2>2
  <1>6. CASE ExpireTriggers
    <2>1. TypeOK'
      BY <1>6 DEF ExpireTriggers, NoRequest
    <2>2. LinksAgree'
      BY <1>6 DEF ExpireTriggers
    <2> QED
      BY <2>1, <2>2
  <1>7. CASE UNCHANGED vars
    BY <1>7 DEF vars
  <1>8. CASE Refuse
    BY <1>8 DEF Refuse
  <1> HIDE DEF IndInv
  <1> QED
    BY <1>1, <1>2, <1>3, <1>4, <1>5, <1>6, <1>7, <1>8, FireableTyped DEF Next

(* The coordinator's state is typed, and no last_modified is in the future. *)
THEOREM TypeCorrect == Spec => []TypeOK
  <1>1. IndInv => TypeOK
    BY DEF IndInv
  <1> QED
    BY InitIndInv, NextIndInv, <1>1, PTL DEF Spec

(* Triggers and traces link to each other symmetrically, and an entry that *)
(* checkTraceExpiration or checkTriggerExpiration removed is linked from   *)
(* nowhere, whatever the two loops remove and in whichever order.          *)
THEOREM LinksAgreeHolds == Spec => []LinksAgree
  <1>1. IndInv => LinksAgree
    BY DEF IndInv
  <1> QED
    BY InitIndInv, NextIndInv, <1>1, PTL DEF Spec

-----------------------------------------------------------------------------
\* a trigger is linked only to traces it was fired with
LinksFired ==
    \A f \in Triggers : \A t \in triggerLinks[f] : \E x \in Fireable : x[1] = f /\ x[2] = t

\* an agent where a trigger is known has fired it, or been sent it, with the
\* traces that the trigger has
KnowsItsTraces ==
    \A f \in Triggers, t \in TraceIds, a \in Agents :
        (t \in triggerLinks[f] /\ a \in triggerKnown[f]) => <<f, t>> \in told[a]

CollectInv == LinksFired /\ KnowsItsTraces /\ CollectedWhereKnown

(* When a trigger has one trace only, attaching the trace tells every agent *)
(* that knows the trigger of all the traces that the trigger has.  So an    *)
(* agent that a breadcrumb reveals either knows the trigger, and was told   *)
(* of the trace, or is told of it now.                                      *)
LEMMA NextCollectInv ==
  ASSUME \A x, y \in Fireable : x[1] = y[1] => x[2] = y[2]
  PROVE  IndInv /\ CollectInv /\ [Next]_vars => CollectInv'
  <1> SUFFICES ASSUME IndInv, CollectInv, [Next]_vars PROVE CollectInv'
    OBVIOUS
  <1> USE DEF IndInv, TypeOK, LinksAgree, CollectInv, LinksFired, KnowsItsTraces,
              CollectedWhereKnown, Pairs, traceVars, triggerVars
  <1>1. ASSUME NEW kind \in {"triggers", "breadcrumbs"}, NEW a \in Agents, Receive(kind, a)
        PROVE  CollectInv'
    BY <1>1, ZenonT(40) DEF Receive
  <1>2. ASSUME NEW a \in Agents, NEW x \in Fireable, AddTrigger(a, x[1], x[2])
        PROVE  CollectInv'
    <2> DEFINE f == x[1]
               t == x[2]
    <2>0. f \in Triggers /\ t \in TraceIds
      BY FireableTyped
    <2>1. \A u \in triggerLinks[f] : u = t
      BY <2>0
    <2>2. LinksFired'
      <3>1. \A g \in Triggers : triggerLinks'[g] \subseteq triggerLinks[g] \cup (IF g = f THEN {t} ELSE {})
        <4>1. triggerLinks \in [Triggers -> SUBSET TraceIds]
          BY SMTT(20)
        <4>2. triggerLinks' \in {triggerLinks, [triggerLinks EXCEPT ![f] = @ \cup {t}]}
          BY <1>2 DEF AddTrigger, Attach
        <4> HIDE DEF f, t, IndInv, CollectInv
        <4> QED
          BY <4>1, <4>2, <2>0
      <3> HIDE DEF f, t
      <3> QED
        BY <3>1 DEF f, t
    <2> HIDE DEF f, t
    <2>a. AddTrigger(a, f, t)
      BY <1>2, SMTT(20) DEF f, t
    <2>3. CASE t \notin triggerLinks[f]
      <3>1. Attach(a, f, t)
        BY <2>a, <2>3 DEF AddTrigger
      <3>2. \A b \in Agents : told[b] \subseteq told'[b]
        BY <3>1 DEF Attach
      <3>3. \A b \in Agents : (b \in triggerKnown'[f] \/ b \in traceKnown'[t]) => <<f, t>> \in told'[b]
        BY <2>0, <3>1 DEF Attach
      <3>4. /\ triggerLinks'[f] = triggerLinks[f] \cup {t}
            /\ traceLinks'[t] = traceLinks[t] \cup {f}
            /\ \A g \in Triggers \ {f} : triggerLinks'[g] = triggerLinks[g] /\ triggerKnown'[g] = triggerKnown[g]
            /\ \A u \in TraceIds \ {t} : traceLinks'[u] = traceLinks[u] /\ traceKnown'[u] = traceKnown[u]
        BY <2>0, <3>1 DEF Attach
      <3> HIDE DEF IndInv, TypeOK, LinksAgree, LinksFired
      <3>5. KnowsItsTraces'
        BY <2>0, <2>1, <3>2, <3>3, <3>4
      <3>6. CollectedWhereKnown'
        BY <2>0, <3>2, <3>3, <3>4
      <3> QED
        BY <2>2, <3>5, <3>6
    <2>4. CASE t \in triggerLinks[f]
      <3>1. /\ triggerKnown' = [triggerKnown EXCEPT ![f] = @ \cup {a}]
            /\ told' = [told EXCEPT ![a] = @ \cup {<<f, t>>}]
            /\ UNCHANGED <<traceLinks, traceKnown, triggerLinks>>
        BY <2>a, <2>4 DEF AddTrigger
      <3>2. \A b \in Agents : told[b] \subseteq told'[b]
        BY <3>1
      <3>3. <<f, t>> \in told'[a]
        BY <3>1, SMTT(20)
      <3> HIDE DEF IndInv, TypeOK, LinksAgree, LinksFired
      <3>4. KnowsItsTraces'
        BY <2>0, <2>1, <3>1, <3>2, <3>3, SMTT(20)
      <3>5. CollectedWhereKnown'
        BY <3>1, <3>2, SMTT(20)
      <3> QED
        BY <2>2, <3>4, <3>5
    <2> QED
      BY <2>3, <2>4, ZenonT(40)
  <1>3. ASSUME NEW a \in Agents, NEW t \in TraceIds, NEW addrs \in SUBSET Agents,
               AddBreadcrumb(a, t, addrs)
        PROVE  CollectInv'
    <2> DEFINE new == (addrs \cup {a}) \ traceKnown[t]
    <2> HIDE DEF IndInv, TypeOK, LinksAgree, CollectInv, LinksFired, KnowsItsTraces,
                 CollectedWhereKnown
    <2>0. /\ told' = [b \in Agents |->
                        IF b \in new
                        THEN told[b] \cup UNION {{f} \X triggerLinks[f] :
                                                   f \in {g \in traceLinks[t] : b \notin triggerKnown[g]}}
                        ELSE told[b]]
          /\ triggerKnown' = [f \in Triggers |->
                                IF f \in traceLinks[t] THEN triggerKnown[f] \cup new
                                                       ELSE triggerKnown[f]]
          /\ traceKnown' = [traceKnown EXCEPT ![t] = @ \cup new]
          /\ UNCHANGED <<traceLinks, triggerLinks>>
      BY <1>3 DEF AddBreadcrumb
    <2>t. traceKnown \in [TraceIds -> SUBSET Agents] /\ traceLinks[t] \subseteq Triggers
      BY DEF IndInv, TypeOK
    <2>1. LinksFired'
      BY <2>0 DEF CollectInv, LinksFired
    <2>2. \A b \in Agents : told[b] \subseteq told'[b]
      BY <2>0
    <2>3. UNCHANGED <<traceLinks, triggerLinks>>
      BY <2>0
    <2>4. \A b \in new : \A f \in traceLinks[t] : b \notin triggerKnown[f] =>
             \A u \in triggerLinks[f] : <<f, u>> \in told'[b]
      BY <2>0
    <2>5. /\ \A f \in traceLinks[t] : triggerKnown'[f] = triggerKnown[f] \cup new
          /\ \A f \in Triggers \ traceLinks[t] : triggerKnown'[f] = triggerKnown[f]
          /\ traceKnown'[t] = traceKnown[t] \cup new
          /\ \A u \in TraceIds \ {t} : traceKnown'[u] = traceKnown[u]
      BY <2>0, <2>t
    <2> USE DEF IndInv, TypeOK, LinksAgree, CollectInv, LinksFired, KnowsItsTraces,
                CollectedWhereKnown
    <2>6. new \subseteq Agents
      OBVIOUS
    <2> HIDE DEF new
    <2>7. KnowsItsTraces'
      <3> SUFFICES ASSUME NEW f \in Triggers, NEW u \in TraceIds, NEW b \in Agents,
                          u \in triggerLinks[f], b \in triggerKnown'[f]
                   PROVE  <<f, u>> \in told'[b]
        BY <2>3
      <3>1. CASE b \in triggerKnown[f]
        BY <3>1, <2>2, SMTT(20)
      <3>2. CASE b \notin triggerKnown[f]
        BY <3>2, <2>4, <2>5, SMTT(20)
      <3> QED
        BY <3>1, <3>2
    <2>8. CollectedWhereKnown'
      <3> SUFFICES ASSUME NEW u \in TraceIds, NEW b \in Agents,
                          traceLinks[u] # {}, b \in traceKnown'[u]
                   PROVE  \E f \in Triggers : <<f, u>> \in told'[b]
        BY <2>3, ZenonT(40)
      <3>1. CASE b \in traceKnown[u]
        BY <3>1, <2>2, ZenonT(40)
      <3>2. CASE b \notin traceKnown[u]
        <4>1. u = t /\ b \in new
          BY <3>2, <2>5
        <4>2. PICK f \in traceLinks[t] : TRUE
          BY <4>1
        <4>3. t \in triggerLinks[f] /\ f \in Triggers
          OBVIOUS
        <4>4. <<f, t>> \in told'[b]
          BY <4>1, <4>3, <2>2, <2>4
        <4> QED
          BY <4>1, <4>3, <4>4, ZenonT(40)
      <3> QED
        BY <3>1, <3>2, ZenonT(40)
    <2> QED
      BY <2>1, <2>7, <2>8, ZenonT(40)
  <1>4. CASE ItemsEnd
    BY <1>4, ZenonT(40) DEF ItemsEnd
  <1>5. CASE ExpireTraces
    <2>1. /\ \A f \in Triggers : triggerLinks'[f] \subseteq triggerLinks[f]
          /\ \A u \in TraceIds : traceLinks'[u] \subseteq traceLinks[u]
                                 /\ traceKnown'[u] \subseteq traceKnown[u]
          /\ UNCHANGED <<triggerKnown, told>>
      BY <1>5 DEF ExpireTraces
    <2>2. LinksFired'
      BY <2>1, SMTT(20)
    <2> HIDE DEF IndInv, TypeOK, LinksAgree, LinksFired
    <2> QED
      BY <2>1, <2>2
  <1>6. CASE ExpireTriggers
    <2>1. /\ \A f \in Triggers : triggerLinks'[f] \subseteq triggerLinks[f]
                                 /\ triggerKnown'[f] \subseteq triggerKnown[f]
          /\ \A u \in TraceIds : traceLinks'[u] \subseteq traceLinks[u]
          /\ UNCHANGED <<traceKnown, told>>
      BY <1>6 DEF ExpireTriggers
    <2>2. LinksFired'
      BY <2>1, SMTT(20)
    <2> HIDE DEF IndInv, TypeOK, LinksAgree, LinksFired
    <2> QED
      BY <2>1, <2>2
  <1>7. CASE UNCHANGED vars
    BY <1>7, ZenonT(40) DEF vars
  <1>8. CASE Refuse
    BY <1>8, ZenonT(40) DEF Refuse
  <1> HIDE DEF IndInv, CollectInv
  <1> QED
    BY <1>1, <1>2, <1>3, <1>4, <1>5, <1>6, <1>7, <1>8 DEF Next

(* If every trigger is fired with one trace only (no lateral traces), then *)
(* every agent where AddTrigger or AddBreadcrumb made a triggered trace    *)
(* known has fired or has been sent a trigger for it.                      *)
THEOREM SingleTraceCollected ==
  ASSUME \A x, y \in Fireable : x[1] = y[1] => x[2] = y[2]
  PROVE  Spec => []CollectedWhereKnown
  <1>1. Init => IndInv /\ CollectInv
    BY InitIndInv
    DEF Init, CollectInv, LinksFired, KnowsItsTraces, CollectedWhereKnown
  <1>2. IndInv /\ CollectInv /\ [Next]_vars => (IndInv /\ CollectInv)'
    BY NextIndInv, NextCollectInv
  <1>3. CollectInv => CollectedWhereKnown
    BY DEF CollectInv
  <1> QED
    BY <1>1, <1>2, <1>3, PTL DEF Spec

-----------------------------------------------------------------------------
(***************************************************************************)
(* The expiration loops.  Each list holds the entries of its map, once,    *)
(* most recently modified first.                                           *)
(***************************************************************************)

(* Leaves are first-order from here on unless they say SMT.                *)
USE ZenonT(40)

LruInv ==
    /\ traceLru \in Seq(TraceIds) /\ Range(traceLru) = traces /\ Ordered(traceLru, traceMod)
    /\ triggerLru \in Seq(Triggers) /\ Range(triggerLru) = triggers
    /\ Ordered(triggerLru, triggerMod)

\* between the two loops of checkExpirations the clock is not read again
CheckedInv == pc = "triggers" => \A t \in traces : ~Expired(traceMod[t])

ExpireInv == LruInv /\ CheckedInv

(* Moving the elements of a list r, stamped now, to the front.             *)
LEMMA ToFrontFacts ==
  ASSUME ListFacts, NEW T, NEW s \in Seq(T), NEW r \in Seq(T), NEW m, NEW o,
         Ordered(s, m), Ordered(r, o),
         \A x \in Range(s) \ Range(r) : o[x] = m[x],
         \A x \in Range(r), y \in Range(s) \ Range(r) : o[y] <= o[x]
  PROVE  /\ ToFront(s, r) \in Seq(T)
         /\ Range(ToFront(s, r)) = Range(s) \cup Range(r)
         /\ Ordered(ToFront(s, r), o)
  <1> DEFINE w == Without(s, Range(r))
  <1>1. w \in Seq(T) /\ Range(w) = Range(s) \ Range(r) /\ Ordered(w, m)
    BY DEF ListFacts
  <1> HIDE DEF w
  <1>2. /\ \A x \in Range(w) : o[x] = m[x]
        /\ \A x \in Range(r), y \in Range(w) : x # y /\ o[y] <= o[x]
    BY <1>1
  <1>3. Ordered(w, o)
    BY <1>1, <1>2, SMT DEF ListFacts
  <1>4. /\ r \o w \in Seq(T) /\ Range(r \o w) = Range(r) \cup Range(w)
        /\ Ordered(r \o w, o)
    BY <1>1, <1>2, <1>3, SMT DEF ListFacts
  <1>5. ToFront(s, r) = r \o w
    BY DEF ToFront, w
  <1> QED
    BY <1>1, <1>4, <1>5

(* Moving one element to the front and stamping it with the clock.         *)
LEMMA TouchFacts ==
  ASSUME ListFacts, NEW T, NEW s \in Seq(T), NEW x \in T, NEW m \in [T -> 0 .. now],
         now \in Nat, Ordered(s, m)
  PROVE  /\ ToFront(s, <<x>>) \in Seq(T)
         /\ Range(ToFront(s, <<x>>)) = Range(s) \cup {x}
         /\ Ordered(ToFront(s, <<x>>), [m EXCEPT ![x] = now])
  <1> DEFINE o == [m EXCEPT ![x] = now]
  <1>1. <<x>> \in Seq(T) /\ Range(<<x>>) = {x} /\ Ordered(<<x>>, o)
    BY DEF ListFacts
  <1>2. Range(s) \subseteq T
    BY SMT DEF Range
  <1>3. o[x] = now /\ \A y \in T \ {x} : o[y] = m[y]
    OBVIOUS
  <1>4. \A y \in T : m[y] <= now
    BY SMT
  <1> HIDE DEF o
  <1> DEFINE r == <<x>>
  <1> HIDE DEF r
  <1>5. r \in Seq(T) /\ Range(r) = {x} /\ Ordered(r, o)
    BY <1>1 DEF r
  <1>6. /\ \A y \in Range(s) \ Range(r) : o[y] = m[y]
        /\ \A z \in Range(r), y \in Range(s) \ Range(r) : o[y] <= o[z]
    BY <1>2, <1>3, <1>4, <1>5
  <1>7. /\ ToFront(s, r) \in Seq(T)
        /\ Range(ToFront(s, r)) = Range(s) \cup Range(r)
        /\ Ordered(ToFront(s, r), o)
    BY <1>5, <1>6, ToFrontFacts
  <1> QED
    BY <1>5, <1>7 DEF r, o

(* What checkTraceExpiration and checkTriggerExpiration leave: the entries *)
(* that have not expired, although they stop at the first of these.        *)
LEMMA StaleFacts ==
  ASSUME ListFacts, NEW T, NEW s \in Seq(T), NEW m \in [T -> 0 .. now], now \in Nat,
         Ordered(s, m), NEW o, \A x \in T \ Stale(s, m) : o[x] = m[x]
  PROVE  /\ Without(s, Stale(s, m)) \in Seq(T)
         /\ Range(Without(s, Stale(s, m))) = Range(s) \ Stale(s, m)
         /\ Ordered(Without(s, Stale(s, m)), o)
         /\ \A x \in Range(s) \ Stale(s, m) : ~Expired(o[x])
  <1> DEFINE G == Stale(s, m)
             w == Without(s, G)
  <1>t. Range(s) \subseteq T
    BY SMT DEF Range
  <1>1. \A x \in Range(s) \ G : ~Expired(m[x])
    <2> SUFFICES ASSUME NEW i \in DOMAIN s, s[i] \notin G PROVE ~Expired(m[s[i]])
      BY DEF Range
    <2>1. PICK k \in i .. Len(s) : ~Expired(m[s[k]])
      BY DEF Stale
    <2>2. k \in DOMAIN s /\ (i < k \/ i = k) /\ s[i] \in T /\ s[k] \in T
      BY <2>1, SMT
    <2>3. m[s[k]] \in Int /\ m[s[i]] \in Int
      BY <2>2, SMT
    <2>4. m[s[k]] <= m[s[i]]
      <3>1. CASE i < k
        BY <2>2, <3>1 DEF Ordered
      <3>2. CASE i = k
        BY <2>3, <3>2, SMT
      <3> QED
        BY <2>2, <3>1, <3>2
    <2> QED
      BY <2>1, <2>3, <2>4, TimesPositive, SMTT(20) DEF Expired
  <1> HIDE DEF G
  <1>2. w \in Seq(T) /\ Range(w) = Range(s) \ G /\ Ordered(w, m)
    BY DEF ListFacts
  <1> HIDE DEF w
  <1>3. \A x \in Range(s) \ G : o[x] = m[x]
    BY <1>t DEF G
  <1>4. Ordered(w, o)
    BY <1>2, <1>3 DEF ListFacts
  <1>5. \A x \in Range(s) \ G : ~Expired(o[x])
    BY <1>1, <1>3
  <1> QED
    BY <1>2, <1>4, <1>5 DEF G, w

LEMMA InitExpireInv == ASSUME Init PROVE ExpireInv
  <1>1. <<>> \in Seq(TraceIds) /\ <<>> \in Seq(Triggers) /\ DOMAIN <<>> = {}
    BY SMT
  <1>2. Range(<<>>) = {} /\ \A m : Ordered(<<>>, m)
    BY <1>1 DEF Range, Ordered
  <1>3. traceLru = <<>> /\ triggerLru = <<>> /\ traces = {} /\ triggers = {}
        /\ pc = "select"
    BY DEF Init
  <1> QED
    BY <1>1, <1>2, <1>3 DEF ExpireInv, LruInv, CheckedInv

\* the half of LruInv about traces, and the half about triggers
TraceList == traceLru \in Seq(TraceIds) /\ Range(traceLru) = traces /\ Ordered(traceLru, traceMod)
TriggerList ==
    triggerLru \in Seq(Triggers) /\ Range(triggerLru) = triggers /\ Ordered(triggerLru, triggerMod)

(* The elements of a list in another order.                                *)
LEMMA ReorderedFacts ==
  ASSUME ListFacts, NEW T, NEW s \in Seq(T)
  PROVE  \A S \in SUBSET Range(s) : \A r \in Orders(S) :
           /\ r \in Seq(T) /\ Range(r) = S
           /\ \A mm : (\A x, y \in S : mm[x] <= mm[y]) => Ordered(r, mm)
  BY SMT DEF ListFacts

(* Every step keeps the lists in order, and the loops find all that has    *)
(* expired: the last one ends with nothing left in either map.             *)
LEMMA NextExpireInv ==
  ASSUME ListFacts
  PROVE  IndInv /\ ExpireInv /\ [Next]_vars =>
           /\ ExpireInv'
           /\ pc = "triggers" /\ pc' = "select" => NoneExpired'
  <1> DEFINE Goal == ExpireInv' /\ (pc = "triggers" /\ pc' = "select" => NoneExpired')
  <1> SUFFICES ASSUME IndInv, ExpireInv, [Next]_vars PROVE Goal
    OBVIOUS
  <1>t. /\ now \in Nat
        /\ traceMod \in [TraceIds -> 0 .. now] /\ triggerMod \in [Triggers -> 0 .. now]
    BY SMT DEF IndInv, TypeOK
  <1>f. ASSUME NEW t \in TraceIds
        PROVE  /\ ToFront(traceLru, <<t>>) \in Seq(TraceIds)
               /\ Range(ToFront(traceLru, <<t>>)) = traces \cup {t}
               /\ Ordered(ToFront(traceLru, <<t>>), [traceMod EXCEPT ![t] = now])
    <2>1. traceLru \in Seq(TraceIds) /\ Range(traceLru) = traces /\ Ordered(traceLru, traceMod)
      BY DEF ExpireInv, LruInv
    <2>2. /\ ToFront(traceLru, <<t>>) \in Seq(TraceIds)
          /\ Range(ToFront(traceLru, <<t>>)) = Range(traceLru) \cup {t}
          /\ Ordered(ToFront(traceLru, <<t>>), [traceMod EXCEPT ![t] = now])
      BY <1>t, <2>1, TouchFacts
    <2> QED
      BY <2>1, <2>2
  <1>g. ASSUME NEW f \in Triggers
        PROVE  /\ ToFront(triggerLru, <<f>>) \in Seq(Triggers)
               /\ Range(ToFront(triggerLru, <<f>>)) = triggers \cup {f}
               /\ Ordered(ToFront(triggerLru, <<f>>), [triggerMod EXCEPT ![f] = now])
    <2>1. triggerLru \in Seq(Triggers) /\ Range(triggerLru) = triggers /\ Ordered(triggerLru, triggerMod)
      BY DEF ExpireInv, LruInv
    <2>2. /\ ToFront(triggerLru, <<f>>) \in Seq(Triggers)
          /\ Range(ToFront(triggerLru, <<f>>)) = Range(triggerLru) \cup {f}
          /\ Ordered(ToFront(triggerLru, <<f>>), [triggerMod EXCEPT ![f] = now])
      BY <1>t, <2>1, TouchFacts
    <2> QED
      BY <2>1, <2>2
  <1>l. TraceList /\ TriggerList
    BY DEF ExpireInv, LruInv, TraceList, TriggerList
  <1>e. ASSUME TraceList', TriggerList', pc' \in {"items", "traces"} PROVE Goal
    BY <1>e DEF ExpireInv, LruInv, CheckedInv, TraceList, TriggerList
  <1> HIDE DEF Goal
  <1>1. ASSUME NEW kind \in {"triggers", "breadcrumbs"}, NEW a \in Agents, Receive(kind, a)
        PROVE  Goal
    BY <1>1, <1>l, <1>e DEF Receive, traceVars, triggerVars, TraceList, TriggerList
  <1>2. ASSUME NEW a \in Agents, NEW f \in Triggers, NEW t \in TraceIds, AddTrigger(a, f, t)
        PROVE  Goal
    <2>1. TriggerList'
      <3>1. /\ triggers' = triggers \cup {f}
            /\ triggerMod' = [triggerMod EXCEPT ![f] = now]
            /\ triggerLru' = ToFront(triggerLru, <<f>>)
        BY <1>2 DEF AddTrigger
      <3> QED
        BY <1>g, <3>1 DEF TriggerList
    <2>2. CASE t \notin triggerLinks[f]
      <3>1. /\ traces' = traces \cup {t}
            /\ traceMod' = [traceMod EXCEPT ![t] = now]
            /\ traceLru' = ToFront(traceLru, <<t>>)
        BY <1>2, <2>2 DEF AddTrigger, Attach
      <3>2. TraceList'
        BY <1>f, <3>1 DEF TraceList
      <3> QED
        BY <1>2, <1>e, <2>1, <3>2 DEF AddTrigger
    <2>3. CASE t \in triggerLinks[f]
      <3>1. TraceList'
        BY <1>2, <1>l, <2>3 DEF AddTrigger, traceVars, TraceList
      <3> QED
        BY <1>2, <1>e, <2>1, <3>1 DEF AddTrigger
    <2> QED
      BY <2>2, <2>3
  <1>3. ASSUME NEW a \in Agents, NEW t \in TraceIds, NEW addrs \in SUBSET Agents,
               AddBreadcrumb(a, t, addrs)
        PROVE  Goal
    <2> DEFINE F == traceLinks[t]
    <2>1. /\ traces' = traces \cup {t}
          /\ traceMod' = [traceMod EXCEPT ![t] = now]
          /\ traceLru' = ToFront(traceLru, <<t>>)
          /\ triggerMod' = [f \in Triggers |-> IF f \in F THEN now ELSE triggerMod[f]]
          /\ \E seq \in Orders(F) : triggerLru' = ToFront(triggerLru, seq)
          /\ triggers' = triggers /\ pc' = pc /\ pc = "items"
      BY <1>3 DEF AddBreadcrumb
    <2>2. TraceList'
      BY <1>f, <2>1 DEF TraceList
    <2>3. F \in SUBSET triggers
      BY DEF IndInv, TypeOK, LinksAgree
    <2>4. PICK seq \in Orders(F) : triggerLru' = ToFront(triggerLru, seq)
      BY <2>1
    <2> DEFINE m == triggerMod
               o == [f \in Triggers |-> IF f \in F THEN now ELSE m[f]]
    <2> HIDE DEF F
    <2>5. /\ triggerLru \in Seq(Triggers) /\ Range(triggerLru) = triggers
          /\ Ordered(triggerLru, m) /\ triggers \subseteq Triggers
      BY <1>l DEF TriggerList, IndInv, TypeOK
    <2>6. /\ \A f \in F : o[f] = now
          /\ \A f \in Triggers \ F : o[f] = m[f]
      BY <2>3, <2>5
    <2>7. now <= now /\ \A f \in Triggers : m[f] <= now
      BY <1>t, SMT
    <2> HIDE DEF m, o
    <2>a. F \in SUBSET Range(triggerLru)
      BY <2>3, <2>5
    <2>b. \A S \in SUBSET Range(triggerLru) : \A r \in Orders(S) :
             /\ r \in Seq(Triggers) /\ Range(r) = S
             /\ \A mm : (\A x, y \in S : mm[x] <= mm[y]) => Ordered(r, mm)
      BY <2>5, ReorderedFacts
    <2>8. /\ seq \in Seq(Triggers) /\ Range(seq) = F
          /\ \A mm : (\A x, y \in F : mm[x] <= mm[y]) => Ordered(seq, mm)
      BY <2>4, <2>a, <2>b
    <2>9. Ordered(seq, o)
      BY <2>6, <2>7, <2>8
    <2>10. /\ \A x \in Range(triggerLru) \ Range(seq) : o[x] = m[x]
           /\ \A x \in Range(seq), y \in Range(triggerLru) \ Range(seq) : o[y] <= o[x]
      BY <2>5, <2>6, <2>7, <2>8
    <2>11. /\ ToFront(triggerLru, seq) \in Seq(Triggers)
           /\ Range(ToFront(triggerLru, seq)) = Range(triggerLru) \cup Range(seq)
           /\ Ordered(ToFront(triggerLru, seq), o)
      BY <2>5, <2>8, <2>9, <2>10, ToFrontFacts
    <2>12. TriggerList'
      <3>1. Range(triggerLru) \cup Range(seq) = triggers
        BY <2>3, <2>5, <2>8
      <3>2. triggerMod' = o
        BY <2>1 DEF o, m
      <3> QED
        BY <2>1, <2>4, <2>11, <3>1, <3>2 DEF TriggerList
    <2> QED
      BY <1>e, <2>1, <2>2, <2>12
  <1>4. CASE ItemsEnd
    BY <1>4, <1>l, <1>e DEF ItemsEnd, traceVars, triggerVars, TraceList, TriggerList
  <1>5. CASE ExpireTraces
    <2> DEFINE G == Stale(traceLru, traceMod)
               o == [t \in TraceIds |-> IF t \in G THEN 0 ELSE traceMod[t]]
    <2>1. /\ traces' = traces \ G /\ traceLru' = Without(traceLru, G) /\ traceMod' = o
          /\ pc = "traces" /\ pc' = "triggers" /\ now' = now
          /\ UNCHANGED <<triggers, triggerLru, triggerMod>>
      BY <1>5 DEF ExpireTraces
    <2>2. \A x \in TraceIds \ G : o[x] = traceMod[x]
      OBVIOUS
    <2> HIDE DEF o
    <2>3. /\ traceLru \in Seq(TraceIds) /\ Range(traceLru) = traces /\ Ordered(traceLru, traceMod)
      BY <1>l DEF TraceList
    <2>4. /\ Without(traceLru, G) \in Seq(TraceIds)
          /\ Range(Without(traceLru, G)) = Range(traceLru) \ G
          /\ Ordered(Without(traceLru, G), o)
          /\ \A x \in Range(traceLru) \ G : ~Expired(o[x])
      BY <1>t, <2>2, <2>3, StaleFacts
    <2> HIDE DEF G
    <2>5. TraceList' /\ TriggerList'
      BY <1>l, <2>1, <2>3, <2>4 DEF TraceList, TriggerList
    <2>6. (\A x \in traces : ~Expired(traceMod[x]))'
      BY <2>1, <2>3, <2>4 DEF Expired
    <2> QED
      BY <2>1, <2>5, <2>6 DEF Goal, ExpireInv, LruInv, CheckedInv, TraceList, TriggerList
  <1>6. CASE ExpireTriggers
    <2> DEFINE G == Stale(triggerLru, triggerMod)
               o == [f \in Triggers |-> IF f \in G THEN 0 ELSE triggerMod[f]]
    <2>1. /\ triggers' = triggers \ G /\ triggerLru' = Without(triggerLru, G) /\ triggerMod' = o
          /\ pc = "triggers" /\ pc' = "select" /\ now' = now
          /\ UNCHANGED <<traces, traceLru, traceMod>>
      BY <1>6 DEF ExpireTriggers
    <2>2. \A x \in Triggers \ G : o[x] = triggerMod[x]
      OBVIOUS
    <2> HIDE DEF o
    <2>3. /\ triggerLru \in Seq(Triggers) /\ Range(triggerLru) = triggers
          /\ Ordered(triggerLru, triggerMod)
      BY <1>l DEF TriggerList
    <2>4. /\ Without(triggerLru, G) \in Seq(Triggers)
          /\ Range(Without(triggerLru, G)) = Range(triggerLru) \ G
          /\ Ordered(Without(triggerLru, G), o)
          /\ \A x \in Range(triggerLru) \ G : ~Expired(o[x])
      BY <1>t, <2>2, <2>3, StaleFacts
    <2> HIDE DEF G
    <2>5. TraceList' /\ TriggerList'
      BY <1>l, <2>1, <2>3, <2>4 DEF TraceList, TriggerList
    <2>6. (\A x \in triggers : ~Expired(triggerMod[x]))'
      BY <2>1, <2>3, <2>4 DEF Expired
    <2>7. (\A x \in traces : ~Expired(traceMod[x]))'
      BY <2>1 DEF Expired, ExpireInv, CheckedInv
    <2> QED
      BY <2>1, <2>5, <2>6, <2>7
      DEF Goal, ExpireInv, LruInv, CheckedInv, TraceList, TriggerList, NoneExpired
  <1>7. CASE UNCHANGED vars
    BY <1>7 DEF vars, traceVars, triggerVars, Goal, ExpireInv, LruInv, CheckedInv, Expired
  <1>8. CASE Refuse
    BY <1>8, <1>l DEF Refuse, traceVars, triggerVars, Goal, ExpireInv, LruInv, CheckedInv,
                      TraceList, TriggerList
  <1> QED
    BY <1>1, <1>2, <1>3, <1>4, <1>5, <1>6, <1>7, <1>8, FireableTyped DEF Next

INSTANCE ListProofs

(* The loops of checkTraceExpiration and checkTriggerExpiration look only  *)
(* at the back of their lists and stop at the first survivor; still, when  *)
(* a processed request is answered, nothing is left that has expired, and  *)
(* each list holds the entries of its map, once.  For any agents, traces,  *)
(* triggers and timeout, whichever entries the requests touch and however  *)
(* many requests processBreadcrumbRequest refuses in between.              *)
THEOREM ExpiredAreGoneHolds == Spec => ExpiredAreGone
  <1> DEFINE Answered == pc' = "select" => ListsComplete' /\ (pc = "triggers" => NoneExpired')
  <1>1. Init => IndInv /\ ExpireInv
    BY InitIndInv, InitExpireInv
  <1>2. IndInv /\ ExpireInv /\ [Next]_vars => (IndInv /\ ExpireInv)'
    BY NextIndInv, NextExpireInv, ListFactsHold
  <1>3. ExpireInv => ListsComplete
    <2> SUFFICES ASSUME ExpireInv PROVE ListsComplete
      OBVIOUS
    <2>1. Len(traceLru) = Cardinality(traces) /\ Len(triggerLru) = Cardinality(triggers)
      BY ListFactsHold DEF ListFacts, ExpireInv, LruInv
    <2> QED
      BY <2>1 DEF ListsComplete, ExpireInv, LruInv
  <1>4. ExpireInv' => ListsComplete'
    BY <1>3, PTL
  <1>5. IndInv /\ ExpireInv /\ [Next]_vars => [Answered]_vars
    BY <1>2, <1>4, NextExpireInv, ListFactsHold
  <1> QED
    BY <1>1, <1>2, <1>5, PTL DEF Spec, ExpiredAreGone
=============================================================================
