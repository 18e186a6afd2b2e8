------------------------- MODULE ReportSchedulerProofs -------------------------
(***************************************************************************)
(* Fair sharing among the trigger queues, for any number of queues and     *)
(* traces, any batch size, any limiters and triggers of any size.          *)
(***************************************************************************)
EXTENDS ReportScheduler, WellFoundedInduction, TLAPS

(* Every nonempty set of ids has a least one, so that PopMin is defined. *)
LEMMA LeastExists ==
  ASSUME NEW S, S \subseteq Nat, S # {}
  PROVE  Min(S) \in S
<1>1. PICK x \in S : \A y \in S : ~(<<y, x>> \in OpToRel(<, Nat))
  BY NatLessThanWellFounded, WFMin, Zenon
<1>2. \A y \in S : x =< y
  <2>1. SUFFICES ASSUME NEW y \in S
                 PROVE  x =< y
    OBVIOUS
  <2>2. <<y, x>> \in Nat \X Nat
    OBVIOUS
  <2>3. ~(y < x)
    BY <1>1, <2>2 DEF OpToRel
  <2> QED
    BY <2>3
<1> QED
  BY <1>2, ZenonT(40) DEF Min

(* The inductive invariant: besides the types, the reporting tree of a queue holds
   every trigger of the queue that has buffers, and only triggers of the queue. *)
TreeHasData ==
  \A q \in Queues :
    /\ reporting[q] \subseteq fired[q]
    /\ \A t \in fired[q] : buffered[t] > 0 => t \in reporting[q]

IndInv == TypeOK /\ TreeHasData

(* An eligible queue has a least trigger, with at most MaxHeld buffers, and is not
   in debt. *)
LEMMA Reportable ==
  ASSUME IndInv, NEW q \in Eligible
  PROVE  /\ q \in Queues /\ tokens[q] \in 0 .. Burst
         /\ Min(reporting[q]) \in Traces
         /\ buffered[Min(reporting[q])] \in 0 .. MaxHeld
<1>1. q \in Queues /\ tokens[q] \in 0 .. Burst
  BY SchedulerAssumption DEF IndInv, TypeOK, Eligible
<1>2. reporting[q] # {} /\ reporting[q] \subseteq Traces
  BY <1>1 DEF IndInv, TypeOK, TreeHasData, Eligible, HasData
<1>3. Min(reporting[q]) \in reporting[q]
  BY <1>2, LeastExists, SchedulerAssumption, ZenonT(40)
<1> QED
  BY <1>1, <1>2, <1>3 DEF IndInv, TypeOK

(* What a turn does to the virtual times: nobody is charged if there was nothing to
   report, and otherwise only the queue whose turn it was moves, by n. *)
LEMMA Turn ==
  ASSUME IndInv, NEW q \in Eligible, Lowest(q), ReportNext(q)
  PROVE  \E n \in 0 .. MaxHeld :
           /\ tokens' = [tokens EXCEPT ![q] = @ - n]
           /\ lead' \in [Queues -> Int]
           /\ \A p \in Eligible \ {q} :
                lead'[q] - lead'[p] = lead[q] + n - lead[p]
           /\ \A p, r \in Eligible \ {q} : lead'[p] - lead'[r] = lead[p] - lead[r]
<1> DEFINE t == Min(reporting[q])
           n == buffered[t]
<1>1. q \in Queues /\ n \in 0 .. MaxHeld
  BY Reportable
<1>2. MaxHeld \in Nat /\ n \in Int
  BY <1>1, SchedulerAssumption
<1>3. lead \in [Queues -> Int] /\ Eligible \subseteq queues /\ queues \subseteq Queues
  BY DEF IndInv, TypeOK, Eligible
<1>4. CaughtUp \in [Queues -> Int] /\ \A p \in Eligible : CaughtUp[p] = lead[p]
  BY <1>3 DEF CaughtUp
<1>5. CASE n > 0
  <2>1. /\ lead' = [p \in Queues |-> IF p \in queues \ {q} THEN CaughtUp[p] - (CaughtUp[q] + n) ELSE 0]
        /\ tokens' = [tokens EXCEPT ![q] = @ - n]
    BY <1>5 DEF ReportNext, Charge
  <2>2. lead' \in [Queues -> Int]
    BY <2>1, <1>1, <1>2, <1>4
  <2>3. \A p \in Eligible \ {q} : lead'[p] = lead[p] - (lead[q] + n)
    BY <2>1, <1>3, <1>4
  <2>4. lead'[q] = 0
    BY <2>1, <1>1
  <2>5. \A p \in Eligible \ {q} : lead'[q] - lead'[p] = lead[q] + n - lead[p]
    BY <2>3, <2>4, <1>2, <1>3
  <2>6. \A p, r \in Eligible \ {q} : lead'[p] - lead'[r] = lead[p] - lead[r]
    BY <2>3, <1>2, <1>3
  <2> QED
    BY <1>1, <2>1, <2>2, <2>5, <2>6, ZenonT(40)
<1>6. CASE ~(n > 0)
  <2>1. n = 0
    BY <1>1, <1>6, SchedulerAssumption
  <2>2. lead' = CaughtUp /\ tokens' = tokens
    BY <1>6 DEF ReportNext
  <2>3. tokens' = [tokens EXCEPT ![q] = @ - n]
    BY <2>1, <2>2, <1>1, SchedulerAssumption DEF IndInv, TypeOK
  <2>4. \A p \in Eligible \ {q} : lead'[q] - lead'[p] = lead[q] + n - lead[p]
    BY <2>1, <2>2, <1>3, <1>4
  <2>5. \A p, r \in Eligible \ {q} : lead'[p] - lead'[r] = lead[p] - lead[r]
    BY <2>2, <1>3, <1>4
  <2> QED
    BY <1>1, <1>4, <2>2, <2>3, <2>4, <2>5, ZenonT(40)
<1> QED
  BY <1>5, <1>6

LEMMA InitIndInv == Init => IndInv
  BY SchedulerAssumption DEF Init, IndInv, TypeOK, TreeHasData, NoQueue

(* Both conjuncts are kept by every action. *)
LEMMA NextIndInv == IndInv /\ [Next]_vars => IndInv'
<1> SUFFICES ASSUME IndInv, [Next]_vars
             PROVE  IndInv'
  OBVIOUS
<1> USE SchedulerAssumption
<1>1. ASSUME NEW qt \in Fireable, NEW n \in 0 .. MaxHeld, Trigger(qt[1], qt[2], n)
      PROVE  IndInv'
  <2> DEFINE q == qt[1]
             t == qt[2]
  <2>1. q \in Queues /\ t \in Traces
    OBVIOUS
  <2>2. TypeOK'
    BY <1>1, <2>1 DEF IndInv, TypeOK, Trigger, GetQueue
  <2>3. Triggered(t) => buffered' = buffered
    BY <1>1, <2>1 DEF IndInv, TypeOK, Trigger
  <2>4. ASSUME NEW p \in Queues
        PROVE  /\ reporting'[p] \subseteq fired'[p]
               /\ \A u \in fired'[p] : buffered'[u] > 0 => u \in reporting'[p]
    <3>1. /\ fired'[p] = IF p = q THEN fired[p] \cup {t} ELSE fired[p]
          /\ reporting'[p] = IF n > 0 /\ p = q THEN reporting[p] \cup {t} ELSE reporting[p]
          /\ \A u \in Traces : buffered'[u] = IF u = t THEN n ELSE buffered[u]
      BY <1>1, <2>1, ZenonT(40) DEF IndInv, TypeOK, Trigger
    <3>2. /\ reporting[p] \subseteq fired[p] /\ fired[p] \subseteq Traces
          /\ \A u \in fired[p] : buffered[u] > 0 => u \in reporting[p]
      BY DEF IndInv, TypeOK, TreeHasData
    <3>3. CASE t \in fired[p]
      <4>1. buffered' = buffered /\ p # q
        BY <1>1, <2>3, <3>3 DEF Trigger, Triggered
      <4> QED
        BY <3>1, <3>2, <4>1
    <3>4. CASE t \notin fired[p]
      <4>1. \A u \in fired[p] : buffered'[u] = buffered[u]
        BY <3>1, <3>2, <3>4, ZenonT(40)
      <4>2. CASE p # q
        BY <3>1, <3>2, <4>1, <4>2
      <4>3. CASE p = q
        <5>1. buffered'[t] = n /\ (n > 0 => t \in reporting'[p])
          BY <3>1, <2>1, <4>3
        <5>2. reporting[p] \subseteq reporting'[p] /\ reporting'[p] \subseteq fired'[p]
          BY <3>1, <3>2, <4>3
        <5> QED
          BY <3>1, <3>2, <4>1, <4>3, <5>1, <5>2
      <4> QED
        BY <4>2, <4>3
    <3> QED
      BY <3>3, <3>4
  <2> QED
    BY <2>2, <2>4 DEF IndInv, TreeHasData
<1>2. ASSUME NEW q \in Queues, TriggerDropped(q)
      PROVE  IndInv'
  BY <1>2 DEF IndInv, TypeOK, TreeHasData, TriggerDropped, GetQueue
<1>3. ASSUME NEW t \in Traces, NEW n \in 1 .. MaxHeld, AddBuffers(t, n)
      PROVE  IndInv'
  <2>0. buffered[t] \in 0 .. MaxHeld /\ buffered[t] + n <= MaxHeld
    BY <1>3 DEF IndInv, TypeOK, AddBuffers
  <2>1. buffered' \in [Traces -> 0 .. MaxHeld]
    BY <1>3, <2>0 DEF IndInv, TypeOK, AddBuffers
  <2>2. reporting' \in [Queues -> SUBSET Traces]
    BY <1>3 DEF IndInv, TypeOK, AddBuffers
  <2>3. TypeOK'
    BY <1>3, <2>1, <2>2 DEF IndInv, TypeOK, AddBuffers
  <2>4. TreeHasData'
    BY <1>3 DEF IndInv, TypeOK, TreeHasData, AddBuffers
  <2> QED
    BY <2>3, <2>4 DEF IndInv
<1>4. ASSUME NEW qt \in Fireable, Forget(qt[1], qt[2])
      PROVE  IndInv'
  <2> DEFINE q == qt[1]
             t == qt[2]
  <2>1. q \in Queues /\ t \in Traces
    OBVIOUS
  <2>2. TypeOK'
    BY <1>4, <2>1 DEF IndInv, TypeOK, Forget
  <2>3. TreeHasData'
    BY <1>4, <2>1 DEF IndInv, TypeOK, TreeHasData, Forget
  <2> QED
    BY <2>2, <2>3 DEF IndInv
<1>5. ASSUME NEW q \in Eligible, Lowest(q), ReportNext(q), GetNextBuffers
      PROVE  IndInv'
  <2>1. /\ q \in Queues /\ tokens[q] \in 0 .. Burst
        /\ Min(reporting[q]) \in Traces /\ buffered[Min(reporting[q])] \in 0 .. MaxHeld
    BY Reportable
  <2>2. PICK n \in 0 .. MaxHeld : tokens' = [tokens EXCEPT ![q] = @ - n]
                                  /\ lead' \in [Queues -> Int]
    BY <1>5, Turn
  <2>3. tokens' \in [Queues -> -MaxHeld .. Burst]
    BY <2>1, <2>2 DEF IndInv, TypeOK
  <2>4. /\ reporting' = [reporting EXCEPT ![q] = @ \ {Min(reporting[q])}]
        /\ buffered' = [buffered EXCEPT ![Min(reporting[q])] = 0]
        /\ batch' = batch + buffered[Min(reporting[q])] /\ served' = q
        /\ UNCHANGED <<queues, fired, pc, pending>>
    BY <1>5 DEF ReportNext, GetNextBuffers
  <2>5. TypeOK'
    BY <2>1, <2>2, <2>3, <2>4 DEF IndInv, TypeOK
  <2>6. TreeHasData'
    BY <2>1, <2>4 DEF IndInv, TypeOK, TreeHasData
  <2> QED
    BY <2>5, <2>6 DEF IndInv
<1>6. ASSUME GetNextBuffersNone
      PROVE  IndInv'
  BY <1>6 DEF IndInv, TypeOK, TreeHasData, GetNextBuffersNone, CaughtUp, index, NoQueue
<1>7. ASSUME ReportTimer \/ ReportSend \/ ReportEnd
      PROVE  IndInv'
  <2>1. /\ UNCHANGED <<queues, fired, reporting, buffered, lead, tokens>>
        /\ pc' \in {"select", "report"} /\ batch' = 0
        /\ pending' \in {0, pending, batch} /\ served' \in {NoQueue, served}
    BY <1>7 DEF ReportTimer, ReportSend, ReportEnd, index
  <2> QED
    BY <2>1 DEF IndInv, TypeOK, TreeHasData
<1>8. ASSUME NEW q \in Queues, Refill(q)
      PROVE  IndInv'
  BY <1>8 DEF IndInv, TypeOK, TreeHasData, Refill, index
<1>9. ASSUME UNCHANGED vars
      PROVE  IndInv'
  BY <1>9 DEF IndInv, TypeOK, TreeHasData, vars, index
<1>10. ASSUME GetNextBuffers
       PROVE  IndInv'
  BY <1>5, <1>10 DEF GetNextBuffers
<1> QED
  BY <1>1, <1>2, <1>3, <1>4, <1>6, <1>7, <1>8, <1>9, <1>10 DEF Next, Handle, Report

(* The types hold, and with them that ReportNext never pops an empty tree: a limiter
   is never in debt by more than one trigger (triggermanager.go 136-141). *)
THEOREM SchedulerTypes == Spec => []IndInv
<1> QED
  BY InitIndInv, NextIndInv, PTL DEF Spec

(* A step leaves the virtual times of two eligible queues where they were, relative
   to each other, or charges one of them that was not ahead for one trigger. *)
LEMMA NextGap ==
  IndInv /\ [Next]_vars =>
    \A p, q \in Eligible :
      LET gap == lead[p] - lead[q] IN
      p # q => lead'[p] - lead'[q] <= gap \/ lead'[p] - lead'[q] <= MaxHeld
<1> SUFFICES ASSUME IndInv, [Next]_vars, NEW p \in Eligible, NEW q \in Eligible, p # q
             PROVE  \/ lead'[p] - lead'[q] <= lead[p] - lead[q]
                    \/ lead'[p] - lead'[q] <= MaxHeld
  OBVIOUS
<1>0. /\ p \in queues /\ q \in queues /\ queues \subseteq Queues
      /\ lead \in [Queues -> Int] /\ MaxHeld \in Nat
  BY SchedulerAssumption DEF IndInv, TypeOK, Eligible
<1>1. ASSUME NEW r \in Eligible, Lowest(r), ReportNext(r)
      PROVE  \/ lead'[p] - lead'[q] <= lead[p] - lead[q]
             \/ lead'[p] - lead'[q] <= MaxHeld
  <2>1. PICK n \in 0 .. MaxHeld :
          /\ lead' \in [Queues -> Int]
          /\ \A s \in Eligible \ {r} : lead'[r] - lead'[s] = lead[r] + n - lead[s]
          /\ \A s, u \in Eligible \ {r} : lead'[s] - lead'[u] = lead[s] - lead[u]
    BY <1>1, Turn
  <2>2. CASE p = r
    <3>1. lead[p] <= lead[q]
      BY <1>1, <2>2 DEF Lowest
    <3>2. lead'[p] - lead'[q] = lead[p] + n - lead[q]
      BY <2>1, <2>2
    <3> QED
      BY <3>1, <3>2, <1>0, <2>1
  <2>3. CASE q = r
    <3>1. lead'[q] - lead'[p] = lead[q] + n - lead[p]
      BY <2>1, <2>3
    <3> QED
      BY <3>1, <1>0, <2>1
  <2>4. CASE p # r /\ q # r
    <3>1. lead'[p] - lead'[q] = lead[p] - lead[q]
      BY <2>1, <2>4
    <3> QED
      BY <3>1, <1>0
  <2> QED
    BY <2>2, <2>3, <2>4
<1>2. ASSUME lead'[p] = lead[p], lead'[q] = lead[q]
      PROVE  lead'[p] - lead'[q] <= lead[p] - lead[q]
  BY <1>0, <1>2
<1>3. ASSUME NEW s, GetQueue(s)
      PROVE  lead'[p] = lead[p] /\ lead'[q] = lead[q]
  BY <1>0, <1>3 DEF GetQueue
<1>4. CASE GetNextBuffersNone
  BY <1>4 DEF GetNextBuffersNone
<1>5. CASE GetNextBuffers
  BY <1>1, <1>5 DEF GetNextBuffers
<1>6. ASSUME \/ ReportTimer \/ ReportSend \/ ReportEnd \/ UNCHANGED vars
             \/ \E s \in Queues : Refill(s)
             \/ \E t \in Traces, n \in 1 .. MaxHeld : AddBuffers(t, n)
             \/ \E qt \in Fireable : Forget(qt[1], qt[2])
      PROVE  lead' = lead
  BY <1>6, SMTT(20) DEF ReportTimer, ReportSend, ReportEnd, vars, Refill, AddBuffers, Forget
<1>7. ASSUME \/ \E qt \in Fireable, n \in 0 .. MaxHeld : Trigger(qt[1], qt[2], n)
             \/ \E s \in Queues : TriggerDropped(s)
      PROVE  lead'[p] = lead[p] /\ lead'[q] = lead[q]
  BY <1>3, <1>7 DEF Trigger, TriggerDropped
<1> QED
  BY <1>2, <1>4, <1>5, <1>6, <1>7 DEF Next, Handle, Report

(* Fair sharing for every number of queues: while two queues compete for reporting,
   neither is given more than one trigger's worth over the other, beyond what it was
   ahead when they began to compete (the choice of the lowest virtual time in
   triggermanager.go 115-130 and the charge in 137-141). *)
THEOREM FairSharing == Spec => GapNeverWidens
<1> QED
  BY SchedulerTypes, NextGap, PTL DEF Spec, GapNeverWidens
=============================================================================
