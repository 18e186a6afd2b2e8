----------------------------- MODULE AgentProofs -----------------------------
(***************************************************************************)
(* Proofs about Agent, for any traces, triggers, queues and buffers: the   *)
(* links between traces and fired triggers agree, every buffer of the pool *)
(* is in exactly one place, the lists hold what their names say in the     *)
(* order the clock gave, the counters are what a recount of the index      *)
(* would give, and eviction keeps the agent within its limits.             *)
(*                                                                         *)
(* A fact that only one argument needs is a named step of that argument.   *)
(***************************************************************************)
EXTENDS Agent, TLAPS

(* Leaves are first-order unless they say SMT, which does arithmetic.      *)
USE ZenonT(40)

\* the part of the index that the links live in
IndexType ==
    /\ traceState \in [TraceIds -> {"none", "untriggered", "triggered", "reporting"}]
    /\ buffers \in [TraceIds -> SUBSET Buffers]
    /\ triggers \in [TraceIds -> SUBSET Triggers]
    /\ firedState \in [Triggers -> {"none", "idle", "reporting"}]
    /\ traces \in [Triggers -> SUBSET TraceIds]

IndexInv == IndexType /\ LinksAgree /\ IdleHoldsNoData

\* buffers on their way: an entry of a batch is never empty
HeldInv ==
    /\ \A t \in DOMAIN batch : /\ t \in TraceIds \cup {0}
                               /\ batch[t] \subseteq Buffers /\ batch[t] # {}
    /\ freed \subseteq Buffers /\ evicted \subseteq Buffers /\ data \subseteq Buffers
    /\ inflight \subseteq Buffers /\ outside \subseteq Buffers
    /\ channel \in Seq(SUBSET Buffers)

Inv == IndexInv /\ HeldInv

(* What clients and peers fire is a trigger and a trace.                   *)
LEMMA FireableTriggers ==
  \A x \in Fireable : <<x[1], x[2]>> \in Triggers /\ x[3] \in TraceIds
  BY FireableTyped DEF Triggers

\* a set of buffers has a positive cardinality exactly if it is not empty
BuffersCount ==
    \A B \in SUBSET Buffers : /\ Cardinality(B) \in Nat
                              /\ Cardinality(B) > 0 <=> B # {}

-----------------------------------------------------------------------------
LEMMA InitInv == Init => Inv
  BY SMTT(20) DEF Init, DMInit, Inv, IndexInv, IndexType, HeldInv, LinksAgree, IdleHoldsNoData,
         Pending, NoBatch

LEMMA NextInv == BuffersCount /\ Inv /\ [Next]_vars => Inv'
  (* An operation that leaves the links, states and data alone.              *)
  <1>IndexStutter.
      ASSUME IndexInv, UNCHANGED <<traceState, buffers, triggers, firedState, traces>>
      PROVE  IndexInv'
    BY <1>IndexStutter DEF IndexInv, IndexType, LinksAgree, IdleHoldsNoData
  (* Data for a triggered trace wakes all of its triggers, so none of them   *)
  (* is idle.                                                                *)
  <1>AddBuffersKeeps.
      ASSUME IndexInv, NEW t \in TraceIds, NEW B \in SUBSET Buffers, B # {}, AddBuffers(t, B)
      PROVE  IndexInv'
    <2> USE <1>AddBuffersKeeps
    <2> USE DEF IndexInv, IndexType, LinksAgree, IdleHoldsNoData, Pending
    <2>1. CASE AddBuffersUntriggered(t, B)
      <3>1. /\ traceState[t] \in Pending
            /\ traceState' = [traceState EXCEPT ![t] = "untriggered"]
            /\ buffers' = [buffers EXCEPT ![t] = @ \cup B]
            /\ UNCHANGED <<triggers, firedState, traces>>
        BY <2>1 DEF AddBuffersUntriggered, firedVars
      <3> QED
        BY <3>1, SMT
    <2>2. CASE AddBuffersTriggered(t, B)
      <3>1. /\ traceState[t] \notin Pending
            /\ traceState' = [traceState EXCEPT ![t] = "reporting"]
            /\ buffers' = [buffers EXCEPT ![t] = @ \cup B]
            /\ firedState' = [f \in Triggers |->
                                 IF f \in triggers[t] THEN "reporting" ELSE firedState[f]]
            /\ UNCHANGED <<triggers, traces>>
        BY <2>2 DEF AddBuffersTriggered, BuffersAdded
      <3>2. IndexType'
        BY <3>1
      <3>3. LinksAgree'
        BY <3>1, SMT
      <3>4. IdleHoldsNoData'
        BY <3>1
      <3> QED
        BY <3>2, <3>3, <3>4
    <2> QED
      BY <2>1, <2>2 DEF AddBuffers
  <1>AddBreadcrumbsKeeps.
      ASSUME IndexInv, NEW t \in TraceIds, NEW C, AddBreadcrumbs(t, C)
      PROVE  IndexInv'
    <2> USE <1>AddBreadcrumbsKeeps
    <2>1. CASE UNCHANGED dmvars
      BY <2>1, <1>IndexStutter DEF dmvars, traceVars, firedVars
    <2>2. CASE /\ traceState[t] \in Pending
               /\ traceState' = [traceState EXCEPT ![t] = "untriggered"]
               /\ UNCHANGED <<buffers, triggers, firedState, traces>>
      BY <2>2, SMT DEF IndexInv, IndexType, LinksAgree, IdleHoldsNoData, Pending
    <2> QED
      BY <2>1, <2>2 DEF AddBreadcrumbs, firedVars
  (* A trigger that gets a trace with data for the first time starts to      *)
  (* report; one that has the trace already is reporting, by the invariant.  *)
  <1>TriggerKeeps.
      ASSUME BuffersCount, IndexInv, NEW f \in Triggers, NEW t \in TraceIds, Trigger(f, t)
      PROVE  IndexInv'
    <2> USE <1>TriggerKeeps
    <2> DEFINE full == buffers[t] # {}
               F == IF f \notin triggers[t] /\ full THEN {f} ELSE {}
               st == [firedState EXCEPT ![f] = IF firedState[f] = "none" THEN "idle" ELSE @]
    <2>1. Cardinality(buffers[t]) > 0 <=> full
      BY DEF BuffersCount, IndexInv, IndexType
    <2>2. /\ traceState' = [traceState EXCEPT ![t] = IF full THEN "reporting" ELSE "triggered"]
          /\ triggers' = [triggers EXCEPT ![t] = @ \cup {f}]
          /\ traces' = [traces EXCEPT ![f] = @ \cup {t}]
          /\ UNCHANGED buffers
      BY <2>1 DEF Trigger
    <2>3. firedState' = [g \in Triggers |-> IF g \in F THEN "reporting" ELSE st[g]]
      BY <2>1, SMT DEF Trigger, BuffersAdded
    <2> USE DEF IndexInv, IndexType, LinksAgree, IdleHoldsNoData, Pending
    <2>4. IndexType'
      BY <2>2, <2>3, SMT
    <2>5. LinksAgree'
      BY <2>2, <2>3, SMT
    <2>6. IdleHoldsNoData'
      BY <2>2, <2>3, SMT
    <2> QED
      BY <2>4, <2>5, <2>6
  <1>EvictTraceKeeps.
      ASSUME IndexInv, NEW t \in TraceIds, EvictTrace(t)
      PROVE  IndexInv'
    <2> USE <1>EvictTraceKeeps
    <2>1. /\ traceState[t] = "untriggered"
          /\ traceState' = [traceState EXCEPT ![t] = "none"]
          /\ buffers' = [buffers EXCEPT ![t] = {}]
          /\ UNCHANGED <<triggers, firedState, traces>>
      BY DEF EvictTrace, firedVars
    <2> QED
      BY <2>1, SMT DEF IndexInv, IndexType, LinksAgree, IdleHoldsNoData, Pending
  (* Reporting a trigger empties all of its traces, so that it may be idle.  *)
  <1>ReportKeeps.
      ASSUME IndexInv, NEW f \in Triggers, GetBuffersForReport(f)
      PROVE  IndexInv'
    <2> USE <1>ReportKeeps
    <2>1. /\ firedState[f] = "reporting"
          /\ traceState' = [t \in TraceIds |->
                               IF t \in traces[f] THEN "triggered" ELSE traceState[t]]
          /\ buffers' = [t \in TraceIds |-> IF t \in traces[f] THEN {} ELSE buffers[t]]
          /\ firedState' = [firedState EXCEPT ![f] = "idle"]
          /\ UNCHANGED <<triggers, traces>>
      BY DEF GetBuffersForReport
    <2> USE DEF IndexInv, IndexType, LinksAgree, IdleHoldsNoData, Pending
    <2>2. IndexType'
      BY <2>1
    <2>3. LinksAgree'
      BY <2>1, SMT
    <2>4. IdleHoldsNoData'
      BY <2>1, SMT
    <2> QED
      BY <2>2, <2>3, <2>4
  (* Removing a trigger deletes the traces that it alone keeps.              *)
  <1>UnhookKeeps.
      ASSUME IndexInv, NEW f \in Triggers, Unhook(f)
      PROVE  IndexInv'
    <2> USE <1>UnhookKeeps
    <2> DEFINE gone == OnlyTrigger(f)
    <2>1. /\ traceState' = [t \in TraceIds |-> IF t \in gone THEN "none" ELSE traceState[t]]
          /\ buffers' = [t \in TraceIds |-> IF t \in gone THEN {} ELSE buffers[t]]
          /\ triggers' = [t \in TraceIds |->
                             IF t \in traces[f] THEN triggers[t] \ {f} ELSE triggers[t]]
          /\ traces' = [traces EXCEPT ![f] = {}]
          /\ firedState' = [firedState EXCEPT ![f] = "none"]
      BY DEF Unhook
    <2>2. gone = {t \in traces[f] : triggers[t] = {f}}
      BY DEF OnlyTrigger
    <2> HIDE DEF gone
    <2> USE DEF IndexInv, IndexType, LinksAgree, IdleHoldsNoData, Pending
    <2>3. IndexType'
      BY <2>1
    <2>4. LinksAgree'
      BY <2>1, <2>2, SMT
    <2>5. IdleHoldsNoData'
      BY <2>1, SMT
    <2> QED
      BY <2>3, <2>4, <2>5
  (* Steps of the processing loop that leave the index alone.                *)
  <1>LoopKeeps.
      ASSUME Inv, UNCHANGED dmvars, HeldInv'
      PROVE  Inv'
    BY <1>LoopKeeps, <1>IndexStutter DEF Inv, dmvars, traceVars, firedVars
  <1>HandleKeeps.
      ASSUME BuffersCount PROVE Inv /\ Handle => Inv'
    <2> USE <1>HandleKeeps
    <2> SUFFICES ASSUME Inv, Handle PROVE Inv'
      OBVIOUS
    <2>1. CASE Tick
      <3>1. IndexInv'
        BY <2>1, <1>IndexStutter DEF Inv, Tick, traceVars, firedVars
      <3>2. HeldInv'
        BY <2>1 DEF Inv, Tick, agentVars, loopVars, reportVars, HeldInv
      <3> QED
        BY <3>1, <3>2 DEF Inv
    <2>2. CASE CompleteBegin
      <3>1. PICK b \in Batches : /\ batch' = b
                                 /\ outside' = outside \ UNION {b[t] : t \in DOMAIN b}
        BY <2>2 DEF CompleteBegin
      <3>2. PICK T \in SUBSET (TraceIds \cup {0}) : b \in [T -> SUBSET outside] /\ \A t \in T : b[t] # {}
        BY <3>1 DEF Batches
      <3>3. HeldInv'
        BY <2>2, <3>1, <3>2 DEF Inv, HeldInv, CompleteBegin, reportVars
      <3> QED
        BY <2>2, <3>3, <1>LoopKeeps DEF CompleteBegin
    <2>3. ASSUME NEW t \in TraceIds, NEW C, ProcessBreadcrumbs(t, C) PROVE Inv'
      <3>1. IndexInv'
        BY <2>3, <1>AddBreadcrumbsKeeps DEF Inv, ProcessBreadcrumbs
      <3>2. HeldInv'
        BY <2>3 DEF Inv, HeldInv, ProcessBreadcrumbs, loopVars, reportVars
      <3> QED
        BY <3>1, <3>2 DEF Inv
    <2>4. ASSUME NEW x \in Fireable, ProcessTrigger(x) \/ ProcessRemoteTrigger(x) PROVE Inv'
      <3>1. Trigger(<<x[1], x[2]>>, x[3]) \/ UNCHANGED dmvars
        BY <2>4 DEF ProcessTrigger, ProcessRemoteTrigger
      <3>2. HeldInv'
        BY <2>4 DEF Inv, HeldInv, ProcessTrigger, ProcessRemoteTrigger, loopVars, reportVars
      <3>3. CASE Trigger(<<x[1], x[2]>>, x[3])
        BY <3>2, <3>3, <1>TriggerKeeps, FireableTriggers DEF Inv
      <3> QED
        BY <3>1, <3>2, <3>3, <1>LoopKeeps
    <2> QED
      BY <2>1, <2>2, <2>3, <2>4 DEF Handle
  <1>ContinueKeeps.
      Inv /\ Continue => Inv'
    <2> SUFFICES ASSUME Inv, Continue PROVE Inv'
      OBVIOUS
    <2>1. ASSUME NEW t \in TraceIds \cup {0}, CompleteEntry(t) PROVE Inv'
      <3>1. HeldInv'
        BY <2>1 DEF Inv, HeldInv, CompleteEntry, Rest, reportVars
      <3>2. CASE t = 0
        BY <2>1, <3>1, <3>2, <1>LoopKeeps DEF CompleteEntry
      <3>3. CASE t # 0
        <4>1. AddBuffers(t, batch[t]) /\ t \in TraceIds /\ batch[t] \in SUBSET Buffers /\ batch[t] # {}
          BY <2>1, <3>3 DEF CompleteEntry, Inv, HeldInv
        <4> QED
          BY <3>1, <4>1, <1>AddBuffersKeeps DEF Inv
      <3> QED
        BY <3>2, <3>3
    <2>2. CASE CompleteEnd
      BY <2>2, <1>LoopKeeps, SMT DEF Inv, HeldInv, CompleteEnd, reportVars, NoBatch
    <2>3. ASSUME NEW q \in Queues, NEW f \in Triggers, CheckIdle(q, f) PROVE Inv'
      <3>1. HeldInv'
        BY <2>3 DEF Inv, HeldInv, CheckIdle, agentVars, loopVars, reportVars
      <3> QED
        BY <2>3, <3>1, <1>UnhookKeeps DEF Inv, CheckIdle, TimeOut
    <2>4. CASE CheckIdleEnd
      BY <2>4, <1>LoopKeeps DEF Inv, HeldInv, CheckIdleEnd, reportVars
    <2>5. CASE EvictTriggered
      <3>1. PICK f \in Triggers : EvictTrigger(f) /\ evicted' = evicted \cup BuffersOfEviction(f)
        BY <2>5 DEF EvictTriggered, EvictNextOf
      <3>2. BuffersOfEviction(f) \subseteq Buffers
        BY DEF BuffersOfEviction, OnlyTrigger, Inv, IndexInv, IndexType
      <3>3. HeldInv'
        BY <2>5, <3>1, <3>2 DEF Inv, HeldInv, EvictTriggered, reportVars
      <3> QED
        BY <3>1, <3>3, <1>UnhookKeeps DEF Inv, EvictTrigger
    <2>6. CASE EvictTriggeredEnd
      BY <2>6, <1>LoopKeeps DEF Inv, HeldInv, EvictTriggeredEnd, reportVars
    <2>7. ASSUME NEW t \in TraceIds, EvictUntriggered(t) PROVE Inv'
      <3>1. HeldInv'
        BY <2>7 DEF Inv, HeldInv, IndexInv, IndexType, EvictUntriggered, reportVars
      <3> QED
        BY <2>7, <3>1, <1>EvictTraceKeeps DEF Inv, EvictUntriggered
    <2>8. CASE EvictEnd
      BY <2>8, <1>LoopKeeps DEF Inv, HeldInv, EvictEnd, reportVars
    <2>9. ASSUME NEW q \in Queues, ReportNext(q) PROVE Inv'
      <3>1. PICK f \in Triggers : GetBuffersForReport(f) /\ data' = data \cup BuffersForReport(f)
        BY <2>9 DEF ReportNext, ReportNextOf
      <3>2. BuffersForReport(f) \subseteq Buffers
        BY DEF BuffersForReport, Inv, IndexInv, IndexType
      <3>3. HeldInv'
        BY <2>9, <3>1, <3>2 DEF Inv, HeldInv, ReportNext, loopVars, reportVars
      <3> QED
        BY <3>1, <3>3, <1>ReportKeeps DEF Inv
    <2>10. CASE ReportEnd
      BY <2>10, <1>LoopKeeps DEF Inv, HeldInv, ReportEnd, loopVars, reportVars
    <2> QED
      BY <2>1, <2>2, <2>3, <2>4, <2>5, <2>6, <2>7, <2>8, <2>9, <2>10 DEF Continue
  <1>ReportKeepsIndex.
      Inv /\ (ReportTimer \/ ReportSend \/ Reporter) => Inv'
    <2> SUFFICES ASSUME Inv, ReportTimer \/ ReportSend \/ Reporter PROVE Inv'
      OBVIOUS
    <2> USE DEF loopVars, reportVars
    <2>1. CASE ReportTimer
      BY <2>1, <1>LoopKeeps DEF Inv, HeldInv, ReportTimer
    <2>2. CASE ReportSend
      <3>1. channel' \in Seq(SUBSET Buffers)
        BY <2>2, SMT DEF Inv, HeldInv, ReportSend
      <3>2. HeldInv'
        BY <2>2, <3>1 DEF Inv, HeldInv, ReportSend
      <3> QED
        BY <2>2, <3>2, <1>LoopKeeps DEF ReportSend
    <2>3. CASE Connect
      BY <2>3, <1>LoopKeeps DEF Inv, HeldInv, Connect
    <2>4. CASE ReporterTake
      <3>1. channel' \in Seq(SUBSET Buffers) /\ inflight' \subseteq Buffers
        BY <2>4, SMT DEF Inv, HeldInv, ReporterTake
      <3>2. HeldInv'
        BY <2>4, <3>1 DEF Inv, HeldInv, ReporterTake
      <3> QED
        BY <2>4, <3>2, <1>LoopKeeps DEF ReporterTake
    <2>5. CASE ReporterReturn
      BY <2>5, <1>LoopKeeps DEF Inv, HeldInv, ReporterReturn
    <2> QED
      BY <2>1, <2>2, <2>3, <2>4, <2>5 DEF Reporter
  <1>1. Inv /\ UNCHANGED vars => Inv'
    BY <1>LoopKeeps DEF Inv, HeldInv, vars, agentVars, loopVars, reportVars
  <1> QED
    BY <1>1, <1>HandleKeeps, <1>ContinueKeeps, <1>ReportKeepsIndex DEF Next

-----------------------------------------------------------------------------
(***************************************************************************)
(* Every buffer is in one place.  At says in which kinds of place a buffer *)
(* is; Apart that no two traces, entries or batches hold the same one.     *)
(***************************************************************************)

Kinds == {"index", "batch", "channel", "freed", "evicted", "data", "inflight", "outside"}

At(k, b) ==
    \/ k = "index" /\ \E t \in TraceIds : b \in buffers[t]
    \/ k = "batch" /\ \E t \in DOMAIN batch : b \in batch[t]
    \/ k = "channel" /\ \E i \in DOMAIN channel : b \in channel[i]
    \/ k = "freed" /\ b \in freed
    \/ k = "evicted" /\ b \in evicted
    \/ k = "data" /\ b \in data
    \/ k = "inflight" /\ b \in inflight
    \/ k = "outside" /\ b \in outside

OneKind == \A b \in Buffers : \E k \in Kinds : \A j \in Kinds : At(j, b) <=> j = k

Apart ==
    /\ \A b : \A t, u \in TraceIds : b \in buffers[t] /\ b \in buffers[u] => t = u
    /\ \A b : \A t, u \in DOMAIN batch : b \in batch[t] /\ b \in batch[u] => t = u
    /\ \A b : \A i, j \in DOMAIN channel : b \in channel[i] /\ b \in channel[j] => i = j

OnePlace == OneKind /\ Apart

\* the places change, for the buffers of M, from kinds other than j to kind j
Pours(M, j) ==
    /\ \A b \in Buffers \ M : \A k \in Kinds : At(k, b)' <=> At(k, b)
    /\ \A b \in M : \A k \in Kinds : At(k, b)' <=> k = j

LEMMA InitOnePlace == Init => OnePlace
  <1> SUFFICES ASSUME Init PROVE OnePlace
    OBVIOUS
  <1>1. /\ \A t \in TraceIds : buffers[t] = {}
        /\ DOMAIN batch = {} /\ DOMAIN channel = {}
        /\ freed = {} /\ evicted = {} /\ data = {} /\ inflight = {} /\ outside = Buffers
    BY SMT DEF Init, DMInit, NoBatch
  <1>2. \A b \in Buffers : \A j \in Kinds : At(j, b) <=> j = "outside"
    BY <1>1 DEF At
  <1>3. "outside" \in Kinds
    BY DEF Kinds
  <1> QED
    BY <1>1, <1>2, <1>3 DEF OnePlace, OneKind, Apart

(* While no batch is being processed, none is held.                        *)
BatchInv == pc # "complete" => DOMAIN batch = {}

PlaceInv == OnePlace /\ BatchInv

LEMMA InitPlaceInv == Init => PlaceInv
  <1>1. Init => DOMAIN batch = {}
    BY SMT DEF Init, NoBatch
  <1> QED
    BY <1>1, InitOnePlace DEF PlaceInv, BatchInv

LEMMA NextPlaces == Inv /\ PlaceInv /\ [Next]_vars => PlaceInv'
  <1>PoursOneKind.
      ASSUME OneKind, NEW M, NEW j \in Kinds, Pours(M, j) PROVE OneKind'
    <2> USE <1>PoursOneKind
    <2> SUFFICES ASSUME NEW b \in Buffers
                 PROVE  \E k \in Kinds : \A i \in Kinds : At(i, b)' <=> i = k
      BY DEF OneKind
    <2>1. CASE b \in M
      BY <2>1 DEF Pours
    <2>2. CASE b \notin M
      <3>1. PICK k \in Kinds : \A i \in Kinds : At(i, b) <=> i = k
        BY DEF OneKind
      <3>2. \A i \in Kinds : At(i, b)' <=> At(i, b)
        BY <2>2 DEF Pours
      <3> QED
        BY <3>1, <3>2
    <2> QED
      BY <2>1, <2>2
  (* A buffer that is at one kind is at no other.                            *)
  <1>OnlyAt.
      ASSUME OneKind, NEW b \in Buffers, NEW i \in Kinds, At(i, b), NEW j \in Kinds, j # i
      PROVE  ~At(j, b)
    BY <1>OnlyAt DEF OneKind
  (* What moves from one kind of place to another.                           *)
  <1>MovesOneKind.
      ASSUME OneKind, NEW i \in Kinds, NEW j \in Kinds, i # j, NEW M \in SUBSET Buffers,
             \A b \in M : At(i, b),
             \A b \in Buffers : At(i, b)' <=> At(i, b) /\ b \notin M,
             \A b \in Buffers : At(j, b)' <=> At(j, b) \/ b \in M,
             \A b \in Buffers : \A k \in Kinds \ {i, j} : At(k, b)' <=> At(k, b)
      PROVE  OneKind'
    <2> USE <1>MovesOneKind
    <2>1. ASSUME NEW b \in M, NEW k \in Kinds PROVE At(k, b)' <=> k = j
      <3>1. b \in Buffers /\ At(i, b)
        OBVIOUS
      <3>2. \A l \in Kinds : l # i => ~At(l, b)
        BY <3>1, <1>OnlyAt
      <3> QED
        BY <3>1, <3>2
    <2>2. ASSUME NEW b \in Buffers \ M, NEW k \in Kinds PROVE At(k, b)' <=> At(k, b)
      OBVIOUS
    <2> QED
      BY <2>1, <2>2, <1>PoursOneKind DEF Pours
  <1>StayInPlaces.
      ASSUME OnePlace,
             UNCHANGED <<buffers, batch, channel, freed, evicted, data, inflight, outside>>
      PROVE  OnePlace'
    <2> USE <1>StayInPlaces
    <2>1. \A k, b : At(k, b)' <=> At(k, b)
      BY SMT DEF At
    <2>2. OneKind'
      BY <2>1 DEF OnePlace, OneKind
    <2>3. Apart'
      BY DEF OnePlace, Apart
    <2> QED
      BY <2>2, <2>3 DEF OnePlace
  (* Taking the buffers of some traces into a set.                           *)
  <1>TakeFromIndex.
      ASSUME OnePlace, buffers \in [TraceIds -> SUBSET Buffers], NEW T \in SUBSET TraceIds,
             \A t \in TraceIds : buffers'[t] = IF t \in T THEN {} ELSE buffers[t],
             UNCHANGED <<batch, channel, freed, inflight, outside>>,
             \/ evicted' = evicted \cup UNION {buffers[t] : t \in T} /\ UNCHANGED data
             \/ data' = data \cup UNION {buffers[t] : t \in T} /\ UNCHANGED evicted
      PROVE  OnePlace'
    <2> USE <1>TakeFromIndex
    <2> DEFINE M == UNION {buffers[t] : t \in T}
    <2>1. M \in SUBSET Buffers
      OBVIOUS
    <2>2. \A b \in M : At("index", b)
      BY DEF At
    <2>3. \A b : At("index", b)' <=> At("index", b) /\ b \notin M
      <3> SUFFICES ASSUME NEW b PROVE (\E t \in TraceIds : b \in buffers'[t])
                                        <=> (\E t \in TraceIds : b \in buffers[t]) /\ b \notin M
        BY SMT DEF At
      <3>1. ASSUME NEW t \in TraceIds, b \in buffers'[t] PROVE b \in buffers[t] /\ b \notin M
        <4>1. t \notin T /\ b \in buffers[t]
          BY <3>1
        <4>2. \A u \in T : b \notin buffers[u]
          BY <4>1 DEF OnePlace, Apart
        <4> QED
          BY <4>1, <4>2
      <3>2. ASSUME NEW t \in TraceIds, b \in buffers[t], b \notin M PROVE b \in buffers'[t]
        <4>1. t \notin T
          BY <3>2
        <4> QED
          BY <3>2, <4>1
      <3> QED
        BY <3>1, <3>2
    <2>4. Apart'
      BY DEF OnePlace, Apart
    <2>k. {"index", "evicted", "data"} \subseteq Kinds
      BY DEF Kinds
    <2>5. CASE evicted' = evicted \cup M /\ UNCHANGED data
      <3>1. \A b : At("evicted", b)' <=> At("evicted", b) \/ b \in M
        BY <2>5 DEF At
      <3>2. \A b : \A k \in Kinds \ {"index", "evicted"} : At(k, b)' <=> At(k, b)
        BY <2>5, SMT DEF At
      <3> HIDE DEF M
      <3>3. OneKind'
        BY <2>1, <2>2, <2>3, <2>k, <3>1, <3>2, <1>MovesOneKind DEF OnePlace
      <3> QED
        BY <2>4, <3>3 DEF OnePlace
    <2>6. CASE data' = data \cup M /\ UNCHANGED evicted
      <3>1. \A b : At("data", b)' <=> At("data", b) \/ b \in M
        BY <2>6 DEF At
      <3>2. \A b : \A k \in Kinds \ {"index", "data"} : At(k, b)' <=> At(k, b)
        BY <2>6, SMT DEF At
      <3> HIDE DEF M
      <3>3. OneKind'
        BY <2>1, <2>2, <2>3, <2>k, <3>1, <3>2, <1>MovesOneKind DEF OnePlace
      <3> QED
        BY <2>4, <3>3 DEF OnePlace
    <2> QED
      BY <2>5, <2>6
  (* Sets of buffers go back to the pool.                                    *)
  <1>ReturnToPool.
      ASSUME OnePlace, HeldInv, UNCHANGED <<buffers, channel, data>>,
             DOMAIN batch' = DOMAIN batch, \A t \in DOMAIN batch : batch'[t] = batch[t],
             freed' \in {freed, {}}, evicted' \in {evicted, {}}, inflight' \in {inflight, {}},
             outside' = outside \cup (freed \ freed') \cup (evicted \ evicted')
                                \cup (inflight \ inflight')
      PROVE  OnePlace'
    <2> USE <1>ReturnToPool
    <2> DEFINE M == (freed \ freed') \cup (evicted \ evicted') \cup (inflight \ inflight')
               Sinks == {"freed", "evicted", "inflight", "outside"}
    <2>k. Sinks \subseteq Kinds
      BY DEF Kinds
    <2>1. \A k, b : k \notin Sinks => (At(k, b)' <=> At(k, b))
      BY SMT DEF At
    <2>2. /\ \A b : At("freed", b) <=> b \in freed
          /\ \A b : At("evicted", b) <=> b \in evicted
          /\ \A b : At("inflight", b) <=> b \in inflight
          /\ \A b : At("outside", b) <=> b \in outside
      BY DEF At
    <2>3. /\ \A b : At("freed", b)' <=> b \in freed'
          /\ \A b : At("evicted", b)' <=> b \in evicted'
          /\ \A b : At("inflight", b)' <=> b \in inflight'
          /\ \A b : At("outside", b)' <=> b \in outside'
      BY DEF At
    <2>4. freed' \subseteq freed /\ evicted' \subseteq evicted /\ inflight' \subseteq inflight
      OBVIOUS
    <2>5. ASSUME NEW b \in M, NEW k \in Kinds PROVE At(k, b)' <=> k = "outside"
      <3>1. b \in Buffers
        BY DEF HeldInv
      <3>2. PICK i \in {"freed", "evicted", "inflight"} : At(i, b) /\ ~At(i, b)'
        BY <2>2, <2>3
      <3>3. \A j \in Kinds : j # i => ~At(j, b)
        BY <2>k, <3>1, <3>2, <1>OnlyAt DEF OnePlace
      <3>4. CASE k \notin Sinks
        BY <2>1, <3>2, <3>3, <3>4
      <3>5. CASE k = "outside"
        BY <2>3, <3>5
      <3>6. CASE k = i
        BY <3>2, <3>6
      <3>7. CASE k \in {"freed", "evicted", "inflight"} /\ k # i
        BY <2>2, <2>3, <2>4, <3>3, <3>7
      <3> QED
        BY <3>4, <3>5, <3>6, <3>7
    <2>6. ASSUME NEW b \in Buffers \ M, NEW k \in Kinds PROVE At(k, b)' <=> At(k, b)
      <3>1. CASE k \notin Sinks
        BY <2>1, <3>1
      <3>2. CASE k = "outside"
        BY <2>2, <2>3, <3>2
      <3>3. CASE k \in {"freed", "evicted", "inflight"}
        BY <2>2, <2>3, <2>4, <3>3
      <3> QED
        BY <3>1, <3>2, <3>3
    <2>7. Apart'
      BY SMT DEF OnePlace, Apart
    <2>8. Pours(M, "outside")
      BY <2>5, <2>6 DEF Pours
    <2> HIDE DEF M
    <2>9. OneKind'
      BY <2>k, <2>8, <1>PoursOneKind DEF OnePlace
    <2> QED
      BY <2>7, <2>9 DEF OnePlace
  (* A batch arrives: its buffers come from outside.                         *)
  <1>BatchArrives.
      ASSUME OnePlace, HeldInv, DOMAIN batch = {}, CompleteBegin
      PROVE  OnePlace'
    <2> USE <1>BatchArrives
    <2>1. PICK b \in Batches : batch' = b /\ outside' = outside \ UNION {b[t] : t \in DOMAIN b}
      BY DEF CompleteBegin
    <2>2. PICK T : /\ b \in [T -> SUBSET outside]
                   /\ \A t, u \in T : t # u => b[t] \cap b[u] = {}
      BY DEF Batches
    <2> DEFINE M == UNION {b[t] : t \in DOMAIN b}
    <2>3. M \subseteq outside /\ M \in SUBSET Buffers
      BY <2>2, SMT DEF HeldInv
    <2>4. UNCHANGED <<buffers, channel, freed, evicted, data, inflight>>
      BY DEF CompleteBegin, dmvars, traceVars, reportVars
    <2>k. {"outside", "batch"} \subseteq Kinds
      BY DEF Kinds
    <2>5. /\ \A x \in M : At("outside", x)
          /\ \A x : At("outside", x)' <=> At("outside", x) /\ x \notin M
      BY <2>1, <2>3 DEF At
    <2>6. \A x : At("batch", x)' <=> At("batch", x) \/ x \in M
      BY <2>1, SMT DEF At
    <2>7. \A x : \A k \in Kinds \ {"outside", "batch"} : At(k, x)' <=> At(k, x)
      BY <2>4, SMT DEF At
    <2>8. Apart'
      <3>1. \A x : \A t, u \in DOMAIN batch' : x \in batch'[t] /\ x \in batch'[u] => t = u
        BY <2>1, <2>2
      <3> QED
        BY <2>4, <3>1 DEF OnePlace, Apart
    <2> HIDE DEF M
    <2>9. OneKind'
      BY <2>3, <2>5, <2>6, <2>7, <2>k, <1>MovesOneKind DEF OnePlace
    <2> QED
      BY <2>8, <2>9 DEF OnePlace
  (* An entry of the batch is freed or goes to its trace.                    *)
  <1>EntryLeavesBatch.
      ASSUME OnePlace, HeldInv, buffers \in [TraceIds -> SUBSET Buffers],
             NEW t \in DOMAIN batch, batch' = Rest(t),
             UNCHANGED <<channel, evicted, data, inflight, outside>>,
             \/ freed' = freed \cup batch[t] /\ UNCHANGED buffers
             \/ /\ t \in TraceIds /\ UNCHANGED freed
                /\ buffers' = [buffers EXCEPT ![t] = @ \cup batch[t]]
      PROVE  OnePlace'
    <2> USE <1>EntryLeavesBatch
    <2> DEFINE M == batch[t]
    <2>1. M \in SUBSET Buffers /\ \A x \in M : At("batch", x)
      BY DEF HeldInv, At
    <2>2. /\ DOMAIN batch' = DOMAIN batch \ {t}
          /\ \A u \in DOMAIN batch' : batch'[u] = batch[u]
      BY DEF Rest
    <2>3. \A x : At("batch", x)' <=> At("batch", x) /\ x \notin M
      <3>1. \A x : x \in M => \A u \in DOMAIN batch : u # t => x \notin batch[u]
        BY DEF OnePlace, Apart
      <3> QED
        BY <2>2, <3>1, SMT DEF At
    <2>k. {"batch", "freed", "index"} \subseteq Kinds
      BY DEF Kinds
    <2>4. CASE freed' = freed \cup M /\ UNCHANGED buffers
      <3>1. \A x : At("freed", x)' <=> At("freed", x) \/ x \in M
        BY <2>4 DEF At
      <3>2. \A x : \A k \in Kinds \ {"batch", "freed"} : At(k, x)' <=> At(k, x)
        BY <2>4, SMT DEF At
      <3>3. Apart'
        BY <2>2, <2>4, SMT DEF OnePlace, Apart
      <3> HIDE DEF M
      <3>4. OneKind'
        BY <2>1, <2>3, <2>k, <3>1, <3>2, <1>MovesOneKind DEF OnePlace
      <3> QED
        BY <3>3, <3>4 DEF OnePlace
    <2>5. CASE /\ t \in TraceIds /\ UNCHANGED freed
               /\ buffers' = [buffers EXCEPT ![t] = @ \cup M]
      <3>1. \A u \in TraceIds : buffers'[u] = IF u = t THEN buffers[u] \cup M ELSE buffers[u]
        BY <2>5
      <3>2. \A x : At("index", x)' <=> At("index", x) \/ x \in M
        BY <2>5, <3>1, SMT DEF At
      <3>3. \A x : \A k \in Kinds \ {"batch", "index"} : At(k, x)' <=> At(k, x)
        BY <2>5, SMT DEF At
      <3>4. \A x \in M : \A u \in TraceIds : x \notin buffers[u]
        <4>1. \A x \in M : x \in Buffers /\ ~At("index", x)
          BY <2>1, <2>k, <1>OnlyAt DEF OnePlace
        <4> QED
          BY <4>1 DEF At
      <3>5. Apart'
        <4>1. \A x : \A u, v \in TraceIds : x \in buffers'[u] /\ x \in buffers'[v] => u = v
          BY <3>1, <3>4, SMT DEF OnePlace, Apart
        <4> QED
          BY <2>2, <4>1, SMT DEF OnePlace, Apart
      <3> HIDE DEF M
      <3>6. OneKind'
        BY <2>1, <2>3, <2>k, <3>2, <3>3, <1>MovesOneKind DEF OnePlace
      <3> QED
        BY <3>5, <3>6 DEF OnePlace
    <2> QED
      BY <2>4, <2>5
  (* The pending batch is queued for the reporting goroutine.                *)
  <1>DataToChannel.
      ASSUME OnePlace, HeldInv, channel' = Append(channel, data), data' = {},
             UNCHANGED <<buffers, batch, freed, evicted, inflight, outside>>
      PROVE  OnePlace'
    <2> USE <1>DataToChannel
    <2>1. /\ Len(channel) \in Nat /\ DOMAIN channel = 1 .. Len(channel)
          /\ DOMAIN channel' = 1 .. (Len(channel) + 1)
          /\ channel'[Len(channel) + 1] = data
          /\ \A i \in DOMAIN channel : channel'[i] = channel[i]
      BY SMT DEF HeldInv
    <2>2. /\ DOMAIN channel' = DOMAIN channel \cup {Len(channel) + 1}
          /\ Len(channel) + 1 \notin DOMAIN channel
      BY <2>1, SMT
    <2>k. {"data", "channel"} \subseteq Kinds
      BY DEF Kinds
    <2>3. /\ data \in SUBSET Buffers /\ \A b \in data : At("data", b)
          /\ \A b : At("data", b)' <=> At("data", b) /\ b \notin data
      BY DEF HeldInv, At
    <2>4. \A b : At("channel", b)' <=> At("channel", b) \/ b \in data
      BY <2>1, <2>2, SMT DEF At
    <2>5. \A b : \A k \in Kinds \ {"data", "channel"} : At(k, b)' <=> At(k, b)
      BY SMT DEF At
    <2>6. OneKind'
      BY <2>3, <2>4, <2>5, <2>k, <1>MovesOneKind DEF OnePlace
    <2>7. \A b \in data : \A i \in DOMAIN channel : b \notin channel[i]
      <3>1. \A b \in data : ~At("channel", b)
        BY <2>3, <2>k, <1>OnlyAt DEF OnePlace
      <3> QED
        BY <3>1 DEF At
    <2>8. \A b : \A i, j \in DOMAIN channel' : b \in channel'[i] /\ b \in channel'[j] => i = j
      BY <2>1, <2>2, <2>7, SMT DEF OnePlace, Apart
    <2>9. Apart'
      BY <2>8, SMT DEF OnePlace, Apart
    <2> QED
      BY <2>6, <2>9 DEF OnePlace
  (* The reporting goroutine takes the oldest batch.                         *)
  <1>ChannelToInflight.
      ASSUME OnePlace, HeldInv, channel # <<>>, inflight = {},
             inflight' = Head(channel), channel' = Tail(channel),
             UNCHANGED <<buffers, batch, freed, evicted, data, outside>>
      PROVE  OnePlace'
    <2> USE <1>ChannelToInflight
    <2>1. /\ Len(channel) \in Nat /\ DOMAIN channel = 1 .. Len(channel) /\ 1 \in DOMAIN channel
          /\ DOMAIN channel' = 1 .. (Len(channel) - 1)
          /\ \A i \in DOMAIN channel' : channel'[i] = channel[i + 1]
          /\ inflight' = channel[1]
      BY SMT DEF HeldInv
    <2>2. /\ \A i \in DOMAIN channel' : i + 1 \in DOMAIN channel /\ i + 1 # 1
          /\ \A i \in DOMAIN channel : i # 1 => i - 1 \in DOMAIN channel' /\ (i - 1) + 1 = i
          /\ \A i, j \in DOMAIN channel' : i + 1 = j + 1 => i = j
      BY <2>1, SMT
    <2> DEFINE M == channel[1]
    <2>k. {"channel", "inflight"} \subseteq Kinds
      BY DEF Kinds
    <2>3. M \in SUBSET Buffers /\ \A b \in M : At("channel", b)
      BY <2>1, SMT DEF HeldInv, At
    <2>4. \A b \in M : \A i \in DOMAIN channel : i # 1 => b \notin channel[i]
      BY <2>1 DEF OnePlace, Apart
    <2>5. \A b : At("channel", b)' <=> At("channel", b) /\ b \notin M
      <3> SUFFICES ASSUME NEW b
                   PROVE  (\E i \in DOMAIN channel' : b \in channel'[i])
                            <=> (\E i \in DOMAIN channel : b \in channel[i]) /\ b \notin M
        BY SMT DEF At
      <3>1. ASSUME NEW i \in DOMAIN channel', b \in channel'[i]
            PROVE  (\E j \in DOMAIN channel : b \in channel[j]) /\ b \notin M
        <4>1. i + 1 \in DOMAIN channel /\ i + 1 # 1 /\ b \in channel[i + 1]
          BY <2>1, <2>2, <3>1
        <4> QED
          BY <2>4, <4>1
      <3>2. ASSUME NEW i \in DOMAIN channel, b \in channel[i], b \notin M
            PROVE  \E j \in DOMAIN channel' : b \in channel'[j]
        <4>1. i # 1
          BY <3>2
        <4>2. i - 1 \in DOMAIN channel' /\ (i - 1) + 1 = i
          BY <2>2, <4>1
        <4>3. channel'[i - 1] = channel[i]
          BY <2>1, <4>2
        <4> QED
          BY <3>2, <4>2, <4>3
      <3> QED
        BY <3>1, <3>2
    <2>6. \A b : At("inflight", b)' <=> At("inflight", b) \/ b \in M
      BY <2>1, SMT DEF At
    <2>7. \A b : \A k \in Kinds \ {"channel", "inflight"} : At(k, b)' <=> At(k, b)
      BY SMT DEF At
    <2>8. \A b : \A i, j \in DOMAIN channel' : b \in channel'[i] /\ b \in channel'[j] => i = j
      <3> SUFFICES ASSUME NEW b, NEW i \in DOMAIN channel', NEW j \in DOMAIN channel',
                          b \in channel'[i], b \in channel'[j]
                   PROVE  i = j
        OBVIOUS
      <3>1. i + 1 = j + 1
        <4>1. /\ i + 1 \in DOMAIN channel /\ b \in channel[i + 1]
              /\ j + 1 \in DOMAIN channel /\ b \in channel[j + 1]
          BY <2>1, <2>2
        <4> QED
          BY <4>1 DEF OnePlace, Apart
      <3> QED
        BY <2>2, <3>1
    <2>9. Apart'
      BY <2>8, SMT DEF OnePlace, Apart
    <2> HIDE DEF M
    <2>10. OneKind'
      BY <2>3, <2>5, <2>6, <2>7, <2>k, <1>MovesOneKind DEF OnePlace
    <2> QED
      BY <2>9, <2>10 DEF OnePlace
  <1>HandlePlaces.
      Inv /\ PlaceInv /\ Handle => PlaceInv'
    <2> SUFFICES ASSUME Inv, PlaceInv, Handle PROVE PlaceInv'
      OBVIOUS
    <2> USE DEF loopVars, reportVars
    <2>1. CASE CompleteBegin
      <3>1. OnePlace'
        BY <2>1, <1>BatchArrives DEF Inv, PlaceInv, BatchInv, CompleteBegin
      <3> QED
        BY <2>1, <3>1 DEF PlaceInv, BatchInv, CompleteBegin
    <2>2. ASSUME UNCHANGED <<buffers, pc, loopVars, channel, data, inflight, outside>>
          PROVE  PlaceInv'
      <3>1. OnePlace'
        BY <2>2, <1>StayInPlaces DEF PlaceInv
      <3> QED
        BY <2>2, <3>1 DEF PlaceInv, BatchInv
    <2>3. CASE Tick
      BY <2>2, <2>3 DEF Tick, traceVars, agentVars
    <2>4. ASSUME NEW t \in TraceIds, NEW C, ProcessBreadcrumbs(t, C) PROVE PlaceInv'
      <3>1. buffers' = buffers
        BY <2>4 DEF ProcessBreadcrumbs, AddBreadcrumbs, dmvars, traceVars
      <3> QED
        BY <2>2, <2>4, <3>1 DEF ProcessBreadcrumbs
    <2>5. ASSUME NEW x \in Fireable, ProcessTrigger(x) \/ ProcessRemoteTrigger(x) PROVE PlaceInv'
      <3>1. buffers' = buffers
        BY <2>5 DEF ProcessTrigger, ProcessRemoteTrigger, Trigger, dmvars, traceVars
      <3> QED
        BY <2>2, <2>5, <3>1 DEF ProcessTrigger, ProcessRemoteTrigger
    <2> QED
      BY <2>1, <2>3, <2>4, <2>5 DEF Handle
  <1>ContinuePlaces.
      Inv /\ PlaceInv /\ Continue => PlaceInv'
    <2> SUFFICES ASSUME Inv, PlaceInv, Continue PROVE PlaceInv'
      OBVIOUS
    <2> USE DEF loopVars, reportVars
    <2>i. OnePlace /\ HeldInv /\ buffers \in [TraceIds -> SUBSET Buffers]
      BY DEF Inv, PlaceInv, IndexInv, IndexType
    <2>b. ASSUME pc # "complete", UNCHANGED batch PROVE BatchInv'
      BY <2>b DEF PlaceInv, BatchInv
    <2>1. ASSUME NEW t \in TraceIds \cup {0}, CompleteEntry(t) PROVE PlaceInv'
      <3>1. pc' = pc /\ pc = "complete" /\ t \in DOMAIN batch /\ batch' = Rest(t)
        BY <2>1 DEF CompleteEntry
      <3>2. \/ freed' = freed \cup batch[t] /\ UNCHANGED buffers
            \/ /\ t \in TraceIds /\ UNCHANGED freed
               /\ buffers' = [buffers EXCEPT ![t] = @ \cup batch[t]]
        <4>1. CASE t = 0
          BY <2>1, <4>1 DEF CompleteEntry, dmvars, traceVars
        <4>2. CASE t # 0
          <5>1. AddBuffers(t, batch[t]) /\ UNCHANGED freed /\ t \in TraceIds
            BY <2>1, <4>2 DEF CompleteEntry
          <5> QED
            BY <5>1 DEF AddBuffers, AddBuffersUntriggered, AddBuffersTriggered
        <4> QED
          BY <4>1, <4>2
      <3>3. OnePlace'
        BY <2>1, <2>i, <3>1, <3>2, <1>EntryLeavesBatch DEF CompleteEntry
      <3> QED
        BY <3>1, <3>3 DEF PlaceInv, BatchInv
    <2>2. CASE CompleteEnd
      <3>1. DOMAIN batch = {} /\ batch' = NoBatch /\ DOMAIN batch' = {}
        BY <2>2, SMT DEF CompleteEnd, NoBatch
      <3>2. UNCHANGED <<buffers, channel, data, evicted, inflight>>
        BY <2>2 DEF CompleteEnd, dmvars, traceVars
      <3>3. freed' \in {freed, {}} /\ outside' = outside \cup (freed \ freed')
        BY <2>2 DEF CompleteEnd
      <3>4. OnePlace'
        BY <2>i, <3>1, <3>2, <3>3, <1>ReturnToPool
      <3> QED
        BY <3>1, <3>4 DEF PlaceInv, BatchInv
    <2>3. ASSUME NEW q \in Queues, NEW f \in Triggers, CheckIdle(q, f) PROVE PlaceInv'
      <3>1. firedState[f] = "idle" /\ Unhook(f) /\ UNCHANGED agentVars
        BY <2>3 DEF CheckIdle, TimeOut
      <3>2. \A t \in OnlyTrigger(f) : buffers[t] = {}
        BY <3>1 DEF OnlyTrigger, Inv, IndexInv, IdleHoldsNoData
      <3>3. buffers' = [t \in TraceIds |-> IF t \in OnlyTrigger(f) THEN {} ELSE buffers[t]]
        BY <3>1 DEF Unhook
      <3>4. buffers' = buffers
        BY <2>i, <3>2, <3>3, SMT
      <3>5. OnePlace'
        BY <2>i, <3>1, <3>4, <1>StayInPlaces DEF agentVars
      <3> QED
        BY <3>1, <3>5 DEF PlaceInv, BatchInv, agentVars
    <2>4. CASE CheckIdleEnd
      <3>1. OnePlace'
        BY <2>4, <2>i, <1>StayInPlaces DEF CheckIdleEnd, dmvars, traceVars
      <3> QED
        BY <2>4, <2>b, <3>1 DEF PlaceInv, CheckIdleEnd
    <2>5. CASE EvictTriggered
      <3>1. PICK f \in Triggers : EvictTrigger(f) /\ evicted' = evicted \cup BuffersOfEviction(f)
        BY <2>5 DEF EvictTriggered, EvictNextOf
      <3>2. /\ \A t \in TraceIds : buffers'[t] = IF t \in OnlyTrigger(f) THEN {} ELSE buffers[t]
            /\ OnlyTrigger(f) \in SUBSET TraceIds
            /\ evicted' = evicted \cup UNION {buffers[t] : t \in OnlyTrigger(f)}
        BY <3>1 DEF EvictTrigger, Unhook, BuffersOfEviction, OnlyTrigger, Inv, IndexInv, IndexType
      <3>3. OnePlace'
        BY <2>5, <2>i, <3>2, <1>TakeFromIndex DEF EvictTriggered
      <3> QED
        BY <2>5, <2>b, <3>3 DEF PlaceInv, EvictTriggered
    <2>6. CASE EvictTriggeredEnd
      <3>1. UNCHANGED <<buffers, channel, data, batch, freed, inflight>>
        BY <2>6 DEF EvictTriggeredEnd, dmvars, traceVars
      <3>2. evicted' = {} /\ outside' = outside \cup evicted
        BY <2>6 DEF EvictTriggeredEnd
      <3>3. OnePlace'
        BY <2>i, <3>1, <3>2, <1>ReturnToPool
      <3> QED
        BY <2>6, <2>b, <3>1, <3>3 DEF PlaceInv, EvictTriggeredEnd
    <2>7. ASSUME NEW t \in TraceIds, EvictUntriggered(t) PROVE PlaceInv'
      <3>1. /\ \A u \in TraceIds : buffers'[u] = IF u \in {t} THEN {} ELSE buffers[u]
            /\ evicted' = evicted \cup UNION {buffers[u] : u \in {t}}
        BY <2>7, <2>i DEF EvictUntriggered, EvictTrace
      <3>2. OnePlace'
        BY <2>7, <2>i, <3>1, <1>TakeFromIndex DEF EvictUntriggered
      <3> QED
        BY <2>7, <2>b, <3>2 DEF PlaceInv, EvictUntriggered
    <2>8. CASE EvictEnd
      <3>1. UNCHANGED <<buffers, channel, data, batch, inflight>>
        BY <2>8 DEF EvictEnd, dmvars, traceVars
      <3>2. evicted' = {} /\ freed' = {} /\ outside' = outside \cup evicted \cup freed
        BY <2>8 DEF EvictEnd
      <3>3. OnePlace'
        BY <2>i, <3>1, <3>2, <1>ReturnToPool
      <3> QED
        BY <2>8, <2>b, <3>1, <3>3 DEF PlaceInv, EvictEnd
    <2>9. ASSUME NEW q \in Queues, ReportNext(q) PROVE PlaceInv'
      <3>1. PICK f \in Triggers : GetBuffersForReport(f) /\ data' = data \cup BuffersForReport(f)
        BY <2>9 DEF ReportNext, ReportNextOf
      <3>2. /\ \A t \in TraceIds : buffers'[t] = IF t \in traces[f] THEN {} ELSE buffers[t]
            /\ traces[f] \in SUBSET TraceIds
            /\ data' = data \cup UNION {buffers[t] : t \in traces[f]}
        BY <3>1 DEF GetBuffersForReport, BuffersForReport, Inv, IndexInv, IndexType
      <3>3. OnePlace'
        BY <2>9, <2>i, <3>2, <1>TakeFromIndex DEF ReportNext
      <3> QED
        BY <2>9, <2>b, <3>3 DEF PlaceInv, ReportNext
    <2>10. CASE ReportEnd
      <3>1. OnePlace'
        BY <2>10, <2>i, <1>StayInPlaces DEF ReportEnd, dmvars, traceVars
      <3> QED
        BY <2>10, <2>b, <3>1 DEF PlaceInv, ReportEnd
    <2> QED
      BY <2>1, <2>2, <2>3, <2>4, <2>5, <2>6, <2>7, <2>8, <2>9, <2>10 DEF Continue
  <1>ReportPlaces.
      Inv /\ PlaceInv /\ (ReportTimer \/ ReportSend \/ Reporter) => PlaceInv'
    <2> SUFFICES ASSUME Inv, PlaceInv, ReportTimer \/ ReportSend \/ Reporter PROVE PlaceInv'
      OBVIOUS
    <2> USE DEF loopVars, reportVars, dmvars, traceVars
    <2>i. OnePlace /\ HeldInv
      BY DEF Inv, PlaceInv
    <2>1. BatchInv'
      <3>1. batch' = batch /\ (pc' = pc \/ pc = "select")
        BY DEF ReportTimer, ReportSend, Reporter, Connect, ReporterTake, ReporterReturn
      <3> QED
        BY <3>1 DEF PlaceInv, BatchInv
    <2>2. CASE ReportTimer \/ Connect
      <3>1. OnePlace'
        BY <2>i, <2>2, <1>StayInPlaces DEF ReportTimer, Connect
      <3> QED
        BY <2>1, <3>1 DEF PlaceInv
    <2>3. CASE ReportSend
      <3>1. OnePlace'
        BY <2>i, <2>3, <1>DataToChannel DEF ReportSend
      <3> QED
        BY <2>1, <3>1 DEF PlaceInv
    <2>4. CASE ReporterTake
      <3>1. OnePlace'
        BY <2>i, <2>4, <1>ChannelToInflight DEF ReporterTake
      <3> QED
        BY <2>1, <3>1 DEF PlaceInv
    <2>5. CASE ReporterReturn
      <3>1. OnePlace'
        BY <2>i, <2>5, <1>ReturnToPool DEF ReporterReturn
      <3> QED
        BY <2>1, <3>1 DEF PlaceInv
    <2> QED
      BY <2>2, <2>3, <2>4, <2>5 DEF Reporter
  <1>1. ASSUME PlaceInv, UNCHANGED vars PROVE PlaceInv'
    <2>1. OnePlace'
      BY <1>1, <1>StayInPlaces DEF PlaceInv, vars, dmvars, traceVars, agentVars, loopVars, reportVars
    <2> QED
      BY <1>1, <2>1 DEF PlaceInv, BatchInv, vars, agentVars, loopVars
  <1> QED
    BY <1>1, <1>HandlePlaces, <1>ContinuePlaces, <1>ReportPlaces DEF Next

-----------------------------------------------------------------------------
(***************************************************************************)
(* The LRU list of the untriggered traces and the idle lists of the        *)
(* queues: their backs are the oldest, which is all that evictTraces and   *)
(* checkTimeouts look at.  What the list operations do is taken as a       *)
(* hypothesis, ListFacts, until the end of the module.                     *)
(***************************************************************************)

LruType ==
    /\ now \in Nat /\ eventHorizon \in 0 .. now
    /\ lastModified \in [TraceIds -> 0 .. now]
    /\ lru \in Seq(TraceIds)

LruInv ==
    /\ LruType
    /\ Range(lru) = {t \in TraceIds : traceState[t] = "untriggered"}
    /\ Ordered(lru, lastModified)
    /\ HorizonSound

\* the idle list l of queue q under the states st and the time stamps m
IdleListOf(q, l, st, m) ==
    /\ l \in Seq(Triggers)
    /\ Range(l) = {f \in Triggers : QueueOf(f) = q /\ st[f] = "idle"}
    /\ Ordered(l, m)

IdleInv ==
    /\ now \in Nat /\ idleSince \in [Triggers -> 0 .. now]
    /\ idle \in [Queues -> Seq(Triggers)]
    /\ \A q \in Queues : IdleListOf(q, idle[q], firedState, idleSince)

-----------------------------------------------------------------------------
(* A trigger belongs to a queue.                                           *)
LEMMA QueueOfTrigger == \A f \in Triggers : QueueOf(f) \in Queues
  BY FireableTyped, SMT DEF Triggers, QueueOf

(* The traces of a fired trigger are on no list of untriggered traces.     *)
LEMMA TriggeredTraces ==
  ASSUME IndexInv, NEW f \in Triggers
  PROVE  \A t \in traces[f] : t \in TraceIds /\ traceState[t] # "untriggered"
  BY SMT DEF IndexInv, IndexType, LinksAgree, Pending

-----------------------------------------------------------------------------
ListInv == LruInv /\ IdleInv /\ NoExpiredIdle

LEMMA InitListInv == Init => ListInv
  <1> SUFFICES ASSUME Init PROVE ListInv
    OBVIOUS
  <1>1. /\ lru = <<>> /\ now = 0 /\ eventHorizon = 0 /\ pc = "select"
        /\ traceState = [t \in TraceIds |-> "none"] /\ lastModified = [t \in TraceIds |-> 0]
        /\ idle = [q \in Queues |-> <<>>] /\ idleSince = [f \in Triggers |-> 0]
        /\ firedState = [f \in Triggers |-> "none"]
    BY DEF Init, DMInit
  <1>2. /\ <<>> \in Seq(TraceIds) /\ <<>> \in Seq(Triggers) /\ DOMAIN <<>> = {} /\ now \in Nat
        /\ now \in 0 .. now
    BY <1>1, SMT
  <1>3. Range(<<>>) = {} /\ \A m : Ordered(<<>>, m)
    BY <1>2 DEF Range, Ordered
  <1>4. LruInv
    BY <1>1, <1>2, <1>3 DEF LruInv, LruType, HorizonSound
  <1>5. IdleInv
    BY <1>1, <1>2, <1>3 DEF IdleInv, IdleListOf
  <1> QED
    BY <1>1, <1>4, <1>5 DEF ListInv, NoExpiredIdle

LEMMA NextLists == ListFacts /\ Inv /\ ListInv /\ [Next]_vars => ListInv'
  (* Putting an element that is stamped n, the time, in front of a list.     *)
  <1>PushFacts.
      ASSUME ListFacts, NEW T, NEW s \in Seq(T), NEW x \in T, x \notin Range(s),
             NEW n \in Nat, NEW m \in [T -> 0 .. n], Ordered(s, m)
      PROVE  /\ PushFront(s, x) \in Seq(T)
             /\ Range(PushFront(s, x)) = Range(s) \cup {x}
             /\ Ordered(PushFront(s, x), [m EXCEPT ![x] = n])
    <2> USE <1>PushFacts
    <2> DEFINE o == [m EXCEPT ![x] = n]
               r == <<x>>
    <2>1. r \in Seq(T) /\ Range(r) = {x} /\ Ordered(r, o)
      BY DEF ListFacts
    <2>2. Range(s) \subseteq T
      BY SMT DEF Range
    <2>3. o[x] = n /\ \A y \in Range(s) : o[y] = m[y]
      BY <2>2
    <2>4. \A y \in T : m[y] <= n
      BY SMT
    <2>5. PushFront(s, x) = r \o s
      BY DEF PushFront
    <2> HIDE DEF o, r
    <2>6. Ordered(s, o)
      BY <2>3 DEF ListFacts
    <2>7. \A y \in Range(r), z \in Range(s) : y # z /\ o[z] <= o[y]
      BY <2>1, <2>2, <2>3, <2>4
    <2>8. r \o s \in Seq(T) /\ Range(r \o s) = Range(r) \cup Range(s) /\ Ordered(r \o s, o)
      BY <2>1, <2>6, <2>7 DEF ListFacts
    <2> QED
      BY <2>1, <2>5, <2>8 DEF o
  <1>MoveFacts.
      ASSUME ListFacts, NEW T, NEW s \in Seq(T), NEW x \in T,
             NEW n \in Nat, NEW m \in [T -> 0 .. n], Ordered(s, m)
      PROVE  /\ MoveToFront(s, x) \in Seq(T)
             /\ Range(MoveToFront(s, x)) = Range(s) \cup {x}
             /\ Ordered(MoveToFront(s, x), [m EXCEPT ![x] = n])
    <2> USE <1>MoveFacts
    <2> DEFINE w == Without(s, {x})
    <2>1. w \in Seq(T) /\ Range(w) = Range(s) \ {x} /\ Ordered(w, m)
      BY DEF ListFacts
    <2>2. MoveToFront(s, x) = PushFront(w, x)
      BY DEF MoveToFront
    <2> HIDE DEF w
    <2>3. /\ PushFront(w, x) \in Seq(T)
          /\ Range(PushFront(w, x)) = Range(w) \cup {x}
          /\ Ordered(PushFront(w, x), [m EXCEPT ![x] = n])
      BY <2>1, <1>PushFacts
    <2> QED
      BY <2>1, <2>2, <2>3
  (* A list stays in order when its own time stamps stay.                    *)
  <1>StampsFacts.
      ASSUME ListFacts, NEW T, NEW s \in Seq(T), NEW m, NEW o, Ordered(s, m),
             \A x \in Range(s) : o[x] = m[x]
      PROVE  Ordered(s, o)
    BY <1>StampsFacts DEF ListFacts
  (* Removing elements, when only theirs are the time stamps that change.    *)
  <1>RemoveFacts.
      ASSUME ListFacts, NEW T, NEW s \in Seq(T), NEW S, NEW m, NEW o, Ordered(s, m),
             \A x \in Range(s) \ S : o[x] = m[x]
      PROVE  /\ Without(s, S) \in Seq(T)
             /\ Range(Without(s, S)) = Range(s) \ S
             /\ Ordered(Without(s, S), o)
    <2> USE <1>RemoveFacts
    <2> DEFINE w == Without(s, S)
    <2>1. w \in Seq(T) /\ Range(w) = Range(s) \ S /\ Ordered(w, m)
      BY DEF ListFacts
    <2> HIDE DEF w
    <2>2. \A x \in Range(w) : o[x] = m[x]
      BY <2>1
    <2>3. Ordered(w, o)
      BY <2>1, <2>2 DEF ListFacts
    <2> QED
      BY <2>1, <2>3 DEF w
  (* A new or untriggered trace is touched: it is the most recent.           *)
  <1>TouchTrace.
      ASSUME ListFacts, IndexType, LruInv, NEW t \in TraceIds,
             traceState' = [traceState EXCEPT ![t] = "untriggered"],
             lastModified' = [lastModified EXCEPT ![t] = now],
             lru' = MoveToFront(lru, t), UNCHANGED <<eventHorizon, now>>
      PROVE  LruInv'
    <2> USE <1>TouchTrace
    <2>1. /\ lru \in Seq(TraceIds) /\ now \in Nat /\ lastModified \in [TraceIds -> 0 .. now]
          /\ Ordered(lru, lastModified) /\ eventHorizon \in 0 .. now
      BY DEF LruInv, LruType
    <2>2. /\ lru' \in Seq(TraceIds) /\ Range(lru') = Range(lru) \cup {t}
          /\ Ordered(lru', lastModified')
      BY <2>1, <1>MoveFacts, ZenonT(30)
    <2>3. Range(lru') = {u \in TraceIds : traceState'[u] = "untriggered"}
      <3>1. Range(lru) \cup {t} = {u \in TraceIds : traceState'[u] = "untriggered"}
        BY SMT DEF LruInv, IndexType
      <3> QED
        BY <2>2, <3>1
    <2>4. LruType'
      BY <2>1, <2>2, SMT DEF LruType
    <2>5. HorizonSound'
      BY <2>1, SMT DEF LruInv, HorizonSound, IndexType
    <2> QED
      BY <2>2, <2>3, <2>4, <2>5 DEF LruInv
  (* A trace that is triggered or evicted leaves the list; the horizon moves *)
  (* at most to the time stamp of the oldest.                                *)
  <1>DropTrace.
      ASSUME ListFacts, IndexType, LruInv, NEW t \in TraceIds,
             traceState' = [traceState EXCEPT ![t] = traceState'[t]],
             traceState'[t] # "untriggered",
             lastModified' = [lastModified EXCEPT ![t] = 0],
             lru' = Without(lru, {t}), now' = now,
             \/ eventHorizon' = eventHorizon
             \/ lru # <<>> /\ t = Back(lru) /\ eventHorizon' = lastModified[t]
      PROVE  LruInv'
    <2> USE <1>DropTrace
    <2>1. /\ lru \in Seq(TraceIds) /\ now \in Nat /\ lastModified \in [TraceIds -> 0 .. now]
          /\ Ordered(lru, lastModified) /\ eventHorizon \in 0 .. now
      BY DEF LruInv, LruType
    <2> DEFINE o == [lastModified EXCEPT ![t] = 0]
    <2>2. \A u \in Range(lru) \ {t} : o[u] = lastModified[u]
      BY <2>1 DEF LruInv
    <2> HIDE DEF o
    <2>3. /\ lru' \in Seq(TraceIds) /\ Range(lru') = Range(lru) \ {t}
          /\ Ordered(lru', lastModified')
      <3>1. /\ Without(lru, {t}) \in Seq(TraceIds)
            /\ Range(Without(lru, {t})) = Range(lru) \ {t}
            /\ Ordered(Without(lru, {t}), o)
        BY <2>1, <2>2, <1>RemoveFacts
      <3> QED
        BY <3>1 DEF o
    <2>4. Range(lru') = {u \in TraceIds : traceState'[u] = "untriggered"}
      <3>1. \A u \in TraceIds \ {t} : traceState'[u] = traceState[u]
        BY DEF IndexType
      <3>2. Range(lru) \ {t} = {u \in TraceIds : traceState'[u] = "untriggered"}
        BY <3>1 DEF LruInv
      <3> QED
        BY <2>3, <3>2
    <2>5. LruType'
      BY <2>1, <2>3, SMTT(20) DEF LruType
    <2>6. HorizonSound'
      <3>1. CASE eventHorizon' = eventHorizon
        BY <2>1, <3>1, SMT DEF LruInv, HorizonSound, IndexType
      <3>2. CASE lru # <<>> /\ t = Back(lru) /\ eventHorizon' = lastModified[t]
        <4>1. lastModified \in [TraceIds -> Int]
          BY <2>1, SMT
        <4>2. \A u \in Range(lru) : lastModified[t] <= lastModified[u]
          BY <2>1, <3>2, <4>1 DEF ListFacts
        <4>3. \A u \in TraceIds : traceState'[u] = "untriggered" =>
                 u \in Range(lru) /\ lastModified'[u] = lastModified[u]
          BY <2>2, <2>3, <2>4 DEF o
        <4> QED
          BY <3>2, <4>1, <4>2, <4>3, SMTT(20) DEF HorizonSound
      <3> QED
        BY <3>1, <3>2
    <2> QED
      BY <2>3, <2>4, <2>5, <2>6 DEF LruInv
  (* Steps that change no untriggered trace; the clock may advance.          *)
  <1>LruStays.
      ASSUME LruInv, UNCHANGED <<lastModified, lru, eventHorizon>>, now' \in Nat, now <= now',
             \A t \in TraceIds : traceState'[t] = "untriggered" <=> traceState[t] = "untriggered"
      PROVE  LruInv'
    <2> USE <1>LruStays
    <2>1. LruType'
      BY SMT DEF LruInv, LruType
    <2> QED
      BY <2>1 DEF LruInv, HorizonSound
  (* buffersAdded takes the triggers that it wakes off the idle lists.       *)
  <1>WakeTriggers.
      ASSUME ListFacts, NEW F, NEW n, NEW st \in [Triggers -> {"none", "idle", "reporting"}], NEW idl, NEW m,
             idl \in [Queues -> Seq(Triggers)],
             \A q \in Queues : IdleListOf(q, idl[q], st, m),
             BuffersAdded(F, n, st, idl)
      PROVE  /\ idle' \in [Queues -> Seq(Triggers)]
             /\ \A q \in Queues : IdleListOf(q, idle'[q], firedState', m)
    <2> USE <1>WakeTriggers
    <2> DEFINE S == {f \in F : st[f] = "idle"}
    <2>1. /\ idle' = [q \in Queues |-> Without(idl[q], S)]
          /\ firedState' = [f \in Triggers |-> IF f \in F THEN "reporting" ELSE st[f]]
      BY DEF BuffersAdded
    <2>2. ASSUME NEW q \in Queues
          PROVE  IdleListOf(q, Without(idl[q], S), firedState', m)
      <3> DEFINE l == idl[q]
      <3>1. /\ l \in Seq(Triggers) /\ Ordered(l, m)
            /\ Range(l) = {f \in Triggers : QueueOf(f) = q /\ st[f] = "idle"}
        BY <2>2 DEF IdleListOf
      <3>2. Range(l) \ S = {f \in Triggers : QueueOf(f) = q /\ firedState'[f] = "idle"}
        BY <2>1, <3>1
      <3> HIDE DEF S, l
      <3>3. /\ Without(l, S) \in Seq(Triggers) /\ Range(Without(l, S)) = Range(l) \ S
            /\ Ordered(Without(l, S), m)
        BY <3>1 DEF ListFacts
      <3> QED
        BY <3>2, <3>3 DEF IdleListOf, l
    <2> HIDE DEF S
    <2>3. \A q \in Queues : idle'[q] = Without(idl[q], S) /\ Without(idl[q], S) \in Seq(Triggers)
      BY <2>1, <2>2 DEF IdleListOf
    <2> QED
      BY <2>1, <2>2, <2>3
  (* A trigger that was not idle becomes idle now, at the front of its       *)
  (* queue's list.                                                           *)
  <1>FallIdle.
      ASSUME ListFacts, IndexType, IdleInv, NEW f \in Triggers, firedState[f] # "idle"
      PROVE  LET idl == [idle EXCEPT ![QueueOf(f)] = PushFront(@, f)]
                 st  == [firedState EXCEPT ![f] = "idle"]
                 m   == [idleSince EXCEPT ![f] = now]
             IN  /\ idl \in [Queues -> Seq(Triggers)]
                 /\ \A q \in Queues : IdleListOf(q, idl[q], st, m)
    <2> USE <1>FallIdle
    <2> DEFINE idl == [idle EXCEPT ![QueueOf(f)] = PushFront(@, f)]
               st  == [firedState EXCEPT ![f] = "idle"]
               m   == [idleSince EXCEPT ![f] = now]
               p   == QueueOf(f)
    <2>1. /\ now \in Nat /\ idleSince \in [Triggers -> 0 .. now]
          /\ idle \in [Queues -> Seq(Triggers)] /\ p \in Queues
          /\ firedState \in [Triggers -> {"none", "idle", "reporting"}]
      BY QueueOfTrigger DEF IdleInv, IndexType
    <2>2. /\ st[f] = "idle" /\ m[f] = now
          /\ \A g \in Triggers \ {f} : st[g] = firedState[g] /\ m[g] = idleSince[g]
      BY <2>1
    <2>3. /\ idl[p] = PushFront(idle[p], f)
          /\ \A q \in Queues \ {p} : idl[q] = idle[q]
          /\ idl \in [Queues -> Seq(Triggers)] <=> PushFront(idle[p], f) \in Seq(Triggers)
      BY <2>1, SMT
    <2>4. \A q \in Queues :
             /\ idle[q] \in Seq(Triggers)
             /\ Range(idle[q]) = {g \in Triggers : QueueOf(g) = q /\ firedState[g] = "idle"}
             /\ Ordered(idle[q], idleSince)
      BY DEF IdleInv, IdleListOf
    <2> HIDE DEF idl, st
    <2>5. IdleListOf(p, PushFront(idle[p], f), st, m)
      <3>1. /\ Range(idle[p]) = {g \in Triggers : QueueOf(g) = p /\ firedState[g] = "idle"}
            /\ idle[p] \in Seq(Triggers) /\ Ordered(idle[p], idleSince)
        BY <2>1, <2>4
      <3>2. /\ PushFront(idle[p], f) \in Seq(Triggers)
            /\ Range(PushFront(idle[p], f)) = Range(idle[p]) \cup {f}
            /\ Ordered(PushFront(idle[p], f), m)
        <4>1. f \notin Range(idle[p])
          BY <3>1
        <4> QED
          BY <2>1, <3>1, <4>1, <1>PushFacts
      <3>3. Range(idle[p]) \cup {f} = {g \in Triggers : QueueOf(g) = p /\ st[g] = "idle"}
        <4> HIDE DEF m
        <4>1. \A g \in Triggers : QueueOf(g) = p /\ st[g] = "idle" <=> g \in Range(idle[p]) \/ g = f
          BY <2>2, <3>1
        <4>2. Range(idle[p]) \subseteq Triggers
          BY <3>1
        <4> QED
          BY <4>1, <4>2
      <3> QED
        BY <3>2, <3>3 DEF IdleListOf
    <2>6. ASSUME NEW q \in Queues \ {p} PROVE IdleListOf(q, idle[q], st, m)
      <3> HIDE DEF m
      <3>0. /\ Range(idle[q]) = {g \in Triggers : QueueOf(g) = q /\ firedState[g] = "idle"}
            /\ idle[q] \in Seq(Triggers) /\ Ordered(idle[q], idleSince)
        BY <2>4, <2>6
      <3>1. \A g \in Triggers : QueueOf(g) = q => st[g] = firedState[g] /\ m[g] = idleSince[g]
        BY <2>2, <2>6
      <3>2. Range(idle[q]) = {g \in Triggers : QueueOf(g) = q /\ st[g] = "idle"}
        BY <3>0, <3>1
      <3>3. \A g \in Range(idle[q]) : m[g] = idleSince[g]
        BY <3>0, <3>1
      <3>4. Ordered(idle[q], m)
        BY <3>0, <3>3, <1>StampsFacts
      <3> QED
        BY <3>0, <3>2, <3>4 DEF IdleListOf
    <2>7. PushFront(idle[p], f) \in Seq(Triggers)
      BY <2>5 DEF IdleListOf
    <2>8. idl \in [Queues -> Seq(Triggers)]
      BY <2>3, <2>7
    <2>9. \A q \in Queues : IdleListOf(q, idl[q], st, m)
      BY <2>3, <2>5, <2>6
    <2> QED
      BY <2>8, <2>9 DEF idl, st
  (* A trigger f is removed: it was idle and leaves its list, or it was not  *)
  (* on one.                                                                 *)
  <1>DropTrigger.
      ASSUME ListFacts, IndexType, IdleInv, NEW f \in Triggers, now' = now,
             firedState' = [firedState EXCEPT ![f] = "none"],
             idleSince' = [idleSince EXCEPT ![f] = 0],
             \/ idle' = [idle EXCEPT ![QueueOf(f)] = Without(@, {f})]
             \/ firedState[f] # "idle" /\ idle' = idle
      PROVE  IdleInv'
    <2> USE <1>DropTrigger
    <2> DEFINE m == [idleSince EXCEPT ![f] = 0]
               st == [firedState EXCEPT ![f] = "none"]
    <2>1. /\ now \in Nat /\ idleSince \in [Triggers -> 0 .. now]
          /\ idle \in [Queues -> Seq(Triggers)] /\ QueueOf(f) \in Queues
          /\ firedState \in [Triggers -> {"none", "idle", "reporting"}]
      BY QueueOfTrigger DEF IdleInv, IndexType
    <2>2. /\ st[f] = "none"
          /\ \A g \in Triggers \ {f} : st[g] = firedState[g] /\ m[g] = idleSince[g]
      BY <2>1
    <2>3. idleSince' \in [Triggers -> 0 .. now']
      BY <2>1, SMT
    <2>4. \A q \in Queues :
             /\ idle[q] \in Seq(Triggers)
             /\ Range(idle[q]) = {g \in Triggers : QueueOf(g) = q /\ firedState[g] = "idle"}
             /\ Ordered(idle[q], idleSince)
      BY DEF IdleInv, IdleListOf
    <2>5. /\ \A q \in Queues : idle'[q] = idle[q] \/ (q = QueueOf(f) /\ idle'[q] = Without(idle[q], {f}))
          /\ \A q \in Queues : idle'[q] = idle[q] => f \notin Range(idle[q])
          /\ DOMAIN idle' = Queues /\ idle' = [q \in Queues |-> idle'[q]]
      <3>1. CASE idle' = [idle EXCEPT ![QueueOf(f)] = Without(@, {f})]
        <4>1. \A q \in Queues : q # QueueOf(f) => f \notin Range(idle[q])
          BY <2>4
        <4>2. Range(Without(idle[QueueOf(f)], {f})) = Range(idle[QueueOf(f)]) \ {f}
          BY <2>1, <2>4, <1>RemoveFacts
        <4>3. idle'[QueueOf(f)] = idle[QueueOf(f)] => f \notin Range(idle[QueueOf(f)])
          <5>1. idle'[QueueOf(f)] = Without(idle[QueueOf(f)], {f})
            BY <2>1, <3>1
          <5> QED
            BY <4>2, <5>1
        <4> QED
          BY <2>1, <3>1, <4>1, <4>3
      <3>2. CASE firedState[f] # "idle" /\ idle' = idle
        BY <2>1, <2>4, <3>2
      <3> QED
        BY <3>1, <3>2
    <2>6. ASSUME NEW q \in Queues PROVE IdleListOf(q, idle'[q], st, m)
      <3> HIDE DEF m, st
      <3>1. CASE idle'[q] = idle[q] /\ f \notin Range(idle[q])
        <4>1. \A g \in Range(idle[q]) : m[g] = idleSince[g]
          BY <2>2, <2>4, <2>6, <3>1
        <4>2. Ordered(idle[q], m)
          BY <2>4, <2>6, <4>1, <1>StampsFacts
        <4>3. Range(idle[q]) = {g \in Triggers : QueueOf(g) = q /\ st[g] = "idle"}
          BY <2>2, <2>4, <3>1, ZenonT(30)
        <4> QED
          BY <2>4, <3>1, <4>2, <4>3 DEF IdleListOf
      <3>2. CASE idle'[q] = Without(idle[q], {f})
        <4>1. \A g \in Range(idle[q]) \ {f} : m[g] = idleSince[g]
          BY <2>2, <2>4, <2>6
        <4>2. /\ Without(idle[q], {f}) \in Seq(Triggers)
              /\ Range(Without(idle[q], {f})) = Range(idle[q]) \ {f}
              /\ Ordered(Without(idle[q], {f}), m)
          BY <2>4, <4>1, <1>RemoveFacts
        <4>3. Range(idle[q]) \ {f} = {g \in Triggers : QueueOf(g) = q /\ st[g] = "idle"}
          BY <2>2, <2>4
        <4> QED
          BY <3>2, <4>2, <4>3 DEF IdleListOf
      <3> QED
        BY <2>5, <3>1, <3>2
    <2>7. idle' \in [Queues -> Seq(Triggers)]
      BY <2>5, <2>6 DEF IdleListOf
    <2> QED
      BY <2>1, <2>3, <2>6, <2>7 DEF IdleInv
  (* Steps that touch no fired trigger; the clock may advance.               *)
  <1>IdleStays.
      ASSUME IdleInv, UNCHANGED <<firedState, idle, idleSince>>, now' \in Nat, now <= now'
      PROVE  IdleInv'
    <2> USE <1>IdleStays
    <2>1. idleSince' \in [Triggers -> 0 .. now']
      BY SMT DEF IdleInv
    <2> QED
      BY <2>1 DEF IdleInv, IdleListOf
  (* The operations of the data manager keep the lists.                      *)
  <1>AddBuffersLists.
      ASSUME ListFacts, IndexInv, LruInv, IdleInv, NEW t \in TraceIds, NEW B, AddBuffers(t, B)
      PROVE  LruInv' /\ IdleInv'
    <2> USE <1>AddBuffersLists
    <2>i. IndexType /\ now \in Nat /\ now <= now
      BY SMT DEF IndexInv, LruInv, LruType
    <2>1. CASE AddBuffersUntriggered(t, B)
      <3>1. LruInv'
        BY <2>1, <2>i, <1>TouchTrace DEF AddBuffersUntriggered
      <3>2. IdleInv'
        BY <2>1, <2>i, <1>IdleStays DEF AddBuffersUntriggered, firedVars
      <3> QED
        BY <3>1, <3>2
    <2>2. CASE AddBuffersTriggered(t, B)
      <3>1. /\ traceState[t] \notin Pending
            /\ traceState' = [traceState EXCEPT ![t] = "reporting"]
            /\ UNCHANGED <<lastModified, lru, eventHorizon, idleSince, now>>
            /\ BuffersAdded(triggers[t], Cardinality(B), firedState, idle)
        BY <2>2 DEF AddBuffersTriggered
      <3>2. \A u \in TraceIds : traceState'[u] = "untriggered" <=> traceState[u] = "untriggered"
        BY <2>i, <3>1 DEF IndexType, Pending
      <3>3. LruInv'
        BY <2>i, <3>1, <3>2, <1>LruStays
      <3>4. /\ firedState \in [Triggers -> {"none", "idle", "reporting"}]
            /\ idle \in [Queues -> Seq(Triggers)]
            /\ \A q \in Queues : IdleListOf(q, idle[q], firedState, idleSince)
        BY <2>i DEF IdleInv, IndexType
      <3>5. /\ idle' \in [Queues -> Seq(Triggers)]
            /\ \A q \in Queues : IdleListOf(q, idle'[q], firedState', idleSince)
        BY <3>1, <3>4, <1>WakeTriggers
      <3> QED
        BY <3>1, <3>3, <3>5 DEF IdleInv
    <2> QED
      BY <2>1, <2>2 DEF AddBuffers
  <1>AddBreadcrumbsLists.
      ASSUME ListFacts, IndexInv, LruInv, IdleInv, NEW t \in TraceIds, NEW C, AddBreadcrumbs(t, C)
      PROVE  LruInv' /\ IdleInv'
    <2> USE <1>AddBreadcrumbsLists
    <2>i. IndexType /\ now \in Nat /\ now <= now
      BY SMT DEF IndexInv, LruInv, LruType
    <2>1. CASE UNCHANGED dmvars
      BY <2>1, <2>i, <1>LruStays, <1>IdleStays DEF dmvars, traceVars, firedVars
    <2>2. CASE ~ UNCHANGED dmvars
      <3>1. /\ traceState' = [traceState EXCEPT ![t] = "untriggered"]
            /\ lastModified' = [lastModified EXCEPT ![t] = now]
            /\ lru' = MoveToFront(lru, t)
            /\ UNCHANGED <<eventHorizon, firedVars, now>>
        BY <2>2 DEF AddBreadcrumbs
      <3>2. LruInv'
        BY <2>i, <3>1, <1>TouchTrace
      <3>3. IdleInv'
        BY <2>i, <3>1, <1>IdleStays DEF firedVars
      <3> QED
        BY <3>2, <3>3
    <2> QED
      BY <2>1, <2>2
  (* A new trigger is idle first; when its trace has data, it is woken in    *)
  (* the same step.                                                          *)
  <1>TriggerLists.
      ASSUME ListFacts, IndexInv, LruInv, IdleInv, NEW f \in Triggers, NEW t \in TraceIds,
             Trigger(f, t)
      PROVE  LruInv' /\ IdleInv'
    <2> USE <1>TriggerLists
    <2> DEFINE fresh == firedState[f] = "none"
               st    == [firedState EXCEPT ![f] = IF fresh THEN "idle" ELSE @]
               idl   == [idle EXCEPT ![QueueOf(f)] = IF fresh THEN PushFront(@, f) ELSE @]
               n     == Cardinality(buffers[t])
               F     == IF f \notin triggers[t] /\ n > 0 THEN {f} ELSE {}
               m     == [idleSince EXCEPT ![f] = IF fresh THEN now ELSE @]
    <2>1. /\ traceState' = [traceState EXCEPT ![t] = IF n > 0 THEN "reporting" ELSE "triggered"]
          /\ lru' = Without(lru, {t}) /\ lastModified' = [lastModified EXCEPT ![t] = 0]
          /\ UNCHANGED <<eventHorizon, now>>
          /\ idleSince' = m
      BY DEF Trigger
    <2>2. BuffersAdded(F, n, st, idl)
      BY DEF Trigger
    <2> HIDE DEF n, F
    <2>i. /\ IndexType /\ now \in Nat /\ idleSince \in [Triggers -> 0 .. now]
          /\ idle \in [Queues -> Seq(Triggers)] /\ QueueOf(f) \in Queues
          /\ firedState \in [Triggers -> {"none", "idle", "reporting"}]
      BY QueueOfTrigger DEF IndexInv, IndexType, IdleInv
    <2>3. LruInv'
      <3>1. /\ traceState'[t] # "untriggered"
            /\ traceState' = [traceState EXCEPT ![t] = traceState'[t]]
        BY <2>1, <2>i, SMT DEF IndexType
      <3> QED
        BY <2>1, <2>i, <3>1, <1>DropTrace
    <2>4. /\ idl \in [Queues -> Seq(Triggers)]
          /\ \A q \in Queues : IdleListOf(q, idl[q], st, m)
      <3>1. CASE fresh
        <4>1. /\ idl = [idle EXCEPT ![QueueOf(f)] = PushFront(@, f)]
              /\ st = [firedState EXCEPT ![f] = "idle"]
              /\ m = [idleSince EXCEPT ![f] = now]
          BY <3>1
        <4>2. firedState[f] # "idle"
          BY <3>1
        <4> HIDE DEF idl, st, m, fresh
        <4> QED
          BY <2>i, <4>1, <4>2, <1>FallIdle
      <3>2. CASE ~fresh
        <4>1. idl = idle /\ st = firedState /\ m = idleSince
          BY <2>i, <3>2, SMT
        <4> HIDE DEF idl, st, m, fresh
        <4> QED
          BY <4>1 DEF IdleInv
      <3> QED
        BY <3>1, <3>2
    <2>5. st \in [Triggers -> {"none", "idle", "reporting"}] /\ m \in [Triggers -> 0 .. now]
      BY <2>i, SMT
    <2> HIDE DEF idl, st, m, fresh
    <2>6. /\ idle' \in [Queues -> Seq(Triggers)]
          /\ \A q \in Queues : IdleListOf(q, idle'[q], firedState', m)
      BY <2>2, <2>4, <2>5, <1>WakeTriggers
    <2> QED
      BY <2>1, <2>3, <2>5, <2>6, <2>i DEF IdleInv
  <1>EvictTraceLists.
      ASSUME ListFacts, IndexInv, LruInv, IdleInv, NEW t \in TraceIds, lru # <<>>, t = Back(lru),
             EvictTrace(t)
      PROVE  LruInv' /\ IdleInv'
    <2> USE <1>EvictTraceLists
    <2>1. /\ traceState' = [traceState EXCEPT ![t] = "none"]
          /\ lru' = Without(lru, {t}) /\ lastModified' = [lastModified EXCEPT ![t] = 0]
          /\ eventHorizon' = lastModified[t]
          /\ UNCHANGED <<firedState, idle, idleSince, now>>
      BY DEF EvictTrace, firedVars
    <2>i. IndexType /\ now \in Nat /\ now <= now
      BY SMT DEF IndexInv, LruInv, LruType
    <2>2. /\ traceState'[t] # "untriggered"
          /\ traceState' = [traceState EXCEPT ![t] = traceState'[t]]
      BY <2>1, <2>i, SMT DEF IndexType
    <2>3. LruInv'
      BY <2>1, <2>2, <2>i, <1>DropTrace
    <2> QED
      BY <2>1, <2>3, <2>i, <1>IdleStays
  <1>ReportLists.
      ASSUME ListFacts, IndexInv, LruInv, IdleInv, NEW f \in Triggers, GetBuffersForReport(f)
      PROVE  LruInv' /\ IdleInv'
    <2> USE <1>ReportLists
    <2>1. /\ firedState[f] = "reporting"
          /\ traceState' = [t \in TraceIds |->
                               IF t \in traces[f] THEN "triggered" ELSE traceState[t]]
          /\ firedState' = [firedState EXCEPT ![f] = "idle"]
          /\ idle' = [idle EXCEPT ![QueueOf(f)] = PushFront(@, f)]
          /\ idleSince' = [idleSince EXCEPT ![f] = now]
          /\ UNCHANGED <<lastModified, lru, eventHorizon, now>>
      BY DEF GetBuffersForReport
    <2>i. IndexType /\ now \in Nat /\ now <= now
      BY SMT DEF IndexInv, LruInv, LruType
    <2>2. \A t \in TraceIds : traceState'[t] = "untriggered" <=> traceState[t] = "untriggered"
      BY <2>1, TriggeredTraces
    <2>3. LruInv'
      BY <2>1, <2>2, <2>i, <1>LruStays
    <2>4. idleSince' \in [Triggers -> 0 .. now]
      BY <2>1, SMT DEF IdleInv
    <2>5. firedState[f] # "idle"
      BY <2>1
    <2>6. /\ idle' \in [Queues -> Seq(Triggers)]
          /\ \A q \in Queues : IdleListOf(q, idle'[q], firedState', idleSince')
      BY <2>1, <2>5, <2>i, <1>FallIdle
    <2> QED
      BY <2>1, <2>3, <2>4, <2>6 DEF IdleInv
  <1>UnhookLists.
      ASSUME ListFacts, IndexInv, LruInv, IdleInv, NEW f \in Triggers, Unhook(f),
             \/ idle' = [idle EXCEPT ![QueueOf(f)] = Without(@, {f})]
             \/ firedState[f] # "idle" /\ idle' = idle
      PROVE  LruInv' /\ IdleInv'
    <2> USE <1>UnhookLists
    <2>1. /\ traceState' = [t \in TraceIds |-> IF t \in OnlyTrigger(f) THEN "none" ELSE traceState[t]]
          /\ firedState' = [firedState EXCEPT ![f] = "none"]
          /\ idleSince' = [idleSince EXCEPT ![f] = 0]
          /\ UNCHANGED <<lastModified, lru, eventHorizon, now>>
      BY DEF Unhook
    <2>i. IndexType /\ now \in Nat /\ now <= now
      BY SMT DEF IndexInv, LruInv, LruType
    <2>2. \A t \in TraceIds : traceState'[t] = "untriggered" <=> traceState[t] = "untriggered"
      BY <2>1, TriggeredTraces DEF OnlyTrigger
    <2>3. LruInv'
      BY <2>1, <2>2, <2>i, <1>LruStays
    <2>4. IdleInv'
      BY <2>1, <2>i, <1>DropTrigger
    <2> QED
      BY <2>3, <2>4
  (* A step that leaves the index alone.                                     *)
  <1>ListsStay.
      ASSUME LruInv, IdleInv, UNCHANGED dmvars
      PROVE  LruInv' /\ IdleInv'
    <2> USE <1>ListsStay
    <2>1. now \in Nat /\ now <= now
      BY SMT DEF LruInv, LruType
    <2> QED
      BY <2>1, <1>LruStays, <1>IdleStays DEF dmvars, traceVars, firedVars
  <1>ExpiryStays.
      ASSUME NoExpiredIdle, UNCHANGED <<firedState, idleSince, now>>,
             pc' \in {"evictTriggered", "evict"} => pc \in {"evictTriggered", "evict"}
      PROVE  NoExpiredIdle'
    BY <1>ExpiryStays DEF NoExpiredIdle, Expired
  <1>HandleLists.
      ASSUME ListFacts PROVE Inv /\ ListInv /\ Handle => ListInv'
    <2> USE <1>HandleLists
    <2> SUFFICES ASSUME Inv, ListInv, Handle PROVE ListInv'
      OBVIOUS
    <2>i. IndexInv /\ LruInv /\ IdleInv
      BY DEF Inv, ListInv
    <2>1. ASSUME LruInv', IdleInv', pc' \in {"select", "complete"} PROVE ListInv'
      BY <2>1 DEF ListInv, NoExpiredIdle
    <2>2. CASE Tick
      <3>1. /\ pc' = "select" /\ now' = now + 1
            /\ UNCHANGED <<traceState, lastModified, lru, eventHorizon, firedState, idle, idleSince>>
        BY <2>2 DEF Tick, traceVars, firedVars, agentVars
      <3>2. now' \in Nat /\ now <= now'
        BY <2>i, <3>1, SMT DEF LruInv, LruType
      <3>3. LruInv' /\ IdleInv'
        BY <2>i, <3>1, <3>2, <1>LruStays, <1>IdleStays
      <3> QED
        BY <2>1, <3>1, <3>3
    <2>3. CASE CompleteBegin
      BY <2>1, <2>3, <2>i, <1>ListsStay DEF CompleteBegin
    <2>4. ASSUME NEW t \in TraceIds, NEW C, ProcessBreadcrumbs(t, C) PROVE ListInv'
      BY <2>1, <2>4, <2>i, <1>AddBreadcrumbsLists DEF ProcessBreadcrumbs
    <2>5. ASSUME NEW x \in Fireable, ProcessTrigger(x) \/ ProcessRemoteTrigger(x) PROVE ListInv'
      <3>1. /\ Trigger(<<x[1], x[2]>>, x[3]) \/ UNCHANGED dmvars
            /\ pc' = "select"
        BY <2>5 DEF ProcessTrigger, ProcessRemoteTrigger
      <3>2. CASE Trigger(<<x[1], x[2]>>, x[3])
        BY <2>1, <2>i, <3>1, <3>2, <1>TriggerLists, FireableTriggers
      <3>3. CASE UNCHANGED dmvars
        BY <2>1, <2>i, <3>1, <3>3, <1>ListsStay
      <3> QED
        BY <3>1, <3>2, <3>3
    <2> QED
      BY <2>2, <2>3, <2>4, <2>5 DEF Handle
  <1>ContinueLists.
      ASSUME ListFacts PROVE Inv /\ ListInv /\ Continue => ListInv'
    <2> USE <1>ContinueLists
    <2> SUFFICES ASSUME Inv, ListInv, Continue PROVE ListInv'
      OBVIOUS
    <2>i. IndexInv /\ LruInv /\ IdleInv /\ NoExpiredIdle
      BY DEF Inv, ListInv
    <2>a. ASSUME LruInv', IdleInv', pc' \notin {"evictTriggered", "evict"} PROVE ListInv'
      BY <2>a DEF ListInv, NoExpiredIdle
    <2>1. ASSUME NEW t \in TraceIds \cup {0}, CompleteEntry(t) PROVE ListInv'
      <3>1. pc' = "complete" /\ (t = 0 => UNCHANGED dmvars) /\ (t # 0 => AddBuffers(t, batch[t]))
        BY <2>1 DEF CompleteEntry
      <3>2. CASE t = 0
        BY <2>a, <2>i, <3>1, <3>2, <1>ListsStay
      <3>3. CASE t # 0
        <4>1. t \in TraceIds
          BY <2>1, <3>3
        <4> QED
          BY <2>a, <2>i, <3>1, <3>3, <4>1, <1>AddBuffersLists
      <3> QED
        BY <3>2, <3>3
    <2>2. CASE CompleteEnd
      <3>1. pc' \in {"select", "idle"} /\ UNCHANGED dmvars
        BY <2>2 DEF CompleteEnd
      <3> QED
        BY <2>a, <2>i, <3>1, <1>ListsStay
    <2>3. ASSUME NEW q \in Queues, NEW f \in Triggers, CheckIdle(q, f) PROVE ListInv'
      <3>1. /\ pc' = "idle" /\ Unhook(f)
            /\ idle' = [idle EXCEPT ![QueueOf(f)] = Without(@, {f})]
        BY <2>3 DEF CheckIdle, TimeOut, agentVars
      <3> QED
        BY <2>a, <2>i, <3>1, <1>UnhookLists
    <2>4. CASE CheckIdleEnd
      <3>1. /\ UNCHANGED dmvars
            /\ \A q \in Queues : idle[q] # <<>> => ~Expired(Back(idle[q]))
        BY <2>4 DEF CheckIdleEnd, HasExpired
      <3>2. LruInv' /\ IdleInv'
        BY <2>i, <3>1, <1>ListsStay
      <3>3. ASSUME NEW f \in Triggers, firedState[f] = "idle" PROVE ~Expired(f)
        <4> DEFINE l == idle[QueueOf(f)]
        <4>1. /\ l \in Seq(Triggers) /\ Ordered(l, idleSince) /\ f \in Range(l)
          BY <2>i, <3>3, QueueOfTrigger DEF IdleInv, IdleListOf
        <4>2. /\ l # <<>> => ~Expired(Back(l))
          BY <3>1, QueueOfTrigger
        <4>3. idleSince \in [Triggers -> Int] /\ Range(l) \subseteq Triggers /\ now \in Nat
          BY <2>i, <4>1, SMT DEF IdleInv, Range
        <4> HIDE DEF l
        <4>4. l # <<>>
          BY <4>1, SMT DEF Range
        <4>5. Back(l) \in Range(l) /\ idleSince[Back(l)] <= idleSince[f]
          BY <4>1, <4>3, <4>4 DEF ListFacts
        <4> QED
          BY <4>2, <4>3, <4>4, <4>5, TimeoutNat, SMT DEF Expired
      <3>4. NoExpiredIdle'
        BY <3>1, <3>3 DEF NoExpiredIdle, Expired, dmvars, firedVars
      <3> QED
        BY <3>2, <3>4 DEF ListInv
    <2>5. CASE EvictTriggered
      <3>1. PICK f \in Triggers : EvictTrigger(f)
        BY <2>5 DEF EvictTriggered, EvictNextOf
      <3>2. /\ firedState[f] # "idle" /\ Unhook(f) /\ idle' = idle
        BY <3>1 DEF EvictTrigger
      <3>3. LruInv' /\ IdleInv'
        BY <2>i, <3>2, <1>UnhookLists
      <3>4. NoExpiredIdle'
        <4>1. /\ pc = "evictTriggered" /\ now' = now
              /\ firedState' = [firedState EXCEPT ![f] = "none"]
              /\ idleSince' = [idleSince EXCEPT ![f] = 0]
          BY <2>5, <3>2 DEF EvictTriggered, Unhook
        <4>2. \A g \in Triggers : firedState'[g] = "idle" =>
                 firedState[g] = "idle" /\ idleSince'[g] = idleSince[g]
          BY <2>i, <4>1 DEF IndexInv, IndexType, IdleInv
        <4> QED
          BY <2>i, <4>1, <4>2 DEF NoExpiredIdle, Expired
      <3> QED
        BY <3>3, <3>4 DEF ListInv
    <2>6. CASE EvictTriggeredEnd
      <3>1. pc = "evictTriggered" /\ UNCHANGED dmvars
        BY <2>6 DEF EvictTriggeredEnd
      <3> QED
        BY <2>i, <3>1, <1>ListsStay, <1>ExpiryStays DEF ListInv, dmvars, firedVars
    <2>7. ASSUME NEW t \in TraceIds, EvictUntriggered(t) PROVE ListInv'
      <3>1. pc' = pc /\ lru # <<>> /\ t = Back(lru) /\ EvictTrace(t)
        BY <2>7 DEF EvictUntriggered, MoreTraces
      <3>2. NoExpiredIdle'
        BY <2>i, <3>1, <1>ExpiryStays DEF EvictTrace, firedVars
      <3> QED
        BY <2>i, <3>1, <3>2, <1>EvictTraceLists DEF ListInv
    <2>8. CASE EvictEnd \/ ReportEnd
      <3>1. pc' = "select" /\ UNCHANGED dmvars
        BY <2>8 DEF EvictEnd, ReportEnd
      <3> QED
        BY <2>a, <2>i, <3>1, <1>ListsStay
    <2>9. ASSUME NEW q \in Queues, ReportNext(q) PROVE ListInv'
      <3>1. PICK f \in Triggers : GetBuffersForReport(f)
        BY <2>9 DEF ReportNext, ReportNextOf
      <3>2. pc' = "report"
        BY <2>9 DEF ReportNext
      <3> QED
        BY <2>a, <2>i, <3>1, <3>2, <1>ReportLists
    <2> QED
      BY <2>1, <2>2, <2>3, <2>4, <2>5, <2>6, <2>7, <2>8, <2>9 DEF Continue
  <1>1. ASSUME ListInv, UNCHANGED dmvars, pc' = pc \/ pc' = "report" PROVE ListInv'
    BY <1>1, <1>ListsStay, <1>ExpiryStays DEF ListInv, dmvars, firedVars
  <1>2. ListInv /\ (ReportTimer \/ ReportSend \/ Reporter) => ListInv'
    BY <1>1 DEF ReportTimer, ReportSend, Reporter, Connect, ReporterTake, ReporterReturn
  <1>3. ListInv /\ UNCHANGED vars => ListInv'
    BY <1>1 DEF vars, agentVars
  <1> QED
    BY <1>2, <1>3, <1>HandleLists, <1>ContinueLists DEF Next

-----------------------------------------------------------------------------
(* The breadcrumbs of a trace that is triggered.                           *)
CrumbsLeave(t) ==
    (traceState[t] = "untriggered" /\ traceState'[t] \in {"triggered", "reporting"})
    => /\ breadcrumbs'[t] = {}
       /\ {t} \X breadcrumbs[t] \subseteq outbox'.breadcrumbs \cup outbox'.dropped

CrumbType == breadcrumbs \in [TraceIds -> SUBSET Crumbs]

\* no trace becomes triggered in this step
NoneTriggered ==
    \A t \in TraceIds : traceState[t] = "untriggered" => traceState'[t] \in Pending

LEMMA NextCrumbs ==
  Inv /\ CrumbType /\ [Next]_vars => CrumbType' /\ [\A t \in TraceIds : CrumbsLeave(t)]_vars
  <1>NoneLeave.
      ASSUME CrumbType, NoneTriggered, UNCHANGED breadcrumbs
      PROVE  CrumbType' /\ \A t \in TraceIds : CrumbsLeave(t)
    BY <1>NoneLeave DEF CrumbType, NoneTriggered, CrumbsLeave, Pending
  (* What Forward is given is on one of the channels or counted as dropped.  *)
  <1>ForwardCounts.
      ASSUME NEW T, NEW C, Forward(T, C)
      PROVE  C \subseteq outbox'.breadcrumbs \cup outbox'.dropped
    <2> USE <1>ForwardCounts
    <2>1. PICK trgs \in {T, {}}, sent \in {C, {}} :
             outbox' = [triggers |-> trgs, breadcrumbs |-> sent,
                        dropped |-> (T \ trgs) \cup (C \ sent)]
      BY DEF Forward
    <2>2. outbox'.breadcrumbs = sent /\ outbox'.dropped = (T \ trgs) \cup (C \ sent)
      BY <2>1
    <2> QED
      BY <2>2
  <1>TriggerCrumbs.
      ASSUME IndexInv, CrumbType, NEW f, NEW t \in TraceIds, Trigger(f, t), NEW T,
             Forward(T, {t} \X CrumbsOnTrigger(t))
      PROVE  CrumbType' /\ \A u \in TraceIds : CrumbsLeave(u)
    <2> USE <1>TriggerCrumbs
    <2>1. /\ breadcrumbs' = [breadcrumbs EXCEPT ![t] = {}]
          /\ \A u \in TraceIds \ {t} : traceState'[u] = traceState[u]
      BY DEF Trigger, IndexInv, IndexType
    <2>2. CrumbType'
      BY <2>1, SMT DEF CrumbType
    <2>3. breadcrumbs'[t] = {}
      BY <2>1 DEF CrumbType
    <2>4. {t} \X CrumbsOnTrigger(t) \subseteq outbox'.breadcrumbs \cup outbox'.dropped
      BY <1>ForwardCounts
    <2>5. traceState[t] = "untriggered" => CrumbsOnTrigger(t) = breadcrumbs[t]
      BY DEF CrumbsOnTrigger, Pending
    <2>6. CrumbsLeave(t)
      BY <2>3, <2>4, <2>5 DEF CrumbsLeave
    <2>7. ASSUME NEW u \in TraceIds \ {t} PROVE CrumbsLeave(u)
      BY <2>1, <2>7 DEF CrumbsLeave
    <2> QED
      BY <2>2, <2>6, <2>7
  <1> SUFFICES ASSUME Inv, CrumbType, [Next]_vars
               PROVE  CrumbType' /\ \A t \in TraceIds : CrumbsLeave(t)
    OBVIOUS
  <1> DEFINE Goal == CrumbType' /\ \A t \in TraceIds : CrumbsLeave(t)
  <1>i. IndexInv /\ IndexType
    BY DEF Inv, IndexInv
  <1>1. ASSUME UNCHANGED <<traceState, breadcrumbs>> PROVE Goal
    <2>1. NoneTriggered
      BY <1>1 DEF NoneTriggered, Pending
    <2> QED
      BY <1>1, <2>1, <1>NoneLeave
  <1>u. ASSUME UNCHANGED dmvars PROVE Goal
    BY <1>u, <1>1 DEF dmvars, traceVars
  <1> SUFFICES Goal
    OBVIOUS
  <1> HIDE DEF Goal
  <1>2. CASE Tick
    BY <1>1, <1>2 DEF Tick, traceVars
  <1>3. ASSUME NEW t \in TraceIds, NEW C \in SUBSET Crumbs, ProcessBreadcrumbs(t, C) PROVE Goal
    <2>1. CASE UNCHANGED dmvars
      BY <1>u, <2>1
    <2>2. CASE ~ UNCHANGED dmvars
      <3>1. /\ traceState' = [traceState EXCEPT ![t] = "untriggered"]
            /\ breadcrumbs' = [breadcrumbs EXCEPT ![t] = @ \cup C]
        BY <1>3, <2>2 DEF ProcessBreadcrumbs, AddBreadcrumbs
      <3>2. CrumbType'
        BY <3>1, SMT DEF CrumbType
      <3>3. NoneTriggered
        BY <1>i, <3>1 DEF NoneTriggered, IndexType, Pending
      <3> QED
        BY <3>2, <3>3 DEF Goal, NoneTriggered, CrumbsLeave, Pending
    <2> QED
      BY <2>1, <2>2
  <1>4. ASSUME NEW x \in Fireable, ProcessTrigger(x) \/ ProcessRemoteTrigger(x) PROVE Goal
    <2>1. \/ UNCHANGED dmvars
          \/ \E T : /\ Trigger(<<x[1], x[2]>>, x[3])
                    /\ Forward(T, {x[3]} \X CrumbsOnTrigger(x[3]))
      BY <1>4 DEF ProcessTrigger, ProcessRemoteTrigger
    <2> QED
      BY <1>i, <1>u, <2>1, <1>TriggerCrumbs, FireableTriggers DEF Goal
  <1>5. ASSUME NEW t \in TraceIds \cup {0}, CompleteEntry(t) PROVE Goal
    <2>1. UNCHANGED dmvars \/ (t \in TraceIds /\ AddBuffers(t, batch[t]))
      BY <1>5 DEF CompleteEntry
    <2>2. CASE t \in TraceIds /\ AddBuffers(t, batch[t])
      <3>1. /\ UNCHANGED breadcrumbs
            /\ \/ traceState' = [traceState EXCEPT ![t] = "untriggered"]
               \/ traceState[t] \notin Pending /\ traceState' = [traceState EXCEPT ![t] = "reporting"]
        BY <2>2 DEF AddBuffers, AddBuffersUntriggered, AddBuffersTriggered
      <3>2. NoneTriggered
        BY <1>i, <2>2, <3>1 DEF NoneTriggered, IndexType, Pending
      <3> QED
        BY <3>1, <3>2, <1>NoneLeave DEF Goal
    <2> QED
      BY <1>u, <2>1, <2>2
  <1>6. ASSUME NEW f \in Triggers, Unhook(f) PROVE Goal
    <2>1. NoneTriggered /\ UNCHANGED breadcrumbs
      BY <1>6 DEF Unhook, NoneTriggered, Pending
    <2> QED
      BY <2>1, <1>NoneLeave DEF Goal
  <1>7. ASSUME NEW t \in TraceIds, EvictUntriggered(t) PROVE Goal
    <2>1. /\ traceState' = [traceState EXCEPT ![t] = "none"]
          /\ breadcrumbs' = [breadcrumbs EXCEPT ![t] = {}]
      BY <1>7 DEF EvictUntriggered, EvictTrace
    <2>2. CrumbType'
      BY <2>1, SMT DEF CrumbType
    <2>3. NoneTriggered
      BY <1>i, <2>1 DEF NoneTriggered, IndexType, Pending
    <2> QED
      BY <2>2, <2>3 DEF Goal, NoneTriggered, CrumbsLeave, Pending
  <1>8. ASSUME NEW q \in Queues, ReportNext(q) PROVE Goal
    <2>1. PICK f \in Triggers : GetBuffersForReport(f)
      BY <1>8 DEF ReportNext, ReportNextOf
    <2>2. NoneTriggered /\ UNCHANGED breadcrumbs
      BY <1>i, <2>1, TriggeredTraces DEF GetBuffersForReport, NoneTriggered, Pending
    <2> QED
      BY <2>2, <1>NoneLeave DEF Goal
  <1>9. CASE \/ CompleteBegin \/ CompleteEnd \/ CheckIdleEnd \/ EvictTriggeredEnd \/ EvictEnd
             \/ ReportEnd \/ ReportTimer \/ ReportSend \/ Reporter \/ UNCHANGED vars
    BY <1>9, <1>u DEF CompleteBegin, CompleteEnd, CheckIdleEnd, EvictTriggeredEnd, EvictEnd,
       ReportEnd, ReportTimer, ReportSend, Reporter, Connect, ReporterTake, ReporterReturn, vars
  <1>10. CASE Handle
    BY <1>2, <1>3, <1>4, <1>9, <1>10 DEF Handle
  <1>11. CASE Continue
    BY <1>5, <1>6, <1>7, <1>8, <1>9, <1>11
    DEF Continue, CheckIdle, TimeOut, EvictTriggered, EvictNextOf, EvictTrigger
  <1> QED
    BY <1>9, <1>10, <1>11 DEF Next

-----------------------------------------------------------------------------
(***************************************************************************)
(* The counters are the sizes of the sets they count.  Every operation     *)
(* only adds to such a set or only takes from it; which elements is shown  *)
(* first, for each operation, and counted afterwards.                      *)
(***************************************************************************)

\* what is needed of finite sets
CountFacts ==
    /\ \A S : IsFiniteSet(S) => Cardinality(S) \in Nat
    /\ \A S, D : IsFiniteSet(S) /\ D \subseteq S =>
          IsFiniteSet(D) /\ Cardinality(S \ D) = Cardinality(S) - Cardinality(D)
    /\ \A S, A : IsFiniteSet(S) /\ IsFiniteSet(A) /\ S \cap A = {} =>
          IsFiniteSet(S \cup A) /\ Cardinality(S \cup A) = Cardinality(S) + Cardinality(A)
    /\ \A S, A : IsFiniteSet(S) /\ IsFiniteSet(A) =>
          IsFiniteSet(S \X A) /\ Cardinality(S \X A) = Cardinality(S) * Cardinality(A)
    /\ \A x : IsFiniteSet({x}) /\ Cardinality({x}) = 1
    /\ IsFiniteSet({}) /\ Cardinality({}) = 0

(* All that is counted is finite.                                          *)
LEMMA CountedFinite ==
  ASSUME CountFacts, IndexInv
  PROVE  /\ \A T \in SUBSET TraceIds : IsFiniteSet(T) /\ IsFiniteSet(Held(T))
         /\ \A F \in SUBSET Triggers : IsFiniteSet(F)
         /\ \A q \in Queues : IsFiniteSet(LinksOf(q)) /\ IsFiniteSet(SharesOf(q))
  <1>1. \A S, D : IsFiniteSet(S) /\ D \subseteq S => IsFiniteSet(D)
    BY DEF CountFacts
  <1>2. \A S, A : IsFiniteSet(S) /\ IsFiniteSet(A) => IsFiniteSet(S \X A)
    BY DEF CountFacts
  <1>3. IsFiniteSet(TraceIds \X Buffers) /\ IsFiniteSet(Queues \X TraceIds)
    BY <1>2, IdsFinite, BuffersFinite
  <1>4. Triggers \subseteq Queues \X TraceIds
    BY FireableTyped, SMT DEF Triggers
  <1>5. IsFiniteSet(Triggers)
    BY <1>1, <1>3, <1>4
  <1>6. \A T \in SUBSET TraceIds : Held(T) \subseteq TraceIds \X Buffers
    BY SMT DEF Held
  <1>7. \A q \in Queues : OfQueue(q) \subseteq Triggers
    BY DEF OfQueue
  <1>8. \A q \in Queues : /\ LinksOf(q) \subseteq Triggers \X TraceIds
                          /\ SharesOf(q) \subseteq Triggers \X (TraceIds \X Buffers)
    BY <1>6, <1>7, SMT DEF LinksOf, SharesOf
  <1>9. IsFiniteSet(Triggers \X TraceIds) /\ IsFiniteSet(Triggers \X (TraceIds \X Buffers))
    BY <1>2, <1>3, <1>5, IdsFinite
  <1> QED
    BY <1>1, <1>3, <1>5, <1>6, <1>8, <1>9, IdsFinite

(* A set of traces, the data of one, and the data of a trigger.            *)
LEMMA HeldOne ==
  ASSUME IndexInv, NEW t \in TraceIds
  PROVE  Held({t}) = {t} \X buffers[t]
  BY SMT DEF Held, IndexInv, IndexType

-----------------------------------------------------------------------------
\* the counters of dm, dm.untriggered and dm.triggered
CountNames == {"traces", "buffers", "utraces", "ubuffers", "ttraces", "tbuffers"}
CountRecord == count = [k \in CountNames |-> count[k]]

TotalsInv ==
    /\ CountRecord
    /\ count.traces = count.utraces + count.ttraces
    /\ count.buffers = count.ubuffers + count.tbuffers
    /\ count.utraces = Cardinality(Untriggered)
    /\ count.ubuffers = Cardinality(Held(Untriggered))
    /\ count.ttraces = Cardinality(Triggered)
    /\ count.tbuffers = Cardinality(Held(Triggered))

\* the counters of fired triggers and queues
SharesInv ==
    /\ bufferCount \in [Triggers -> Int]
    /\ qBuffers \in [Queues -> Int] /\ qTraces \in [Queues -> Int]
    /\ \A f \in Triggers : bufferCount[f] = Cardinality(Held(traces[f]))
    /\ \A q \in Queues : /\ qBuffers[q] = Cardinality(SharesOf(q))
                         /\ qTraces[q] = Cardinality(LinksOf(q))

CountInv == TotalsInv /\ SharesInv

(* A set that gains or loses elements, counted.                            *)
LEMMA Grown ==
  ASSUME CountFacts, NEW S, NEW A, IsFiniteSet(S), IsFiniteSet(A), S \cap A = {}
  PROVE  /\ Cardinality(S \cup A) = Cardinality(S) + Cardinality(A)
         /\ Cardinality(S) \in Nat /\ Cardinality(A) \in Nat
  BY DEF CountFacts

LEMMA Shrunk ==
  ASSUME CountFacts, NEW S, NEW D, IsFiniteSet(S), D \subseteq S
  PROVE  /\ Cardinality(S \ D) = Cardinality(S) - Cardinality(D)
         /\ Cardinality(S) \in Nat /\ Cardinality(D) \in Nat
  BY DEF CountFacts

LEMMA Single ==
  ASSUME CountFacts, NEW x, NEW B, IsFiniteSet(B)
  PROVE  /\ IsFiniteSet({x}) /\ Cardinality({x}) = 1
         /\ IsFiniteSet({x} \X B) /\ Cardinality({x} \X B) = Cardinality(B)
  <1>1. /\ IsFiniteSet({x}) /\ Cardinality({x}) = 1 /\ Cardinality(B) \in Nat
        /\ IsFiniteSet({x} \X B) /\ Cardinality({x} \X B) = Cardinality({x}) * Cardinality(B)
    BY DEF CountFacts
  <1> QED
    BY <1>1, SMT

(* One trace more, or one less.                                            *)
LEMMA OneMore ==
  ASSUME CountFacts, NEW S, NEW x, IsFiniteSet(S)
  PROVE  Cardinality(S \cup {x}) = Cardinality(S) + If(x \notin S, 1)
  <1>1. CASE x \in S
    <2>1. S \cup {x} = S /\ Cardinality(S) \in Nat
      BY <1>1 DEF CountFacts
    <2> QED
      BY <1>1, <2>1, SMT DEF If
  <1>2. CASE x \notin S
    <2>1. S \cap {x} = {} /\ IsFiniteSet({x}) /\ Cardinality({x}) = 1
      BY <1>2 DEF CountFacts
    <2>2. Cardinality(S \cup {x}) = Cardinality(S) + Cardinality({x})
      BY <2>1, Grown
    <2> QED
      BY <1>2, <2>1, <2>2 DEF If
  <1> QED
    BY <1>1, <1>2

LEMMA OneLess ==
  ASSUME CountFacts, NEW S, NEW x, IsFiniteSet(S)
  PROVE  Cardinality(S \ {x}) = Cardinality(S) - If(x \in S, 1)
  <1>1. CASE x \notin S
    <2>1. S \ {x} = S /\ Cardinality(S) \in Nat
      BY <1>1 DEF CountFacts
    <2> QED
      BY <1>1, <2>1, SMT DEF If
  <1>2. CASE x \in S
    <2>1. {x} \subseteq S /\ Cardinality({x}) = 1
      BY <1>2 DEF CountFacts
    <2>2. Cardinality(S \ {x}) = Cardinality(S) - Cardinality({x})
      BY <2>1, Shrunk
    <2> QED
      BY <1>2, <2>1, <2>2 DEF If
  <1> QED
    BY <1>1, <1>2

(* The sets that the counters count are finite.                            *)
LEMMA CountedSets ==
  ASSUME CountFacts, IndexInv
  PROVE  /\ IsFiniteSet(Untriggered) /\ IsFiniteSet(Held(Untriggered))
         /\ IsFiniteSet(Triggered) /\ IsFiniteSet(Held(Triggered))
         /\ \A f \in Triggers : IsFiniteSet(traces[f]) /\ IsFiniteSet(Held(traces[f]))
         /\ \A q \in Queues : IsFiniteSet(LinksOf(q)) /\ IsFiniteSet(SharesOf(q))
  <1>1. /\ Untriggered \in SUBSET TraceIds /\ Triggered \in SUBSET TraceIds
        /\ \A f \in Triggers : traces[f] \in SUBSET TraceIds
    BY DEF Untriggered, Triggered, IndexInv, IndexType
  <1> QED
    BY <1>1, CountedFinite

LEMMA TotalsNat ==
  ASSUME CountFacts, IndexInv
  PROVE  /\ Cardinality(Untriggered) \in Nat /\ Cardinality(Held(Untriggered)) \in Nat
         /\ Cardinality(Triggered) \in Nat /\ Cardinality(Held(Triggered)) \in Nat
  BY CountedSets DEF CountFacts

(* What one trace holds, counted.                                          *)
LEMMA HeldCounts ==
  ASSUME CountFacts, IndexInv, NEW t \in TraceIds
  PROVE  /\ IsFiniteSet(Held({t}))
         /\ Cardinality(Held({t})) = Cardinality(buffers[t])
         /\ Cardinality(buffers[t]) \in Nat
  <1>1. buffers[t] \subseteq Buffers
    BY DEF IndexInv, IndexType
  <1>2. IsFiniteSet(buffers[t])
    BY <1>1, BuffersFinite DEF CountFacts
  <1>3. Cardinality(buffers[t]) \in Nat
    BY <1>2 DEF CountFacts
  <1>4. IsFiniteSet({t} \X buffers[t]) /\ Cardinality({t} \X buffers[t]) = Cardinality(buffers[t])
    BY <1>2, Single
  <1> QED
    BY <1>3, <1>4, HeldOne

-----------------------------------------------------------------------------
\* the operations on the index, as the handlers call them
IndexStep ==
    \/ UNCHANGED <<traceVars, firedVars, count>>
    \/ \E t \in TraceIds, B \in SUBSET Buffers :
          (\A u \in TraceIds : buffers[u] \cap B = {}) /\ B # {} /\ AddBuffers(t, B)
    \/ \E t \in TraceIds, C \in SUBSET Crumbs : AddBreadcrumbs(t, C)
    \/ \E f \in Triggers, t \in TraceIds : Trigger(f, t)
    \/ \E t \in TraceIds : EvictTrace(t)
    \/ \E f \in Triggers : GetBuffersForReport(f)
    \/ \E f \in Triggers : EvictTrigger(f)
    \/ \E f \in Triggers : TimeOut(f)

(* Every step of the agent is one operation on the index or leaves it      *)
(* alone.  Buffers that come in with a batch are not in the index yet.     *)
LEMMA NextIndexStep == Inv /\ PlaceInv /\ [Next]_vars => IndexStep
  <1> SUFFICES ASSUME Inv, PlaceInv, [Next]_vars PROVE IndexStep
    OBVIOUS
  <1>1. CASE UNCHANGED dmvars
    BY <1>1 DEF IndexStep, dmvars
  <1>2. CASE Handle
    <2>1. CASE Tick
      BY <2>1 DEF Tick, IndexStep
    <2>2. ASSUME NEW t \in TraceIds, NEW C \in SUBSET Crumbs, ProcessBreadcrumbs(t, C) PROVE IndexStep
      BY <2>2 DEF ProcessBreadcrumbs, IndexStep
    <2>3. ASSUME NEW x \in Fireable, ProcessTrigger(x) \/ ProcessRemoteTrigger(x) PROVE IndexStep
      <3>1. Trigger(<<x[1], x[2]>>, x[3]) \/ UNCHANGED dmvars
        BY <2>3 DEF ProcessTrigger, ProcessRemoteTrigger
      <3> QED
        BY <1>1, <3>1, FireableTriggers DEF IndexStep
    <2>4. CompleteBegin => UNCHANGED dmvars
      BY DEF CompleteBegin
    <2> QED
      BY <1>1, <1>2, <2>1, <2>2, <2>3, <2>4 DEF Handle
  <1>3. CASE Continue
    <2>1. ASSUME NEW t \in TraceIds \cup {0}, CompleteEntry(t) PROVE IndexStep
      <3>1. CASE t = 0
        BY <1>1, <2>1, <3>1 DEF CompleteEntry
      <3>2. CASE t # 0
        <4>1. /\ AddBuffers(t, batch[t]) /\ t \in TraceIds /\ t \in DOMAIN batch
              /\ batch[t] \in SUBSET Buffers /\ batch[t] # {}
          BY <2>1, <3>2 DEF CompleteEntry, Inv, HeldInv
        <4>2. ASSUME NEW u \in TraceIds, NEW b \in buffers[u], b \in batch[t] PROVE FALSE
          <5>1. b \in Buffers /\ At("index", b) /\ At("batch", b)
            BY <4>1, <4>2 DEF At
          <5>2. "index" \in Kinds /\ "batch" \in Kinds /\ "index" # "batch"
            BY DEF Kinds
          <5> QED
            BY <5>1, <5>2 DEF PlaceInv, OnePlace, OneKind
        <4>3. \A u \in TraceIds : buffers[u] \cap batch[t] = {}
          BY <4>2
        <4> QED
          BY <4>1, <4>3 DEF IndexStep
      <3> QED
        BY <3>1, <3>2
    <2>2. ASSUME NEW q \in Queues, NEW f \in Triggers, CheckIdle(q, f) PROVE IndexStep
      BY <2>2 DEF CheckIdle, IndexStep
    <2>3. CASE EvictTriggered
      BY <2>3 DEF EvictTriggered, EvictNextOf, IndexStep
    <2>4. ASSUME NEW t \in TraceIds, EvictUntriggered(t) PROVE IndexStep
      BY <2>4 DEF EvictUntriggered, IndexStep
    <2>5. ASSUME NEW q \in Queues, ReportNext(q) PROVE IndexStep
      BY <2>5 DEF ReportNext, ReportNextOf, IndexStep
    <2>6. CompleteEnd \/ CheckIdleEnd \/ EvictTriggeredEnd \/ EvictEnd \/ ReportEnd => UNCHANGED dmvars
      BY DEF CompleteEnd, CheckIdleEnd, EvictTriggeredEnd, EvictEnd, ReportEnd
    <2> QED
      BY <1>1, <1>3, <2>1, <2>2, <2>3, <2>4, <2>5, <2>6 DEF Continue
  <1>4. ReportTimer \/ ReportSend \/ Reporter \/ UNCHANGED vars => UNCHANGED dmvars
    BY DEF ReportTimer, ReportSend, Reporter, Connect, ReporterTake, ReporterReturn, vars
  <1> QED
    BY <1>1, <1>2, <1>3, <1>4 DEF Next

LEMMA InitCounts ==
  ASSUME CountFacts PROVE Init => CountInv
  <1> SUFFICES ASSUME Init PROVE CountInv
    OBVIOUS
  <1>1. /\ traceState = [t \in TraceIds |-> "none"]
        /\ buffers = [t \in TraceIds |-> {}]
        /\ traces = [f \in Triggers |-> {}]
        /\ bufferCount = [f \in Triggers |-> 0]
        /\ qBuffers = [q \in Queues |-> 0]
        /\ qTraces = [q \in Queues |-> 0]
        /\ count = [traces |-> 0, buffers |-> 0, utraces |-> 0, ubuffers |-> 0,
                    ttraces |-> 0, tbuffers |-> 0]
    BY DEF Init, DMInit
  <1>2. Untriggered = {} /\ Triggered = {}
    BY <1>1 DEF Untriggered, Triggered
  <1>3. \A T : T \in SUBSET TraceIds => Held(T) = {}
    BY <1>1, SMT DEF Held
  <1>4. /\ Held(Untriggered) = {} /\ Held(Triggered) = {}
        /\ \A f \in Triggers : Held(traces[f]) = {}
    BY <1>1, <1>2, <1>3
  <1>5. \A q \in Queues : SharesOf(q) = {} /\ LinksOf(q) = {}
    BY <1>1, SMT DEF SharesOf, LinksOf, OfQueue
  <1>6. Cardinality({}) = 0
    BY DEF CountFacts
  <1>7. CountRecord
    BY <1>1, SMT DEF CountRecord, CountNames
  <1>8. /\ count.traces = 0 /\ count.buffers = 0 /\ count.utraces = 0
        /\ count.ubuffers = 0 /\ count.ttraces = 0 /\ count.tbuffers = 0 /\ 0 + 0 = 0 /\ 0 \in Int
    BY <1>1, SMT
  <1>9. TotalsInv
    BY <1>2, <1>4, <1>6, <1>7, <1>8 DEF TotalsInv
  <1>10. SharesInv
    BY <1>1, <1>4, <1>5, <1>6, <1>8 DEF SharesInv
  <1> QED
    BY <1>9, <1>10 DEF CountInv

LEMMA NextCounts == CountFacts /\ Inv /\ PlaceInv /\ CountInv /\ [Next]_vars => CountInv'
  (* The counters of triggers and queues stay, when what they count does.    *)
  <1>SharesStay.
      ASSUME SharesInv, UNCHANGED <<bufferCount, qBuffers, qTraces>>,
             \A f \in Triggers : Held(traces[f])' = Held(traces[f]),
             \A q \in Queues : SharesOf(q)' = SharesOf(q) /\ LinksOf(q)' = LinksOf(q)
      PROVE  SharesInv'
    BY <1>SharesStay DEF SharesInv
  <1>CountsStay.
      ASSUME CountInv, UNCHANGED <<traceState, buffers, traces, bufferCount, qBuffers, qTraces, count>>
      PROVE  CountInv'
    <2> USE <1>CountsStay
    <2>1. /\ Untriggered' = Untriggered /\ Triggered' = Triggered
          /\ Held(Untriggered)' = Held(Untriggered) /\ Held(Triggered)' = Held(Triggered)
          /\ \A f \in Triggers : Held(traces[f])' = Held(traces[f])
          /\ \A q \in Queues : SharesOf(q)' = SharesOf(q) /\ LinksOf(q)' = LinksOf(q)
      BY DEF Untriggered, Triggered, Held, SharesOf, LinksOf
    <2>2. TotalsInv'
      BY <2>1 DEF CountInv, TotalsInv, CountRecord
    <2> QED
      BY <2>1, <2>2, <1>SharesStay DEF CountInv
  <1>AddUntriggeredSets.
      ASSUME IndexInv, NEW t \in TraceIds, NEW B \in SUBSET Buffers,
             \A u \in TraceIds : buffers[u] \cap B = {},
             traceState[t] \in Pending,
             traceState' = [traceState EXCEPT ![t] = "untriggered"],
             buffers' = [buffers EXCEPT ![t] = @ \cup B],
             UNCHANGED traces
      PROVE  /\ Untriggered' = Untriggered \cup {t}
             /\ Triggered' = Triggered
             /\ Held(Untriggered)' = Held(Untriggered) \cup ({t} \X B)
             /\ Held(Untriggered) \cap ({t} \X B) = {}
             /\ Held(Triggered)' = Held(Triggered)
             /\ \A f \in Triggers : Held(traces[f])' = Held(traces[f])
             /\ \A q \in Queues : SharesOf(q)' = SharesOf(q) /\ LinksOf(q)' = LinksOf(q)
    <2> USE <1>AddUntriggeredSets
    <2>1. /\ t \notin Triggered /\ \A f \in Triggers : t \notin traces[f]
          /\ t \in Untriggered \/ buffers[t] = {}
      BY SMT DEF IndexInv, IndexType, LinksAgree, Pending, Triggered, Untriggered
    <2>2. Untriggered' = Untriggered \cup {t} /\ Triggered' = Triggered
      BY <2>1, SMT DEF IndexInv, IndexType, Triggered, Untriggered
    <2>3. Held(Untriggered)' = Held(Untriggered) \cup ({t} \X B)
      BY <2>1, <2>2, SMT DEF IndexInv, IndexType, Held
    <2>4. Held(Untriggered) \cap ({t} \X B) = {}
      BY SMT DEF Held, IndexInv, IndexType
    <2>5. \A T \in SUBSET TraceIds : t \notin T => {p \in T \X Buffers : p[2] \in buffers'[p[1]]} = Held(T)
      BY SMT DEF Held, IndexInv, IndexType
    <2>6. Held(Triggered)' = Held(Triggered)
      BY <2>1, <2>2, <2>5 DEF Held, Triggered
    <2>7. \A f \in Triggers : Held(traces[f])' = Held(traces[f])
      BY <2>1, <2>5 DEF Held, IndexInv, IndexType
    <2>8. \A q \in Queues : LinksOf(q)' = LinksOf(q)
      BY DEF LinksOf
    <2>9. \A q \in Queues : SharesOf(q)' = SharesOf(q)
      BY <2>1, SMT DEF SharesOf, Held, OfQueue, IndexInv, IndexType
    <2> QED
      BY <2>2, <2>3, <2>4, <2>6, <2>7, <2>8, <2>9
  <1>AddUntriggeredCounts.
      ASSUME CountFacts, IndexInv, CountInv, NEW t \in TraceIds, NEW B \in SUBSET Buffers,
             \A u \in TraceIds : buffers[u] \cap B = {}, AddBuffersUntriggered(t, B)
      PROVE  CountInv'
    <2> USE <1>AddUntriggeredCounts
    <2> DEFINE new == If(traceState[t] = "none", 1)
               n == Cardinality(B)
    <2>1. /\ traceState[t] \in Pending
          /\ traceState' = [traceState EXCEPT ![t] = "untriggered"]
          /\ buffers' = [buffers EXCEPT ![t] = @ \cup B]
          /\ count' = [count EXCEPT !.traces = @ + new, !.utraces = @ + new,
                                    !.buffers = @ + n, !.ubuffers = @ + n]
          /\ UNCHANGED <<traces, bufferCount, qBuffers, qTraces>>
      BY DEF AddBuffersUntriggered, firedVars
    <2>2. /\ Untriggered' = Untriggered \cup {t}
          /\ Triggered' = Triggered
          /\ Held(Untriggered)' = Held(Untriggered) \cup ({t} \X B)
          /\ Held(Untriggered) \cap ({t} \X B) = {}
          /\ Held(Triggered)' = Held(Triggered)
          /\ \A f \in Triggers : Held(traces[f])' = Held(traces[f])
          /\ \A q \in Queues : SharesOf(q)' = SharesOf(q) /\ LinksOf(q)' = LinksOf(q)
      BY <2>1, <1>AddUntriggeredSets
    <2>3. IsFiniteSet(B)
      BY BuffersFinite DEF CountFacts
    <2>4. IsFiniteSet({t} \X B) /\ Cardinality({t} \X B) = n /\ n \in Nat
      BY <2>3, Single DEF CountFacts
    <2>5. Cardinality(Held(Untriggered)') = Cardinality(Held(Untriggered)) + n
      BY <2>2, <2>4, Grown, CountedSets
    <2>6. traceState[t] = "none" <=> t \notin Untriggered
      BY <2>1 DEF Pending, Untriggered
    <2>7. Cardinality(Untriggered') = Cardinality(Untriggered) + new
      BY <2>2, <2>6, OneMore, CountedSets
    <2>8. new \in Int
      BY SMT DEF If
    <2> HIDE DEF new, n
    <2>9. TotalsInv'
      <3>1. /\ count'.traces = count.traces + new /\ count'.utraces = count.utraces + new
            /\ count'.buffers = count.buffers + n /\ count'.ubuffers = count.ubuffers + n
            /\ count'.ttraces = count.ttraces /\ count'.tbuffers = count.tbuffers
        BY <2>1, SMTT(20) DEF CountInv, TotalsInv, CountRecord, CountNames
      <3>2. CountRecord'
        BY <2>1 DEF CountInv, TotalsInv, CountRecord
      <3>3. /\ count'.utraces = Cardinality(Untriggered') /\ count'.ubuffers = Cardinality(Held(Untriggered)')
           /\ count'.ttraces = Cardinality(Triggered') /\ count'.tbuffers = Cardinality(Held(Triggered)')
        BY <2>2, <2>5, <2>7, <3>1 DEF CountInv, TotalsInv
      <3>4. /\ count'.traces = count'.utraces + count'.ttraces
           /\ count'.buffers = count'.ubuffers + count'.tbuffers
        BY <2>4, <2>8, <3>1, TotalsNat, SMT DEF CountInv, TotalsInv
      <3> QED
        BY <3>2, <3>3, <3>4 DEF TotalsInv
    <2>10. SharesInv'
      BY <2>1, <2>2, <1>SharesStay DEF CountInv
    <2> QED
      BY <2>9, <2>10 DEF CountInv
  <1>AddTriggeredSets.
      ASSUME IndexInv, NEW t \in TraceIds, NEW B \in SUBSET Buffers,
             \A u \in TraceIds : buffers[u] \cap B = {},
             traceState[t] \notin Pending,
             traceState' = [traceState EXCEPT ![t] = "reporting"],
             buffers' = [buffers EXCEPT ![t] = @ \cup B],
             UNCHANGED traces
      PROVE  /\ Untriggered' = Untriggered
             /\ Triggered' = Triggered
             /\ Held(Untriggered)' = Held(Untriggered)
             /\ Held(Triggered)' = Held(Triggered) \cup ({t} \X B)
             /\ Held(Triggered) \cap ({t} \X B) = {}
             /\ \A f \in Triggers : f \notin triggers[t] => Held(traces[f])' = Held(traces[f])
             /\ \A f \in triggers[t] : /\ Held(traces[f])' = Held(traces[f]) \cup ({t} \X B)
                                       /\ Held(traces[f]) \cap ({t} \X B) = {}
             /\ \A q \in Queues :
                   LET A == {f \in triggers[t] : QueueOf(f) = q} \X ({t} \X B)
                   IN  /\ LinksOf(q)' = LinksOf(q)
                       /\ SharesOf(q)' = SharesOf(q) \cup A
                       /\ SharesOf(q) \cap A = {}
    <2> USE <1>AddTriggeredSets
    <2>1. t \notin Untriggered /\ t \in Triggered
      BY SMT DEF IndexInv, IndexType, LinksAgree, Pending, Triggered, Untriggered
    <2>2. Untriggered' = Untriggered /\ Triggered' = Triggered
      BY <2>1, SMT DEF IndexInv, IndexType, Triggered, Untriggered
    <2>3. \A T \in SUBSET TraceIds :
            /\ t \notin T => {p \in T \X Buffers : p[2] \in buffers'[p[1]]} = Held(T)
            /\ t \in T => {p \in T \X Buffers : p[2] \in buffers'[p[1]]} = Held(T) \cup ({t} \X B)
            /\ Held(T) \cap ({t} \X B) = {}
      BY SMT DEF Held, IndexInv, IndexType
    <2>4. Held(Triggered)' = Held(Triggered) \cup ({t} \X B) /\ Held(Untriggered)' = Held(Untriggered)
      BY <2>1, <2>2, <2>3 DEF Held, Triggered, Untriggered
    <2>5. \A f \in Triggers : traces[f] \in SUBSET TraceIds /\ (f \in triggers[t] <=> t \in traces[f])
      BY DEF IndexInv, IndexType, LinksAgree
    <2>6. /\ \A f \in Triggers : f \notin triggers[t] => Held(traces[f])' = Held(traces[f])
          /\ \A f \in Triggers : f \in triggers[t] => Held(traces[f])' = Held(traces[f]) \cup ({t} \X B)
      BY <2>3, <2>5 DEF Held
    <2>7. \A q \in Queues : LinksOf(q)' = LinksOf(q)
      BY DEF LinksOf
    <2>8. ASSUME NEW q \in Queues
          PROVE  LET A == {f \in triggers[t] : QueueOf(f) = q} \X ({t} \X B)
                 IN  /\ SharesOf(q)' = SharesOf(q) \cup A
                     /\ SharesOf(q) \cap A = {}
      BY <2>5, SMT DEF SharesOf, Held, OfQueue, IndexInv, IndexType
    <2>9. triggers[t] \subseteq Triggers /\ Triggered \in SUBSET TraceIds
      BY DEF IndexInv, IndexType, Triggered
    <2>10. /\ Held(Triggered) \cap ({t} \X B) = {}
           /\ \A f \in Triggers : Held(traces[f]) \cap ({t} \X B) = {}
      BY <2>3, <2>5, <2>9
    <2> QED
      BY <2>2, <2>4, <2>6, <2>7, <2>8, <2>9, <2>10
  <1>AddTriggeredCounts.
      ASSUME CountFacts, IndexInv, CountInv, NEW t \in TraceIds, NEW B \in SUBSET Buffers,
             \A u \in TraceIds : buffers[u] \cap B = {}, AddBuffersTriggered(t, B)
      PROVE  CountInv'
    <2> USE <1>AddTriggeredCounts
    <2> DEFINE n == Cardinality(B)
               F(q) == {f \in triggers[t] : QueueOf(f) = q}
    <2>1. /\ traceState[t] \notin Pending
          /\ traceState' = [traceState EXCEPT ![t] = "reporting"]
          /\ buffers' = [buffers EXCEPT ![t] = @ \cup B]
          /\ count' = [count EXCEPT !.buffers = @ + n, !.tbuffers = @ + n]
          /\ bufferCount' = [f \in Triggers |-> bufferCount[f] + If(f \in triggers[t], n)]
          /\ qBuffers' = [q \in Queues |-> qBuffers[q] + n * Cardinality(F(q))]
          /\ UNCHANGED <<traces, qTraces>>
      BY DEF AddBuffersTriggered, BuffersAdded
    <2>2. /\ Untriggered' = Untriggered
          /\ Triggered' = Triggered
          /\ Held(Untriggered)' = Held(Untriggered)
          /\ Held(Triggered)' = Held(Triggered) \cup ({t} \X B)
          /\ Held(Triggered) \cap ({t} \X B) = {}
          /\ \A f \in Triggers : f \notin triggers[t] => Held(traces[f])' = Held(traces[f])
          /\ \A f \in triggers[t] : /\ Held(traces[f])' = Held(traces[f]) \cup ({t} \X B)
                                    /\ Held(traces[f]) \cap ({t} \X B) = {}
          /\ \A q \in Queues : /\ LinksOf(q)' = LinksOf(q)
                               /\ SharesOf(q)' = SharesOf(q) \cup (F(q) \X ({t} \X B))
                               /\ SharesOf(q) \cap (F(q) \X ({t} \X B)) = {}
      BY <2>1, <1>AddTriggeredSets
    <2>3. IsFiniteSet(B)
      BY BuffersFinite DEF CountFacts
    <2>4. IsFiniteSet({t} \X B) /\ Cardinality({t} \X B) = n /\ n \in Nat
      BY <2>3, Single DEF CountFacts
    <2>5. Cardinality(Held(Triggered)') = Cardinality(Held(Triggered)) + n
      BY <2>2, <2>4, Grown, CountedSets
    <2>6. ASSUME NEW f \in Triggers
          PROVE  Cardinality(Held(traces[f])') = Cardinality(Held(traces[f])) + If(f \in triggers[t], n)
      <3>1. IsFiniteSet(Held(traces[f])) /\ Cardinality(Held(traces[f])) \in Nat
        BY CountedSets DEF CountFacts
      <3>2. CASE f \in triggers[t]
        BY <2>2, <2>4, <3>1, <3>2, Grown DEF If
      <3>3. CASE f \notin triggers[t]
        <4>1. Held(traces[f])' = Held(traces[f]) /\ If(f \in triggers[t], n) = 0
          BY <2>2, <3>3 DEF If
        <4> QED
          BY <3>1, <4>1, SMT
      <3> QED
        BY <3>2, <3>3
    <2>7. ASSUME NEW q \in Queues
          PROVE  /\ Cardinality(SharesOf(q)') = Cardinality(SharesOf(q)) + n * Cardinality(F(q))
                 /\ Cardinality(F(q)) \in Nat
      <3>1. IsFiniteSet(F(q)) /\ Cardinality(F(q)) \in Nat
        <4>1. F(q) \in SUBSET Triggers
          BY DEF IndexInv, IndexType
        <4> QED
          BY <4>1, CountedFinite DEF CountFacts
      <3> HIDE DEF F
      <3>2. /\ IsFiniteSet(F(q) \X ({t} \X B))
            /\ Cardinality(F(q) \X ({t} \X B)) = Cardinality(F(q)) * Cardinality({t} \X B)
        BY <2>4, <3>1 DEF CountFacts
      <3>3. Cardinality(SharesOf(q)') = Cardinality(SharesOf(q)) + Cardinality(F(q) \X ({t} \X B))
        BY <2>2, <3>2, Grown, CountedSets
      <3> QED
        BY <2>4, <3>1, <3>2, <3>3, SMT
    <2> HIDE DEF n, F
    <2>8. TotalsInv'
      <3>1. /\ count'.traces = count.traces /\ count'.utraces = count.utraces
            /\ count'.buffers = count.buffers + n /\ count'.ubuffers = count.ubuffers
            /\ count'.ttraces = count.ttraces /\ count'.tbuffers = count.tbuffers + n
        BY <2>1, SMTT(20) DEF CountInv, TotalsInv, CountRecord, CountNames
      <3>2. CountRecord'
        BY <2>1 DEF CountInv, TotalsInv, CountRecord
      <3>3. /\ count'.utraces = Cardinality(Untriggered') /\ count'.ubuffers = Cardinality(Held(Untriggered)')
           /\ count'.ttraces = Cardinality(Triggered') /\ count'.tbuffers = Cardinality(Held(Triggered)')
        BY <2>2, <2>5, <3>1 DEF CountInv, TotalsInv
      <3>4. /\ count'.traces = count'.utraces + count'.ttraces
           /\ count'.buffers = count'.ubuffers + count'.tbuffers
        BY <2>4, <3>1, TotalsNat, SMT DEF CountInv, TotalsInv
      <3> QED
        BY <3>2, <3>3, <3>4 DEF TotalsInv
    <2>9. SharesInv'
      <3>1. /\ bufferCount' \in [Triggers -> Int]
            /\ \A f \in Triggers : bufferCount'[f] = Cardinality(Held(traces[f])')
        BY <2>1, <2>4, <2>6, SMT DEF CountInv, SharesInv, If
      <3>2. \A q \in Queues : n * Cardinality(F(q)) \in Int
        BY <2>4, <2>7, SMT
      <3>3. /\ qBuffers' \in [Queues -> Int]
            /\ \A q \in Queues : qBuffers'[q] = Cardinality(SharesOf(q)')
        <4>1. \A q \in Queues : /\ qBuffers'[q] = qBuffers[q] + n * Cardinality(F(q))
                                /\ qBuffers[q] \in Int
          BY <2>1 DEF CountInv, SharesInv
        <4>2. \A q \in Queues : qBuffers'[q] \in Int
          BY <3>2, <4>1, SMT
        <4>3. \A q \in Queues : qBuffers'[q] = Cardinality(SharesOf(q)')
          BY <2>7, <4>1 DEF CountInv, SharesInv
        <4> QED
          BY <2>1, <4>2, <4>3
      <3> QED
        BY <2>1, <2>2, <3>1, <3>3 DEF CountInv, SharesInv
    <2> QED
      BY <2>8, <2>9 DEF CountInv
  <1>CrumbsCounts.
      ASSUME CountFacts, IndexInv, CountInv, NEW t \in TraceIds, NEW C, AddBreadcrumbs(t, C)
      PROVE  CountInv'
    <2> USE <1>CrumbsCounts
    <2> DEFINE new == If(traceState[t] = "none", 1)
    <2>1. CASE UNCHANGED dmvars
      BY <2>1, <1>CountsStay DEF dmvars, traceVars, firedVars
    <2>2. CASE /\ traceState[t] \in Pending
               /\ traceState' = [traceState EXCEPT ![t] = "untriggered"]
               /\ count' = [count EXCEPT !.traces = @ + new, !.utraces = @ + new]
               /\ UNCHANGED <<buffers, traces, bufferCount, qBuffers, qTraces>>
      <3>1. buffers' = [buffers EXCEPT ![t] = @ \cup {}]
        BY <2>2, SMT DEF IndexInv, IndexType
      <3>2. {} \in SUBSET Buffers /\ \A u \in TraceIds : buffers[u] \cap {} = {}
        OBVIOUS
      <3>3. /\ Untriggered' = Untriggered \cup {t}
            /\ Triggered' = Triggered
            /\ Held(Untriggered)' = Held(Untriggered) \cup ({t} \X {})
            /\ Held(Triggered)' = Held(Triggered)
            /\ \A f \in Triggers : Held(traces[f])' = Held(traces[f])
            /\ \A q \in Queues : SharesOf(q)' = SharesOf(q) /\ LinksOf(q)' = LinksOf(q)
        BY <2>2, <3>1, <3>2, <1>AddUntriggeredSets
      <3>4. Held(Untriggered)' = Held(Untriggered)
        BY <3>3, SMT
      <3>5. traceState[t] = "none" <=> t \notin Untriggered
        BY <2>2 DEF Pending, Untriggered
      <3>6. Cardinality(Untriggered') = Cardinality(Untriggered) + new
        BY <3>3, <3>5, OneMore, CountedSets
      <3>7. new \in Int
        BY SMT DEF If
      <3> HIDE DEF new
      <3>8. /\ count'.traces = count.traces + new /\ count'.utraces = count.utraces + new
            /\ count'.buffers = count.buffers /\ count'.ubuffers = count.ubuffers
            /\ count'.ttraces = count.ttraces /\ count'.tbuffers = count.tbuffers
        BY <2>2, SMTT(20) DEF CountInv, TotalsInv, CountRecord, CountNames
      <3>9. CountRecord'
        BY <2>2 DEF CountInv, TotalsInv, CountRecord
      <3>10. TotalsInv'
        BY <3>3, <3>4, <3>6, <3>7, <3>8, <3>9, TotalsNat, SMT DEF CountInv, TotalsInv
      <3>11. SharesInv'
        BY <2>2, <3>3, <1>SharesStay DEF CountInv
      <3> QED
        BY <3>10, <3>11 DEF CountInv
    <2> QED
      BY <2>1, <2>2 DEF AddBreadcrumbs, firedVars
  <1>EvictTraceSets.
      ASSUME IndexInv, NEW t \in TraceIds, traceState[t] = "untriggered",
             traceState' = [traceState EXCEPT ![t] = "none"],
             buffers' = [buffers EXCEPT ![t] = {}],
             UNCHANGED traces
      PROVE  /\ Untriggered' = Untriggered \ {t} /\ t \in Untriggered
             /\ Triggered' = Triggered
             /\ Held(Untriggered)' = Held(Untriggered) \ Held({t})
             /\ Held({t}) \subseteq Held(Untriggered)
             /\ Held(Triggered)' = Held(Triggered)
             /\ \A f \in Triggers : Held(traces[f])' = Held(traces[f])
             /\ \A q \in Queues : SharesOf(q)' = SharesOf(q) /\ LinksOf(q)' = LinksOf(q)
    <2> USE <1>EvictTraceSets
    <2>1. /\ t \in Untriggered /\ t \notin Triggered /\ Triggered \in SUBSET TraceIds
          /\ \A f \in Triggers : t \notin traces[f] /\ traces[f] \in SUBSET TraceIds
      BY SMT DEF IndexInv, IndexType, LinksAgree, Pending, Triggered, Untriggered
    <2>2. Untriggered' = Untriggered \ {t} /\ Triggered' = Triggered
      BY <2>1, SMT DEF IndexInv, IndexType, Triggered, Untriggered
    <2>3. /\ Held(Untriggered)' = Held(Untriggered) \ Held({t})
          /\ Held({t}) \subseteq Held(Untriggered)
      BY <2>1, <2>2, SMT DEF IndexInv, IndexType, Held
    <2>4. \A T \in SUBSET TraceIds : t \notin T => {p \in T \X Buffers : p[2] \in buffers'[p[1]]} = Held(T)
      BY SMT DEF Held, IndexInv, IndexType
    <2>5. Held(Triggered)' = Held(Triggered)
      BY <2>1, <2>2, <2>4 DEF Held
    <2>6. \A f \in Triggers : Held(traces[f])' = Held(traces[f])
      BY <2>1, <2>4 DEF Held
    <2>7. \A q \in Queues : LinksOf(q)' = LinksOf(q)
      BY DEF LinksOf
    <2>8. \A q \in Queues : SharesOf(q)' = SharesOf(q)
      BY <2>1, SMT DEF SharesOf, Held, OfQueue, IndexInv, IndexType
    <2> QED
      BY <2>1, <2>2, <2>3, <2>5, <2>6, <2>7, <2>8
  <1>EvictTraceCounts.
      ASSUME CountFacts, IndexInv, CountInv, NEW t \in TraceIds, EvictTrace(t)
      PROVE  CountInv'
    <2> USE <1>EvictTraceCounts
    <2> DEFINE n == Cardinality(buffers[t])
    <2>1. /\ traceState[t] = "untriggered"
          /\ traceState' = [traceState EXCEPT ![t] = "none"]
          /\ buffers' = [buffers EXCEPT ![t] = {}]
          /\ count' = [count EXCEPT !.traces = @ - 1, !.utraces = @ - 1,
                                    !.buffers = @ - n, !.ubuffers = @ - n]
          /\ UNCHANGED <<traces, bufferCount, qBuffers, qTraces>>
      BY DEF EvictTrace, firedVars
    <2>2. /\ Untriggered' = Untriggered \ {t} /\ t \in Untriggered
          /\ Triggered' = Triggered
          /\ Held(Untriggered)' = Held(Untriggered) \ Held({t})
          /\ Held({t}) \subseteq Held(Untriggered)
          /\ Held(Triggered)' = Held(Triggered)
          /\ \A f \in Triggers : Held(traces[f])' = Held(traces[f])
          /\ \A q \in Queues : SharesOf(q)' = SharesOf(q) /\ LinksOf(q)' = LinksOf(q)
      BY <2>1, <1>EvictTraceSets
    <2>3. Cardinality(Held({t})) = n /\ n \in Nat
      BY HeldCounts
    <2>4. Cardinality(Held(Untriggered)') = Cardinality(Held(Untriggered)) - n
      BY <2>2, <2>3, Shrunk, CountedSets
    <2>5. Cardinality(Untriggered') = Cardinality(Untriggered) - 1
      BY <2>2, OneLess, CountedSets DEF If
    <2> HIDE DEF n
    <2>6. /\ count'.traces = count.traces - 1 /\ count'.utraces = count.utraces - 1
          /\ count'.buffers = count.buffers - n /\ count'.ubuffers = count.ubuffers - n
          /\ count'.ttraces = count.ttraces /\ count'.tbuffers = count.tbuffers
      BY <2>1, SMTT(20) DEF CountInv, TotalsInv, CountRecord, CountNames
    <2>7. CountRecord'
      BY <2>1 DEF CountInv, TotalsInv, CountRecord
    <2>8. TotalsInv'
      <3>1. /\ count'.utraces = Cardinality(Untriggered') /\ count'.ubuffers = Cardinality(Held(Untriggered)')
           /\ count'.ttraces = Cardinality(Triggered') /\ count'.tbuffers = Cardinality(Held(Triggered)')
        BY <2>2, <2>4, <2>5, <2>6 DEF CountInv, TotalsInv
      <3>2. /\ count'.traces = count'.utraces + count'.ttraces
           /\ count'.buffers = count'.ubuffers + count'.tbuffers
        BY <2>3, <2>6, TotalsNat, SMT DEF CountInv, TotalsInv
      <3> QED
        BY <2>7, <3>1, <3>2 DEF TotalsInv
    <2>9. SharesInv'
      BY <2>1, <2>2, <1>SharesStay DEF CountInv
    <2> QED
      BY <2>8, <2>9 DEF CountInv
  <1>TriggerSets.
      ASSUME IndexInv, NEW f \in Triggers, NEW t \in TraceIds, NEW s \in {"triggered", "reporting"},
             traceState' = [traceState EXCEPT ![t] = s],
             traces' = [traces EXCEPT ![f] = @ \cup {t}],
             UNCHANGED buffers
      PROVE  /\ traceState[t] \in Pending =>
                   /\ Untriggered' = Untriggered \ {t}
                   /\ Triggered' = Triggered \cup {t} /\ t \notin Triggered
                   /\ Held(Untriggered)' = Held(Untriggered) \ Held({t})
                   /\ Held({t}) \subseteq Held(Untriggered)
                   /\ Held(Triggered)' = Held(Triggered) \cup Held({t})
                   /\ Held(Triggered) \cap Held({t}) = {}
             /\ traceState[t] \notin Pending =>
                   /\ Untriggered' = Untriggered /\ Triggered' = Triggered
                   /\ Held(Untriggered)' = Held(Untriggered)
                   /\ Held(Triggered)' = Held(Triggered)
             /\ f \in triggers[t] => UNCHANGED traces
             /\ f \notin triggers[t] =>
                   /\ Held(traces[f])' = Held(traces[f]) \cup Held({t})
                   /\ Held(traces[f]) \cap Held({t}) = {}
                   /\ LinksOf(QueueOf(f))' = LinksOf(QueueOf(f)) \cup {<<f, t>>}
                   /\ <<f, t>> \notin LinksOf(QueueOf(f))
                   /\ SharesOf(QueueOf(f))' = SharesOf(QueueOf(f)) \cup ({f} \X Held({t}))
                   /\ SharesOf(QueueOf(f)) \cap ({f} \X Held({t})) = {}
             /\ \A g \in Triggers : g # f => Held(traces[g])' = Held(traces[g])
             /\ \A q \in Queues : q # QueueOf(f) => /\ LinksOf(q)' = LinksOf(q)
                                                    /\ SharesOf(q)' = SharesOf(q)
    <2> USE <1>TriggerSets
    <2>1. /\ f \in triggers[t] <=> t \in traces[f]
          /\ traces[f] \subseteq TraceIds
          /\ traceState[t] \in Pending => t \in Untriggered \/ buffers[t] = {}
      BY SMT DEF IndexInv, IndexType, LinksAgree, Pending, Untriggered
    <2>2. ASSUME traceState[t] \in Pending
          PROVE  /\ Untriggered' = Untriggered \ {t}
                 /\ Triggered' = Triggered \cup {t} /\ t \notin Triggered
      BY <2>2, SMTT(20) DEF IndexInv, IndexType, Triggered, Untriggered, Pending
    <2>3. ASSUME traceState[t] \in Pending
          PROVE  /\ Held(Untriggered)' = Held(Untriggered) \ Held({t})
                 /\ Held({t}) \subseteq Held(Untriggered)
                 /\ Held(Triggered)' = Held(Triggered) \cup Held({t})
                 /\ Held(Triggered) \cap Held({t}) = {}
      BY <2>1, <2>2, <2>3, SMT DEF Held, IndexInv, IndexType
    <2>4. ASSUME traceState[t] \notin Pending
          PROVE  Untriggered' = Untriggered /\ Triggered' = Triggered
      BY <2>4, SMT DEF IndexInv, IndexType, Triggered, Untriggered, Pending
    <2>5. f \in triggers[t] => UNCHANGED traces
      BY <2>1, SMT DEF IndexInv, IndexType
    <2>6. ASSUME f \notin triggers[t]
          PROVE  /\ Held(traces[f])' = Held(traces[f]) \cup Held({t})
                 /\ Held(traces[f]) \cap Held({t}) = {}
      <3>1. traces'[f] = traces[f] \cup {t} /\ t \notin traces[f]
        BY <2>1, <2>6 DEF IndexInv, IndexType
      <3> QED
        BY <3>1, SMT DEF Held
    <2>7. ASSUME f \notin triggers[t]
          PROVE  /\ LinksOf(QueueOf(f))' = LinksOf(QueueOf(f)) \cup {<<f, t>>}
                 /\ <<f, t>> \notin LinksOf(QueueOf(f))
      BY <2>1, <2>7, SMTT(20) DEF LinksOf, OfQueue, IndexInv, IndexType
    <2>8. ASSUME f \notin triggers[t]
          PROVE  /\ SharesOf(QueueOf(f))' = SharesOf(QueueOf(f)) \cup ({f} \X Held({t}))
                 /\ SharesOf(QueueOf(f)) \cap ({f} \X Held({t})) = {}
      BY <2>1, <2>8, SMT DEF SharesOf, Held, OfQueue, IndexInv, IndexType
    <2>9. \A g \in Triggers : g # f => Held(traces[g])' = Held(traces[g])
      BY DEF Held, IndexInv, IndexType
    <2>10. \A q \in Queues : q # QueueOf(f) => /\ LinksOf(q)' = LinksOf(q)
                                               /\ SharesOf(q)' = SharesOf(q)
      BY SMTT(20) DEF LinksOf, SharesOf, Held, OfQueue, IndexInv, IndexType
    <2>11. traceState[t] \notin Pending => /\ Held(Untriggered)' = Held(Untriggered)
                                           /\ Held(Triggered)' = Held(Triggered)
      BY <2>4 DEF Held
    <2> QED
      BY <2>2, <2>3, <2>4, <2>5, <2>6, <2>7, <2>8, <2>9, <2>10, <2>11
  <1>TriggerCounts.
      ASSUME CountFacts, IndexInv, CountInv, NEW f \in Triggers, NEW t \in TraceIds, Trigger(f, t)
      PROVE  CountInv'
    <2> USE <1>TriggerCounts
    <2> DEFINE n == Cardinality(buffers[t])
               moved == traceState[t] \in Pending
               new == f \notin triggers[t]
               F == IF new /\ n > 0 THEN {f} ELSE {}
               s == IF n > 0 THEN "reporting" ELSE "triggered"
    <2>1. /\ traceState' = [traceState EXCEPT ![t] = s]
          /\ traces' = [traces EXCEPT ![f] = @ \cup {t}]
          /\ qTraces' = [qTraces EXCEPT ![QueueOf(f)] = @ + If(new, 1)]
          /\ bufferCount' = [g \in Triggers |-> bufferCount[g] + If(g \in F, n)]
          /\ qBuffers' = [q \in Queues |-> qBuffers[q] + n * Cardinality({g \in F : QueueOf(g) = q})]
          /\ count' = [count EXCEPT
                         !.traces   = @ + If(traceState[t] = "none", 1),
                         !.utraces  = @ - If(traceState[t] = "untriggered", 1),
                         !.ubuffers = @ - If(moved, n),
                         !.ttraces  = @ + If(moved, 1),
                         !.tbuffers = @ + If(moved, n)]
          /\ UNCHANGED buffers
      BY DEF Trigger, BuffersAdded
    <2>2. Cardinality(Held({t})) = n /\ n \in Nat
      BY HeldCounts
    <2>3. s \in {"triggered", "reporting"}
      OBVIOUS
    <2>4. IsFiniteSet(Held({t})) /\ IsFiniteSet({f} \X Held({t})) /\ Cardinality({f} \X Held({t})) = n
      BY <2>2, HeldCounts, Single
    <2>5. TotalsInv'
      <3>1. /\ Cardinality(Untriggered') = Cardinality(Untriggered) - If(traceState[t] = "untriggered", 1)
            /\ Cardinality(Triggered') = Cardinality(Triggered) + If(moved, 1)
            /\ Cardinality(Held(Untriggered)') = Cardinality(Held(Untriggered)) - If(moved, n)
            /\ Cardinality(Held(Triggered)') = Cardinality(Held(Triggered)) + If(moved, n)
        <4>1. CASE moved
          <5>1. /\ Untriggered' = Untriggered \ {t}
                /\ Triggered' = Triggered \cup {t} /\ t \notin Triggered
                /\ Held(Untriggered)' = Held(Untriggered) \ Held({t})
                /\ Held({t}) \subseteq Held(Untriggered)
                /\ Held(Triggered)' = Held(Triggered) \cup Held({t})
                /\ Held(Triggered) \cap Held({t}) = {}
            BY <2>1, <2>3, <4>1, <1>TriggerSets
          <5>2. traceState[t] = "untriggered" <=> t \in Untriggered
            BY DEF Untriggered
          <5>3. Cardinality(Untriggered') = Cardinality(Untriggered) - If(traceState[t] = "untriggered", 1)
            BY <5>1, <5>2, OneLess, CountedSets DEF If
          <5>4. Cardinality(Triggered') = Cardinality(Triggered) + 1
            BY <5>1, OneMore, CountedSets DEF If
          <5>5. Cardinality(Held(Untriggered)') = Cardinality(Held(Untriggered)) - n
            BY <2>2, <5>1, Shrunk, CountedSets
          <5>6. Cardinality(Held(Triggered)') = Cardinality(Held(Triggered)) + n
            BY <2>2, <2>4, <5>1, Grown, CountedSets
          <5> QED
            BY <4>1, <5>3, <5>4, <5>5, <5>6 DEF If
        <4>2. CASE ~moved
          <5>1. /\ Untriggered' = Untriggered /\ Triggered' = Triggered
                /\ Held(Untriggered)' = Held(Untriggered) /\ Held(Triggered)' = Held(Triggered)
            BY <2>1, <2>3, <4>2, <1>TriggerSets
          <5>2. traceState[t] # "untriggered"
            BY <4>2 DEF Pending
          <5> QED
            <6>1. /\ If(traceState[t] = "untriggered", 1) = 0
                  /\ If(moved, 1) = 0 /\ If(moved, n) = 0
              BY <4>2, <5>2 DEF If
            <6>2. \A k \in Nat : k - 0 = k /\ k + 0 = k
              BY SMT
            <6> HIDE DEF moved, n
            <6> QED
              BY <5>1, <6>1, <6>2, TotalsNat
        <4> QED
          BY <4>1, <4>2
      <3>2. /\ count'.traces = count.traces + If(traceState[t] = "none", 1)
            /\ count'.utraces = count.utraces - If(traceState[t] = "untriggered", 1)
            /\ count'.buffers = count.buffers /\ count'.ubuffers = count.ubuffers - If(moved, n)
            /\ count'.ttraces = count.ttraces + If(moved, 1)
            /\ count'.tbuffers = count.tbuffers + If(moved, n)
        BY <2>1, SMTT(20) DEF CountInv, TotalsInv, CountRecord, CountNames
      <3>3. CountRecord'
        BY <2>1 DEF CountInv, TotalsInv, CountRecord
      <3>4. If(traceState[t] = "none", 1) = If(moved, 1) - If(traceState[t] = "untriggered", 1)
        BY SMT DEF If, Pending
      <3>5. If(moved, 1) \in Int /\ If(moved, n) \in Int /\ If(traceState[t] = "untriggered", 1) \in Int
        BY <2>2, SMT DEF If
      <3> HIDE DEF moved, n
      <3>6. /\ count'.utraces = Cardinality(Untriggered') /\ count'.ubuffers = Cardinality(Held(Untriggered)')
           /\ count'.ttraces = Cardinality(Triggered') /\ count'.tbuffers = Cardinality(Held(Triggered)')
        BY <3>1, <3>2 DEF CountInv, TotalsInv
      <3>7. /\ count'.traces = count'.utraces + count'.ttraces
           /\ count'.buffers = count'.ubuffers + count'.tbuffers
        BY <3>2, <3>4, <3>5, TotalsNat, SMT DEF CountInv, TotalsInv
      <3> QED
        BY <3>3, <3>6, <3>7 DEF TotalsInv
    <2>6. SharesInv'
      <3> USE QueueOfTrigger
      <3>1. /\ \A g \in Triggers : g # f => Held(traces[g])' = Held(traces[g])
            /\ \A q \in Queues : q # QueueOf(f) => LinksOf(q)' = LinksOf(q) /\ SharesOf(q)' = SharesOf(q)
        BY <2>1, <2>3, <1>TriggerSets
      <3>2. CASE ~new
        <4>1. UNCHANGED traces /\ F = {}
          BY <2>1, <2>3, <3>2, <1>TriggerSets
        <4>2. \A g \in Triggers : Held(traces[g])' = Held(traces[g])
          BY <2>1, <4>1 DEF Held
        <4>3. \A q \in Queues : SharesOf(q)' = SharesOf(q) /\ LinksOf(q)' = LinksOf(q)
          BY <2>1, <4>1 DEF SharesOf, LinksOf, Held
        <4>4. UNCHANGED <<bufferCount, qBuffers, qTraces>>
          <5>1. \A q \in Queues : {g \in F : QueueOf(g) = q} = {}
            BY <4>1
          <5>2. Cardinality({}) = 0
            BY DEF CountFacts
          <5>3. bufferCount' = bufferCount /\ qTraces' = qTraces
            BY <2>1, <3>2, <4>1, SMT DEF CountInv, SharesInv, If
          <5>4. qBuffers' = [q \in Queues |-> qBuffers[q] + n * 0]
            BY <2>1, <5>1, <5>2
          <5>5. qBuffers' = qBuffers
            <6>1. qBuffers \in [Queues -> Int]
              BY DEF CountInv, SharesInv
            <6>2. \A k \in Int : k + n * 0 = k
              BY <2>2, SMT
            <6> QED
              BY <5>4, <6>1, <6>2
          <5> QED
            BY <5>3, <5>5
        <4> QED
          BY <4>2, <4>3, <4>4, <1>SharesStay DEF CountInv
      <3>3. CASE new
        <4>1. /\ Held(traces[f])' = Held(traces[f]) \cup Held({t})
              /\ Held(traces[f]) \cap Held({t}) = {}
              /\ LinksOf(QueueOf(f))' = LinksOf(QueueOf(f)) \cup {<<f, t>>}
              /\ <<f, t>> \notin LinksOf(QueueOf(f))
              /\ SharesOf(QueueOf(f))' = SharesOf(QueueOf(f)) \cup ({f} \X Held({t}))
              /\ SharesOf(QueueOf(f)) \cap ({f} \X Held({t})) = {}
          BY <2>1, <2>3, <3>3, <1>TriggerSets
        <4>2. Cardinality(Held(traces[f])') = Cardinality(Held(traces[f])) + n
          BY <2>2, <2>4, <4>1, Grown, CountedSets
        <4>3. Cardinality(SharesOf(QueueOf(f))') = Cardinality(SharesOf(QueueOf(f))) + n
          BY <2>4, <4>1, Grown, CountedSets
        <4>4. Cardinality(LinksOf(QueueOf(f))') = Cardinality(LinksOf(QueueOf(f))) + 1
          BY <4>1, OneMore, CountedSets DEF If
        <4>5. \A g \in Triggers : bufferCount'[g] = IF g = f THEN bufferCount[g] + n ELSE bufferCount[g]
          BY <2>1, <2>2, <3>3, SMT DEF CountInv, SharesInv, If
        <4>6. \A q \in Queues : qTraces'[q] = IF q = QueueOf(f) THEN qTraces[q] + 1 ELSE qTraces[q]
          BY <2>1, <3>3 DEF CountInv, SharesInv, If
        <4>7. ASSUME NEW q \in Queues
              PROVE  qBuffers'[q] = IF q = QueueOf(f) THEN qBuffers[q] + n ELSE qBuffers[q]
          <5>1. qBuffers'[q] = qBuffers[q] + n * Cardinality({g \in F : QueueOf(g) = q})
            BY <2>1
          <5>2. /\ q = QueueOf(f) /\ n > 0 => {g \in F : QueueOf(g) = q} = {f}
                /\ ~(q = QueueOf(f) /\ n > 0) => {g \in F : QueueOf(g) = q} = {}
            BY <3>3
          <5>3. Cardinality({f}) = 1 /\ Cardinality({}) = 0 /\ qBuffers[q] \in Int
            BY DEF CountFacts, CountInv, SharesInv
          <5>4. CASE q = QueueOf(f) /\ n > 0
            <6>1. qBuffers'[q] = qBuffers[q] + n * 1
              BY <5>1, <5>2, <5>3, <5>4
            <6> QED
              BY <2>2, <5>3, <5>4, <6>1, SMT
          <5>5. CASE ~(q = QueueOf(f) /\ n > 0)
            <6>1. qBuffers'[q] = qBuffers[q] + n * 0
              BY <5>1, <5>2, <5>3, <5>5
            <6> QED
              BY <2>2, <5>3, <5>5, <6>1, SMT
          <5> QED
            BY <5>4, <5>5
        <4> HIDE DEF n, F
        <4>8. /\ bufferCount' \in [Triggers -> Int]
              /\ \A g \in Triggers : bufferCount'[g] = Cardinality(Held(traces[g])')
          <5>1. bufferCount' \in [Triggers -> Int]
            BY <2>1, <2>2, SMT DEF CountInv, SharesInv, If
          <5> QED
            BY <5>1, <3>1, <4>2, <4>5 DEF CountInv, SharesInv
        <4>9. /\ qTraces' \in [Queues -> Int]
              /\ \A q \in Queues : qTraces'[q] = Cardinality(LinksOf(q)')
          <5>1. qTraces' \in [Queues -> Int]
            BY <2>1, SMT DEF CountInv, SharesInv, If
          <5> QED
            BY <5>1, <3>1, <4>4, <4>6 DEF CountInv, SharesInv
        <4>10. \A q \in Queues : qBuffers'[q] = Cardinality(SharesOf(q)')
          BY <3>1, <4>3, <4>7 DEF CountInv, SharesInv
        <4>11. qBuffers' \in [Queues -> Int]
          <5>1. \A q \in Queues : qBuffers'[q] \in Int
            BY <2>2, <4>7, SMT DEF CountInv, SharesInv
          <5> QED
            BY <2>1, <5>1
        <4> QED
          BY <4>8, <4>9, <4>10, <4>11 DEF SharesInv
      <3> QED
        BY <3>2, <3>3
    <2> QED
      BY <2>5, <2>6 DEF CountInv
  <1>ReportSets.
      ASSUME IndexInv, NEW f \in Triggers,
             traceState' = [t \in TraceIds |->
                               IF t \in traces[f] THEN "triggered" ELSE traceState[t]],
             buffers' = [t \in TraceIds |-> IF t \in traces[f] THEN {} ELSE buffers[t]],
             UNCHANGED traces
      PROVE  /\ Untriggered' = Untriggered /\ Triggered' = Triggered
             /\ Held(Untriggered)' = Held(Untriggered)
             /\ Held(Triggered)' = Held(Triggered) \ Held(traces[f])
             /\ Held(traces[f]) \subseteq Held(Triggered)
             /\ \A g \in Triggers :
                   LET S == {t \in traces[f] : g \in triggers[t]}
                   IN  /\ Told(f, {g}) = {g} \X Held(S)
                       /\ Held(traces[g])' = Held(traces[g]) \ Held(S)
                       /\ Held(S) \subseteq Held(traces[g])
             /\ \A q \in Queues : /\ LinksOf(q)' = LinksOf(q)
                                  /\ SharesOf(q)' = SharesOf(q) \ Told(f, OfQueue(q))
                                  /\ Told(f, OfQueue(q)) \subseteq SharesOf(q)
    <2> USE <1>ReportSets
    <2>1. /\ traces[f] \subseteq Triggered /\ traces[f] \cap Untriggered = {}
          /\ \A g \in Triggers : traces[g] \in SUBSET TraceIds
          /\ \A g \in Triggers, t \in TraceIds : g \in triggers[t] <=> t \in traces[g]
      BY SMT DEF IndexInv, IndexType, LinksAgree, Pending, Triggered, Untriggered
    <2>2. Untriggered' = Untriggered /\ Triggered' = Triggered
      BY <2>1, SMT DEF IndexInv, IndexType, Triggered, Untriggered
    <2>3. \A T \in SUBSET TraceIds :
             {p \in T \X Buffers : p[2] \in buffers'[p[1]]} = Held(T) \ Held(traces[f])
      BY <2>1, SMT DEF Held, IndexInv, IndexType
    <2>4. Triggered \in SUBSET TraceIds /\ Untriggered \in SUBSET TraceIds
      BY DEF Triggered, Untriggered
    <2>5. Held(Triggered)' = Held(Triggered) \ Held(traces[f])
      BY <2>2, <2>3, <2>4 DEF Held
    <2>6. Held(Untriggered)' = Held(Untriggered) /\ Held(traces[f]) \subseteq Held(Triggered)
      <3>1. Held(Untriggered)' = Held(Untriggered) \ Held(traces[f])
        BY <2>2, <2>3, <2>4 DEF Held
      <3>2. Held(Untriggered) \cap Held(traces[f]) = {} /\ Held(traces[f]) \subseteq Held(Triggered)
        BY <2>1, SMT DEF Held
      <3> QED
        BY <3>1, <3>2, SMT
    <2>7. ASSUME NEW g \in Triggers
          PROVE  LET S == {t \in traces[f] : g \in triggers[t]}
                 IN  /\ Told(f, {g}) = {g} \X Held(S)
                     /\ Held(traces[g])' = Held(traces[g]) \ Held(S)
                     /\ Held(S) \subseteq Held(traces[g])
      <3> DEFINE S == {t \in traces[f] : g \in triggers[t]}
      <3>1. Told(f, {g}) = {g} \X Held(S)
        BY SMT DEF Told, Held
      <3>2. S = traces[f] \cap traces[g]
        BY <2>1
      <3>3. Held(traces[g])' = Held(traces[g]) \ Held(traces[f])
        BY <2>1, <2>3 DEF Held
      <3>4. /\ Held(traces[g]) \ Held(traces[f]) = Held(traces[g]) \ Held(S)
            /\ Held(S) \subseteq Held(traces[g])
        BY <3>2, SMT DEF Held
      <3> QED
        BY <3>1, <3>3, <3>4
    <2>8. \A q \in Queues : LinksOf(q)' = LinksOf(q)
      BY DEF LinksOf
    <2>9. ASSUME NEW q \in Queues
          PROVE  /\ SharesOf(q)' = SharesOf(q) \ Told(f, OfQueue(q))
                 /\ Told(f, OfQueue(q)) \subseteq SharesOf(q)
      <3>1. \A x : x \in Told(f, OfQueue(q)) <=> x \in SharesOf(q) /\ x[2][1] \in traces[f]
        BY <2>1, SMTT(20) DEF SharesOf, Told, Held, OfQueue
      <3>2. \A x : x \in SharesOf(q)' <=> x \in SharesOf(q) /\ x[2][1] \notin traces[f]
        BY <2>1, SMT DEF SharesOf, Held, OfQueue, IndexInv, IndexType
      <3> QED
        BY <3>1, <3>2
    <2> QED
      BY <2>2, <2>5, <2>6, <2>7, <2>8, <2>9
  <1>ReportCounts.
      ASSUME CountFacts, IndexInv, CountInv, NEW f \in Triggers, GetBuffersForReport(f)
      PROVE  CountInv'
    <2> USE <1>ReportCounts
    <2> DEFINE n == Cardinality(Held(traces[f]))
               S(g) == {t \in traces[f] : g \in triggers[t]}
    <2>1. /\ traceState' = [t \in TraceIds |->
                               IF t \in traces[f] THEN "triggered" ELSE traceState[t]]
          /\ buffers' = [t \in TraceIds |-> IF t \in traces[f] THEN {} ELSE buffers[t]]
          /\ bufferCount' = [g \in Triggers |-> bufferCount[g] - Cardinality(Told(f, {g}))]
          /\ qBuffers' = [q \in Queues |-> qBuffers[q] - Cardinality(Told(f, OfQueue(q)))]
          /\ count' = [count EXCEPT !.buffers = @ - n, !.tbuffers = @ - n]
          /\ UNCHANGED <<traces, qTraces>>
      BY DEF GetBuffersForReport, Size
    <2>2. /\ Untriggered' = Untriggered /\ Triggered' = Triggered
          /\ Held(Untriggered)' = Held(Untriggered)
          /\ Held(Triggered)' = Held(Triggered) \ Held(traces[f])
          /\ Held(traces[f]) \subseteq Held(Triggered)
          /\ \A g \in Triggers : /\ Told(f, {g}) = {g} \X Held(S(g))
                                 /\ Held(traces[g])' = Held(traces[g]) \ Held(S(g))
                                 /\ Held(S(g)) \subseteq Held(traces[g])
          /\ \A q \in Queues : /\ LinksOf(q)' = LinksOf(q)
                               /\ SharesOf(q)' = SharesOf(q) \ Told(f, OfQueue(q))
                               /\ Told(f, OfQueue(q)) \subseteq SharesOf(q)
      BY <2>1, <1>ReportSets
    <2> HIDE DEF S
    <2>3. Cardinality(Held(Triggered)') = Cardinality(Held(Triggered)) - n /\ n \in Nat
      BY <2>2, Shrunk, CountedSets
    <2>4. ASSUME NEW g \in Triggers
          PROVE  /\ Cardinality(Held(traces[g])')
                      = Cardinality(Held(traces[g])) - Cardinality(Told(f, {g}))
                 /\ Cardinality(Told(f, {g})) \in Nat
      <3>1. IsFiniteSet(Held(traces[g]))
        BY CountedSets
      <3>2. IsFiniteSet(Held(S(g)))
        BY <2>2, <3>1 DEF CountFacts
      <3>3. /\ Told(f, {g}) = {g} \X Held(S(g))
            /\ Held(traces[g])' = Held(traces[g]) \ Held(S(g))
            /\ Held(S(g)) \subseteq Held(traces[g])
        BY <2>2
      <3>4. Cardinality({g} \X Held(S(g))) = Cardinality(Held(S(g)))
        BY <3>2, Single
      <3>5. /\ Cardinality(Held(traces[g]) \ Held(S(g)))
                 = Cardinality(Held(traces[g])) - Cardinality(Held(S(g)))
            /\ Cardinality(Held(S(g))) \in Nat
        BY <3>1, <3>3, Shrunk
      <3> QED
        BY <3>3, <3>4, <3>5
    <2>5. ASSUME NEW q \in Queues
          PROVE  /\ Cardinality(SharesOf(q)')
                      = Cardinality(SharesOf(q)) - Cardinality(Told(f, OfQueue(q)))
                 /\ Cardinality(Told(f, OfQueue(q))) \in Nat
      BY <2>2, Shrunk, CountedSets
    <2> HIDE DEF n
    <2>6. TotalsInv'
      <3>1. /\ count'.traces = count.traces /\ count'.utraces = count.utraces
            /\ count'.buffers = count.buffers - n /\ count'.ubuffers = count.ubuffers
            /\ count'.ttraces = count.ttraces /\ count'.tbuffers = count.tbuffers - n
        BY <2>1, SMTT(20) DEF CountInv, TotalsInv, CountRecord, CountNames
      <3>2. CountRecord'
        BY <2>1 DEF CountInv, TotalsInv, CountRecord
      <3>3. /\ count'.utraces = Cardinality(Untriggered') /\ count'.ubuffers = Cardinality(Held(Untriggered)')
           /\ count'.ttraces = Cardinality(Triggered') /\ count'.tbuffers = Cardinality(Held(Triggered)')
        BY <2>2, <2>3, <3>1 DEF CountInv, TotalsInv
      <3>4. /\ count'.traces = count'.utraces + count'.ttraces
           /\ count'.buffers = count'.ubuffers + count'.tbuffers
        BY <2>3, <3>1, TotalsNat, SMT DEF CountInv, TotalsInv
      <3> QED
        BY <3>2, <3>3, <3>4 DEF TotalsInv
    <2>7. SharesInv'
      <3>1. /\ \A g \in Triggers : bufferCount'[g] = bufferCount[g] - Cardinality(Told(f, {g}))
            /\ \A q \in Queues : qBuffers'[q] = qBuffers[q] - Cardinality(Told(f, OfQueue(q)))
        BY <2>1
      <3>2. /\ \A g \in Triggers : bufferCount'[g] \in Int
            /\ \A q \in Queues : qBuffers'[q] \in Int
        <4>1. \A i \in Int, k \in Nat : i - k \in Int
          BY SMT
        <4>2. /\ \A g \in Triggers : bufferCount[g] \in Int
              /\ \A q \in Queues : qBuffers[q] \in Int
          BY DEF CountInv, SharesInv
        <4> QED
          BY <2>4, <2>5, <3>1, <4>1, <4>2
      <3>3. bufferCount' \in [Triggers -> Int] /\ qBuffers' \in [Queues -> Int]
        BY <2>1, <3>2
      <3> QED
        BY <2>1, <2>2, <2>4, <2>5, <3>1, <3>3 DEF CountInv, SharesInv
    <2> QED
      BY <2>6, <2>7 DEF CountInv
  <1>UnhookSets.
      ASSUME IndexInv, NEW f \in Triggers, Unhook(f)
      PROVE  LET gone == OnlyTrigger(f) IN
             /\ Untriggered' = Untriggered /\ Held(Untriggered)' = Held(Untriggered)
             /\ Triggered' = Triggered \ gone /\ gone \subseteq Triggered
             /\ Held(Triggered)' = Held(Triggered) \ Held(gone)
             /\ Held(gone) \subseteq Held(Triggered)
             /\ traces'[f] = {}
             /\ \A g \in Triggers : g # f => Held(traces[g])' = Held(traces[g])
             /\ LinksOf(QueueOf(f))' = LinksOf(QueueOf(f)) \ ({f} \X traces[f])
             /\ {f} \X traces[f] \subseteq LinksOf(QueueOf(f))
             /\ SharesOf(QueueOf(f))' = SharesOf(QueueOf(f)) \ ({f} \X Held(traces[f]))
             /\ {f} \X Held(traces[f]) \subseteq SharesOf(QueueOf(f))
             /\ \A q \in Queues : q # QueueOf(f) => /\ LinksOf(q)' = LinksOf(q)
                                                    /\ SharesOf(q)' = SharesOf(q)
    <2> USE <1>UnhookSets
    <2> DEFINE gone == OnlyTrigger(f)
    <2>1. /\ traceState' = [t \in TraceIds |-> IF t \in gone THEN "none" ELSE traceState[t]]
          /\ buffers' = [t \in TraceIds |-> IF t \in gone THEN {} ELSE buffers[t]]
          /\ traces' = [traces EXCEPT ![f] = {}]
      BY DEF Unhook
    <2>2. /\ gone \subseteq traces[f] /\ gone \subseteq Triggered /\ gone \cap Untriggered = {}
          /\ \A g \in Triggers : g # f => traces[g] \cap gone = {}
          /\ \A g \in Triggers : traces[g] \in SUBSET TraceIds
      BY SMT DEF OnlyTrigger, IndexInv, IndexType, LinksAgree, Pending, Triggered, Untriggered
    <2> HIDE DEF gone
    <2>3. Untriggered' = Untriggered /\ Triggered' = Triggered \ gone
      BY <2>1, <2>2, SMTT(20) DEF IndexInv, IndexType, Triggered, Untriggered
    <2>4. \A T \in SUBSET TraceIds :
             /\ T \cap gone = {} => {p \in T \X Buffers : p[2] \in buffers'[p[1]]} = Held(T)
             /\ {p \in (T \ gone) \X Buffers : p[2] \in buffers'[p[1]]} = Held(T) \ Held(gone)
             /\ gone \subseteq T => Held(gone) \subseteq Held(T)
      BY <2>1, <2>2, SMT DEF Held, IndexInv, IndexType
    <2>5. Triggered \in SUBSET TraceIds /\ Untriggered \in SUBSET TraceIds
      BY DEF Triggered, Untriggered
    <2>6. Held(Untriggered)' = Held(Untriggered)
      <3>1. Untriggered \cap gone = {}
        BY <2>2
      <3> QED
        BY <3>1, <2>3, <2>4, <2>5 DEF Held
    <2>7. Held(Triggered)' = Held(Triggered) \ Held(gone) /\ Held(gone) \subseteq Held(Triggered)
      BY <2>2, <2>3, <2>4, <2>5 DEF Held
    <2>8. /\ traces'[f] = {}
          /\ \A g \in Triggers : g # f => traces'[g] = traces[g]
      BY <2>1 DEF IndexInv, IndexType
    <2>9. \A g \in Triggers : g # f => Held(traces[g])' = Held(traces[g])
      BY <2>2, <2>4, <2>8 DEF Held
    <2>10. /\ LinksOf(QueueOf(f))' = LinksOf(QueueOf(f)) \ ({f} \X traces[f])
           /\ {f} \X traces[f] \subseteq LinksOf(QueueOf(f))
      BY <2>2, <2>8, SMT DEF LinksOf, OfQueue
    <2>11. ASSUME NEW x
           PROVE  /\ x \in SharesOf(QueueOf(f))' <=> x \in SharesOf(QueueOf(f)) /\ x[1] # f
                  /\ x \in {f} \X Held(traces[f]) <=> x \in SharesOf(QueueOf(f)) /\ x[1] = f
      <3>1. x \in {f} \X Held(traces[f]) <=> x \in SharesOf(QueueOf(f)) /\ x[1] = f
        BY <2>2, SMTT(20) DEF SharesOf, Held, OfQueue
      <3>2. x \in SharesOf(QueueOf(f))' <=> x \in SharesOf(QueueOf(f)) /\ x[1] # f
        BY <2>1, <2>2, <2>8, SMTT(20) DEF SharesOf, Held, OfQueue, IndexInv, IndexType
      <3> QED
        BY <3>1, <3>2
    <2>12. \A q \in Queues : q # QueueOf(f) => LinksOf(q)' = LinksOf(q)
      BY <2>8, SMTT(20) DEF LinksOf, OfQueue
    <2>13. \A q \in Queues : q # QueueOf(f) => SharesOf(q)' = SharesOf(q)
      BY <2>1, <2>2, <2>8, SMT DEF SharesOf, Held, OfQueue, IndexInv, IndexType
    <2>14. /\ SharesOf(QueueOf(f))' = SharesOf(QueueOf(f)) \ ({f} \X Held(traces[f]))
           /\ {f} \X Held(traces[f]) \subseteq SharesOf(QueueOf(f))
      BY <2>11
    <2> QED
      BY <2>2, <2>3, <2>6, <2>7, <2>8, <2>9, <2>10, <2>12, <2>13, <2>14 DEF gone
  <1>UnhookCounts.
      ASSUME CountFacts, IndexInv, CountInv, NEW f \in Triggers, Unhook(f)
      PROVE  CountInv'
    <2> USE <1>UnhookCounts
    <2> DEFINE gone == OnlyTrigger(f)
               c == Cardinality(gone)
               d == Cardinality(Held(gone))
               m == Cardinality(traces[f])
               n == Cardinality(Held(traces[f]))
               Q == QueueOf(f)
    <2> USE QueueOfTrigger
    <2>1. /\ traces' = [traces EXCEPT ![f] = {}]
          /\ bufferCount' = [bufferCount EXCEPT ![f] = @ - n]
          /\ qBuffers' = [qBuffers EXCEPT ![Q] = @ - n]
          /\ qTraces' = [qTraces EXCEPT ![Q] = @ - m]
          /\ count' = [count EXCEPT !.traces = @ - c, !.ttraces = @ - c,
                                    !.buffers = @ - d, !.tbuffers = @ - d]
      BY DEF Unhook, Size
    <2>2. /\ Untriggered' = Untriggered /\ Held(Untriggered)' = Held(Untriggered)
          /\ Triggered' = Triggered \ gone /\ gone \subseteq Triggered
          /\ Held(Triggered)' = Held(Triggered) \ Held(gone)
          /\ Held(gone) \subseteq Held(Triggered)
          /\ traces'[f] = {}
          /\ \A g \in Triggers : g # f => Held(traces[g])' = Held(traces[g])
          /\ LinksOf(Q)' = LinksOf(Q) \ ({f} \X traces[f])
          /\ {f} \X traces[f] \subseteq LinksOf(Q)
          /\ SharesOf(Q)' = SharesOf(Q) \ ({f} \X Held(traces[f]))
          /\ {f} \X Held(traces[f]) \subseteq SharesOf(Q)
          /\ \A q \in Queues : q # Q => LinksOf(q)' = LinksOf(q) /\ SharesOf(q)' = SharesOf(q)
      BY <1>UnhookSets
    <2> HIDE DEF gone
    <2>3. Cardinality(Triggered') = Cardinality(Triggered) - c /\ c \in Nat
      BY <2>2, Shrunk, CountedSets
    <2>4. Cardinality(Held(Triggered)') = Cardinality(Held(Triggered)) - d /\ d \in Nat
      BY <2>2, Shrunk, CountedSets
    <2>5. /\ Cardinality({f} \X traces[f]) = m /\ m \in Nat
          /\ Cardinality({f} \X Held(traces[f])) = n /\ n \in Nat
      <3>1. IsFiniteSet(traces[f]) /\ IsFiniteSet(Held(traces[f]))
        BY CountedSets
      <3>2. m \in Nat /\ n \in Nat
        BY <3>1 DEF CountFacts
      <3>3. Cardinality({f} \X traces[f]) = m
        BY <3>1, Single
      <3>4. Cardinality({f} \X Held(traces[f])) = n
        BY <3>1, Single
      <3> QED
        BY <3>2, <3>3, <3>4
    <2>6. IsFiniteSet(LinksOf(Q)) /\ IsFiniteSet(SharesOf(Q))
      BY CountedSets
    <2>7. /\ Cardinality(LinksOf(Q)') = Cardinality(LinksOf(Q)) - m
          /\ Cardinality(SharesOf(Q)') = Cardinality(SharesOf(Q)) - n
      <3> DEFINE L == {f} \X traces[f]
                 H == {f} \X Held(traces[f])
      <3>1. /\ LinksOf(Q)' = LinksOf(Q) \ L /\ L \subseteq LinksOf(Q) /\ Cardinality(L) = m
            /\ SharesOf(Q)' = SharesOf(Q) \ H /\ H \subseteq SharesOf(Q) /\ Cardinality(H) = n
        BY <2>2, <2>5
      <3> HIDE DEF L, H
      <3>2. Cardinality(LinksOf(Q) \ L) = Cardinality(LinksOf(Q)) - Cardinality(L)
        BY <2>6, <3>1, Shrunk
      <3>3. Cardinality(SharesOf(Q) \ H) = Cardinality(SharesOf(Q)) - Cardinality(H)
        BY <2>6, <3>1, Shrunk
      <3> QED
        BY <3>1, <3>2, <3>3
    <2>8. Cardinality(Held(traces[f])') = 0
      <3>1. Held(traces[f])' = {}
        <4>1. traces'[f] = {}
          BY <2>2
        <4> QED
          BY <4>1, SMT DEF Held
      <3> QED
        BY <3>1 DEF CountFacts
    <2>9. bufferCount[f] = n
      BY DEF CountInv, SharesInv
    <2> HIDE DEF c, d, m, n, Q
    <2>10. TotalsInv'
      <3>1. /\ count'.traces = count.traces - c /\ count'.utraces = count.utraces
            /\ count'.buffers = count.buffers - d /\ count'.ubuffers = count.ubuffers
            /\ count'.ttraces = count.ttraces - c /\ count'.tbuffers = count.tbuffers - d
        BY <2>1, SMTT(20) DEF CountInv, TotalsInv, CountRecord, CountNames
      <3>2. CountRecord'
        BY <2>1 DEF CountInv, TotalsInv, CountRecord
      <3>3. /\ count'.utraces = Cardinality(Untriggered') /\ count'.ubuffers = Cardinality(Held(Untriggered)')
           /\ count'.ttraces = Cardinality(Triggered') /\ count'.tbuffers = Cardinality(Held(Triggered)')
        BY <2>2, <2>3, <2>4, <3>1 DEF CountInv, TotalsInv
      <3>4. /\ count'.traces = count'.utraces + count'.ttraces
           /\ count'.buffers = count'.ubuffers + count'.tbuffers
        BY <2>3, <2>4, <3>1, TotalsNat, SMT DEF CountInv, TotalsInv
      <3> QED
        BY <3>2, <3>3, <3>4 DEF TotalsInv
    <2>11. SharesInv'
      <3>1. /\ bufferCount' \in [Triggers -> Int]
            /\ qBuffers' \in [Queues -> Int] /\ qTraces' \in [Queues -> Int]
        <4>1. \A i \in Int, k \in Nat : i - k \in Int
          BY SMT
        <4>2. Q \in Queues /\ bufferCount[f] \in Int /\ qBuffers[Q] \in Int /\ qTraces[Q] \in Int
          BY DEF CountInv, SharesInv, Q
        <4>3. bufferCount[f] - n \in Int /\ qBuffers[Q] - n \in Int /\ qTraces[Q] - m \in Int
          BY <2>5, <4>1, <4>2
        <4> QED
          BY <2>1, <4>3 DEF CountInv, SharesInv
      <3>2. \A g \in Triggers : bufferCount'[g] = IF g = f THEN 0 ELSE bufferCount[g]
        BY <2>1, <2>5, <2>9, SMT DEF CountInv, SharesInv
      <3>3. \A q \in Queues : /\ qBuffers'[q] = IF q = Q THEN qBuffers[q] - n ELSE qBuffers[q]
                              /\ qTraces'[q] = IF q = Q THEN qTraces[q] - m ELSE qTraces[q]
        BY <2>1 DEF CountInv, SharesInv
      <3>4. \A g \in Triggers : bufferCount'[g] = Cardinality(Held(traces[g])')
        BY <2>2, <2>8, <3>2 DEF CountInv, SharesInv
      <3>5. \A q \in Queues : /\ qBuffers'[q] = Cardinality(SharesOf(q)')
                              /\ qTraces'[q] = Cardinality(LinksOf(q)')
        BY <2>2, <2>7, <3>3 DEF CountInv, SharesInv
      <3> QED
        BY <3>1, <3>4, <3>5 DEF SharesInv
    <2> QED
      BY <2>10, <2>11 DEF CountInv
  <1> SUFFICES ASSUME CountFacts, Inv, PlaceInv, CountInv, [Next]_vars PROVE CountInv'
    OBVIOUS
  <1>1. IndexStep /\ IndexInv
    BY NextIndexStep DEF Inv
  <1>2. CASE UNCHANGED <<traceVars, firedVars, count>>
    BY <1>2, <1>CountsStay DEF traceVars, firedVars
  <1>3. ASSUME NEW t \in TraceIds, NEW B \in SUBSET Buffers,
               \A u \in TraceIds : buffers[u] \cap B = {}, AddBuffers(t, B)
        PROVE  CountInv'
    BY <1>1, <1>3, <1>AddUntriggeredCounts, <1>AddTriggeredCounts DEF AddBuffers
  <1>4. ASSUME NEW t \in TraceIds, NEW C, AddBreadcrumbs(t, C) PROVE CountInv'
    BY <1>1, <1>4, <1>CrumbsCounts
  <1>5. ASSUME NEW f \in Triggers, NEW t \in TraceIds, Trigger(f, t) PROVE CountInv'
    BY <1>1, <1>5, <1>TriggerCounts
  <1>6. ASSUME NEW t \in TraceIds, EvictTrace(t) PROVE CountInv'
    BY <1>1, <1>6, <1>EvictTraceCounts
  <1>7. ASSUME NEW f \in Triggers, GetBuffersForReport(f) PROVE CountInv'
    BY <1>1, <1>7, <1>ReportCounts
  <1>8. ASSUME NEW f \in Triggers, EvictTrigger(f) \/ TimeOut(f) PROVE CountInv'
    BY <1>1, <1>8, <1>UnhookCounts DEF EvictTrigger, TimeOut
  <1> QED
    BY <1>1, <1>2, <1>3, <1>4, <1>5, <1>6, <1>7, <1>8 DEF IndexStep

(* What the counters count is apart: a trace is in one state.              *)
LEMMA CountsExact ==
  ASSUME CountFacts, IndexInv, CountInv
  PROVE  CountersExact
  <1>1. Untriggered \cap Triggered = {}
    BY SMT DEF Untriggered, Triggered
  <1>2. Cardinality(Untriggered \cup Triggered) = Cardinality(Untriggered) + Cardinality(Triggered)
    BY <1>1, Grown, CountedSets
  <1>3. Held(Untriggered \cup Triggered) = Held(Untriggered) \cup Held(Triggered)
    BY SMT DEF Held
  <1>4. Held(Untriggered) \cap Held(Triggered) = {}
    BY <1>1, SMT DEF Held
  <1>5. Size(Untriggered \cup Triggered) = Size(Untriggered) + Size(Triggered)
    BY <1>3, <1>4, Grown, CountedSets DEF Size
  <1>6. count = [traces  |-> count.traces, buffers |-> count.buffers,
                 utraces |-> count.utraces, ubuffers |-> count.ubuffers,
                 ttraces |-> count.ttraces, tbuffers |-> count.tbuffers]
    BY SMTT(20) DEF CountInv, TotalsInv, CountRecord, CountNames
  <1>7. /\ count.traces = Cardinality(Untriggered \cup Triggered)
        /\ count.buffers = Size(Untriggered \cup Triggered)
        /\ count.utraces = Cardinality(Untriggered) /\ count.ubuffers = Size(Untriggered)
        /\ count.ttraces = Cardinality(Triggered) /\ count.tbuffers = Size(Triggered)
    BY <1>2, <1>5 DEF CountInv, TotalsInv, Size
  <1> QED
    BY <1>6, <1>7 DEF CountInv, SharesInv, CountersExact, Size

-----------------------------------------------------------------------------
(***************************************************************************)
(* The lists hold what they should: a trigger is in the reporting tree of  *)
(* its queue while it is reporting, once.                                  *)
(***************************************************************************)
TreeInv ==
    /\ reporting \in [Triggers -> Int]
    /\ \A f \in Triggers : reporting[f] = If(firedState[f] = "reporting", 1)

LEMMA NextTree == Inv /\ PlaceInv /\ TreeInv /\ [Next]_vars => TreeInv'
  <1>TreeStays.
      ASSUME TreeInv, UNCHANGED <<reporting, firedState>>
      PROVE  TreeInv'
    BY <1>TreeStays DEF TreeInv
  (* buffersAdded puts a trigger in the tree if it was idle; no other is     *)
  (* told, because a trace only knows triggers that queue.fired has.         *)
  <1>WakesTree.
      ASSUME NEW r \in [Triggers -> Int], NEW F \in SUBSET Triggers,
             NEW st \in [Triggers -> {"none", "idle", "reporting"}],
             \A f \in Triggers : r[f] = If(st[f] = "reporting", 1),
             \A f \in F : st[f] # "none",
             firedState' = [f \in Triggers |-> IF f \in F THEN "reporting" ELSE st[f]],
             reporting' = [f \in Triggers |-> r[f] + If(f \in F /\ st[f] = "idle", 1)]
      PROVE  TreeInv'
    <2> USE <1>WakesTree
    <2>1. ASSUME NEW f \in Triggers
          PROVE  reporting'[f] \in Int /\ reporting'[f] = If(firedState'[f] = "reporting", 1)
      BY SMT DEF If
    <2> QED
      BY <2>1 DEF TreeInv
  <1>LeavesTree.
      ASSUME TreeInv, NEW f \in Triggers, NEW s, s # "reporting", firedState[f] = "reporting",
             firedState \in [Triggers -> {"none", "idle", "reporting"}],
             firedState' = [firedState EXCEPT ![f] = s],
             reporting' = [reporting EXCEPT ![f] = @ - 1]
      PROVE  TreeInv'
    <2> USE <1>LeavesTree
    <2>1. ASSUME NEW g \in Triggers
          PROVE  reporting'[g] \in Int /\ reporting'[g] = If(firedState'[g] = "reporting", 1)
      BY SMT DEF TreeInv, If
    <2> QED
      BY <2>1 DEF TreeInv
  <1> SUFFICES ASSUME Inv, PlaceInv, TreeInv, [Next]_vars PROVE TreeInv'
    OBVIOUS
  <1>1. IndexStep /\ IndexInv
    BY NextIndexStep DEF Inv
  <1>t. /\ firedState \in [Triggers -> {"none", "idle", "reporting"}]
        /\ reporting \in [Triggers -> Int]
        /\ \A f \in Triggers : reporting[f] = If(firedState[f] = "reporting", 1)
    BY <1>1 DEF IndexInv, IndexType, TreeInv
  <1>2. CASE UNCHANGED <<traceVars, firedVars, count>>
    BY <1>2, <1>TreeStays DEF firedVars
  <1>3. ASSUME NEW t \in TraceIds, NEW B, AddBuffers(t, B) PROVE TreeInv'
    <2>1. CASE AddBuffersUntriggered(t, B)
      BY <2>1, <1>TreeStays DEF AddBuffersUntriggered, firedVars
    <2>2. CASE AddBuffersTriggered(t, B)
      <3> DEFINE F == triggers[t]
      <3>1. /\ firedState' = [f \in Triggers |-> IF f \in F THEN "reporting" ELSE firedState[f]]
            /\ reporting' = [f \in Triggers |->
                                reporting[f] + If(f \in F /\ firedState[f] = "idle", 1)]
        BY <2>2 DEF AddBuffersTriggered, BuffersAdded
      <3>2. F \in SUBSET Triggers /\ \A f \in F : firedState[f] # "none"
        BY <1>1 DEF IndexInv, IndexType, LinksAgree
      <3> HIDE DEF F
      <3> QED
        BY <1>t, <3>1, <3>2, <1>WakesTree
    <2> QED
      BY <1>3, <2>1, <2>2 DEF AddBuffers
  <1>4. ASSUME NEW t \in TraceIds, NEW C, AddBreadcrumbs(t, C) PROVE TreeInv'
    BY <1>4, <1>TreeStays DEF AddBreadcrumbs, dmvars, firedVars
  <1>5. ASSUME NEW f \in Triggers, NEW t \in TraceIds, Trigger(f, t) PROVE TreeInv'
    <2> DEFINE st == [firedState EXCEPT ![f] = IF firedState[f] = "none" THEN "idle" ELSE @]
               F == IF f \notin triggers[t] /\ Cardinality(buffers[t]) > 0 THEN {f} ELSE {}
    <2>1. /\ firedState' = [g \in Triggers |-> IF g \in F THEN "reporting" ELSE st[g]]
          /\ reporting' = [g \in Triggers |-> reporting[g] + If(g \in F /\ st[g] = "idle", 1)]
      BY <1>5 DEF Trigger, BuffersAdded
    <2>2. /\ st \in [Triggers -> {"none", "idle", "reporting"}]
          /\ \A g \in Triggers : st[g] = "reporting" <=> firedState[g] = "reporting"
          /\ \A g \in F : st[g] # "none"
          /\ F \in SUBSET Triggers
      BY <1>t, SMT
    <2> HIDE DEF st, F
    <2>3. \A g \in Triggers : reporting[g] = If(st[g] = "reporting", 1)
      BY <1>t, <2>2 DEF If
    <2> QED
      BY <1>t, <2>1, <2>2, <2>3, <1>WakesTree
  <1>6. ASSUME NEW t \in TraceIds, EvictTrace(t) PROVE TreeInv'
    BY <1>6, <1>TreeStays DEF EvictTrace, firedVars
  <1>7. ASSUME NEW f \in Triggers, GetBuffersForReport(f) PROVE TreeInv'
    <2>1. /\ firedState[f] = "reporting" /\ firedState' = [firedState EXCEPT ![f] = "idle"]
          /\ reporting' = [reporting EXCEPT ![f] = @ - 1]
      BY <1>7 DEF GetBuffersForReport
    <2>2. "idle" # "reporting"
      OBVIOUS
    <2> QED
      BY <1>t, <2>1, <2>2, <1>LeavesTree
  <1>8. ASSUME NEW f \in Triggers, EvictTrigger(f) PROVE TreeInv'
    <2>1. /\ firedState[f] = "reporting" /\ firedState' = [firedState EXCEPT ![f] = "none"]
          /\ reporting' = [reporting EXCEPT ![f] = @ - 1]
      BY <1>8 DEF EvictTrigger, Unhook
    <2>2. "none" # "reporting"
      OBVIOUS
    <2> QED
      BY <1>t, <2>1, <2>2, <1>LeavesTree
  <1>9. ASSUME NEW f \in Triggers, TimeOut(f) PROVE TreeInv'
    <2>1. /\ firedState[f] = "idle" /\ firedState' = [firedState EXCEPT ![f] = "none"]
          /\ reporting' = reporting
      BY <1>9 DEF TimeOut, Unhook
    <2>2. \A g \in Triggers : firedState'[g] = "reporting" <=> firedState[g] = "reporting"
      BY <1>t, <2>1
    <2> QED
      BY <1>t, <2>1, <2>2 DEF TreeInv, If
  <1> QED
    BY <1>1, <1>2, <1>3, <1>4, <1>5, <1>6, <1>7, <1>8, <1>9 DEF IndexStep

(* In a list without repetitions an element occurs once.                   *)
LEMMA OccursOnce ==
  ASSUME CountFacts, NEW T, NEW s \in Seq(T), NEW m, Ordered(s, m), NEW x
  PROVE  Occurrences(s, x) = If(x \in Range(s), 1)
  <1> DEFINE P == {i \in DOMAIN s : s[i] = x}
  <1>1. \A i, j \in P : i = j
    BY SMT DEF Ordered
  <1>2. x \in Range(s) <=> P # {}
    BY SMT DEF Range
  <1>3. Occurrences(s, x) = Cardinality(P)
    BY DEF Occurrences
  <1> HIDE DEF P
  <1>4. CASE P = {}
    BY <1>2, <1>3, <1>4 DEF CountFacts, If
  <1>5. CASE P # {}
    <2>1. PICK i : i \in P
      BY <1>5
    <2>2. P = {i}
      BY <1>1, <2>1
    <2>3. Cardinality({i}) = 1
      BY DEF CountFacts
    <2> QED
      BY <1>2, <1>3, <1>5, <2>2, <2>3 DEF If
  <1> QED
    BY <1>4, <1>5

(* A finite set that counts something has an element.                      *)
LEMMA CountsSome ==
  ASSUME CountFacts, NEW S, IsFiniteSet(S)
  PROVE  Cardinality(S) \in Nat /\ (Cardinality(S) # 0 <=> S # {})
  <1>1. Cardinality(S) \in Nat /\ Cardinality({}) = 0
    BY DEF CountFacts
  <1>2. ASSUME NEW x \in S PROVE Cardinality(S) # 0
    <2>1. {x} \subseteq S /\ Cardinality({x}) = 1
      BY DEF CountFacts
    <2>2. Cardinality(S \ {x}) = Cardinality(S) - Cardinality({x})
      BY <2>1, Shrunk
    <2>3. Cardinality(S \ {x}) \in Nat
      <3>1. S \ {x} \subseteq S
        OBVIOUS
      <3>2. IsFiniteSet(S \ {x})
        BY <3>1 DEF CountFacts
      <3> QED
        BY <3>2 DEF CountFacts
    <2> QED
      BY <1>1, <2>1, <2>2, <2>3, SMT
  <1> QED
    BY <1>1, <1>2

LEMMA ListsHold ==
  ASSUME CountFacts, IndexInv, LruInv, IdleInv, TreeInv, CountInv
  PROVE  ListsExact
  <1>1. ASSUME NEW f \in Triggers, NEW q \in Queues
        PROVE  Occurrences(idle[q], f) = If(firedState[f] = "idle" /\ QueueOf(f) = q, 1)
    <2>1. /\ idle[q] \in Seq(Triggers) /\ Ordered(idle[q], idleSince)
          /\ Range(idle[q]) = {g \in Triggers : QueueOf(g) = q /\ firedState[g] = "idle"}
      BY DEF IdleInv, IdleListOf
    <2>2. Occurrences(idle[q], f) = If(f \in Range(idle[q]), 1)
      BY <2>1, OccursOnce
    <2> QED
      BY <2>1, <2>2 DEF If
  <1>2. ASSUME NEW t \in TraceIds
        PROVE  Occurrences(lru, t) = If(traceState[t] = "untriggered", 1)
    <2>1. /\ lru \in Seq(TraceIds) /\ Ordered(lru, lastModified)
          /\ Range(lru) = {u \in TraceIds : traceState[u] = "untriggered"}
      BY DEF LruInv, LruType
    <2>2. Occurrences(lru, t) = If(t \in Range(lru), 1)
      BY <2>1, OccursOnce
    <2> QED
      BY <2>1, <2>2 DEF If
  <1>3. ASSUME NEW q \in Queues, qBuffers[q] # 0 PROVE EvictNextOf(q) # {}
    <2>1. SharesOf(q) # {}
      BY <1>3, CountsSome, CountedSets DEF CountInv, SharesInv
    <2>2. PICK x \in SharesOf(q) : TRUE
      BY <2>1
    <2>3. /\ x[1] \in Triggers /\ QueueOf(x[1]) = q
          /\ x[2][1] \in traces[x[1]] /\ x[2][2] \in buffers[x[2][1]]
      BY <2>2, SMT DEF SharesOf, Held, OfQueue
    <2>4. PICK f \in Triggers : QueueOf(f) = q /\ \E t \in traces[f] : buffers[t] # {}
      BY <2>3
    <2>5. firedState[f] \in {"none", "idle", "reporting"}
      BY DEF IndexInv, IndexType
    <2>6. firedState[f] # "none" /\ firedState[f] # "idle"
      BY <2>4 DEF IndexInv, LinksAgree, IdleHoldsNoData
    <2>7. reporting[f] > 0
      BY <2>5, <2>6, SMT DEF TreeInv, If
    <2> QED
      BY <2>4, <2>7 DEF EvictNextOf
  <1>4. ASSUME count.tbuffers > 0 PROVE \E q \in Queues : qBuffers[q] > 0
    <2>1. count.tbuffers # 0 /\ count.tbuffers = Cardinality(Held(Triggered))
      BY <1>4, SMT DEF CountInv, TotalsInv
    <2>2. Held(Triggered) # {}
      BY <2>1, CountsSome, CountedSets
    <2>3. PICK p \in Held(Triggered) : TRUE
      BY <2>2
    <2>4. /\ p[1] \in TraceIds /\ traceState[p[1]] \in {"triggered", "reporting"}
          /\ p \in Held(TraceIds)
      BY <2>3, SMT DEF Held, Triggered
    <2>5. triggers[p[1]] # {}
      BY <2>4 DEF IndexInv, LinksAgree, Pending
    <2>6. PICK f \in Triggers : p[1] \in traces[f]
      BY <2>4, <2>5 DEF IndexInv, IndexType, LinksAgree
    <2>7. QueueOf(f) \in Queues /\ <<f, p>> \in SharesOf(QueueOf(f))
      BY <2>4, <2>6, QueueOfTrigger, SMT DEF SharesOf, OfQueue
    <2>8. qBuffers[QueueOf(f)] \in Nat /\ qBuffers[QueueOf(f)] # 0
      BY <2>7, CountsSome, CountedSets DEF CountInv, SharesInv
    <2>9. qBuffers[QueueOf(f)] > 0
      BY <2>8, SMT
    <2> QED
      BY <2>7, <2>9
  <1> QED
    BY <1>1, <1>2, <1>3, <1>4 DEF ListsExact, TreeInv

-----------------------------------------------------------------------------
(***************************************************************************)
(* The eviction loop: what it has still to evict is never less than what   *)
(* the index holds above the capacity.                                     *)
(***************************************************************************)
Within == count.buffers <= CacheCapacity \/ count.ubuffers = 0

CapacityInv ==
    /\ quota \in Int
    /\ pc \in {"select", "report"} => Within
    /\ pc = "evict" => count.buffers + Cardinality(evicted) <= quota + CacheCapacity

LEMMA CapacityInt ==
  ASSUME CountFacts
  PROVE  CacheCapacity \in Nat /\ TriggeredCapacity \in Nat
  <1>1. Cardinality(Buffers) \in Nat
    BY BuffersFinite DEF CountFacts
  <1> QED
    BY <1>1, SMT DEF CacheCapacity, TriggeredCapacity

(* The totals are numbers.                                                 *)
LEMMA TotalsInt ==
  ASSUME CountFacts, IndexInv, CountInv
  PROVE  count.buffers \in Int /\ count.ubuffers \in Nat /\ count.tbuffers \in Nat
  BY TotalsNat, SMT DEF CountInv, TotalsInv

LEMMA InitCapacity ==
  ASSUME CountFacts PROVE Init => CapacityInv
  <1> SUFFICES ASSUME Init PROVE CapacityInv
    OBVIOUS
  <1>1. pc = "select" /\ quota = 0 /\ count.buffers = 0
    BY SMT DEF Init, DMInit
  <1> QED
    BY <1>1, CapacityInt, SMTT(20) DEF CapacityInv, Within

LEMMA NextCapacity ==
         /\ CountFacts /\ Inv /\ PlaceInv /\ LruInv /\ CountInv /\ CapacityInv
         /\ Inv' /\ CountInv'
         /\ [Next]_vars
         => CapacityInv'
  <1>QuotaCovers.
      ASSUME NEW n \in Int, NEW c \in Nat
      PROVE  NumToEvict(n, c) \in Int /\ n <= NumToEvict(n, c) + c
    BY <1>QuotaCovers, SMT DEF NumToEvict
  (* What the operations between evictions do to the totals.                 *)
  <1>TriggerWithin.
      ASSUME CountFacts, IndexInv, CountInv, IndexInv', CountInv', Within,
             NEW f \in Triggers, NEW t \in TraceIds, Trigger(f, t)
      PROVE  Within'
    <2> USE <1>TriggerWithin
    <2> DEFINE n == Cardinality(buffers[t])
               k == If(traceState[t] \in Pending, n)
    <2>1. /\ count'.buffers = count.buffers
          /\ count'.ubuffers = count.ubuffers - k
      BY SMT DEF Trigger, CountInv, TotalsInv, CountRecord, CountNames
    <2>2. n \in Nat
      BY HeldCounts
    <2>3. k \in Nat
      BY <2>2, SMT DEF If
    <2>4. count'.ubuffers \in Nat /\ count.ubuffers \in Nat
      <3>1. (Cardinality(Held(Untriggered)) \in Nat)'
        <4>1. \A S : IsFiniteSet(S) => Cardinality(S) \in Nat
          BY DEF CountFacts
        <4>2. \A T \in SUBSET TraceIds : (IsFiniteSet(Held(T)))'
          <5>1. IsFiniteSet(TraceIds \X Buffers)
            BY IdsFinite, BuffersFinite DEF CountFacts
          <5>2. \A T \in SUBSET TraceIds : {p \in T \X Buffers : p[2] \in buffers'[p[1]]} \subseteq TraceIds \X Buffers
            BY SMT
          <5>3. \A D : D \subseteq TraceIds \X Buffers => IsFiniteSet(D)
            BY <5>1 DEF CountFacts
          <5> QED
            BY <5>2, <5>3 DEF Held
        <4>3. Untriggered' \in SUBSET TraceIds
          BY DEF Untriggered
        <4> QED
          BY <4>1, <4>2, <4>3 DEF Held
      <3> QED
        BY <3>1, TotalsInt DEF CountInv, TotalsInv
    <2> HIDE DEF k
    <2> QED
      BY <2>1, <2>3, <2>4, SMTT(20) DEF Within
  <1>ReportWithin.
      ASSUME CountFacts, IndexInv, CountInv, Within, NEW f \in Triggers, GetBuffersForReport(f)
      PROVE  Within'
    <2> USE <1>ReportWithin
    <2> DEFINE n == Cardinality(Held(traces[f]))
    <2>1. count'.buffers = count.buffers - n /\ count'.ubuffers = count.ubuffers
      BY SMT DEF GetBuffersForReport, Size, CountInv, TotalsInv, CountRecord, CountNames
    <2>2. n \in Nat
      BY CountedSets DEF CountFacts
    <2> HIDE DEF n
    <2> QED
      BY <2>1, <2>2, TotalsInt, CapacityInt, SMT DEF Within
  <1>CrumbsWithin.
      ASSUME CountInv, Within, NEW t \in TraceIds, NEW C, AddBreadcrumbs(t, C)
      PROVE  Within'
    <2> USE <1>CrumbsWithin
    <2> DEFINE new == If(traceState[t] = "none", 1)
    <2>1. count' = count \/ count' = [count EXCEPT !.traces = @ + new, !.utraces = @ + new]
      BY DEF AddBreadcrumbs, dmvars
    <2> HIDE DEF new
    <2>2. CASE count' = count
      BY <2>2 DEF Within
    <2>3. CASE count' = [count EXCEPT !.traces = @ + new, !.utraces = @ + new]
      <3>1. count'.buffers = count.buffers /\ count'.ubuffers = count.ubuffers
        BY <2>3, SMTT(20) DEF CountInv, TotalsInv, CountRecord, CountNames
      <3> QED
        BY <3>1 DEF Within
    <2> QED
      BY <2>1, <2>2, <2>3
  (* Evicting a trace takes its buffers out of the index, and counts them as *)
  (* evicted.                                                                *)
  <1>EvictCapacity.
      ASSUME CountFacts, Inv, PlaceInv, CountInv, CapacityInv, NEW t \in TraceIds, EvictUntriggered(t)
      PROVE  CapacityInv'
    <2> USE <1>EvictCapacity
    <2> DEFINE n == Cardinality(buffers[t])
    <2>1. /\ pc = "evict" /\ pc' = "evict" /\ quota' = quota
          /\ evicted' = evicted \cup buffers[t]
          /\ EvictTrace(t)
      BY DEF EvictUntriggered
    <2>2. count'.buffers = count.buffers - n
      BY <2>1, SMT DEF EvictTrace, CountInv, TotalsInv, CountRecord, CountNames
    <2>3. n \in Nat /\ buffers[t] \subseteq Buffers /\ evicted \subseteq Buffers
      BY HeldCounts DEF Inv, HeldInv, IndexInv, IndexType
    <2>4. evicted \cap buffers[t] = {}
      <3> SUFFICES ASSUME NEW b \in evicted, b \in buffers[t] PROVE FALSE
        OBVIOUS
      <3>1. b \in Buffers /\ At("index", b) /\ At("evicted", b)
        BY <2>3 DEF At
      <3>2. "index" \in Kinds /\ "evicted" \in Kinds /\ "index" # "evicted"
        BY DEF Kinds
      <3> QED
        BY <3>1, <3>2 DEF PlaceInv, OnePlace, OneKind
    <2>5. IsFiniteSet(evicted) /\ IsFiniteSet(buffers[t])
      BY <2>3, BuffersFinite DEF CountFacts
    <2>6. Cardinality(evicted') = Cardinality(evicted) + n /\ Cardinality(evicted) \in Nat
      BY <2>1, <2>4, <2>5, Grown
    <2>7. count.buffers \in Int
      BY TotalsInt DEF Inv
    <2> HIDE DEF n
    <2> QED
      BY <2>1, <2>2, <2>3, <2>6, <2>7, CapacityInt, SMT DEF CapacityInv
  (* The loop ends when enough is evicted, or the LRU list is empty.         *)
  <1>EvictEnds.
      ASSUME CountFacts, Inv, LruInv, CountInv, CapacityInv, EvictEnd
      PROVE  CapacityInv'
    <2> USE <1>EvictEnds
    <2>1. /\ pc = "evict" /\ pc' = "select" /\ quota' = 0 /\ count' = count
          /\ ~(Cardinality(evicted) < quota /\ lru # <<>>)
      BY DEF EvictEnd, MoreTraces, dmvars
    <2>2. Within
      <3>1. CASE lru = <<>>
        <4>1. Range(lru) = {}
          BY <3>1, SMT DEF Range
        <4>2. Untriggered = {}
          BY <4>1 DEF LruInv, Untriggered
        <4>3. Held(Untriggered) = {}
          BY <4>2, SMT DEF Held
        <4> QED
          BY <4>3 DEF Within, CountInv, TotalsInv, CountFacts
      <3>2. CASE ~(Cardinality(evicted) < quota)
        <4>1. IsFiniteSet(evicted)
          BY BuffersFinite DEF CountFacts, Inv, HeldInv
        <4>2. Cardinality(evicted) \in Nat /\ count.buffers \in Int
          BY <4>1, TotalsInt DEF CountFacts, Inv
        <4> QED
          BY <2>1, <3>2, <4>2, CapacityInt, SMT DEF Within, CapacityInv
      <3> QED
        BY <2>1, <3>1, <3>2
    <2>3. Within'
      BY <2>1, <2>2 DEF Within
    <2>4. 0 \in Int
      BY SMT
    <2> QED
      BY <2>1, <2>3, <2>4 DEF CapacityInv
  <1>CapacityStays.
      ASSUME CapacityInv, UNCHANGED <<count, quota, pc, evicted>>
      PROVE  CapacityInv'
    BY <1>CapacityStays DEF CapacityInv, Within
  (* Handlers in which nothing is claimed.                                   *)
  <1>CapacityIdle.
      ASSUME quota' \in Int, pc' \notin {"select", "report", "evict"}
      PROVE  CapacityInv'
    BY <1>CapacityIdle DEF CapacityInv
  <1>CapacityBetween.
      ASSUME CapacityInv, quota' = quota, pc' \in {"select", "report"}, Within'
      PROVE  CapacityInv'
    BY <1>CapacityBetween DEF CapacityInv
  <1> SUFFICES ASSUME CountFacts, Inv, PlaceInv, LruInv, CountInv, CapacityInv, Inv', CountInv',
                      [Next]_vars
               PROVE  CapacityInv'
    OBVIOUS
  <1>i. IndexInv /\ IndexInv' /\ quota \in Int
    BY DEF Inv, CapacityInv
  <1> USE DEF loopVars, reportVars
  <1>u. CASE UNCHANGED vars
    BY <1>u, <1>CapacityStays DEF vars, dmvars, agentVars
  <1>1. CASE Handle
    <2>1. CASE Tick
      BY <2>1, <1>CapacityStays DEF Tick, agentVars
    <2>2. CASE CompleteBegin
      BY <1>i, <2>2, <1>CapacityIdle DEF CompleteBegin
    <2>3. ASSUME NEW t \in TraceIds, NEW C, ProcessBreadcrumbs(t, C) PROVE CapacityInv'
      <3>1. pc = "select" /\ pc' = "select" /\ quota' = quota /\ AddBreadcrumbs(t, C)
        BY <2>3 DEF ProcessBreadcrumbs
      <3>2. Within
        BY <3>1 DEF CapacityInv
      <3> QED
        BY <3>1, <3>2, <1>CrumbsWithin, <1>CapacityBetween
    <2>4. ASSUME NEW x \in Fireable, ProcessTrigger(x) \/ ProcessRemoteTrigger(x) PROVE CapacityInv'
      <3> DEFINE f == <<x[1], x[2]>>
      <3>1. /\ pc = "select" /\ pc' = "select" /\ quota' = quota /\ evicted' = evicted
            /\ Trigger(f, x[3]) \/ UNCHANGED dmvars
        BY <2>4 DEF ProcessTrigger, ProcessRemoteTrigger
      <3>2. Within /\ f \in Triggers /\ x[3] \in TraceIds
        BY <3>1, FireableTriggers DEF CapacityInv
      <3> HIDE DEF f
      <3>3. CASE Trigger(f, x[3])
        BY <1>i, <3>1, <3>2, <3>3, <1>TriggerWithin, <1>CapacityBetween
      <3>4. CASE UNCHANGED dmvars
        BY <3>1, <3>4, <1>CapacityStays DEF dmvars
      <3> QED
        BY <3>1, <3>3, <3>4
    <2> QED
      BY <1>1, <2>1, <2>2, <2>3, <2>4 DEF Handle
  <1>2. CASE Continue
    <2>1. ASSUME NEW t, CompleteEntry(t) PROVE CapacityInv'
      BY <1>i, <2>1, <1>CapacityIdle DEF CompleteEntry
    <2>2. CASE CompleteEnd
      <3>1. CASE count.buffers < CacheCapacity
        <4>1. pc' = "select" /\ quota' = quota /\ count' = count
          BY <2>2, <3>1 DEF CompleteEnd, dmvars
        <4>2. Within
          BY <1>i, <3>1, TotalsInt, CapacityInt, SMT DEF Within
        <4>3. Within'
          BY <4>1, <4>2 DEF Within
        <4> QED
          BY <4>1, <4>3, <1>CapacityBetween
      <3>2. CASE ~(count.buffers < CacheCapacity)
        BY <1>i, <2>2, <3>2, <1>CapacityIdle DEF CompleteEnd
      <3> QED
        BY <3>1, <3>2
    <2>3. ASSUME NEW q, NEW f, CheckIdle(q, f) PROVE CapacityInv'
      BY <1>i, <2>3, <1>CapacityIdle DEF CheckIdle, agentVars
    <2>4. CASE CheckIdleEnd
      <3>1. count.tbuffers \in Int
        BY <1>i, TotalsInt, SMT
      <3>2. quota' \in Int
        BY <2>4, <3>1, CapacityInt, <1>QuotaCovers DEF CheckIdleEnd
      <3> QED
        BY <2>4, <3>2, <1>CapacityIdle DEF CheckIdleEnd
    <2>5. CASE EvictTriggered
      BY <1>i, <2>5, <1>CapacityIdle DEF EvictTriggered
    <2>6. CASE EvictTriggeredEnd
      <3>1. /\ pc' = "evict" /\ evicted' = {} /\ count' = count
            /\ quota' = NumToEvict(count.buffers, CacheCapacity)
        BY <2>6 DEF EvictTriggeredEnd, dmvars
      <3>2. count.buffers \in Int
        BY <1>i, TotalsInt
      <3>3. quota' \in Int /\ count.buffers <= quota' + CacheCapacity
        BY <3>1, <3>2, CapacityInt, <1>QuotaCovers
      <3>4. Cardinality(evicted') = 0
        BY <3>1 DEF CountFacts
      <3>5. count'.buffers + Cardinality(evicted') <= quota' + CacheCapacity
        BY <3>1, <3>2, <3>3, <3>4, SMT
      <3> QED
        BY <3>1, <3>3, <3>5 DEF CapacityInv, CacheCapacity
    <2>7. ASSUME NEW t \in TraceIds, EvictUntriggered(t) PROVE CapacityInv'
      BY <2>7, <1>EvictCapacity
    <2>8. CASE EvictEnd
      BY <2>8, <1>EvictEnds
    <2>9. ASSUME NEW q \in Queues, ReportNext(q) PROVE CapacityInv'
      <3>1. PICK f \in Triggers : GetBuffersForReport(f)
        BY <2>9 DEF ReportNext, ReportNextOf
      <3>2. pc = "report" /\ pc' = "report" /\ quota' = quota
        BY <2>9 DEF ReportNext
      <3>3. Within
        BY <3>2 DEF CapacityInv
      <3> QED
        BY <1>i, <3>1, <3>2, <3>3, <1>ReportWithin, <1>CapacityBetween
    <2>10. CASE ReportEnd
      <3>1. pc = "report" /\ pc' = "select" /\ quota' = quota /\ count' = count
        BY <2>10 DEF ReportEnd, dmvars
      <3>2. Within'
        BY <3>1 DEF CapacityInv, Within
      <3> QED
        BY <3>1, <3>2, <1>CapacityBetween
    <2> QED
      BY <1>2, <2>1, <2>2, <2>3, <2>4, <2>5, <2>6, <2>7, <2>8, <2>9, <2>10 DEF Continue
  <1>3. CASE ReportTimer \/ ReportSend
    <2>1. pc = "select" /\ pc' = "report" /\ quota' = quota /\ count' = count
      BY <1>3 DEF ReportTimer, ReportSend, dmvars
    <2>2. Within'
      BY <2>1 DEF CapacityInv, Within
    <2> QED
      BY <2>1, <2>2, <1>CapacityBetween
  <1>4. CASE Reporter
    BY <1>4, <1>CapacityStays DEF Reporter, Connect, ReporterTake, ReporterReturn, dmvars
  <1> QED
    BY <1>u, <1>1, <1>2, <1>3, <1>4 DEF Next

-----------------------------------------------------------------------------
INSTANCE ListProofs

(* A set of buffers has a positive cardinality exactly if it is not empty. *)
LEMMA CountsBuffers == BuffersCount
  <1> SUFFICES ASSUME NEW B \in SUBSET Buffers
               PROVE  Cardinality(B) \in Nat /\ (Cardinality(B) > 0 <=> B # {})
    BY DEF BuffersCount
  <1>1. IsFiniteSet(B)
    BY BuffersFinite, FS_Subset
  <1>2. Cardinality(B) \in Nat
    BY <1>1, FS_CardinalityType
  <1>3. Cardinality(B) = 0 <=> B = {}
    BY <1>1, FS_EmptySet
  <1> QED
    BY <1>2, <1>3, SMTT(20)

(* Traces and fired triggers list each other symmetrically, and the state  *)
(* of a trace agrees with its triggers and data: removeTrigger never meets *)
(* a trace that does not know the trigger.                                 *)
THEOREM LinksAgreeHolds == Spec => []LinksAgree
  <1>1. Inv => LinksAgree
    BY DEF Inv, IndexInv
  <1> QED
    BY InitInv, NextInv, CountsBuffers, <1>1, PTL DEF Spec

(* An idle trigger has no trace with data, so that checkTimeout throws no  *)
(* buffers away.                                                           *)
THEOREM IdleHoldsNoDataHolds == Spec => []IdleHoldsNoData
  <1>1. Inv => IdleHoldsNoData
    BY DEF Inv, IndexInv
  <1> QED
    BY InitInv, NextInv, CountsBuffers, <1>1, PTL DEF Spec

(* Where a buffer is in at most one entry, counting the entries gives 1 or *)
(* 0.                                                                      *)
LEMMA CountsPlaces ==
  ASSUME NEW P, \A x, y \in P : x = y
  PROVE  Cardinality(P) = IF P = {} THEN 0 ELSE 1
  <1>1. CASE P = {}
    BY <1>1, FS_EmptySet
  <1>2. CASE P # {}
    <2>1. PICK x : x \in P
      BY <1>2
    <2>2. P = {x}
      BY <2>1
    <2> QED
      BY <1>2, <2>2, FS_Singleton
  <1> QED
    BY <1>1, <1>2

LEMMA OnePlaceCounts == OnePlace => BuffersConserved
  <1> SUFFICES ASSUME OnePlace, NEW b \in Buffers PROVE Holders(b) = 1
    BY DEF BuffersConserved
  <1> DEFINE I == {t \in TraceIds : b \in buffers[t]}
             E == {t \in DOMAIN batch : b \in batch[t]}
             C == {i \in DOMAIN channel : b \in channel[i]}
  <1>1. /\ \A x, y \in I : x = y
        /\ \A x, y \in E : x = y
        /\ \A x, y \in C : x = y
    BY DEF OnePlace, Apart
  <1>2. /\ Cardinality(I) = If(At("index", b), 1)
        /\ Cardinality(E) = If(At("batch", b), 1)
        /\ Cardinality(C) = If(At("channel", b), 1)
    <2>1. /\ I = {} <=> ~At("index", b)
          /\ E = {} <=> ~At("batch", b)
          /\ C = {} <=> ~At("channel", b)
      BY SMT DEF At
    <2>2. /\ Cardinality(I) = IF I = {} THEN 0 ELSE 1
          /\ Cardinality(E) = IF E = {} THEN 0 ELSE 1
          /\ Cardinality(C) = IF C = {} THEN 0 ELSE 1
      <3> HIDE DEF I, E, C
      <3> QED
        BY <1>1, CountsPlaces
    <2> HIDE DEF I, E, C
    <2> QED
      BY <2>1, <2>2 DEF If
  <1>3. Holders(b) = If(At("index", b), 1) + If(At("batch", b), 1) + If(At("channel", b), 1)
                     + If(At("freed", b), 1) + If(At("evicted", b), 1) + If(At("data", b), 1)
                     + If(At("inflight", b), 1) + If(At("outside", b), 1)
    <2>1. /\ At("freed", b) <=> b \in freed
          /\ At("evicted", b) <=> b \in evicted
          /\ At("data", b) <=> b \in data
          /\ At("inflight", b) <=> b \in inflight
          /\ At("outside", b) <=> b \in outside
      BY SMT DEF At
    <2>2. /\ If(At("freed", b), 1) = If(b \in freed, 1)
          /\ If(At("evicted", b), 1) = If(b \in evicted, 1)
          /\ If(At("data", b), 1) = If(b \in data, 1)
          /\ If(At("inflight", b), 1) = If(b \in inflight, 1)
          /\ If(At("outside", b), 1) = If(b \in outside, 1)
      BY <2>1 DEF If
    <2> QED
      BY <1>2, <2>2 DEF Holders
  <1>4. PICK k \in Kinds : \A j \in Kinds : At(j, b) <=> j = k
    BY DEF OnePlace, OneKind
  <1> QED
    BY <1>3, <1>4, SMT DEF Kinds, If

(* Every buffer of the pool is in exactly one place at every moment: with  *)
(* the clients or their queues, in the batch being processed, held by one  *)
(* trace, freed, evicted, pending for a report, in the channel to the      *)
(* reporting goroutine or in its hands.  So processCompletedBuffers,       *)
(* maybeEvict and the report loop neither leak a buffer nor return one     *)
(* twice, with any number of traces, triggers, queues and buffers.         *)
THEOREM BuffersConservedHolds == Spec => []BuffersConserved
  <1>1. Init => Inv /\ PlaceInv
    BY InitInv, InitPlaceInv
  <1>2. Inv /\ PlaceInv /\ [Next]_vars => Inv' /\ PlaceInv'
    BY NextInv, NextPlaces, CountsBuffers
  <1>3. PlaceInv => BuffersConserved
    BY OnePlaceCounts DEF PlaceInv
  <1> QED
    BY <1>1, <1>2, <1>3, PTL DEF Spec

(* maybeEvict always evicts the least recent untriggered trace: every      *)
(* untriggered trace that is kept was last modified at or after the event  *)
(* horizon, however the traces were touched, triggered and evicted before. *)
THEOREM HorizonSoundHolds == Spec => []HorizonSound
  <1>1. Init => Inv /\ ListInv
    BY InitInv, InitListInv
  <1>2. Inv /\ ListInv /\ [Next]_vars => Inv' /\ ListInv'
    BY NextInv, NextLists, CountsBuffers, ListFactsHold
  <1>3. ListInv => HorizonSound
    BY DEF ListInv, LruInv
  <1> QED
    BY <1>1, <1>2, <1>3, PTL DEF Spec

(* CheckIdleTriggers looks only at the back of each idle list and stops at *)
(* the first survivor; still, after it no idle trigger is past its         *)
(* timeout, with any number of queues and triggers.                        *)
THEOREM NoExpiredIdleHolds == Spec => []NoExpiredIdle
  <1>1. Init => Inv /\ ListInv
    BY InitInv, InitListInv
  <1>2. Inv /\ ListInv /\ [Next]_vars => Inv' /\ ListInv'
    BY NextInv, NextLists, CountsBuffers, ListFactsHold
  <1>3. ListInv => NoExpiredIdle
    BY DEF ListInv
  <1> QED
    BY <1>1, <1>2, <1>3, PTL DEF Spec

(* When a trigger reaches a trace, from this node or from another, all the *)
(* breadcrumbs that the trace has gathered leave it in the same step, for  *)
(* the coordinator client or, where its channel is full, for the count of  *)
(* the dropped.                                                            *)
THEOREM CrumbsFollowTriggerHolds == Spec => CrumbsFollowTrigger
  <1>1. Init => Inv /\ CrumbType
    BY InitInv, SMT DEF Init, DMInit, CrumbType
  <1>2. Inv /\ CrumbType /\ [Next]_vars =>
           Inv' /\ CrumbType' /\ [\A t \in TraceIds : CrumbsLeave(t)]_vars
    BY NextInv, NextCrumbs, CountsBuffers
  <1> QED
    BY <1>1, <1>2, PTL DEF Spec, CrumbsFollowTrigger, CrumbsLeave

LEMMA CountFactsHold == CountFacts
  <1>1. \A S : IsFiniteSet(S) => Cardinality(S) \in Nat
    BY FS_CardinalityType
  <1>2. ASSUME NEW S, NEW D, IsFiniteSet(S), D \subseteq S
        PROVE  IsFiniteSet(D) /\ Cardinality(S \ D) = Cardinality(S) - Cardinality(D)
    <2>1. S \cap D = D
      BY <1>2
    <2>2. IsFiniteSet(D)
      BY <1>2, FS_Subset
    <2>3. Cardinality(S \ D) = Cardinality(S) - Cardinality(S \cap D)
      BY <1>2, FS_Difference
    <2> QED
      BY <2>1, <2>2, <2>3
  <1>3. ASSUME NEW S, NEW A, IsFiniteSet(S), IsFiniteSet(A), S \cap A = {}
        PROVE  /\ IsFiniteSet(S \cup A)
               /\ Cardinality(S \cup A) = Cardinality(S) + Cardinality(A)
    <2>1. /\ IsFiniteSet(S \cup A)
          /\ Cardinality(S \cup A) = Cardinality(S) + Cardinality(A) - Cardinality(S \cap A)
      BY <1>3, FS_Union
    <2>2. Cardinality(S \cap A) = 0 /\ Cardinality(S) \in Nat /\ Cardinality(A) \in Nat
      BY <1>1, <1>3, FS_EmptySet
    <2> QED
      BY <2>1, <2>2, SMT
  <1>4. \A S, A : IsFiniteSet(S) /\ IsFiniteSet(A) =>
           IsFiniteSet(S \X A) /\ Cardinality(S \X A) = Cardinality(S) * Cardinality(A)
    BY FS_Product
  <1> QED
    BY <1>1, <1>2, <1>3, <1>4, FS_Singleton, FS_EmptySet DEF CountFacts

(* All that is known of the index and the lists at once, step by step.     *)
LEMMA InitAll == Init => Inv /\ PlaceInv /\ ListInv /\ CountInv /\ TreeInv /\ CapacityInv
  <1>1. Init => TreeInv
    BY SMT DEF Init, DMInit, TreeInv, If
  <1> QED
    BY <1>1, InitInv, InitPlaceInv, InitListInv, InitCounts, InitCapacity, CountFactsHold

LEMMA NextAll ==
  Inv /\ PlaceInv /\ ListInv /\ CountInv /\ TreeInv /\ CapacityInv /\ [Next]_vars
    => (Inv /\ PlaceInv /\ ListInv /\ CountInv /\ TreeInv /\ CapacityInv)'
  <1> SUFFICES ASSUME Inv, PlaceInv, ListInv, CountInv, TreeInv, CapacityInv, [Next]_vars
               PROVE  Inv' /\ PlaceInv' /\ ListInv' /\ CountInv' /\ TreeInv' /\ CapacityInv'
    OBVIOUS
  <1>1. Inv' /\ PlaceInv' /\ ListInv'
    BY NextInv, NextPlaces, NextLists, CountsBuffers, ListFactsHold
  <1>2. CountInv' /\ TreeInv'
    BY NextCounts, NextTree, CountFactsHold
  <1>3. CapacityInv'
    BY <1>1, <1>2, NextCapacity, CountFactsHold DEF ListInv
  <1> QED
    BY <1>1, <1>2, <1>3

(* The counters of the data manager, the queues and the fired triggers,    *)
(* which the operations maintain by increments, are always what a recount  *)
(* of the index would give; a trace counts once for every trigger that     *)
(* includes it.  So the limits of maybeEvict and the choice of the largest *)
(* queue rest on true sizes, for any traces, triggers, queues and buffers. *)
THEOREM CountersExactHolds == Spec => []CountersExact
  <1>1. Inv /\ CountInv => CountersExact
    BY CountsExact, CountFactsHold DEF Inv
  <1> QED
    BY InitAll, NextAll, <1>1, PTL DEF Spec

(* The reporting tree of a queue holds its reporting triggers, the idle    *)
(* list its idle ones and the LRU list the untriggered traces, each once   *)
(* and nothing else; and where the counters say that there is something to *)
(* report or to evict, there is.  So PopMin and PopNearMax never meet an   *)
(* empty tree, nor a trigger that is no longer fired.                      *)
THEOREM ListsExactHolds == Spec => []ListsExact
  <1>1. Inv /\ ListInv /\ CountInv /\ TreeInv => ListsExact
    BY ListsHold, CountFactsHold DEF Inv, ListInv
  <1> QED
    BY InitAll, NextAll, <1>1, PTL DEF Spec

(* Whenever maybeEvict has finished, the index is within the capacity of   *)
(* the cache or holds no untriggered data; between evictions the report    *)
(* loop and the triggers keep it so.                                       *)
THEOREM CapacityEnforcedHolds == Spec => []CapacityEnforced
  <1>1. CapacityInv => CapacityEnforced
    BY DEF CapacityInv, CapacityEnforced, Within
  <1> QED
    BY InitAll, NextAll, <1>1, PTL DEF Spec
=============================================================================
