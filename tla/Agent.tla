-------------------------------- MODULE Agent --------------------------------
(***************************************************************************)
(* The agent's processing loop (agent/pkg/agent/agent.go), the report loop *)
(* of the trigger manager (triggermanager.go) and the reporting goroutine  *)
(* (reporting.go), over the index of DataManager.                          *)
(*                                                                         *)
(* The processing loop is one goroutine: pc says how far the handler it is *)
(* running has got, "select" being the select statement of                 *)
(* RunProcessingLoop.  Each iteration of a loop inside a handler is a step,*)
(* and a handler that has begun runs to its end before the next begins.    *)
(*                                                                         *)
(* Buffers that the agent does not hold, because they are in the available *)
(* queue, with a client, or in the complete queue, are in outside.         *)
(***************************************************************************)
EXTENDS DataManager

CONSTANTS
    MaxTime,    \* bound on the clock
    MaxEntries, \* bound on the number of traces in one CompleteBatch
    BatchSize,  \* tm.batch_size
    ChanCap     \* capacity of the channel reporting.data

ASSUME BoundsPositive == {MaxEntries, BatchSize, ChanCap} \subseteq Nat \ {0}
ASSUME MaxTimeNat == MaxTime \in Nat

VARIABLES
    pc,        \* where the processing loop is
    batch,     \* the entries of a CompleteBatch not processed yet
    freed,     \* freed_buffers: buffers of trace 0 in this batch
    evicted,   \* buffers evicted so far by the eviction loop
    quota,     \* num_to_evict of the eviction loop
    victim,    \* the queue triggers are evicted from
    data,      \* data_to_report
    channel,   \* reporting.data
    inflight,  \* the batch that reportData is sending
    connected, \* whether the reporting goroutine has a connection
    outside,   \* buffers not held by the agent
    outbox     \* what the latest handler put on the coordinator's channels

loopVars == <<batch, freed, evicted, quota, victim>>
reportVars == <<channel, inflight, connected>>
agentVars == <<pc, loopVars, data, reportVars, outside, outbox>>
vars == <<dmvars, agentVars>>

CacheCapacity == (4 * Cardinality(Buffers)) \div 5
TriggeredCapacity == CacheCapacity \div 2

NumToEvictOneLess(n, target) == IF n <= target THEN 0 ELSE n - target - 1

\* num_to_evict: at least one per cent of the target, none if within it
NumToEvict(n, target) ==
    LET least == target \div 100
    IN  IF n <= target THEN 0
        ELSE IF n - target < least THEN least ELSE n - target

NoQueue == "none"
NoBatch == <<>>
Silent == [triggers |-> {}, breadcrumbs |-> {}, dropped |-> {}]

Init ==
    /\ DMInit
    /\ pc = "select"
    /\ batch = NoBatch /\ freed = {} /\ evicted = {} /\ quota = 0 /\ victim = NoQueue
    /\ data = {}
    /\ channel = <<>> /\ inflight = {} /\ connected = FALSE
    /\ outside = Buffers
    /\ outbox = Silent

-----------------------------------------------------------------------------
(* dm.now = time.Now() at the top of the loop. *)
Tick ==
    /\ pc = "select" /\ now < MaxTime
    /\ now' = now + 1
    /\ UNCHANGED <<traceVars, firedVars, count, agentVars>>

(* processCompletedBuffers: a batch arrives from the complete queue. *)
Batches ==
    UNION {{b \in [T -> SUBSET outside] :
               /\ \A t \in T : b[t] # {}
               /\ \A t, u \in T : t # u => b[t] \cap b[u] = {}} :
           T \in {S \in SUBSET (TraceIds \cup {0}) : Cardinality(S) \in 1 .. MaxEntries}}

CompleteBegin ==
    /\ pc = "select"
    /\ \E b \in Batches :
          /\ batch' = b
          /\ outside' = outside \ UNION {b[t] : t \in DOMAIN b}
    /\ pc' = "complete"
    /\ outbox' = Silent
    /\ UNCHANGED <<dmvars, freed, evicted, quota, victim, data, reportVars>>

Rest(t) == [u \in DOMAIN batch \ {t} |-> batch[u]]

CompleteEntry(t) ==
    /\ pc = "complete" /\ t \in DOMAIN batch
    /\ IF t = 0
       THEN freed' = freed \cup batch[t] /\ UNCHANGED dmvars
       ELSE AddBuffers(t, batch[t]) /\ UNCHANGED freed
    /\ batch' = Rest(t)
    /\ UNCHANGED <<pc, evicted, quota, victim, data, reportVars, outside, outbox>>

CompleteEndForgetsFreed ==
    /\ pc = "complete" /\ DOMAIN batch = {}
    /\ pc' = IF count.buffers < CacheCapacity THEN "select" ELSE "idle"
    /\ freed' = IF count.buffers < CacheCapacity THEN {} ELSE freed
    /\ batch' = NoBatch
    /\ UNCHANGED <<dmvars, evicted, quota, victim, data, reportVars, outside, outbox>>

(* maybeEvict: nothing to do until the cache is full. *)
CompleteEnd ==
    /\ pc = "complete" /\ DOMAIN batch = {}
    /\ IF count.buffers < CacheCapacity
       THEN pc' = "select" /\ outside' = outside \cup freed /\ freed' = {}
       ELSE pc' = "idle" /\ UNCHANGED <<outside, freed>>
    /\ batch' = NoBatch
    /\ UNCHANGED <<dmvars, evicted, quota, victim, data, reportVars, outbox>>

(* dm.CheckIdleTriggers: each queue drops its oldest idle trigger while that
   one has expired. *)
HasExpired(q) == idle[q] # <<>> /\ Expired(Back(idle[q]))

CheckIdle(q, f) ==
    /\ pc = "idle" /\ HasExpired(q)
    /\ f = Back(idle[q])
    /\ TimeOut(f)
    /\ UNCHANGED agentVars

(* dm.EvictedTriggeredToCapacity: the largest queue is the victim. *)
Largest == {q \in Queues : \A r \in Queues : qBuffers[r] <= qBuffers[q]}

CheckIdleEnd ==
    /\ pc = "idle" /\ \A q \in Queues : ~HasExpired(q)
    /\ quota' = NumToEvict(count.tbuffers, TriggeredCapacity)
    /\ IF quota' > 0 THEN victim' \in Largest ELSE UNCHANGED victim
    /\ pc' = "evictTriggered"
    /\ UNCHANGED <<dmvars, batch, freed, evicted, data, reportVars, outside, outbox>>

MoreTriggers == Cardinality(evicted) < quota /\ EvictNextOf(victim) # {}

EvictTriggered ==
    /\ pc = "evictTriggered" /\ MoreTriggers
    /\ \E f \in EvictNextOf(victim) :
          /\ EvictTrigger(f)
          /\ evicted' = evicted \cup BuffersOfEviction(f)
    /\ UNCHANGED <<pc, batch, freed, quota, victim, data, reportVars, outside, outbox>>

(* The evicted buffers go back to the pool; dm.EvictToCapacity begins. *)
EvictTriggeredEnd ==
    /\ pc = "evictTriggered" /\ ~MoreTriggers
    /\ outside' = outside \cup evicted
    /\ evicted' = {} /\ victim' = NoQueue
    /\ quota' = NumToEvict(count.buffers, CacheCapacity)
    /\ pc' = "evict"
    /\ UNCHANGED <<dmvars, batch, freed, data, reportVars, outbox>>

MoreTraces == Cardinality(evicted) < quota /\ lru # <<>>

EvictUntriggered(t) ==
    /\ pc = "evict" /\ MoreTraces
    /\ t = Back(lru)
    /\ EvictTrace(t)
    /\ evicted' = evicted \cup buffers[t]
    /\ UNCHANGED <<pc, batch, freed, quota, victim, data, reportVars, outside, outbox>>

EvictEndForgetsFreed ==
    /\ pc = "evict" /\ ~MoreTraces
    /\ outside' = outside \cup evicted
    /\ evicted' = {} /\ freed' = {} /\ quota' = 0
    /\ pc' = "select"
    /\ UNCHANGED <<dmvars, batch, victim, data, reportVars, outbox>>

(* The evicted buffers and those of trace 0 go back to the pool. *)
EvictEnd ==
    /\ pc = "evict" /\ ~MoreTraces
    /\ outside' = outside \cup evicted \cup freed
    /\ evicted' = {} /\ freed' = {} /\ quota' = 0
    /\ pc' = "select"
    /\ UNCHANGED <<dmvars, batch, victim, data, reportVars, outbox>>

-----------------------------------------------------------------------------
(* Triggers T and breadcrumbs C are offered to the channels of the coordinator
   client; what meets a full channel is dropped and counted as such. *)
Forward(T, C) ==
    \E trgs \in {T, {}}, sent \in {C, {}} :
        outbox' = [triggers |-> trgs, breadcrumbs |-> sent,
                   dropped |-> (T \ trgs) \cup (C \ sent)]

(* processBreadcrumbs. *)
ProcessBreadcrumbs(t, C) ==
    /\ pc = "select"
    /\ AddBreadcrumbs(t, C)
    /\ Forward({}, {t} \X CrumbsToReport(t, C))
    /\ UNCHANGED <<pc, loopVars, data, reportVars, outside>>

(* processTriggers: unless the queue's limiter drops it, the trigger is applied
   and forwarded with the breadcrumbs that it releases. *)
ProcessTrigger(x) ==
    /\ pc = "select"
    /\ \/ /\ Trigger(<<x[1], x[2]>>, x[3])
          /\ Forward({x}, {x[3]} \X CrumbsOnTrigger(x[3]))
       \/ UNCHANGED dmvars /\ outbox' = Silent
    /\ UNCHANGED <<pc, loopVars, data, reportVars, outside>>

(* processRemoteTriggers: applied without a limit, not forwarded. *)
ProcessRemoteTrigger(x) ==
    /\ pc = "select"
    /\ Trigger(<<x[1], x[2]>>, x[3])
    /\ Forward({}, {x[3]} \X CrumbsOnTrigger(x[3]))
    /\ UNCHANGED <<pc, loopVars, data, reportVars, outside>>

-----------------------------------------------------------------------------
(* The timer fires with no batch pending: GetNextBatchToReport begins. *)
ReportTimer ==
    /\ pc = "select" /\ data = {}
    /\ pc' = "report"
    /\ outbox' = Silent
    /\ UNCHANGED <<dmvars, loopVars, data, reportVars, outside>>

(* The pending batch goes to the reporting goroutine, and the next is made. *)
ReportSend ==
    /\ pc = "select" /\ data # {} /\ Len(channel) < ChanCap
    /\ channel' = Append(channel, data)
    /\ data' = {}
    /\ pc' = "report"
    /\ outbox' = Silent
    /\ UNCHANGED <<dmvars, loopVars, inflight, connected, outside>>

MoreToReport == Cardinality(data) < BatchSize /\ count.tbuffers > 0

(* getNextBuffersToReport: a queue with buffers that its limiter lets through;
   the order that fair sharing gives the queues is left open. *)
ReportNext(q) ==
    /\ pc = "report" /\ MoreToReport
    /\ qBuffers[q] # 0
    /\ \E f \in ReportNextOf(q) :
          /\ GetBuffersForReport(f)
          /\ data' = data \cup BuffersForReport(f)
    /\ UNCHANGED <<pc, loopVars, reportVars, outside, outbox>>

ReportEnd ==
    /\ pc = "report" /\ ~MoreToReport
    /\ pc' = "select"
    /\ UNCHANGED <<dmvars, loopVars, data, reportVars, outside, outbox>>

(* The reporting goroutine: Dial, and ReportData until an error. *)
Connect ==
    /\ ~connected
    /\ connected' = TRUE
    /\ UNCHANGED <<dmvars, pc, loopVars, data, channel, inflight, outside, outbox>>

ReporterTake ==
    /\ connected /\ inflight = {} /\ channel # <<>>
    /\ inflight' = Head(channel)
    /\ channel' = Tail(channel)
    /\ UNCHANGED <<dmvars, pc, loopVars, data, connected, outside, outbox>>

(* reportData: the buffers are returned whether the write succeeded or not;
   an error ends the connection. *)
ReporterReturn ==
    /\ inflight # {}
    /\ outside' = outside \cup inflight
    /\ inflight' = {}
    /\ connected' \in BOOLEAN
    /\ UNCHANGED <<dmvars, pc, loopVars, data, channel, outbox>>

-----------------------------------------------------------------------------
Handle ==
    \/ Tick
    \/ CompleteBegin
    \/ \E t \in TraceIds, C \in SUBSET Crumbs \ {{}} : ProcessBreadcrumbs(t, C)
    \/ \E x \in Fireable : ProcessTrigger(x) \/ ProcessRemoteTrigger(x)

Continue ==
    \/ \E t \in TraceIds \cup {0} : CompleteEntry(t)
    \/ CompleteEnd
    \/ \E q \in Queues, f \in Triggers : CheckIdle(q, f)
    \/ CheckIdleEnd
    \/ EvictTriggered \/ EvictTriggeredEnd
    \/ \E t \in TraceIds : EvictUntriggered(t)
    \/ EvictEnd
    \/ \E q \in Queues : ReportNext(q)
    \/ ReportEnd

Reporter == Connect \/ ReporterTake \/ ReporterReturn

Next == Handle \/ Continue \/ ReportTimer \/ ReportSend \/ Reporter

Spec == Init /\ [][Next]_vars

(* A handler that has begun runs to its end; Go's select picks at random among
   the ready cases, so a case that is ready again and again is taken; a limiter
   refills; the reporting goroutine runs and the collector can be dialled. *)
Fairness ==
    /\ WF_vars(Continue)
    /\ SF_vars(ReportTimer)
    /\ SF_vars(ReportSend)
    /\ WF_vars(Connect) /\ WF_vars(ReporterTake) /\ WF_vars(ReporterReturn)

FairSpec == Spec /\ Fairness

-----------------------------------------------------------------------------
(* A trace lists a fired trigger exactly when the trigger lists the trace; a
   trace has triggers exactly when it is triggered or reporting, and data only
   when it is untriggered or reporting.  So no RemoveTrigger meets a trace that
   does not know the trigger (the log.Fatal calls of trace.go), and no pointer
   to a deleted trace or trigger is left behind. *)
LinksAgree ==
    /\ \A t \in TraceIds, f \in Triggers : f \in triggers[t] <=> t \in traces[f]
    /\ \A f \in Triggers : firedState[f] = "none" => traces[f] = {}
    /\ \A t \in TraceIds :
          /\ triggers[t] = {} <=> traceState[t] \in Pending
          /\ traceState[t] \in {"none", "triggered"} => buffers[t] = {}
          /\ traceState[t] = "reporting" => buffers[t] # {}

(* An idle trigger has no pending data: all its traces have given up their
   buffers.  checkTimeout relies on it when it throws away what RemoveTrigger
   returns ("Shouldn't return any buffers"). *)
IdleHoldsNoData ==
    \A f \in Triggers : firedState[f] = "idle" => \A t \in traces[f] : buffers[t] = {}

Occurrences(s, x) == Cardinality({i \in DOMAIN s : s[i] = x})

(* The reporting tree of a queue holds every reporting trigger once and no other,
   the idle list every idle trigger once and no other, the LRU list every
   untriggered trace once and no other.  So popping never meets a trigger that
   queue.fired does not have (a nil dereference in EvictToCapacity), and a queue
   that still counts buffers has something to pop (PopMin of an empty tree
   panics). *)
ListsExact ==
    /\ \A f \in Triggers :
          /\ reporting[f] = If(firedState[f] = "reporting", 1)
          /\ \A q \in Queues : Occurrences(idle[q], f)
                                 = If(firedState[f] = "idle" /\ QueueOf(f) = q, 1)
    /\ \A t \in TraceIds : Occurrences(lru, t) = If(traceState[t] = "untriggered", 1)
    /\ \A q \in Queues : qBuffers[q] # 0 => EvictNextOf(q) # {}
    /\ count.tbuffers > 0 => \E q \in Queues : qBuffers[q] > 0

Untriggered == {t \in TraceIds : traceState[t] = "untriggered"}
Triggered == {t \in TraceIds : traceState[t] \in {"triggered", "reporting"}}

\* the traces of the triggers of q, and their buffers, each once per trigger
LinksOf(q) == {x \in OfQueue(q) \X TraceIds : x[2] \in traces[x[1]]}
SharesOf(q) == {x \in OfQueue(q) \X Held(TraceIds) : x[2][1] \in traces[x[1]]}

(* The counters that the operations maintain step by step are what a recount
   would give: of buffers per trigger and per queue (a trace counts once for
   each of its triggers), and of traces and buffers by state.  So the "Buffers
   remain" checks of firedtrigger.go never fire, and the eviction thresholds are
   compared with true sizes. *)
CountersExact ==
    /\ \A f \in Triggers : bufferCount[f] = Size(traces[f])
    /\ \A q \in Queues :
          /\ qBuffers[q] = Cardinality(SharesOf(q))
          /\ qTraces[q] = Cardinality(LinksOf(q))
    /\ count = [traces  |-> Cardinality(Untriggered \cup Triggered),
                buffers |-> Size(Untriggered \cup Triggered),
                utraces |-> Cardinality(Untriggered), ubuffers |-> Size(Untriggered),
                ttraces |-> Cardinality(Triggered), tbuffers |-> Size(Triggered)]

\* in how many places buffer b is
Holders(b) ==
    Cardinality({t \in TraceIds : b \in buffers[t]})
    + Cardinality({t \in DOMAIN batch : b \in batch[t]})
    + Cardinality({i \in DOMAIN channel : b \in channel[i]})
    + If(b \in freed, 1) + If(b \in evicted, 1) + If(b \in data, 1)
    + If(b \in inflight, 1) + If(b \in outside, 1)

(* Every buffer of the pool is in exactly one place at every moment: no handler
   leaks a buffer, and none is freed, reported or indexed twice. *)
BuffersConserved == \A b \in Buffers : Holders(b) = 1

(* Between handlers, the index is within the cache capacity or holds triggered
   data only: maybeEvict never leaves untriggered data above the threshold. *)
CapacityEnforced ==
    pc = "select" => (count.buffers <= CacheCapacity \/ count.ubuffers = 0)

(* No untriggered trace is older than the event horizon: eviction takes the
   traces in the order of their last modification, whatever mix of buffers,
   breadcrumbs and triggers touched them, so the horizon reported by maybeEvict
   really separates what is kept from what is lost. *)
HorizonSound ==
    \A t \in TraceIds : traceState[t] = "untriggered" => lastModified[t] >= eventHorizon

(* After CheckIdleTriggers no idle trigger is past its timeout, although it only
   looks at the back of each idle list and stops at the first survivor. *)
NoExpiredIdle ==
    pc \in {"evictTriggered", "evict"} =>
        \A f \in Triggers : firedState[f] = "idle" => ~Expired(f)

(* A trace that becomes triggered, by a local or a remote trigger, with or without
   data, gives up all the breadcrumbs it has gathered in that same step: they are
   handed to the coordinator client, or dropped because its channel is full and
   counted; none stays with the trace, where nobody would look again. *)
CrumbsFollowTrigger ==
    [][\A t \in TraceIds :
          (traceState[t] = "untriggered" /\ traceState'[t] \in {"triggered", "reporting"})
          => /\ breadcrumbs'[t] = {}
             /\ {t} \X breadcrumbs[t] \subseteq outbox'.breadcrumbs \cup outbox'.dropped]_vars

(* If the clients have run out of buffers, some buffer comes back to them: the
   agent evicts, or reports and returns, what it holds.  maybeEvict runs only
   when buffers complete, so this rests on the report loop alone. *)
BuffersComeBack == (outside = {}) ~> (outside # {})
=============================================================================
