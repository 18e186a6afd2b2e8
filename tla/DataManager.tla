----------------------------- MODULE DataManager -----------------------------
(***************************************************************************)
(* The agent's index of trace data: agent/pkg/agent/{datamanager,trace,    *)
(* firedtrigger,triggerqueue}.go.                                          *)
(*                                                                         *)
(* A trace is untriggered, triggered (no data pending) or reporting (data  *)
(* pending); "none" is a trace that dm.traces does not hold.  A fired      *)
(* trigger, identified by its queue and its base trace id, is idle or      *)
(* reporting; "none" is one that queue.fired does not hold.  The counters  *)
(* that the code maintains incrementally are variables of their own.       *)
(*                                                                         *)
(* Every operator with primed variables below assigns all of dmvars; the   *)
(* module Agent composes them into the handlers of the processing loop.    *)
(***************************************************************************)
EXTENDS Integers, Sequences, FiniteSets, Lists

CONSTANTS
    TraceIds,   \* trace ids, nonzero
    Queues,     \* trigger queue ids
    Fireable,   \* the <<queue, base trace, trace>> that clients and peers fire
    Buffers,    \* ids of the buffers of the pool
    Crumbs,     \* breadcrumb addresses
    Timeout     \* trigger_timeout, in clock ticks

ASSUME TraceIdsPositive == TraceIds \subseteq Nat \ {0}
ASSUME FireableTyped == Fireable \subseteq Queues \X TraceIds \X TraceIds
ASSUME TimeoutNat == Timeout \in Nat
\* all ids are integers of a fixed width
ASSUME IdsFinite == IsFiniteSet(TraceIds) /\ IsFiniteSet(Queues)
ASSUME BuffersFinite == IsFiniteSet(Buffers)

VARIABLES
    traceState,   \* trace id -> dynamic type of trace.state
    buffers,      \* trace id -> buffers held by the trace
    breadcrumbs,  \* trace id -> breadcrumbs held by an untriggered trace
    triggers,     \* trace id -> the fired triggers that include the trace
    lastModified, \* trace id -> last_modified of an untriggered trace
    lru,          \* dm.untriggered.lru, front first
    firedState,   \* trigger -> dynamic type of fired.state
    traces,       \* trigger -> fired.traces
    bufferCount,  \* trigger -> fired.buffer_count
    idleSince,    \* trigger -> last_modified of an idle trigger
    reporting,    \* trigger -> number of times queue.reporting holds it
    idle,         \* queue -> queue.idle, front first
    qBuffers,     \* queue -> queue.buffer_count
    qTraces,      \* queue -> queue.trace_count
    count,        \* the counters of dm, dm.untriggered and dm.triggered
    eventHorizon, \* dm.untriggered.event_horizion
    now           \* dm.now

traceVars == <<traceState, buffers, breadcrumbs, triggers, lastModified, lru, eventHorizon>>
firedVars == <<firedState, traces, bufferCount, idleSince, reporting, idle, qBuffers, qTraces>>
dmvars == <<traceVars, firedVars, count, now>>

\* TriggerID: the queue and the base trace id of a fired trigger
Triggers == {<<x[1], x[2]>> : x \in Fireable}
QueueOf(f) == f[1]
BaseOf(f) == f[2]

Pending == {"none", "untriggered"}   \* states in which a trace has no trigger

OfQueue(q) == {f \in Triggers : QueueOf(f) = q}

\* the buffers that the traces of T hold, with the trace, and their number
Held(T) == {p \in T \X Buffers : p[2] \in buffers[p[1]]}
Size(T) == Cardinality(Held(T))
If(b, x) == IF b THEN x ELSE 0

DMInit ==
    /\ traceState = [t \in TraceIds |-> "none"]
    /\ buffers = [t \in TraceIds |-> {}]
    /\ breadcrumbs = [t \in TraceIds |-> {}]
    /\ triggers = [t \in TraceIds |-> {}]
    /\ lastModified = [t \in TraceIds |-> 0]
    /\ lru = <<>>
    /\ firedState = [f \in Triggers |-> "none"]
    /\ traces = [f \in Triggers |-> {}]
    /\ bufferCount = [f \in Triggers |-> 0]
    /\ idleSince = [f \in Triggers |-> 0]
    /\ reporting = [f \in Triggers |-> 0]
    /\ idle = [q \in Queues |-> <<>>]
    /\ qBuffers = [q \in Queues |-> 0]
    /\ qTraces = [q \in Queues |-> 0]
    /\ count = [traces |-> 0, buffers |-> 0, utraces |-> 0, ubuffers |-> 0,
                ttraces |-> 0, tbuffers |-> 0]
    /\ eventHorizon = 0
    /\ now = 0

-----------------------------------------------------------------------------
BuffersAddedWithoutWaking(F, n, st, idl) ==
    /\ bufferCount' = [f \in Triggers |-> bufferCount[f] + If(f \in F, n)]
    /\ qBuffers' = [q \in Queues |->
                       qBuffers[q] + n * Cardinality({f \in F : QueueOf(f) = q})]
    /\ firedState' = st /\ idle' = idl
    /\ UNCHANGED reporting
BuffersAddedOncePerQueue(F, n, st, idl) ==
    /\ bufferCount' = [f \in Triggers |-> bufferCount[f] + If(f \in F, n)]
    /\ qBuffers' = [q \in Queues |-> qBuffers[q] + If(\E f \in F : QueueOf(f) = q, n)]
    /\ firedState' = [f \in Triggers |-> IF f \in F THEN "reporting" ELSE st[f]]
    /\ reporting' = [f \in Triggers |->
                        reporting[f] + If(f \in F /\ st[f] = "idle", 1)]
    /\ idle' = [q \in Queues |-> Without(idl[q], {f \in F : st[f] = "idle"})]

(* fired.buffersAdded(n) for every trigger of F, from the trigger states st
   and idle lists idl: an idle trigger leaves the idle list and enters the
   queue's reporting tree. *)
BuffersAdded(F, n, st, idl) ==
    /\ bufferCount' = [f \in Triggers |-> bufferCount[f] + If(f \in F, n)]
    /\ qBuffers' = [q \in Queues |->
                       qBuffers[q] + n * Cardinality({f \in F : QueueOf(f) = q})]
    /\ firedState' = [f \in Triggers |-> IF f \in F THEN "reporting" ELSE st[f]]
    /\ reporting' = [f \in Triggers |->
                        reporting[f] + If(f \in F /\ st[f] = "idle", 1)]
    /\ idle' = [q \in Queues |-> Without(idl[q], {f \in F : st[f] = "idle"})]

(* dm.AddBuffers on a trace that is new or untriggered: accumulate. *)
AddBuffersUntriggered(t, B) ==
    /\ traceState[t] \in Pending
    /\ traceState' = [traceState EXCEPT ![t] = "untriggered"]
    /\ buffers' = [buffers EXCEPT ![t] = @ \cup B]
    /\ lastModified' = [lastModified EXCEPT ![t] = now]
    /\ lru' = MoveToFront(lru, t)
    /\ LET new == If(traceState[t] = "none", 1) IN
       count' = [count EXCEPT !.traces = @ + new, !.utraces = @ + new,
                              !.buffers = @ + Cardinality(B),
                              !.ubuffers = @ + Cardinality(B)]
    /\ UNCHANGED <<breadcrumbs, triggers, eventHorizon, firedVars, now>>

(* dm.AddBuffers on a triggered or reporting trace: the data is pending, and
   every trigger of the trace is told so. *)
AddBuffersTriggered(t, B) ==
    /\ traceState[t] \notin Pending
    /\ traceState' = [traceState EXCEPT ![t] = "reporting"]
    /\ buffers' = [buffers EXCEPT ![t] = @ \cup B]
    /\ BuffersAdded(triggers[t], Cardinality(B), firedState, idle)
    /\ count' = [count EXCEPT !.buffers = @ + Cardinality(B),
                              !.tbuffers = @ + Cardinality(B)]
    /\ UNCHANGED <<breadcrumbs, triggers, lastModified, lru, eventHorizon,
                   traces, idleSince, qTraces, now>>

AddBuffers(t, B) == AddBuffersUntriggered(t, B) \/ AddBuffersTriggered(t, B)

(* dm.AddBreadcrumbs: kept by an untriggered trace, returned at once by any
   other. *)
AddBreadcrumbs(t, C) ==
    \/ /\ traceState[t] \in Pending
       /\ traceState' = [traceState EXCEPT ![t] = "untriggered"]
       /\ breadcrumbs' = [breadcrumbs EXCEPT ![t] = @ \cup C]
       /\ lastModified' = [lastModified EXCEPT ![t] = now]
       /\ lru' = MoveToFront(lru, t)
       /\ LET new == If(traceState[t] = "none", 1) IN
          count' = [count EXCEPT !.traces = @ + new, !.utraces = @ + new]
       /\ UNCHANGED <<buffers, triggers, eventHorizon, firedVars, now>>
    \/ /\ traceState[t] \notin Pending
       /\ UNCHANGED dmvars

\* the breadcrumbs that AddBreadcrumbs and Trigger return for reporting
CrumbsToReport(t, C) == IF traceState[t] \in Pending THEN {} ELSE C
CrumbsOnTriggerIfEmpty(t) ==
    IF traceState[t] \in Pending /\ buffers[t] = {} THEN breadcrumbs[t] ELSE {}
CrumbsOnTrigger(t) == IF traceState[t] \in Pending THEN breadcrumbs[t] ELSE {}

(* dm.Trigger(queue, base, {t}): getOrCreateTrigger, getOrCreateTrace, AddTrace
   and addTrigger of the trace's state. *)
Trigger(f, t) ==
    LET fresh == firedState[f] = "none"
        st    == [firedState EXCEPT ![f] = IF fresh THEN "idle" ELSE @]
        idl   == [idle EXCEPT ![QueueOf(f)] = IF fresh THEN PushFront(@, f) ELSE @]
        n     == Cardinality(buffers[t])
        new   == f \notin triggers[t]
        moved == traceState[t] \in Pending
    IN  /\ traceState' = [traceState EXCEPT ![t] = IF n > 0 THEN "reporting" ELSE "triggered"]
        /\ triggers' = [triggers EXCEPT ![t] = @ \cup {f}]
        /\ traces' = [traces EXCEPT ![f] = @ \cup {t}]
        /\ breadcrumbs' = [breadcrumbs EXCEPT ![t] = {}]
        /\ lru' = Without(lru, {t})
        /\ idleSince' = [idleSince EXCEPT ![f] = IF fresh THEN now ELSE @]
        /\ qTraces' = [qTraces EXCEPT ![QueueOf(f)] = @ + If(new, 1)]
        /\ BuffersAdded(IF new /\ n > 0 THEN {f} ELSE {}, n, st, idl)
        /\ count' = [count EXCEPT
                       !.traces   = @ + If(traceState[t] = "none", 1),
                       !.utraces  = @ - If(traceState[t] = "untriggered", 1),
                       !.ubuffers = @ - If(moved, n),
                       !.ttraces  = @ + If(moved, 1),
                       !.tbuffers = @ + If(moved, n)]
        /\ lastModified' = [lastModified EXCEPT ![t] = 0]
        /\ UNCHANGED <<buffers, eventHorizon, now>>

(* takeBuffers of an untriggered trace: the trace is evicted. *)
EvictTrace(t) ==
    /\ traceState[t] = "untriggered"
    /\ traceState' = [traceState EXCEPT ![t] = "none"]
    /\ buffers' = [buffers EXCEPT ![t] = {}]
    /\ breadcrumbs' = [breadcrumbs EXCEPT ![t] = {}]
    /\ lru' = Without(lru, {t})
    /\ eventHorizon' = lastModified[t]
    /\ lastModified' = [lastModified EXCEPT ![t] = 0]
    /\ LET n == Cardinality(buffers[t]) IN
       count' = [count EXCEPT !.traces = @ - 1, !.utraces = @ - 1,
                              !.buffers = @ - n, !.ubuffers = @ - n]
    /\ UNCHANGED <<triggers, firedVars, now>>

-----------------------------------------------------------------------------
\* PopMin and PopNearMax: the lowest base id, and an arbitrary element
ReportNextOf(q) ==
    {f \in Triggers : /\ QueueOf(f) = q
                      /\ reporting[f] > 0
                      /\ \A g \in Triggers :
                           (QueueOf(g) = q /\ reporting[g] > 0) => BaseOf(f) <= BaseOf(g)}
EvictNextOf(q) == {f \in Triggers : QueueOf(f) = q /\ reporting[f] > 0}

\* the buffers GetBuffersForReport collects from the traces of f
BuffersForReport(f) == UNION {buffers[t] : t \in traces[f]}

\* the buffers that the traces of f hold, each once for every trigger in F that
\* the trace tells of their leaving
Told(f, F) == {x \in F \X Held(traces[f]) : x[1] \in triggers[x[2][1]]}

(* queue.ReportNext popping f, and reportingTrigger.getBuffersForReport: every
   trace of f gives its buffers up and tells all of its triggers; f is idle. *)
GetBuffersForReport(f) ==
    /\ firedState[f] = "reporting"
    /\ traceState' = [t \in TraceIds |->
                         IF t \in traces[f] THEN "triggered" ELSE traceState[t]]
    /\ buffers' = [t \in TraceIds |-> IF t \in traces[f] THEN {} ELSE buffers[t]]
    /\ bufferCount' = [g \in Triggers |-> bufferCount[g] - Cardinality(Told(f, {g}))]
    /\ qBuffers' = [q \in Queues |-> qBuffers[q] - Cardinality(Told(f, OfQueue(q)))]
    /\ count' = [count EXCEPT !.buffers = @ - Size(traces[f]),
                              !.tbuffers = @ - Size(traces[f])]
    /\ reporting' = [reporting EXCEPT ![f] = @ - 1]
    /\ firedState' = [firedState EXCEPT ![f] = "idle"]
    /\ idle' = [idle EXCEPT ![QueueOf(f)] = PushFront(@, f)]
    /\ idleSince' = [idleSince EXCEPT ![f] = now]
    /\ UNCHANGED <<breadcrumbs, triggers, lastModified, lru, eventHorizon,
                   traces, qTraces, now>>

AllOfTrigger(f) == traces[f]

\* the traces that f alone keeps; RemoveTrigger deletes them
OnlyTrigger(f) == {t \in traces[f] : triggers[t] = {f}}

(* RemoveTrigger for every trace of f, and the deletion of f from queue.fired. *)
Unhook(f) ==
    LET gone == OnlyTrigger(f)
    IN  /\ traceState' = [t \in TraceIds |-> IF t \in gone THEN "none" ELSE traceState[t]]
        /\ buffers' = [t \in TraceIds |-> IF t \in gone THEN {} ELSE buffers[t]]
        /\ triggers' = [t \in TraceIds |->
                           IF t \in traces[f] THEN triggers[t] \ {f} ELSE triggers[t]]
        /\ traces' = [traces EXCEPT ![f] = {}]
        /\ firedState' = [firedState EXCEPT ![f] = "none"]
        /\ bufferCount' = [bufferCount EXCEPT ![f] = @ - Size(traces[f])]
        /\ qBuffers' = [qBuffers EXCEPT ![QueueOf(f)] = @ - Size(traces[f])]
        /\ qTraces' = [qTraces EXCEPT ![QueueOf(f)] = @ - Cardinality(traces[f])]
        /\ count' = [count EXCEPT !.traces = @ - Cardinality(gone),
                                  !.ttraces = @ - Cardinality(gone),
                                  !.buffers = @ - Size(gone),
                                  !.tbuffers = @ - Size(gone)]
        /\ idleSince' = [idleSince EXCEPT ![f] = 0]
        /\ UNCHANGED <<breadcrumbs, lastModified, lru, eventHorizon, now>>

\* the buffers that evicting f releases
BuffersOfEviction(f) == UNION {buffers[t] : t \in OnlyTrigger(f)}

(* fired.Evict of a trigger popped from the reporting tree. *)
EvictTrigger(f) ==
    /\ firedState[f] = "reporting"
    /\ Unhook(f)
    /\ reporting' = [reporting EXCEPT ![f] = @ - 1]
    /\ UNCHANGED idle

Expired(f) == idleSince[f] + Timeout <= now

(* idleTrigger.checkTimeout of the oldest idle trigger, when it has expired.
   Buffers its traces give back, if any, are dropped. *)
TimeOut(f) ==
    /\ firedState[f] = "idle"
    /\ Expired(f)
    /\ Unhook(f)
    /\ idle' = [idle EXCEPT ![QueueOf(f)] = Without(@, {f})]
    /\ UNCHANGED reporting
=============================================================================
