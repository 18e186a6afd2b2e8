----------------------------- MODULE Coordinator -----------------------------
(***************************************************************************)
(* The coordinator: agent/pkg/coordinator/coordinator.go and the request   *)
(* handlers of server.go, run by the one goroutine of runCoordinator.      *)
(*                                                                         *)
(* Agents report triggers and breadcrumbs; the coordinator links triggers  *)
(* and traces, remembers the agents where each is known, and forwards a    *)
(* trigger to the agents that its traces visited.  told records, for every *)
(* agent, the <<trigger, trace>> pairs that it fired itself or that were   *)
(* put on its outgoing channel; the delivery is not part of this module.   *)
(*                                                                         *)
(* A request is processed item by item (pc = "items") and ends with        *)
(* checkExpirations (pc = "traces", then "triggers").  A breadcrumb        *)
(* request with an address that the agent never announced is refused as a  *)
(* whole: it reads the clock and expires nothing.                          *)
(***************************************************************************)
EXTENDS Integers, Sequences, FiniteSets, Lists

CONSTANTS
    Agents,    \* addresses of agents
    TraceIds,
    Fireable,  \* the <<trigger, trace>> pairs that agents fire
    Timeout,   \* -cs.timeout, in clock ticks
    MaxTime    \* bound on the clock

ASSUME TimesPositive == Timeout \in Nat \ {0} /\ MaxTime \in Nat
ASSUME FireableTraces == \A x \in Fireable : x[2] \in TraceIds
ASSUME AgentsFinite == IsFiniteSet(Agents)

VARIABLES
    now,          \* c.now
    traces,       \* the keys of c.traces
    triggers,     \* the keys of c.triggers
    traceKnown,   \* trace -> known_at
    triggerKnown, \* trigger -> known_at
    traceLinks,   \* trace -> its triggers
    triggerLinks, \* trigger -> its traces
    traceMod,     \* trace -> last_modified
    triggerMod,   \* trigger -> last_modified
    traceLru,     \* c.trace_lru, front first
    triggerLru,   \* c.trigger_lru, front first
    told,         \* agent -> the pairs it fired or was sent
    pc, req       \* progress of the request, and its kind and source

traceVars == <<traces, traceKnown, traceLinks, traceMod, traceLru>>
triggerVars == <<triggers, triggerKnown, triggerLinks, triggerMod, triggerLru>>
vars == <<now, traceVars, triggerVars, told, pc, req>>

Triggers == {x[1] : x \in Fireable}
NoRequest == [kind |-> "none", src |-> "none"]

Init ==
    /\ now = 0
    /\ traces = {} /\ triggers = {}
    /\ traceKnown = [t \in TraceIds |-> {}] /\ triggerKnown = [f \in Triggers |-> {}]
    /\ traceLinks = [t \in TraceIds |-> {}] /\ triggerLinks = [f \in Triggers |-> {}]
    /\ traceMod = [t \in TraceIds |-> 0] /\ triggerMod = [f \in Triggers |-> 0]
    /\ traceLru = <<>> /\ triggerLru = <<>>
    /\ told = [a \in Agents |-> {}]
    /\ pc = "select" /\ req = NoRequest

-----------------------------------------------------------------------------
ToFrontIfAbsent(lru, seq) == Without(seq, Range(lru)) \o lru

\* PushFront or MoveToFront of the elements of seq, from its last to its first
ToFront(lru, seq) == seq \o Without(lru, Range(seq))

\* c.now = time.Now()
ReadClock == now' \in now .. MaxTime

(* processTriggersRequest begins, or processBreadcrumbRequest with a request whose
   addresses are all known. *)
Receive(kind, a) ==
    /\ pc = "select"
    /\ ReadClock
    /\ pc' = "items"
    /\ req' = [kind |-> kind, src |-> a]
    /\ UNCHANGED <<traceVars, triggerVars, told>>

(* processBreadcrumbRequest meets an addr_id that is in no id_to_addr and returns
   the error, before it has stored any breadcrumb and without checkExpirations. *)
Refuse ==
    /\ pc = "select"
    /\ ReadClock
    /\ UNCHANGED <<traceVars, triggerVars, told, pc, req>>

AttachForgetsWhereTraceIs(src, f, t) ==
    LET known == triggerKnown[f] \cup {src}
    IN  /\ triggerLinks' = [triggerLinks EXCEPT ![f] = @ \cup {t}]
        /\ traceLinks' = [traceLinks EXCEPT ![t] = @ \cup {f}]
        /\ triggerKnown' = [triggerKnown EXCEPT ![f] = known]
        /\ traceKnown' = [traceKnown EXCEPT ![t] = @ \cup {src}]
        /\ told' = [a \in Agents |-> IF a \in known THEN told[a] \cup {<<f, t>>} ELSE told[a]]
        /\ traces' = traces \cup {t}
        /\ traceMod' = [traceMod EXCEPT ![t] = now]
        /\ traceLru' = ToFront(traceLru, <<t>>)

(* AddTrigger for a trace that is not attached to the trigger yet: link the two,
   make the trigger known where the trace is, and forward the trigger of the
   request, with the trace of the request, to all of these but the source. *)
Attach(src, f, t) ==
    LET known == triggerKnown[f] \cup {src} \cup traceKnown[t]
    IN  /\ triggerLinks' = [triggerLinks EXCEPT ![f] = @ \cup {t}]
        /\ traceLinks' = [traceLinks EXCEPT ![t] = @ \cup {f}]
        /\ triggerKnown' = [triggerKnown EXCEPT ![f] = known]
        /\ traceKnown' = [traceKnown EXCEPT ![t] = @ \cup {src}]
        /\ told' = [a \in Agents |-> IF a \in known THEN told[a] \cup {<<f, t>>} ELSE told[a]]
        /\ traces' = traces \cup {t}
        /\ traceMod' = [traceMod EXCEPT ![t] = now]
        /\ traceLru' = ToFront(traceLru, <<t>>)

AddTrigger(src, f, t) ==
    /\ pc = "items" /\ req = [kind |-> "triggers", src |-> src]
    /\ triggers' = triggers \cup {f}
    /\ triggerMod' = [triggerMod EXCEPT ![f] = now]
    /\ triggerLru' = ToFront(triggerLru, <<f>>)
    /\ \/ t \notin triggerLinks[f] /\ Attach(src, f, t)
       \/ /\ t \in triggerLinks[f]
          /\ triggerKnown' = [triggerKnown EXCEPT ![f] = @ \cup {src}]
          /\ told' = [told EXCEPT ![src] = @ \cup {<<f, t>>}]
          /\ UNCHANGED <<traceVars, triggerLinks>>
    /\ UNCHANGED <<now, pc, req>>

(* AddBreadcrumb: at every address where the trace was not known, the triggers of
   the trace that are not known there are disseminated with all their traces. *)
AddBreadcrumb(src, t, addrs) ==
    LET new     == (addrs \cup {src}) \ traceKnown[t]
        Send(a) == {f \in traceLinks[t] : a \notin triggerKnown[f]}
    IN  /\ pc = "items" /\ req = [kind |-> "breadcrumbs", src |-> src]
        /\ told' = [a \in Agents |->
                       IF a \in new
                       THEN told[a] \cup UNION {{f} \X triggerLinks[f] : f \in Send(a)}
                       ELSE told[a]]
        /\ triggerKnown' = [f \in Triggers |->
                               IF f \in traceLinks[t] THEN triggerKnown[f] \cup new
                                                      ELSE triggerKnown[f]]
        /\ traceKnown' = [traceKnown EXCEPT ![t] = @ \cup new]
        /\ triggerMod' = [f \in Triggers |-> IF f \in traceLinks[t] THEN now ELSE triggerMod[f]]
        /\ \E seq \in Orders(traceLinks[t]) : triggerLru' = ToFront(triggerLru, seq)
        /\ traces' = traces \cup {t}
        /\ traceMod' = [traceMod EXCEPT ![t] = now]
        /\ traceLru' = ToFront(traceLru, <<t>>)
        /\ UNCHANGED <<now, triggers, traceLinks, triggerLinks, pc, req>>

(* The items of the request are done; checkExpirations begins. *)
ItemsEnd ==
    /\ pc = "items"
    /\ ReadClock
    /\ pc' = "traces"
    /\ UNCHANGED <<traceVars, triggerVars, told, req>>

-----------------------------------------------------------------------------
Expired(mod) == mod + Timeout <= now

\* what popping the back of lru while it has expired removes
Stale(lru, mod) ==
    {lru[i] : i \in {j \in DOMAIN lru : \A k \in j .. Len(lru) : Expired(mod[lru[k]])}}

ExpireTracesWithoutUnlinking ==
    LET gone == Stale(traceLru, traceMod)
    IN  /\ pc = "traces"
        /\ traces' = traces \ gone
        /\ traceLru' = Without(traceLru, gone)
        /\ traceKnown' = [t \in TraceIds |-> IF t \in gone THEN {} ELSE traceKnown[t]]
        /\ traceLinks' = [t \in TraceIds |-> IF t \in gone THEN {} ELSE traceLinks[t]]
        /\ traceMod' = [t \in TraceIds |-> IF t \in gone THEN 0 ELSE traceMod[t]]
        /\ pc' = "triggers"
        /\ UNCHANGED <<now, triggerVars, told, req>>

(* checkTraceExpiration. *)
ExpireTraces ==
    LET gone == Stale(traceLru, traceMod)
    IN  /\ pc = "traces"
        /\ triggerLinks' = [f \in Triggers |->
                triggerLinks[f] \ {t \in gone : f \in traceLinks[t]}]
        /\ traces' = traces \ gone
        /\ traceLru' = Without(traceLru, gone)
        /\ traceKnown' = [t \in TraceIds |-> IF t \in gone THEN {} ELSE traceKnown[t]]
        /\ traceLinks' = [t \in TraceIds |-> IF t \in gone THEN {} ELSE traceLinks[t]]
        /\ traceMod' = [t \in TraceIds |-> IF t \in gone THEN 0 ELSE traceMod[t]]
        /\ pc' = "triggers"
        /\ UNCHANGED <<now, triggers, triggerKnown, triggerMod, triggerLru, told, req>>

(* checkTriggerExpiration, and the answer to the request. *)
ExpireTriggers ==
    LET gone == Stale(triggerLru, triggerMod)
    IN  /\ pc = "triggers"
        /\ traceLinks' = [t \in TraceIds |->
                traceLinks[t] \ {f \in gone : t \in triggerLinks[f]}]
        /\ triggers' = triggers \ gone
        /\ triggerLru' = Without(triggerLru, gone)
        /\ triggerKnown' = [f \in Triggers |-> IF f \in gone THEN {} ELSE triggerKnown[f]]
        /\ triggerLinks' = [f \in Triggers |-> IF f \in gone THEN {} ELSE triggerLinks[f]]
        /\ triggerMod' = [f \in Triggers |-> IF f \in gone THEN 0 ELSE triggerMod[f]]
        /\ pc' = "select" /\ req' = NoRequest
        /\ UNCHANGED <<now, traces, traceKnown, traceMod, traceLru, told>>

Next ==
    \/ \E kind \in {"triggers", "breadcrumbs"}, a \in Agents : Receive(kind, a)
    \/ \E a \in Agents, x \in Fireable : AddTrigger(a, x[1], x[2])
    \/ \E a \in Agents, t \in TraceIds, addrs \in SUBSET Agents \ {{}} :
          AddBreadcrumb(a, t, addrs)
    \/ Refuse \/ ItemsEnd \/ ExpireTraces \/ ExpireTriggers

Spec == Init /\ [][Next]_vars

-----------------------------------------------------------------------------
Pairs == Triggers \X TraceIds

TypeOK ==
    /\ now \in 0 .. MaxTime
    /\ traces \subseteq TraceIds /\ triggers \subseteq Triggers
    /\ traceKnown \in [TraceIds -> SUBSET Agents]
    /\ triggerKnown \in [Triggers -> SUBSET Agents]
    /\ traceLinks \in [TraceIds -> SUBSET Triggers]
    /\ triggerLinks \in [Triggers -> SUBSET TraceIds]
    /\ traceMod \in [TraceIds -> 0 .. now]
    /\ triggerMod \in [Triggers -> 0 .. now]
    /\ told \in [Agents -> SUBSET Pairs]
    /\ pc \in {"select", "items", "traces", "triggers"}
    /\ req.kind \in {"none", "triggers", "breadcrumbs"}

(* A trace links to a trigger exactly when the trigger links to the trace, and only
   entries that the coordinator still has are linked: the expiration of either
   side, in whichever order the two time out, leaves no pointer to an entry that is
   gone, through which AddBreadcrumb would revive or disseminate it. *)
LinksAgree ==
    /\ \A t \in TraceIds, f \in Triggers : f \in traceLinks[t] <=> t \in triggerLinks[f]
    /\ \A t \in TraceIds \ traces : traceLinks[t] = {} /\ traceKnown[t] = {}
    /\ \A f \in Triggers \ triggers : triggerLinks[f] = {} /\ triggerKnown[f] = {}

\* every entry of the two maps is in its LRU list, once
ListsComplete ==
    /\ Range(traceLru) = traces /\ Len(traceLru) = Cardinality(traces)
    /\ Range(triggerLru) = triggers /\ Len(triggerLru) = Cardinality(triggers)

NoneExpired ==
    /\ \A t \in traces : ~Expired(traceMod[t])
    /\ \A f \in triggers : ~Expired(triggerMod[f])

(* The expiration loops look only at the back of an LRU list and stop at the first
   survivor; still, when a processed request is answered, no trace or trigger is
   left that has expired, however many the refused requests before it had left
   behind, and after every request each entry is in its list, once. *)
ExpiredAreGone ==
    [][pc' = "select" => /\ ListsComplete'
                         /\ pc = "triggers" => NoneExpired']_vars

(* Every agent where a triggered trace is known has fired, or has been sent, a
   trigger for that trace, so the trace's data is collected there: whichever of
   trigger and breadcrumbs comes first, and whatever has expired in between. *)
CollectedWhereKnown ==
    \A t \in TraceIds, a \in Agents :
        (traceLinks[t] # {} /\ a \in traceKnown[t]) => \E f \in Triggers : <<f, t>> \in told[a]
=============================================================================
