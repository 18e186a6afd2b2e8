# Hindsight in TLA+

Hindsight records trace data in shared memory on every machine and collects it only
for the traces that a *trigger* names. This directory models the parts of it whose
correctness depends on interleavings, order and bookkeeping; TLC checks small
instances and TLAPS proves the central facts for every instance.

## 1. The system

| Part | Where | State | Operations |
|---|---|---|---|
| Shared-memory queue | `client/src/queue.c` | `head`, `tail`, a status word and bytes per slot | put and get; blocking or not; single or batch |
| Client buffers, trace state | `client/src/buffer.c`, `tracestate.c`, `hindsight.c` | a buffer and a header per thread | begin, write, end, attach, detach, acquire, return |
| Client triggers, breadcrumbs | `client/src/trigger.c`, `breadcrumb.c` | – | fire, breadcrumb (non-blocking puts) |
| Agent memory access | `agent/pkg/memory/memory.go` | four mapped queues, channels | poll loops, return of buffers |
| Partial priority tree | `agent/pkg/util/partialprioritytree.go` | a lazily sorted tree of trigger ids | insert, pop the least, pop near the greatest |
| Data manager | `agent/pkg/agent/datamanager.go`, `trace.go`, `firedtrigger.go`, `triggerqueue.go` | traces, fired triggers, LRU and idle lists, reporting trees, counters | add buffers or breadcrumbs, trigger, report, evict, time out |
| Processing loop | `agent/pkg/agent/agent.go` | batch to report, timer | the cases of one `select` |
| Trigger manager | `agent/pkg/agent/triggermanager.go` | limiters, virtual times | next batch to report |
| Reporting | `agent/pkg/agent/reporting.go` | connection, channel | dial, send, return buffers |
| Coordinator client | `agent/pkg/agent/coordinator.go` | stream state, address ids | send triggers and breadcrumbs, receive remote triggers |
| Coordinator | `agent/pkg/coordinator/coordinator.go`, `server.go` | traces, triggers, links, `known_at`, LRU lists | add trigger, add breadcrumb, expire, disseminate |
| Collector | `agent/pkg/collector` | connections, a file | receive, write |
| Delayer, telemetry, metrics, command lines | the rest | queue of delayed triggers; counters | – |

How they interact. The agent puts free buffer ids in the *available* queue. A client
thread takes one, fills it, and puts it in the *complete* queue; with none available it
writes to a null buffer and the data is lost. Client threads also put triggers and
breadcrumbs (addresses of the machines a request came from or went to) in two more
queues. The agent's processing loop indexes what it polls from these queues, reports
the data of triggered traces to the collector, evicts untriggered data when the cache is
full, and returns buffers to the available queue. It forwards triggers, and breadcrumbs
of triggered traces, to the coordinator, which sends each trigger to the agents that
the trace visited.

What makes it hard:

* the queue is lock-free, several threads claim overlapping laps of the ring, and the two
  index loads of a call race with all of them;
* the data manager keeps the same facts several times (counters, lists, trees, links in
  both directions) and updates each incrementally, with traces shared by triggers of one
  or several queues;
* buffers are a closed pool: a leak on any path, a failed connection included, is for ever;
* triggers, breadcrumbs and data of a trace arrive in any order, on every agent and at the
  coordinator, and both sides forget;
* reporting is shared among queues by virtual times that are set to a clock which can go back,
  and by limiters that a whole trigger may overdraw;
* the bytes of a buffer are copied out while its id goes round through channels that block.

What should hold: an element of a queue is transferred once and whole; no call waits for
something nobody owes it; the index is consistent and its counters are true; every buffer
is in one place; clients that run out of buffers get some back; eviction takes the oldest
data and restores the capacity; no queue of triggers is starved; what the collector's file has of
an agent is what the agent reported, whole, once and in order; breadcrumbs follow the trigger;
every agent where a triggered trace is known is told.

## 2. Modules

### ShmQueue, ElementPool (`client/src/queue.c`)

`ShmQueue` has one step per shared access. A put reads `tail` and `head`
(`PutReadTail`, `PutReadHead`: the first load; `PutFull`, `PutRoom`: the second load and
the test), claims a range with the compare-and-swap on `tail` (`PutClaim`, or `PutRetry`
when it fails), and for each index takes the slot (`PutSlot`, 0 to 1), copies
(`PutCopy`) and publishes (`PutPublish`, 1 to 2). A get is the mirror image, with slot
states 2, 3, 0. `PutBegin` and `GetBegin` choose the size of the request and whether the call is
blocking; a blocking put starts over for what is left.

`head` and `tail` are ordinary struct fields, so the compiler may order the two loads as it
likes. `gcc -O3` (the flags of `client/Makefile`; gcc 12) loads `tail` before
`head` in `queue_get_nonblocking_multi`, against the order of the source, and keeps the
source's order in the put. The model lets both calls load in either order, so what it
shows does not depend on the compiler. Slots are accessed through compare-and-swap, which
orders the copies; the model is sequentially consistent apart from the two loads.

`met` is a history variable: the readers between their two loads for whom, since the first, the queue
has been empty or another reader has made a claim, and the writers for whom it has been full or another
writer has made one. No action reads it.

Indices are unbounded naturals: the code's 64-bit indices do not wrap in practice
(2^63 elements). A slot index is `i % Capacity` as in `queue_ptr`. The signed
difference compared with an unsigned capacity is modelled as it is compiled: a
negative difference counts as full (`SeenFull`).

`ElementPool` says what users of a queue rely on: a bounded pool, everything put in is
taken out at most once. No order is promised. `ShmQueue` implements it with `stored`
mapped to the contents of the slots that are full or being copied out.

### DataManager, Agent, Lists (`agent/pkg/agent`)

`DataManager` has the index and one operator per operation on it. The state objects of
the code (`untriggeredTrace`, `triggeredTrace`, `reportingTrace`, `idleTrigger`,
`reportingTrigger`) are the values of `traceState` and `firedState`; `"none"` is an entry that
the maps do not have. Lists are sequences, front first, with the operations of Go's `container/list` in `Lists`, which
`Coordinator` uses too; a queue's reporting tree is a count per
trigger, with `PopMin` the lowest base trace id and `PopNearMax` any member. The counters
are variables of their own, updated by the increments of the code; where a loop of the code adds up the buffers of
several traces, the increment is the number of pairs of a trace and a buffer (`Held`, `Told`).

`Agent` has the processing loop. `pc` tells how far the running handler is; a loop in a
handler takes a step per iteration, and only the reporting goroutine (`Connect`,
`ReporterTake`, `ReporterReturn`) interleaves with it. `outside` holds the buffers
that the agent does not have. `outbox` is what the last handler gave to the coordinator
client; `Forward` drops what a full channel refuses, and records it.

Abstracted: rate limiters and the order of queues under fair sharing are nondeterministic here and
the subject of `ReportScheduler`; what happens to the bytes of a batch is that of `ReportPath`; a trigger names one trace per step, as `triggers_fire` does (the code loops over the traces
of a batch); metrics are left out. A local or a remote trigger is applied by the same operator.

### ReportScheduler (`agent/pkg/agent/triggermanager.go`)

Which queue reports next. `ReportTimer` and `ReportSend` begin `GetNextBatchToReport`; each iteration of
its loop is `GetNextBuffers`, or `GetNextBuffersNone` when no queue with data is within its limit, and
`ReportEnd` leaves it. A queue that cannot report catches up with the clock (`CaughtUp`); of the others
one with the lowest virtual time is served (`Lowest`), pays for the buffers and moves the clock to its
own time (`Charge`). Virtual times grow without end, but the code only compares them and copies the clock
into them, so `lead` keeps them relative to the clock. A limiter is charged after the fact and may go into
debt by a trigger; it counts buffers where the code counts bytes. The handlers that give a queue data
(`Trigger`, `AddBuffers`) or take it away (`Forget`: time-out or eviction) are those of `Agent`, reduced to
what the scheduler sees. A trace may be in two queues, and is reported through one of them: the turn of the
other may then find a trigger without data.

### PartialPriorityTree (`agent/pkg/util/partialprioritytree.go`)

The tree that gives out the triggers of a queue in order of their ids, as recursive definitions on nodes:
`Insert` appends at the root, `PopMin` splits a leaf with too many elements (`Expand`), pushes elements down
one level (`distributeElementsToLeaves`) and sorts a small leaf, `PopNearMax` avoids the sorting, and both
collapse a node that has become empty. Ids have 3 bits instead of 64, and a leaf is split at 3 elements
instead of 10. `TreeNext` mixes the operations in any order, as a trigger queue does.
This is what justifies a set with a minimum in `DataManager` and `ReportScheduler`.

### ReportPath, BufferCycle (`reporting.go`, `collector/`, `memory/memory.go`, `agent.go`)

`ReportPath` follows the bytes. `Dial` or `HandshakeFails`, then `TakeBatch`, `WriteBuffer` for each buffer, or
`WriteFails`; a connection breaks at any point of its stream (`Break`), and what was written last may be lost
although the write succeeded. At the collector a handler per connection reads the address of the agent
(`Handshake`) and then frames (`Receive`), and ends with the connection (`HandlerEnds`); one goroutine appends
records to the file (`FileWriter`), and goes on with the next one when a write fails with any part of its record
in the file (`FileWriteFails`); `torn` is a history of the places where that happened. Frames and records are the encoding of the code on sequences of numbers,
with a length in one cell, and `ReadFromFile` decodes the file. The branch of `Receive` for a frame without
room for a header is there as in the code; no agent of the model sends one.

`BufferCycle` closes the circle around it: clients fill available buffers (`Fill`), the goroutines of
`memory.go` move ids between queues and channels (`DrainComplete`, `PutAvailable`), and the processing loop
indexes and evicts (`ProcessComplete`, `SendFreed`) and reports (`ReportTimer`, `SendReport`); `ReturnBatch`
is the end of `reportData`. What is evicted and what is reported is any set of traces; `Agent` has the rules.
A buffer has contents, so that a client that fills one too early is seen in the collector's file.

### Coordinator (`agent/pkg/coordinator`)

One goroutine runs requests. A request is `Receive`, any number of `AddTrigger` or
`AddBreadcrumb` from one agent, `ItemsEnd`, and the two expiration loops; or it is `Refuse`, a
breadcrumb request with an address number that the agent has not mapped, which reads the clock and returns before
anything is stored or expired. Each reads the clock where the code does. Any request may be refused here; which ones
are is the subject of `BreadcrumbDelivery`. `told` records for each agent the pairs of trigger and trace
that it fired or that were put on its channel; it is a history and never shrinks.
Delivery is the subject of the next two modules. Go's iteration over a map of triggers has no order, so
`AddBreadcrumb` moves the triggers of a trace to the front of the list in any order.

### BreadcrumbDelivery (`agent/pkg/agent/coordinator.go`, `coordinator/server.go`)

The breadcrumb stream from one agent to the coordinator. `ReportBreadcrumbs` gathers what is on
the channel, gives new addresses the next numbers, and makes a call; `Answered` and `CallFails`
end it. After an error the loop starts a new session with an empty table (`NextSession`). At the
coordinator the handler queues a request (`Breadcrumbs`) or drops it and answers "ok"
(`BreadcrumbsDropped`), and the main goroutine learns its addresses and unravels its numbers
(`ProcessBreadcrumbRequest`). A call that is given up may leave its request behind, to be
processed in a later session. Requests of other agents appear only as the reason why the queue is
full. An address without a number gets one in any order, because Go iterates over maps.

### TriggerDelivery (same files)

The way of a trigger from the agent where it fires, over the coordinator, to one agent that its trace
visited: two hops of the same shape (channel, one call at a time, a handler that may run late).
`ProcessTriggersRequest` and `ProcessBreadcrumbs` put a trigger on the destination's channel when the
second of the two, the trigger and the breadcrumb that names the destination, is processed; what they
know is reduced to the two sets `stored` and `visited`, because the bookkeeping behind it is
`Coordinator`'s. `lost` is a history of the triggers that a full channel refused or whose call failed.

### Client (`client/src/tracestate.c`, `buffer.c`, `hindsight.c`)

The threads of a traced program, each with its `TraceState` (`tls`): `Begin`, `End`, `Detach`, `Attach`,
and the two ways to write, `Tracepoint` (with a counter in front, `tracestate_write`) and
`TracepointWrite`. A queue call is one atomic step, as `ImplementsPool` of `ShmQueue` allows; a
call of the library takes a step per queue call, and what a thread does to its own state in between
belongs to the step before. Sizes are in units: a buffer has `BufSize` of them, a header
`HeaderSize`, a counter `WordSize`. Buffer `-2` is the null buffer. `header` is the trace that the header of
a buffer names, or `Overrun` once a counter that did not fit at the end of the buffer before it was written over it. `AgentTakes` and `AgentFrees` are the agent as the clients see it. A trace is sampled
when its id passes the thresholds, as in the code, with small ids and thresholds.

## 3. Runs

| Run | Instance | Checks | Result |
|---|---|---|---|
| `queue` | capacity 2, and one of two uses: 2 writers of 1 element against a reader of 2, 2 puts each; or a writer of 1 or 2 against 2 readers of 1, 3 puts; fairness | `IndexBounds`, `SlotExclusion`, `SlotBalance`, `EmptyOrOvertaken`, `FullOrOvertaken`, `ClaimsFinish`, `ImplementsPool` | hold |
| `agent_index` | 2 traces, 3 triggers in 2 queues that share a trace, 3 buffers, times 0 to 1 | `LinksAgree`, `IdleHoldsNoData`, `ListsExact`, `CountersExact`, `BuffersConserved`, `CapacityEnforced`, `HorizonSound`, `NoExpiredIdle` | hold |
| `agent_live` | 2 queues, 2 triggers, 2 traces, a breadcrumb, fairness | `BuffersComeBack`, `CrumbsFollowTrigger` | hold |
| `coordinator` | 2 agents, 2 traces, 3 triggers, times 0 to 2 | `LinksAgree`, `ExpiredAreGone`, `CollectedWhereKnown` | hold |
| `coordinator_lateral` | 2 agents, 1 trigger with 2 traces | `CollectedWhereKnown` | violated |
| `client_buffers` | 2 threads, 2 traces, 2 buffers of 4 units, a header of 1, counters of 2, payloads of 1 and 4, one detached trace | `EveryBufferInOnePlace`, `ReturnNeverWaits`, `EntryNamesItsHeader`, `CallsGetDone` | hold |
| `client_counter` | as above, buffers of 6 units, a header of 2, payloads of 3 | `CounterWrittenInside` | violated |
| `breadcrumb_sessions` | 2 traces with 2 addresses each, 1 drop, 2 failed calls, fairness | `FirstSessionDecodedAsAdded`, `RefusedOnlyAfterDrop`, `CallsAnswered`, `AddedIsDecoded` | hold |
| `breadcrumb_decoded` | as above, 1 failed call | `DecodedAsAdded` | violated |
| `trigger_delivery` | 3 triggers, channels of 1 or 2 batches, 1 drop, 1 failed call, fairness | `ReceivedOnce`, `StoredInTheEnd`, `DeliveredOrLost` | hold |
| `report_scheduler` | 2 queues that share one of 3 traces, up to 2 buffers per trace, limiters in debt after every trigger, fairness; all trees of 5 ids | `PopsInOrder`, `GapNeverWidens`, `NoStarvation`, `BatchReturns` | hold |
| `buffer_cycle` | 2 agents with 2 and 1 buffers, 2 workloads, channels of 1, 1 broken connection or failed write to the file, fairness | `StoredAsReported`, `StoredAsFilled`, `ReportedInOrder`, `BuffersReturn`, `AllIsStored` | hold |

Bounds. Capacity 2 with 3 or 4 elements makes threads meet in a slot on different laps, which
is the case that the slot protocol exists for; for other capacities and more threads there are the proofs. The two uses are those of the system (clients against agent, agent against clients): `MCShmQueue`
picks one at the start and restricts the calls of `ShmQueue` to it, since no thread does both and nobody
calls `queue_get_blocking`. Three buffers give a cache capacity of 2 and
a triggered capacity of 1, so one batch crosses both thresholds; a batch of two traces,
a report batch of one buffer and a channel of one batch make every queue between handlers fill up.
Two traces and three triggers are the least in which a trace is shared within a queue and
between queues. The clocks matter to order and expiry only: two values put entries out of order and
let one expire. Buffers, agents and client threads are symmetric in the runs without liveness.
Two client threads over two buffers meet the empty pool and so the null buffer; payloads of 1 and 4
units fill a buffer exactly, in part, and more than once, and with counters of 2 units a counter may run over the end of
a buffer. `MCClient` takes no step after which a trace is detached while a thread is in the middle of a payload
(`OneAtATime`): a detached state is out of reach of the threads until one attaches it. Three triggers with two per call leave one
behind in the channel, and with channels of one or two batches each channel fills up.
In the scheduler, a limiter without burst is in debt after each trigger, so that every turn meets
ineligible queues; `MaxCredit` bounds how far queues may be from the clock when new data comes, because
with each batch a queue may fall behind the clock a little more. Five ids among eight, with leaves of two,
make a tree split to its last level and collapse again; `MCReportScheduler` explores the scheduler and the tree side by side, one in each behaviour.
In `buffer_cycle`, one agent fills a buffer again while the first contents may be on the way, with a buffer
of no trace (id 0) in between, or two agents share the collector; channels of one batch make each goroutine
wait for the others, and the connection may break at every cell of a frame, or a write to the file fail at every
cell of a record (`MaxFailures` bounds the two together).

Deadlock is checked in all runs but those of the two delivery models, which stop when the breadcrumbs or
triggers of the instance are used up. In `buffer_cycle` a timer that finds nothing is always possible, so it is
`BuffersReturn` that excludes goroutines that wait for one another.

Fairness. `ShmQueue`: a thread inside a call is scheduled again; nothing forces a call to
begin. `Agent`: a handler that has begun runs on (it is straight-line Go code; its report loop
needs a limiter to refill, which it does with time); `select` chooses at random among ready
cases, so the report timer and the send to the reporter, each ready again and again, are taken
(strong fairness); the reporting goroutine runs, and the collector can be dialled sooner or later.
`ReportScheduler` has the same fairness of the loop, and limiters that refill while the loop spins.
`BufferCycle`: each goroutine of the agents and of the collector runs (weak fairness), the send to the
reporting goroutine is not passed over for ever by `select` (strong fairness), and dialling succeeds in the
end; nothing makes the index give up data or a connection break.
In the delivery models the goroutines that make calls, the handlers
and the main goroutine run, and a call ends, by its answer or its timeout; failures are bounded in number, and
nothing forces one. `StoredInTheEnd` is checked without any fairness of the destination;
`DeliveredOrLost` names the fairness it needs in its statement. `Client` assumes none: `CallsGetDone` is an
action property, a measure that every step of a call decreases.
Nothing is assumed of clients in `Agent`: `BuffersComeBack` must hold when they complete no buffer at all.

### Where code and comments differ

* `coordinator_lateral`. When a trigger has a second trace, attached at its source only, an agent that
  knows the trigger for its first trace and that a breadcrumb of the second one names is sent nothing:
  `AddBreadcrumb` checks whether the *trigger* is known there.
* `client_counter`. `tracestate_write` asks for room for its counter and stores the whole counter even when
  the buffer granted less (`tracestate.c:182`); the store then runs into the next buffer. It also
  keeps updating the counter after the buffer that holds it was returned and a new one acquired
  (`tracestate.c:194`). Payloads whose sizes are whole words avoid the first case, not the second.
* `breadcrumb_decoded`. An agent numbers addresses from 0 again after any error, while the coordinator keeps the
  old numbers. A late request of the old session, or a dropped first request of the new one, makes a
  number stand for the wrong address, and a trigger goes to an agent that the trace did not visit.

Seen while modelling, without a run of their own:

* With several writers a put can return "full" although the queue never was: `tail` is read, a reader
  advances `head` beyond that value, and the negative difference compares as a large unsigned number
  (`queue.c:195`). Likewise, with several readers and the compiler's order of loads, a get can miss elements
  of a queue that was never empty. `FullOrOvertaken` and `EmptyOrOvertaken` say that this happens only to a call
  that another one of its kind got ahead of, and so never to the agent, which is alone on its side.
* `EvictedTriggeredToCapacity` drains the largest queue only and can leave more triggered buffers than its
  target, which the comment in `triggerqueue.go:79` concedes.
* A trigger whose traces were all reported through another queue stays in the reporting state, and so does
  not time out, while its own queue has no data (`firedtrigger.go:193`). It costs later turns of its queue,
  which `NoStarvation` allows for.
* A queue without data catches up with the clock as it was before the turn in progress (`triggermanager.go:117`).
  Over many batches it can fall behind the clock without bound and then report more than its share for a
  while. `GapNeverWidens` says that such a gap does not grow while both queues can report.
* `PopNearMax` returns the first element of a leaf, which may be the least one in the tree.
* `fileWriter` prints the error of a write that fails in the middle of a record and writes the next record behind the
  part (`collector.go:131`); the file cannot be read past that place. `StoredAsReported` and `StoredAsFilled` are
  therefore about the file up to the first failed write.
* A coordinator that receives nothing but requests it refuses expires nothing, since only requests that are processed
  call `checkExpirations` (`server.go:203`). `ExpiredAreGone` says that the next one processed makes up for it.

## 4. Proofs

All theorems hold for arbitrary values of the constants, under the assumptions in the modules: positive
capacities, sizes and batch sizes; natural timeouts (positive in `Coordinator`); disjoint readers and writers; finitely many buffers, agents and, in `DataManager`,
trace ids and queue ids, which are integers of fixed width in the code; in the delivery modules, finitely many breadcrumbs
or triggers in a behaviour. The bounds that the guards name (`MaxPuts`, `MaxTime`, `MaxFails` and so on) are any naturals, and
nothing bounds the number of threads.
Every safety invariant and action property that a passing run checks is a theorem, but for the four listed at the end.
A property is seldom inductive as it stands; what has to be added is named below.

`ShmQueueProofs`
* `TypeCorrect`, `IndexBoundsHold`. The invariant `IndInv` adds to the types what a thread knows of
  `head` and `tail`: its copies lag behind, because both only grow, and a claim is made only if the
  copy that the compare-and-swap confirms is exact. `IndexBounds` alone is not inductive: nothing
  would bound a claim made from stale copies.
* `SlotExclusionHolds`. The status word is a lock; the proof is per action, from the types.
* `SlotBalanceHolds`. `BalanceInv` adds that no claim reaches beyond `tail` and that what is counted is finite
  although the threads need not be. A claim adds the same indices of a slot on both sides of the equation:
  `PutClaim` new unfinished puts and new indices behind `tail`, `GetClaim` unfinished gets in exchange for indices behind
  `head`. `PutPublish` and `GetRelease` finish one index of one slot, which `SlotExclusion` says is
  in the state that they expect, and the other steps move no claim and no element.
* `RingImplementsPool`. `ElementInv` says that held slots hold distinct, published,
  undelivered elements, and that a writer about to publish has copied its own next element.
  Every step is then a put, a take or a stutter of the pool.
* `EmptyIsExcused`, `FullIsExcused`. `ReaderMet` and `WriterMet` say what a thread between its loads has met, from the
  copy it has: unless a rival claimed, `head` stands still between the loads of a reader, and so does `tail` for a
  writer; a difference of zero, or of the capacity, then existed at some moment between them, in either order of the
  loads. A difference that is negative takes a claim of a rival.

`ListProofs`
* Lemmas only. `ListFactsHold`: what removal, insertion at the front and reordering do to a list that is kept in the order of
  time stamps. `Lists` defines removal by the positions that are kept, not by recursion, so that this can be
  proved for every list: `Ranks` numbers the positions in order. The LRU and idle lists below rest on it.

`AgentProofs`
* `LinksAgreeHolds`. A trace lists exactly the triggers that list it, and its state agrees with its triggers and
  its data. Not inductive alone: `HeldInv` adds that an entry of a batch is never empty (an empty one would
  make a trace "reporting" without data), and `IdleHoldsNoData` that removing an idle trigger frees nothing.
* `IdleHoldsNoDataHolds`. No trace of an idle trigger holds buffers. It needs the links: buffers that come in
  wake every trigger that the *trace* lists, and the claim is about every trace that the *trigger* lists.
* `BuffersConservedHolds`. `OnePlace` states it without counting: each buffer is in one of eight kinds of place
  (`OneKind`), and no two traces, batch entries or channel elements share one (`Apart`). Each step pours some
  buffers into one kind of place (`Pours`). `BatchInv` says that no batch is held between handlers.
* `HorizonSoundHolds`, `NoExpiredIdleHolds`. `LruInv` and `IdleInv` say that the lists hold the untriggered
  traces, or the idle triggers of their queue, once each and in the order of their time stamps. The back is then the
  oldest, and a loop that stops at the first survivor has missed nothing.
* `CrumbsFollowTriggerHolds`, an action property: one step per operation that can trigger a trace.
* `CountersExactHolds`. `CountInv` has each counter as the cardinality of a set: the traces of a kind, or pairs
  and triples such as a trigger, one of its traces and a buffer of that. The model's sums are such cardinalities
  for this reason. For each operation the proof first says how the sets change and then counts (`HeldCounts`). That the
  added buffers are new to the index comes from `OnePlace`, and that no trigger is counted twice from the links.
* `ListsExactHolds`. `TreeInv` says that a trigger is in its queue's tree exactly while it is reporting, once. With
  `CountInv`, a queue with buffers has a reporting trigger, so `PopMin` and `PopNearMax` meet no empty tree.
* `CapacityEnforcedHolds`. `CapacityInv` relates the loop of `maybeEvict` to what it was given to do: in the loop, what the
  index holds and what was evicted stay within the quota and the capacity together. It needs exact counters.

`CoordinatorProofs`
* `TypeCorrect`, `LinksAgreeHolds`. Inductive as they stand, together. The proof never looks at the
  LRU lists: links stay symmetric whatever set of entries expires.
* `SingleTraceCollected`. If no trigger has two traces, `CollectedWhereKnown` holds for any
  number of agents. It needs `KnowsItsTraces` (an agent that knows a trigger was told of the traces that
  the trigger has), which in turn needs `LinksFired` (links come from what is fired). Both fail with a
  lateral trace, which is the violation of `coordinator_lateral`.
* `ExpiredAreGoneHolds`, an action property: about the step that answers a request. `LruInv` keeps both lists complete and in order, `CheckedInv` says which of the two
  loops is done. A trace that moves to the front takes all its triggers along, in an order that Go does not define,
  and they have the same time stamp then. A refused request moves the clock only, which keeps a list in order.

`ReportSchedulerProofs`
* `SchedulerTypes`. Types, with the debt of a limiter bounded by one trigger. `TreeHasData` is needed beside
  them: every trigger with data is in its queue's tree, so that the minimum which a turn pops exists.
* `FairSharing`. `GapNeverWidens` for any queues, traces, batch sizes and limits: a turn only moves the queue
  with the lowest virtual time, by one trigger's worth, and moves the clock under all the others alike.

`ClientProofs`
* `EveryBufferInOnePlaceHolds`, `ReturnNeverWaitsHolds`. `CallInv` says what a thread in the middle of a call has in its
  state; `OnePlace` is again the claim without counting. Every step of a thread is one of four things: it
  works on its buffer, replaces its state and returns the buffer, takes a new buffer, or detaches its state.
* `EntryNamesItsHeaderHolds`. `NameInv` adds the buffers in the hands of a trace state: their headers too are those of
  the state's trace, or overrun. A header is written only by the thread that holds the buffer, or by a counter that runs over.
* `WholeWordsKeepHeaders`. If the header, the buffers and the payloads are whole numbers of words, the case of an
  overrun header is excluded: a counter never runs over the end of its buffer (`WordInv`). Nothing in the code makes
  payloads whole words, so this is a remark on how to stay clear of `client_counter`.
* `CallsGetDoneHolds`. The measure of each call decreases, for any sizes.

`BreadcrumbDeliveryProofs`
* `FirstSessionDecodedAsAddedHolds`. `FirstInv`: while no session has ended, what the coordinator knows and what requests under
  way carry is part of the agent's table, in which a number has one address.
* `RefusedOnlyAfterDropHolds`. `NoDropInv`: without a drop the coordinator has every number of the agent's table, or the
  one request that carries the missing ones is still to be processed, and a call that depends on it has not been made.

`TriggerDeliveryProofs`
* `ReceivedOnceHolds`. A trigger is in one batch of a stage (`OneBatch`) and in one stage of its way (`OneStage`), and has
  been stored and visited when it is in any: so the second of the two, which sends it, comes once.

Model-checked only:
* liveness (`ClaimsFinish`, `BuffersComeBack`, `CallsAnswered`, `AddedIsDecoded`, `StoredInTheEnd`, `DeliveredOrLost`,
  `NoStarvation`, `BatchReturns`, `BuffersReturn`, `AllIsStored`): reasoning with fairness and `ENABLED` is out of the prover's reach;
* `PopsInOrder`, `StoredAsReported`, `StoredAsFilled` and `ReportedInOrder`: the tree of `PartialPriorityTree` and the decoding of
  frames in `ReportPath` are recursive definitions, and what those compute for every input would need induction over data.

## 5. Not modelled, and the plan

* Restarts. A client that starts zeroes its queue files while an agent may have them mapped (`queue.c:33`), and the
  coordinator goes on believing that a restarted agent knows its triggers (`server.go:129`). Nothing in the code
  detects either, and every state of the models would have to meet a zeroed header.
* A collector file that cannot be created, other failures of the disk than a failed write, failures of memory; shutdown through contexts and signals.
* Timing: backoff of the poll loops, the collector's and the agent's throughput limits. A backoff is left
  open, so what holds does not depend on it. (Only its maximum is enforced, `memory.go:188`; it can halve to 0.)
* The poll loops of triggers and breadcrumbs have the shape of the one that is modelled; what they deliver is
  any input of `Agent`. The client's `trigger.c` and `breadcrumb.c` fill a struct and call a modelled put.
* The delayer, an experimental FIFO in front of `Agent`'s inputs, which come at any time anyway.
* Generated RPC code, metrics, telemetry, loggers, printers, command lines, the experiments in `agent/cmd/jon`, and
  the tree variant that is commented out.

Next: `Coordinator` with `TriggerDelivery`, so that `told` becomes delivery; `Client` in place of `Fill` in
`BufferCycle`, where `EveryBufferInOnePlace` and `BuffersConserved` would meet.
