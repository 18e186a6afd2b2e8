------------------------------ MODULE BufferCycle ------------------------------
(***************************************************************************)
(* The round trip of buffers: clients fill them, the agent's goroutines    *)
(* move them from the shared-memory queues into channels and back          *)
(* (agent/pkg/memory/memory.go), the processing loop indexes, evicts or    *)
(* reports them (agent.go), and ReportPath copies what is reported to the  *)
(* collector before a client can fill the buffer again.                    *)
(*                                                                         *)
(* A call on a shared-memory queue is one step, which ShmQueue justifies.  *)
(* Which traces are evicted and which are reported is left open; Agent     *)
(* has the index in full.                                                  *)
(***************************************************************************)
EXTENDS ReportPath, FiniteSets

CONSTANTS TraceIds,    \* ids of traces, perhaps 0, which is no trace
          GetSize,     \* BATCHSIZE: elements moved by one call on a queue
          ChanCap,     \* capacity of the channels Complete and Available
          Workloads    \* bound: for which traces the clients of an agent fill buffers

ASSUME CycleAssumption ==
  /\ TraceIds \subseteq Nat /\ {GetSize, ChanCap} \subseteq Nat \ {0}
  /\ \A w \in Workloads : \A a \in Agents : w[a] \in Seq(TraceIds)

VARIABLES
  workload,   \* agent -> the traces its clients fill buffers for, in order
  filled,     \* agent -> how often its clients have filled a buffer
  available,  \* agent -> ids in the available queue
  complete,   \* agent -> the complete queue: traces and ids
  completeCh, \* agent -> api.Complete
  held,       \* agent -> trace -> ids in the index
  toReport,   \* agent -> data_to_report
  toFree,     \* agent -> batches the processing loop is sending to api.Available
  availableCh \* agent -> api.Available

loopVars == <<workload, filled, available, complete, completeCh, held, toReport, toFree,
              availableCh>>
vars == <<pathVars, loopVars>>

None == [t \in TraceIds |-> <<>>]

Init ==
  /\ PathInit
  /\ workload \in Workloads
  /\ filled = [a \in Agents |-> 0]
  /\ available = Pool
  /\ complete = [a \in Agents |-> <<>>]
  /\ completeCh = [a \in Agents |-> <<>>]
  /\ held = [a \in Agents |-> None] /\ toReport = [a \in Agents |-> <<>>]
  /\ toFree = [a \in Agents |-> <<>>]
  /\ availableCh = [a \in Agents |-> <<>>]

-----------------------------------------------------------------------------
(* A client takes a buffer, fills it and puts it on the complete queue. *)
Fill(a, b) ==
  LET k == filled[a] + 1
      t == workload[a][k]
  IN /\ b \in available[a] /\ filled[a] < Len(workload[a])
     /\ available' = [available EXCEPT ![a] = @ \ {b}]
     /\ filled' = [filled EXCEPT ![a] = k]
     /\ memory' = [memory EXCEPT ![a][b] = <<t, k>>]
     /\ complete' = [complete EXCEPT ![a] = Append(@, <<t, b>>)]
     /\ UNCHANGED <<data, batch, reported, unsent, dialled, attached, open, wire,
                    collectorVars, cuts, workload, completeCh, held, toReport, toFree,
                    availableCh>>

(* GetCompleteBatches: the entries grouped by trace, in the order they came in. *)
GroupedReversed(entries) ==
  [t \in TraceIds |->
     LET mine == SelectSeq(entries, LAMBDA e : e[1] = t)
     IN [i \in DOMAIN mine |-> mine[Len(mine) + 1 - i][2]]]

Grouped(entries) ==
  [t \in TraceIds |->
     LET mine == SelectSeq(entries, LAMBDA e : e[1] = t) IN [i \in DOMAIN mine |-> mine[i][2]]]

UpTo(n, s) == IF Len(s) < n THEN Len(s) ELSE n
Leading(n, s) == SubSeq(s, 1, UpTo(n, s))
Behind(n, s) == SubSeq(s, UpTo(n, s) + 1, Len(s))

(* completeLoop: drainBatches gets a batch and sends it, waiting for room on the
   channel; the batch it waits with is counted as still in the queue.  How soon it
   asks again, which the backoff decides, is left open. *)
DrainComplete(a) ==
  /\ complete[a] # <<>> /\ Len(completeCh[a]) < ChanCap
  /\ completeCh' = [completeCh EXCEPT ![a] = Append(@, Grouped(Leading(GetSize, complete[a])))]
  /\ complete' = [complete EXCEPT ![a] = Behind(GetSize, @)]
  /\ UNCHANGED <<pathVars, workload, filled, available, held, toReport, toFree, availableCh>>

-----------------------------------------------------------------------------
(***************************************************************************)
(* The processing loop of agent a, which waits while toFree is not empty.  *)
(***************************************************************************)
Idle(a) == toFree[a] = <<>>

Taken(index, T) == FlattenSeq([i \in 1 .. Cardinality(T) |-> index[SetToSeq(T)[i]]])
Without(index, T) == [t \in TraceIds |-> IF t \in T THEN <<>> ELSE index[t]]
Batches(s) == SelectSeq(s, LAMBDA x : x # <<>>)

(* processCompletedBuffers: the buffers join the index; maybeEvict may send triggered
   traces T and untriggered traces U to the pool, and the buffers of trace 0 follow. *)
ProcessComplete(a, T, U) ==
  LET entries == Head(completeCh[a])
      index == [t \in TraceIds |-> IF t = 0 THEN <<>> ELSE held[a][t] \o entries[t]]
      freed == IF 0 \in TraceIds THEN entries[0] ELSE <<>>
  IN /\ Idle(a) /\ completeCh[a] # <<>>
     /\ completeCh' = [completeCh EXCEPT ![a] = Tail(@)]
     /\ held' = [held EXCEPT ![a] = Without(index, T \cup U)]
     /\ toFree' = [toFree EXCEPT ![a] = Batches(<<Taken(index, T), Taken(index, U), freed>>)]
     /\ UNCHANGED <<pathVars, workload, filled, available, complete, toReport,
                    availableCh>>

SendFreed(a) ==
  /\ ~Idle(a) /\ Len(availableCh[a]) < ChanCap
  /\ availableCh' = [availableCh EXCEPT ![a] = Append(@, Head(toFree[a]))]
  /\ toFree' = [toFree EXCEPT ![a] = Tail(@)]
  /\ UNCHANGED <<pathVars, workload, filled, available, complete, completeCh, held, toReport>>

(* GetNextBatchToReport: all buffers of the traces T. *)
GetNextBatch(a, T) ==
  /\ toReport' = [toReport EXCEPT ![a] = Taken(held[a], T)]
  /\ held' = [held EXCEPT ![a] = Without(@, T)]

ReportTimer(a, T) ==
  /\ Idle(a) /\ toReport[a] = <<>>
  /\ GetNextBatch(a, T)
  /\ UNCHANGED <<pathVars, workload, filled, available, complete, completeCh, toFree,
                 availableCh>>

SendReport(a, T) ==
  /\ Idle(a) /\ toReport[a] # <<>> /\ Len(data[a]) < DataCap
  /\ data' = [data EXCEPT ![a] = Append(@, toReport[a])]
  /\ GetNextBatch(a, T)
  /\ UNCHANGED <<memory, batch, reported, unsent, dialled, attached, open, wire, collectorVars, cuts,
                 workload, filled, available, complete, completeCh, toFree, availableCh>>

-----------------------------------------------------------------------------
ReturnBatchEarly(a) ==
  /\ batch[a] # <<>> /\ Len(availableCh[a]) < ChanCap
  /\ Len(unsent[a]) <= 1
  /\ availableCh' = [availableCh EXCEPT ![a] = Append(@, batch[a])]
  /\ batch' = [batch EXCEPT ![a] = <<>>]
  /\ UNCHANGED <<memory, data, reported, unsent, dialled, attached, open, wire, collectorVars, cuts,
                 workload, filled, available, complete, completeCh, held, toReport, toFree>>

(* The end of reportData: the batch is given back, written or not. *)
ReturnBatch(a) ==
  /\ batch[a] # <<>> /\ unsent[a] = <<>> /\ Len(availableCh[a]) < ChanCap
  /\ availableCh' = [availableCh EXCEPT ![a] = Append(@, batch[a])]
  /\ batch' = [batch EXCEPT ![a] = <<>>]
  /\ UNCHANGED <<memory, data, reported, unsent, dialled, attached, open, wire, collectorVars, cuts,
                 workload, filled, available, complete, completeCh, held, toReport, toFree>>

(* availableLoop: PutAvailable puts all the ids it gets, some at a time; the queue has
   room for all buffers, so that it never waits. *)
PutAvailable(a) ==
  /\ availableCh[a] # <<>>
  /\ available' = [available EXCEPT ![a] = @ \cup ToSet(Head(availableCh[a]))]
  /\ availableCh' = [availableCh EXCEPT ![a] = Tail(@)]
  /\ UNCHANGED <<pathVars, workload, filled, complete, completeCh, held, toReport, toFree>>

-----------------------------------------------------------------------------
Processing(a) ==
  \/ \E T \in SUBSET (TraceIds \ {0}) : \E U \in SUBSET ((TraceIds \ {0}) \ T) :
       ProcessComplete(a, T, U)
  \/ SendFreed(a)
Reporting(a) ==
  \/ TakeBatch(a) /\ UNCHANGED loopVars
  \/ WriteBuffer(a) /\ UNCHANGED loopVars
  \/ WriteFails(a) /\ UNCHANGED loopVars
  \/ ReturnBatch(a)
Dialling(a) == (Dial(a) \/ HandshakeFails(a)) /\ UNCHANGED loopVars
Sending(a) == \E T \in SUBSET (TraceIds \ {0}) : SendReport(a, T)

Handling(c) ==
  \/ Handshake(c) /\ UNCHANGED loopVars
  \/ Receive(c) /\ UNCHANGED loopVars
  \/ HandlerEnds(c) /\ UNCHANGED loopVars
Writing == (FileWriter \/ FileWriteFails) /\ UNCHANGED loopVars

Next ==
  \/ \E a \in Agents :
       \/ \E b \in Pool[a] : Fill(a, b)
       \/ \E T \in SUBSET (TraceIds \ {0}) : ReportTimer(a, T)
       \/ DrainComplete(a) \/ Processing(a) \/ Sending(a) \/ Dialling(a) \/ Reporting(a)
       \/ PutAvailable(a)
  \/ \E c \in Connections : Handling(c) \/ (Break(c) /\ UNCHANGED loopVars)
  \/ Writing

Spec == Init /\ [][Next]_vars

(* The goroutines run, and the collector can be dialled in the end.  Nothing obliges
   a client to fill a buffer, a connection to break, or the index to give up data;
   Go's select does not pass over for ever a send that is possible. *)
Fairness ==
  /\ \A a \in Agents :
       /\ WF_vars(DrainComplete(a)) /\ WF_vars(Processing(a)) /\ WF_vars(Dialling(a))
       /\ WF_vars(Reporting(a)) /\ WF_vars(PutAvailable(a))
       /\ SF_vars(Sending(a))
  /\ \A c \in Connections : WF_vars(Handling(c))
  /\ WF_vars(Writing)

FairSpec == Spec /\ Fairness

-----------------------------------------------------------------------------
(***************************************************************************)
(* Properties.                                                             *)
(***************************************************************************)

(* The file as far as every write to it had succeeded, and its records. *)
Whole == IF torn = <<>> THEN file ELSE SubSeq(file, 1, torn[1])
Stored == ReadFromFile(Whole).records
Of(a, records) == LET mine == SelectSeq(records, LAMBDA r : r.source = a)
                  IN [i \in DOMAIN mine |-> mine[i].buffer]

RECURSIVE Frames(_)
Frames(cells) ==
  IF HasFrame(cells) THEN <<FirstFrame(cells)>> \o Frames(AfterFrame(cells)) ELSE <<>>

(* The frames of data on the connection of agent a, without the handshake. *)
OnTheWay(a) ==
  LET c == Conn(a) IN
  IF dialled[a] = 0 THEN <<>>
  ELSE IF source[c] = Unknown THEN Tail(Frames(wire[c])) ELSE Frames(wire[c])

(* Nothing is lost, doubled or overtaken on the way: as long as no connection has
   broken, what the file has of an agent, then what the collector has read, what is
   on the connection and what is still to be written of the batch is what the agent
   took to report, in that order.  A client that fills a buffer again does not change
   what is reported of it (reportData gives the batch back after it is written).  A
   write to the file that fails only cuts this short: the records before it are the
   first of what the agent reported. *)
StoredAsReported ==
  cuts = 0 => \A a \in Agents :
    IF torn = <<>>
    THEN Of(a, Stored) \o Of(a, incoming) \o OnTheWay(a) \o DataOf(a, unsent[a]) = reported[a]
    ELSE IsPrefix(Of(a, Stored), reported[a])

(* Whatever breaks, ReadFromFile gets through the file up to the first write that
   failed, and every record in it is the data of one buffer as a client of that agent
   filled it, and is there once: a frame cut off by a broken connection, or met by the
   handler of the connection after it, leaves no trace.  Behind a failed write nothing
   can be said: the part of a record that is there shifts the lengths of the rest. *)
StoredAsFilled ==
  /\ ReadFromFile(Whole).left = <<>>
  /\ IsInjective(Stored)
  /\ \A i \in DOMAIN Stored :
       \E a \in Agents : \E k \in 1 .. filled[a] :
         Stored[i] = [source |-> a, buffer |-> <<workload[a][k], k>>]

(* The buffers of a trace are reported in the order in which they were completed,
   through grouping by trace, the index, and batches made at different times. *)
ReportedInOrder ==
  \A a \in Agents : \A i, j \in DOMAIN reported[a] :
    i < j /\ reported[a][i][1] = reported[a][j][1] => reported[a][i][2] < reported[a][j][2]

(* Buffers go round: every buffer that the index does not hold is available to the
   clients in the end, although three goroutines wait for room in channels that the
   others empty, and although a connection breaks in the middle of a batch or the
   collector cannot write its file. *)
BuffersReturn ==
  []<>(\A a \in Agents : Pool[a] = available[a] \cup UNION {ToSet(held[a][t]) : t \in TraceIds})

(* Everything taken to be reported is in the file in the end, unless a connection
   breaks or a write fails: the handlers and the file writer get through what is on
   the way. *)
AllIsStored ==
  []<>(cuts + Len(torn) > 0 \/ \A a \in Agents : Of(a, Stored) = reported[a])
=============================================================================
