-------------------------------- MODULE Client --------------------------------
(***************************************************************************)
(* The client library: the threads of a traced process, each with its      *)
(* TraceState (hindsight_tls), and the BufManager they share.              *)
(*                                                                         *)
(* A step is a put into the complete queue, a get from the available       *)
(* queue, or a write to the pool, with the thread-local work around it, so *)
(* the other threads and the agent come between any two of them.  The      *)
(* queues are pools (ElementPool).  Triggers and breadcrumbs go to queues  *)
(* that nothing here reads: with them go the head_sampled flag and the     *)
(* counts in the header, which no decision of the client depends on.       *)
(* Sizes are counted in small units: HeaderSize stands for                 *)
(* sizeof(TraceHeader), WordSize for sizeof(size_t).                       *)
(***************************************************************************)
EXTENDS Integers, FiniteSets

CONSTANTS Threads,
          TraceIds,        \* positive trace ids; 0 is "no trace"
          NumBuffers,      \* meta->capacity
          BufSize,         \* meta->buffer_size
          HeaderSize, WordSize,
          WriteSizes,      \* sizes of the payloads of tracepoints
          HeadThreshold, RetroThreshold,
          MaxDetached      \* bound: the states detached at the same time

ASSUME ClientAssumption ==
  /\ TraceIds \subseteq Nat \ {0}
  /\ NumBuffers \in Nat \ {0}
  /\ {HeaderSize, WordSize} \cup WriteSizes \subseteq Nat \ {0}
  /\ BufSize \in Nat /\ BufSize > HeaderSize
  /\ {HeadThreshold, RetroThreshold, MaxDetached} \subseteq Nat

VARIABLES available,   \* the ids in the available queue
          complete,    \* the entries <<trace id, buffer id>> in the complete queue
          indexed,     \* the entries the agent has taken out of the complete queue
          tls,         \* hindsight_tls of each thread
          detached,    \* the states that are detached and kept by the application
          pc, call,    \* where a thread is in a call, and the call's locals
          header       \* the trace id in the header at the start of each buffer,
                       \* or Overrun

vars == <<available, complete, indexed, tls, detached, pc, call, header>>

Buffers == 0 .. NumBuffers - 1
Cleared == -1
Null == -2
NoTrace == 0
Overrun == -1    \* in a header: part of a counter has been written over it

(* {false}: everything zero, the buffer id too. *)
Created == [active |-> FALSE, recording |-> FALSE, trace |-> NoTrace, buf |-> 0, used |-> 0]

TraceState == [active : BOOLEAN, recording : BOOLEAN,
               trace : TraceIds \cup {NoTrace}, buf : Buffers \cup {Cleared, Null},
               used : 0 .. BufSize]

NoCall == [op |-> "none", trace |-> NoTrace, left |-> 0, head |-> <<Cleared, 0>>]

Init ==
  /\ available = Buffers
  /\ complete = {}
  /\ indexed = {}
  /\ tls = [t \in Threads |-> Created]
  /\ detached = {}
  /\ pc = [t \in Threads |-> "idle"]
  /\ call = [t \in Threads |-> NoCall]
  /\ header = [b \in Buffers |-> NoTrace]

Goto(t, label) == pc' = [pc EXCEPT ![t] = label]

SetCall(t, c) == call' = [call EXCEPT ![t] = c]

Finish(t) == Goto(t, "idle") /\ SetCall(t, NoCall)

-----------------------------------------------------------------------------
(***************************************************************************)
(* The buffer manager.                                                     *)
(***************************************************************************)

(* buffer_write hands out what is asked for, or what is left of the buffer. *)
Grant(s, size) == IF BufSize - s.used < size THEN BufSize - s.used ELSE size

(* bufmanager_return, s being what the caller makes of its state: a pool
   buffer goes to the complete queue, which blocks while it is full; a null
   buffer is only forgotten. *)
Return(t, s) ==
  /\ IF tls[t].buf \in Buffers
     THEN /\ Cardinality(complete) < NumBuffers
          /\ complete' = complete \cup {<<tls[t].trace, tls[t].buf>>}
     ELSE UNCHANGED complete
  /\ tls' = [tls EXCEPT ![t] = s]
  /\ UNCHANGED <<available, indexed, header>>

AfterReturnNotCleared(s) == s

AfterReturn(s) == [s EXCEPT !.buf = Cleared, !.used = 0]

\* s with buffer b, of which the header is used
Filled(s, b) == [s EXCEPT !.buf = b, !.used = HeaderSize]

AcquireWithoutHeader(t, s) ==
  /\ \E b \in available \cup {Null} :
       /\ available' = available \ {b}
       /\ tls' = [tls EXCEPT ![t] = Filled(s, b)]
  /\ UNCHANGED <<complete, indexed, header>>

(* bufmanager_acquire into state s, then tracestate_write_header.  Several
   threads read the available queue, so a get may find it empty although it
   is not: the null buffer may be handed out at any time. *)
Acquire(t, s) ==
  /\ \E b \in available \cup {Null} :
       /\ available' = available \ {b}
       /\ tls' = [tls EXCEPT ![t] = Filled(s, b)]
       /\ header' = [x \in Buffers |-> IF x = b THEN s.trace ELSE header[x]]
  /\ UNCHANGED <<complete, indexed>>

(* Thread-local work only. *)
SetState(t, s) ==
  /\ tls' = [tls EXCEPT ![t] = s]
  /\ UNCHANGED <<available, complete, indexed, header>>

-----------------------------------------------------------------------------
(***************************************************************************)
(* hindsight_begin and hindsight_begin_sampled (op "begin" and "sampled"). *)
(***************************************************************************)

(* The head-sampling threshold of begin_sampled is UINT64_MAX; a trace is
   recorded if head sampling or retroactive sampling selects it. *)
Recording(tr, op) == op = "sampled" \/ tr <= HeadThreshold \/ tr <= RetroThreshold

(* The state of a trace that begins, before a buffer is acquired for it. *)
Opened(tr, op) ==
  [active |-> TRUE, recording |-> Recording(tr, op), trace |-> tr, buf |-> Cleared, used |-> 0]

Open(t, tr, op) ==
  IF Recording(tr, op) THEN Acquire(t, Opened(tr, op)) ELSE SetState(t, Opened(tr, op))

(* A call for the trace that is already active is ignored. *)
Ignored(s, tr) == s.active /\ s.trace = tr

DisplacesInactive(s) == ~s.active /\ s.recording

(* Another trace is being recorded: its buffer has to be returned first. *)
Displaces(s) == s.active /\ s.recording

Begin(t, tr, op) ==
  /\ pc[t] = "idle"
  /\ ~Ignored(tls[t], tr) /\ ~Displaces(tls[t])
  /\ Open(t, tr, op)
  /\ UNCHANGED <<detached, pc, call>>

BeginCall(op, tr) == [NoCall EXCEPT !.op = op, !.trace = tr]

BeginReturn(t, tr, op) ==
  /\ pc[t] = "idle"
  /\ ~Ignored(tls[t], tr) /\ Displaces(tls[t])
  /\ Return(t, AfterReturn(tls[t]))
  /\ Goto(t, "begin")
  /\ SetCall(t, BeginCall(op, tr))
  /\ UNCHANGED detached

BeginOpen(t) ==
  /\ pc[t] = "begin"
  /\ Open(t, call[t].trace, call[t].op)
  /\ Finish(t)
  /\ UNCHANGED detached

-----------------------------------------------------------------------------
(***************************************************************************)
(* hindsight_end, hindsight_detach and hindsight_attach.                   *)
(***************************************************************************)

(* What tracestate_end leaves of a state. *)
Ended(s) == [s EXCEPT !.active = FALSE, !.recording = FALSE, !.trace = NoTrace]

(* tracestate_end, s being the state that is current afterwards. *)
EndWith(t, s) ==
  IF tls[t].active /\ tls[t].recording THEN Return(t, s) ELSE SetState(t, s)

End(t) ==
  /\ pc[t] = "idle"
  /\ tls[t].active
  /\ EndWith(t, Ended(AfterReturn(tls[t])))
  /\ UNCHANGED <<detached, pc, call>>

(* A state without a trace may be detached too; that only resets it. *)
Detach(t) ==
  /\ pc[t] = "idle"
  /\ tls[t].active
  /\ Cardinality(detached) < MaxDetached
  /\ detached' = detached \cup {tls[t]}
  /\ SetState(t, Created)
  /\ UNCHANGED <<pc, call>>

(* Any thread may attach the state, once: it "must either be reattached with
   hindsight_attach later, or ended with tracestate_end". *)
Attach(t, s) ==
  /\ pc[t] = "idle"
  /\ EndWith(t, s)
  /\ detached' = detached \ {s}
  /\ UNCHANGED <<pc, call>>

-----------------------------------------------------------------------------
(***************************************************************************)
(* hindsight_tracepoint and hindsight_tracepoint_write.                    *)
(***************************************************************************)

Used(t, len) == [tls[t] EXCEPT !.used = @ + len]

(* *(size_t* )head = written stores a whole word.  One that does not fit at
   the end of its buffer runs into the header of the buffer behind it. *)
HeaderAfterCounter(head) ==
  [b \in Buffers |-> IF head[1] \in Buffers /\ b = head[1] + 1 /\ head[2] + WordSize > BufSize
                     THEN Overrun ELSE header[b]]

(* tracestate_try_write: the counter and the payload fit. *)
TracepointFits(t, n) ==
  /\ pc[t] = "idle"
  /\ tls[t].recording
  /\ BufSize - tls[t].used >= n + WordSize
  /\ SetState(t, Used(t, n + WordSize))
  /\ UNCHANGED <<detached, pc, call>>

Granted(t, c) == Grant(tls[t], IF c.op = "head" THEN WordSize ELSE c.left)

(* tracestate_write_data found the buffer full: return it. *)
WriteFull(t, c) ==
  /\ Granted(t, c) = 0
  /\ Return(t, AfterReturn(tls[t]))
  /\ Goto(t, "acquire")
  /\ SetCall(t, c)

\* the counter of the call is at head, and the payload comes next
CounterAt(c, head) == [c EXCEPT !.op = "data", !.head = head]

(* It found room for the counter, which is written as zero. *)
WriteHead(t, c) ==
  /\ c.op = "head" /\ Granted(t, c) > 0
  /\ LET head == <<tls[t].buf, tls[t].used>> IN
     /\ SetCall(t, CounterAt(c, head))
     /\ header' = HeaderAfterCounter(head)
  /\ tls' = [tls EXCEPT ![t] = Used(t, Granted(t, c))]
  /\ Goto(t, "write")
  /\ UNCHANGED <<available, complete, indexed>>

WriteDataFromStart(t, c) ==
  /\ c.op = "data" /\ Granted(t, c) > 0
  /\ tls' = [tls EXCEPT ![t] = Used(t, Granted(t, c))]
  /\ header' = HeaderAfterCounter(c.head)
  /\ IF Granted(t, c) = c.left THEN Finish(t) ELSE SetCall(t, c) /\ UNCHANGED pc
  /\ UNCHANGED <<available, complete, indexed>>

(* It found room for a part of the payload; the counter is updated after it. *)
WriteData(t, c) ==
  /\ c.op = "data" /\ Granted(t, c) > 0
  /\ tls' = [tls EXCEPT ![t] = Used(t, Granted(t, c))]
  /\ header' = HeaderAfterCounter(c.head)
  /\ IF Granted(t, c) = c.left
     THEN Finish(t)
     ELSE SetCall(t, [c EXCEPT !.left = @ - Granted(t, c)]) /\ UNCHANGED pc
  /\ UNCHANGED <<available, complete, indexed>>

(* The caller of hindsight_tracepoint_write writes the bytes it is granted. *)
WriteRaw(t, c) ==
  /\ c.op = "raw" /\ Granted(t, c) > 0
  /\ SetState(t, Used(t, Granted(t, c)))
  /\ Finish(t)

(* One tracestate_write_data, in the call whose locals are c. *)
WriteStep(t, c) ==
  /\ WriteFull(t, c) \/ WriteHead(t, c) \/ WriteData(t, c) \/ WriteRaw(t, c)
  /\ UNCHANGED detached

WriteCall(op, n) == [NoCall EXCEPT !.op = op, !.left = n]

(* When not everything fits, tracestate_write spreads it over buffers. *)
Tracepoint(t, n) ==
  /\ pc[t] = "idle"
  /\ tls[t].recording
  /\ BufSize - tls[t].used < n + WordSize
  /\ WriteStep(t, WriteCall("head", n))

TracepointWrite(t, n) ==
  /\ pc[t] = "idle"
  /\ tls[t].recording
  /\ WriteStep(t, WriteCall("raw", n))

WriteAgain(t) ==
  /\ pc[t] = "write"
  /\ WriteStep(t, call[t])

(* A full buffer has been returned: acquire another, and write the header. *)
WriteAcquire(t) ==
  /\ pc[t] = "acquire"
  /\ Acquire(t, tls[t])
  /\ Goto(t, "write")
  /\ UNCHANGED <<detached, call>>

-----------------------------------------------------------------------------
(***************************************************************************)
(* The agent, as the client sees it: it takes entries out of the complete  *)
(* queue and, when it has evicted or reported a buffer, makes it available *)
(* again (modules Agent and DataManager say when).  What is in a free      *)
(* buffer is never read.                                                   *)
(***************************************************************************)
AgentTakes(e) ==
  /\ complete' = complete \ {e}
  /\ indexed' = indexed \cup {e}
  /\ UNCHANGED <<available, tls, detached, pc, call, header>>

AgentFrees(e) ==
  /\ indexed' = indexed \ {e}
  /\ available' = available \cup {e[2]}
  /\ header' = [header EXCEPT ![e[2]] = NoTrace]
  /\ UNCHANGED <<complete, tls, detached, pc, call>>

Steps(t) ==
  BeginOpen(t) \/ WriteAgain(t) \/ WriteAcquire(t)

Calls(t) ==
  \/ \E tr \in TraceIds, op \in {"begin", "sampled"} : Begin(t, tr, op) \/ BeginReturn(t, tr, op)
  \/ End(t) \/ Detach(t)
  \/ \E s \in detached : Attach(t, s)
  \/ \E n \in WriteSizes : TracepointFits(t, n) \/ Tracepoint(t, n) \/ TracepointWrite(t, n)

Next ==
  \/ \E t \in Threads : Calls(t) \/ Steps(t)
  \/ \E e \in complete : AgentTakes(e)
  \/ \E e \in indexed : AgentFrees(e)

Spec == Init /\ [][Next]_vars

-----------------------------------------------------------------------------
(***************************************************************************)
(* Properties.                                                             *)
(***************************************************************************)

(* A state whose trace is recorded into a buffer of the pool. *)
Holds(s, b) == s.active /\ s.recording /\ s.buf = b

(* Where a buffer is. *)
Places(b) ==
  {<<"tls", t>> : t \in {u \in Threads : Holds(tls[u], b)}}
    \cup {<<"detached", s.trace>> : s \in {x \in detached : Holds(x, b)}}
    \cup {<<"complete", e[1]>> : e \in {x \in complete : x[2] = b}}
    \cup {<<"indexed", e[1]>> : e \in {x \in indexed : x[2] = b}}
    \cup {<<"available", x>> : x \in available \cap {b}}

(* A buffer of the pool is in exactly one place at any time, whatever begins,
   ends, detaches and full buffers do to it (bufmanager_acquire,
   bufmanager_return and every overwrite of a TraceState): none is lost, and
   none is written by two threads or indexed twice. *)
EveryBufferInOnePlace == \A b \in Buffers : Cardinality(Places(b)) = 1

(* bufmanager_return uses the blocking put, in the application's own threads;
   the complete queue has room for every buffer of the pool, so a thread that
   has a buffer to return never waits for the agent. *)
ReturnNeverWaits ==
  \A t \in Threads : tls[t].recording /\ tls[t].buf \in Buffers => Cardinality(complete) < NumBuffers

(* Until the agent frees a completed buffer, the header in it is the one that
   tracestate_write_header wrote for the trace the entry names, or a counter has
   run over it from the buffer before: no other trace's header is ever found
   there, so the agent files the buffer under the trace it was written for.  The
   counter runs over only where a size is no whole number of words; see
   CounterWrittenInside. *)
EntryNamesItsHeader == \A e \in complete \cup indexed : header[e[2]] \in {e[1], Overrun}

(* "The caller can write up to `dst_size` data", and a returned buffer is not
   written any more: when tracestate_write is about to update its counter,
   the counter's word lies inside a buffer the thread still holds. *)
CounterWrittenInside ==
  \A t \in Threads :
    pc[t] = "write" /\ call[t].op = "data" /\ call[t].head[1] \in Buffers
      => Holds(tls[t], call[t].head[1]) /\ call[t].head[2] + WordSize <= BufSize

(* The steps a call has left at most: a counter and a payload of n units need
   n + 1 writes at most, and each of them a full buffer exchanged before it. *)
StepsLeft(t) ==
  3 * (call[t].left + (IF call[t].op = "head" THEN 1 ELSE 0))
    + CASE pc[t] = "idle" -> 0
        [] pc[t] = "begin" -> 1
        [] pc[t] = "acquire" -> 1
        [] pc[t] = "write" -> IF Granted(t, call[t]) = 0 THEN 2 ELSE 0

(* Every call returns after a bounded number of its own steps, even if the
   agent has stopped: a payload larger than a buffer is spread over several,
   null buffers stand in for those that are not to be had, and each turn of
   the loop in tracestate_write gets closer to its end. *)
CallsGetDone ==
  [][\A t \in Threads : pc[t] # "idle" /\ Steps(t) => StepsLeft(t)' < StepsLeft(t)]_vars
=============================================================================
