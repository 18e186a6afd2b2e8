---------------------------- MODULE ReportScheduler ----------------------------
(***************************************************************************)
(* How the agent shares reporting among its trigger queues: the trigger    *)
(* manager (agent/pkg/agent/triggermanager.go) over the trigger queues of  *)
(* the data manager.  Agent leaves the choice of the queue open; here it   *)
(* is made as the code makes it, by rate limiters and virtual time.        *)
(*                                                                         *)
(* A trigger of queue q is known by its base trace, which here is its only *)
(* trace; a trace may be fired in several queues and its buffers are then  *)
(* reported once, through whichever comes first.  What the reporting tree  *)
(* of a queue holds is a set: PartialPriorityTree checks that the tree     *)
(* gives it out in order.                                                  *)
(*                                                                         *)
(* The code only compares virtual times with one another and copies the    *)
(* clock into them, so lead keeps them relative to the clock: lead[q] is   *)
(* mq.vt - tm.vc.                                                          *)
(***************************************************************************)
EXTENDS Integers, FiniteSetsExt

CONSTANTS Queues,    \* trigger queues
          Traces,    \* trace ids, which are also the ids of triggers
          Fireable,  \* pairs <<q, t>>: t may be fired in q
          MaxHeld,   \* bound: buffers of one trace
          BatchSize, \* tm.batch_size
          Burst,     \* capacity of a reporting limiter, in buffers
          MaxCredit  \* bound: how far from the clock queues may be when data comes

ASSUME SchedulerAssumption ==
  /\ Traces \subseteq Nat
  /\ Fireable \subseteq Queues \X Traces
  /\ {MaxHeld, BatchSize} \subseteq Nat \ {0}
  /\ {Burst, MaxCredit} \subseteq Nat
  /\ "none" \notin Queues

VARIABLES
  queues,    \* keys of tm.queues: queues that exist
  fired,     \* queue -> its fired triggers
  reporting, \* queue -> triggers in its reporting tree
  buffered,  \* trace -> number of buffers it holds for its triggers
  lead,      \* queue -> its virtual time, less the virtual clock
  tokens,    \* queue -> what its reporting limiter has available
  pc,        \* "select", or "report" inside GetNextBatchToReport
  batch,     \* buffers gathered by GetNextBatchToReport
  pending,   \* size of data_to_report
  served     \* the queue whose turn the latest iteration of this report was

index == <<queues, fired, reporting, buffered>>
vars == <<index, lead, tokens, pc, batch, pending, served>>

NoQueue == "none"

Init ==
  /\ queues \in SUBSET Queues   \* ConfigureRateLimits creates some
  /\ fired = [q \in Queues |-> {}] /\ reporting = [q \in Queues |-> {}]
  /\ buffered = [t \in Traces |-> 0]
  /\ lead = [q \in Queues |-> 0]
  /\ tokens = [q \in Queues |-> Burst]
  /\ pc = "select" /\ batch = 0 /\ pending = 0
  /\ served = NoQueue

Triggered(t) == \E q \in Queues : t \in fired[q]

(* buffer_count of the queue is not 0.  The counters of the queues and of the data
   manager are exact (CountersExact of Agent). *)
HasData(q) == \E t \in fired[q] : buffered[t] > 0

-----------------------------------------------------------------------------
(***************************************************************************)
(* The handlers that change what there is to report; Agent has them in     *)
(* full.  They run in the select statement, never inside a report.         *)
(***************************************************************************)

(* Bound: no data comes while a queue is more than MaxCredit away from the clock.  In
   the code the distance has none: a queue that has no data in the last turn of a batch
   catches up with the clock as it was before that turn, and falls behind a little. *)
WithinCredit == \A q \in queues : lead[q] \in -MaxCredit .. MaxCredit

(* getQueue: a queue begins with the virtual clock. *)
GetQueue(q) ==
  /\ queues' = queues \cup {q}
  /\ lead' = [lead EXCEPT ![q] = IF q \in queues THEN @ ELSE 0]
  /\ tokens' = [tokens EXCEPT ![q] = IF q \in queues THEN @ ELSE Burst]

(* TriggerLocal and TriggerRemote: the trace joins the trigger with the n
   buffers it has.  A trigger that the limiter of local triggers drops changes
   nothing here but that getQueue has been called. *)
Trigger(q, t, n) ==
  /\ pc = "select"
  /\ GetQueue(q) /\ WithinCredit
  /\ t \notin fired[q]
  /\ Triggered(t) => n = buffered[t]
  /\ fired' = [fired EXCEPT ![q] = @ \cup {t}]
  /\ buffered' = [buffered EXCEPT ![t] = n]
  /\ reporting' = IF n > 0 THEN [reporting EXCEPT ![q] = @ \cup {t}] ELSE reporting
  /\ UNCHANGED <<pc, batch, pending, served>>

TriggerDropped(q) ==
  /\ pc = "select"
  /\ q \notin queues
  /\ GetQueue(q)
  /\ UNCHANGED <<fired, reporting, buffered, pc, batch, pending, served>>

(* AddBuffers to a triggered trace: all its triggers have data to report. *)
AddBuffers(t, n) ==
  /\ pc = "select"
  /\ Triggered(t)
  /\ WithinCredit
  /\ buffered[t] + n <= MaxHeld
  /\ buffered' = [buffered EXCEPT ![t] = @ + n]
  /\ reporting' = [q \in Queues |-> IF t \in fired[q] THEN reporting[q] \cup {t}
                                    ELSE reporting[q]]
  /\ UNCHANGED <<queues, fired, lead, tokens, pc, batch, pending, served>>

(* A trigger is forgotten: an idle one because it times out, one with data
   because of EvictToCapacity, whose PopNearMax may take any.  The buffers of its
   trace stay if another trigger has the trace. *)
Forget(q, t) ==
  /\ pc = "select"
  /\ t \in fired[q]
  /\ fired' = [fired EXCEPT ![q] = @ \ {t}]
  /\ reporting' = [reporting EXCEPT ![q] = @ \ {t}]
  /\ buffered' = IF \E p \in Queues \ {q} : t \in fired[p] THEN buffered
                 ELSE [buffered EXCEPT ![t] = 0]
  /\ UNCHANGED <<queues, lead, tokens, pc, batch, pending, served>>

-----------------------------------------------------------------------------
(***************************************************************************)
(* Reporting.                                                              *)
(***************************************************************************)

(* GetNextBatchToReport begins when the timer fires with nothing pending, or
   when the pending batch has gone to the reporting goroutine. *)
ReportTimer ==
  /\ pc = "select" /\ pending = 0
  /\ pc' = "report" /\ batch' = 0 /\ served' = NoQueue
  /\ UNCHANGED <<index, lead, tokens, pending>>

ReportSend ==
  /\ pc = "select" /\ pending > 0
  /\ pending' = 0
  /\ pc' = "report" /\ batch' = 0 /\ served' = NoQueue
  /\ UNCHANGED <<index, lead, tokens>>

More == batch < BatchSize /\ \E t \in Traces : buffered[t] > 0

EligibleWithTokens == {q \in queues : HasData(q) /\ tokens[q] > 0}

(* The queues that are candidates for reporting: with data, and not in debt to
   their limiter. *)
Eligible == {q \in queues : HasData(q) /\ tokens[q] >= 0}

(* The other queues catch up with the virtual clock. *)
CaughtUp == [q \in Queues |-> IF q \in Eligible THEN lead[q] ELSE 0]

AnyCandidate(q) == TRUE

(* Fair sharing: the queue with the lowest virtual time, any of them if several. *)
Lowest(q) == \A p \in Eligible : lead[q] <= lead[p]

ChargeNothing(q, n) ==
  /\ lead' = [p \in Queues |-> IF p \in queues \ {q} THEN CaughtUp[p] - CaughtUp[q] ELSE 0]
  /\ tokens' = [tokens EXCEPT ![q] = @ - n]

(* The queue pays for n buffers, and the clock moves to its virtual time. *)
Charge(q, n) ==
  LET advance == CaughtUp[q] + n IN
  /\ lead' = [p \in Queues |-> IF p \in queues \ {q} THEN CaughtUp[p] - advance ELSE 0]
  /\ tokens' = [tokens EXCEPT ![q] = @ - n]

(* ReportNext and what follows it: the least trigger leaves the tree with all
   buffers of its trace, none if another trigger has reported them already. *)
ReportNext(q) ==
  LET t == Min(reporting[q])
      n == buffered[t]
  IN /\ reporting' = [reporting EXCEPT ![q] = @ \ {t}]
     /\ buffered' = [buffered EXCEPT ![t] = 0]
     /\ batch' = batch + n
     /\ IF n > 0 THEN Charge(q, n) ELSE lead' = CaughtUp /\ UNCHANGED tokens
     /\ served' = q

(* One iteration of the loop of GetNextBatchToReport. *)
GetNextBuffers ==
  /\ pc = "report" /\ More
  /\ \E q \in Eligible : Lowest(q) /\ ReportNext(q)
  /\ UNCHANGED <<queues, fired, pc, pending>>

(* No queue is eligible: the loop goes round again. *)
GetNextBuffersNone ==
  /\ pc = "report" /\ More
  /\ Eligible = {}
  /\ lead' = CaughtUp /\ served' = NoQueue
  /\ UNCHANGED <<index, tokens, pc, batch, pending>>

ReportEnd ==
  /\ pc = "report" /\ ~More
  /\ pc' = "select" /\ pending' = batch /\ batch' = 0
  /\ UNCHANGED <<index, lead, tokens, served>>

(* Time passes and a limiter refills, whatever the processing loop is doing. *)
Refill(q) ==
  /\ q \in queues /\ tokens[q] < Burst
  /\ tokens' = [tokens EXCEPT ![q] = @ + 1]
  /\ UNCHANGED <<index, lead, pc, batch, pending, served>>

Handle ==
  \/ \E qt \in Fireable, n \in 0 .. MaxHeld : Trigger(qt[1], qt[2], n)
  \/ \E q \in Queues : TriggerDropped(q)
  \/ \E t \in Traces, n \in 1 .. MaxHeld : AddBuffers(t, n)
  \/ \E qt \in Fireable : Forget(qt[1], qt[2])

Report == GetNextBuffers \/ GetNextBuffersNone \/ ReportEnd

Next ==
  \/ Handle \/ ReportTimer \/ ReportSend \/ Report
  \/ \E q \in Queues : Refill(q)

Spec == Init /\ [][Next]_vars

(* The loop runs on; Go's select picks at random among the ready cases, so that
   the timer and the send to the reporting goroutine, which empties its channel,
   are not passed over for ever; a limiter refills with time. *)
Fairness ==
  /\ WF_vars(Report)
  /\ SF_vars(ReportTimer) /\ SF_vars(ReportSend)
  /\ \A q \in Queues : WF_vars(Refill(q))

FairSpec == Spec /\ Fairness

-----------------------------------------------------------------------------
(***************************************************************************)
(* Properties.                                                             *)
(***************************************************************************)

(* Types, and the bounds that the constants give; a limiter goes into debt by
   less than one trigger. *)
TypeOK ==
  /\ queues \subseteq Queues
  /\ fired \in [Queues -> SUBSET Traces] /\ reporting \in [Queues -> SUBSET Traces]
  /\ buffered \in [Traces -> 0 .. MaxHeld]
  /\ lead \in [Queues -> Int] /\ tokens \in [Queues -> -MaxHeld .. Burst]
  /\ pc \in {"select", "report"} /\ batch \in Nat /\ pending \in Nat
  /\ served \in Queues \cup {NoQueue}

(* Fair sharing.  While two queues both have data and are within their limits, the
   one that has been given more does not get further ahead of the other than one
   trigger's worth of buffers: getNextBuffersToReport takes whole triggers, of any
   size, and queues come and go in between. *)
GapNeverWidens ==
  [][\A p, q \in Eligible :
       LET gap == lead[p] - lead[q] IN
       p # q => lead'[p] - lead'[q] <= gap \/ lead'[p] - lead'[q] <= MaxHeld]_vars

(* No queue is starved.  A queue with data gets its turn, or loses its data to a
   turn of another queue that shares its traces or to eviction, although new data
   may come for the other queues for ever, the clock may be set back, turns may be
   spent on triggers whose data is gone, and its limiter may be in debt. *)
NoStarvation ==
  \A q \in Queues : HasData(q) ~> (served = q \/ ~HasData(q))

(* GetNextBatchToReport returns to the select statement.  It goes round without
   doing anything while all queues with data are in debt, and no handler runs in
   the meantime, so that only the limiters can end that. *)
BatchReturns == pc = "report" ~> pc = "select"
=============================================================================
