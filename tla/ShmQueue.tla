------------------------------ MODULE ShmQueue ------------------------------
(***************************************************************************)
(* The lock-free shared-memory ring of client/src/queue.c.  Client threads *)
(* and the agent exchange buffer ids, triggers and breadcrumbs through     *)
(* four instances of it.                                                   *)
(*                                                                         *)
(* head and tail only grow; index i lives in slot i % Capacity.  A caller  *)
(* first claims a range of indices with one compare-and-swap on head or    *)
(* tail and then walks its range, taking each slot by a second             *)
(* compare-and-swap on the slot's status.  Every shared read and every     *)
(* compare-and-swap is a step of its own, and so is each memcpy.           *)
(*                                                                         *)
(* head and tail are plain (not volatile, not atomic) fields that other    *)
(* threads change meanwhile, so nothing orders the two loads at the top of *)
(* a call: gcc -O3, the flags of client/Makefile, emits the load of tail   *)
(* before the load of head in queue_get_nonblocking_multi, although the    *)
(* source has them the other way round.  Both orders are modelled in both  *)
(* calls.                                                                  *)
(***************************************************************************)
EXTENDS Integers, FiniteSets

CONSTANTS Writers,      \* threads calling queue_put_*
          Readers,      \* threads calling queue_get_*
          Capacity,     \* q->meta->capacity
          PutSizes,     \* num_elements of a put
          GetSizes,     \* max_elements of a get
          MaxPuts       \* bound: elements one writer gets into the queue

Threads == Writers \cup Readers

ASSUME ThreadsDisjoint == Writers \cap Readers = {}
ASSUME CapacityPositive == Capacity \in Nat \ {0}
ASSUME SizesPositive == PutSizes \subseteq Nat \ {0} /\ GetSizes \subseteq Nat \ {0}
ASSUME MaxPutsNat == MaxPuts \in Nat

VARIABLES
  head, tail,   \* q->meta->head, q->meta->tail
  status,       \* QueueElementMetadata.status of each slot
  content,      \* the element bytes of each slot
  pc,           \* where each thread is
  rhead, rtail, \* a thread's local copies of head and tail
  pos, end,     \* the part of its claimed range a thread has yet to walk
  want,         \* elements the current call still asks for
  blk,          \* whether the current call is one of the *_blocking ones
  met,          \* history: the threads between their two loads that have met
                \* a reason to give up
  seq,          \* history: elements each writer has published
  delivered     \* history: elements copied out by readers

vars == <<head, tail, status, content, pc, rhead, rtail, pos, end, want, blk,
          met, seq, delivered>>
ring == <<head, tail, status, content, seq, delivered>>

Slots == 0 .. Capacity - 1
EMPTY == 0
WRITING == 1
FULL == 2
READING == 3

(* The n-th element a writer publishes; n makes every element distinct.    *)
Elements == Writers \X (0 .. MaxPuts - 1)
NoElement == <<>>

(* queue_ptr *)
Slot(i) == i % Capacity
SlotOf(t) == Slot(pos[t])

MinimumSecond(a, b) == b
Minimum(a, b) == IF a <= b THEN a ELSE b

-----------------------------------------------------------------------------
(* queue_init: zeroed memory, all slots empty.                             *)
Init ==
  /\ head = 0
  /\ tail = 0
  /\ status = [s \in Slots |-> EMPTY]
  /\ content = [s \in Slots |-> NoElement]
  /\ pc = [t \in Threads |-> "idle"]
  /\ rhead = [t \in Threads |-> 0]
  /\ rtail = [t \in Threads |-> 0]
  /\ pos = [t \in Threads |-> 0]
  /\ end = [t \in Threads |-> 0]
  /\ want = [t \in Threads |-> 0]
  /\ blk = [t \in Threads |-> FALSE]
  /\ met = {}
  /\ seq = [w \in Writers |-> 0]
  /\ delivered = {}

Goto(t, from, to) ==
  /\ pc[t] \in from
  /\ pc' = [pc EXCEPT ![t] = to]

(* The label names the load that is still to come.                         *)
SecondLoad == {"putHead", "putTail", "getHead", "getTail"}

(* What the second load leaves a thread with.                              *)
HeadSeen(t) == IF pc[t] \in {"putTail", "getTail"} THEN rhead[t] ELSE head
TailSeen(t) == IF pc[t] \in {"putHead", "getHead"} THEN rtail[t] ELSE tail

(* The end of an attempt: the local copies are dead.                       *)
Forget(t) ==
  /\ rhead' = [rhead EXCEPT ![t] = 0]
  /\ rtail' = [rtail EXCEPT ![t] = 0]

(* The history variable met, which no action reads.  Between its two loads *)
(* a reader meets an empty queue and a writer a full one, or one of its    *)
(* rivals, the threads that move the same index, claims something.         *)
AtLimit(t) == IF t \in Readers THEN tail = head ELSE tail - head >= Capacity
StartMet(t) == met' = IF AtLimit(t) THEN met \cup {t} ELSE met
EndMet(t) == met' = met \ {t}
ClaimMet(rivals) ==
  met' = met \cup {t \in Threads : pc[t] \in SecondLoad /\ (t \in rivals \/ AtLimit(t)')}

-----------------------------------------------------------------------------
(* queue_put_nonblocking_multi and the two blocking puts that repeat it.   *)

PutBegin(w, k, b) ==
  /\ seq[w] + k <= MaxPuts
  /\ Goto(w, {"idle"}, "putRead")
  /\ want' = [want EXCEPT ![w] = k]
  /\ blk' = [blk EXCEPT ![w] = b]
  /\ UNCHANGED <<ring, rhead, rtail, pos, end, met>>

PutReadTail(w) ==
  /\ Goto(w, {"putRead"}, "putHead")
  /\ rtail' = [rtail EXCEPT ![w] = tail]
  /\ StartMet(w)
  /\ UNCHANGED <<ring, rhead, pos, end, want, blk>>

PutReadHead(w) ==
  /\ Goto(w, {"putRead"}, "putTail")
  /\ rhead' = [rhead EXCEPT ![w] = head]
  /\ StartMet(w)
  /\ UNCHANGED <<ring, rtail, pos, end, want, blk>>

(* delta is an int64_t compared with the size_t capacity, so a negative    *)
(* delta (head moved past the tail read before it) is converted to a huge  *)
(* unsigned value and takes the "full" branch.                             *)
SeenFullOffByOne(t, h) == t - h < 0 \/ t - h >= Capacity - 1
SeenFull(t, h) == t - h < 0 \/ t - h >= Capacity

(* The second load and the test.  If the queue looks full the call returns *)
(* 0: a non-blocking put gives up, a blocking one backs off and tries      *)
(* again.                                                                  *)
PutFull(w) ==
  /\ SeenFull(TailSeen(w), HeadSeen(w))
  /\ Goto(w, {"putHead", "putTail"}, IF blk[w] THEN "putRead" ELSE "idle")
  /\ Forget(w)
  /\ EndMet(w)
  /\ UNCHANGED <<ring, pos, end, want, blk>>

PutRoom(w) ==
  /\ ~SeenFull(TailSeen(w), HeadSeen(w))
  /\ Goto(w, {"putHead", "putTail"}, "putClaim")
  /\ rhead' = [rhead EXCEPT ![w] = HeadSeen(w)]
  /\ rtail' = [rtail EXCEPT ![w] = TailSeen(w)]
  /\ EndMet(w)
  /\ UNCHANGED <<ring, pos, end, want, blk>>

(* The compare-and-swap on tail.                                           *)
PutClaim(w) ==
  LET num_to_write == Minimum(Capacity - (rtail[w] - rhead[w]), want[w])
  IN  /\ tail = rtail[w]
      /\ Goto(w, {"putClaim"}, "putSlot")
      /\ tail' = tail + num_to_write
      /\ pos' = [pos EXCEPT ![w] = tail]
      /\ end' = [end EXCEPT ![w] = tail + num_to_write]
      /\ Forget(w)
      /\ UNCHANGED <<head, status, content, want, blk, seq, delivered>>
      /\ ClaimMet(Writers)

PutRetry(w) ==
  /\ tail # rtail[w]
  /\ Goto(w, {"putClaim"}, "putRead")
  /\ Forget(w)
  /\ UNCHANGED <<ring, pos, end, want, blk, met>>

PutSlotUnguarded(w) ==
  /\ Goto(w, {"putSlot"}, "putCopy")
  /\ status' = [status EXCEPT ![SlotOf(w)] = WRITING]
  /\ UNCHANGED <<head, tail, content, rhead, rtail, pos, end, want, blk, met,
                 seq, delivered>>

(* The writer spins until its compare-and-swap 0 -> 1 succeeds.            *)
PutSlot(w) ==
  /\ status[SlotOf(w)] = EMPTY
  /\ Goto(w, {"putSlot"}, "putCopy")
  /\ status' = [status EXCEPT ![SlotOf(w)] = WRITING]
  /\ UNCHANGED <<head, tail, content, rhead, rtail, pos, end, want, blk, met,
                 seq, delivered>>

PutCopy(w) ==
  /\ Goto(w, {"putCopy"}, "putPublish")
  /\ content' = [content EXCEPT ![SlotOf(w)] = <<w, seq[w]>>]
  /\ UNCHANGED <<head, tail, status, rhead, rtail, pos, end, want, blk, met,
                 seq, delivered>>

PutPublishSameIndex(w) ==
  /\ status' = [status EXCEPT ![SlotOf(w)] = FULL]
  /\ Goto(w, {"putPublish"}, "putSlot")
  /\ UNCHANGED <<head, tail, content, rhead, rtail, pos, end, want, blk, met,
                 seq, delivered>>

(* The asserted compare-and-swap 1 -> 2, the end of the loop body, and,    *)
(* after the last element, the return: a blocking put of more elements     *)
(* than were accepted starts over with the rest.                           *)
PutPublish(w) ==
  /\ status' = [status EXCEPT ![SlotOf(w)] = FULL]
  /\ seq' = [seq EXCEPT ![w] = @ + 1]
  /\ pos' = [pos EXCEPT ![w] = @ + 1]
  /\ want' = [want EXCEPT ![w] = @ - 1]
  /\ Goto(w, {"putPublish"},
          IF pos[w] + 1 < end[w] THEN "putSlot"
          ELSE IF blk[w] /\ want[w] > 1 THEN "putRead"
          ELSE "idle")
  /\ UNCHANGED <<head, tail, content, rhead, rtail, end, blk, met,
                 delivered>>

-----------------------------------------------------------------------------
(* queue_get_nonblocking_multi and queue_get_blocking that repeats it.     *)

GetBegin(r, k, b) ==
  /\ Goto(r, {"idle"}, "getRead")
  /\ want' = [want EXCEPT ![r] = k]
  /\ blk' = [blk EXCEPT ![r] = b]
  /\ UNCHANGED <<ring, rhead, rtail, pos, end, met>>

GetReadHead(r) ==
  /\ Goto(r, {"getRead"}, "getTail")
  /\ rhead' = [rhead EXCEPT ![r] = head]
  /\ StartMet(r)
  /\ UNCHANGED <<ring, rtail, pos, end, want, blk>>

GetReadTail(r) ==
  /\ Goto(r, {"getRead"}, "getHead")
  /\ rtail' = [rtail EXCEPT ![r] = tail]
  /\ StartMet(r)
  /\ UNCHANGED <<ring, rhead, pos, end, want, blk>>

SeenEmptyOffByOne(t, h) == t - h <= 1
SeenEmpty(t, h) == t - h <= 0

GetEmpty(r) ==
  /\ SeenEmpty(TailSeen(r), HeadSeen(r))
  /\ Goto(r, {"getHead", "getTail"}, IF blk[r] THEN "getRead" ELSE "idle")
  /\ Forget(r)
  /\ EndMet(r)
  /\ UNCHANGED <<ring, pos, end, want, blk>>

GetSome(r) ==
  /\ ~SeenEmpty(TailSeen(r), HeadSeen(r))
  /\ Goto(r, {"getHead", "getTail"}, "getClaim")
  /\ rhead' = [rhead EXCEPT ![r] = HeadSeen(r)]
  /\ rtail' = [rtail EXCEPT ![r] = TailSeen(r)]
  /\ EndMet(r)
  /\ UNCHANGED <<ring, pos, end, want, blk>>

(* The compare-and-swap on head.                                           *)
GetClaim(r) ==
  LET delta == Minimum(rtail[r] - rhead[r], want[r])
  IN  /\ head = rhead[r]
      /\ Goto(r, {"getClaim"}, "getSlot")
      /\ head' = head + delta
      /\ pos' = [pos EXCEPT ![r] = head]
      /\ end' = [end EXCEPT ![r] = head + delta]
      /\ Forget(r)
      /\ UNCHANGED <<tail, status, content, want, blk, seq, delivered>>
      /\ ClaimMet(Readers)

GetRetry(r) ==
  /\ head # rhead[r]
  /\ Goto(r, {"getClaim"}, "getRead")
  /\ Forget(r)
  /\ UNCHANGED <<ring, pos, end, want, blk, met>>

GetSlotUnguarded(r) ==
  /\ Goto(r, {"getSlot"}, "getCopy")
  /\ status' = [status EXCEPT ![SlotOf(r)] = READING]
  /\ UNCHANGED <<head, tail, content, rhead, rtail, pos, end, want, blk, met,
                 seq, delivered>>

(* The reader spins until its compare-and-swap 2 -> 3 succeeds.            *)
GetSlot(r) ==
  /\ status[SlotOf(r)] = FULL
  /\ Goto(r, {"getSlot"}, "getCopy")
  /\ status' = [status EXCEPT ![SlotOf(r)] = READING]
  /\ UNCHANGED <<head, tail, content, rhead, rtail, pos, end, want, blk, met,
                 seq, delivered>>

GetCopy(r) ==
  /\ Goto(r, {"getCopy"}, "getRelease")
  /\ delivered' = delivered \cup {content[SlotOf(r)]}
  /\ UNCHANGED <<head, tail, status, content, rhead, rtail, pos, end, want,
                 blk, met, seq>>

(* The asserted compare-and-swap 3 -> 0 and the end of the loop body.      *)
GetRelease(r) ==
  /\ status' = [status EXCEPT ![SlotOf(r)] = EMPTY]
  /\ pos' = [pos EXCEPT ![r] = @ + 1]
  /\ Goto(r, {"getRelease"}, IF pos[r] + 1 < end[r] THEN "getSlot" ELSE "idle")
  /\ UNCHANGED <<head, tail, content, rhead, rtail, end, want, blk, met,
                 seq, delivered>>

-----------------------------------------------------------------------------
(* The steps of a call that has started.                                   *)
PutStep(w) ==
  \/ PutReadTail(w) \/ PutReadHead(w) \/ PutFull(w) \/ PutRoom(w)
  \/ PutClaim(w) \/ PutRetry(w) \/ PutSlot(w) \/ PutCopy(w) \/ PutPublish(w)

GetStep(r) ==
  \/ GetReadHead(r) \/ GetReadTail(r) \/ GetEmpty(r) \/ GetSome(r)
  \/ GetClaim(r) \/ GetRetry(r) \/ GetSlot(r) \/ GetCopy(r) \/ GetRelease(r)

Next ==
  \/ \E w \in Writers :
       \/ \E k \in PutSizes, b \in BOOLEAN : PutBegin(w, k, b)
       \/ PutStep(w)
  \/ \E r \in Readers :
       \/ \E k \in GetSizes, b \in BOOLEAN : GetBegin(r, k, b)
       \/ GetStep(r)

Spec == Init /\ [][Next]_vars

(* A thread that has begun a call keeps running: it is never descheduled   *)
(* for ever.  Nothing obliges a thread to begin a call.                    *)
Fairness ==
  /\ \A w \in Writers : WF_vars(PutStep(w))
  /\ \A r \in Readers : WF_vars(GetStep(r))

FairSpec == Spec /\ Fairness

-----------------------------------------------------------------------------
PutLabels == {"putRead", "putTail", "putHead", "putClaim",
               "putSlot", "putCopy", "putPublish"}
GetLabels == {"getRead", "getHead", "getTail", "getClaim",
               "getSlot", "getCopy", "getRelease"}

(* Types: indices are naturals, each slot is in one of its four states and *)
(* a thread is only ever at a label of its own kind of call.               *)
TypeOK ==
  /\ head \in Nat /\ tail \in Nat
  /\ status \in [Slots -> {EMPTY, WRITING, FULL, READING}]
  /\ content \in [Slots -> Elements \cup {NoElement}]
  /\ pc \in [Threads -> {"idle"} \cup PutLabels \cup GetLabels]
  /\ \A w \in Writers : pc[w] \notin GetLabels
  /\ \A r \in Readers : pc[r] \notin PutLabels
  /\ rhead \in [Threads -> Nat] /\ rtail \in [Threads -> Nat]
  /\ pos \in [Threads -> Nat] /\ end \in [Threads -> Nat]
  /\ want \in [Threads -> Int]
  /\ blk \in [Threads -> BOOLEAN]
  /\ met \subseteq {t \in Threads : pc[t] \in SecondLoad}
  /\ seq \in [Writers -> Nat]

(* The ring never holds more claimed indices than slots, and readers never *)
(* claim what no writer has: although head and tail are read at different  *)
(* moments, a successful compare-and-swap on one of them still bounds it   *)
(* by the other (queue.c 112-130 and 190-208).                             *)
IndexBounds == head <= tail /\ tail <= head + Capacity

Busy(t) == pc[t] \in {"putCopy", "putPublish", "getCopy", "getRelease"}

(* The two assert(compare_and_swap) of queue.c (159 and 235) never fail    *)
(* and no two memcpys ever touch one slot at the same time, however many   *)
(* writers and readers have claims on that slot.                           *)
SlotExclusion ==
  /\ \A w \in Writers : Busy(w) => status[SlotOf(w)] = WRITING
  /\ \A r \in Readers : Busy(r) => status[SlotOf(r)] = READING
  /\ \A t, u \in Threads : t # u /\ Busy(t) /\ Busy(u) => SlotOf(t) # SlotOf(u)

(* The claimed, not yet finished indices of a thread.                      *)
Claimed(t) ==
  IF pc[t] \in {"putSlot", "putCopy", "putPublish", "getSlot", "getCopy", "getRelease"}
  THEN pos[t] .. end[t] - 1 ELSE {}
Claims(T, s) == Cardinality({c \in T \X (0 .. tail) : c[2] \in Claimed(c[1]) /\ Slot(c[2]) = s})

(* No orphaned wait.  In each slot the unfinished writes, less the         *)
(* unfinished reads, plus the element stored there, are exactly the        *)
(* indices of that slot between head and tail.  Hence a reader spinning on *)
(* an empty slot always has a writer that still owes an element to that    *)
(* slot, and a writer spinning on a full one a reader that will empty it,  *)
(* even when a fast writer overtakes a slow one a lap behind.              *)
SlotBalance ==
  \A s \in Slots :
    Claims(Writers, s) - Claims(Readers, s)
      + (IF status[s] \in {FULL, READING} THEN 1 ELSE 0)
    = Cardinality({i \in head .. tail - 1 : Slot(i) = s})

(* A get returns 0 only if, between its two loads, the queue was empty at  *)
(* some moment (the comment of queue.c 115: "If the queue is currently     *)
(* empty") or another get claimed something.  So no element is passed over *)
(* while nobody takes one: with several readers, a get that finds nothing  *)
(* in a queue that was never empty has been overtaken by one that found    *)
(* something, and a reader that is alone, as the agent is on the complete, *)
(* trigger and breadcrumb queues, can take "empty" at its word.  It holds  *)
(* for both orders of the loads, the compiler's included.                  *)
EmptyOrOvertaken ==
  [][\A r \in Readers :
       pc[r] \in SecondLoad /\ pc'[r] \in {"idle", "getRead"} => r \in met]_vars

(* A put returns 0 only if, between its two loads, the queue was full at   *)
(* some moment (the comment of queue.c 193: "If the queue is currently     *)
(* full") or another put claimed something.  The difference that is        *)
(* negative and so counts as full (queue.c 195) arises only in the second  *)
(* case: a non-blocking put, whose caller then drops the trigger or the    *)
(* breadcrumb, loses only to a put that got in.                            *)
FullOrOvertaken ==
  [][\A w \in Writers :
       pc[w] \in SecondLoad /\ pc'[w] \in {"idle", "putRead"} => w \in met]_vars

(* Every claim is worked off: a thread that has claimed indices finishes   *)
(* them without waiting for a call that has not begun (the spin loops of   *)
(* queue.c 145-151 and 221-227 terminate).                                 *)
ClaimsFinish ==
  /\ \A w \in Writers : Claimed(w) # {} ~> Claimed(w) = {}
  /\ \A r \in Readers : Claimed(r) # {} ~> Claimed(r) = {}

(* The slots whose element has been published and not yet copied out.      *)
Holding ==
  {s \in Slots : \/ status[s] = FULL
                 \/ \E r \in Readers : pc[r] = "getCopy" /\ SlotOf(r) = s}
Stored == {content[s] : s \in Holding}

Pool == INSTANCE ElementPool WITH
          Element <- Elements, Limit <- Capacity, stored <- Stored, taken <- delivered

(* Exactly-once transfer.  The ring implements the pool: an element enters *)
(* at the 1 -> 2 transition of its slot and leaves when a reader copies it *)
(* out, it is copied out at most once, it is copied out whole, and no      *)
(* element is overwritten before that, with any number of writers and      *)
(* readers racing for the same slots.                                      *)
ImplementsPool == Pool!Spec
=============================================================================
