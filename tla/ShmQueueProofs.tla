--------------------------- MODULE ShmQueueProofs ---------------------------
(***************************************************************************)
(* Proofs about ShmQueue for any finite or infinite set of writers and     *)
(* readers, any capacity and any request sizes: types, index bounds, the   *)
(* exclusive use of slots, the balance of puts and gets in each slot, what *)
(* an "empty" or "full" answer means, and that the ring is an ElementPool. *)
(***************************************************************************)
EXTENDS ShmQueue, TLAPS

(* What a thread knows of head and tail at each label.  Its local copies   *)
(* are stale but can only lag behind, because head and tail only grow.     *)
WriterInv(w) ==
  /\ pc[w] = "putHead" => rtail[w] <= tail
  /\ pc[w] = "putTail" => rhead[w] <= head
  /\ pc[w] = "putClaim" =>
       /\ rtail[w] <= tail
       /\ rhead[w] <= head
       /\ rtail[w] - rhead[w] >= 0
       /\ rtail[w] - rhead[w] < Capacity
  /\ pc[w] \in PutLabels => want[w] >= 1 /\ seq[w] + want[w] <= MaxPuts
  /\ pc[w] \in {"putSlot", "putCopy", "putPublish"} =>
       pos[w] < end[w] /\ end[w] - pos[w] <= want[w]

ReaderInv(r) ==
  /\ pc[r] = "getTail" => rhead[r] <= head
  /\ pc[r] = "getHead" => rtail[r] <= tail
  /\ pc[r] = "getClaim" =>
       /\ rhead[r] <= head
       /\ rtail[r] <= tail
       /\ rtail[r] - rhead[r] > 0
  /\ pc[r] \in GetLabels => want[r] >= 1
  /\ pc[r] \in {"getSlot", "getCopy", "getRelease"} => pos[r] < end[r]

CallInv ==
  /\ IndexBounds
  /\ \A w \in Writers : WriterInv(w)
  /\ \A r \in Readers : ReaderInv(r)

IndInv == TypeOK /\ CallInv

USE DEF Threads, EMPTY, WRITING, FULL, READING
(* Leaves are first-order unless they say SMT, which does arithmetic.      *)
USE ZenonT(40)

(* A slot index is a slot.                                                 *)
LEMMA SlotType == \A i \in Nat : Slot(i) \in Slots
  BY CapacityPositive, SMT DEF Slot, Slots

LEMMA SlotOfType == TypeOK => \A t \in Threads : SlotOf(t) \in Slots
  BY SlotType DEF TypeOK, SlotOf

LEMMA InitIndInv == Init => IndInv
  BY CapacityPositive, SMT
  DEF Init, IndInv, TypeOK, CallInv, WriterInv, ReaderInv, IndexBounds, PutLabels, GetLabels,
      NoElement, SecondLoad

(* What one thread knows survives the steps of the others: head and tail   *)
(* only grow.                                                              *)
Same(t) ==
  /\ pc'[t] = pc[t] /\ rhead'[t] = rhead[t] /\ rtail'[t] = rtail[t]
  /\ want'[t] = want[t] /\ pos'[t] = pos[t] /\ end'[t] = end[t]

LEMMA OthersKeep ==
  ASSUME IndInv, NEW t \in Threads, \A u \in Threads : u # t => Same(u),
         head' \in Nat, tail' \in Nat, head <= head', tail <= tail',
         \A w \in Writers : w # t => seq'[w] = seq[w]
  PROVE  /\ \A w \in Writers : w # t => WriterInv(w)'
         /\ \A r \in Readers : r # t => ReaderInv(r)'
  <1>1. /\ head \in Nat /\ tail \in Nat
        /\ rhead \in [Threads -> Nat] /\ rtail \in [Threads -> Nat]
    BY DEF IndInv, TypeOK
  <1>2. ASSUME NEW w \in Writers, w # t PROVE WriterInv(w)'
    <2>1. WriterInv(w) /\ Same(w) /\ seq'[w] = seq[w]
      BY <1>2 DEF IndInv, CallInv
    <2>2. rhead[w] \in Nat /\ rtail[w] \in Nat
      BY <1>1
    <2> QED
      BY <1>1, <2>1, <2>2, SMT DEF WriterInv, Same
  <1>3. ASSUME NEW r \in Readers, r # t PROVE ReaderInv(r)'
    <2>1. ReaderInv(r) /\ Same(r)
      BY <1>3 DEF IndInv, CallInv
    <2>2. rhead[r] \in Nat /\ rtail[r] \in Nat
      BY <1>1
    <2> QED
      BY <1>1, <2>1, <2>2, SMT DEF ReaderInv, Same
  <1> QED
    BY <1>2, <1>3

(* A writer's claim: the compare-and-swap succeeded, so its tail is        *)
(* current, and the head it read can only lag, so there is room.           *)
LEMMA PutClaimIndInv == ASSUME IndInv, NEW w \in Writers, PutClaim(w) PROVE IndInv'
  <1> DEFINE n == Minimum(Capacity - (rtail[w] - rhead[w]), want[w])
  <1>t. /\ head \in Nat /\ tail \in Nat /\ rhead[w] \in Nat /\ rtail[w] \in Nat
        /\ want[w] \in Int /\ w \in Threads
    BY DEF IndInv, TypeOK
  <1>0. /\ pc[w] = "putClaim" /\ tail = rtail[w] /\ tail' = tail + n /\ head' = head
        /\ seq' = seq /\ want' = want /\ blk' = blk /\ status' = status /\ content' = content
        /\ pc' = [pc EXCEPT ![w] = "putSlot"]
        /\ pos' = [pos EXCEPT ![w] = tail] /\ end' = [end EXCEPT ![w] = tail + n]
        /\ rhead' = [rhead EXCEPT ![w] = 0] /\ rtail' = [rtail EXCEPT ![w] = 0]
        /\ met' = met \cup {t \in Threads : pc[t] \in SecondLoad /\ (t \in Writers \/ AtLimit(t)')}
    BY DEF PutClaim, Goto, Forget, ClaimMet
  <1>w. WriterInv(w) /\ IndexBounds
    BY DEF IndInv, CallInv
  <1>1. n \in Nat /\ n >= 1 /\ n <= want[w] /\ n <= Capacity - (rtail[w] - rhead[w])
    BY <1>t, <1>0, <1>w, CapacityPositive, SMT DEF WriterInv, Minimum, PutLabels
  <1> HIDE DEF n
  <1>2. IndexBounds'
    BY <1>t, <1>0, <1>w, <1>1, CapacityPositive, SMT DEF IndexBounds, WriterInv
  <1>3. TypeOK'
    <2>1. head' \in Nat /\ tail' \in Nat
      BY <1>t, <1>0, <1>1, SMT
    <2>2. /\ rhead' \in [Threads -> Nat] /\ rtail' \in [Threads -> Nat]
          /\ pos' \in [Threads -> Nat] /\ end' \in [Threads -> Nat]
      BY <1>t, <1>0, <1>1, SMT DEF IndInv, TypeOK
    <2>3. /\ pc' \in [Threads -> {"idle"} \cup PutLabels \cup GetLabels]
          /\ \A v \in Writers : pc'[v] \notin GetLabels
          /\ \A r \in Readers : pc'[r] \notin PutLabels
      BY <1>0, ThreadsDisjoint DEF IndInv, TypeOK, PutLabels, GetLabels
    <2>4. met' \subseteq {t \in Threads : pc'[t] \in SecondLoad}
      BY <1>0 DEF IndInv, TypeOK, SecondLoad
    <2> QED
      BY <1>0, <2>1, <2>2, <2>3, <2>4 DEF IndInv, TypeOK
  <1>4. \A u \in Threads : u # w => Same(u)
    BY <1>0 DEF Same, IndInv, TypeOK
  <1>5. WriterInv(w)'
    <2>1. pc'[w] = "putSlot" /\ pos'[w] = tail /\ end'[w] = tail + n /\ want'[w] = want[w]
      BY <1>0, <1>t DEF IndInv, TypeOK
    <2> QED
      BY <1>t, <1>0, <1>1, <1>w, <2>1, SMT DEF WriterInv, PutLabels
  <1>6. /\ \A v \in Writers : v # w => WriterInv(v)'
        /\ \A r \in Readers : r # w => ReaderInv(r)'
    BY <1>t, <1>0, <1>1, <1>4, OthersKeep, SMT
  <1> QED
    BY <1>2, <1>3, <1>5, <1>6, ThreadsDisjoint DEF IndInv, CallInv

(* A reader's claim: its head is current and the tail it read can only lag.*)
LEMMA GetClaimIndInv == ASSUME IndInv, NEW r \in Readers, GetClaim(r) PROVE IndInv'
  <1> DEFINE n == Minimum(rtail[r] - rhead[r], want[r])
  <1>t. /\ head \in Nat /\ tail \in Nat /\ rhead[r] \in Nat /\ rtail[r] \in Nat
        /\ want[r] \in Int /\ r \in Threads
    BY DEF IndInv, TypeOK
  <1>0. /\ pc[r] = "getClaim" /\ head = rhead[r] /\ head' = head + n /\ tail' = tail
        /\ seq' = seq /\ want' = want /\ blk' = blk /\ status' = status /\ content' = content
        /\ pc' = [pc EXCEPT ![r] = "getSlot"]
        /\ pos' = [pos EXCEPT ![r] = head] /\ end' = [end EXCEPT ![r] = head + n]
        /\ rhead' = [rhead EXCEPT ![r] = 0] /\ rtail' = [rtail EXCEPT ![r] = 0]
        /\ met' = met \cup {t \in Threads : pc[t] \in SecondLoad /\ (t \in Readers \/ AtLimit(t)')}
    BY DEF GetClaim, Goto, Forget, ClaimMet
  <1>w. ReaderInv(r) /\ IndexBounds
    BY DEF IndInv, CallInv
  <1>1. n \in Nat /\ n >= 1 /\ n <= rtail[r] - rhead[r]
    BY <1>t, <1>0, <1>w, SMT DEF ReaderInv, Minimum, GetLabels
  <1> HIDE DEF n
  <1>2. IndexBounds'
    BY <1>t, <1>0, <1>w, <1>1, CapacityPositive, SMT DEF IndexBounds, ReaderInv
  <1>3. TypeOK'
    <2>1. head' \in Nat /\ tail' \in Nat
      BY <1>t, <1>0, <1>1, SMT
    <2>2. /\ rhead' \in [Threads -> Nat] /\ rtail' \in [Threads -> Nat]
          /\ pos' \in [Threads -> Nat] /\ end' \in [Threads -> Nat]
      BY <1>t, <1>0, <1>1, SMT DEF IndInv, TypeOK
    <2>3. /\ pc' \in [Threads -> {"idle"} \cup PutLabels \cup GetLabels]
          /\ \A v \in Writers : pc'[v] \notin GetLabels
          /\ \A q \in Readers : pc'[q] \notin PutLabels
      BY <1>0, ThreadsDisjoint DEF IndInv, TypeOK, PutLabels, GetLabels
    <2>4. met' \subseteq {t \in Threads : pc'[t] \in SecondLoad}
      BY <1>0 DEF IndInv, TypeOK, SecondLoad
    <2> QED
      BY <1>0, <2>1, <2>2, <2>3, <2>4 DEF IndInv, TypeOK
  <1>4. \A u \in Threads : u # r => Same(u)
    BY <1>0 DEF Same, IndInv, TypeOK
  <1>5. ReaderInv(r)'
    <2>1. pc'[r] = "getSlot" /\ pos'[r] = head /\ end'[r] = head + n /\ want'[r] = want[r]
      BY <1>0, <1>t DEF IndInv, TypeOK
    <2> QED
      BY <1>t, <1>0, <1>1, <1>w, <2>1, SMT DEF ReaderInv, GetLabels
  <1>6. /\ \A v \in Writers : v # r => WriterInv(v)'
        /\ \A q \in Readers : q # r => ReaderInv(q)'
    BY <1>t, <1>0, <1>1, <1>4, OthersKeep, SMT
  <1> QED
    BY <1>2, <1>3, <1>5, <1>6, ThreadsDisjoint DEF IndInv, CallInv

(* Publishing an element leaves what is left of the call within its claim. *)
LEMMA PutPublishIndInv == ASSUME IndInv, NEW w \in Writers, PutPublish(w) PROVE IndInv'
  <1>t. /\ pos[w] \in Nat /\ end[w] \in Nat /\ seq[w] \in Nat /\ want[w] \in Int
        /\ head \in Nat /\ tail \in Nat /\ SlotOf(w) \in Slots /\ w \in Threads
    BY SlotOfType DEF IndInv, TypeOK
  <1> DEFINE l == IF pos[w] + 1 < end[w] THEN "putSlot"
                  ELSE IF blk[w] /\ want[w] > 1 THEN "putRead" ELSE "idle"
  <1>0. /\ pc[w] = "putPublish" /\ pc' = [pc EXCEPT ![w] = l]
        /\ status' = [status EXCEPT ![SlotOf(w)] = FULL]
        /\ seq' = [seq EXCEPT ![w] = seq[w] + 1]
        /\ pos' = [pos EXCEPT ![w] = pos[w] + 1]
        /\ want' = [want EXCEPT ![w] = want[w] - 1]
        /\ head' = head /\ tail' = tail /\ content' = content /\ rhead' = rhead
        /\ rtail' = rtail /\ end' = end /\ blk' = blk /\ met' = met
    BY DEF PutPublish, Goto
  <1>l. /\ l \in {"putSlot", "putRead", "idle"}
        /\ l = "putSlot" => pos[w] + 1 < end[w]
        /\ l = "putRead" => want[w] > 1
    OBVIOUS
  <1> HIDE DEF l
  <1>1. TypeOK'
    <2>1. /\ status' \in [Slots -> {EMPTY, WRITING, FULL, READING}]
          /\ seq' \in [Writers -> Nat] /\ pos' \in [Threads -> Nat]
          /\ want' \in [Threads -> Int]
      BY <1>t, <1>0, SMT DEF IndInv, TypeOK
    <2>2. /\ pc' \in [Threads -> {"idle"} \cup PutLabels \cup GetLabels]
          /\ \A v \in Writers : pc'[v] \notin GetLabels
          /\ \A r \in Readers : pc'[r] \notin PutLabels
      BY <1>0, <1>l, ThreadsDisjoint DEF IndInv, TypeOK, PutLabels, GetLabels
    <2>3. met' \subseteq {t \in Threads : pc'[t] \in SecondLoad}
      BY <1>0 DEF IndInv, TypeOK, SecondLoad
    <2> QED
      BY <1>0, <2>1, <2>2, <2>3 DEF IndInv, TypeOK
  <1>2. \A u \in Threads : u # w => Same(u)
    BY <1>0 DEF Same, IndInv, TypeOK
  <1>3. WriterInv(w)'
    <2>1. /\ pc'[w] = l /\ pos'[w] = pos[w] + 1 /\ want'[w] = want[w] - 1
          /\ seq'[w] = seq[w] + 1 /\ end'[w] = end[w]
      BY <1>0, <1>t DEF IndInv, TypeOK
    <2>2. /\ want[w] >= 1 /\ seq[w] + want[w] <= MaxPuts
          /\ pos[w] < end[w] /\ end[w] - pos[w] <= want[w]
      BY <1>0 DEF IndInv, CallInv, WriterInv, PutLabels
    <2> QED
      BY <1>t, <1>l, <2>1, <2>2, MaxPutsNat, SMT DEF WriterInv, PutLabels
  <1>4. \A v \in Writers : v # w => seq'[v] = seq[v]
    BY <1>0 DEF IndInv, TypeOK
  <1>5. /\ \A v \in Writers : v # w => WriterInv(v)'
        /\ \A r \in Readers : r # w => ReaderInv(r)'
    BY <1>t, <1>0, <1>2, <1>4, OthersKeep, SMT
  <1>6. IndexBounds'
    BY <1>0 DEF IndInv, CallInv, IndexBounds
  <1> QED
    BY <1>1, <1>3, <1>5, <1>6, ThreadsDisjoint DEF IndInv, CallInv

(* So does releasing a slot.                                               *)
LEMMA GetReleaseIndInv == ASSUME IndInv, NEW r \in Readers, GetRelease(r) PROVE IndInv'
  <1>t. /\ pos[r] \in Nat /\ end[r] \in Nat
        /\ head \in Nat /\ tail \in Nat /\ SlotOf(r) \in Slots /\ r \in Threads
    BY SlotOfType DEF IndInv, TypeOK
  <1> DEFINE l == IF pos[r] + 1 < end[r] THEN "getSlot" ELSE "idle"
  <1>0. /\ pc[r] = "getRelease" /\ pc' = [pc EXCEPT ![r] = l]
        /\ status' = [status EXCEPT ![SlotOf(r)] = EMPTY]
        /\ pos' = [pos EXCEPT ![r] = pos[r] + 1]
        /\ head' = head /\ tail' = tail /\ content' = content /\ rhead' = rhead
        /\ rtail' = rtail /\ end' = end /\ blk' = blk /\ met' = met
        /\ want' = want /\ seq' = seq
    BY DEF GetRelease, Goto
  <1>l. /\ l \in {"getSlot", "idle"}
        /\ l = "getSlot" => pos[r] + 1 < end[r]
    OBVIOUS
  <1> HIDE DEF l
  <1>1. TypeOK'
    <2>1. /\ status' \in [Slots -> {EMPTY, WRITING, FULL, READING}]
          /\ pos' \in [Threads -> Nat]
      BY <1>t, <1>0, SMT DEF IndInv, TypeOK
    <2>2. /\ pc' \in [Threads -> {"idle"} \cup PutLabels \cup GetLabels]
          /\ \A v \in Writers : pc'[v] \notin GetLabels
          /\ \A q \in Readers : pc'[q] \notin PutLabels
      BY <1>0, <1>l, ThreadsDisjoint DEF IndInv, TypeOK, PutLabels, GetLabels
    <2>3. met' \subseteq {t \in Threads : pc'[t] \in SecondLoad}
      BY <1>0 DEF IndInv, TypeOK, SecondLoad
    <2> QED
      BY <1>0, <2>1, <2>2, <2>3 DEF IndInv, TypeOK
  <1>2. \A u \in Threads : u # r => Same(u)
    BY <1>0 DEF Same, IndInv, TypeOK
  <1>3. ReaderInv(r)'
    <2>1. pc'[r] = l /\ pos'[r] = pos[r] + 1 /\ want'[r] = want[r] /\ end'[r] = end[r]
      BY <1>0, <1>t DEF IndInv, TypeOK
    <2>2. want[r] >= 1
      BY <1>0 DEF IndInv, CallInv, ReaderInv, GetLabels
    <2> QED
      BY <1>t, <1>l, <2>1, <2>2 DEF ReaderInv, GetLabels
  <1>5. /\ \A v \in Writers : v # r => WriterInv(v)'
        /\ \A q \in Readers : q # r => ReaderInv(q)'
    BY <1>t, <1>0, <1>2, OthersKeep, SMTT(20)
  <1>6. IndexBounds'
    BY <1>0 DEF IndInv, CallInv, IndexBounds
  <1> QED
    BY <1>1, <1>3, <1>5, <1>6, ThreadsDisjoint DEF IndInv, CallInv

(* A step of thread t that moves neither head nor tail.                    *)
LEMMA OwnStep ==
  ASSUME IndInv, TypeOK', NEW t \in Threads, \A u \in Threads : u # t => Same(u),
         head' = head, tail' = tail, seq' = seq,
         t \in Writers => WriterInv(t)', t \in Readers => ReaderInv(t)'
  PROVE  IndInv'
  <1>1. head \in Nat /\ tail \in Nat
    BY DEF IndInv, TypeOK
  <1>2. /\ \A w \in Writers : w # t => WriterInv(w)'
        /\ \A r \in Readers : r # t => ReaderInv(r)'
    BY <1>1, OthersKeep, SMT
  <1>3. IndexBounds'
    BY DEF IndInv, CallInv, IndexBounds
  <1> QED
    BY <1>2, <1>3 DEF IndInv, CallInv

(* Every step keeps the types and the bounds on indices.                   *)
LEMMA NextIndInv == IndInv /\ [Next]_vars => IndInv'
  <1> SUFFICES ASSUME IndInv, [Next]_vars PROVE IndInv'
    OBVIOUS
  <1>t. TypeOK
    BY DEF IndInv
  <1>s. \A t \in Threads : SlotOf(t) \in Slots
    BY <1>t, SlotOfType
  <1>w. \A w \in Writers : w \notin Readers /\ w \in Threads /\ WriterInv(w)
    BY ThreadsDisjoint DEF IndInv, CallInv
  <1>r. \A r \in Readers : r \notin Writers /\ r \in Threads /\ ReaderInv(r)
    BY ThreadsDisjoint DEF IndInv, CallInv
  <1>1. ASSUME NEW w \in Writers, NEW k \in PutSizes, NEW b \in BOOLEAN, PutBegin(w, k,
      b) PROVE IndInv'
    <2>1. TypeOK'
      BY <1>1, <1>t, <1>w, SizesPositive, SMT DEF PutBegin, TypeOK, Goto, ring, PutLabels,
          GetLabels, SecondLoad
    <2>2. /\ \A u \in Threads : u # w => Same(u)
          /\ head' = head /\ tail' = tail /\ seq' = seq
      BY <1>1, <1>t DEF PutBegin, Goto, ring, Same, TypeOK
    <2>3. WriterInv(w)'
      BY <1>1, <1>t, <1>w, SizesPositive, MaxPutsNat, SMT DEF PutBegin, Goto, ring, WriterInv,
          PutLabels, TypeOK
    <2> QED
      BY <1>w, <2>1, <2>2, <2>3, OwnStep
  <1>2. ASSUME NEW w \in Writers, PutReadTail(w) PROVE IndInv'
    <2>1. TypeOK'
      BY <1>2, <1>t, <1>w DEF PutReadTail, StartMet, AtLimit, TypeOK, Goto, ring, PutLabels,
          GetLabels, SecondLoad
    <2>2. /\ \A u \in Threads : u # w => Same(u)
          /\ head' = head /\ tail' = tail /\ seq' = seq
      BY <1>2, <1>t DEF PutReadTail, Goto, ring, Same, TypeOK
    <2>3. WriterInv(w)'
      BY <1>2, <1>t, <1>w, SMT DEF PutReadTail, Goto, ring, WriterInv, PutLabels, TypeOK
    <2> QED
      BY <1>w, <2>1, <2>2, <2>3, OwnStep
  <1>3. ASSUME NEW w \in Writers, PutReadHead(w) PROVE IndInv'
    <2>1. TypeOK'
      BY <1>3, <1>t, <1>w DEF PutReadHead, StartMet, AtLimit, TypeOK, Goto, ring, PutLabels,
          GetLabels, SecondLoad
    <2>2. /\ \A u \in Threads : u # w => Same(u)
          /\ head' = head /\ tail' = tail /\ seq' = seq
      BY <1>3, <1>t DEF PutReadHead, Goto, ring, Same, TypeOK
    <2>3. WriterInv(w)'
      BY <1>3, <1>t, <1>w, SMT DEF PutReadHead, Goto, ring, WriterInv, PutLabels, TypeOK
    <2> QED
      BY <1>w, <2>1, <2>2, <2>3, OwnStep
  <1>4. ASSUME NEW w \in Writers, PutFull(w) PROVE IndInv'
    <2>1. TypeOK'
      BY <1>4, <1>t, <1>w DEF PutFull, Forget, EndMet, TypeOK, Goto, ring, PutLabels,
          GetLabels, SecondLoad
    <2>2. /\ \A u \in Threads : u # w => Same(u)
          /\ head' = head /\ tail' = tail /\ seq' = seq
      BY <1>4, <1>t DEF PutFull, Forget, Goto, ring, Same, TypeOK
    <2>3. WriterInv(w)'
      BY <1>4, <1>t, <1>w DEF PutFull, Forget, Goto, ring, WriterInv, PutLabels, TypeOK
    <2> QED
      BY <1>w, <2>1, <2>2, <2>3, OwnStep
  <1>5. ASSUME NEW w \in Writers, PutRoom(w) PROVE IndInv'
    <2>1. TypeOK'
      BY <1>5, <1>t, <1>w DEF PutRoom, EndMet, TypeOK, Goto, ring, PutLabels, GetLabels,
          SecondLoad, HeadSeen, TailSeen
    <2>2. /\ \A u \in Threads : u # w => Same(u)
          /\ head' = head /\ tail' = tail /\ seq' = seq
      BY <1>5, <1>t DEF PutRoom, Goto, ring, Same, TypeOK
    <2>3. WriterInv(w)'
      <3>1. /\ TailSeen(w) \in Nat /\ HeadSeen(w) \in Nat
            /\ TailSeen(w) <= tail /\ HeadSeen(w) <= head
        BY <1>5, <1>t, <1>w, SMTT(20) DEF PutRoom, Goto, HeadSeen, TailSeen, WriterInv, TypeOK
      <3>2. /\ pc[w] \in PutLabels /\ pc'[w] = "putClaim"
            /\ rhead'[w] = HeadSeen(w) /\ rtail'[w] = TailSeen(w)
            /\ want'[w] = want[w] /\ seq'[w] = seq[w] /\ head' = head /\ tail' = tail
        BY <1>5, <1>t, <1>w DEF PutRoom, Goto, ring, PutLabels, TypeOK
      <3>3. ~SeenFull(TailSeen(w), HeadSeen(w))
        BY <1>5 DEF PutRoom
      <3> QED
        BY <1>w, <3>1, <3>2, <3>3, CapacityPositive, SMTT(20) DEF SeenFull, WriterInv, PutLabels
    <2> QED
      BY <1>w, <2>1, <2>2, <2>3, OwnStep
  <1>6. ASSUME NEW w \in Writers, PutRetry(w) PROVE IndInv'
    <2>1. TypeOK'
      BY <1>6, <1>t, <1>w DEF PutRetry, Forget, TypeOK, Goto, ring, PutLabels, GetLabels,
          SecondLoad
    <2>2. /\ \A u \in Threads : u # w => Same(u)
          /\ head' = head /\ tail' = tail /\ seq' = seq
      BY <1>6, <1>t DEF PutRetry, Forget, Goto, ring, Same, TypeOK
    <2>3. WriterInv(w)'
      BY <1>6, <1>t, <1>w DEF PutRetry, Forget, Goto, ring, WriterInv, PutLabels, TypeOK
    <2> QED
      BY <1>w, <2>1, <2>2, <2>3, OwnStep
  <1>7. ASSUME NEW w \in Writers, PutSlot(w) PROVE IndInv'
    <2>1. TypeOK'
      BY <1>7, <1>s, <1>t, <1>w DEF PutSlot, TypeOK, Goto, ring, PutLabels, GetLabels,
          SecondLoad
    <2>2. /\ \A u \in Threads : u # w => Same(u)
          /\ head' = head /\ tail' = tail /\ seq' = seq
      BY <1>7, <1>t DEF PutSlot, Goto, ring, Same, TypeOK
    <2>3. WriterInv(w)'
      BY <1>7, <1>t, <1>w DEF PutSlot, Goto, ring, WriterInv, PutLabels, TypeOK
    <2> QED
      BY <1>w, <2>1, <2>2, <2>3, OwnStep
  <1>8. ASSUME NEW w \in Writers, PutCopy(w) PROVE IndInv'
    <2>1. TypeOK'
      <3>1. <<w, seq[w]>> \in Elements /\ pc[w] = "putCopy"
        BY <1>8, <1>t, <1>w, MaxPutsNat, SMTT(20) DEF PutCopy, Goto, WriterInv, PutLabels, TypeOK, Elements
      <3> QED
        BY <1>8, <1>s, <1>t, <1>w, <3>1 DEF PutCopy, TypeOK, Goto, PutLabels, GetLabels,
            SecondLoad
    <2>2. /\ \A u \in Threads : u # w => Same(u)
          /\ head' = head /\ tail' = tail /\ seq' = seq
      BY <1>8, <1>t DEF PutCopy, Goto, ring, Same, TypeOK
    <2>3. WriterInv(w)'
      BY <1>8, <1>t, <1>w DEF PutCopy, Goto, ring, WriterInv, PutLabels, TypeOK
    <2> QED
      BY <1>w, <2>1, <2>2, <2>3, OwnStep
  <1>9. ASSUME NEW w \in Writers, PutClaim(w) PROVE IndInv'
    BY <1>9, PutClaimIndInv
  <1>10. ASSUME NEW w \in Writers, PutPublish(w) PROVE IndInv'
    BY <1>10, PutPublishIndInv
  <1>11. ASSUME NEW r \in Readers, NEW k \in GetSizes, NEW b \in BOOLEAN, GetBegin(r, k,
      b) PROVE IndInv'
    <2>1. TypeOK'
      BY <1>11, <1>t, <1>r, SizesPositive, SMT DEF GetBegin, TypeOK, Goto, ring, PutLabels,
          GetLabels, SecondLoad
    <2>2. /\ \A u \in Threads : u # r => Same(u)
          /\ head' = head /\ tail' = tail /\ seq' = seq
      BY <1>11, <1>t DEF GetBegin, Goto, ring, Same, TypeOK
    <2>3. ReaderInv(r)'
      BY <1>11, <1>t, <1>r, SizesPositive, MaxPutsNat, SMTT(20) DEF GetBegin, Goto, ring, ReaderInv,
          GetLabels, TypeOK
    <2> QED
      BY <1>r, <2>1, <2>2, <2>3, OwnStep
  <1>12. ASSUME NEW r \in Readers, GetReadHead(r) PROVE IndInv'
    <2>1. TypeOK'
      BY <1>12, <1>t, <1>r, SMT DEF GetReadHead, StartMet, AtLimit, TypeOK, Goto, ring, PutLabels,
          GetLabels, SecondLoad
    <2>2. /\ \A u \in Threads : u # r => Same(u)
          /\ head' = head /\ tail' = tail /\ seq' = seq
      BY <1>12, <1>t DEF GetReadHead, Goto, ring, Same, TypeOK
    <2>3. ReaderInv(r)'
      BY <1>12, <1>t, <1>r, SMTT(20) DEF GetReadHead, Goto, ring, ReaderInv, GetLabels, TypeOK
    <2> QED
      BY <1>r, <2>1, <2>2, <2>3, OwnStep
  <1>13. ASSUME NEW r \in Readers, GetReadTail(r) PROVE IndInv'
    <2>1. TypeOK'
      BY <1>13, <1>t, <1>r, SMTT(20) DEF GetReadTail, StartMet, AtLimit, TypeOK, Goto, ring, PutLabels,
          GetLabels, SecondLoad
    <2>2. /\ \A u \in Threads : u # r => Same(u)
          /\ head' = head /\ tail' = tail /\ seq' = seq
      BY <1>13, <1>t DEF GetReadTail, Goto, ring, Same, TypeOK
    <2>3. ReaderInv(r)'
      BY <1>13, <1>t, <1>r, SMT DEF GetReadTail, Goto, ring, ReaderInv, GetLabels, TypeOK
    <2> QED
      BY <1>r, <2>1, <2>2, <2>3, OwnStep
  <1>14. ASSUME NEW r \in Readers, GetEmpty(r) PROVE IndInv'
    <2>1. TypeOK'
      BY <1>14, <1>t, <1>r DEF GetEmpty, Forget, EndMet, TypeOK, Goto, ring, PutLabels,
          GetLabels, SecondLoad
    <2>2. /\ \A u \in Threads : u # r => Same(u)
          /\ head' = head /\ tail' = tail /\ seq' = seq
      BY <1>14, <1>t DEF GetEmpty, Forget, Goto, ring, Same, TypeOK
    <2>3. ReaderInv(r)'
      BY <1>14, <1>t, <1>r DEF GetEmpty, Forget, Goto, ring, ReaderInv, GetLabels, TypeOK
    <2> QED
      BY <1>r, <2>1, <2>2, <2>3, OwnStep
  <1>15. ASSUME NEW r \in Readers, GetSome(r) PROVE IndInv'
    <2>1. TypeOK'
      BY <1>15, <1>t, <1>r DEF GetSome, EndMet, TypeOK, Goto, ring, PutLabels, GetLabels,
          SecondLoad, HeadSeen, TailSeen
    <2>2. /\ \A u \in Threads : u # r => Same(u)
          /\ head' = head /\ tail' = tail /\ seq' = seq
      BY <1>15, <1>t DEF GetSome, Goto, ring, Same, TypeOK
    <2>3. ReaderInv(r)'
      BY <1>15, <1>t, <1>r, SMTT(20) DEF GetSome, SeenEmpty, HeadSeen, TailSeen, Goto, ring, ReaderInv,
          GetLabels, TypeOK
    <2> QED
      BY <1>r, <2>1, <2>2, <2>3, OwnStep
  <1>16. ASSUME NEW r \in Readers, GetRetry(r) PROVE IndInv'
    <2>1. TypeOK'
      BY <1>16, <1>t, <1>r DEF GetRetry, Forget, TypeOK, Goto, ring, PutLabels, GetLabels,
          SecondLoad
    <2>2. /\ \A u \in Threads : u # r => Same(u)
          /\ head' = head /\ tail' = tail /\ seq' = seq
      BY <1>16, <1>t DEF GetRetry, Forget, Goto, ring, Same, TypeOK
    <2>3. ReaderInv(r)'
      BY <1>16, <1>t, <1>r DEF GetRetry, Forget, Goto, ring, ReaderInv, GetLabels, TypeOK
    <2> QED
      BY <1>r, <2>1, <2>2, <2>3, OwnStep
  <1>17. ASSUME NEW r \in Readers, GetSlot(r) PROVE IndInv'
    <2>1. TypeOK'
      BY <1>17, <1>s, <1>t, <1>r DEF GetSlot, TypeOK, Goto, ring, PutLabels, GetLabels,
          SecondLoad
    <2>2. /\ \A u \in Threads : u # r => Same(u)
          /\ head' = head /\ tail' = tail /\ seq' = seq
      BY <1>17, <1>t DEF GetSlot, Goto, ring, Same, TypeOK
    <2>3. ReaderInv(r)'
      BY <1>17, <1>t, <1>r DEF GetSlot, Goto, ring, ReaderInv, GetLabels, TypeOK
    <2> QED
      BY <1>r, <2>1, <2>2, <2>3, OwnStep
  <1>18. ASSUME NEW r \in Readers, GetCopy(r) PROVE IndInv'
    <2>1. TypeOK'
      BY <1>18, <1>t, <1>r DEF GetCopy, TypeOK, Goto, ring, PutLabels, GetLabels, SecondLoad
    <2>2. /\ \A u \in Threads : u # r => Same(u)
          /\ head' = head /\ tail' = tail /\ seq' = seq
      BY <1>18, <1>t DEF GetCopy, Goto, ring, Same, TypeOK
    <2>3. ReaderInv(r)'
      BY <1>18, <1>t, <1>r DEF GetCopy, Goto, ring, ReaderInv, GetLabels, TypeOK
    <2> QED
      BY <1>r, <2>1, <2>2, <2>3, OwnStep
  <1>19. ASSUME NEW r \in Readers, GetClaim(r) PROVE IndInv'
    BY <1>19, GetClaimIndInv
  <1>20. ASSUME NEW r \in Readers, GetRelease(r) PROVE IndInv'
    BY <1>20, GetReleaseIndInv
  <1>21. CASE UNCHANGED vars
    BY <1>21 DEF vars, IndInv, TypeOK, CallInv, WriterInv, ReaderInv, IndexBounds
  <1> QED
    BY <1>1, <1>2, <1>3, <1>4, <1>5, <1>6, <1>7, <1>8, <1>9, <1>10, <1>11, <1>12, <1>13, <1>14,
        <1>15, <1>16, <1>17, <1>18, <1>19, <1>20, <1>21
    DEF Next, PutStep, GetStep

(* The type invariant of the ring holds in every reachable state.          *)
THEOREM TypeCorrect == Spec => []TypeOK
  <1>1. IndInv => TypeOK
    BY DEF IndInv
  <1> QED
    BY InitIndInv, NextIndInv, <1>1, PTL DEF Spec

(* The stale-read argument of the two claims: for every capacity and any   *)
(* number of callers, head <= tail <= head + Capacity.                     *)
THEOREM IndexBoundsHold == Spec => []IndexBounds
  <1>1. IndInv => IndexBounds
    BY DEF IndInv, CallInv
  <1> QED
    BY InitIndInv, NextIndInv, <1>1, PTL DEF Spec

-----------------------------------------------------------------------------
(* Slot exclusion is inductive on top of the types.                        *)
LEMMA NextSlotExclusion == IndInv /\ SlotExclusion /\ [Next]_vars => SlotExclusion'
  <1> SUFFICES ASSUME IndInv, SlotExclusion, [Next]_vars PROVE SlotExclusion'
    OBVIOUS
  <1>s. \A t \in Threads : SlotOf(t) \in Slots
    BY SlotOfType DEF IndInv
  <1>t. /\ pc \in [Threads -> {"idle"} \cup PutLabels \cup GetLabels]
        /\ pos \in [Threads -> Nat]
        /\ status \in [Slots -> {EMPTY, WRITING, FULL, READING}]
    BY DEF IndInv, TypeOK
  <1> USE ThreadsDisjoint, <1>s, <1>t DEF SlotExclusion, Busy, SlotOf, Goto, ring
  <1>1. ASSUME NEW w \in Writers, NEW k \in PutSizes, NEW b \in BOOLEAN, PutBegin(w, k, b)
        PROVE  SlotExclusion'
    BY <1>1 DEF PutBegin
  <1>2. ASSUME NEW w \in Writers,
               PutReadTail(w) \/ PutReadHead(w) \/ PutFull(w) \/ PutRoom(w) \/ PutRetry(w)
        PROVE  SlotExclusion'
    <2>1. PICK l \in {"putHead", "putTail", "putRead", "putClaim", "idle"} :
            pc' = [pc EXCEPT ![w] = l]
      BY <1>2 DEF PutReadTail, PutReadHead, PutFull, PutRoom, PutRetry
    <2>2. status' = status /\ pos' = pos
      BY <1>2 DEF PutReadTail, PutReadHead, PutFull, PutRoom, PutRetry
    <2> QED
      BY <2>1, <2>2
  <1>3. ASSUME NEW w \in Writers, PutClaim(w) PROVE SlotExclusion'
    BY <1>3 DEF PutClaim
  <1>4. ASSUME NEW w \in Writers, PutSlot(w) PROVE SlotExclusion'
    <2>1. /\ pc' = [pc EXCEPT ![w] = "putCopy"] /\ pos' = pos
          /\ status[SlotOf(w)] = EMPTY /\ status' = [status EXCEPT ![SlotOf(w)] = WRITING]
      BY <1>4 DEF PutSlot
    <2>2. w \in Threads /\ \A t \in Threads : SlotOf(t)' = SlotOf(t)
      BY <2>1 DEF Threads
    <2>3. \A t \in Threads : Busy(t) => SlotOf(t) # SlotOf(w)
      BY <2>1, SMT DEF Threads, EMPTY, WRITING, READING
    <2>4. \A t \in Threads : Busy(t)' => t = w \/ Busy(t)
      BY <2>1, <2>2
    <2> HIDE DEF SlotOf, Busy
    <2> QED
      BY <2>1, <2>2, <2>3, <2>4, SMT DEF Threads
  <1>5. ASSUME NEW w \in Writers, PutCopy(w) PROVE SlotExclusion'
    BY <1>5, ZenonT(40) DEF PutCopy
  <1>6. ASSUME NEW w \in Writers, PutPublish(w) PROVE SlotExclusion'
    BY <1>6, SMTT(20) DEF PutPublish
  <1>7. ASSUME NEW r \in Readers, NEW k \in GetSizes, NEW b \in BOOLEAN, GetBegin(r, k, b)
        PROVE  SlotExclusion'
    BY <1>7 DEF GetBegin
  <1>8. ASSUME NEW r \in Readers,
               GetReadHead(r) \/ GetReadTail(r) \/ GetEmpty(r) \/ GetSome(r) \/ GetRetry(r)
        PROVE  SlotExclusion'
    <2>1. PICK l \in {"getHead", "getTail", "getRead", "getClaim", "idle"} :
            pc' = [pc EXCEPT ![r] = l]
      BY <1>8 DEF GetReadHead, GetReadTail, GetEmpty, GetSome, GetRetry
    <2>2. status' = status /\ pos' = pos
      BY <1>8 DEF GetReadHead, GetReadTail, GetEmpty, GetSome, GetRetry
    <2> QED
      BY <2>1, <2>2
  <1>9. ASSUME NEW r \in Readers, GetClaim(r) PROVE SlotExclusion'
    BY <1>9 DEF GetClaim
  <1>10. ASSUME NEW r \in Readers, GetSlot(r) PROVE SlotExclusion'
    BY <1>10, SMTT(20) DEF GetSlot
  <1>11. ASSUME NEW r \in Readers, GetCopy(r) PROVE SlotExclusion'
    BY <1>11, SMTT(20) DEF GetCopy
  <1>12. ASSUME NEW r \in Readers, GetRelease(r) PROVE SlotExclusion'
    BY <1>12 DEF GetRelease
  <1>13. CASE UNCHANGED vars
    BY <1>13 DEF vars
  <1> HIDE DEF SlotExclusion, Goto, ring
  <1> QED
    BY <1>1, <1>2, <1>3, <1>4, <1>5, <1>6, <1>7, <1>8, <1>9, <1>10, <1>11, <1>12, <1>13
    DEF Next, PutStep, GetStep

(* Both asserts of queue.c hold and no two threads copy into or out of the *)
(* same slot at once.                                                      *)
THEOREM SlotExclusionHolds == Spec => []SlotExclusion
  <1>1. Init => SlotExclusion
    BY DEF Init, SlotExclusion, Busy
  <1> QED
    BY InitIndInv, NextIndInv, NextSlotExclusion, <1>1, PTL DEF Spec
-----------------------------------------------------------------------------
(***************************************************************************)
(* The balance of each slot between claimed and finished indices.          *)
(***************************************************************************)
Claiming == {"putSlot", "putCopy", "putPublish", "getSlot", "getCopy", "getRelease"}
Unfinished(T, s) == {c \in T \X (0 .. tail) : c[2] \in Claimed(c[1]) /\ Slot(c[2]) = s}
Queued(s) == {i \in head .. tail - 1 : Slot(i) = s}
Stores(s) == IF status[s] \in {FULL, READING} THEN 1 ELSE 0

\* nobody has claimed beyond tail
ClaimInv == \A t \in Threads : pc[t] \in Claiming => end[t] <= tail

\* what is counted is finite although there may be infinitely many threads
SlotInv(s) ==
  /\ IsFiniteSet(Unfinished(Writers, s)) /\ IsFiniteSet(Unfinished(Readers, s))
  /\ Cardinality(Unfinished(Writers, s)) - Cardinality(Unfinished(Readers, s)) + Stores(s)
       = Cardinality(Queued(s))

BalanceInv == ClaimInv /\ \A s \in Slots : SlotInv(s)

\* what is used of finite sets
CountFacts ==
  /\ \A S : IsFiniteSet(S) => Cardinality(S) \in Nat
  /\ \A S, D : IsFiniteSet(S) /\ D \subseteq S =>
        /\ IsFiniteSet(D) /\ IsFiniteSet(S \ D)
        /\ Cardinality(S \ D) = Cardinality(S) - Cardinality(D)
  /\ \A S, A : IsFiniteSet(S) /\ IsFiniteSet(A) /\ S \cap A = {} =>
        IsFiniteSet(S \cup A) /\ Cardinality(S \cup A) = Cardinality(S) + Cardinality(A)
  /\ \A x, S : IsFiniteSet(S) => IsFiniteSet({x} \X S) /\ Cardinality({x} \X S) = Cardinality(S)
  /\ \A x : IsFiniteSet({x}) /\ Cardinality({x}) = 1
  /\ \A a, b \in Int : IsFiniteSet(a .. b)
  /\ IsFiniteSet({}) /\ Cardinality({}) = 0

(* A thread that moves between labels with the same claim.                 *)
LEMMA ClaimsStay ==
  ASSUME TypeOK, ClaimInv, NEW t \in Threads, NEW l, pc' = [pc EXCEPT ![t] = l],
         l \in Claiming <=> pc[t] \in Claiming, UNCHANGED <<pos, end, tail>>
  PROVE  ClaimInv' /\ \A u \in Threads : Claimed(u)' = Claimed(u)
  <1>1. \A u \in Threads : pc'[u] \in Claiming <=> pc[u] \in Claiming
    BY DEF TypeOK
  <1>2. ClaimInv'
    BY <1>1 DEF ClaimInv
  <1>3. \A u \in Threads : Claimed(u)' = Claimed(u)
    BY <1>1 DEF Claimed, Claiming
  <1> QED
    BY <1>2, <1>3

(* The balance stays when claims and stored elements do.                   *)
LEMMA BalanceStays ==
  ASSUME BalanceInv, ClaimInv', UNCHANGED <<head, tail>>,
         \A u \in Threads : Claimed(u)' = Claimed(u),
         \A s \in Slots : Stores(s)' = Stores(s)
  PROVE  BalanceInv'
  <1>1. \A T \in SUBSET Threads, s \in Slots : Unfinished(T, s)' = Unfinished(T, s)
    <2> SUFFICES ASSUME NEW T \in SUBSET Threads, NEW s \in Slots
                 PROVE  Unfinished(T, s)' = Unfinished(T, s)
      OBVIOUS
    <2>1. \A c \in T \X (0 .. tail) : Claimed(c[1])' = Claimed(c[1])
      OBVIOUS
    <2> QED
      BY <2>1 DEF Unfinished
  <1>2. Writers \in SUBSET Threads /\ Readers \in SUBSET Threads
    OBVIOUS
  <1>3. \A s \in Slots : Queued(s)' = Queued(s)
    BY DEF Queued
  <1>4. ASSUME NEW s \in Slots PROVE SlotInv(s)'
    <2>1. /\ Unfinished(Writers, s)' = Unfinished(Writers, s)
          /\ Unfinished(Readers, s)' = Unfinished(Readers, s)
      BY <1>1, <1>2
    <2> QED
      BY <1>3, <2>1 DEF BalanceInv, SlotInv
  <1> QED
    BY <1>4 DEF BalanceInv

(* The claimed indices are behind tail.                                    *)
LEMMA ClaimedBehind ==
  ASSUME TypeOK, ClaimInv
  PROVE  \A u \in Threads : Claimed(u) \subseteq 0 .. tail - 1
  BY SMT DEF TypeOK, ClaimInv, Claimed, Claiming

(* The claim of a put: its indices are owed by the writer from now on, and *)
(* they are the new ones before tail.                                      *)
LEMMA PutClaimBalance ==
  ASSUME CountFacts, IndInv, BalanceInv, NEW w \in Writers, PutClaim(w)
  PROVE  BalanceInv'
  <1> DEFINE n == Minimum(Capacity - (rtail[w] - rhead[w]), want[w])
             D(s) == {i \in tail .. tail' - 1 : Slot(i) = s}
  <1>0. /\ pc[w] = "putClaim" /\ tail = rtail[w] /\ tail' = tail + n /\ head' = head
        /\ status' = status /\ pc' = [pc EXCEPT ![w] = "putSlot"]
        /\ pos' = [pos EXCEPT ![w] = tail] /\ end' = [end EXCEPT ![w] = tail + n]
    BY DEF PutClaim, Goto
  <1>t. /\ head \in Nat /\ tail \in Nat /\ head <= tail
        /\ rhead[w] \in Nat /\ rtail[w] \in Nat /\ want[w] \in Int /\ w \in Threads /\ w \notin Readers
    BY ThreadsDisjoint DEF IndInv, TypeOK, CallInv, IndexBounds
  <1>1. n \in Nat /\ n >= 1
    <2>1. WriterInv(w)
      BY DEF IndInv, CallInv
    <2> QED
      BY <1>t, <1>0, <2>1, CapacityPositive, SMT DEF WriterInv, Minimum, PutLabels
  <1> HIDE DEF n
  <1>2. /\ Claimed(w) = {} /\ Claimed(w)' = tail .. tail' - 1
        /\ \A u \in Threads : u # w => Claimed(u)' = Claimed(u)
    <2>1. /\ pc'[w] = "putSlot" /\ pos'[w] = tail /\ end'[w] = tail'
          /\ \A u \in Threads : u # w => pc'[u] = pc[u] /\ pos'[u] = pos[u] /\ end'[u] = end[u]
      BY <1>0, <1>t DEF IndInv, TypeOK
    <2>2. Claimed(w) = {}
      BY <1>0 DEF Claimed
    <2>3. Claimed(w)' = tail .. tail' - 1
      <3>1. Claimed(w)' = pos'[w] .. end'[w] - 1
        BY <2>1 DEF Claimed
      <3> QED
        BY <2>1, <3>1
    <2>4. ASSUME NEW u \in Threads, u # w PROVE Claimed(u)' = Claimed(u)
      BY <2>1, <2>4 DEF Claimed
    <2> QED
      BY <2>2, <2>3, <2>4
  <1>3. ClaimInv'
    <2>1. end'[w] = tail'
      BY <1>0, <1>t DEF IndInv, TypeOK
    <2>2. ASSUME NEW u \in Threads, u # w, pc'[u] \in Claiming PROVE end'[u] <= tail'
      <3>1. pc'[u] = pc[u] /\ end'[u] = end[u] /\ end[u] \in Nat
        BY <1>0, <2>2 DEF IndInv, TypeOK
      <3>2. end[u] <= tail
        BY <2>2, <3>1 DEF BalanceInv, ClaimInv
      <3> QED
        BY <1>0, <1>1, <1>t, <3>1, <3>2, SMT
    <2>3. tail' <= tail'
      BY <1>0, <1>1, <1>t, SMT
    <2> QED
      BY <2>1, <2>2, <2>3 DEF ClaimInv
  <1>4. \A u \in Threads : Claimed(u) \subseteq 0 .. tail - 1
    BY ClaimedBehind DEF IndInv, BalanceInv
  <1>b. /\ 0 .. tail \subseteq 0 .. tail' /\ tail .. tail' - 1 \subseteq 0 .. tail'
        /\ \A u \in Threads : Claimed(u) \subseteq 0 .. tail
    BY <1>0, <1>1, <1>4, <1>t, SMT
  <1>5. ASSUME NEW s \in Slots PROVE SlotInv(s)'
    <2>1. Unfinished(Readers, s)' = Unfinished(Readers, s)
      <3>1. \A u \in Readers : Claimed(u)' = Claimed(u) /\ Claimed(u) \subseteq 0 .. tail
        BY <1>2, <1>b, <1>t
      <3>2. \A c \in Readers \X (0 .. tail') : c[2] \in Claimed(c[1])' => c \in Readers \X (0 .. tail)
        BY <3>1
      <3>3. \A c \in Readers \X (0 .. tail') : Claimed(c[1])' = Claimed(c[1])
        BY <3>1
      <3> QED
        BY <1>b, <3>2, <3>3 DEF Unfinished
    <2>2. /\ Unfinished(Writers, s)' = Unfinished(Writers, s) \cup ({w} \X D(s))
          /\ Unfinished(Writers, s) \cap ({w} \X D(s)) = {}
      <3>1. ASSUME NEW c \in Unfinished(Writers, s)'
            PROVE  c \in Unfinished(Writers, s) \cup ({w} \X D(s))
        <4>c. c \in Writers \X (0 .. tail') /\ c[2] \in Claimed(c[1])' /\ Slot(c[2]) = s
          BY <3>1 DEF Unfinished
        <4>1. /\ c \in Writers \X (0 .. tail') /\ c = <<c[1], c[2]>> /\ c[1] \in Writers
              /\ c[2] \in Claimed(c[1])' /\ Slot(c[2]) = s
          BY <4>c, SMT
        <4>2. CASE c[1] = w
          BY <1>2, <4>1, <4>2
        <4>3. CASE c[1] # w
          <5>1. c[2] \in Claimed(c[1]) /\ c[2] \in 0 .. tail
            BY <1>2, <1>b, <4>1, <4>3
          <5> QED
            BY <4>1, <5>1 DEF Unfinished
        <4> QED
          BY <4>2, <4>3
      <3>2. ASSUME NEW c \in Unfinished(Writers, s)
            PROVE  c \in Unfinished(Writers, s)' /\ c \notin {w} \X D(s)
        <4>c. c \in Writers \X (0 .. tail) /\ c[2] \in Claimed(c[1]) /\ Slot(c[2]) = s
          BY <3>2 DEF Unfinished
        <4>1. /\ c \in Writers \X (0 .. tail) /\ c = <<c[1], c[2]>> /\ c[1] \in Writers
              /\ c[2] \in Claimed(c[1]) /\ Slot(c[2]) = s
          BY <4>c, SMT
        <4>2. c[1] # w /\ c[2] \in Claimed(c[1])' /\ c[2] \in 0 .. tail'
          BY <1>2, <1>b, <4>1
        <4> QED
          BY <4>1, <4>2 DEF Unfinished
      <3>3. ASSUME NEW i \in D(s) PROVE <<w, i>> \in Unfinished(Writers, s)'
        <4>1. i \in Claimed(w)' /\ i \in 0 .. tail' /\ Slot(i) = s
          BY <1>2, <1>b
        <4> QED
          BY <4>1 DEF Unfinished
      <3> HIDE DEF D
      <3>4. \A c \in {w} \X D(s) : c \in Unfinished(Writers, s)'
        BY <3>3, SMT
      <3> QED
        BY <3>1, <3>2, <3>4
    <2>3. Queued(s)' = Queued(s) \cup D(s) /\ Queued(s) \cap D(s) = {}
      BY <1>0, <1>1, <1>t, SMT DEF Queued
    <2>4. Stores(s)' = Stores(s) /\ Stores(s) \in Int
      BY <1>0, SMT DEF Stores
    <2>5. IsFiniteSet(D(s)) /\ IsFiniteSet(Queued(s))
      <3>1. IsFiniteSet(tail .. tail' - 1) /\ IsFiniteSet(head .. tail - 1)
        <4>1. tail \in Int /\ tail' - 1 \in Int /\ head \in Int /\ tail - 1 \in Int
          BY <1>0, <1>1, <1>t, SMT
        <4> QED
          BY <4>1 DEF CountFacts
      <3>2. D(s) \subseteq tail .. tail' - 1 /\ Queued(s) \subseteq head .. tail - 1
        BY DEF Queued
      <3> HIDE DEF D
      <3> QED
        BY <3>1, <3>2 DEF CountFacts
    <2> HIDE DEF D
    <2>6. /\ IsFiniteSet(Unfinished(Writers, s)) /\ IsFiniteSet(Unfinished(Readers, s))
          /\ Cardinality(Unfinished(Writers, s)) - Cardinality(Unfinished(Readers, s)) + Stores(s)
               = Cardinality(Queued(s))
      BY DEF BalanceInv, SlotInv
    <2>7. IsFiniteSet({w} \X D(s)) /\ Cardinality({w} \X D(s)) = Cardinality(D(s))
      BY <2>5 DEF CountFacts
    <2>8. /\ IsFiniteSet(Unfinished(Writers, s)')
          /\ Cardinality(Unfinished(Writers, s)') = Cardinality(Unfinished(Writers, s)) + Cardinality(D(s))
      <3> DEFINE A == {w} \X D(s)
                 U == Unfinished(Writers, s)
      <3>1. /\ IsFiniteSet(U) /\ IsFiniteSet(A) /\ U \cap A = {} /\ Unfinished(Writers, s)' = U \cup A
            /\ Cardinality(A) = Cardinality(D(s))
        BY <2>2, <2>6, <2>7
      <3> HIDE DEF A, U
      <3>2. IsFiniteSet(U \cup A) /\ Cardinality(U \cup A) = Cardinality(U) + Cardinality(A)
        BY <3>1 DEF CountFacts
      <3> QED
        BY <3>1, <3>2 DEF U
    <2>9. Cardinality(Queued(s)') = Cardinality(Queued(s)) + Cardinality(D(s))
      BY <2>3, <2>5 DEF CountFacts
    <2>10. /\ Cardinality(D(s)) \in Nat /\ Cardinality(Queued(s)) \in Nat
           /\ Cardinality(Unfinished(Writers, s)) \in Nat /\ Cardinality(Unfinished(Readers, s)) \in Nat
      BY <2>5, <2>6 DEF CountFacts
    <2>11. Cardinality(Unfinished(Writers, s)') - Cardinality(Unfinished(Readers, s)') + Stores(s)'
             = Cardinality(Queued(s)')
      BY <2>1, <2>4, <2>6, <2>8, <2>9, <2>10, SMT
    <2> QED
      BY <2>1, <2>6, <2>8, <2>11 DEF SlotInv
  <1> QED
    BY <1>3, <1>5 DEF BalanceInv

(* The claim of a get: its indices are owed by the reader from now on, and *)
(* they are no longer between head and tail.                               *)
LEMMA GetClaimBalance ==
  ASSUME CountFacts, IndInv, BalanceInv, NEW r \in Readers, GetClaim(r)
  PROVE  BalanceInv'
  <1> DEFINE n == Minimum(rtail[r] - rhead[r], want[r])
             D(s) == {i \in head .. head' - 1 : Slot(i) = s}
  <1>0. /\ pc[r] = "getClaim" /\ head = rhead[r] /\ head' = head + n /\ tail' = tail
        /\ status' = status /\ pc' = [pc EXCEPT ![r] = "getSlot"]
        /\ pos' = [pos EXCEPT ![r] = head] /\ end' = [end EXCEPT ![r] = head + n]
    BY DEF GetClaim, Goto
  <1>t. /\ head \in Nat /\ tail \in Nat
        /\ rhead[r] \in Nat /\ rtail[r] \in Nat /\ want[r] \in Int /\ r \in Threads /\ r \notin Writers
    BY ThreadsDisjoint DEF IndInv, TypeOK
  <1>1. head' \in Nat /\ head < head' /\ head' <= tail
    <2>1. ReaderInv(r)
      BY DEF IndInv, CallInv
    <2> QED
      BY <1>t, <1>0, <2>1, SMT DEF ReaderInv, Minimum, GetLabels
  <1> HIDE DEF n
  <1>2. /\ Claimed(r) = {} /\ Claimed(r)' = head .. head' - 1
        /\ \A u \in Threads : u # r => Claimed(u)' = Claimed(u)
    <2>1. /\ pc'[r] = "getSlot" /\ pos'[r] = head /\ end'[r] = head'
          /\ \A u \in Threads : u # r => pc'[u] = pc[u] /\ pos'[u] = pos[u] /\ end'[u] = end[u]
      BY <1>0, <1>t DEF IndInv, TypeOK
    <2>2. Claimed(r) = {}
      BY <1>0 DEF Claimed
    <2>3. Claimed(r)' = head .. head' - 1
      <3>1. Claimed(r)' = pos'[r] .. end'[r] - 1
        BY <2>1 DEF Claimed
      <3> QED
        BY <2>1, <3>1
    <2>4. ASSUME NEW u \in Threads, u # r PROVE Claimed(u)' = Claimed(u)
      BY <2>1, <2>4 DEF Claimed
    <2> QED
      BY <2>2, <2>3, <2>4
  <1>3. ClaimInv'
    <2>1. end'[r] = head'
      BY <1>0, <1>t DEF IndInv, TypeOK
    <2>2. ASSUME NEW u \in Threads, u # r, pc'[u] \in Claiming PROVE end'[u] <= tail'
      <3>1. pc'[u] = pc[u] /\ end'[u] = end[u]
        BY <1>0, <2>2 DEF IndInv, TypeOK
      <3> QED
        BY <1>0, <2>2, <3>1 DEF BalanceInv, ClaimInv
    <2> QED
      BY <1>0, <1>1, <2>1, <2>2 DEF ClaimInv
  <1>4. head .. head' - 1 \subseteq 0 .. tail
    <2>1. \A a, b, c \in Nat : b <= c => a .. b - 1 \subseteq 0 .. c
      BY SMT
    <2> QED
      BY <1>1, <1>t, <2>1
  <1>5. ASSUME NEW s \in Slots PROVE SlotInv(s)'
    <2>1. Unfinished(Writers, s)' = Unfinished(Writers, s)
      <3>1. \A c \in Writers \X (0 .. tail) : Claimed(c[1])' = Claimed(c[1])
        BY <1>2, <1>t
      <3> QED
        BY <1>0, <3>1 DEF Unfinished
    <2>2. /\ Unfinished(Readers, s)' = Unfinished(Readers, s) \cup ({r} \X D(s))
          /\ Unfinished(Readers, s) \cap ({r} \X D(s)) = {}
      <3>1. ASSUME NEW c \in Unfinished(Readers, s)'
            PROVE  c \in Unfinished(Readers, s) \cup ({r} \X D(s))
        <4>c. c \in Readers \X (0 .. tail) /\ c[2] \in Claimed(c[1])' /\ Slot(c[2]) = s
          BY <1>0, <3>1 DEF Unfinished
        <4>1. c = <<c[1], c[2]>> /\ c[1] \in Readers
          BY <4>c, SMT
        <4>2. CASE c[1] = r
          BY <1>2, <4>c, <4>1, <4>2
        <4>3. CASE c[1] # r
          BY <1>2, <4>c, <4>1, <4>3 DEF Unfinished
        <4> QED
          BY <4>2, <4>3
      <3>2. ASSUME NEW c \in Unfinished(Readers, s)
            PROVE  c \in Unfinished(Readers, s)' /\ c \notin {r} \X D(s)
        <4>c. c \in Readers \X (0 .. tail) /\ c[2] \in Claimed(c[1]) /\ Slot(c[2]) = s
          BY <3>2 DEF Unfinished
        <4>1. c[1] \in Readers
          BY <4>c, SMT
        <4>2. c[1] # r /\ c[2] \in Claimed(c[1])'
          BY <1>2, <4>c, <4>1
        <4> QED
          BY <1>0, <4>c, <4>2 DEF Unfinished
      <3>3. ASSUME NEW i \in D(s) PROVE <<r, i>> \in Unfinished(Readers, s)'
        <4>1. i \in Claimed(r)' /\ i \in 0 .. tail' /\ Slot(i) = s
          BY <1>0, <1>2, <1>4
        <4> QED
          BY <4>1 DEF Unfinished
      <3> HIDE DEF D
      <3>4. \A c \in {r} \X D(s) : c \in Unfinished(Readers, s)'
        BY <3>3, SMT
      <3> QED
        BY <3>1, <3>2, <3>4
    <2>3. Queued(s)' = Queued(s) \ D(s) /\ D(s) \subseteq Queued(s)
      BY <1>0, <1>1, <1>t, SMT DEF Queued
    <2>4. Stores(s)' = Stores(s) /\ Stores(s) \in Int
      BY <1>0, SMT DEF Stores
    <2>5. IsFiniteSet(Queued(s)) /\ IsFiniteSet(D(s))
      <3>1. IsFiniteSet(head .. tail - 1)
        <4>1. head \in Int /\ tail - 1 \in Int
          BY <1>t, SMT
        <4> QED
          BY <4>1 DEF CountFacts
      <3>2. Queued(s) \subseteq head .. tail - 1
        BY DEF Queued
      <3> HIDE DEF D
      <3> QED
        BY <2>3, <3>1, <3>2 DEF CountFacts
    <2> HIDE DEF D
    <2>6. /\ IsFiniteSet(Unfinished(Writers, s)) /\ IsFiniteSet(Unfinished(Readers, s))
          /\ Cardinality(Unfinished(Writers, s)) - Cardinality(Unfinished(Readers, s)) + Stores(s)
               = Cardinality(Queued(s))
      BY DEF BalanceInv, SlotInv
    <2>7. IsFiniteSet({r} \X D(s)) /\ Cardinality({r} \X D(s)) = Cardinality(D(s))
      BY <2>5 DEF CountFacts
    <2>8. /\ IsFiniteSet(Unfinished(Readers, s)')
          /\ Cardinality(Unfinished(Readers, s)') = Cardinality(Unfinished(Readers, s)) + Cardinality(D(s))
      <3> DEFINE A == {r} \X D(s)
                 U == Unfinished(Readers, s)
      <3>1. /\ IsFiniteSet(U) /\ IsFiniteSet(A) /\ U \cap A = {} /\ Unfinished(Readers, s)' = U \cup A
            /\ Cardinality(A) = Cardinality(D(s))
        BY <2>2, <2>6, <2>7
      <3> HIDE DEF A, U
      <3>2. IsFiniteSet(U \cup A) /\ Cardinality(U \cup A) = Cardinality(U) + Cardinality(A)
        BY <3>1 DEF CountFacts
      <3> QED
        BY <3>1, <3>2 DEF U
    <2>9. Cardinality(Queued(s)') = Cardinality(Queued(s)) - Cardinality(D(s))
      BY <2>3, <2>5 DEF CountFacts
    <2>10. /\ Cardinality(D(s)) \in Nat /\ Cardinality(Queued(s)) \in Nat
           /\ Cardinality(Unfinished(Writers, s)) \in Nat /\ Cardinality(Unfinished(Readers, s)) \in Nat
      BY <2>5, <2>6 DEF CountFacts
    <2>11. Cardinality(Unfinished(Writers, s)') - Cardinality(Unfinished(Readers, s)') + Stores(s)'
             = Cardinality(Queued(s)')
      BY <2>1, <2>4, <2>6, <2>8, <2>9, <2>10, SMT
    <2> QED
      BY <2>1, <2>6, <2>8, <2>11 DEF SlotInv
  <1> QED
    BY <1>3, <1>5 DEF BalanceInv

(* A thread that is done with the first index of its claim.                *)
LEMMA ClaimShrinks ==
  ASSUME TypeOK, ClaimInv, NEW t \in Threads, NEW l, pc' = [pc EXCEPT ![t] = l],
         pc[t] \in Claiming, pos[t] < end[t],
         IF pos[t] + 1 < end[t] THEN l \in Claiming ELSE l \notin Claiming,
         pos' = [pos EXCEPT ![t] = pos[t] + 1], UNCHANGED <<end, tail>>
  PROVE  /\ ClaimInv'
         /\ pos[t] \in Claimed(t) /\ pos[t] \in 0 .. tail
         /\ Claimed(t)' = Claimed(t) \ {pos[t]}
         /\ \A u \in Threads : u # t => Claimed(u)' = Claimed(u)
  <1>1. /\ pc'[t] = l /\ pos'[t] = pos[t] + 1
        /\ \A u \in Threads : u # t => pc'[u] = pc[u] /\ pos'[u] = pos[u]
    BY DEF TypeOK
  <1>2. pos[t] \in Nat /\ end[t] \in Nat /\ tail \in Nat /\ end[t] <= tail
    BY DEF TypeOK, ClaimInv
  <1>3. Claimed(t) = pos[t] .. end[t] - 1
    BY DEF Claimed, Claiming
  <1>4. pos[t] \in pos[t] .. end[t] - 1 /\ pos[t] \in 0 .. tail
    BY <1>2, SMT
  <1>5. Claimed(t)' = (pos[t] .. end[t] - 1) \ {pos[t]}
    <2>1. CASE pos[t] + 1 < end[t]
      <3>1. pc'[t] \in Claiming
        BY <1>1, <2>1
      <3>2. Claimed(t)' = pos'[t] .. end'[t] - 1
        BY <3>1 DEF Claimed, Claiming
      <3>3. Claimed(t)' = (pos[t] + 1) .. end[t] - 1
        BY <1>1, <3>2
      <3>4. (pos[t] + 1) .. end[t] - 1 = (pos[t] .. end[t] - 1) \ {pos[t]}
        BY <1>2, SMT
      <3> QED
        BY <3>3, <3>4
    <2>2. CASE ~(pos[t] + 1 < end[t])
      <3>1. pc'[t] \notin Claiming
        BY <1>1, <2>2
      <3>2. Claimed(t)' = {}
        BY <3>1 DEF Claimed, Claiming
      <3>3. (pos[t] .. end[t] - 1) \ {pos[t]} = {}
        BY <1>2, <2>2, SMT
      <3> QED
        BY <3>2, <3>3
    <2> QED
      BY <2>1, <2>2
  <1>6. \A u \in Threads : u # t => Claimed(u)' = Claimed(u)
    BY <1>1 DEF Claimed
  <1>7. ClaimInv'
    BY <1>1, <1>2 DEF ClaimInv
  <1> QED
    BY <1>3, <1>4, <1>5, <1>6, <1>7

(* One unfinished index less in its slot, and none in another.             *)
LEMMA OneFinished ==
  ASSUME NEW T \in SUBSET Threads, NEW t \in T, NEW s, tail' = tail,
         pos[t] \in Claimed(t), pos[t] \in 0 .. tail,
         Claimed(t)' = Claimed(t) \ {pos[t]},
         \A u \in Threads : u # t => Claimed(u)' = Claimed(u)
  PROVE  /\ Unfinished(T, s)' = Unfinished(T, s) \ {<<t, pos[t]>>}
         /\ <<t, pos[t]>> \in Unfinished(T, s) <=> SlotOf(t) = s
  <1>1. <<t, pos[t]>> \in Unfinished(T, s) <=> SlotOf(t) = s
    BY DEF Unfinished, SlotOf
  <1>2. ASSUME NEW c \in T \X (0 .. tail)
        PROVE  c[2] \in Claimed(c[1])' <=> c[2] \in Claimed(c[1]) /\ c # <<t, pos[t]>>
    <2>1. c = <<c[1], c[2]>> /\ c[1] \in Threads
      BY SMT
    <2>2. CASE c[1] = t
      <3>1. Claimed(c[1])' = Claimed(c[1]) \ {pos[t]}
        BY <2>2
      <3>2. c = <<t, pos[t]>> <=> c[2] = pos[t]
        BY <2>1, <2>2, SMT
      <3> QED
        BY <3>1, <3>2
    <2>3. CASE c[1] # t
      <3>1. Claimed(c[1])' = Claimed(c[1])
        BY <2>1, <2>3
      <3>2. c # <<t, pos[t]>>
        BY <2>3, SMT
      <3> QED
        BY <3>1, <3>2
    <2> QED
      BY <2>2, <2>3
  <1>3. Unfinished(T, s)' = {c \in T \X (0 .. tail) : c[2] \in Claimed(c[1])' /\ Slot(c[2]) = s}
    BY DEF Unfinished
  <1>4. Unfinished(T, s)' = Unfinished(T, s) \ {<<t, pos[t]>>}
    BY <1>2, <1>3 DEF Unfinished
  <1> QED
    BY <1>1, <1>4

(* The count of a set without one of its elements, or without another one. *)
LEMMA OneLess ==
  ASSUME CountFacts, NEW S, NEW x, IsFiniteSet(S)
  PROVE  /\ IsFiniteSet(S \ {x}) /\ Cardinality(S) \in Nat
         /\ Cardinality(S \ {x}) = Cardinality(S) - (IF x \in S THEN 1 ELSE 0)
  <1>1. Cardinality(S) \in Nat
    BY DEF CountFacts
  <1>2. CASE x \in S
    <2>1. {x} \subseteq S /\ Cardinality({x}) = 1
      BY <1>2 DEF CountFacts
    <2>2. IsFiniteSet(S \ {x}) /\ Cardinality(S \ {x}) = Cardinality(S) - Cardinality({x})
      BY <2>1 DEF CountFacts
    <2> QED
      BY <1>1, <1>2, <2>1, <2>2
  <1>3. CASE x \notin S
    <2>1. S \ {x} = S
      BY <1>3
    <2>2. Cardinality(S) - 0 = Cardinality(S)
      BY <1>1, SMT
    <2> QED
      BY <1>1, <1>3, <2>1, <2>2
  <1> QED
    BY <1>2, <1>3

(* Publishing an element turns an unfinished put into a stored element.    *)
LEMMA PutPublishBalance ==
  ASSUME CountFacts, IndInv, SlotExclusion, BalanceInv, NEW w \in Writers, PutPublish(w)
  PROVE  BalanceInv'
  <1> DEFINE l == IF pos[w] + 1 < end[w] THEN "putSlot"
                  ELSE IF blk[w] /\ want[w] > 1 THEN "putRead" ELSE "idle"
  <1>0. /\ pc[w] = "putPublish" /\ pc' = [pc EXCEPT ![w] = l]
        /\ status' = [status EXCEPT ![SlotOf(w)] = FULL]
        /\ pos' = [pos EXCEPT ![w] = pos[w] + 1]
        /\ head' = head /\ tail' = tail /\ end' = end
    BY DEF PutPublish, Goto
  <1>l. IF pos[w] + 1 < end[w] THEN l \in Claiming ELSE l \notin Claiming
    BY DEF Claiming
  <1> HIDE DEF l
  <1>t. /\ TypeOK /\ ClaimInv /\ w \in Threads /\ w \notin Readers /\ SlotOf(w) \in Slots
        /\ Writers \in SUBSET Threads /\ pos[w] < end[w] /\ pc[w] \in Claiming
    BY <1>0, SlotOfType, ThreadsDisjoint DEF IndInv, BalanceInv, CallInv, WriterInv, Claiming
  <1>1. /\ ClaimInv'
        /\ pos[w] \in Claimed(w) /\ pos[w] \in 0 .. tail
        /\ Claimed(w)' = Claimed(w) \ {pos[w]}
        /\ \A u \in Threads : u # w => Claimed(u)' = Claimed(u)
    BY <1>0, <1>l, <1>t, ClaimShrinks
  <1>2. status[SlotOf(w)] = WRITING
    BY <1>0 DEF SlotExclusion, Busy
  <1>3. ASSUME NEW s \in Slots PROVE SlotInv(s)'
    <2> DEFINE x == <<w, pos[w]>>
               U == Unfinished(Writers, s)
               done == IF x \in U THEN 1 ELSE 0
    <2>1. Unfinished(Writers, s)' = U \ {x} /\ (x \in U <=> SlotOf(w) = s)
      BY <1>0, <1>1, <1>t, OneFinished
    <2>2. Unfinished(Readers, s)' = Unfinished(Readers, s)
      <3>1. \A c \in Readers \X (0 .. tail) : Claimed(c[1])' = Claimed(c[1])
        BY <1>1, <1>t
      <3> QED
        BY <1>0, <3>1 DEF Unfinished
    <2>3. Queued(s)' = Queued(s)
      BY <1>0 DEF Queued
    <2>4. /\ IsFiniteSet(U) /\ IsFiniteSet(Unfinished(Readers, s))
          /\ Cardinality(U) - Cardinality(Unfinished(Readers, s)) + Stores(s) = Cardinality(Queued(s))
      BY DEF BalanceInv, SlotInv
    <2>5. /\ IsFiniteSet(U \ {x}) /\ Cardinality(U) \in Nat
          /\ Cardinality(U \ {x}) = Cardinality(U) - done
      <3> HIDE DEF U, x
      <3> QED
        BY <2>4, OneLess
    <2>6. Stores(s) \in Int /\ done \in Int /\ Stores(s)' = Stores(s) + done
      <3> HIDE DEF U, x
      <3>1. CASE SlotOf(w) = s
        <4>1. status'[s] = FULL /\ status[s] = WRITING /\ x \in U
          BY <1>0, <1>2, <1>t, <2>1, <3>1 DEF TypeOK
        <4> QED
          BY <4>1, SMT DEF Stores
      <3>2. CASE SlotOf(w) # s
        <4>1. status'[s] = status[s] /\ x \notin U
          BY <1>0, <1>t, <2>1, <3>2 DEF TypeOK
        <4> QED
          BY <4>1, SMT DEF Stores
      <3> QED
        BY <3>1, <3>2
    <2>7. Cardinality(Unfinished(Readers, s)) \in Nat
      BY <2>4 DEF CountFacts
    <2> HIDE DEF U, x, done
    <2>8. Cardinality(Unfinished(Writers, s)') - Cardinality(Unfinished(Readers, s)') + Stores(s)'
            = Cardinality(Queued(s)')
      BY <2>1, <2>2, <2>3, <2>4, <2>5, <2>6, <2>7, SMT
    <2> QED
      BY <2>1, <2>2, <2>4, <2>5, <2>8 DEF SlotInv
  <1> QED
    BY <1>1, <1>3 DEF BalanceInv

(* Releasing a slot turns an unfinished get and its element into nothing.  *)
LEMMA GetReleaseBalance ==
  ASSUME CountFacts, IndInv, SlotExclusion, BalanceInv, NEW r \in Readers, GetRelease(r)
  PROVE  BalanceInv'
  <1> DEFINE l == IF pos[r] + 1 < end[r] THEN "getSlot" ELSE "idle"
  <1>0. /\ pc[r] = "getRelease" /\ pc' = [pc EXCEPT ![r] = l]
        /\ status' = [status EXCEPT ![SlotOf(r)] = EMPTY]
        /\ pos' = [pos EXCEPT ![r] = pos[r] + 1]
        /\ head' = head /\ tail' = tail /\ end' = end
    BY DEF GetRelease, Goto
  <1>l. IF pos[r] + 1 < end[r] THEN l \in Claiming ELSE l \notin Claiming
    BY DEF Claiming
  <1> HIDE DEF l
  <1>t. /\ TypeOK /\ ClaimInv /\ r \in Threads /\ r \notin Writers /\ SlotOf(r) \in Slots
        /\ Readers \in SUBSET Threads /\ pos[r] < end[r] /\ pc[r] \in Claiming
    BY <1>0, SlotOfType, ThreadsDisjoint DEF IndInv, BalanceInv, CallInv, ReaderInv, Claiming
  <1>1. /\ ClaimInv'
        /\ pos[r] \in Claimed(r) /\ pos[r] \in 0 .. tail
        /\ Claimed(r)' = Claimed(r) \ {pos[r]}
        /\ \A u \in Threads : u # r => Claimed(u)' = Claimed(u)
    BY <1>0, <1>l, <1>t, ClaimShrinks
  <1>2. status[SlotOf(r)] = READING
    BY <1>0 DEF SlotExclusion, Busy
  <1>3. ASSUME NEW s \in Slots PROVE SlotInv(s)'
    <2> DEFINE x == <<r, pos[r]>>
               U == Unfinished(Readers, s)
               done == IF x \in U THEN 1 ELSE 0
    <2>1. Unfinished(Readers, s)' = U \ {x} /\ (x \in U <=> SlotOf(r) = s)
      BY <1>0, <1>1, <1>t, OneFinished
    <2>2. Unfinished(Writers, s)' = Unfinished(Writers, s)
      <3>1. \A c \in Writers \X (0 .. tail) : Claimed(c[1])' = Claimed(c[1])
        BY <1>1, <1>t
      <3> QED
        BY <1>0, <3>1 DEF Unfinished
    <2>3. Queued(s)' = Queued(s)
      BY <1>0 DEF Queued
    <2>4. /\ IsFiniteSet(U) /\ IsFiniteSet(Unfinished(Writers, s))
          /\ Cardinality(Unfinished(Writers, s)) - Cardinality(U) + Stores(s) = Cardinality(Queued(s))
      BY DEF BalanceInv, SlotInv
    <2>5. /\ IsFiniteSet(U \ {x}) /\ Cardinality(U) \in Nat
          /\ Cardinality(U \ {x}) = Cardinality(U) - done
      <3> HIDE DEF U, x
      <3> QED
        BY <2>4, OneLess
    <2>6. Stores(s) \in Int /\ done \in Int /\ Stores(s)' = Stores(s) - done
      <3> HIDE DEF U, x
      <3>1. CASE SlotOf(r) = s
        <4>1. status'[s] = EMPTY /\ status[s] = READING /\ x \in U
          BY <1>0, <1>2, <1>t, <2>1, <3>1 DEF TypeOK
        <4> QED
          BY <4>1, SMT DEF Stores
      <3>2. CASE SlotOf(r) # s
        <4>1. status'[s] = status[s] /\ x \notin U
          BY <1>0, <1>t, <2>1, <3>2 DEF TypeOK
        <4> QED
          BY <4>1, SMT DEF Stores
      <3> QED
        BY <3>1, <3>2
    <2>7. Cardinality(Unfinished(Writers, s)) \in Nat
      BY <2>4 DEF CountFacts
    <2> HIDE DEF U, x, done
    <2>8. Cardinality(Unfinished(Writers, s)') - Cardinality(Unfinished(Readers, s)') + Stores(s)'
            = Cardinality(Queued(s)')
      BY <2>1, <2>2, <2>3, <2>4, <2>5, <2>6, <2>7, SMT
    <2> QED
      BY <2>1, <2>2, <2>4, <2>5, <2>8 DEF SlotInv
  <1> QED
    BY <1>1, <1>3 DEF BalanceInv

(* Every step keeps the balance.                                           *)
LEMMA NextBalance ==
  CountFacts /\ IndInv /\ SlotExclusion /\ BalanceInv /\ [Next]_vars => BalanceInv'
  <1> SUFFICES ASSUME CountFacts, IndInv, SlotExclusion, BalanceInv, [Next]_vars
               PROVE  BalanceInv'
    OBVIOUS
  <1>t. TypeOK /\ ClaimInv /\ \A t \in Threads : SlotOf(t) \in Slots
    BY SlotOfType DEF IndInv, BalanceInv
  <1>m. ASSUME NEW t \in Threads, NEW l, pc' = [pc EXCEPT ![t] = l],
               l \in Claiming <=> pc[t] \in Claiming,
               UNCHANGED <<head, tail, pos, end>>,
               \A s \in Slots : Stores(s)' = Stores(s)
        PROVE  BalanceInv'
    <2>1. ClaimInv' /\ \A u \in Threads : Claimed(u)' = Claimed(u)
      BY <1>t, <1>m, ClaimsStay
    <2> QED
      BY <1>m, <2>1, BalanceStays
  <1>1. ASSUME NEW t \in Threads, NEW k, NEW b, PutBegin(t, k, b) \/ GetBegin(t, k, b)
        PROVE  BalanceInv'
    <2>1. PICK l \in {"putRead", "getRead"} : pc' = [pc EXCEPT ![t] = l] /\ pc[t] = "idle"
      BY <1>1 DEF PutBegin, GetBegin, Goto
    <2>2. UNCHANGED <<head, tail, pos, end, status>>
      BY <1>1 DEF PutBegin, GetBegin, ring
    <2>3. \A s \in Slots : Stores(s)' = Stores(s)
      BY <2>2 DEF Stores
    <2> QED
      BY <1>m, <2>1, <2>2, <2>3 DEF Claiming
  <1>2. ASSUME NEW t \in Threads,
               \/ PutReadTail(t) \/ PutReadHead(t) \/ PutFull(t) \/ PutRoom(t) \/ PutRetry(t)
               \/ GetReadHead(t) \/ GetReadTail(t) \/ GetEmpty(t) \/ GetSome(t) \/ GetRetry(t)
        PROVE  BalanceInv'
    <2>1. PICK l \in {"putHead", "putTail", "putRead", "putClaim", "getHead", "getTail",
                      "getRead", "getClaim", "idle"} : pc' = [pc EXCEPT ![t] = l]
      BY <1>2 DEF PutReadTail, PutReadHead, PutFull, PutRoom, PutRetry,
                  GetReadHead, GetReadTail, GetEmpty, GetSome, GetRetry, Goto
    <2>2. pc[t] \in {"putRead", "putHead", "putTail", "putClaim",
                     "getRead", "getHead", "getTail", "getClaim"}
      BY <1>2 DEF PutReadTail, PutReadHead, PutFull, PutRoom, PutRetry,
                  GetReadHead, GetReadTail, GetEmpty, GetSome, GetRetry, Goto
    <2>3. UNCHANGED <<head, tail, pos, end, status>>
      BY <1>2 DEF PutReadTail, PutReadHead, PutFull, PutRoom, PutRetry,
                  GetReadHead, GetReadTail, GetEmpty, GetSome, GetRetry, ring
    <2>4. \A s \in Slots : Stores(s)' = Stores(s)
      BY <2>3 DEF Stores
    <2>5. l \notin Claiming /\ pc[t] \notin Claiming
      BY <2>1, <2>2 DEF Claiming
    <2> QED
      BY <1>m, <2>1, <2>3, <2>4, <2>5
  <1>3. ASSUME NEW t \in Threads, PutSlot(t) \/ GetSlot(t) PROVE BalanceInv'
    <2>1. PICK l \in {"putCopy", "getCopy"} :
            pc' = [pc EXCEPT ![t] = l] /\ pc[t] \in {"putSlot", "getSlot"}
      BY <1>3 DEF PutSlot, GetSlot, Goto
    <2>2. /\ UNCHANGED <<head, tail, pos, end>>
          /\ \/ status[SlotOf(t)] = EMPTY /\ status' = [status EXCEPT ![SlotOf(t)] = WRITING]
             \/ status[SlotOf(t)] = FULL /\ status' = [status EXCEPT ![SlotOf(t)] = READING]
      BY <1>3 DEF PutSlot, GetSlot
    <2>3. \A s \in Slots : status'[s] \in {FULL, READING} <=> status[s] \in {FULL, READING}
      <3>1. status \in [Slots -> {EMPTY, WRITING, FULL, READING}]
        BY <1>t DEF TypeOK
      <3> QED
        BY <1>t, <2>2, <3>1, SMT
    <2>4. \A s \in Slots : Stores(s)' = Stores(s)
      BY <2>3 DEF Stores
    <2> QED
      BY <1>m, <2>1, <2>2, <2>4 DEF Claiming
  <1>4. ASSUME NEW t \in Threads, PutCopy(t) \/ GetCopy(t) PROVE BalanceInv'
    <2>1. PICK l \in {"putPublish", "getRelease"} :
            pc' = [pc EXCEPT ![t] = l] /\ pc[t] \in {"putCopy", "getCopy"}
      BY <1>4 DEF PutCopy, GetCopy, Goto
    <2>2. UNCHANGED <<head, tail, pos, end, status>>
      BY <1>4 DEF PutCopy, GetCopy
    <2>3. \A s \in Slots : Stores(s)' = Stores(s)
      BY <2>2 DEF Stores
    <2> QED
      BY <1>m, <2>1, <2>2, <2>3 DEF Claiming
  <1>5. CASE UNCHANGED vars
    <2>1. UNCHANGED <<head, tail, pos, end, status, pc>>
      BY <1>5 DEF vars
    <2>2. /\ ClaimInv' /\ \A u \in Threads : Claimed(u)' = Claimed(u)
          /\ \A s \in Slots : Stores(s)' = Stores(s)
      BY <1>t, <2>1 DEF ClaimInv, Claimed, Stores
    <2> QED
      BY <2>1, <2>2, BalanceStays
  <1>6. ASSUME NEW w \in Writers, NEW k \in PutSizes, NEW b \in BOOLEAN, PutBegin(w, k, b)
        PROVE  BalanceInv'
    BY <1>1, <1>6
  <1>7. ASSUME NEW r \in Readers, NEW k \in GetSizes, NEW b \in BOOLEAN, GetBegin(r, k, b)
        PROVE  BalanceInv'
    BY <1>1, <1>7
  <1>8. ASSUME NEW w \in Writers, PutStep(w) PROVE BalanceInv'
    BY <1>2, <1>3, <1>4, <1>8, PutClaimBalance, PutPublishBalance DEF PutStep
  <1>9. ASSUME NEW r \in Readers, GetStep(r) PROVE BalanceInv'
    BY <1>2, <1>3, <1>4, <1>9, GetClaimBalance, GetReleaseBalance DEF GetStep
  <1> QED
    BY <1>5, <1>6, <1>7, <1>8, <1>9 DEF Next

LEMMA InitBalance == CountFacts /\ Init => BalanceInv
  <1> SUFFICES ASSUME CountFacts, Init PROVE BalanceInv
    OBVIOUS
  <1>1. head = 0 /\ tail = 0 /\ \A t \in Threads : pc[t] = "idle"
    BY DEF Init
  <1>2. ClaimInv
    BY <1>1 DEF ClaimInv, Claiming
  <1>3. \A t \in Threads : Claimed(t) = {}
    BY <1>1 DEF Claimed
  <1>4. \A T \in SUBSET Threads, s \in Slots : Unfinished(T, s) = {}
    <2> SUFFICES ASSUME NEW T \in SUBSET Threads, NEW s \in Slots PROVE Unfinished(T, s) = {}
      OBVIOUS
    <2>1. \A c \in T \X (0 .. tail) : Claimed(c[1]) = {}
      BY <1>3
    <2> QED
      BY <2>1 DEF Unfinished
  <1>5. \A s \in Slots : Queued(s) = {}
    <2>1. head .. tail - 1 = {}
      BY <1>1, SMT
    <2> QED
      BY <2>1 DEF Queued
  <1>6. \A s \in Slots : Stores(s) = 0
    BY SMT DEF Init, Stores
  <1>7. Writers \in SUBSET Threads /\ Readers \in SUBSET Threads
    OBVIOUS
  <1>8. ASSUME NEW s \in Slots PROVE SlotInv(s)
    <2>1. Unfinished(Writers, s) = {} /\ Unfinished(Readers, s) = {} /\ Queued(s) = {} /\ Stores(s) = 0
      BY <1>4, <1>5, <1>6, <1>7
    <2>2. IsFiniteSet({}) /\ Cardinality({}) = 0
      BY DEF CountFacts
    <2>3. 0 - 0 + 0 = 0
      BY SMT
    <2> QED
      BY <2>1, <2>2, <2>3 DEF SlotInv
  <1> QED
    BY <1>2, <1>8 DEF BalanceInv


-----------------------------------------------------------------------------
(***************************************************************************)
(* What an "empty" or a "full" answer means: the queue was at its limit    *)
(* between the two loads, or another thread claimed on the same side.      *)
(***************************************************************************)

(* Until another reader claims, head stands still as a reader looks: a    *)
(* tail it read before head and found not ahead of head was equal to it.   *)
ReaderMet(r) ==
  /\ pc[r] \in SecondLoad /\ tail = head => r \in met
  /\ pc[r] = "getHead" /\ rtail[r] <= head => r \in met

(* What a reader has met stays true to what it will see, whichever thread  *)
(* takes the next step.                                                    *)
LEMMA ReaderMetStep ==
  ASSUME IndInv, NEW r0 \in Readers, ReaderMet(r0), [Next]_vars
  PROVE  /\ ReaderMet(r0)'
         /\ pc[r0] \in SecondLoad /\ pc'[r0] \in {"idle", "getRead"} => r0 \in met
  <1> DEFINE Goal == /\ ReaderMet(r0)'
                     /\ pc[r0] \in SecondLoad /\ pc'[r0] \in {"idle", "getRead"} => r0 \in met
  <1>t. /\ pc \in [Threads -> {"idle"} \cup PutLabels \cup GetLabels]
        /\ rtail \in [Threads -> Nat] /\ rhead \in [Threads -> Nat]
        /\ head \in Nat /\ tail \in Nat /\ head <= tail
    BY DEF IndInv, TypeOK, CallInv, IndexBounds
  (* A step of another thread that claims nothing.                       *)
  <1>a. ASSUME pc'[r0] = pc[r0], rtail'[r0] = rtail[r0], head' = head, tail' = tail,
               r0 \in met => r0 \in met'
        PROVE  Goal
    BY <1>a DEF ReaderMet, SecondLoad
  <1>o. \A w \in Writers : w # r0
    BY ThreadsDisjoint
  (* The thread itself.                                                   *)
  <1> USE CapacityPositive, ThreadsDisjoint, <1>t
      DEF ReaderMet, SecondLoad, Goto, ring
  <1>5. ASSUME NEW k \in GetSizes, NEW b \in BOOLEAN, GetBegin(r0, k, b) PROVE Goal
    BY <1>5 DEF GetBegin
  <1>6. ASSUME GetReadHead(r0) PROVE Goal
    BY <1>6 DEF GetReadHead, StartMet, AtLimit
  <1>6a. ASSUME GetReadTail(r0) PROVE Goal
    BY <1>6a, SMT DEF GetReadTail, StartMet, AtLimit
  <1>7. ASSUME GetEmpty(r0) PROVE Goal
    <2>1. pc[r0] = "getTail" => rhead[r0] <= head
      BY DEF IndInv, CallInv, ReaderInv
    <2>2. pc[r0] \in {"getHead", "getTail"} /\ pc'[r0] \in {"idle", "getRead"}
      BY <1>7 DEF GetEmpty
    <2>3. TailSeen(r0) - HeadSeen(r0) <= 0
      BY <1>7 DEF GetEmpty, SeenEmpty
    <2>4. CASE pc[r0] = "getHead"
      BY <2>2, <2>3, <2>4, SMT DEF TailSeen, HeadSeen
    <2>5. CASE pc[r0] = "getTail"
      BY <2>1, <2>2, <2>3, <2>5, SMT DEF TailSeen, HeadSeen
    <2> QED
      BY <2>2, <2>4, <2>5
  <1>8. ASSUME GetSome(r0) PROVE Goal
    BY <1>8 DEF GetSome
  <1>8a. ASSUME GetRetry(r0) PROVE Goal
    BY <1>8a DEF GetRetry
  <1>9. ASSUME GetClaim(r0) PROVE Goal
    BY <1>9 DEF GetClaim
  <1>10. ASSUME GetSlot(r0) \/ GetCopy(r0) \/ GetRelease(r0) PROVE Goal
    BY <1>10 DEF GetSlot, GetCopy, GetRelease
  <1>11. ASSUME UNCHANGED vars PROVE Goal
    BY <1>11 DEF vars
  <1> HIDE CapacityPositive, ThreadsDisjoint, <1>t
      DEF Goal, ReaderMet, SecondLoad, Goto, ring
  (* The threads of the other kind.                                        *)
  <1>1. ASSUME NEW w \in Writers, NEW k \in PutSizes, NEW b \in BOOLEAN, PutBegin(w, k, b)
        PROVE  Goal
    BY <1>1, <1>a, <1>t, <1>o DEF PutBegin, Goto, ring
  <1>2. ASSUME NEW w \in Writers, PutReadTail(w) \/ PutReadHead(w) PROVE Goal
    BY <1>2, <1>a, <1>t, <1>o DEF PutReadTail, PutReadHead, Goto, ring, StartMet
  <1>3. ASSUME NEW w \in Writers, PutFull(w) \/ PutRoom(w) PROVE Goal
    BY <1>3, <1>a, <1>t, <1>o DEF PutFull, PutRoom, Goto, ring, Forget, EndMet
  <1>4. ASSUME NEW w \in Writers, PutRetry(w) PROVE Goal
    BY <1>4, <1>a, <1>t, <1>o DEF PutRetry, Goto, ring, Forget
  <1>4a. ASSUME NEW w \in Writers, PutSlot(w) \/ PutCopy(w) \/ PutPublish(w) PROVE Goal
    <2>1. pc'[r0] = pc[r0]
      BY <1>4a, <1>t, <1>o DEF PutSlot, PutCopy, PutPublish, Goto
    <2>2. rtail' = rtail /\ head' = head /\ tail' = tail /\ met' = met
      BY <1>4a DEF PutSlot, PutCopy, PutPublish
    <2> QED
      BY <1>a, <2>1, <2>2
  <1>4b. ASSUME NEW w \in Writers, PutClaim(w) PROVE Goal
    <2>1. pc'[r0] = pc[r0] /\ rtail'[r0] = rtail[r0] /\ head' = head
      BY <1>4b, <1>t, <1>o DEF PutClaim, Goto, Forget
    <2>2. met' = met \cup {t \in Threads : pc[t] \in SecondLoad /\ (t \in Writers \/ AtLimit(t)')}
      BY <1>4b DEF PutClaim, ClaimMet
    <2>3. pc[r0] \in SecondLoad /\ tail' = head' => r0 \in met'
      BY <2>2 DEF AtLimit
    <2> QED
      BY <2>1, <2>2, <2>3 DEF Goal, ReaderMet, SecondLoad
  (* The other readers.                                                    *)
  <1>20. ASSUME NEW r \in Readers, r # r0, NEW k \in GetSizes, NEW b \in BOOLEAN, GetBegin(r, k, b)
         PROVE  Goal
    BY <1>20, <1>a, <1>t DEF GetBegin, Goto, ring
  <1>21. ASSUME NEW r \in Readers, r # r0, GetReadTail(r) \/ GetReadHead(r) PROVE Goal
    BY <1>21, <1>a, <1>t DEF GetReadTail, GetReadHead, Goto, ring, StartMet
  <1>22. ASSUME NEW r \in Readers, r # r0, GetEmpty(r) \/ GetSome(r) PROVE Goal
    BY <1>22, <1>a, <1>t DEF GetEmpty, GetSome, Goto, ring, Forget, EndMet
  <1>23. ASSUME NEW r \in Readers, r # r0, GetRetry(r) PROVE Goal
    BY <1>23, <1>a, <1>t DEF GetRetry, Goto, ring, Forget
  <1>24. ASSUME NEW r \in Readers, r # r0, GetSlot(r) \/ GetCopy(r) \/ GetRelease(r) PROVE Goal
    <2>1. pc'[r0] = pc[r0]
      BY <1>24, <1>t DEF GetSlot, GetCopy, GetRelease, Goto
    <2>2. rtail' = rtail /\ head' = head /\ tail' = tail /\ met' = met
      BY <1>24 DEF GetSlot, GetCopy, GetRelease
    <2> QED
      BY <1>a, <2>1, <2>2
  <1>25. ASSUME NEW r \in Readers, r # r0, GetClaim(r) PROVE Goal
    <2>1. met' = met \cup {t \in Threads : pc[t] \in SecondLoad /\ (t \in Readers \/ AtLimit(t)')}
      BY <1>25 DEF GetClaim, ClaimMet
    <2>2. pc'[r0] = pc[r0]
      BY <1>25, <1>t DEF GetClaim, Goto
    <2>3. pc[r0] \in SecondLoad => r0 \in met'
      BY <2>1 DEF Threads
    <2> QED
      BY <2>2, <2>3 DEF Goal, ReaderMet, SecondLoad
  <1>12. Goal
    BY <1>1, <1>2, <1>3, <1>4, <1>4a, <1>4b, <1>5, <1>6, <1>6a, <1>7, <1>8, <1>8a, <1>9,
       <1>10, <1>11, <1>20, <1>21, <1>22, <1>23, <1>24, <1>25
    DEF Next, PutStep, GetStep
  <1> QED
    BY <1>12 DEF Goal

(* A get reports an empty queue only if it was empty between its loads or  *)
(* another get claimed meanwhile, whichever load comes first, for any      *)
(* number of readers and writers (queue_get_nonblocking_multi).            *)
THEOREM EmptyIsExcused == Spec => EmptyOrOvertaken
  <1> DEFINE Inv == \A r \in Readers : ReaderMet(r)
             A(r) == pc[r] \in SecondLoad /\ pc'[r] \in {"idle", "getRead"} => r \in met
  <1>1. Init => Inv
    BY DEF Init, ReaderMet, SecondLoad
  <1>2. IndInv /\ Inv /\ [Next]_vars => Inv' /\ [\A r \in Readers : A(r)]_vars
    BY ReaderMetStep
  <1> QED
    BY InitIndInv, NextIndInv, <1>1, <1>2, PTL DEF Spec, EmptyOrOvertaken

(* Until another writer claims, tail stands still as a writer looks.       *)
WriterMet(w) ==
  /\ pc[w] \in SecondLoad /\ tail - head >= Capacity => w \in met
  /\ pc[w] = "putHead" => rtail[w] = tail \/ w \in met
  /\ pc[w] = "putTail" /\ tail - rhead[w] >= Capacity => w \in met

(* What a writer has met stays true to what it will see, whichever thread  *)
(* takes the next step.                                                    *)
LEMMA WriterMetStep ==
  ASSUME IndInv, NEW w0 \in Writers, WriterMet(w0), [Next]_vars
  PROVE  /\ WriterMet(w0)'
         /\ pc[w0] \in SecondLoad /\ pc'[w0] \in {"idle", "putRead"} => w0 \in met
  <1> DEFINE Goal == /\ WriterMet(w0)'
                     /\ pc[w0] \in SecondLoad /\ pc'[w0] \in {"idle", "putRead"} => w0 \in met
  <1>t. /\ pc \in [Threads -> {"idle"} \cup PutLabels \cup GetLabels]
        /\ rtail \in [Threads -> Nat] /\ rhead \in [Threads -> Nat]
        /\ head \in Nat /\ tail \in Nat /\ head <= tail
    BY DEF IndInv, TypeOK, CallInv, IndexBounds
  (* A step of another thread that claims nothing.                       *)
  <1>a. ASSUME pc'[w0] = pc[w0], rtail'[w0] = rtail[w0], rhead'[w0] = rhead[w0],
               head' = head, tail' = tail, w0 \in met => w0 \in met'
        PROVE  Goal
    BY <1>a DEF WriterMet, SecondLoad
  <1>o. \A r \in Readers : r # w0
    BY ThreadsDisjoint
  (* The thread itself.                                                   *)
  <1> USE CapacityPositive, ThreadsDisjoint, <1>t
      DEF WriterMet, SecondLoad, Goto, ring
  <1>5. ASSUME NEW k \in PutSizes, NEW b \in BOOLEAN, PutBegin(w0, k, b) PROVE Goal
    BY <1>5 DEF PutBegin
  <1>6. ASSUME PutReadHead(w0) PROVE Goal
    BY <1>6 DEF PutReadHead, StartMet, AtLimit
  <1>6a. ASSUME PutReadTail(w0) PROVE Goal
    BY <1>6a DEF PutReadTail, StartMet, AtLimit
  <1>7. ASSUME PutFull(w0) PROVE Goal
    <2>1. pc[w0] = "putTail" => rhead[w0] <= head
      BY DEF IndInv, CallInv, WriterInv
    <2>2. pc[w0] \in {"putHead", "putTail"} /\ pc'[w0] \in {"idle", "putRead"}
      BY <1>7 DEF PutFull
    <2>3. \/ TailSeen(w0) - HeadSeen(w0) < 0
          \/ TailSeen(w0) - HeadSeen(w0) >= Capacity
      BY <1>7 DEF PutFull, SeenFull
    <2>4. CASE pc[w0] = "putHead"
      BY <2>2, <2>3, <2>4, SMT DEF TailSeen, HeadSeen
    <2>5. CASE pc[w0] = "putTail"
      BY <2>1, <2>2, <2>3, <2>5, SMTT(20) DEF TailSeen, HeadSeen
    <2> QED
      BY <2>2, <2>4, <2>5
  <1>8. ASSUME PutRoom(w0) PROVE Goal
    BY <1>8 DEF PutRoom
  <1>8a. ASSUME PutRetry(w0) PROVE Goal
    BY <1>8a DEF PutRetry
  <1>9. ASSUME PutClaim(w0) PROVE Goal
    BY <1>9 DEF PutClaim
  <1>10. ASSUME PutSlot(w0) \/ PutCopy(w0) PROVE Goal
    BY <1>10 DEF PutSlot, PutCopy
  <1>10a. ASSUME PutPublish(w0) PROVE Goal
    <2>1. pc[w0] = "putPublish" /\ pc'[w0] \in {"putSlot", "putRead", "idle"}
      BY <1>10a DEF PutPublish
    <2> QED
      BY <2>1
  <1>11. ASSUME UNCHANGED vars PROVE Goal
    BY <1>11 DEF vars
  <1> HIDE CapacityPositive, ThreadsDisjoint, <1>t
      DEF Goal, WriterMet, SecondLoad, Goto, ring
  (* The threads of the other kind.                                        *)
  <1>1. ASSUME NEW r \in Readers, NEW k \in GetSizes, NEW b \in BOOLEAN, GetBegin(r, k, b)
        PROVE  Goal
    BY <1>1, <1>a, <1>t, <1>o DEF GetBegin, Goto, ring
  <1>2. ASSUME NEW r \in Readers, GetReadHead(r) \/ GetReadTail(r) PROVE Goal
    BY <1>2, <1>a, <1>t, <1>o DEF GetReadHead, GetReadTail, Goto, ring, StartMet
  <1>3. ASSUME NEW r \in Readers, GetEmpty(r) \/ GetSome(r) PROVE Goal
    BY <1>3, <1>a, <1>t, <1>o DEF GetEmpty, GetSome, Goto, ring, Forget, EndMet
  <1>4. ASSUME NEW r \in Readers, GetRetry(r) PROVE Goal
    BY <1>4, <1>a, <1>t, <1>o DEF GetRetry, Goto, ring, Forget
  <1>4a. ASSUME NEW r \in Readers, GetSlot(r) \/ GetCopy(r) \/ GetRelease(r) PROVE Goal
    <2>1. pc'[w0] = pc[w0]
      BY <1>4a, <1>t, <1>o DEF GetSlot, GetCopy, GetRelease, Goto
    <2>2. rtail' = rtail /\ rhead' = rhead /\ head' = head /\ tail' = tail /\ met' = met
      BY <1>4a DEF GetSlot, GetCopy, GetRelease
    <2> QED
      BY <1>a, <2>1, <2>2
  <1>4b. ASSUME NEW r \in Readers, GetClaim(r) PROVE Goal
    <2>1. /\ pc'[w0] = pc[w0] /\ rtail'[w0] = rtail[w0] /\ rhead'[w0] = rhead[w0]
          /\ tail' = tail
      BY <1>4b, <1>t, <1>o DEF GetClaim, Goto, Forget
    <2>2. met' = met \cup {t \in Threads : pc[t] \in SecondLoad /\ (t \in Readers \/ AtLimit(t)')}
      BY <1>4b DEF GetClaim, ClaimMet
    <2>3. pc[w0] \in SecondLoad /\ tail' - head' >= Capacity => w0 \in met'
      BY <2>2, ThreadsDisjoint DEF AtLimit
    <2> QED
      BY <2>1, <2>2, <2>3 DEF Goal, WriterMet, SecondLoad
  (* The other writers.                                                    *)
  <1>20. ASSUME NEW w \in Writers, w # w0, NEW k \in PutSizes, NEW b \in BOOLEAN, PutBegin(w, k, b)
         PROVE  Goal
    BY <1>20, <1>a, <1>t DEF PutBegin, Goto, ring
  <1>21. ASSUME NEW w \in Writers, w # w0, PutReadTail(w) \/ PutReadHead(w) PROVE Goal
    BY <1>21, <1>a, <1>t DEF PutReadTail, PutReadHead, Goto, ring, StartMet
  <1>22. ASSUME NEW w \in Writers, w # w0, PutFull(w) \/ PutRoom(w) PROVE Goal
    BY <1>22, <1>a, <1>t DEF PutFull, PutRoom, Goto, ring, Forget, EndMet
  <1>23. ASSUME NEW w \in Writers, w # w0, PutRetry(w) PROVE Goal
    BY <1>23, <1>a, <1>t DEF PutRetry, Goto, ring, Forget
  <1>24. ASSUME NEW w \in Writers, w # w0, PutSlot(w) \/ PutCopy(w) \/ PutPublish(w) PROVE Goal
    <2>1. pc'[w0] = pc[w0]
      BY <1>24, <1>t DEF PutSlot, PutCopy, PutPublish, Goto
    <2>2. rtail' = rtail /\ rhead' = rhead /\ head' = head /\ tail' = tail /\ met' = met
      BY <1>24 DEF PutSlot, PutCopy, PutPublish
    <2> QED
      BY <1>a, <2>1, <2>2
  <1>25. ASSUME NEW w \in Writers, w # w0, PutClaim(w) PROVE Goal
    <2>1. met' = met \cup {t \in Threads : pc[t] \in SecondLoad /\ (t \in Writers \/ AtLimit(t)')}
      BY <1>25 DEF PutClaim, ClaimMet
    <2>2. pc'[w0] = pc[w0]
      BY <1>25, <1>t DEF PutClaim, Goto
    <2>3. pc[w0] \in SecondLoad => w0 \in met'
      BY <2>1 DEF Threads
    <2> QED
      BY <2>2, <2>3 DEF Goal, WriterMet, SecondLoad
  <1>12. Goal
    BY <1>1, <1>2, <1>3, <1>4, <1>4a, <1>4b, <1>5, <1>6, <1>6a, <1>7, <1>8, <1>8a, <1>9,
       <1>10, <1>10a, <1>11, <1>20, <1>21, <1>22, <1>23, <1>24, <1>25
    DEF Next, PutStep, GetStep
  <1> QED
    BY <1>12 DEF Goal

(* A put reports a full queue only if it was full between its loads or     *)
(* another put claimed meanwhile, whichever load comes first, for any      *)
(* number of readers and writers (queue_put_nonblocking_multi).            *)
THEOREM FullIsExcused == Spec => FullOrOvertaken
  <1> DEFINE Inv == \A w \in Writers : WriterMet(w)
             A(w) == pc[w] \in SecondLoad /\ pc'[w] \in {"idle", "putRead"} => w \in met
  <1>1. Init => Inv
    BY DEF Init, WriterMet, SecondLoad
  <1>2. IndInv /\ Inv /\ [Next]_vars => Inv' /\ [\A w \in Writers : A(w)]_vars
    BY WriterMetStep
  <1> QED
    BY InitIndInv, NextIndInv, <1>1, <1>2, PTL DEF Spec, FullOrOvertaken

-----------------------------------------------------------------------------
(***************************************************************************)
(* The ring implements the pool of ElementPool: every element that is put  *)
(* is got exactly once, and never more than Capacity are held.             *)
(***************************************************************************)

(* The elements in the ring: those held in slots are distinct, already     *)
(* counted as published and not yet delivered; a writer about to publish   *)
(* has its own next element in its slot.                                   *)
PublishInv ==
  \A w \in Writers : pc[w] = "putPublish" => content[SlotOf(w)] = <<w, seq[w]>>

ElementInv ==
  /\ PublishInv
  /\ \A s \in Holding :
       /\ content[s] \in Elements
       /\ content[s][2] < seq[content[s][1]]
       /\ content[s] \notin delivered
  /\ \A s, u \in Holding : content[s] = content[u] => s = u
  /\ delivered \subseteq Elements
  /\ \A e \in delivered : e[2] < seq[e[1]]

LEMMA InitElementInv == Init => ElementInv /\ Pool!Init
  BY SMT DEF Init, ElementInv, PublishInv, Holding, Stored, Pool!Init

(* A step that leaves the held slots, their contents and the histories     *)
(* alone is a stuttering step of the pool.                                 *)
LEMMA PoolStutter ==
  ASSUME ElementInv, Holding' = Holding, \A s \in Holding : content'[s] = content[s],
         seq' = seq, delivered' = delivered, PublishInv'
  PROVE  ElementInv' /\ Stored' = Stored /\ UNCHANGED delivered
  BY SMT DEF ElementInv, Stored

(* A step that moves one thread between labels where it neither copies an  *)
(* element out nor is about to publish one, and leaves the slots alone,    *)
(* keeps the held slots.                                                   *)
LEMMA LabelStep ==
  ASSUME TypeOK, PublishInv, NEW t \in Threads, NEW l,
         l \notin {"getCopy", "putPublish"}, pc[t] # "getCopy",
         pc' = [pc EXCEPT ![t] = l],
         \A u \in Threads : u # t => pos'[u] = pos[u],
         status' = status, content' = content, seq' = seq
  PROVE  Holding' = Holding /\ PublishInv'
  <1>1. pc'[t] = l /\ \A u \in Threads : u # t => pc'[u] = pc[u]
    BY DEF TypeOK
  <1>2. \A u \in Threads : u # t => SlotOf(u)' = SlotOf(u)
    BY DEF SlotOf
  <1>3. \A r \in Readers : pc'[r] = "getCopy" => r # t /\ pc[r] = "getCopy"
    BY <1>1
  <1>4. \A r \in Readers : pc[r] = "getCopy" => r # t /\ pc'[r] = "getCopy"
    BY <1>1
  <1>5. Holding' = Holding
    BY <1>2, <1>3, <1>4, SMT DEF Holding
  <1>6. \A w \in Writers : pc'[w] = "putPublish" => w # t /\ pc[w] = "putPublish"
    BY <1>1
  <1>7. PublishInv'
    BY <1>2, <1>6 DEF PublishInv
  <1> QED
    BY <1>5, <1>7

(* The pool never exceeds the capacity.                                    *)
PoolFits == Cardinality(Stored) <= Capacity

(* Every step of the ring is a step of the pool or leaves it unchanged:    *)
(* publishing is Put, copying out is Take.                                 *)
LEMMA NextElementInv ==
  IndInv /\ SlotExclusion /\ ElementInv /\ [Next]_vars /\ PoolFits'
    => ElementInv' /\ [Pool!Next]_<<Stored, delivered>>
  <1> SUFFICES ASSUME IndInv, SlotExclusion, ElementInv, [Next]_vars, PoolFits'
               PROVE  ElementInv' /\ [Pool!Next]_<<Stored, delivered>>
    OBVIOUS
  <1> DEFINE Goal == ElementInv' /\ [Pool!Next]_<<Stored, delivered>>
             Still == ElementInv' /\ Stored' = Stored /\ UNCHANGED delivered
  <1>s. \A t \in Threads : SlotOf(t) \in Slots
    BY SlotOfType DEF IndInv
  <1>t. TypeOK
    BY DEF IndInv
  <1>p. PublishInv
    BY DEF ElementInv
  <1>g. Still => Goal
    OBVIOUS
  <1>1. ASSUME NEW w \in Writers, NEW k \in PutSizes, NEW b \in BOOLEAN, PutBegin(w, k, b)
        PROVE  Still
    <2>1. PICK l \in {"putRead"} : pc' = [pc EXCEPT ![w] = l] /\ pc[w] # "getCopy"
      BY <1>1 DEF PutBegin, Goto
    <2>2. status' = status /\ content' = content /\ seq' = seq /\ delivered' = delivered
      BY <1>1 DEF PutBegin, ring
    <2>3. \A u \in Threads : u # w => pos'[u] = pos[u]
      BY <1>1, <1>t DEF PutBegin, TypeOK
    <2>4. Holding' = Holding /\ PublishInv'
      BY <1>t, <1>p, <2>1, <2>2, <2>3, LabelStep
    <2> QED
      BY <2>2, <2>4, PoolStutter
  <1>2. ASSUME NEW w \in Writers,
               PutReadTail(w) \/ PutReadHead(w) \/ PutFull(w) \/ PutRoom(w) \/ PutRetry(w)
        PROVE  Still
    <2>1. PICK l \in {"putHead", "putTail", "putRead", "putClaim", "idle"} : pc' = [pc EXCEPT ![w] = l] /\ pc[w] # "getCopy"
      BY <1>2 DEF PutReadTail, PutReadHead, PutFull, PutRoom, PutRetry, Goto
    <2>2. status' = status /\ content' = content /\ seq' = seq /\ delivered' = delivered
      BY <1>2 DEF PutReadTail, PutReadHead, PutFull, PutRoom, PutRetry, ring
    <2>3. \A u \in Threads : u # w => pos'[u] = pos[u]
      BY <1>2, <1>t DEF PutReadTail, PutReadHead, PutFull, PutRoom, PutRetry, TypeOK
    <2>4. Holding' = Holding /\ PublishInv'
      BY <1>t, <1>p, <2>1, <2>2, <2>3, LabelStep
    <2> QED
      BY <2>2, <2>4, PoolStutter
  <1>3. ASSUME NEW w \in Writers, PutClaim(w) PROVE Still
    <2>1. PICK l \in {"putSlot"} : pc' = [pc EXCEPT ![w] = l] /\ pc[w] # "getCopy"
      BY <1>3 DEF PutClaim, Goto
    <2>2. status' = status /\ content' = content /\ seq' = seq /\ delivered' = delivered
      BY <1>3 DEF PutClaim, ring
    <2>3. \A u \in Threads : u # w => pos'[u] = pos[u]
      BY <1>3, <1>t DEF PutClaim, TypeOK
    <2>4. Holding' = Holding /\ PublishInv'
      BY <1>t, <1>p, <2>1, <2>2, <2>3, LabelStep
    <2> QED
      BY <2>2, <2>4, PoolStutter
  <1>4. ASSUME NEW w \in Writers, PutSlot(w) PROVE Still
    <2>1. Holding' = Holding
      BY <1>4, <1>s, <1>t, ThreadsDisjoint, SMT DEF PutSlot, Goto, Holding, SlotOf, TypeOK
    <2>2. PublishInv'
      BY <1>4, <1>t DEF PutSlot, Goto, PublishInv, ElementInv, SlotOf, TypeOK
    <2> QED
      BY <1>4, <2>1, <2>2, PoolStutter DEF PutSlot
  <1>5. ASSUME NEW w \in Writers, PutCopy(w) PROVE Still
    <2>1. Holding' = Holding
      BY <1>5, <1>t, ThreadsDisjoint DEF PutCopy, Goto, Holding, SlotOf, TypeOK
    <2>2. SlotOf(w) \notin Holding
      BY <1>5, SMT DEF PutCopy, Goto, Holding, SlotExclusion, Busy
    <2>3. \A s \in Holding : content'[s] = content[s]
      BY <1>5, <1>t, <2>2, SMT DEF PutCopy, TypeOK
    <2>4. PublishInv'
      <3> SUFFICES ASSUME NEW v \in Writers, pc'[v] = "putPublish"
                   PROVE  content'[SlotOf(v)'] = <<v, seq'[v]>>
        BY DEF PublishInv
      <3>1. CASE v = w
        BY <1>5, <1>s, <1>t, <3>1 DEF PutCopy, Goto, SlotOf, TypeOK
      <3>2. CASE v # w
        <4>1. pc[v] = "putPublish" /\ SlotOf(v)' = SlotOf(v)
          BY <1>5, <1>t, <3>2 DEF PutCopy, Goto, SlotOf, TypeOK
        <4>2. SlotOf(v) # SlotOf(w)
          BY <1>5, <3>2, <4>1 DEF PutCopy, Goto, SlotExclusion, Busy
        <4> QED
          <5>1. content'[SlotOf(v)] = content[SlotOf(v)] /\ seq'[v] = seq[v]
            BY <1>5, <1>s, <1>t, <4>2 DEF PutCopy, TypeOK
          <5> QED
            BY <1>p, <4>1, <5>1 DEF PublishInv
      <3> QED
        BY <3>1, <3>2
    <2> QED
      BY <1>5, <2>1, <2>3, <2>4, PoolStutter DEF PutCopy
  <1>6. ASSUME NEW w \in Writers, PutPublish(w) PROVE Goal
    <2> DEFINE s0 == SlotOf(w)
               e0 == <<w, seq[w]>>
    <2>1. /\ pc[w] = "putPublish"
          /\ s0 \in Slots
          /\ content[s0] = e0
          /\ status[s0] = WRITING
          /\ e0 \in Elements
          /\ seq[w] \in Nat
      <3>1. pc[w] = "putPublish" /\ s0 \in Slots
        BY <1>6, <1>s DEF PutPublish, Goto
      <3>2. content[s0] = e0
        BY <3>1 DEF PublishInv, ElementInv
      <3>3. status[s0] = WRITING
        BY <3>1 DEF SlotExclusion, Busy
      <3>4. seq[w] \in Nat /\ want[w] \in Int
        BY <1>t DEF TypeOK
      <3>5. want[w] >= 1 /\ seq[w] + want[w] <= MaxPuts
        BY <3>1 DEF IndInv, CallInv, WriterInv, PutLabels
      <3>6. e0 \in Elements
        BY <3>4, <3>5, MaxPutsNat, SMT DEF Elements
      <3> QED
        BY <3>1, <3>2, <3>3, <3>4, <3>6
    <2>2. Holding' = Holding \cup {s0}
      <3>1. \A r \in Readers : pc'[r] = pc[r] /\ SlotOf(r)' = SlotOf(r)
        BY <1>6, <1>t, ThreadsDisjoint DEF PutPublish, Goto, SlotOf, TypeOK
      <3>2. status' = [status EXCEPT ![s0] = FULL] /\ status \in [Slots -> 0 .. 3]
        BY <1>6, <1>t, SMTT(20) DEF PutPublish, TypeOK
      <3> HIDE DEF s0
      <3>3. \A s \in Slots : status'[s] = FULL <=> status[s] = FULL \/ s = s0
        BY <2>1, <3>2
      <3> QED
        BY <2>1, <3>1, <3>3, SMT DEF Holding
    <2>3. s0 \notin Holding
      <3>1. \A r \in Readers : pc[r] = "getCopy" => status[SlotOf(r)] = READING
        BY DEF SlotExclusion, Busy
      <3>2. status[s0] = WRITING
        BY <2>1
      <3> HIDE DEF s0
      <3> QED
        BY <3>1, <3>2, SMT DEF Holding
    <2>4. content' = content /\ delivered' = delivered
      BY <1>6 DEF PutPublish
    <2>5. Stored' = Stored \cup {e0}
      BY <2>1, <2>2, <2>4 DEF Stored
    <2>6. e0 \notin Stored \cup delivered
      BY <2>1, SMT DEF ElementInv, Stored, Elements
    <2>7. Cardinality(Stored \cup {e0}) <= Capacity
      <3>1. (Cardinality(Stored) <= Capacity)'
        BY DEF PoolFits
      <3> QED
        BY <3>1, <2>5
    <2>8. Pool!Next
      <3>1. Pool!Put(e0)
        BY <2>4, <2>5, <2>6, <2>7 DEF Pool!Put, Pool!Cardinality, Cardinality
      <3>2. e0 \in Elements
        BY <2>1
      <3> HIDE DEF e0
      <3> QED
        BY <3>1, <3>2 DEF Pool!Next
    <2>9. PublishInv'
      <3> SUFFICES ASSUME NEW v \in Writers, pc'[v] = "putPublish"
                   PROVE  content'[SlotOf(v)'] = <<v, seq'[v]>>
        BY DEF PublishInv
      <3>1. v # w
        BY <1>6, <1>t DEF PutPublish, Goto, TypeOK
      <3>2. pc[v] = "putPublish" /\ SlotOf(v)' = SlotOf(v) /\ seq'[v] = seq[v]
        BY <1>6, <1>t, <3>1 DEF PutPublish, Goto, SlotOf, TypeOK
      <3> QED
        BY <2>4, <3>2 DEF PublishInv, ElementInv
    <2>10. \A v \in Writers : seq[v] <= seq'[v]
      BY <1>6, <1>t, SMT DEF PutPublish, TypeOK
    <2>11. seq'[w] = seq[w] + 1 /\ seq \in [Writers -> Nat] /\ seq' \in [Writers -> Nat]
      BY <1>6, <1>t, SMT DEF PutPublish, TypeOK
    <2>12. \A e \in Elements : e[2] < seq[e[1]] => e[2] < seq'[e[1]]
      BY <2>10, <2>11, SMT DEF Elements
    <2>13. e0[2] < seq'[e0[1]]
      <3>1. e0[1] = w /\ e0[2] = seq[w]
        OBVIOUS
      <3> HIDE DEF e0
      <3> QED
        BY <2>1, <2>11, <3>1, SMT
    <2>14. \A s \in Holding' : /\ content'[s] \in Elements
                               /\ content'[s][2] < seq'[content'[s][1]]
                               /\ content'[s] \notin delivered'
      BY <2>1, <2>2, <2>4, <2>6, <2>12, <2>13 DEF ElementInv
    <2>15. \A s, u \in Holding' : content'[s] = content'[u] => s = u
      <3>1. \A s, u \in Holding : content[s] = content[u] => s = u
        BY DEF ElementInv
      <3>2. \A s \in Holding : content[s] # e0
        BY <2>6 DEF Stored
      <3>3. content[s0] = e0
        BY <2>1
      <3> HIDE DEF s0, e0
      <3> QED
        BY <2>2, <2>4, <3>1, <3>2, <3>3
    <2>16. delivered' \subseteq Elements /\ \A e \in delivered' : e[2] < seq'[e[1]]
      BY <2>4, <2>12 DEF ElementInv
    <2> QED
      BY <2>8, <2>9, <2>14, <2>15, <2>16 DEF ElementInv
  <1>7. ASSUME NEW r \in Readers, NEW k \in GetSizes, NEW b \in BOOLEAN, GetBegin(r, k, b)
        PROVE  Still
    <2>1. PICK l \in {"getRead"} : pc' = [pc EXCEPT ![r] = l] /\ pc[r] # "getCopy"
      BY <1>7 DEF GetBegin, Goto
    <2>2. status' = status /\ content' = content /\ seq' = seq /\ delivered' = delivered
      BY <1>7 DEF GetBegin, ring
    <2>3. \A u \in Threads : u # r => pos'[u] = pos[u]
      BY <1>7, <1>t DEF GetBegin, TypeOK
    <2>4. Holding' = Holding /\ PublishInv'
      BY <1>t, <1>p, <2>1, <2>2, <2>3, LabelStep
    <2> QED
      BY <2>2, <2>4, PoolStutter
  <1>8. ASSUME NEW r \in Readers,
               GetReadHead(r) \/ GetReadTail(r) \/ GetEmpty(r) \/ GetSome(r) \/ GetRetry(r)
        PROVE  Still
    <2>1. PICK l \in {"getHead", "getTail", "getRead", "getClaim", "idle"} : pc' = [pc EXCEPT ![r] = l] /\ pc[r] # "getCopy"
      BY <1>8 DEF GetReadHead, GetReadTail, GetEmpty, GetSome, GetRetry, Goto
    <2>2. status' = status /\ content' = content /\ seq' = seq /\ delivered' = delivered
      BY <1>8 DEF GetReadHead, GetReadTail, GetEmpty, GetSome, GetRetry, ring
    <2>3. \A u \in Threads : u # r => pos'[u] = pos[u]
      BY <1>8, <1>t DEF GetReadHead, GetReadTail, GetEmpty, GetSome, GetRetry, TypeOK
    <2>4. Holding' = Holding /\ PublishInv'
      BY <1>t, <1>p, <2>1, <2>2, <2>3, LabelStep
    <2> QED
      BY <2>2, <2>4, PoolStutter
  <1>9. ASSUME NEW r \in Readers, GetClaim(r) PROVE Still
    <2>1. PICK l \in {"getSlot"} : pc' = [pc EXCEPT ![r] = l] /\ pc[r] # "getCopy"
      BY <1>9 DEF GetClaim, Goto
    <2>2. status' = status /\ content' = content /\ seq' = seq /\ delivered' = delivered
      BY <1>9 DEF GetClaim, ring
    <2>3. \A u \in Threads : u # r => pos'[u] = pos[u]
      BY <1>9, <1>t DEF GetClaim, TypeOK
    <2>4. Holding' = Holding /\ PublishInv'
      BY <1>t, <1>p, <2>1, <2>2, <2>3, LabelStep
    <2> QED
      BY <2>2, <2>4, PoolStutter
  <1>10. ASSUME NEW r \in Readers, GetSlot(r) PROVE Still
    <2>1. Holding' = Holding
      BY <1>10, <1>s, <1>t DEF GetSlot, Goto, Holding, SlotOf, TypeOK
    <2>2. PublishInv'
      BY <1>10, <1>t, ThreadsDisjoint
      DEF GetSlot, Goto, PublishInv, ElementInv, SlotOf, TypeOK
    <2> QED
      BY <1>10, <2>1, <2>2, PoolStutter DEF GetSlot
  <1>11. ASSUME NEW r \in Readers, GetCopy(r) PROVE Goal
    <2> DEFINE s0 == SlotOf(r)
               e0 == content[s0]
    <2>1. s0 \in Holding /\ status[s0] = READING
      BY <1>11, <1>s DEF GetCopy, Goto, Holding, SlotExclusion, Busy
    <2>2. Holding' = Holding \ {s0}
      <3>1. \A q \in Readers : q # r /\ pc[q] = "getCopy" => SlotOf(q) # s0
        BY <1>11 DEF GetCopy, Goto, SlotExclusion, Busy
      <3> QED
        <4>1. /\ \A q \in Readers : SlotOf(q)' = SlotOf(q)
              /\ pc'[r] = "getRelease" /\ pc[r] = "getCopy"
              /\ \A q \in Readers : q # r => pc'[q] = pc[q]
              /\ status' = status
          BY <1>11, <1>t DEF GetCopy, Goto, SlotOf, TypeOK
        <4>2. SlotOf(r) = s0
          OBVIOUS
        <4> HIDE DEF s0
        <4> QED
          BY <2>1, <3>1, <4>1, <4>2, SMT DEF Holding
    <2>3. content' = content /\ delivered' = delivered \cup {e0} /\ seq' = seq
      BY <1>11 DEF GetCopy
    <2>4. Stored' = Stored \ {e0}
      BY <2>1, <2>2, <2>3 DEF Stored, ElementInv
    <2>5. e0 \in Stored /\ e0 \notin delivered /\ e0 \in Elements /\ e0[2] < seq[e0[1]]
      BY <2>1 DEF Stored, ElementInv
    <2>6. Pool!Next
      BY <2>3, <2>4, <2>5 DEF Pool!Next, Pool!Take
    <2>7. PublishInv'
      BY <1>11, <1>t, ThreadsDisjoint
      DEF GetCopy, Goto, PublishInv, ElementInv, SlotOf, TypeOK
    <2>8. ElementInv'
      BY <2>1, <2>2, <2>3, <2>5, <2>7 DEF ElementInv
    <2> QED
      BY <2>6, <2>8
  <1>12. ASSUME NEW r \in Readers, GetRelease(r) PROVE Still
    <2>1. status[SlotOf(r)] = READING
      BY <1>12 DEF GetRelease, Goto, SlotExclusion, Busy
    <2>2. Holding' = Holding
      BY <1>12, <1>s, <1>t, <2>1, SMTT(20) DEF GetRelease, Goto, Holding, SlotOf, TypeOK
    <2>3. PublishInv'
      BY <1>12, <1>t, ThreadsDisjoint
      DEF GetRelease, Goto, PublishInv, ElementInv, SlotOf, TypeOK
    <2> QED
      BY <1>12, <2>2, <2>3, PoolStutter DEF GetRelease
  <1>13. ASSUME UNCHANGED vars PROVE Still
    <2>1. Holding' = Holding /\ PublishInv'
      BY <1>13 DEF vars, Holding, PublishInv, ElementInv, SlotOf
    <2> QED
      BY <1>13, <2>1, PoolStutter DEF vars
  <1> HIDE DEF Goal, Still
  <1>14. Goal
    BY <1>g, <1>1, <1>2, <1>3, <1>4, <1>5, <1>6, <1>7, <1>8, <1>9, <1>10, <1>11, <1>12,
       <1>13 DEF Next, PutStep, GetStep
  <1> QED
    BY <1>14 DEF Goal

-----------------------------------------------------------------------------
INSTANCE FiniteSetTheorems

LEMMA CountFactsHold == CountFacts
  <1>1. \A S : IsFiniteSet(S) => Cardinality(S) \in Nat
    BY FS_CardinalityType
  <1>2. ASSUME NEW S, NEW D, IsFiniteSet(S), D \subseteq S
        PROVE  /\ IsFiniteSet(D) /\ IsFiniteSet(S \ D)
               /\ Cardinality(S \ D) = Cardinality(S) - Cardinality(D)
    <2>1. S \cap D = D
      BY <1>2
    <2>2. IsFiniteSet(D)
      BY <1>2, FS_Subset
    <2>3. IsFiniteSet(S \ D) /\ Cardinality(S \ D) = Cardinality(S) - Cardinality(S \cap D)
      BY <1>2, FS_Difference
    <2> QED
      BY <2>1, <2>2, <2>3
  <1>3. ASSUME NEW S, NEW A, IsFiniteSet(S), IsFiniteSet(A), S \cap A = {}
        PROVE  /\ IsFiniteSet(S \cup A)
               /\ Cardinality(S \cup A) = Cardinality(S) + Cardinality(A)
    <2>1. /\ IsFiniteSet(S \cup A)
          /\ Cardinality(S \cup A) = Cardinality(S) + Cardinality(A) - Cardinality(S \cap A)
      BY <1>3, FS_Union
    <2>2. Cardinality(S \cap A) = 0 /\ Cardinality(S) \in Nat /\ Cardinality(A) \in Nat
      BY <1>1, <1>3, FS_EmptySet
    <2> QED
      BY <2>1, <2>2, SMT
  <1>4. ASSUME NEW x, NEW S, IsFiniteSet(S)
        PROVE  IsFiniteSet({x} \X S) /\ Cardinality({x} \X S) = Cardinality(S)
    <2>1. IsFiniteSet({x}) /\ Cardinality({x}) = 1
      BY FS_Singleton
    <2>2. IsFiniteSet({x} \X S) /\ Cardinality({x} \X S) = Cardinality({x}) * Cardinality(S)
      BY <1>4, <2>1, FS_Product
    <2>3. \A n \in Nat : 1 * n = n
      BY SMT
    <2> QED
      BY <1>1, <1>4, <2>1, <2>2, <2>3
  <1>5. \A a, b \in Int : IsFiniteSet(a .. b)
    BY FS_Interval
  <1> QED
    BY <1>1, <1>2, <1>3, <1>4, <1>5, FS_Singleton, FS_EmptySet DEF CountFacts

(* No orphaned wait, for every number of callers, every capacity and every *)
(* batch size: in each slot the elements still owed, less the gets still   *)
(* owed one, plus the one stored there, are the indices between head and   *)
(* tail, so neither spin loop of queue.c waits for a call that is not in   *)
(* progress.                                                               *)
THEOREM SlotBalanceHolds == Spec => []SlotBalance
  <1>1. Init => SlotExclusion
    BY DEF Init, SlotExclusion, Busy
  <1>2. BalanceInv => SlotBalance
    BY DEF BalanceInv, SlotInv, SlotBalance, Claims, Unfinished, Queued, Stores
  <1> QED
    BY InitIndInv, NextIndInv, InitBalance, NextBalance, NextSlotExclusion, CountFactsHold,
       <1>1, <1>2, PTL DEF Spec

(* Its elements sit in distinct slots.                                     *)
LEMMA StoredBound == PoolFits
  <1> DEFINE f == [s \in Holding |-> content[s]]
  <1>1. IsFiniteSet(Slots) /\ Cardinality(Slots) = Capacity
    BY FS_Interval, CapacityPositive, SMT DEF Slots
  <1>2. IsFiniteSet(Holding) /\ Cardinality(Holding) <= Capacity
    BY <1>1, FS_Subset DEF Holding
  <1>3. f \in Surjection(Holding, Stored)
    BY DEF Surjection, Stored
  <1>4. IsFiniteSet(Stored) /\ Cardinality(Stored) <= Cardinality(Holding)
    BY <1>2, <1>3, FS_Surjection
  <1>5. Cardinality(Holding) \in Nat /\ Cardinality(Stored) \in Nat
    BY <1>2, <1>4, FS_CardinalityType
  <1> QED
    BY <1>2, <1>4, <1>5, CapacityPositive, SMTT(20) DEF PoolFits

(* Exactly-once transfer for every number of callers, every capacity and   *)
(* every batch size: the ring implements the pool.                         *)
THEOREM RingImplementsPool == Spec => ImplementsPool
  <1>1. Init => SlotExclusion
    BY DEF Init, SlotExclusion, Busy
  <1> QED
    BY InitIndInv, NextIndInv, InitElementInv, NextSlotExclusion, NextElementInv, StoredBound, <1>1,
       PTL
    DEF Spec, ImplementsPool, Pool!Spec
=============================================================================
