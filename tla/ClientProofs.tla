---------------------------- MODULE ClientProofs ----------------------------
(***************************************************************************)
(* Proofs about Client for any threads, traces, buffers and payloads.      *)
(***************************************************************************)
EXTENDS Client, TLAPS

(* Leaves are first-order unless they say SMT, which does arithmetic.      *)
USE ZenonT(40)

Call == [op : {"none", "begin", "sampled", "head", "data", "raw"},
         trace : TraceIds \cup {NoTrace}, left : Nat,
         head : (Buffers \cup {Cleared, Null}) \X Nat]

Entry == (TraceIds \cup {NoTrace}) \X Buffers

Labels == {"idle", "begin", "acquire", "write"}

Types ==
  /\ available \subseteq Buffers
  /\ complete \subseteq Entry /\ indexed \subseteq Entry
  /\ tls \in [Threads -> TraceState] /\ detached \subseteq TraceState
  /\ pc \in [Threads -> Labels]
  /\ call \in [Threads -> Call]
  /\ header \in [Buffers -> TraceIds \cup {NoTrace, Overrun}]

\* what a thread in the middle of a call has in its state and its locals
Midway(t) ==
  /\ pc[t] = "begin" => tls[t].buf = Cleared /\ call[t].op \in {"begin", "sampled"}
                        /\ call[t].trace \in TraceIds
  /\ pc[t] = "acquire" => tls[t].recording /\ tls[t].buf = Cleared
  /\ pc[t] = "write" => tls[t].recording
  /\ pc[t] \in {"acquire", "write"} => call[t].op \in {"head", "data", "raw"} /\ call[t].left > 0

CallInv ==
  /\ Types
  /\ \A t \in Threads : Midway(t) /\ (tls[t].recording => tls[t].active)
  /\ \A s \in detached : s.recording => s.active

-----------------------------------------------------------------------------
(***************************************************************************)
(* Sizes in whole words.                                                   *)
(***************************************************************************)

Words == {n \in Nat : \E k \in Int : n = k * WordSize}

\* the header, the buffers and the payloads are whole numbers of words
WholeWords == {HeaderSize, BufSize} \cup WriteSizes \subseteq Words

\* the counter of the call lies inside its buffer
CounterFits(c) == c.op = "data" /\ c.head[1] \in Buffers => c.head[2] + WordSize <= BufSize

\* the locals of a call, in whole words
WordCall(c) == c.left \in Words /\ CounterFits(c)

WordInv ==
  /\ WholeWords
  /\ \A t \in Threads : tls[t].used \in Words /\ WordCall(call[t])
  /\ \A s \in detached : s.used \in Words

LEMMA Multiples ==
  ASSUME NEW j \in Int, NEW k \in Int, NEW w \in Int
  PROVE  (j + k) * w = j * w + k * w /\ (j - k) * w = j * w - k * w
  BY SMT

LEMMA PositiveMultiple ==
  ASSUME NEW k \in Int, NEW w \in Nat \ {0}, k * w > 0
  PROVE  k * w >= w
  <1>1. k >= 1
    BY SMT
  <1> QED
    BY <1>1, SMT

LEMMA WordArithmetic ==
  /\ 0 \in Words /\ WordSize \in Words
  /\ \A m, n \in Words : m + n \in Words /\ (m >= n => m - n \in Words)
  /\ \A n \in Words : n > 0 => n >= WordSize
  <1> USE ClientAssumption DEF Words
  <1>1. 0 \in Words /\ WordSize \in Words
    <2>1. 0 = 0 * WordSize /\ WordSize = 1 * WordSize
      BY SMT
    <2> QED
      BY <2>1, SMT
  <1>2. ASSUME NEW m \in Words, NEW n \in Words
        PROVE  m + n \in Words /\ (m >= n => m - n \in Words)
    <2>1. PICK j \in Int, k \in Int : m = j * WordSize /\ n = k * WordSize
      OBVIOUS
    <2>2. m + n = (j + k) * WordSize /\ m - n = (j - k) * WordSize
      <3> HIDE DEF Words
      <3>1. WordSize \in Int
        BY SMT
      <3>2. /\ (j + k) * WordSize = j * WordSize + k * WordSize
            /\ (j - k) * WordSize = j * WordSize - k * WordSize
        BY <3>1, Multiples, SMT
      <3> QED
        BY <2>1, <3>2
    <2>3. j + k \in Int /\ j - k \in Int /\ m + n \in Nat /\ (m >= n => m - n \in Nat)
      BY SMT
    <2> QED
      BY <2>2, <2>3
  <1>3. ASSUME NEW n \in Words, n > 0 PROVE n >= WordSize
    BY <1>3, PositiveMultiple
  <1> QED
    BY <1>1, <1>2, <1>3

-----------------------------------------------------------------------------
(***************************************************************************)
(* The operations on a state and on the locals of a call.                  *)
(***************************************************************************)

LEMMA StateTypes ==
  ASSUME NEW s \in TraceState
  PROVE  /\ AfterReturn(s) \in TraceState /\ Ended(s) \in TraceState
         /\ \A b \in Buffers \cup {Null} : Filled(s, b) \in TraceState
         /\ \A n \in Nat : BufSize - s.used >= n => [s EXCEPT !.used = @ + n] \in TraceState
         /\ \A n \in Nat \ {0} : /\ Grant(s, n) \in Nat /\ Grant(s, n) <= n
                                 /\ BufSize - s.used >= Grant(s, n)
                                 /\ Grant(s, n) = 0 <=> s.used = BufSize
  <1> USE ClientAssumption DEF TraceState
  <1>0. 0 \in 0 .. BufSize /\ HeaderSize \in 0 .. BufSize
    BY SMT
  <1>1. AfterReturn(s) \in TraceState
    BY <1>0 DEF AfterReturn
  <1>2. Ended(s) \in TraceState
    BY DEF Ended
  <1>3. \A b \in Buffers \cup {Null} : Filled(s, b) \in TraceState
    BY <1>0 DEF Filled
  <1>4. \A n \in Nat : BufSize - s.used >= n => [s EXCEPT !.used = @ + n] \in TraceState
    BY SMT
  <1>5. \A n \in Nat \ {0} : /\ Grant(s, n) \in Nat /\ Grant(s, n) <= n
                             /\ BufSize - s.used >= Grant(s, n)
                             /\ Grant(s, n) = 0 <=> s.used = BufSize
    BY SMT DEF Grant
  <1> QED
    BY <1>1, <1>2, <1>3, <1>4, <1>5

LEMMA StateFields ==
  ASSUME NEW s \in TraceState, NEW b
  PROVE  /\ Filled(s, b).active = s.active /\ Filled(s, b).recording = s.recording
         /\ Filled(s, b).trace = s.trace /\ Filled(s, b).buf = b /\ Filled(s, b).used = HeaderSize
         /\ AfterReturn(s).active = s.active /\ AfterReturn(s).recording = s.recording
         /\ AfterReturn(s).trace = s.trace
         /\ AfterReturn(s).buf = Cleared /\ AfterReturn(s).used = 0
         /\ ~Ended(s).recording /\ Ended(s).used = s.used
  BY DEF Filled, AfterReturn, Ended, TraceState

LEMMA CallFields ==
  /\ \A tr, op : /\ BeginCall(op, tr).op = op /\ BeginCall(op, tr).trace = tr
                 /\ BeginCall(op, tr).left = 0
  /\ \A n, op : WriteCall(op, n).op = op /\ WriteCall(op, n).left = n
  /\ \A c \in Call : \A h : /\ CounterAt(c, h).op = "data" /\ CounterAt(c, h).left = c.left
                        /\ CounterAt(c, h).head = h
  BY DEF BeginCall, WriteCall, CounterAt, NoCall, Call

LEMMA OpenedType ==
  ASSUME NEW tr \in TraceIds, NEW op
  PROVE  Opened(tr, op) \in TraceState
  BY ClientAssumption, SMT DEF Opened, Recording, TraceState

LEMMA CallTypes ==
  /\ NoCall \in Call /\ Created \in TraceState
  /\ \A tr \in TraceIds, op \in {"begin", "sampled"} :
       BeginCall(op, tr) \in Call
  /\ \A n \in WriteSizes, op \in {"head", "raw"} : WriteCall(op, n) \in Call
  /\ \A c \in Call, h \in (Buffers \cup {Cleared, Null}) \X Nat : CounterAt(c, h) \in Call
  <1>1. Created \in TraceState
    BY ClientAssumption, SMT DEF Created, TraceState, Buffers, NoTrace
  <1>2. NoCall \in Call
    BY DEF NoCall, Call, NoTrace
  <1>3. \A tr \in TraceIds, op \in {"begin", "sampled"} :
          BeginCall(op, tr) \in Call
    BY <1>2 DEF Call, BeginCall
  <1>4. \A n \in WriteSizes, op \in {"head", "raw"} :
          WriteCall(op, n) \in Call
    <2>1. \A n \in WriteSizes : n \in Nat
      BY ClientAssumption
    <2> QED
      BY <1>2, <2>1 DEF Call, WriteCall
  <1>5. \A c \in Call, h \in (Buffers \cup {Cleared, Null}) \X Nat : CounterAt(c, h) \in Call
    BY DEF Call, CounterAt
  <1> QED
    BY <1>1, <1>2, <1>3, <1>4, <1>5

\* the locals of a write that is not done
Writing(c) == c \in Call /\ c.op \in {"head", "data", "raw"} /\ c.left > 0

LEMMA BeginsWriting ==
  ASSUME NEW n \in WriteSizes, NEW op \in {"head", "raw"}
  PROVE  Writing(WriteCall(op, n))
  <1> DEFINE c == WriteCall(op, n)
  <1>1. c \in Call
    BY CallTypes
  <1>2. c.op = op /\ c.left = n
    BY CallFields, SMT
  <1> HIDE DEF c
  <1>3. n > 0
    BY ClientAssumption, SMT
  <1>4. Writing(c)
    BY <1>1, <1>2, <1>3 DEF Writing
  <1> QED
    BY <1>4 DEF c

LEMMA GrantedType ==
  ASSUME CallInv, NEW t \in Threads, NEW c, Writing(c)
  PROVE  /\ Granted(t, c) \in Nat /\ (c.op # "head" => Granted(t, c) <= c.left)
         /\ Used(t, Granted(t, c)) \in TraceState
         /\ Used(t, Granted(t, c)).recording = tls[t].recording
         /\ Used(t, Granted(t, c)).active = tls[t].active
         /\ Granted(t, c) = 0 <=> tls[t].used = BufSize
  <1> DEFINE n == IF c.op = "head" THEN WordSize ELSE c.left
  <1>1. n \in Nat \ {0} /\ tls[t] \in TraceState
    BY ClientAssumption, SMT DEF Writing, Call, CallInv, Types
  <1>2. Granted(t, c) = Grant(tls[t], n)
    BY DEF Granted
  <1> HIDE DEF n
  <1>3. /\ Grant(tls[t], n) \in Nat /\ Grant(tls[t], n) <= n
        /\ Grant(tls[t], n) = 0 <=> tls[t].used = BufSize
        /\ BufSize - tls[t].used >= Grant(tls[t], n)
    BY <1>1, StateTypes
  <1>4. Used(t, Granted(t, c)) \in TraceState
    BY <1>1, <1>2, <1>3, StateTypes DEF Used
  <1>5. /\ Used(t, Granted(t, c)).recording = tls[t].recording
        /\ Used(t, Granted(t, c)).active = tls[t].active
    BY <1>1 DEF Used, TraceState
  <1> QED
    BY <1>2, <1>3, <1>4, <1>5, SMT DEF n

LEMMA GrantedWords ==
  ASSUME CallInv, WordInv, NEW t \in Threads, NEW c, Writing(c), c.left \in Words
  PROVE  /\ Granted(t, c) \in Words /\ tls[t].used + Granted(t, c) \in Words
         /\ Granted(t, c) > 0 => tls[t].used + WordSize <= BufSize
         /\ c.op # "head" => c.left - Granted(t, c) \in Words
  <1> DEFINE n == IF c.op = "head" THEN WordSize ELSE c.left
             u == tls[t].used
             g == Granted(t, c)
  <1>1. /\ n \in Words /\ u \in Words /\ BufSize \in Words /\ u <= BufSize
        /\ n \in Nat /\ u \in Nat /\ BufSize \in Nat /\ WordSize \in Nat /\ c.left \in Nat
        /\ c.op # "head" => n = c.left
    BY WordArithmetic, ClientAssumption, SMT DEF WordInv, WholeWords, CallInv, Types, TraceState, Writing, Call
  <1>2. g = IF BufSize - u < n THEN BufSize - u ELSE n
    BY DEF Granted, Grant
  <1> HIDE DEF n, u, g
  <1>3. BufSize - u \in Words /\ (BufSize - u > 0 => BufSize - u >= WordSize)
    BY <1>1, WordArithmetic
  <1>4. g \in Words /\ g \in Nat /\ g <= n /\ (g > 0 => BufSize - u > 0)
    BY <1>1, <1>2, <1>3, SMT
  <1>5. u + g \in Words /\ n - g \in Words
    BY <1>1, <1>4, WordArithmetic
  <1>6. g > 0 => u + WordSize <= BufSize
    BY <1>1, <1>3, <1>4, SMT
  <1> QED
    BY <1>1, <1>4, <1>5, <1>6 DEF u, g

LEMMA FittingCounter ==
  ASSUME CallInv, NEW h, h[2] \in Nat, h[1] \in Buffers => h[2] + WordSize <= BufSize
  PROVE  HeaderAfterCounter(h) = header
  <1>1. h[1] \in Buffers => ~(h[2] + WordSize > BufSize)
    BY ClientAssumption, SMT
  <1> QED
    BY <1>1 DEF HeaderAfterCounter, CallInv, Types

-----------------------------------------------------------------------------
(***************************************************************************)
(* What a step of a thread does to the buffers: it works on in the buffer  *)
(* it has, replaces its state by s and gives the buffer up, takes a buffer *)
(* into s, or detaches its state.                                          *)
(***************************************************************************)

\* s keeps a buffer of the pool
Keeps(s) == s.recording /\ s.buf \in Buffers

Works(t, s) ==
  /\ tls' = [tls EXCEPT ![t] = s]
  /\ s.active = tls[t].active /\ s.recording = tls[t].recording
  /\ s.trace = tls[t].trace /\ s.buf = tls[t].buf
  /\ header' \in [Buffers -> TraceIds \cup {NoTrace, Overrun}]
  /\ \A b \in Buffers : header'[b] \in {header[b], Overrun}
  /\ WordInv => s.used \in Words /\ header' = header
  /\ UNCHANGED <<available, complete, indexed, detached>>

Replaces(t, s) ==
  /\ tls' = [tls EXCEPT ![t] = s] /\ (s.recording => s.active)
  /\ complete' = IF Keeps(tls[t]) THEN complete \cup {<<tls[t].trace, tls[t].buf>>} ELSE complete
  /\ \/ ~Keeps(s) /\ s.used = 0 /\ detached' = detached
     \/ s \in detached /\ detached' = detached \ {s}
  /\ UNCHANGED <<available, indexed, header>>

Takes(t, s) ==
  /\ ~Keeps(tls[t]) /\ s.active /\ s.recording
  /\ Acquire(t, s)
  /\ UNCHANGED detached

LEMMA ClearedState ==
  /\ \A s : s.buf = Cleared => ~Keeps(s)
  /\ \A s \in TraceState :
       AfterReturn(s) \in TraceState /\ ~Keeps(AfterReturn(s)) /\ AfterReturn(s).used = 0
  <1>1. \A s : s.buf = Cleared => ~Keeps(s)
    BY SMT DEF Keeps, Buffers, Cleared
  <1> QED
    BY <1>1, StateTypes, StateFields

LEMMA UsedFields ==
  ASSUME NEW t \in Threads, tls[t] \in TraceState, NEW n \in Nat
  PROVE  /\ Used(t, n).active = tls[t].active /\ Used(t, n).recording = tls[t].recording
         /\ Used(t, n).trace = tls[t].trace /\ Used(t, n).buf = tls[t].buf
         /\ Used(t, n).used = tls[t].used + n
  BY DEF Used, TraceState

LEMMA ReturnReplaces ==
  ASSUME NEW t \in Threads, NEW s, Return(t, s), tls[t].recording, s.recording => s.active,
         \/ ~Keeps(s) /\ s.used = 0 /\ detached' = detached
         \/ s \in detached /\ detached' = detached \ {s}
  PROVE  Replaces(t, s)
  BY DEF Return, Replaces, Keeps

LEMMA OpenMoves ==
  ASSUME NEW t \in Threads, NEW tr \in TraceIds, NEW op, Open(t, tr, op), ~Keeps(tls[t]),
         UNCHANGED detached
  PROVE  \E s \in TraceState : Replaces(t, s) \/ Takes(t, s)
  <1> DEFINE s == Opened(tr, op)
  <1>1. s \in TraceState /\ s.active /\ s.recording = Recording(tr, op) /\ s.used = 0
    BY OpenedType DEF Opened
  <1>2. Recording(tr, op) => Acquire(t, s)
    BY DEF Open
  <1>3. ~Recording(tr, op) => SetState(t, s)
    BY DEF Open
  <1> HIDE DEF s
  <1>4. Recording(tr, op) => Takes(t, s)
    BY <1>1, <1>2 DEF Takes
  <1>5. ~Recording(tr, op) => Replaces(t, s)
    BY <1>1, <1>3 DEF SetState, Replaces, Keeps
  <1> QED
    BY <1>1, <1>4, <1>5

LEMMA WriteStepMoves ==
  ASSUME CallInv, NEW t \in Threads, NEW c, Writing(c), tls[t].recording, WriteStep(t, c),
         WordInv => WordCall(c)
  PROVE  \E s \in TraceState : Works(t, s) \/ Replaces(t, s)
  <1> DEFINE r == AfterReturn(tls[t])
             s == Used(t, Granted(t, c))
  <1>1. tls[t] \in TraceState
    BY DEF CallInv, Types
  <1>2. r \in TraceState /\ ~Keeps(r) /\ r.used = 0 /\ (r.recording => r.active)
    BY <1>1, ClearedState, StateFields, SMT DEF CallInv
  <1>3. /\ s \in TraceState
        /\ s.active = tls[t].active /\ s.recording = tls[t].recording
        /\ s.trace = tls[t].trace /\ s.buf = tls[t].buf
    <2>1. s \in TraceState /\ Granted(t, c) \in Nat
      BY GrantedType
    <2> QED
      BY <1>1, <2>1, UsedFields
  <1>4. CASE WriteFull(t, c)
    BY <1>2, <1>4, ReturnReplaces DEF WriteFull, WriteStep
  <1>5. ASSUME WriteHead(t, c) \/ WriteData(t, c) \/ WriteRaw(t, c) PROVE Works(t, s)
    <2>1. /\ tls' = [tls EXCEPT ![t] = s] /\ UNCHANGED <<available, complete, indexed, detached>>
      BY <1>5 DEF WriteHead, WriteData, WriteRaw, SetState, WriteStep
    <2>2. ASSUME WordInv PROVE s.used \in Words
      BY <1>1, <2>2, GrantedType, GrantedWords, UsedFields, SMT DEF WordCall
    <2>3. ASSUME WordInv PROVE header' = header
      <3>1. CASE WriteHead(t, c)
        <4> DEFINE h == <<tls[t].buf, tls[t].used>>
        <4>1. header' = HeaderAfterCounter(h) /\ Granted(t, c) > 0
          BY <3>1 DEF WriteHead
        <4>2. h[2] \in Nat /\ h[2] + WordSize <= BufSize
          BY <1>1, <2>3, <4>1, GrantedWords, ClientAssumption, SMT DEF TraceState, WordCall
        <4> HIDE DEF h
        <4> QED
          BY <4>1, <4>2, FittingCounter
      <3>2. CASE WriteData(t, c)
        <4>1. c.head[2] \in Nat /\ header' = HeaderAfterCounter(c.head) /\ c.op = "data"
          BY <3>2 DEF WriteData, Writing, Call
        <4> QED
          BY <2>3, <4>1, FittingCounter DEF WordCall, CounterFits
      <3>3. CASE WriteRaw(t, c)
        BY <3>3 DEF WriteRaw, SetState
      <3> QED
        BY <1>5, <3>1, <3>2, <3>3
    <2>4. header' \in [Buffers -> TraceIds \cup {NoTrace, Overrun}]
      BY <1>5 DEF WriteHead, WriteData, WriteRaw, SetState, HeaderAfterCounter, CallInv, Types
    <2>5. \A b \in Buffers : header'[b] \in {header[b], Overrun}
      BY <1>5 DEF WriteHead, WriteData, WriteRaw, SetState, HeaderAfterCounter
    <2> HIDE DEF s
    <2> QED
      BY <1>3, <2>1, <2>2, <2>3, <2>4, <2>5 DEF Works
  <1> QED
    BY <1>3, <1>4, <1>5 DEF WriteStep

LEMMA ThreadMoves ==
  ASSUME CallInv, NEW t \in Threads, Calls(t) \/ Steps(t)
  PROVE  Detach(t) \/ \E s \in TraceState : Works(t, s) \/ Replaces(t, s) \/ Takes(t, s)
  <1> DEFINE Moves == \E s \in TraceState : Works(t, s) \/ Replaces(t, s) \/ Takes(t, s)
  <1>0. /\ tls[t] \in TraceState /\ (tls[t].recording => tls[t].active)
        /\ AfterReturn(tls[t]) \in TraceState /\ ~Keeps(AfterReturn(tls[t]))
        /\ AfterReturn(tls[t]).used = 0
        /\ AfterReturn(tls[t]).recording => AfterReturn(tls[t]).active
        /\ tls[t].buf = Cleared => ~Keeps(tls[t])
    BY ClearedState, StateFields, SMT DEF CallInv, Types
  <1>1. ASSUME NEW tr \in TraceIds, NEW op \in {"begin", "sampled"}, Begin(t, tr, op) PROVE Moves
    BY <1>0, <1>1, OpenMoves DEF Begin, Displaces, Keeps
  <1>2. ASSUME NEW tr \in TraceIds, NEW op \in {"begin", "sampled"}, BeginReturn(t, tr, op)
        PROVE  Moves
    <2>1. Return(t, AfterReturn(tls[t])) /\ tls[t].recording /\ UNCHANGED detached
      BY <1>2 DEF BeginReturn, Displaces
    <2> QED
      BY <1>0, <2>1, ReturnReplaces
  <1>3. ASSUME BeginOpen(t) PROVE Moves
    <2>1. /\ Open(t, call[t].trace, call[t].op) /\ call[t].trace \in TraceIds
          /\ tls[t].buf = Cleared /\ UNCHANGED detached
      BY <1>3 DEF BeginOpen, CallInv, Midway
    <2> QED
      BY <1>0, <2>1, OpenMoves
  <1>4. ASSUME NEW s \in TraceState, EndWith(t, s), s.recording => s.active,
               \/ ~Keeps(s) /\ s.used = 0 /\ detached' = detached
               \/ s \in detached /\ detached' = detached \ {s}
        PROVE  Moves
    <2>1. CASE tls[t].recording
      BY <1>0, <1>4, <2>1, ReturnReplaces DEF EndWith
    <2>2. CASE ~tls[t].recording
      <3>1. Replaces(t, s)
        BY <1>4, <2>2 DEF EndWith, SetState, Replaces, Keeps
      <3> QED
        BY <3>1
    <2> QED
      BY <2>1, <2>2
  <1>5. ASSUME End(t) PROVE Moves
    <2> DEFINE s == Ended(AfterReturn(tls[t]))
    <2>1. s \in TraceState /\ ~Keeps(s) /\ s.used = 0 /\ ~s.recording
      BY <1>0, StateTypes, StateFields DEF Keeps
    <2>2. EndWith(t, s) /\ UNCHANGED detached
      BY <1>5 DEF End
    <2> HIDE DEF s
    <2> QED
      BY <1>4, <2>1, <2>2
  <1>6. ASSUME NEW s \in detached, Attach(t, s) PROVE Moves
    BY <1>4, <1>6 DEF Attach, CallInv, Types
  <1>7. ASSUME NEW n \in WriteSizes, TracepointFits(t, n) PROVE Moves
    <2> DEFINE s == Used(t, n + WordSize)
    <2>1. n + WordSize \in Nat /\ BufSize - tls[t].used >= n + WordSize
      BY <1>7, ClientAssumption, SMT DEF TracepointFits
    <2>2. s \in TraceState
      BY <1>0, <2>1, StateTypes DEF Used
    <2>3. ASSUME WordInv PROVE s.used \in Words
      <3>1. tls[t].used \in Words /\ n \in Words /\ s.used = tls[t].used + (n + WordSize)
        BY <1>0, <2>1, <2>3, UsedFields DEF WordInv, WholeWords
      <3> HIDE DEF s
      <3> QED
        BY <3>1, WordArithmetic
    <2>4. Works(t, s)
      BY <1>0, <1>7, <2>1, <2>3, UsedFields
      DEF Works, TracepointFits, SetState, CallInv, Types
    <2> QED
      BY <2>2, <2>4
  <1>8. ASSUME NEW n \in WriteSizes, Tracepoint(t, n) \/ TracepointWrite(t, n) PROVE Moves
    <2>1. PICK op \in {"head", "raw"} : WriteStep(t, WriteCall(op, n)) /\ tls[t].recording
      BY <1>8 DEF Tracepoint, TracepointWrite
    <2> DEFINE c == WriteCall(op, n)
    <2>2. Writing(c) /\ (WordInv => WordCall(c))
      BY BeginsWriting, CallFields, SMT DEF WordInv, WholeWords, WordCall, CounterFits
    <2> HIDE DEF c
    <2> QED
      BY <2>1, <2>2, WriteStepMoves DEF c
  <1>9. ASSUME WriteAgain(t) PROVE Moves
    <2>1. /\ WriteStep(t, call[t]) /\ tls[t].recording /\ Writing(call[t])
          /\ WordInv => WordCall(call[t])
      BY <1>9 DEF WriteAgain, CallInv, Types, Midway, Writing, WordInv
    <2> QED
      BY <2>1, WriteStepMoves
  <1>10. ASSUME WriteAcquire(t) PROVE Moves
    BY <1>0, <1>10 DEF WriteAcquire, Takes, CallInv, Midway
  <1> QED
    BY <1>1, <1>2, <1>3, <1>5, <1>6, <1>7, <1>8, <1>9, <1>10 DEF Calls, Steps

-----------------------------------------------------------------------------
(***************************************************************************)
(* Where a step leaves the thread in its call.                             *)
(***************************************************************************)

Locals(t) ==
  /\ pc' = [pc EXCEPT ![t] = pc'[t]] /\ pc'[t] \in Labels
  /\ call' = [call EXCEPT ![t] = call'[t]] /\ call'[t] \in Call
  /\ WordInv => WordCall(call'[t])
  /\ Midway(t)'

LEMMA FinishLocals ==
  ASSUME CallInv, NEW t \in Threads, Finish(t)
  PROVE  Locals(t)
  <1>1. NoCall \in Call /\ WordCall(NoCall)
    BY CallTypes, WordArithmetic DEF WordCall, CounterFits, NoCall
  <1> QED
    BY <1>1 DEF Finish, Goto, SetCall, Locals, Labels, Midway, CallInv, Types

LEMMA WriteStepLocals ==
  ASSUME CallInv, NEW t \in Threads, NEW c, Writing(c), tls[t].recording, WriteStep(t, c),
         pc[t] = "write" \/ c.op # "data", WordInv => WordCall(c)
  PROVE  Locals(t)
  <1>0. /\ call \in [Threads -> Call] /\ pc \in [Threads -> Labels] /\ c \in Call
        /\ tls \in [Threads -> TraceState] /\ tls[t] \in TraceState
    BY DEF CallInv, Types, Writing
  <1> DEFINE g == Granted(t, c)
  <1>1. g \in Nat /\ (c.op # "head" => g <= c.left) /\ c.left \in Nat /\ Used(t, g).recording
    BY <1>0, GrantedType DEF Writing, Call
  <1>2. CASE WriteFull(t, c)
    <2>1. /\ pc' = [pc EXCEPT ![t] = "acquire"] /\ call' = [call EXCEPT ![t] = c]
          /\ tls'[t] = AfterReturn(tls[t])
      BY <1>0, <1>2 DEF WriteFull, Return, Goto, SetCall
    <2>2. tls'[t].recording /\ tls'[t].buf = Cleared
      BY <1>0, <2>1, StateFields, SMT
    <2> QED
      BY <1>0, <2>1, <2>2 DEF Locals, Labels, Midway, Writing
  <1>3. CASE WriteHead(t, c)
    <2> DEFINE h == <<tls[t].buf, tls[t].used>>
               d == CounterAt(c, h)
    <2>1. /\ pc' = [pc EXCEPT ![t] = "write"] /\ call' = [call EXCEPT ![t] = d]
          /\ tls'[t] = Used(t, g) /\ g > 0
      BY <1>0, <1>3 DEF WriteHead, Goto, SetCall
    <2>2. h \in (Buffers \cup {Cleared, Null}) \X Nat
      BY <1>0, ClientAssumption, SMT DEF TraceState
    <2>3. d \in Call /\ d.op = "data" /\ d.left = c.left /\ d.head = h
      BY <1>0, <2>2, CallTypes, CallFields, SMTT(20)
    <2>4. WordInv => h[2] + WordSize <= BufSize
      BY <2>1, GrantedWords DEF WordCall
    <2> HIDE DEF d, g, h
    <2>5. WordInv => WordCall(d)
      BY <2>3, <2>4 DEF WordCall, CounterFits
    <2> QED
      BY <1>0, <1>1, <2>1, <2>3, <2>5 DEF Locals, Labels, Midway, Writing
  <1>4. CASE WriteData(t, c) /\ g # c.left
    <2> DEFINE d == [c EXCEPT !.left = @ - g]
    <2>1. /\ pc' = pc /\ pc[t] = "write" /\ call' = [call EXCEPT ![t] = d]
          /\ tls'[t] = Used(t, g) /\ c.op = "data"
      BY <1>0, <1>4 DEF WriteData, SetCall
    <2>2. WordInv => c.left - g \in Words
      BY <2>1, GrantedWords DEF WordCall
    <2> HIDE DEF g
    <2>3. c.left - g \in Nat /\ c.left - g > 0
      BY <1>1, <1>4, <2>1, SMT
    <2>4. d \in Call /\ d.left = c.left - g /\ d.op = c.op /\ d.head = c.head
      BY <1>0, <2>3 DEF Call
    <2> HIDE DEF d
    <2>5. WordInv => WordCall(d)
      BY <2>2, <2>4 DEF WordCall, CounterFits
    <2> QED
      BY <1>0, <1>1, <2>1, <2>3, <2>4, <2>5 DEF Locals, Labels, Midway
  <1> QED
    BY <1>2, <1>3, <1>4, FinishLocals DEF WriteStep, WriteData, WriteRaw

LEMMA ThreadLocals ==
  ASSUME CallInv, NEW t \in Threads, Calls(t) \/ Steps(t)
  PROVE  Locals(t)
  <1>0. /\ call \in [Threads -> Call] /\ pc \in [Threads -> Labels]
        /\ tls \in [Threads -> TraceState] /\ tls[t] \in TraceState
        /\ WordInv => WordCall(call[t])
    BY DEF CallInv, Types, WordInv
  <1>1. CASE UNCHANGED <<pc, call>> /\ pc[t] = "idle"
    BY <1>0, <1>1 DEF Locals, Midway
  <1>2. ASSUME NEW tr \in TraceIds, NEW op \in {"begin", "sampled"}, BeginReturn(t, tr, op)
        PROVE  Locals(t)
    <2> DEFINE c == BeginCall(op, tr)
    <2>1. c \in Call /\ c.op = op /\ c.trace = tr /\ WordCall(c)
      BY CallTypes, CallFields, WordArithmetic, SMT DEF WordCall, CounterFits
    <2>2. /\ pc' = [pc EXCEPT ![t] = "begin"] /\ call' = [call EXCEPT ![t] = c]
          /\ tls'[t] = AfterReturn(tls[t])
      BY <1>0, <1>2 DEF BeginReturn, Return, Goto, SetCall
    <2>3. tls'[t].buf = Cleared
      BY <1>0, <2>2, StateFields
    <2> HIDE DEF c
    <2> QED
      BY <1>0, <2>1, <2>2, <2>3 DEF Locals, Labels, Midway
  <1>3. ASSUME NEW n \in WriteSizes, Tracepoint(t, n) \/ TracepointWrite(t, n)
        PROVE  Locals(t)
    <2>1. PICK op \in {"head", "raw"} : WriteStep(t, WriteCall(op, n)) /\ tls[t].recording
      BY <1>3 DEF Tracepoint, TracepointWrite
    <2> DEFINE c == WriteCall(op, n)
    <2>2. Writing(c) /\ c.op # "data" /\ (WordInv => WordCall(c))
      BY BeginsWriting, CallFields, SMT DEF WordInv, WholeWords, CounterFits, WordCall
    <2> HIDE DEF c
    <2> QED
      BY <2>1, <2>2, WriteStepLocals DEF c
  <1>4. CASE WriteAgain(t)
    <2>1. WriteStep(t, call[t]) /\ Writing(call[t]) /\ tls[t].recording /\ pc[t] = "write"
      BY <1>4 DEF WriteAgain, CallInv, Types, Midway, Writing
    <2> QED
      BY <1>0, <2>1, WriteStepLocals
  <1>5. CASE WriteAcquire(t)
    <2>1. /\ pc[t] = "acquire" /\ pc' = [pc EXCEPT ![t] = "write"] /\ call' = call
          /\ tls[t].recording /\ Acquire(t, tls[t])
          /\ call[t].op \in {"head", "data", "raw"} /\ call[t].left > 0
      BY <1>5 DEF WriteAcquire, Goto, CallInv, Midway
    <2>2. PICK b : tls' = [tls EXCEPT ![t] = Filled(tls[t], b)]
      BY <2>1 DEF Acquire
    <2>3. tls'[t].recording
      BY <1>0, <2>1, <2>2, StateFields, SMT
    <2> QED
      BY <1>0, <2>1, <2>3 DEF Locals, Labels, Midway
  <1>6. CASE BeginOpen(t)
    BY <1>6, FinishLocals DEF BeginOpen
  <1> QED
    BY <1>1, <1>2, <1>3, <1>4, <1>5, <1>6
    DEF Calls, Steps, Begin, End, Detach, Attach, TracepointFits

LEMMA InitCallInv == Init => CallInv
  <1> SUFFICES ASSUME Init PROVE CallInv
    OBVIOUS
  <1>1. Created \in TraceState /\ NoCall \in Call
    BY CallTypes
  <1> QED
    BY <1>1 DEF Init, CallInv, Types, Labels, Midway, Created, NoTrace

LEMMA ThreadCallInv ==
  ASSUME CallInv, NEW t \in Threads, Calls(t) \/ Steps(t)
  PROVE  CallInv' /\ (WordInv => WordInv')
  <1>0. Locals(t) /\ tls \in [Threads -> TraceState] /\ tls[t] \in TraceState
    BY ThreadLocals DEF CallInv, Types
  <1>1. ASSUME NEW s \in TraceState, tls' = [tls EXCEPT ![t] = s], s.recording => s.active,
               WordInv => s.used \in Words,
               available' \subseteq Buffers, complete' \subseteq Entry, indexed' \subseteq Entry,
               header' \in [Buffers -> TraceIds \cup {NoTrace, Overrun}],
               \A r \in detached' : r \in detached \/ r = tls[t]
        PROVE  CallInv' /\ (WordInv => WordInv')
    <2>1. Types'
      BY <1>0, <1>1 DEF CallInv, Types, Locals
    <2>2. \A u \in Threads \ {t} : tls'[u] = tls[u] /\ pc'[u] = pc[u] /\ call'[u] = call[u]
      BY <1>0, <1>1 DEF Locals, CallInv, Types
    <2>3. CallInv'
      BY <1>0, <1>1, <2>1, <2>2, SMT DEF CallInv, Midway, Locals
    <2>4. WordInv => WordInv'
      BY <1>0, <1>1, <2>2 DEF WordInv, Locals
    <2> QED
      BY <2>3, <2>4
  <1>2. CASE Detach(t)
    <2>1. Created.used = 0 /\ ~Created.recording
      BY DEF Created
    <2> QED
      BY <1>1, <1>2, <2>1, CallTypes, WordArithmetic DEF Detach, SetState, CallInv, Types
  <1>3. ASSUME NEW s \in TraceState, Works(t, s) PROVE CallInv' /\ (WordInv => WordInv')
    BY <1>1, <1>3 DEF Works, CallInv, Types
  <1>4. ASSUME NEW s \in TraceState, Replaces(t, s) PROVE CallInv' /\ (WordInv => WordInv')
    <2>1. complete' \subseteq Entry
      BY <1>0, <1>4, SMT DEF Replaces, Keeps, Entry, TraceState, CallInv, Types
    <2>2. WordInv => s.used \in Words
      BY <1>4, WordArithmetic DEF Replaces, WordInv
    <2>3. /\ tls' = [tls EXCEPT ![t] = s] /\ (s.recording => s.active)
          /\ \A r \in detached' : r \in detached
          /\ available' \subseteq Buffers /\ indexed' \subseteq Entry
          /\ header' \in [Buffers -> TraceIds \cup {NoTrace, Overrun}]
      BY <1>4 DEF Replaces, CallInv, Types
    <2> QED
      BY <1>1, <2>1, <2>2, <2>3
  <1>5. ASSUME NEW s \in TraceState, Takes(t, s) PROVE CallInv' /\ (WordInv => WordInv')
    <2>1. PICK b \in available \cup {Null} :
            /\ available' = available \ {b} /\ tls' = [tls EXCEPT ![t] = Filled(s, b)]
            /\ header' = [x \in Buffers |-> IF x = b THEN s.trace ELSE header[x]]
            /\ UNCHANGED <<complete, indexed, detached>>
      BY <1>5 DEF Takes, Acquire
    <2>2. /\ Filled(s, b) \in TraceState /\ Filled(s, b).active
          /\ WordInv => Filled(s, b).used \in Words
      BY <1>5, StateTypes, StateFields DEF Takes, CallInv, Types, WordInv, WholeWords
    <2>3. /\ header' \in [Buffers -> TraceIds \cup {NoTrace, Overrun}] /\ available' \subseteq Buffers
          /\ complete' \subseteq Entry /\ indexed' \subseteq Entry
      BY <2>1 DEF CallInv, Types, TraceState
    <2> QED
      BY <1>1, <2>1, <2>2, <2>3
  <1> QED
    BY <1>2, <1>3, <1>4, <1>5, ThreadMoves

LEMMA NextCallInv == CallInv /\ [Next]_vars => CallInv' /\ (WordInv => WordInv')
  <1> SUFFICES ASSUME CallInv, [Next]_vars PROVE CallInv' /\ (WordInv => WordInv')
    OBVIOUS
  <1>1. ASSUME NEW e \in complete, AgentTakes(e) PROVE CallInv' /\ (WordInv => WordInv')
    BY <1>1 DEF AgentTakes, CallInv, Types, Midway, WordInv
  <1>2. ASSUME NEW e \in indexed, AgentFrees(e) PROVE CallInv' /\ (WordInv => WordInv')
    <2>1. e[2] \in Buffers
      BY DEF CallInv, Types, Entry
    <2> QED
      BY <1>2, <2>1 DEF AgentFrees, CallInv, Types, Midway, WordInv
  <1>3. CASE UNCHANGED vars
    BY <1>3 DEF vars, CallInv, Types, Midway, WordInv
  <1> QED
    BY <1>1, <1>2, <1>3, ThreadCallInv DEF Next

-----------------------------------------------------------------------------
(***************************************************************************)
(* Every buffer is in one place.                                           *)
(***************************************************************************)

InTls(b) == \E t \in Threads : Holds(tls[t], b)
InDetached(b) == \E s \in detached : Holds(s, b)
InComplete(b) == \E e \in complete : e[2] = b
InIndexed(b) == \E e \in indexed : e[2] = b

\* no two threads, detached states or entries have b
AtMostOnce(b) ==
  /\ \A t, u \in Threads : Holds(tls[t], b) /\ Holds(tls[u], b) => t = u
  /\ \A s, r \in detached : Holds(s, b) /\ Holds(r, b) => s = r
  /\ \A e, f \in complete : e[2] = b /\ f[2] = b => e = f
  /\ \A e, f \in indexed : e[2] = b /\ f[2] = b => e = f

\* it is in exactly one of the five kinds of places
OneKind(b) ==
  /\ InTls(b) \/ InDetached(b) \/ InComplete(b) \/ InIndexed(b) \/ b \in available
  /\ InTls(b) => ~InDetached(b) /\ ~InComplete(b) /\ ~InIndexed(b) /\ b \notin available
  /\ InDetached(b) => ~InComplete(b) /\ ~InIndexed(b) /\ b \notin available
  /\ InComplete(b) => ~InIndexed(b) /\ b \notin available
  /\ InIndexed(b) => b \notin available

OnePlace == \A b \in Buffers : AtMostOnce(b) /\ OneKind(b)

\* what a step has to leave alone for b to be where it was
Stays(b) ==
  /\ \A t \in Threads : Holds(tls'[t], b) <=> Holds(tls[t], b)
  /\ \A s : s \in detached' /\ Holds(s, b) <=> s \in detached /\ Holds(s, b)
  /\ \A e : e \in complete' /\ e[2] = b <=> e \in complete /\ e[2] = b
  /\ \A e : e \in indexed' /\ e[2] = b <=> e \in indexed /\ e[2] = b
  /\ b \in available' <=> b \in available

LEMMA StaysInOnePlace ==
  ASSUME NEW b, AtMostOnce(b), OneKind(b), Stays(b)
  PROVE  AtMostOnce(b)' /\ OneKind(b)'
  <1>1. AtMostOnce(b)'
    BY DEF AtMostOnce, Stays
  <1>2. /\ InTls(b)' <=> InTls(b)
        /\ InDetached(b)' <=> InDetached(b)
        /\ InComplete(b)' <=> InComplete(b)
        /\ InIndexed(b)' <=> InIndexed(b)
    BY DEF Stays, InTls, InDetached, InComplete, InIndexed
  <1> QED
    BY <1>1, <1>2 DEF OneKind, Stays

LEMMA InitOnePlace == Init => OnePlace
  BY SMT DEF Init, OnePlace, AtMostOnce, OneKind, InTls, InDetached, InComplete, InIndexed,
         Holds, Created

LEMMA WorksInOnePlace ==
  ASSUME CallInv, OnePlace, NEW t \in Threads, NEW s, Works(t, s)
  PROVE  OnePlace'
  <1> SUFFICES ASSUME NEW b \in Buffers PROVE AtMostOnce(b)' /\ OneKind(b)'
    BY DEF OnePlace
  <1>1. Stays(b)
    BY DEF Works, Stays, Holds, CallInv, Types
  <1> QED
    BY <1>1, StaysInOnePlace DEF OnePlace

LEMMA TakesInOnePlace ==
  ASSUME CallInv, OnePlace, NEW t \in Threads, NEW s \in TraceState, Takes(t, s)
  PROVE  OnePlace'
  <1> SUFFICES ASSUME NEW b \in Buffers PROVE AtMostOnce(b)' /\ OneKind(b)'
    BY DEF OnePlace
  <1>0. tls \in [Threads -> TraceState] /\ AtMostOnce(b) /\ OneKind(b) /\ ~Holds(tls[t], b)
    BY DEF CallInv, Types, OnePlace, Takes, Keeps, Holds
  <1>1. PICK x \in available \cup {Null} :
          /\ available' = available \ {x} /\ tls' = [tls EXCEPT ![t] = Filled(s, x)]
          /\ UNCHANGED <<complete, indexed, detached>>
    BY DEF Takes, Acquire
  <1>2. Holds(Filled(s, x), b) <=> x = b
    <2>1. Filled(s, x).active = s.active /\ Filled(s, x).recording = s.recording /\ Filled(s, x).buf = x
      BY StateFields
    <2> QED
      BY <2>1 DEF Holds, Takes
  <1>3. tls'[t] = Filled(s, x) /\ \A u \in Threads \ {t} : tls'[u] = tls[u]
    BY <1>0, <1>1
  <1>4. CASE x = b
    <2>1. b \in available /\ b \notin available'
      BY <1>1, <1>4, SMT DEF Null, Buffers
    <2>2. \A u \in Threads : Holds(tls'[u], b) <=> u = t
      BY <1>2, <1>3, <1>4, <2>1, <1>0 DEF OneKind, InTls
    <2> QED
      BY <1>0, <1>1, <2>1, <2>2 DEF AtMostOnce, OneKind, InTls, InDetached, InComplete, InIndexed
  <1>5. CASE x # b
    <2>1. Stays(b)
      BY <1>0, <1>1, <1>2, <1>3, <1>5 DEF Stays
    <2> QED
      BY <1>0, <2>1, StaysInOnePlace
  <1> QED
    BY <1>4, <1>5

LEMMA ReplacesInOnePlace ==
  ASSUME CallInv, OnePlace, NEW t \in Threads, NEW s \in TraceState, Replaces(t, s)
  PROVE  OnePlace'
  <1> SUFFICES ASSUME NEW b \in Buffers PROVE AtMostOnce(b)' /\ OneKind(b)'
    BY DEF OnePlace
  <1>0. /\ AtMostOnce(b) /\ OneKind(b)
        /\ tls'[t] = s /\ \A u \in Threads \ {t} : tls'[u] = tls[u]
        /\ UNCHANGED <<available, indexed>>
        /\ Holds(tls[t], b) <=> Keeps(tls[t]) /\ tls[t].buf = b
    BY DEF CallInv, Types, OnePlace, Replaces, Keeps, Holds
  <1>1. CASE Holds(tls[t], b)
    <2>1. \A u \in Threads : ~Holds(tls'[u], b)
      <3>1. ~Holds(s, b)
        BY <1>0, <1>1 DEF Replaces, OneKind, InTls, InDetached, Keeps, Holds
      <3> QED
        BY <1>0, <1>1, <3>1 DEF AtMostOnce
    <2>2. \A r \in detached' : ~Holds(r, b)
      BY <1>0, <1>1 DEF Replaces, OneKind, InTls, InDetached
    <2>3. complete' = complete \cup {<<tls[t].trace, b>>} /\ \A e \in complete : e[2] # b
      BY <1>0, <1>1 DEF Replaces, OneKind, InTls, InComplete
    <2>4. InComplete(b)' /\ \A e \in complete' : e[2] = b => e = <<tls[t].trace, b>>
      <3>1. <<tls[t].trace, b>> \in complete' /\ <<tls[t].trace, b>>[2] = b
        BY <2>3
      <3> QED
        BY <2>3, <3>1 DEF InComplete
    <2> QED
      BY <1>0, <1>1, <2>1, <2>2, <2>4 DEF AtMostOnce, OneKind, InTls, InDetached, InIndexed
  <1>2. CASE ~Holds(tls[t], b) /\ ~Holds(s, b)
    <2>1. \A e : e \in complete' /\ e[2] = b <=> e \in complete /\ e[2] = b
      BY <1>0, <1>2, SMT DEF Replaces
    <2>2. \A r : r \in detached' /\ Holds(r, b) <=> r \in detached /\ Holds(r, b)
      BY <1>2 DEF Replaces
    <2>3. Stays(b)
      BY <1>0, <1>2, <2>1, <2>2 DEF Stays
    <2> QED
      BY <1>0, <2>3, StaysInOnePlace
  <1>3. CASE ~Holds(tls[t], b) /\ Holds(s, b)
    <2>1. s \in detached /\ detached' = detached \ {s}
      BY <1>3 DEF Replaces, Keeps, Holds
    <2>2. \A e : e \in complete' /\ e[2] = b <=> e \in complete /\ e[2] = b
      BY <1>0, <1>3, SMT DEF Replaces
    <2>3. \A u \in Threads : Holds(tls'[u], b) <=> u = t
      BY <1>0, <1>3, <2>1, SMT DEF OneKind, InTls, InDetached
    <2>4. \A r \in detached' : ~Holds(r, b)
      BY <1>0, <1>3, <2>1 DEF AtMostOnce
    <2> QED
      BY <1>0, <1>3, <2>1, <2>2, <2>3, <2>4
      DEF AtMostOnce, OneKind, InTls, InDetached, InComplete, InIndexed
  <1> QED
    BY <1>1, <1>2, <1>3

LEMMA DetachInOnePlace ==
  ASSUME CallInv, OnePlace, NEW t \in Threads, Detach(t)
  PROVE  OnePlace'
  <1> SUFFICES ASSUME NEW b \in Buffers PROVE AtMostOnce(b)' /\ OneKind(b)'
    BY DEF OnePlace
  <1>0. /\ AtMostOnce(b) /\ OneKind(b)
        /\ ~Holds(tls'[t], b) /\ \A u \in Threads \ {t} : tls'[u] = tls[u]
        /\ detached' = detached \cup {tls[t]} /\ UNCHANGED <<available, complete, indexed>>
    BY DEF CallInv, Types, OnePlace, Detach, SetState, Holds, Created
  <1>1. CASE Holds(tls[t], b)
    <2>1. \A u \in Threads : ~Holds(tls'[u], b)
      BY <1>0, <1>1 DEF AtMostOnce
    <2>2. \A r \in detached' : Holds(r, b) <=> r = tls[t]
      BY <1>0, <1>1 DEF OneKind, InTls, InDetached
    <2> QED
      BY <1>0, <1>1, <2>1, <2>2 DEF AtMostOnce, OneKind, InTls, InDetached, InComplete, InIndexed
  <1>2. CASE ~Holds(tls[t], b)
    <2>1. Stays(b)
      BY <1>0, <1>2 DEF Stays
    <2> QED
      BY <1>0, <2>1, StaysInOnePlace
  <1> QED
    BY <1>1, <1>2

LEMMA AgentInOnePlace ==
  ASSUME CallInv, OnePlace, NEW e,
         \/ e \in complete /\ AgentTakes(e)
         \/ e \in indexed /\ AgentFrees(e)
  PROVE  OnePlace'
  <1> SUFFICES ASSUME NEW b \in Buffers PROVE AtMostOnce(b)' /\ OneKind(b)'
    BY DEF OnePlace
  <1>0. AtMostOnce(b) /\ OneKind(b)
    BY DEF OnePlace
  <1>1. CASE e[2] # b
    <2>1. Stays(b)
      BY <1>1, SMT DEF Stays, AgentTakes, AgentFrees
    <2> QED
      BY <1>0, <2>1, StaysInOnePlace
  <1>2. CASE e \in complete /\ AgentTakes(e) /\ e[2] = b
    BY <1>0, <1>2 DEF AgentTakes, AtMostOnce, OneKind, InTls, InDetached, InComplete, InIndexed
  <1>3. CASE e \in indexed /\ AgentFrees(e) /\ e[2] = b
    BY <1>0, <1>3 DEF AgentFrees, AtMostOnce, OneKind, InTls, InDetached, InComplete, InIndexed
  <1> QED
    BY <1>1, <1>2, <1>3

LEMMA NextOnePlace == CallInv /\ OnePlace /\ [Next]_vars => OnePlace'
  <1> SUFFICES ASSUME CallInv, OnePlace, [Next]_vars PROVE OnePlace'
    OBVIOUS
  <1>1. ASSUME NEW t \in Threads, Calls(t) \/ Steps(t) PROVE OnePlace'
    BY <1>1, ThreadMoves, DetachInOnePlace, WorksInOnePlace, ReplacesInOnePlace, TakesInOnePlace
  <1>2. CASE UNCHANGED vars
    BY <1>2 DEF vars, OnePlace, AtMostOnce, OneKind, InTls, InDetached, InComplete, InIndexed
  <1> QED
    BY <1>1, <1>2, AgentInOnePlace DEF Next

-----------------------------------------------------------------------------
(***************************************************************************)
(* The headers.                                                            *)
(***************************************************************************)

\* the header of a buffer is that of the trace it is in use for, or overrun
Named(s) == \A b \in Buffers : Holds(s, b) => header[b] \in {s.trace, Overrun}

NameInv ==
  /\ \A t \in Threads : Named(tls[t])
  /\ \A s \in detached : Named(s)
  /\ EntryNamesItsHeader

LEMMA InitNameInv == Init => NameInv
  BY SMT DEF Init, NameInv, Named, Holds, Created, EntryNamesItsHeader

(* A step that leaves the headers alone and makes no states of its own. *)
LEMMA QuietNames ==
  ASSUME NameInv, header' = header,
         \A t \in Threads : Named(tls'[t]),
         \A s \in detached' : Named(s),
         \A e \in complete' \cup indexed' : header[e[2]] \in {e[1], Overrun}
  PROVE  NameInv'
  BY DEF NameInv, Named, EntryNamesItsHeader

LEMMA ThreadNames ==
  ASSUME CallInv, OnePlace, NameInv, NEW t \in Threads, Calls(t) \/ Steps(t)
  PROVE  NameInv'
  <1>0. /\ tls \in [Threads -> TraceState] /\ detached \subseteq TraceState
        /\ tls[t] \in TraceState /\ (tls[t].recording => tls[t].active)
    BY DEF CallInv, Types
  <1>1. ASSUME NEW s \in TraceState, Works(t, s) PROVE NameInv'
    <2>1. /\ tls' = [tls EXCEPT ![t] = s] /\ UNCHANGED <<complete, indexed, detached>>
          /\ \A b \in Buffers : header'[b] \in {header[b], Overrun}
      BY <1>1 DEF Works
    <2>2. Named(s)
      BY <1>1 DEF Works, NameInv, Named, Holds
    <2>3. \A u \in Threads : Named(tls'[u])
      BY <1>0, <2>1, <2>2 DEF NameInv
    <2>4. \A e \in complete \cup indexed : e[2] \in Buffers
      BY DEF CallInv, Types, Entry
    <2> QED
      BY <2>1, <2>3, <2>4 DEF NameInv, Named, EntryNamesItsHeader
  <1>2. ASSUME NEW s \in TraceState, Replaces(t, s) PROVE NameInv'
    <2>1. /\ header' = header /\ tls' = [tls EXCEPT ![t] = s] /\ indexed' = indexed
          /\ \A r \in detached' : r \in detached
      BY <1>2 DEF Replaces
    <2>2. Named(s)
      BY <1>2 DEF Replaces, Keeps, NameInv, Named, Holds
    <2>3. \A e \in complete' : header[e[2]] \in {e[1], Overrun}
      <3>1. Keeps(tls[t]) => header[tls[t].buf] \in {tls[t].trace, Overrun}
        BY <1>0 DEF Keeps, NameInv, Named, Holds
      <3>2. \A e \in complete' : \/ e \in complete
                                 \/ Keeps(tls[t]) /\ e[1] = tls[t].trace /\ e[2] = tls[t].buf
        BY <1>2, SMT DEF Replaces
      <3> QED
        BY <3>1, <3>2 DEF NameInv, EntryNamesItsHeader
    <2> QED
      BY <1>0, <2>1, <2>2, <2>3, QuietNames DEF NameInv, EntryNamesItsHeader
  <1>3. CASE Detach(t)
    <2>1. /\ header' = header /\ tls' = [tls EXCEPT ![t] = Created]
          /\ detached' = detached \cup {tls[t]} /\ UNCHANGED <<complete, indexed>>
      BY <1>3 DEF Detach, SetState
    <2>2. Named(Created)
      BY DEF Named, Holds, Created
    <2> QED
      BY <1>0, <2>1, <2>2, QuietNames DEF NameInv, EntryNamesItsHeader
  <1>4. ASSUME NEW s \in TraceState, Takes(t, s) PROVE NameInv'
    <2>1. PICK b \in available \cup {Null} :
            /\ tls' = [tls EXCEPT ![t] = Filled(s, b)]
            /\ header' = [x \in Buffers |-> IF x = b THEN s.trace ELSE header[x]]
            /\ UNCHANGED <<complete, indexed, detached>>
      BY <1>4 DEF Takes, Acquire
    <2> DEFINE r == Filled(s, b)
    <2>2. r.trace = s.trace /\ r.buf = b
      BY StateFields
    <2> HIDE DEF r
    <2>3. tls'[t] = r /\ \A u \in Threads \ {t} : tls'[u] = tls[u]
      BY <1>0, <2>1 DEF r
    <2>4. \A x \in Buffers : x # b => header'[x] = header[x]
      BY <2>1
    <2>5. b \in Buffers => header'[b] = s.trace
      BY <2>1
    <2>6. b \in Buffers => OneKind(b) /\ b \in available
      BY SMT DEF OnePlace, Null, Buffers
    <2>7. ASSUME NEW u \in Threads, NEW x \in Buffers, Holds(tls'[u], x)
          PROVE  header'[x] \in {tls'[u].trace, Overrun}
      <3>1. CASE u = t
        BY <2>2, <2>3, <2>5, <2>7, <3>1 DEF Holds
      <3>2. CASE u # t
        <4>1. x # b
          BY <2>3, <2>6, <2>7, <3>2 DEF OneKind, InTls
        <4> QED
          BY <2>3, <2>4, <2>7, <3>2, <4>1, SMT DEF NameInv, Named
      <3> QED
        BY <3>1, <3>2
    <2>8. ASSUME NEW d \in detached, NEW x \in Buffers, Holds(d, x)
          PROVE  header'[x] \in {d.trace, Overrun}
      <3>1. x # b
        BY <2>6, <2>8 DEF OneKind, InDetached
      <3> QED
        BY <2>4, <2>8, <3>1 DEF NameInv, Named
    <2>9. ASSUME NEW e \in complete \cup indexed PROVE header'[e[2]] \in {e[1], Overrun}
      <3>1. e[2] \in Buffers /\ e[2] # b
        BY <2>6 DEF OneKind, InComplete, InIndexed, CallInv, Types, Entry
      <3> QED
        BY <2>4, <3>1 DEF NameInv, EntryNamesItsHeader
    <2> QED
      BY <2>1, <2>7, <2>8, <2>9 DEF NameInv, Named, EntryNamesItsHeader
  <1> QED
    BY <1>1, <1>2, <1>3, <1>4, ThreadMoves

LEMMA AgentNames ==
  ASSUME CallInv, OnePlace, NameInv, NEW e,
         \/ e \in complete /\ AgentTakes(e)
         \/ e \in indexed /\ AgentFrees(e)
  PROVE  NameInv'
  <1>1. CASE e \in complete /\ AgentTakes(e)
    BY <1>1, QuietNames DEF AgentTakes, NameInv, EntryNamesItsHeader
  <1>2. CASE e \in indexed /\ AgentFrees(e)
    <2> DEFINE b == e[2]
    <2>1. /\ indexed' = indexed \ {e} /\ UNCHANGED <<complete, tls, detached>>
          /\ header' = [header EXCEPT ![b] = NoTrace]
      BY <1>2 DEF AgentFrees
    <2>2. b \in Buffers /\ InIndexed(b) /\ OneKind(b) /\ AtMostOnce(b)
      BY <1>2 DEF CallInv, Types, Entry, OnePlace, InIndexed
    <2> HIDE DEF b
    <2>3. \A x \in Buffers : x # b => header'[x] = header[x]
      BY <2>1 DEF CallInv, Types
    <2>4. \A f \in complete \cup indexed' : f[2] \in Buffers /\ f[2] # b
      BY <1>2, <2>1, <2>2 DEF OneKind, AtMostOnce, InComplete, CallInv, Types, Entry, b
    <2>5. \A t \in Threads, x \in Buffers : Holds(tls[t], x) => x # b
      BY <2>2 DEF OneKind, InTls
    <2>6. \A s \in detached, x \in Buffers : Holds(s, x) => x # b
      BY <2>2 DEF OneKind, InDetached
    <2>7. EntryNamesItsHeader'
      BY <2>1, <2>3, <2>4 DEF NameInv, EntryNamesItsHeader
    <2> QED
      BY <2>1, <2>3, <2>5, <2>6, <2>7 DEF NameInv, Named
  <1> QED
    BY <1>1, <1>2

LEMMA NextNameInv == CallInv /\ OnePlace /\ NameInv /\ [Next]_vars => NameInv'
  <1> SUFFICES ASSUME CallInv, OnePlace, NameInv, [Next]_vars PROVE NameInv'
    OBVIOUS
  <1>1. CASE UNCHANGED vars
    BY <1>1 DEF vars, NameInv, Named, EntryNamesItsHeader
  <1> QED
    BY <1>1, ThreadNames, AgentNames DEF Next

(* The header in a completed buffer is the one tracestate_write_header     *)
(* wrote for the trace its entry names, or a counter of tracestate_write   *)
(* has run over it, until the agent frees the buffer; for any threads,     *)
(* buffers and sizes.                                                      *)
THEOREM EntryNamesItsHeaderHolds == Spec => []EntryNamesItsHeader
  <1>1. NameInv => EntryNamesItsHeader
    BY DEF NameInv
  <1> QED
    BY <1>1, InitCallInv, NextCallInv, InitOnePlace, NextOnePlace,
       InitNameInv, NextNameInv, PTL DEF Spec

Intact == \A b \in Buffers : header[b] # Overrun

LEMMA NextIntact == CallInv /\ WordInv /\ Intact /\ [Next]_vars => Intact'
  <1> SUFFICES ASSUME CallInv, WordInv, Intact, [Next]_vars PROVE Intact'
    OBVIOUS
  <1>0. Overrun # NoTrace /\ Overrun \notin TraceIds
    BY ClientAssumption, SMT DEF Overrun, NoTrace
  <1>1. CASE UNCHANGED vars
    BY <1>1 DEF vars, Intact
  <1>2. ASSUME NEW e \in complete, AgentTakes(e) PROVE Intact'
    BY <1>2 DEF AgentTakes, Intact
  <1>3. ASSUME NEW e \in indexed, AgentFrees(e) PROVE Intact'
    BY <1>0, <1>3 DEF AgentFrees, Intact, CallInv, Types
  <1>4. ASSUME NEW t \in Threads, Detach(t) PROVE Intact'
    BY <1>4 DEF Detach, SetState, Intact
  <1>5. ASSUME NEW t \in Threads, NEW s \in TraceState, Works(t, s) \/ Replaces(t, s)
        PROVE  Intact'
    BY <1>5 DEF Works, Replaces, Intact
  <1>6. ASSUME NEW t \in Threads, NEW s \in TraceState, Takes(t, s) PROVE Intact'
    <2>1. s.trace # Overrun
      BY <1>0 DEF TraceState
    <2> QED
      BY <1>6, <2>1 DEF Takes, Acquire, Intact
  <1> QED
    BY <1>1, <1>2, <1>3, <1>4, <1>5, <1>6, ThreadMoves DEF Next

(* When the header, the buffers and the payloads are whole numbers of      *)
(* words, no counter of tracestate_write runs over a header: the header in *)
(* a completed buffer is that of the trace its entry names.                *)
THEOREM WholeWordsKeepHeaders ==
  ASSUME WholeWords
  PROVE  Spec => [](\A e \in complete \cup indexed : header[e[2]] = e[1])
  <1>1. Init => WordInv
    BY WordArithmetic, SMT DEF Init, WordInv, WordCall, CounterFits, Created, NoCall
  <1>2. Init => Intact
    BY SMT DEF Init, Intact, Overrun, NoTrace
  <1>3. CallInv /\ NameInv /\ Intact => \A e \in complete \cup indexed : header[e[2]] = e[1]
    BY DEF CallInv, Types, Entry, NameInv, EntryNamesItsHeader, Intact
  <1> QED
    BY <1>1, <1>2, <1>3, InitCallInv, NextCallInv, NextIntact, InitOnePlace, NextOnePlace,
       InitNameInv, NextNameInv, PTL DEF Spec

-----------------------------------------------------------------------------
(***************************************************************************)
(* Every call gets done.                                                   *)
(***************************************************************************)

LEMMA WriteStepGetsCloser ==
  ASSUME CallInv, CallInv', NEW t \in Threads, pc[t] = "write", WriteStep(t, call[t])
  PROVE  StepsLeft(t)' < StepsLeft(t)
  <1> DEFINE c == call[t]
             g == Granted(t, c)
             h == IF c.op = "head" THEN 1 ELSE 0
  <1>0. /\ Writing(c) /\ call \in [Threads -> Call]
        /\ pc \in [Threads -> Labels]
    BY DEF CallInv, Types, Midway, Writing
  <1>1. c.left \in Nat /\ c.left > 0 /\ g \in Nat /\ (c.op # "head" => g <= c.left)
    BY <1>0, GrantedType DEF Writing, Call
  <1>2. StepsLeft(t) = 3 * (c.left + h) + (IF g = 0 THEN 2 ELSE 0)
    <2> HIDE DEF g
    <2>1. StepsLeft(t) = 3 * (c.left + h) + (IF Granted(t, c) = 0 THEN 2 ELSE 0)
      BY DEF StepsLeft
    <2> QED
      BY <2>1 DEF g
  <1>3. CASE WriteFull(t, c)
    <2>1. pc'[t] = "acquire" /\ call'[t] = c /\ g = 0
      BY <1>0, <1>3 DEF WriteFull, Goto, SetCall
    <2>2. StepsLeft(t)' = 3 * (c.left + h) + 1
      BY <2>1 DEF StepsLeft
    <2> HIDE DEF c, g
    <2> QED
      BY <1>1, <1>2, <2>1, <2>2, SMT
  <1>4. CASE pc'[t] = "idle" /\ call'[t] = NoCall
    <2>1. StepsLeft(t)' = 0
      BY <1>4, SMT DEF StepsLeft, NoCall
    <2> HIDE DEF c, g
    <2> QED
      BY <1>1, <1>2, <2>1, SMT
  <1>5. CASE WriteHead(t, c)
    <2> DEFINE d == CounterAt(c, <<tls[t].buf, tls[t].used>>)
    <2>1. pc'[t] = "write" /\ call'[t] = d /\ g > 0 /\ c.op = "head"
      BY <1>0, <1>5 DEF WriteHead, Goto, SetCall
    <2>2. d.left = c.left /\ d.op = "data"
      <3>1. c \in Call
        BY <1>0 DEF Writing
      <3> QED
        BY <3>1, CallFields, SMT
    <2> HIDE DEF d
    <2>3. \E x \in {0, 2} : StepsLeft(t)' = 3 * (c.left + 0) + x
      BY <2>1, <2>2 DEF StepsLeft
    <2> HIDE DEF c, g
    <2> QED
      BY <1>1, <1>2, <2>1, <2>3, SMT
  <1>6. CASE WriteData(t, c) /\ g # c.left
    <2> DEFINE d == [c EXCEPT !.left = @ - g]
    <2>1. pc'[t] = "write" /\ call'[t] = d /\ g > 0 /\ c.op = "data"
      BY <1>0, <1>6 DEF WriteData, SetCall
    <2>2. d.left = c.left - g /\ d.op = "data"
      BY <1>0, <2>1 DEF Writing, Call
    <2> HIDE DEF d
    <2>3. \E x \in {0, 2} : StepsLeft(t)' = 3 * (c.left - g + 0) + x
      BY <2>1, <2>2 DEF StepsLeft
    <2> HIDE DEF c, g
    <2> QED
      BY <1>1, <1>2, <2>1, <2>3, SMT
  <1> QED
    BY <1>0, <1>3, <1>4, <1>5, <1>6 DEF WriteStep, WriteData, WriteRaw, Finish, Goto, SetCall

LEMMA StepGetsCloser ==
  ASSUME CallInv, CallInv', NEW t \in Threads, Steps(t)
  PROVE  StepsLeft(t)' < StepsLeft(t)
  <1>0. /\ call[t] \in Call /\ tls[t] \in TraceState /\ tls \in [Threads -> TraceState]
        /\ pc \in [Threads -> Labels] /\ call \in [Threads -> Call]
    BY DEF CallInv, Types
  <1>1. CASE BeginOpen(t)
    <2>1. pc[t] = "begin" /\ pc'[t] = "idle" /\ call'[t] = NoCall
      BY <1>0, <1>1 DEF BeginOpen, Finish, Goto, SetCall
    <2>2. StepsLeft(t)' = 0
      BY <2>1, SMT DEF StepsLeft, NoCall
    <2>3. StepsLeft(t) = 3 * (call[t].left + (IF call[t].op = "head" THEN 1 ELSE 0)) + 1
      BY <2>1 DEF StepsLeft
    <2>4. call[t].left \in Nat
      BY <1>0 DEF Call
    <2> QED
      BY <2>2, <2>3, <2>4, SMT
  <1>2. CASE WriteAgain(t)
    BY <1>2, WriteStepGetsCloser DEF WriteAgain
  <1>3. CASE WriteAcquire(t)
    <2>1. pc[t] = "acquire" /\ pc'[t] = "write" /\ call' = call /\ Acquire(t, tls[t])
      BY <1>0, <1>3 DEF WriteAcquire, Goto
    <2>2. PICK b : tls' = [tls EXCEPT ![t] = Filled(tls[t], b)]
      BY <2>1 DEF Acquire
    <2>3. tls'[t].used = HeaderSize
      <3>1. Filled(tls[t], b).used = HeaderSize
        BY <1>0, StateFields, SMT
      <3> QED
        BY <1>0, <2>2, <3>1
    <2>4. Writing(call[t]) /\ call[t].left \in Nat
      BY <1>0, <2>1 DEF CallInv, Midway, Writing, Call
    <2>5. Granted(t, call[t])' # 0
      <3> DEFINE n == IF call[t].op = "head" THEN WordSize ELSE call[t].left
      <3>1. n \in Nat \ {0} /\ tls'[t] \in TraceState
        BY <2>4, ClientAssumption, SMT DEF Writing, CallInv, Types
      <3>2. Granted(t, call[t])' = Grant(tls'[t], n)
        BY <2>1 DEF Granted
      <3> HIDE DEF n
      <3>3. Grant(tls'[t], n) = 0 <=> tls'[t].used = BufSize
        BY <3>1, StateTypes
      <3>4. HeaderSize # BufSize
        BY ClientAssumption, SMT
      <3> QED
        BY <2>3, <3>2, <3>3, <3>4
    <2>6. StepsLeft(t)' = 3 * (call[t].left + (IF call[t].op = "head" THEN 1 ELSE 0)) + 0
      BY <2>1, <2>5 DEF StepsLeft
    <2>7. StepsLeft(t) = 3 * (call[t].left + (IF call[t].op = "head" THEN 1 ELSE 0)) + 1
      BY <2>1 DEF StepsLeft
    <2> QED
      BY <2>4, <2>6, <2>7, SMT
  <1> QED
    BY <1>1, <1>2, <1>3 DEF Steps

(* Every step of a call brings the call closer to its end, whatever the    *)
(* other threads and the agent do: the loops of tracestate_write and       *)
(* tracestate_begin_with_sampling return after a bounded number of steps.  *)
THEOREM CallsGetDoneHolds == Spec => CallsGetDone
  <1>1. CallInv /\ CallInv' /\ [Next]_vars
          => [\A t \in Threads : pc[t] # "idle" /\ Steps(t) => StepsLeft(t)' < StepsLeft(t)]_vars
    BY StepGetsCloser
  <1> QED
    BY <1>1, InitCallInv, NextCallInv, PTL DEF Spec, CallsGetDone

-----------------------------------------------------------------------------
(***************************************************************************)
(* One place, counted.  The facts on cardinalities come last: only the     *)
(* steps below need them.                                                  *)
(***************************************************************************)

INSTANCE FiniteSetTheorems

(* No call of a thread and no step of the agent takes a buffer out of its  *)
(* one place: the two invariants that the steps of Client keep.            *)
THEOREM OnePlaceHolds == Spec => [](CallInv /\ OnePlace)
  BY InitCallInv, NextCallInv, InitOnePlace, NextOnePlace, PTL DEF Spec

LEMMA OnePlaceGivesOne == CallInv /\ OnePlace => EveryBufferInOnePlace
  <1> SUFFICES ASSUME CallInv, OnePlace, NEW b \in Buffers PROVE Cardinality(Places(b)) = 1
    BY DEF EveryBufferInOnePlace
  <1> DEFINE T == {<<"tls", t>> : t \in {u \in Threads : Holds(tls[u], b)}}
             D == {<<"detached", s.trace>> : s \in {x \in detached : Holds(x, b)}}
             C == {<<"complete", e[1]>> : e \in {x \in complete : x[2] = b}}
             I == {<<"indexed", e[1]>> : e \in {x \in indexed : x[2] = b}}
             A == {<<"available", x>> : x \in available \cap {b}}
  <1>0. Places(b) = T \cup D \cup C \cup I \cup A /\ AtMostOnce(b) /\ OneKind(b)
    BY DEF Places, OnePlace
  <1>1. /\ ~InTls(b) => T = {}
        /\ ~InDetached(b) => D = {}
        /\ ~InComplete(b) => C = {}
        /\ ~InIndexed(b) => I = {}
        /\ b \notin available => A = {}
    BY DEF InTls, InDetached, InComplete, InIndexed
  <1>2. ASSUME InTls(b) PROVE \E p : T = {p}
    <2>0. PICK t \in Threads : Holds(tls[t], b)
      BY <1>2 DEF InTls
    <2>1. {u \in Threads : Holds(tls[u], b)} = {t}
      BY <1>0, <2>0 DEF AtMostOnce
    <2>2. T = {<<"tls", t>>}
      BY <2>1
    <2> QED
      BY <2>2
  <1>3. ASSUME InDetached(b) PROVE \E p : D = {p}
    <2>0. PICK s \in detached : Holds(s, b)
      BY <1>3 DEF InDetached
    <2>1. {x \in detached : Holds(x, b)} = {s}
      BY <1>0, <2>0 DEF AtMostOnce
    <2>2. D = {<<"detached", s.trace>>}
      BY <2>1
    <2> QED
      BY <2>2
  <1>4. ASSUME InComplete(b) PROVE \E p : C = {p}
    <2>0. PICK e \in complete : e[2] = b
      BY <1>4 DEF InComplete
    <2>1. {x \in complete : x[2] = b} = {e}
      BY <1>0, <2>0 DEF AtMostOnce
    <2>2. C = {<<"complete", e[1]>>}
      BY <2>1
    <2> QED
      BY <2>2
  <1>5. ASSUME InIndexed(b) PROVE \E p : I = {p}
    <2>0. PICK e \in indexed : e[2] = b
      BY <1>5 DEF InIndexed
    <2>1. {x \in indexed : x[2] = b} = {e}
      BY <1>0, <2>0 DEF AtMostOnce
    <2>2. I = {<<"indexed", e[1]>>}
      BY <2>1
    <2> QED
      BY <2>2
  <1>6. b \in available => \E p : A = {p}
    OBVIOUS
  <1> HIDE DEF T, D, C, I, A
  <1>7. \E p : Places(b) = {p}
    BY <1>0, <1>1, <1>2, <1>3, <1>4, <1>5, <1>6 DEF OneKind
  <1> QED
    BY <1>7, FS_Singleton

(* A buffer of the pool is in exactly one place, whatever the threads, the *)
(* thresholds and the sizes are (bufmanager_acquire, bufmanager_return and *)
(* every overwrite of a TraceState).                                       *)
THEOREM EveryBufferInOnePlaceHolds == Spec => []EveryBufferInOnePlace
  BY OnePlaceHolds, OnePlaceGivesOne, PTL

LEMMA OnePlaceLeavesRoom == CallInv /\ OnePlace => ReturnNeverWaits
  <1> SUFFICES ASSUME CallInv, OnePlace, NEW t \in Threads,
                      tls[t].recording, tls[t].buf \in Buffers
               PROVE  Cardinality(complete) < NumBuffers
    BY DEF ReturnNeverWaits
  <1> DEFINE b == tls[t].buf
             Others == Buffers \ {b}
             f == [e \in complete |-> e[2]]
  <1>1. \A e \in complete : e[2] \in Others
    BY SMT DEF CallInv, Types, Entry, OnePlace, OneKind, InTls, InComplete, Holds
  <1>2. \A e, g \in complete : e[2] = g[2] => e = g
    BY <1>1 DEF OnePlace, AtMostOnce
  <1>3. f \in Injection(complete, Others)
    BY <1>1, <1>2 DEF Injection, IsInjective
  <1>4. IsFiniteSet(Buffers) /\ Cardinality(Buffers) = NumBuffers
    BY FS_Interval, ClientAssumption, SMTT(20) DEF Buffers
  <1>5. IsFiniteSet(Others) /\ Cardinality(Others) = NumBuffers - 1
    BY <1>4, FS_RemoveElement
  <1> HIDE DEF f, Others
  <1>6. IsFiniteSet(complete) /\ Cardinality(complete) <= Cardinality(Others)
    BY <1>3, <1>5, FS_Injection
  <1>7. Cardinality(complete) \in Nat
    BY <1>6, FS_CardinalityType
  <1> QED
    BY <1>5, <1>6, <1>7, ClientAssumption, SMTT(20)

(* The blocking put of bufmanager_return, in the application's threads,    *)
(* finds room: the buffer being returned is not in the complete queue, and *)
(* no other is in it twice.                                                *)
THEOREM ReturnNeverWaitsHolds == Spec => []ReturnNeverWaits
  BY OnePlaceHolds, OnePlaceLeavesRoom, PTL
=============================================================================
