------------------------ MODULE TriggerDeliveryProofs ------------------------
(***************************************************************************)
(* Proofs about TriggerDelivery for any triggers, capacities and numbers   *)
(* of failures: a trigger reaches the destination at most once.            *)
(***************************************************************************)
EXTENDS TriggerDelivery, FiniteSetTheorems, SequenceTheorems, TLAPS

(* A set of naturals has a least element; the loops that take batches from  *)
(* a channel stop at the first one that is enough.                          *)
LEMMA LeastNatural ==
  ASSUME NEW T \in SUBSET Nat, T # {}
  PROVE  \E n \in T : \A k \in T : ~(k < n)
  <1>1. PICK n \in T : \A k \in T : ~(<<k, n>> \in OpToRel(<, Nat))
    BY WFMin, NatLessThanWellFounded, ZenonT(40)
  <1>2. \A k \in T : <<k, n>> \in Nat \X Nat
    OBVIOUS
  <1>3. \A k \in T : k < n => <<k, n>> \in OpToRel(<, Nat)
    BY <1>2, SMTT(20) DEF OpToRel
  <1> QED
    BY <1>1, <1>3, Zenon

-----------------------------------------------------------------------------
Channels == Seq(SUBSET Triggers)

(* What the first batches of a channel hold can be counted.                *)
LEMMA GatheredCounts ==
  ASSUME NEW channel \in Channels, NEW n \in 1 .. Len(channel)
  PROVE  Cardinality(UNION ToSet(SubSeq(channel, 1, n))) \in Nat
  <1>1. UNION ToSet(SubSeq(channel, 1, n)) \in SUBSET Triggers
    BY DEF Channels, ToSet
  <1> QED
    BY <1>1, FS_Subset, FS_CardinalityType, TriggerDeliveryAssumption, SMTT(20)

(* The accumulation loops of ReportTriggers and ReportRemoteTriggers end:  *)
(* a call takes at least one batch, and no more than the channel has.      *)
LEMMA TakenInRange ==
  ASSUME NEW channel \in Channels, channel # <<>>
  PROVE  Taken(channel) \in 1 .. Len(channel)
  <1> DEFINE Gathered(n) == UNION ToSet(SubSeq(channel, 1, n))
             Enough == {n \in 1 .. Len(channel) :
                          n = Len(channel) \/ Cardinality(Gathered(n)) >= BatchSize}
  <1>1. Len(channel) \in Nat \ {0}
    BY DEF Channels
  <1>2. Enough \in SUBSET Nat /\ Len(channel) \in Enough
    BY <1>1
  <1>3. PICK n \in Enough : \A k \in Enough : ~(k < n)
    BY <1>2, LeastNatural, ZenonT(40)
  <1>4. \A k \in 1 .. n - 1 : Cardinality(Gathered(k)) < BatchSize
    <2> SUFFICES ASSUME NEW k \in 1 .. n - 1
                 PROVE  Cardinality(Gathered(k)) < BatchSize
      OBVIOUS
    <2>1. k \in 1 .. Len(channel) /\ k < n
      BY <1>1
    <2>2. ~(Cardinality(Gathered(k)) >= BatchSize)
      BY <1>3, <2>1, SMTT(20)
    <2>3. Cardinality(Gathered(k)) \in Nat
      BY <2>1, GatheredCounts, SMTT(20)
    <2> HIDE DEF Gathered
    <2> QED
      BY <2>2, <2>3, TriggerDeliveryAssumption
  <1>5. n \in 1 .. Len(channel) /\ (n = Len(channel) \/ Cardinality(Gathered(n)) >= BatchSize)
    OBVIOUS
  <1> QED
    BY <1>4, <1>5, ZenonT(40) DEF Taken

LEMMA AppendChannel ==
  \A channel \in Channels, batch \in SUBSET Triggers : Append(channel, batch) \in Channels
  BY DEF Channels

(* One call takes the front of the channel and leaves the rest in order.   *)
LEMMA TakeProperties ==
  ASSUME NEW channel \in Channels, channel # <<>>
  PROVE  LET n == Taken(channel) IN
         /\ n \in 1 .. Len(channel)
         /\ \A f : f \in Accumulated(channel) <=> \E i \in 1 .. n : f \in channel[i]
         /\ Accumulated(channel) \subseteq Triggers
         /\ Remaining(channel) \in Channels
         /\ Len(Remaining(channel)) = Len(channel) - n
         /\ \A i \in 1 .. Len(Remaining(channel)) : Remaining(channel)[i] = channel[n + i]
  <1> DEFINE n == Taken(channel)
  <1>1. n \in 1 .. Len(channel)
    BY TakenInRange
  <1>2. \A f : f \in Accumulated(channel) <=> \E i \in 1 .. n : f \in channel[i]
    BY <1>1, SMTT(20) DEF Accumulated, ToSet, Channels
  <1>4. Accumulated(channel) \subseteq Triggers
    <2>1. \A i \in 1 .. n : i \in 1 .. Len(channel)
      BY <1>1, SMTT(20) DEF Channels
    <2>2. \A i \in 1 .. Len(channel) : channel[i] \subseteq Triggers
      BY DEF Channels
    <2> QED
      BY <1>2, <2>1, <2>2
  <1>3. /\ Remaining(channel) \in Channels
        /\ Len(Remaining(channel)) = Len(channel) - n
        /\ \A i \in 1 .. Len(Remaining(channel)) : Remaining(channel)[i] = channel[n + i]
    BY <1>1, SMTT(20) DEF Remaining, Channels
  <1> QED
    BY <1>1, <1>2, <1>3, <1>4, SMTT(20)

\* the batches of a channel have no trigger in common
Apart(channel) ==
  \A f \in Triggers, i, j \in 1 .. Len(channel) : f \in channel[i] /\ f \in channel[j] => i = j

LEMMA ApartAppend ==
  ASSUME NEW channel \in Channels, NEW batch \in SUBSET Triggers, Apart(channel),
         \A f \in batch, i \in 1 .. Len(channel) : f \notin channel[i]
  PROVE  Apart(Append(channel, batch))
  <1> DEFINE n == Len(channel)
             longer == Append(channel, batch)
  <1>1. /\ n \in Nat /\ Len(longer) = n + 1 /\ longer[n + 1] = batch
        /\ \A i \in 1 .. n + 1 : i = n + 1 \/ (i \in 1 .. n /\ longer[i] = channel[i])
    BY DEF Channels
  <1> HIDE DEF longer
  <1> QED
    BY <1>1, SMTT(20) DEF Apart

LEMMA ApartRest ==
  ASSUME NEW channel \in Channels, NEW n \in 0 .. Len(channel), NEW rest \in Channels,
         Len(rest) = Len(channel) - n, Apart(channel),
         \A i \in 1 .. Len(rest) : rest[i] = channel[n + i]
  PROVE  Apart(rest)
  <1> SUFFICES ASSUME NEW f \in Triggers, NEW i \in 1 .. Len(rest), NEW j \in 1 .. Len(rest),
                      f \in rest[i], f \in rest[j]
               PROVE  i = j
    BY DEF Apart
  <1>1. n + i \in 1 .. Len(channel) /\ n + j \in 1 .. Len(channel)
    BY DEF Channels
  <1>2. n + i = n + j
    BY <1>1, ZenonT(40) DEF Apart
  <1> QED
    BY <1>2, SMTT(20)

-----------------------------------------------------------------------------
Types ==
  /\ fired \subseteq Triggers /\ local \in Channels /\ sending \subseteq Triggers
  /\ arriving \subseteq SUBSET Triggers /\ incoming \in Channels
  /\ stored \subseteq Triggers /\ visited \subseteq Triggers
  /\ outgoing \in Channels /\ remote \in Channels
  /\ forwarding \subseteq Triggers /\ reaching \subseteq SUBSET Triggers
  /\ received \in [Triggers -> Nat]

Queued(f) == \E i \in 1 .. Len(outgoing) : f \in outgoing[i]
Reaching(f) == \E X \in reaching : f \in X
Waiting(f) == \E i \in 1 .. Len(remote) : f \in remote[i]

\* a trigger is in one batch of a stage
OneBatch ==
  /\ Apart(outgoing) /\ Apart(remote)
  /\ \A f \in Triggers : \A X, Y \in reaching : f \in X /\ f \in Y => X = Y

\* a trigger is in one stage only, and in none before it is sent
OneStage ==
  \A f \in Triggers :
    /\ Queued(f) => f \in stored \cap visited /\ ~Reaching(f) /\ ~Waiting(f) /\ received[f] = 0
    /\ Reaching(f) => f \in stored \cap visited /\ ~Waiting(f) /\ received[f] = 0
    /\ Waiting(f) => f \in stored \cap visited /\ received[f] = 0
    /\ received[f] > 0 => f \in stored \cap visited /\ received[f] = 1

Inv == Types /\ OneBatch /\ OneStage

LEMMA InitInv == Init => Inv
  BY DEF Init, Inv, Types, Channels, OneBatch, Apart, OneStage, Queued, Reaching, Waiting

(* Steps that leave the way from the coordinator to the destination alone. *)
LEMMA SourceKeeps ==
  ASSUME Inv, Types', UNCHANGED <<stored, visited, outgoing, reaching, remote, received>>
  PROVE  Inv'
  BY DEF Inv, OneBatch, Apart, OneStage, Queued, Reaching, Waiting

(* SendTriggers of triggers that were not both stored and known to have     *)
(* visited the destination, and are so now.                                 *)
LEMMA SendKeeps ==
  ASSUME Inv, Types', NEW batch \in SUBSET Triggers, SendTriggers(batch),
         batch \cap (stored \cap visited) = {},
         batch \subseteq stored' \cap visited',
         stored \subseteq stored', visited \subseteq visited',
         UNCHANGED <<reaching, remote, received>>
  PROVE  Inv'
  <1> USE DEF Inv, Types, Channels
  <1>1. CASE UNCHANGED outgoing
    BY <1>1, SMTT(20) DEF OneBatch, Apart, OneStage, Queued, Reaching, Waiting
  <1>2. CASE outgoing' = Append(outgoing, batch)
    <2> DEFINE n == Len(outgoing)
    <2>1. /\ n \in Nat
          /\ Len(outgoing') = n + 1
          /\ \A i \in 1 .. n : outgoing'[i] = outgoing[i]
          /\ outgoing'[n + 1] = batch
          /\ \A i \in 1 .. n + 1 : i \in 1 .. n \/ i = n + 1
          /\ n + 1 \in 1 .. n + 1 /\ 1 .. n \subseteq 1 .. n + 1
      BY <1>2, SMTT(20)
    <2> HIDE DEF n
    <2>2. \A f \in batch : ~Queued(f) /\ ~Reaching(f) /\ ~Waiting(f) /\ received[f] = 0
      BY DEF OneStage
    <2>3. \A f \in Triggers : Queued(f)' <=> (Queued(f) \/ f \in batch)
      BY <2>1, ZenonT(40) DEF Queued, n
    <2>4. \A f \in Triggers : (Reaching(f)' <=> Reaching(f)) /\ (Waiting(f)' <=> Waiting(f))
      BY DEF Reaching, Waiting
    <2>5. OneStage'
      BY <2>2, <2>3, <2>4 DEF OneStage
    <2>6. OneBatch'
      <3>1. Apart(outgoing')
        BY <1>2, <2>2, ApartAppend, ZenonT(40) DEF OneBatch, Queued
      <3> QED
        BY <3>1 DEF OneBatch, Apart
    <2> QED
      BY <2>5, <2>6, SMTT(20)
  <1> QED
    BY <1>1, <1>2, SMTT(20) DEF SendTriggers

(* The coordinator's call moves the front of the channel to one batch that  *)
(* RemoteTrigger has still to queue.                                        *)
LEMMA ReportRemoteKeeps == Inv /\ ReportRemote => Inv'
  <1> SUFFICES ASSUME Inv, ReportRemote PROVE Inv'
    OBVIOUS
  <1> DEFINE n == Taken(outgoing)
             taken == Accumulated(outgoing)
  <1>1. /\ n \in 1 .. Len(outgoing) /\ Len(outgoing) \in Nat
        /\ \A f : f \in taken <=> \E i \in 1 .. n : f \in outgoing[i]
        /\ outgoing' \in Channels
        /\ Len(outgoing') = Len(outgoing) - n
        /\ \A i \in 1 .. Len(outgoing') : outgoing'[i] = outgoing[n + i]
    BY TakeProperties, SMTT(20) DEF ReportRemote, Inv, Types, Channels
  <1>2. /\ reaching' = reaching \cup {taken} /\ forwarding' = taken
        /\ UNCHANGED <<fired, local, sending, arriving, incoming, stored, visited, remote, received>>
    BY DEF ReportRemote, source, server
  <1>3. taken \subseteq Triggers
    BY TakeProperties DEF ReportRemote, Inv, Types
  <1> HIDE DEF n, taken
  <1>4. Types'
    BY <1>1, <1>2, <1>3, SMTT(20) DEF Inv, Types
  <1>5. \A f \in Triggers : /\ f \in taken => Queued(f)
                            /\ Queued(f)' => Queued(f) /\ f \notin taken
                            /\ Reaching(f)' <=> (Reaching(f) \/ f \in taken)
                            /\ Waiting(f)' <=> Waiting(f)
    <2> SUFFICES ASSUME NEW f \in Triggers
                 PROVE  /\ f \in taken => Queued(f)
                        /\ Queued(f)' => Queued(f) /\ f \notin taken
                        /\ Reaching(f)' <=> (Reaching(f) \/ f \in taken)
                        /\ Waiting(f)' <=> Waiting(f)
      OBVIOUS
    <2>1. f \in taken => Queued(f)
      BY <1>1 DEF Queued
    <2>2. ASSUME Queued(f)' PROVE Queued(f) /\ f \notin taken
      <3>1. PICK i \in 1 .. Len(outgoing') : f \in outgoing[n + i]
        BY <1>1, <2>2 DEF Queued
      <3>2. n + i \in 1 .. Len(outgoing) /\ \A j \in 1 .. n : j # n + i /\ j \in 1 .. Len(outgoing)
        BY <1>1
      <3> QED
        BY <1>1, <3>1, <3>2, SMTT(20) DEF Inv, OneBatch, Apart, Queued
    <2> QED
      BY <1>2, <2>1, <2>2, SMTT(20) DEF Reaching, Waiting
  <1>6. OneStage'
    BY <1>2, <1>5, SMTT(20) DEF Inv, OneStage
  <1>7. OneBatch'
    <2>1. Apart(outgoing')
      <3>1. /\ n \in 0 .. Len(outgoing) /\ outgoing' \in Channels
            /\ Len(outgoing') = Len(outgoing) - n
            /\ \A i \in 1 .. Len(outgoing') : outgoing'[i] = outgoing[n + i]
        BY <1>1
      <3>2. outgoing \in Channels /\ Apart(outgoing)
        BY DEF Inv, Types, OneBatch
      <3> QED
        BY <3>1, <3>2, ApartRest, SMTT(20)
    <2>2. \A f \in taken : ~Reaching(f)
      BY <1>3, <1>5, SMTT(20) DEF Inv, OneStage
    <2>3. \A f \in Triggers : \A X, Y \in reaching' : f \in X /\ f \in Y => X = Y
      BY <1>2, <2>2, SMTT(20) DEF Inv, OneBatch, Reaching
    <2> QED
      BY <1>2, <2>1, <2>3, SMTT(20) DEF Inv, OneBatch, Apart
  <1> QED
    BY <1>4, <1>6, <1>7 DEF Inv

(* A call that fails is forgotten, and its handler may run or not.          *)
LEMMA RemoteFailsKeeps == Inv /\ RemoteFails => Inv'
  <1> SUFFICES ASSUME Inv, RemoteFails PROVE Inv'
    OBVIOUS
  <1>1. /\ reaching' \subseteq reaching /\ forwarding' = {}
        /\ UNCHANGED <<fired, local, sending, arriving, incoming, stored, visited, outgoing, remote,
                       received>>
    BY DEF RemoteFails, source, server
  <1> QED
    BY <1>1 DEF Inv, Types, OneBatch, Apart, OneStage, Queued, Reaching, Waiting

(* RemoteTrigger moves a batch to remotetriggers, or drops it.              *)
LEMMA RemoteTriggerKeeps ==
  ASSUME Inv, NEW batch \in reaching, RemoteTrigger(batch)
  PROVE  Inv'
  <1> DEFINE n == Len(remote)
  <1>1. /\ reaching' = reaching \ {batch}
        /\ UNCHANGED <<fired, local, sending, arriving, incoming, stored, visited, outgoing,
                       forwarding, received>>
    BY DEF RemoteTrigger, source, server
  <1>2. batch \in SUBSET Triggers /\ remote \in Channels /\ n \in Nat
    BY DEF Inv, Types, Channels
  <1>3. CASE UNCHANGED remote
    BY <1>1, <1>3, SMTT(20) DEF Inv, Types, OneBatch, Apart, OneStage, Queued, Reaching, Waiting
  <1>4. CASE remote' = Append(remote, batch)
    <2>1. /\ remote' \in Channels /\ Len(remote') = n + 1
          /\ \A i \in 1 .. n : remote'[i] = remote[i]
          /\ remote'[n + 1] = batch
          /\ \A i \in 1 .. n + 1 : i \in 1 .. n \/ i = n + 1
          /\ n + 1 \in 1 .. n + 1 /\ 1 .. n \subseteq 1 .. n + 1
      BY <1>2, <1>4, SMTT(20) DEF Channels
    <2> HIDE DEF n
    <2>2. Types'
      BY <1>1, <2>1 DEF Inv, Types
    <2>3. \A f \in Triggers : /\ Queued(f)' <=> Queued(f)
                              /\ Reaching(f)' => Reaching(f) /\ f \notin batch
                              /\ Waiting(f)' <=> (Waiting(f) \/ f \in batch)
                              /\ f \in batch => Reaching(f)
      <3> SUFFICES ASSUME NEW f \in Triggers
                   PROVE  /\ Queued(f)' <=> Queued(f)
                          /\ Reaching(f)' => Reaching(f) /\ f \notin batch
                          /\ Waiting(f)' <=> (Waiting(f) \/ f \in batch)
                          /\ f \in batch => Reaching(f)
        OBVIOUS
      <3>1. (Queued(f)' <=> Queued(f)) /\ (f \in batch => Reaching(f))
        BY <1>1 DEF Queued, Reaching
      <3>2. Reaching(f)' => Reaching(f) /\ f \notin batch
        BY <1>1 DEF Inv, OneBatch, Reaching
      <3>3. Waiting(f)' <=> (Waiting(f) \/ f \in batch)
        BY <2>1 DEF Waiting, n
      <3> QED
        BY <3>1, <3>2, <3>3, SMTT(20)
    <2>4. OneStage'
      BY <1>1, <2>3 DEF Inv, OneStage
    <2>5. \A f \in batch : ~Waiting(f)
      BY <1>2, <2>3, SMTT(20) DEF Inv, OneStage
    <2>6. OneBatch'
      <3>1. Apart(remote')
        BY <1>2, <1>4, <2>5, ApartAppend, SMTT(20) DEF Inv, OneBatch, Waiting
      <3> QED
        BY <1>1, <3>1, SMTT(20) DEF Inv, OneBatch, Apart
    <2> QED
      BY <2>2, <2>4, <2>6, SMTT(20) DEF Inv
  <1> QED
    BY <1>3, <1>4 DEF RemoteTrigger

(* The destination's loop takes the first batch of remotetriggers.           *)
LEMMA ProcessRemoteKeeps == Inv /\ ProcessRemoteTriggers => Inv'
  <1> SUFFICES ASSUME Inv, ProcessRemoteTriggers PROVE Inv'
    OBVIOUS
  <1> DEFINE batch == Head(remote)
             n == Len(remote)
  <1>1. /\ received' = [f \in Triggers |-> IF f \in batch THEN received[f] + 1 ELSE received[f]]
        /\ UNCHANGED <<fired, local, sending, arriving, incoming, stored, visited, outgoing,
                       forwarding, reaching>>
    BY DEF ProcessRemoteTriggers, source, server
  <1>2. /\ n \in Nat \ {0} /\ batch = remote[1] /\ batch \subseteq Triggers
        /\ remote' \in Channels /\ Len(remote') = n - 1
        /\ \A i \in 1 .. n - 1 : remote'[i] = remote[i + 1]
    BY DEF ProcessRemoteTriggers, Inv, Types, Channels
  <1>3. /\ 1 \in 1 .. n
        /\ \A i \in 1 .. n - 1 : i + 1 \in 1 .. n /\ i + 1 # 1
        /\ \A i, j \in 1 .. n - 1 : i + 1 = j + 1 => i = j
    BY <1>2
  <1> HIDE DEF batch, n
  <1>4. Types'
    BY <1>1, <1>2 DEF Inv, Types
  <1>5. \A f \in Triggers : /\ Queued(f)' <=> Queued(f)
                            /\ Reaching(f)' <=> Reaching(f)
                            /\ Waiting(f)' => Waiting(f) /\ f \notin batch
                            /\ f \in batch => Waiting(f)
    <2> SUFFICES ASSUME NEW f \in Triggers
                 PROVE  /\ Queued(f)' <=> Queued(f)
                        /\ Reaching(f)' <=> Reaching(f)
                        /\ Waiting(f)' => Waiting(f) /\ f \notin batch
                        /\ f \in batch => Waiting(f)
      OBVIOUS
    <2>1. (Queued(f)' <=> Queued(f)) /\ (Reaching(f)' <=> Reaching(f))
      BY <1>1 DEF Queued, Reaching
    <2>2. f \in batch => Waiting(f)
      BY <1>2, <1>3 DEF Waiting, n
    <2>3. Waiting(f)' => Waiting(f) /\ f \notin batch
      BY <1>2, <1>3, ZenonT(40) DEF Inv, OneBatch, Apart, Waiting, n
    <2> QED
      BY <2>1, <2>2, <2>3, SMTT(20)
  <1>6. OneStage'
    BY <1>1, <1>5 DEF Inv, Types, OneStage
  <1>7. OneBatch'
    <2>1. Apart(remote')
      <3>1. \A i \in 1 .. Len(remote') : remote'[i] = remote[1 + i]
        BY <1>2
      <3> QED
        BY <1>2, <3>1, ApartRest, SMTT(20) DEF Inv, Types, OneBatch, n
    <2> QED
      BY <1>1, <2>1 DEF Inv, OneBatch, Apart
  <1> QED
    BY <1>4, <1>6, <1>7 DEF Inv

(* A trigger that the main goroutine stores is new to AddTrigger, and a      *)
(* breadcrumb is new to AddBreadcrumb, when they cause it to be sent.        *)
LEMMA CoordinatorKeeps ==
  ASSUME Inv, ProcessTriggersRequest \/ \E batch \in SUBSET Triggers : ProcessBreadcrumbs(batch)
  PROVE  Inv'
  <1>1. CASE ProcessTriggersRequest
    <2> DEFINE batch == Head(incoming)
    <2>1. batch \in SUBSET Triggers /\ incoming' \in Channels
      BY <1>1 DEF ProcessTriggersRequest, Inv, Types, Channels
    <2>2. /\ SendTriggers((batch \ stored) \cap visited)
          /\ stored' = stored \cup batch
          /\ UNCHANGED <<fired, local, sending, arriving, visited, forwarding, reaching, remote,
                         received>>
      BY <1>1 DEF ProcessTriggersRequest, NewlyStored, source
    <2> HIDE DEF batch
    <2>3. Types'
      BY <2>1, <2>2, AppendChannel, ZenonT(40) DEF SendTriggers, Inv, Types
    <2> QED
      BY <2>1, <2>2, <2>3, SendKeeps, SMTT(20)
  <1>2. ASSUME NEW batch \in SUBSET Triggers, ProcessBreadcrumbs(batch) PROVE Inv'
    <2>1. /\ SendTriggers(batch \cap stored) /\ batch \cap visited = {}
          /\ visited' = visited \cup batch
          /\ UNCHANGED <<fired, local, sending, arriving, incoming, stored, forwarding, reaching,
                         remote, received>>
      BY <1>2 DEF ProcessBreadcrumbs, source
    <2>2. Types'
      BY <2>1, AppendChannel, ZenonT(40) DEF SendTriggers, Inv, Types
    <2> QED
      BY <2>1, <2>2, SendKeeps
  <1> QED
    BY <1>1, <1>2

(* What the source agent and the handlers of LocalTrigger do.                *)
LEMMA SourceTypes ==
  ASSUME Inv,
         \/ \E batch \in SUBSET Triggers : ProcessTriggers(batch)
         \/ SourceNext \/ HandlersNext \/ RemoteAnswered \/ UNCHANGED vars
  PROVE  /\ Types'
         /\ UNCHANGED <<stored, visited, outgoing, reaching, remote, received>>
  <1> USE DEF Inv, Types, source, server
  <1>1. ASSUME NEW batch \in SUBSET Triggers, ProcessTriggers(batch)
        PROVE  Types' /\ UNCHANGED <<stored, visited, outgoing, reaching, remote, received>>
    BY <1>1, AppendChannel, ZenonT(40) DEF ProcessTriggers
  <1>2. CASE ReportLocal
    <2>1. local' \in Channels /\ sending' = Accumulated(local) /\ sending' \subseteq Triggers
      BY <1>2, TakeProperties DEF ReportLocal
    <2> QED
      BY <1>2, <2>1 DEF ReportLocal
  <1>3. CASE LocalAnswered \/ LocalFails \/ RemoteAnswered
    BY <1>3 DEF LocalAnswered, LocalFails, RemoteAnswered
  <1>4. ASSUME NEW batch \in arriving, LocalTrigger(batch) \/ LocalTriggerDropped(batch)
        PROVE  Types' /\ UNCHANGED <<stored, visited, outgoing, reaching, remote, received>>
    BY <1>4, AppendChannel, ZenonT(40) DEF LocalTrigger, LocalTriggerDropped
  <1>5. CASE UNCHANGED vars
    BY <1>5 DEF vars
  <1> QED
    BY <1>1, <1>2, <1>3, <1>4, <1>5 DEF SourceNext, HandlersNext

LEMMA NextInv == Inv /\ [Next]_vars => Inv'
  <1> SUFFICES ASSUME Inv, [Next]_vars PROVE Inv'
    OBVIOUS
  <1>1. CASE \/ \E batch \in SUBSET Triggers : ProcessTriggers(batch)
             \/ SourceNext \/ HandlersNext \/ RemoteAnswered \/ UNCHANGED vars
    BY <1>1, SourceTypes, SourceKeeps, SMTT(20)
  <1> QED
    BY <1>1, CoordinatorKeeps, ReportRemoteKeeps, RemoteFailsKeeps, RemoteTriggerKeeps,
       ProcessRemoteKeeps DEF Next, DestinationNext

(* The destination applies a trigger at most once, whatever calls fail, run   *)
(* late or find a channel full: processing, the coordinator's storing of      *)
(* triggers and breadcrumbs, and the calls of RemoteTrigger never multiply it. *)
THEOREM ReceivedOnceHolds == Spec => []ReceivedOnce
  <1>1. Inv => ReceivedOnce
    BY DEF Inv, Types, OneStage, ReceivedOnce
  <1> QED
    BY InitInv, NextInv, <1>1, PTL DEF Spec
====
