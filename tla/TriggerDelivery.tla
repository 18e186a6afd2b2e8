---------------------------- MODULE TriggerDelivery ----------------------------
(***************************************************************************)
(* The way of a trigger from the agent where it fires, over the            *)
(* coordinator, to another agent that its trace visited: ReportTriggers    *)
(* and RemoteTrigger of agent/coordinator.go, LocalTrigger, the main       *)
(* goroutine and the goroutine per agent of coordinator/server.go.         *)
(*                                                                         *)
(* Both hops are alike: a bounded channel, a goroutine that makes one call *)
(* at a time from what has gathered in it, a handler that may run after    *)
(* the call was given up.  Each agent has a channel and a goroutine of its *)
(* own, so the model has one source and one destination.                   *)
(***************************************************************************)
EXTENDS Integers, Sequences, FiniteSets, SequencesExt

CONSTANTS Triggers,   \* triggers that fire, each with a trace of its own
          LocalCap,   \* capacity of localtriggers
          OutCap,     \* capacity of outgoing_triggers
          RemoteCap,  \* capacity of remotetriggers
          BatchSize,  \* a call takes no more once it has so many (100)
          MaxDrops,   \* bound: calls that find the coordinator's queue full
          MaxFails    \* bound: calls that fail or time out

ASSUME TriggerDeliveryAssumption ==
  /\ IsFiniteSet(Triggers)
  /\ {LocalCap, OutCap, RemoteCap, BatchSize} \subseteq Nat \ {0}
  /\ MaxDrops \in Nat /\ MaxFails \in Nat

VARIABLES fired,      \* triggers the source agent has processed
          local,      \* localtriggers
          sending,    \* the batch of the source's call, {} if it makes none
          arriving,   \* batches that LocalTrigger has not queued yet
          incoming,   \* incoming_triggers, without those of other agents
          processed,  \* batches processed by the main goroutine, or dropped
          stored,     \* triggers the coordinator has
          visited,    \* triggers whose trace is known to have visited the destination
          outgoing,   \* outgoing_triggers of the destination
          forwarding, \* the batch of the coordinator's call, {} if it makes none
          reaching,   \* batches that RemoteTrigger has not queued yet
          remote,     \* remotetriggers
          received,   \* trigger -> how often the destination has processed it
          lost,       \* triggers that found a full channel or whose call failed
          drops, fails

source == <<fired, local, sending>>
server == <<incoming, processed, stored, visited>>
vars == <<source, arriving, server, outgoing, forwarding, reaching, remote,
          received, lost, drops, fails>>

Init ==
  /\ fired = {} /\ local = <<>> /\ sending = {}
  /\ arriving = {} /\ incoming = <<>> /\ processed = {}
  /\ stored = {} /\ visited = {}
  /\ outgoing = <<>> /\ forwarding = {}
  /\ reaching = {} /\ remote = <<>>
  /\ received = [f \in Triggers |-> 0]
  /\ lost = {} /\ drops = 0 /\ fails = 0

(* What a goroutine takes from its channel for one call: batch after batch
   until the channel is empty or there are enough triggers. *)
Taken(channel) ==
  LET Gathered(n) == UNION ToSet(SubSeq(channel, 1, n))
  IN CHOOSE n \in 1 .. Len(channel) :
       /\ n = Len(channel) \/ Cardinality(Gathered(n)) >= BatchSize
       /\ \A k \in 1 .. n - 1 : Cardinality(Gathered(k)) < BatchSize

Accumulated(channel) == UNION ToSet(SubSeq(channel, 1, Taken(channel)))

RemainingNone(channel) == <<>>

Remaining(channel) == SubSeq(channel, Taken(channel) + 1, Len(channel))

-----------------------------------------------------------------------------
(***************************************************************************)
(* The source agent.                                                       *)
(***************************************************************************)

(* The processing loop forwards a batch of new triggers, or drops it if the
   channel is full. *)
ProcessTriggers(batch) ==
  /\ batch # {} /\ batch \cap fired = {}
  /\ fired' = fired \cup batch
  /\ IF Len(local) < LocalCap
     THEN local' = Append(local, batch) /\ UNCHANGED lost
     ELSE lost' = lost \cup batch /\ UNCHANGED local
  /\ UNCHANGED <<sending, arriving, server, outgoing, forwarding, reaching,
                 remote, received, drops, fails>>

ReportLocal ==
  /\ sending = {}
  /\ local # <<>>
  /\ sending' = Accumulated(local)
  /\ local' = Remaining(local)
  /\ arriving' = arriving \cup {sending'}
  /\ UNCHANGED <<fired, server, outgoing, forwarding, reaching, remote,
                 received, lost, drops, fails>>

(* LocalTrigger returns without an error, whether the batch was processed or
   dropped by the handler. *)
LocalAnswered ==
  /\ sending # {}
  /\ sending \in processed
  /\ sending' = {}
  /\ UNCHANGED <<fired, local, arriving, server, outgoing, forwarding,
                 reaching, remote, received, lost, drops, fails>>

(* The call fails or times out and TriggersLoop dials again; the batch is
   forgotten.  The request was lost, or its handler is still to run or has run. *)
LocalFails ==
  /\ sending # {}
  /\ fails < MaxFails
  /\ fails' = fails + 1
  /\ sending' = {}
  /\ lost' = lost \cup sending
  /\ arriving' \in {arriving, arriving \ {sending}}
  /\ UNCHANGED <<fired, local, server, outgoing, forwarding, reaching, remote,
                 received, drops>>

-----------------------------------------------------------------------------
(***************************************************************************)
(* The coordinator.                                                        *)
(***************************************************************************)

(* The handler queues the request, *)
LocalTrigger(batch) ==
  /\ arriving' = arriving \ {batch}
  /\ incoming' = Append(incoming, batch)
  /\ UNCHANGED <<source, processed, stored, visited, outgoing, forwarding,
                 reaching, remote, received, lost, drops, fails>>

(* or finds the queue full, counts the triggers and returns without an error. *)
LocalTriggerDropped(batch) ==
  /\ drops < MaxDrops
  /\ drops' = drops + 1
  /\ arriving' = arriving \ {batch}
  /\ processed' = processed \cup {batch}
  /\ lost' = lost \cup batch
  /\ UNCHANGED <<source, incoming, stored, visited, outgoing, forwarding,
                 reaching, remote, received, fails>>

SendTriggersBlocking(batch) ==
  \/ batch = {} /\ UNCHANGED <<outgoing, lost>>
  \/ /\ batch # {}
     /\ Len(outgoing) < OutCap
     /\ outgoing' = Append(outgoing, batch)
     /\ UNCHANGED lost

(* Put triggers on the channel of the destination; never wait for room. *)
SendTriggers(batch) ==
  \/ batch = {} /\ UNCHANGED <<outgoing, lost>>
  \/ /\ batch # {}
     /\ Len(outgoing) < OutCap
     /\ outgoing' = Append(outgoing, batch)
     /\ UNCHANGED lost
  \/ /\ batch # {}
     /\ Len(outgoing) = OutCap
     /\ lost' = lost \cup batch
     /\ UNCHANGED outgoing

(* AddTrigger asks for a trigger to be sent on only when its trace is new to
   it. *)
NewlyStored(batch) == batch \ stored

(* A trigger is sent to the destination when it is stored, if its trace is known
   to have been there, *)
ProcessTriggersRequest ==
  /\ incoming # <<>>
  /\ LET batch == Head(incoming) IN
     /\ SendTriggers(NewlyStored(batch) \cap visited)
     /\ stored' = stored \cup batch
     /\ processed' = processed \cup {batch}
  /\ incoming' = Tail(incoming)
  /\ UNCHANGED <<source, arriving, visited, forwarding, reaching, remote,
                 received, drops, fails>>

(* or when the breadcrumb that names the destination comes after the trigger. *)
ProcessBreadcrumbs(batch) ==
  /\ batch # {} /\ batch \cap visited = {}
  /\ SendTriggers(batch \cap stored)
  /\ visited' = visited \cup batch
  /\ UNCHANGED <<source, arriving, incoming, processed, stored, forwarding,
                 reaching, remote, received, drops, fails>>

ReportRemote ==
  /\ forwarding = {}
  /\ outgoing # <<>>
  /\ forwarding' = Accumulated(outgoing)
  /\ outgoing' = Remaining(outgoing)
  /\ reaching' = reaching \cup {forwarding'}
  /\ UNCHANGED <<source, arriving, server, remote, received, lost, drops, fails>>

RemoteAnswered ==
  /\ forwarding # {}
  /\ forwarding \notin reaching
  /\ forwarding' = {}
  /\ UNCHANGED <<source, arriving, server, outgoing, reaching, remote, received,
                 lost, drops, fails>>

RemoteFailsResent ==
  /\ forwarding # {}
  /\ fails < MaxFails
  /\ fails' = fails + 1
  /\ forwarding' = {}
  /\ outgoing' = <<forwarding>> \o outgoing
  /\ UNCHANGED <<source, arriving, server, reaching, remote, received, lost, drops>>

(* The call fails or times out and AgentLoop dials again; the batch is
   forgotten, with the same uncertainty as in LocalFails. *)
RemoteFails ==
  /\ forwarding # {}
  /\ fails < MaxFails
  /\ fails' = fails + 1
  /\ forwarding' = {}
  /\ lost' = lost \cup forwarding
  /\ reaching' \in {reaching, reaching \ {forwarding}}
  /\ UNCHANGED <<source, arriving, server, outgoing, remote, received, drops>>

-----------------------------------------------------------------------------
(***************************************************************************)
(* The destination agent.                                                  *)
(***************************************************************************)

RemoteTrigger(batch) ==
  /\ reaching' = reaching \ {batch}
  /\ IF Len(remote) < RemoteCap
     THEN remote' = Append(remote, batch) /\ UNCHANGED lost
     ELSE lost' = lost \cup batch /\ UNCHANGED remote
  /\ UNCHANGED <<source, arriving, server, outgoing, forwarding, received,
                 drops, fails>>

ProcessRemoteTriggers ==
  /\ remote # <<>>
  /\ received' = [f \in Triggers |->
                    IF f \in Head(remote) THEN received[f] + 1 ELSE received[f]]
  /\ remote' = Tail(remote)
  /\ UNCHANGED <<source, arriving, server, outgoing, forwarding, reaching, lost,
                 drops, fails>>

SourceNext == ReportLocal \/ LocalAnswered \/ LocalFails

HandlersNext ==
  \E batch \in arriving : LocalTrigger(batch) \/ LocalTriggerDropped(batch)

DestinationNext ==
  \/ ReportRemote \/ RemoteAnswered \/ RemoteFails
  \/ \E batch \in reaching : RemoteTrigger(batch)
  \/ ProcessRemoteTriggers

Next ==
  \/ \E batch \in SUBSET Triggers : ProcessTriggers(batch) \/ ProcessBreadcrumbs(batch)
  \/ SourceNext \/ HandlersNext \/ ProcessTriggersRequest \/ DestinationNext

Spec == Init /\ [][Next]_vars

(* The goroutines of the source and of the coordinator's requests run.  Nothing
   is assumed of the destination, nor of the calls to it. *)
FairSpec == Spec /\ WF_vars(SourceNext) /\ WF_vars(HandlersNext)
                 /\ WF_vars(ProcessTriggersRequest)

-----------------------------------------------------------------------------
(***************************************************************************)
(* Properties.                                                             *)
(***************************************************************************)

(* The destination applies a trigger at most once, although a call of
   RemoteTrigger may time out before, while or after its handler runs, and
   although the trigger and the breadcrumb that both cause it to be sent reach
   the coordinator in either order: a failed batch is not sent again. *)
ReceivedOnce == \A f \in Triggers : received[f] <= 1

(* An agent that answers no call, or is never scheduled, does not hold up the
   coordinator: every trigger that fires elsewhere is stored all the same, unless
   a full channel or a failed call on the way to the coordinator took it. *)
StoredInTheEnd == \A f \in Triggers : f \in fired ~> (f \in stored \/ f \in lost)

(* If the destination and the coordinator's goroutine for it run as well, every
   trigger whose trace visited the destination gets there or belongs to a batch
   that a full channel or a failed call took; none stays behind in a channel
   because a call had enough without it. *)
DeliveredOrLost ==
  WF_vars(DestinationNext) =>
    \A f \in Triggers :
      (f \in stored /\ f \in visited) ~> (received[f] = 1 \/ f \in lost)
=============================================================================
