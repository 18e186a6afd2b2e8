-------------------------- MODULE BreadcrumbDelivery --------------------------
(***************************************************************************)
(* How breadcrumbs get from an agent to the coordinator: ReportBreadcrumbs *)
(* of agent/coordinator.go, the Breadcrumbs call and                       *)
(* processBreadcrumbRequest of coordinator/server.go.                      *)
(*                                                                         *)
(* An address is sent once and abbreviated by a number from then on.  The  *)
(* agent's table of numbers lives as long as one run of ReportBreadcrumbs  *)
(* (a session), the coordinator's as long as the coordinator.  Each agent  *)
(* has tables of its own, so the model has one agent; the others matter by *)
(* filling the queue of incoming requests.                                 *)
(***************************************************************************)
EXTENDS Integers, Sequences, FiniteSets, Lists

CONSTANTS Crumbs,     \* the breadcrumbs <<trace, address>> of the agent
          ChanCap,    \* capacity of the channel r.breadcrumbs
          MaxDrops,   \* bound: requests that find the coordinator's queue full
          MaxFails    \* bound: calls that fail or time out

ASSUME DeliveryAssumption ==
  /\ IsFiniteSet(Crumbs) /\ \A c \in Crumbs : c = <<c[1], c[2]>>
  /\ ChanCap \in Nat \ {0} /\ MaxDrops \in Nat /\ MaxFails \in Nat

VARIABLES added,     \* the breadcrumbs put on the channel so far
          channel,   \* r.breadcrumbs
          table,     \* addr_to_id, as the set of its <<id, address>> entries
          seed,      \* the next number
          pc,        \* "collect", or "waiting" for the answer to a call
          calls,     \* number of calls made; names the latest one
          session,   \* number of sessions begun
          pending,   \* requests whose handler has not been run yet
          incoming,  \* cs.incoming_breadcrumbs, without those of other agents
          answers,   \* call -> its result
          known,     \* id_to_addr of the agent, as a set of entries
          decoded,   \* the breadcrumbs handed to AddBreadcrumb
          drops, fails

agentVars == <<channel, table, seed, pc, calls, session>>
serverVars == <<pending, incoming, answers, known, decoded>>
vars == <<added, agentVars, serverVars, drops, fails>>

Addrs == {c[2] : c \in Crumbs}
MaxCalls == Cardinality(Crumbs)

Init ==
  /\ added = {} /\ channel = <<>>
  /\ table = {} /\ seed = 0 /\ pc = "collect" /\ calls = 0 /\ session = 1
  /\ pending = {} /\ incoming = <<>>
  /\ answers = [n \in 1 .. MaxCalls |-> "none"]
  /\ known = {} /\ decoded = {}
  /\ drops = 0 /\ fails = 0

-----------------------------------------------------------------------------
(***************************************************************************)
(* The agent.                                                              *)
(***************************************************************************)

(* The processing loop puts breadcrumbs on the channel; while it is full they
   are dropped and counted. *)
AddBreadcrumbs(c) ==
  /\ c \notin added
  /\ Len(channel) < ChanCap
  /\ added' = added \cup {c}
  /\ channel' = Append(channel, c)
  /\ UNCHANGED <<table, seed, pc, calls, session, serverVars, drops, fails>>

EntriesFromZero(order) == {<<i - 1, order[i]>> : i \in DOMAIN order}

(* The numbers that addresses get, in the order in which they are met. *)
Entries(order) == {<<seed + i - 1, order[i]>> : i \in DOMAIN order}

Number(entries, addr) == (CHOOSE e \in entries : e[2] = addr)[1]

(* Everything on the channel goes into one request, up to 100 batches.
   Addresses without a number get one, in the order in which the maps are
   iterated, and are sent along. *)
ReportBreadcrumbs ==
  /\ pc = "collect"
  /\ channel # <<>>
  /\ LET batch == Range(channel)
         new   == {c[2] : c \in batch} \ {e[2] : e \in table}
     IN \E order \in Orders(new) :
          /\ table' = table \cup Entries(order)
          /\ seed' = seed + Len(order)
          /\ pending' = pending \cup
               {[call |-> calls + 1, addresses |-> Entries(order),
                 crumbs |-> {<<c[1], Number(table', c[2])>> : c \in batch}]}
  /\ channel' = <<>>
  /\ calls' = calls + 1
  /\ pc' = "waiting"
  /\ UNCHANGED <<added, session, incoming, answers, known, decoded, drops, fails>>

NextSessionKeepsTable ==
  /\ pc' = "collect"
  /\ session' = session + 1
  /\ UNCHANGED <<table, seed>>

(* ReportBreadcrumbs returns the error to BreadcrumbsLoop, which dials and
   calls it again with an empty table and seed 0. *)
NextSession ==
  /\ pc' = "collect"
  /\ session' = session + 1
  /\ table' = {} /\ seed' = 0

Answered ==
  /\ pc = "waiting"
  /\ \/ /\ answers[calls] = "ok"
        /\ pc' = "collect"
        /\ UNCHANGED <<table, seed, session>>
     \/ /\ answers[calls] = "error"
        /\ NextSession
  /\ UNCHANGED <<added, channel, calls, serverVars, drops, fails>>

(* The call times out or the connection breaks.  The request was lost, or it
   is still on its way to the coordinator's goroutine. *)
CallFails ==
  /\ pc = "waiting"
  /\ fails < MaxFails
  /\ fails' = fails + 1
  /\ NextSession
  /\ pending' \in {pending, {r \in pending : r.call # calls}}
  /\ UNCHANGED <<added, channel, calls, incoming, answers, known, decoded, drops>>

-----------------------------------------------------------------------------
(***************************************************************************)
(* The coordinator.                                                        *)
(***************************************************************************)

(* The handler of the call queues the request, *)
Breadcrumbs(r) ==
  /\ pending' = pending \ {r}
  /\ incoming' = Append(incoming, r)
  /\ UNCHANGED <<added, agentVars, answers, known, decoded, drops, fails>>

(* or finds the queue full and drops it, and answers without an error. *)
BreadcrumbsDropped(r) ==
  /\ drops < MaxDrops
  /\ drops' = drops + 1
  /\ pending' = pending \ {r}
  /\ answers' = [answers EXCEPT ![r.call] = "ok"]
  /\ UNCHANGED <<added, agentVars, incoming, known, decoded, fails>>

(* id_to_addr after the addresses of a request are stored. *)
Learn(addresses) ==
  {e \in known : \A x \in addresses : x[1] # e[1]} \cup addresses

(* The breadcrumbs a request stands for, under a table. *)
Unravel(r, entries) ==
  {<<x[1][1], x[2][2]>> : x \in {y \in r.crumbs \X entries : y[1][2] = y[2][1]}}

Mapped(r, entries) == \A c \in r.crumbs : c[2] \in {e[1] : e \in entries}

ProcessBreadcrumbRequestSilent ==
  /\ incoming # <<>>
  /\ LET r == Head(incoming) IN
     /\ known' = Learn(r.addresses)
     /\ IF Mapped(r, known')
        THEN /\ decoded' = decoded \cup Unravel(r, known')
             /\ answers' = [answers EXCEPT ![r.call] = "ok"]
        ELSE UNCHANGED <<decoded, answers>>
  /\ incoming' = Tail(incoming)
  /\ UNCHANGED <<added, agentVars, pending, drops, fails>>

(* A number without an address makes the whole request fail. *)
ProcessBreadcrumbRequest ==
  /\ incoming # <<>>
  /\ LET r == Head(incoming) IN
     /\ known' = Learn(r.addresses)
     /\ IF Mapped(r, known')
        THEN /\ decoded' = decoded \cup Unravel(r, known')
             /\ answers' = [answers EXCEPT ![r.call] = "ok"]
        ELSE /\ answers' = [answers EXCEPT ![r.call] = "error"]
             /\ UNCHANGED decoded
  /\ incoming' = Tail(incoming)
  /\ UNCHANGED <<added, agentVars, pending, drops, fails>>

CoordinatorNext ==
  \/ \E r \in pending : Breadcrumbs(r) \/ BreadcrumbsDropped(r)
  \/ ProcessBreadcrumbRequest

Next ==
  \/ \E c \in Crumbs : AddBreadcrumbs(c)
  \/ ReportBreadcrumbs \/ Answered \/ CallFails
  \/ CoordinatorNext

Spec == Init /\ [][Next]_vars

(* The goroutines of both sides keep running; calls need not fail. *)
FairSpec ==
  Spec /\ WF_vars(ReportBreadcrumbs) /\ WF_vars(Answered \/ CallFails) /\ WF_vars(CoordinatorNext)

-----------------------------------------------------------------------------
(***************************************************************************)
(* Properties.                                                             *)
(***************************************************************************)

(* "Breadcrumbs are received as IDs; unravel into addr strings": what
   processBreadcrumbRequest hands to AddBreadcrumb is what an agent put into
   a request; no number is unravelled into the address of another one. *)
DecodedAsAdded == decoded \subseteq added

(* In the first session of an agent no number is mistaken, although requests
   are dropped by a full queue that answers "ok": a number the coordinator
   missed is refused, never guessed. *)
FirstSessionDecodedAsAdded == session = 1 => DecodedAsAdded

(* A request is refused only after a request was dropped: failed calls, late
   requests of an earlier session and new sessions alone never leave the
   coordinator without the address of a number. *)
RefusedOnlyAfterDrop == drops = 0 => \A n \in 1 .. MaxCalls : answers[n] # "error"

(* Whatever becomes of a request, ReportBreadcrumbs gets past it: every path
   of the coordinator answers the call. *)
CallsAnswered == pc = "waiting" ~> pc = "collect"

(* A breadcrumb that is on the channel reaches the coordinator with its own
   address, unless a request was dropped or a call failed. *)
AddedIsDecoded ==
  \A c \in Crumbs : c \in added ~> (c \in decoded \/ drops + fails > 0)
=============================================================================
