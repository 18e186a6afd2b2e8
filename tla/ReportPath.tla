------------------------------ MODULE ReportPath ------------------------------
(***************************************************************************)
(* The way of trace data from the agents to the collector's file: the      *)
(* reporting goroutine (agent/pkg/agent/reporting.go), the connections,    *)
(* and the collector (collector/collector.go and fileio.go).               *)
(*                                                                         *)
(* Bytes are cells, that is, numbers; the four bytes of a length are one   *)
(* cell.  An agent is known by the cell that is its address, and the data  *)
(* of a buffer are two cells: its trace, which the header has, and a       *)
(* number that no other data of the agent have.                            *)
(***************************************************************************)
EXTENDS Integers, Sequences, SequencesExt

CONSTANTS Agents,      \* agents that report to the collector
          Pool,        \* agent -> ids of its buffers
          DataCap,     \* capacity of the channel reporting.data
          IncomingCap, \* capacity of the channel incoming of the collector
          HeaderSize,  \* size of the header of a buffer
          MaxFailures  \* bound: connections that break and file writes that fail

ASSUME ReportPathAssumption ==
  /\ Agents \subseteq Nat \ {0}
  /\ {DataCap, IncomingCap, HeaderSize} \subseteq Nat \ {0}
  /\ MaxFailures \in Nat

VARIABLES
  memory,   \* agent -> buffer -> its data
  data,     \* agent -> reporting.data: batches to report
  batch,    \* agent -> the batch that reportData works on
  reported, \* agent -> the data of all buffers it has taken to report
  unsent,   \* agent -> the buffers of it that are not written yet
  dialled,  \* agent -> number of connections it has made
  attached, \* agents that write to the latest connection they made
  open,     \* connections <<agent, number>> that have not broken
  wire,     \* connection -> cells on the way
  source,   \* connection -> the address its handler was told, if any
  incoming, \* incoming of the collector: addresses and data
  file,     \* cells of the trace file
  torn,     \* lengths the file had when a write to it failed
  cuts      \* number of connections that have broken

collectorVars == <<source, incoming, file, torn>>
pathVars == <<memory, data, batch, reported, unsent, dialled, attached, open, wire, collectorVars, cuts>>

Connections == Agents \X (1 .. MaxFailures + 1)
Unknown == 0
Ended == -1

PathInit ==
  /\ memory = [a \in Agents |-> [b \in Pool[a] |-> <<>>]]
  /\ data = [a \in Agents |-> <<>>]
  /\ batch = [a \in Agents |-> <<>>] /\ reported = [a \in Agents |-> <<>>]
  /\ unsent = [a \in Agents |-> <<>>]
  /\ dialled = [a \in Agents |-> 0] /\ attached = {} /\ open = {}
  /\ wire = [c \in Connections |-> <<>>] /\ source = [c \in Connections |-> Unknown]
  /\ incoming = <<>> /\ file = <<>> /\ torn = <<>> /\ cuts = 0

-----------------------------------------------------------------------------
(***************************************************************************)
(* Length-prefixed encoding, on connections and in the file.               *)
(***************************************************************************)

(* writeLengthPrefixed, writeFileLengthPrefixed *)
Frame(x) == <<Len(x)>> \o x

(* readLengthPrefixed, readFileLengthPrefixed: whether a frame is complete, what
   is in it, and what comes after it. *)
HasFrame(cells) == cells # <<>> /\ Len(cells) > Head(cells)
FirstFrame(cells) == SubSeq(cells, 2, Head(cells) + 1)
AfterFrame(cells) == SubSeq(cells, Head(cells) + 2, Len(cells))

(* WriteToFile *)
Record(r) == Frame(<<r.source>>) \o Frame(r.buffer)

(* ReadFromFile, until it fails: the records of the file, and what is left. *)
RECURSIVE ReadFromFile(_)
ReadFromFile(cells) ==
  IF HasFrame(cells) /\ HasFrame(AfterFrame(cells))
  THEN LET rest == ReadFromFile(AfterFrame(AfterFrame(cells)))
       IN [rest EXCEPT !.records = <<[source |-> FirstFrame(cells)[1],
                                      buffer |-> FirstFrame(AfterFrame(cells))]>> \o @]
  ELSE [records |-> <<>>, left |-> cells]

-----------------------------------------------------------------------------
(***************************************************************************)
(* The reporting goroutine of agent a.                                     *)
(***************************************************************************)
Conn(a) == <<a, dialled[a]>>

(* Run dials, ReportData begins with the handshake. *)
Dial(a) ==
  /\ a \notin attached /\ batch[a] = <<>>
  /\ dialled' = [dialled EXCEPT ![a] = @ + 1]
  /\ attached' = attached \cup {a}
  /\ open' = open \cup {<<a, dialled[a] + 1>>}
  /\ wire' = [wire EXCEPT ![<<a, dialled[a] + 1>>] = Frame(<<a>>)]
  /\ UNCHANGED <<memory, data, batch, reported, unsent, collectorVars, cuts>>

(* The connection breaks before the handshake is written: ReportData returns before
   it takes any data. *)
HandshakeFails(a) ==
  /\ a \notin attached /\ batch[a] = <<>> /\ cuts + Len(torn) < MaxFailures
  /\ dialled' = [dialled EXCEPT ![a] = @ + 1]
  /\ cuts' = cuts + 1
  /\ \E n \in 0 .. 1 : wire' = [wire EXCEPT ![<<a, dialled[a] + 1>>] = SubSeq(Frame(<<a>>), 1, n)]
  /\ UNCHANGED <<memory, data, batch, reported, unsent, attached, open, collectorVars>>

DataOf(a, ids) == [i \in DOMAIN ids |-> memory[a][ids[i]]]

TakeBatch(a) ==
  /\ a \in attached /\ batch[a] = <<>> /\ data[a] # <<>>
  /\ batch' = [batch EXCEPT ![a] = Head(data[a])]
  /\ unsent' = [unsent EXCEPT ![a] = Head(data[a])]
  /\ reported' = [reported EXCEPT ![a] = @ \o DataOf(a, Head(data[a]))]
  /\ data' = [data EXCEPT ![a] = Tail(@)]
  /\ UNCHANGED <<memory, dialled, attached, open, wire, collectorVars, cuts>>

(* The data of the next buffer are written.  If the connection has broken they are
   lost, even if the write succeeds. *)
WriteBuffer(a) ==
  /\ unsent[a] # <<>>
  /\ wire' = IF Conn(a) \in open
             THEN [wire EXCEPT ![Conn(a)] = @ \o Frame(memory[a][Head(unsent[a])])]
             ELSE wire
  /\ unsent' = [unsent EXCEPT ![a] = Tail(@)]
  /\ UNCHANGED <<memory, data, batch, reported, dialled, attached, open, collectorVars, cuts>>

WriteFailsForgets(a) ==
  /\ unsent[a] # <<>> /\ Conn(a) \notin open
  /\ unsent' = [unsent EXCEPT ![a] = <<>>] /\ batch' = [batch EXCEPT ![a] = <<>>]
  /\ attached' = attached \ {a}
  /\ UNCHANGED <<memory, data, reported, dialled, open, wire, collectorVars, cuts>>

(* or the write fails: the rest of the batch is not written, and ReportData returns
   once the batch has been given back. *)
WriteFails(a) ==
  /\ unsent[a] # <<>> /\ Conn(a) \notin open
  /\ unsent' = [unsent EXCEPT ![a] = <<>>]
  /\ attached' = attached \ {a}
  /\ UNCHANGED <<memory, data, batch, reported, dialled, open, wire, collectorVars, cuts>>

(* A connection breaks, and any end of what is on the way is lost. *)
Break(c) ==
  /\ c \in open /\ cuts + Len(torn) < MaxFailures
  /\ open' = open \ {c} /\ cuts' = cuts + 1
  /\ \E n \in 0 .. Len(wire[c]) : wire' = [wire EXCEPT ![c] = SubSeq(@, 1, n)]
  /\ UNCHANGED <<memory, data, batch, reported, unsent, dialled, attached, collectorVars>>

-----------------------------------------------------------------------------
(***************************************************************************)
(* The collector: a goroutine per connection, and one that writes the      *)
(* file.                                                                   *)
(***************************************************************************)

Handshake(c) ==
  /\ source[c] = Unknown /\ HasFrame(wire[c])
  /\ source' = [source EXCEPT ![c] = FirstFrame(wire[c])[1]]
  /\ wire' = [wire EXCEPT ![c] = AfterFrame(@)]
  /\ UNCHANGED <<memory, data, batch, reported, unsent, dialled, attached, open, incoming, file, torn, cuts>>

ReceiveHeaderTwice(c) ==
  /\ source[c] \in Agents /\ HasFrame(wire[c])
  /\ IF Len(FirstFrame(wire[c])) - HeaderSize > HeaderSize
     THEN /\ Len(incoming) < IncomingCap
          /\ incoming' = Append(incoming, [source |-> source[c],
                                           buffer |-> FirstFrame(wire[c])])
     ELSE UNCHANGED incoming
  /\ wire' = [wire EXCEPT ![c] = AfterFrame(@)]
  /\ UNCHANGED <<memory, data, batch, reported, unsent, dialled, attached, open, source, file, torn, cuts>>

(* handleConnection reads a frame and puts it on the channel, waiting for room; a
   frame that is too short for a header is passed over. *)
Receive(c) ==
  /\ source[c] \in Agents /\ HasFrame(wire[c])
  /\ IF Len(FirstFrame(wire[c])) >= HeaderSize
     THEN /\ Len(incoming) < IncomingCap
          /\ incoming' = Append(incoming, [source |-> source[c],
                                           buffer |-> FirstFrame(wire[c])])
     ELSE UNCHANGED incoming
  /\ wire' = [wire EXCEPT ![c] = AfterFrame(@)]
  /\ UNCHANGED <<memory, data, batch, reported, unsent, dialled, attached, open, source, file, torn, cuts>>

HandlerEndsWithPart(c) ==
  /\ c[2] <= dialled[c[1]] /\ c \notin open
  /\ source[c] # Ended /\ ~HasFrame(wire[c])
  /\ incoming' = IF source[c] \in Agents /\ Len(wire[c]) > HeaderSize
                 THEN Append(incoming, [source |-> source[c], buffer |-> Tail(wire[c])])
                 ELSE incoming
  /\ source' = [source EXCEPT ![c] = Ended]
  /\ wire' = [wire EXCEPT ![c] = <<>>]
  /\ UNCHANGED <<memory, data, batch, reported, unsent, dialled, attached, open, file, torn, cuts>>

(* The connection has ended, within a frame or between two: the handler returns and
   what it has read of the frame is dropped. *)
HandlerEnds(c) ==
  /\ c[2] <= dialled[c[1]] /\ c \notin open
  /\ source[c] # Ended /\ ~HasFrame(wire[c])
  /\ source' = [source EXCEPT ![c] = Ended]
  /\ wire' = [wire EXCEPT ![c] = <<>>]
  /\ UNCHANGED <<memory, data, batch, reported, unsent, dialled, attached, open, incoming, file, torn, cuts>>

(* fileWriter takes a buffer from the channel and writes its record. *)
FileWriter ==
  /\ incoming # <<>>
  /\ file' = file \o Record(Head(incoming))
  /\ incoming' = Tail(incoming)
  /\ UNCHANGED <<memory, data, batch, reported, unsent, dialled, attached, open, wire, source,
                 torn, cuts>>

(* or the write fails, with any part of the record in the file: the error is printed
   and the loop goes on with the next buffer, behind that part. *)
FileWriteFails ==
  /\ incoming # <<>> /\ cuts + Len(torn) < MaxFailures
  /\ \E n \in 0 .. Len(Record(Head(incoming))) - 1 :
       file' = file \o SubSeq(Record(Head(incoming)), 1, n)
  /\ torn' = Append(torn, Len(file))
  /\ incoming' = Tail(incoming)
  /\ UNCHANGED <<memory, data, batch, reported, unsent, dialled, attached, open, wire, source,
                 cuts>>
=============================================================================
