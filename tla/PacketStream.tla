----------------------------- MODULE PacketStream -----------------------------
(***************************************************************************)
(* Packets on a byte stream: MsgPacket::write and MsgPacket::read.         *)
(*                                                                         *)
(* Several threads may write to one socket without a common lock (the      *)
(* handler thread its response, the threads of QueueNotification their     *)
(* packets), a write may time out after a part of the packet was sent, and *)
(* the same packet is then written again.  One thread reads, and drops     *)
(* what it has of a packet when the rest does not come in time.            *)
(*                                                                         *)
(* A unit is half of a word: the sync word has WordLen units, the header   *)
(* HeaderLen (a whole number of words, as in the code), the payload any    *)
(* number.  The search for the sync word goes on word by word.  Checksums  *)
(* are taken to be perfect.                                                *)
(***************************************************************************)
EXTENDS Integers, Sequences, FiniteSets, SequencesExt

CONSTANTS
  Writers,    \* threads that write to the socket
  Ids,        \* packets
  Length,     \* [Ids -> Nat]: units of payload of a packet
  Checked,    \* packets with a payload checksum, see disablePayloadCheckSum
  Lookalike,  \* packets whose payload looks like sync words
  Capacity,   \* bound: units the kernel buffers
  MaxWrites   \* bound: calls of write()

WordLen == 2
HeaderLen == 2 * WordLen

ASSUME StreamAssumption ==
  /\ Checked \subseteq Ids
  /\ Lookalike \subseteq Ids
  /\ Length \in [Ids -> Nat]
  /\ Capacity \in Nat /\ Capacity > WordLen
  /\ MaxWrites \in Nat

SyncWord == [k \in 1 .. WordLen |-> <<"sync", k>>]

Payload(id) ==
  [k \in 1 .. Length[id] |->
     IF id \in Lookalike THEN <<"sync", 1 + ((k - 1) % WordLen)>>
                         ELSE <<"data", id, k>>]

Header(id) ==
  SyncWord \o [k \in 1 .. HeaderLen - WordLen |-> <<"head", id, k>>]

\* m_packet after freeze()
Image(id) == Header(id) \o Payload(id)

VARIABLES
  wire,       \* sent and not yet received
  peerOpen,   \* the writers' end of the connection
  sending,    \* what each thread still has to send of its packet
  state,      \* where read() is: "idle" between two calls
  got,        \* what the current socketread() has put into its buffer
  packet,     \* the packet whose valid header read() has
  closed,     \* read() has reported the end of the connection
  \* history
  begun,      \* the packets write() was called for, in this order
  received,   \* what read() returned: packet and payload
  torn        \* a packet did not get through in one piece

readVars == <<state, got, packet, closed, received>>
vars == <<wire, peerOpen, sending, begun, torn, readVars>>

Occurrences(s, x) == Cardinality({i \in DOMAIN s : s[i] = x})

-------------------------------------------------------------------------------
(***************************************************************************)
(* write()                                                                 *)
(***************************************************************************)
write(w, id) ==
  /\ peerOpen
  /\ sending[w] = <<>>
  /\ Len(begun) < MaxWrites
  /\ sending' = [sending EXCEPT ![w] = Image(id)]
  /\ begun' = Append(begun, id)
  /\ torn' = (torn \/ \E v \in Writers : sending[v] # <<>>)
  /\ UNCHANGED <<wire, peerOpen, readVars>>

\* mutant: every piece is taken from the start of the packet
MutSend(w) ==
  /\ sending[w] # <<>>
  /\ \E n \in 1 .. Len(sending[w]) :
       /\ Len(wire) + n <= Capacity
       /\ wire' = wire \o SubSeq(sending[w], 1, n)
       /\ sending' = [sending EXCEPT ![w] = SubSeq(@, 1, Len(@) - n)]
  /\ UNCHANGED <<peerOpen, begun, torn, readVars>>

\* send() takes as much as the kernel has room for, at least one unit
Send(w) ==
  /\ sending[w] # <<>>
  /\ \E n \in 1 .. Len(sending[w]) :
       /\ Len(wire) + n <= Capacity
       /\ wire' = wire \o SubSeq(sending[w], 1, n)
       /\ sending' = [sending EXCEPT ![w] = SubSeq(@, n + 1, Len(@))]
  /\ UNCHANGED <<peerOpen, begun, torn, readVars>>

\* pollfd() times out; what was sent so far stays in the stream
WriteTimesOut(w) ==
  /\ sending[w] # <<>>
  /\ Len(wire) = Capacity
  /\ sending' = [sending EXCEPT ![w] = <<>>]
  /\ torn' = TRUE
  /\ UNCHANGED <<wire, peerOpen, begun, readVars>>

\* the peer closes the connection or dies
PeerCloses ==
  /\ peerOpen
  /\ peerOpen' = FALSE
  /\ sending' = [w \in Writers |-> <<>>]
  /\ UNCHANGED <<wire, begun, torn, readVars>>

-------------------------------------------------------------------------------
(***************************************************************************)
(* read(), one socketread() after the other                                *)
(***************************************************************************)

\* read() returns false, what it had in its buffer is lost
Fail ==
  /\ state' = "idle"
  /\ got' = <<>>
  /\ packet' = {}

\* read() returns true
Deliver(id, data) ==
  /\ received' = Append(received, [id |-> id, data |-> data])
  /\ state' = "idle"
  /\ got' = <<>>
  /\ packet' = {}

\* p->clear(), once pollfd() has seen data or the end of the stream
read ==
  /\ state = "idle"
  /\ ~closed
  /\ wire # <<>> \/ ~peerOpen
  /\ state' = "sync"
  /\ UNCHANGED <<wire, peerOpen, sending, begun, torn, got, packet, closed,
                 received>>

Wanted ==
  CASE state = "sync" -> WordLen
    [] state = "header" -> HeaderLen - WordLen
    [] state = "payload" -> Length[CHOOSE id \in packet : TRUE]

\* recv() takes what is there, up to the number of units wanted
Chunk == SubSeq(wire, 1, Min({Len(wire), Wanted - Len(got)}))

Arrived == got \o Chunk

\* socketread() has not all it wants and goes on
Receive ==
  /\ state # "idle"
  /\ wire # <<>>
  /\ Len(Arrived) < Wanted
  /\ got' = Arrived
  /\ UNCHANGED <<state, packet, received>>

\* try to find sync
FindSync ==
  /\ state = "sync"
  /\ Len(Arrived) = Wanted
  /\ got' = <<>>
  /\ state' = IF Arrived = SyncWord THEN "header" ELSE "sync"
  /\ UNCHANGED <<packet, received>>

\* mutant: a wrong header checksum is only reported
MutReadHeader ==
  /\ state = "header"
  /\ Len(Arrived) = Wanted
  /\ LET id == IF Arrived[1][1] = "head" THEN Arrived[1][2]
               ELSE CHOOSE i \in Ids : TRUE IN
     IF Length[id] = 0
     THEN Deliver(id, <<>>)
     ELSE /\ state' = "payload"
          /\ packet' = {id}
          /\ got' = <<>>
          /\ UNCHANGED received

\* header validation: the checksum is right for the header of a packet only
ReadHeader ==
  /\ state = "header"
  /\ Len(Arrived) = Wanted
  /\ LET valid == {id \in Ids : Header(id) = SyncWord \o Arrived} IN
     \/ valid = {} /\ Fail /\ UNCHANGED received
     \/ \E id \in valid : Length[id] = 0 /\ Deliver(id, <<>>)
     \/ \E id \in valid :
          /\ Length[id] > 0
          /\ state' = "payload"
          /\ packet' = {id}
          /\ got' = <<>>
          /\ UNCHANGED received

\* payload checksum validation, for a packet that has such a checksum
ReadPayload ==
  /\ state = "payload"
  /\ Len(Arrived) = Wanted
  /\ \E id \in packet :
       IF id \in Checked /\ Arrived # Payload(id)
       THEN Fail /\ UNCHANGED received
       ELSE Deliver(id, Arrived)

\* one recv() and what read() makes of it
Recv ==
  /\ Receive \/ FindSync \/ ReadHeader \/ ReadPayload
  /\ wire' = SubSeq(wire, Len(Chunk) + 1, Len(wire))
  /\ UNCHANGED <<peerOpen, sending, begun, torn, closed>>

\* mutant: the end of the stream looks like a time-out
MutEndOfStream ==
  /\ state # "idle"
  /\ wire = <<>>
  /\ ~peerOpen
  /\ Fail
  /\ UNCHANGED <<wire, peerOpen, sending, begun, torn, closed, received>>

(***************************************************************************)
(* recv() returns 0.  Only the search for the sync word tells its caller   *)
(* that the connection was closed; the other reads just fail.              *)
(***************************************************************************)
EndOfStream ==
  /\ state # "idle"
  /\ wire = <<>>
  /\ ~peerOpen
  /\ closed' = (state = "sync")
  /\ Fail
  /\ UNCHANGED <<wire, peerOpen, sending, begun, torn, received>>

\* pollfd() times out: the part of a packet that was read is gone
ReadTimesOut ==
  /\ state # "idle"
  /\ wire = <<>>
  /\ peerOpen
  /\ torn' = (torn \/ state # "sync" \/ got # <<>>)
  /\ Fail
  /\ UNCHANGED <<wire, peerOpen, sending, begun, closed, received>>

Reader == read \/ Recv \/ EndOfStream \/ ReadTimesOut

-------------------------------------------------------------------------------
Init ==
  /\ wire = <<>>
  /\ peerOpen = TRUE
  /\ sending = [w \in Writers |-> <<>>]
  /\ state = "idle"
  /\ got = <<>>
  /\ packet = {}
  /\ closed = FALSE
  /\ begun = <<>>
  /\ received = <<>>
  /\ torn = FALSE

Next ==
  \/ \E w \in Writers :
       (\E id \in Ids : write(w, id)) \/ Send(w) \/ WriteTimesOut(w)
  \/ PeerCloses
  \/ Reader

(***************************************************************************)
(* The reading thread calls read() again and again until it is told that   *)
(* the connection was closed; its waits end by a time-out.                 *)
(***************************************************************************)
Spec == Init /\ [][Next]_vars /\ WF_vars(Reader)

-------------------------------------------------------------------------------
ReceivedIds == [i \in 1 .. Len(received) |-> received[i].id]

Drained == state = "idle" /\ wire = <<>> /\ \A w \in Writers : sending[w] = <<>>

(***************************************************************************)
(* As long as writes do not overlap, complete, and their packets arrive    *)
(* without a pause in the middle, every packet arrives as it was sent and  *)
(* in the order of the calls of write(); when all is read, none is missing *)
(* unless the peer died while sending it.                                  *)
(***************************************************************************)
IntactInOrder ==
  ~torn =>
    /\ IsPrefix(ReceivedIds, begun)
    /\ \A r \in Range(received) : r.data = Payload(r.id)
    /\ Drained /\ peerOpen => ReceivedIds = begun

(***************************************************************************)
(* Pieces of packets never add up to a packet nobody sent: whatever was    *)
(* cut, mixed or repeated in the stream, read() returns a packet at most   *)
(* as often as write() was called for it, and with a wrong payload only if *)
(* it was torn and carries no payload checksum.                            *)
(***************************************************************************)
OnlySentPackets ==
  /\ \A id \in Ids : Occurrences(ReceivedIds, id) <= Occurrences(begun, id)
  /\ \A r \in Range(received) :
       r.data # Payload(r.id) => torn /\ r.id \notin Checked

(***************************************************************************)
(* read() reports the end of the connection to the thread that calls it    *)
(* again and again, also when the end comes in the middle of a packet.     *)
(***************************************************************************)
CloseReported == ~peerOpen ~> closed

===============================================================================
