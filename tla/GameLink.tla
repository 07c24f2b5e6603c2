------------------------------ MODULE GameLink ------------------------------
(***************************************************************************)
(* Game datagrams over one mesh link (game-bridge, framing.rs and the two  *)
(* pumps of relay.rs): the sender cuts a datagram into chunks and tags     *)
(* each with the channel of its port; the receiver puts the chunks of a    *)
(* channel together again until a final one.                               *)
(*                                                                         *)
(* A chunk carries no number.  The mesh may lose it, and the router drops  *)
(* it when the relay's channel is full, so the next datagram's chunks are  *)
(* appended to what was left.  A peer of generation 1 does not know        *)
(* channels: it puts every chunk into one buffer.                          *)
(*                                                                         *)
(* A datagram is a number; the part of it a chunk carries is its place     *)
(* among the chunks.  External: the mesh, which keeps the order of a link. *)
(***************************************************************************)
EXTENDS Naturals, Sequences, SequencesExt, FiniteSetsExt

CONSTANTS
  Channel,  \* the ports of the game, the game's own port being channel 0
  MaxChunk, \* bound: chunks of one datagram
  MaxSent,  \* bound: datagrams sent
  Room      \* chunks the receiving relay's channel holds

ASSUME GameLinkAssumption ==
  /\ Channel \subseteq Nat /\ 0 \in Channel
  /\ MaxChunk \in Nat \ {0} /\ MaxSent \in Nat /\ Room \in Nat \ {0}

VARIABLES
  knows,     \* whether the peer, the receiver, understands channels (FRAMING_V2)
  heard,     \* whether the sender has heard an announce that says so
  sent,      \* the datagrams sent, in order: their channel and length in chunks
  wire,      \* chunks on the link
  inbox,     \* chunks in the receiving relay's channel
  buffers,   \* the reassembler: what it holds for each channel
  delivered, \* datagrams handed to the game, by channel
  missing    \* chunks lost or dropped so far

gameLinkVars == <<knows, heard, sent, wire, inbox, buffers, delivered, missing>>

Part == [of : 1 .. MaxSent, nth : 1 .. MaxChunk]
Chunk == [ch : Channel, final : BOOLEAN, body : Part]

GameLinkTypeOK ==
  /\ knows \in BOOLEAN /\ heard \in BOOLEAN
  /\ sent \in Seq([ch : Channel, len : 1 .. MaxChunk])
  /\ wire \in Seq(Chunk) /\ inbox \in Seq(Chunk)
  /\ buffers \in [Channel -> Seq(Part)]
  /\ delivered \in Seq([ch : Channel, data : Seq(Part)])
  /\ missing \in Nat

GameLinkInit ==
  /\ knows \in BOOLEAN /\ heard = FALSE
  /\ sent = <<>> /\ wire = <<>> /\ inbox = <<>> /\ delivered = <<>>
  /\ buffers = [c \in Channel |-> <<>>]
  /\ missing = 0

\* frame_on_channel: the k-th datagram's chunks, the last one final.
Frame(k, c, n) ==
  [j \in 1 .. n |-> [ch |-> c, final |-> j = n, body |-> [of |-> k, nth |-> j]]]

\* What datagram k holds, as the game sent it.
Whole(k) == [j \in 1 .. sent[k].len |-> [of |-> k, nth |-> j]]

\* The peer's announce is heard.
Hears ==
  /\ heard' = knows
  /\ UNCHANGED <<knows, sent, wire, inbox, buffers, delivered, missing>>

\* may_use_channel: an unheard peer is one of generation 1.
MayUse(c) == c = 0 \/ heard

\* The forwarder of channel c reads a datagram.  All of its chunks are issued
\* before any other task runs.
Sends(c, n) ==
  /\ MayUse(c) /\ Len(sent) < MaxSent
  /\ sent' = Append(sent, [ch |-> c, len |-> n])
  /\ wire' = wire \o Frame(Len(sent'), c, n)
  /\ UNCHANGED <<knows, heard, inbox, buffers, delivered, missing>>

Lost(rest) ==
  /\ wire' = rest /\ missing' = missing + 1
  /\ UNCHANGED <<knows, heard, sent, inbox, buffers, delivered>>

\* The mesh loses a chunk.
Loses(i) == i \in DOMAIN wire /\ Lost(RemoveAt(wire, i))

\* The router: try_send, and a chunk that finds no room is dropped.
Arrives ==
  /\ wire # <<>> /\ Len(inbox) < Room
  /\ inbox' = Append(inbox, Head(wire)) /\ wire' = Tail(wire)
  /\ UNCHANGED <<knows, heard, sent, buffers, delivered, missing>>

NoRoom == wire # <<>> /\ Len(inbox) = Room /\ Lost(Tail(wire))

\* Reassembler::push of generation 1 masks the final bit and ignores the rest;
\* ChannelReassembler::push keeps a buffer for each channel.
BufferOf(chunk) == IF knows THEN chunk.ch ELSE 0

\* Mutant of Push: the buffer is not emptied when a datagram is complete.
PushKeeping ==
  /\ inbox # <<>>
  /\ LET chunk == Head(inbox)
         c == BufferOf(chunk)
         data == Append(buffers[c], chunk.body) IN
     /\ buffers' = [buffers EXCEPT ![c] = data]
     /\ delivered' = IF chunk.final THEN Append(delivered, [ch |-> c, data |-> data]) ELSE delivered
  /\ inbox' = Tail(inbox)
  /\ UNCHANGED <<knows, heard, sent, wire, missing>>

Push ==
  /\ inbox # <<>>
  /\ LET chunk == Head(inbox)
         c == BufferOf(chunk)
         data == Append(buffers[c], chunk.body) IN
     IF chunk.final
     THEN /\ buffers' = [buffers EXCEPT ![c] = <<>>]
          /\ delivered' = Append(delivered, [ch |-> c, data |-> data])
     ELSE buffers' = [buffers EXCEPT ![c] = data] /\ UNCHANGED delivered
  /\ inbox' = Tail(inbox)
  /\ UNCHANGED <<knows, heard, sent, wire, missing>>

GameLinkNext ==
  \/ Hears \/ Arrives \/ NoRoom \/ Push
  \/ \E c \in Channel, n \in 1 .. MaxChunk : Sends(c, n)
  \/ \E i \in 1 .. Len(wire) : Loses(i)

GameLinkSpec == GameLinkInit /\ [][GameLinkNext]_gameLinkVars

(***************************************************************************)
(* Properties.                                                             *)
(***************************************************************************)

\* What datagram k is to its receiver.
Datagram(k) == [ch |-> sent[k].ch, data |-> Whole(k)]

\* While nothing is lost the games get exactly what was sent, whole, in order and
\* each on its own port, from a peer of either generation.
NothingBraids ==
  missing = 0 => \A j \in DOMAIN delivered : j \in DOMAIN sent /\ delivered[j] = Datagram(j)

\* A lost chunk harms at most one datagram the game is given: reassembly finds
\* its feet at the next final chunk, and never mixes two ports.
DamageBounded ==
  LET wrong == {j \in DOMAIN delivered : \A k \in DOMAIN sent : delivered[j] # Datagram(k)} IN
  /\ Cardinality(wrong) <= missing
  /\ \A d \in ToSet(delivered) : \A p \in ToSet(d.data) : sent[p.of].ch = d.ch

\* What reassembly promises the games, of a link that loses nothing and of one
\* that does.
Reassembles == NothingBraids /\ DamageBounded

=============================================================================
