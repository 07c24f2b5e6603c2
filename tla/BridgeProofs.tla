----------------------------- MODULE BridgeProofs -----------------------------
(***************************************************************************)
(* What holds of the two sides of a mesh bridge, for any links and sources *)
(* in their channels, and of the game datagrams on a link between them.    *)
(* Of the server: a game is connected behind an allowlist only for a link  *)
(* that identified and is on the list, a link that closed leaves nothing   *)
(* behind, and a link that is held has its timeout still to come.  Of the  *)
(* client: its map of sources names only tasks that are not over.  Of the  *)
(* datagrams: while nothing is lost the games get exactly what was sent,   *)
(* and a lost chunk harms at most one.                                     *)
(*                                                                         *)
(* Server: what is known of a peer, whether it is allowed and what it has  *)
(* said, is never taken back; an identity in the funnel was said; and the  *)
(* router starts a relay behind an allowlist on nothing else.              *)
(***************************************************************************)
EXTENDS BridgeServer, BridgeClient, GameLink, SequenceTheorems, FiniteSetTheorems, TLAPS

(***************************************************************************)
(* The server.                                                             *)
(***************************************************************************)
Peer == [link : {"none", "up", "closing", "closed"}, allowed : BOOLEAN, said : SUBSET {"hello", "identify"},
         timer : {"off", "armed", "fired"}, sent : 0 .. MaxData]

\* The part of the types the argument rests on.
RouterTypes ==
  /\ setup \in [allowlist : BOOLEAN, tcp : BOOLEAN]
  /\ peer \in [Link -> Peer]
  /\ events \in Seq([kind : Kind, link : Link])
  /\ relay \in [Link -> {"none", "open", "failed", "run", "ended", "gone"}]

\* An identity in the funnel is one the peer proved.
FunnelTrue ==
  \A j \in 1 .. Len(events) :
    events[j].kind = "identified" => "identify" \in peer[events[j].link].said

RouterInv == RouterTypes /\ FunnelTrue /\ AllowlistHolds

\* What a step never takes back of a peer.
Keeps == \A l \in Link : peer'[l].allowed = peer[l].allowed /\ peer[l].said \subseteq peer'[l].said

LEMMA RouterInitInv == BridgeInit => RouterInv
<1> SUFFICES ASSUME BridgeInit PROVE RouterInv
  OBVIOUS
<1>1. peer \in [Link -> Peer]
  BY BridgeServerAssumption DEF BridgeInit, Peer
<1>2. RouterTypes
  BY <1>1 DEF BridgeInit, RouterTypes
<1> QED
  BY <1>2 DEF BridgeInit, RouterInv, FunnelTrue, AllowlistHolds

\* Closing links takes back nothing.
LEMMA CloseKeeps ==
  ASSUME RouterTypes, NEW S, CloseLinks(S)
  PROVE  peer' \in [Link -> Peer] /\ Keeps
<1> SUFFICES ASSUME NEW l \in Link
             PROVE /\ peer'[l] \in Peer /\ peer'[l].allowed = peer[l].allowed
                   /\ peer'[l].said = peer[l].said
  BY DEF CloseLinks, Keeps
<1>1. peer[l] \in Peer
  BY DEF RouterTypes
<1>2. \/ peer'[l] = peer[l]
      \/ peer'[l] = [peer[l] EXCEPT !.link = "closing"]
  BY DEF CloseLinks
<1> QED
  BY <1>1, <1>2 DEF Peer

\* A step in which a peer says more, and the funnel gains what it said.
LEMMA Reported ==
  ASSUME RouterInv, NEW k \in Kind, NEW l \in Link, Reports(Event(k, l)), Keeps,
         peer' \in [Link -> Peer], UNCHANGED <<setup, relay>>,
         k = "identified" => "identify" \in peer'[l].said
  PROVE  RouterInv'
<1> DEFINE e == Event(k, l)
<1>1. e \in [kind : Kind, link : Link] /\ e.kind = k /\ e.link = l
  BY DEF Event
<1>2. events \in Seq([kind : Kind, link : Link]) /\ events' = Append(events, e)
  BY DEF RouterInv, RouterTypes, Reports
<1> HIDE DEF e
<1>3. events' \in Seq([kind : Kind, link : Link])
  BY <1>1, <1>2
<1>4. RouterTypes'
  BY <1>3 DEF RouterInv, RouterTypes
<1>5. FunnelTrue'
  <2> SUFFICES ASSUME NEW j \in 1 .. Len(events'), events'[j].kind = "identified"
               PROVE  "identify" \in peer'[events'[j].link].said
    BY DEF FunnelTrue
  <2>1. CASE j = Len(events) + 1
    BY <1>1, <1>2, <2>1
  <2>2. CASE j \in 1 .. Len(events)
    <3>1. events'[j] = events[j]
      BY <1>1, <1>2, <2>2
    <3>2. events[j] \in [kind : Kind, link : Link]
      BY <1>2, <2>2, ElementOfSeq
    <3>3. events[j].link \in Link
      BY <3>2
    <3>4. events[j].kind = "identified"
      BY <3>1
    <3>5. "identify" \in peer[events[j].link].said
      BY <2>2, <3>4 DEF RouterInv, FunnelTrue
    <3> QED
      BY <3>1, <3>3, <3>5 DEF Keeps
  <2>3. Len(events') = Len(events) + 1 /\ Len(events) \in Nat
    BY <1>2
  <2> QED
    BY <2>1, <2>2, <2>3
<1>6. AllowlistHolds'
  BY DEF RouterInv, AllowlistHolds, Keeps
<1> QED
  BY <1>4, <1>5, <1>6 DEF RouterInv

\* A step that takes the head of the funnel, or nothing, in which the peers keep
\* what they said and no relay starts that may not.
LEMMA Handled ==
  ASSUME RouterInv, Keeps, peer' \in [Link -> Peer], setup' = setup,
         relay' \in [Link -> {"none", "open", "failed", "run", "ended", "gone"}],
         \/ events' = events
         \/ events # <<>> /\ events' = Tail(events),
         \A l \in Link : relay'[l] # "none" /\ relay[l] = "none" /\ setup.allowlist
                           => peer[l].allowed /\ "identify" \in peer[l].said
  PROVE  RouterInv'
<1>1. events \in Seq([kind : Kind, link : Link])
  BY DEF RouterInv, RouterTypes
<1>2. /\ events' \in Seq([kind : Kind, link : Link])
      /\ \A j \in 1 .. Len(events') : \E i \in 1 .. Len(events) : events'[j] = events[i]
  <2>1. CASE events' = events
    BY <1>1, <2>1
  <2>2. CASE events # <<>> /\ events' = Tail(events)
    <3>1. /\ events' \in Seq([kind : Kind, link : Link])
          /\ Len(events') = Len(events) - 1 /\ Len(events) \in Nat
          /\ \A j \in 1 .. Len(events') : events'[j] = events[j + 1]
      BY <1>1, <2>2
    <3>2. \A j \in 1 .. Len(events') : j + 1 \in 1 .. Len(events)
      BY <3>1
    <3> QED
      BY <3>1, <3>2
  <2> QED
    BY <2>1, <2>2
<1>3. RouterTypes'
  BY <1>2 DEF RouterInv, RouterTypes
<1>4. FunnelTrue'
  <2> SUFFICES ASSUME NEW j \in 1 .. Len(events'), events'[j].kind = "identified"
               PROVE  "identify" \in peer'[events'[j].link].said
    BY DEF FunnelTrue
  <2>1. PICK i \in 1 .. Len(events) : events'[j] = events[i]
    BY <1>2
  <2>2. events[i] \in [kind : Kind, link : Link]
    BY <1>1, ElementOfSeq
  <2>3. events[i].link \in Link
    BY <2>2
  <2>4. events[i].kind = "identified"
    BY <2>1
  <2>5. FunnelTrue
    BY DEF RouterInv
  <2>6. "identify" \in peer[events[i].link].said
    BY <2>4, <2>5, Zenon DEF FunnelTrue
  <2> QED
    BY <2>1, <2>3, <2>6 DEF Keeps
<1>5. AllowlistHolds'
  BY DEF RouterInv, AllowlistHolds, Keeps
<1> QED
  BY <1>3, <1>4, <1>5 DEF RouterInv

\* The mesh and the peers.
LEMMA PeersKeepInv ==
  ASSUME RouterInv, NEW l \in Link,
         \/ Connects(l) \/ Identifies(l) \/ SaysHello(l) \/ SendsChunk(l) \/ Closes(l)
         \/ TimerFires(l)
  PROVE  RouterInv'
<1>1. peer \in [Link -> Peer] /\ MaxData \in Nat
  BY BridgeServerAssumption DEF RouterInv, RouterTypes
<1>2. UNCHANGED <<setup, relay>>
  BY DEF Connects, Identifies, SaysHello, SendsChunk, Closes, TimerFires, PeerOnly
<1>3. CASE Connects(l) \/ Closes(l)
  <2>1. peer' \in [Link -> Peer] /\ Keeps
    BY <1>1, <1>3 DEF Connects, Closes, Peer, Keeps
  <2> QED
    BY <1>2, <1>3, <2>1, Reported DEF Connects, Closes, Kind
<1>4. CASE Identifies(l)
  <2>1. peer' \in [Link -> Peer] /\ Keeps /\ "identify" \in peer'[l].said
    BY <1>1, <1>4 DEF Identifies, Peer, Keeps
  <2> QED
    BY <1>2, <1>4, <2>1, Reported DEF Identifies, Kind
<1>5. CASE SaysHello(l)
  <2>1. peer' \in [Link -> Peer] /\ Keeps
    BY <1>1, <1>5 DEF SaysHello, Peer, Keeps
  <2> QED
    BY <1>2, <1>5, <2>1, Reported DEF SaysHello, Kind
<1>6. CASE SendsChunk(l)
  <2>1. peer' \in [Link -> Peer] /\ Keeps
    BY <1>1, <1>6 DEF SendsChunk, Peer, Keeps
  <2> QED
    BY <1>2, <1>6, <2>1, Reported DEF SendsChunk, Kind
<1>7. CASE TimerFires(l)
  <2>1. peer' \in [Link -> Peer] /\ Keeps
    BY <1>1, <1>7 DEF TimerFires, Peer, Keeps
  <2> QED
    BY <1>2, <1>7, <2>1, Reported DEF TimerFires, Kind
<1> QED
  BY <1>3, <1>4, <1>5, <1>6, <1>7

\* The handlers that start a relay or may: each has the link's identity or a
\* server without an allowlist.
LEMMA StartersKeepInv ==
  ASSUME RouterInv, NEW l \in Link,
         OnEstablished(l) \/ OnIdentified(l) \/ OnTimeout(l)
  PROVE  RouterInv'
<1>1. /\ peer \in [Link -> Peer] /\ setup' = setup
      /\ relay \in [Link -> {"none", "open", "failed", "run", "ended", "gone"}]
      /\ events # <<>> /\ events' = Tail(events)
  BY DEF RouterInv, RouterTypes, OnEstablished, OnIdentified, OnTimeout, Handles
<1>2. /\ relay' \in [Link -> {"none", "open", "failed", "run", "ended", "gone"}]
      /\ \A k \in Link : relay'[k] = relay[k] \/ (k = l /\ StartGame(l))
  BY <1>1 DEF OnEstablished, OnIdentified, OnTimeout, StartGame, DropReceiver
<1>3. peer' \in [Link -> Peer] /\ Keeps
  <2>1. CASE peer' = peer
    BY <1>1, <2>1 DEF Keeps
  <2>2. CASE CloseLinks({l})
    BY <2>2, CloseKeeps DEF RouterInv
  <2>3. CASE peer' = [peer EXCEPT ![l].timer = "armed"]
    <3>1. [peer[l] EXCEPT !.timer = "armed"] \in Peer
      BY <1>1 DEF Peer
    <3>2. peer' \in [Link -> Peer]
      BY <1>1, <2>3, <3>1
    <3>3. /\ [peer[l] EXCEPT !.timer = "armed"].allowed = peer[l].allowed
          /\ [peer[l] EXCEPT !.timer = "armed"].said = peer[l].said
      BY <1>1 DEF Peer
    <3>4. \A k \in Link : peer'[k] = IF k = l THEN [peer[l] EXCEPT !.timer = "armed"] ELSE peer[k]
      BY <1>1, <2>3
    <3> QED
      BY <3>2, <3>3, <3>4 DEF Keeps
  <2> QED
    <3>1. CASE OnEstablished(l)
      BY <2>1, <2>3, <3>1 DEF OnEstablished
    <3>2. CASE OnIdentified(l)
      BY <2>1, <2>2, <3>2 DEF OnIdentified
    <3>3. CASE OnTimeout(l)
      BY <2>1, <2>2, <3>3 DEF OnTimeout
    <3> QED
      BY <3>1, <3>2, <3>3
<1>4. relay' # relay /\ setup.allowlist => peer[l].allowed /\ "identify" \in peer[l].said
  <2>1. CASE OnIdentified(l)
    <3>1. Head(events) = events[1] /\ 1 \in 1 .. Len(events)
      BY <1>1 DEF RouterInv, RouterTypes
    <3>2. events[1].kind = "identified" /\ events[1].link = l
      BY <2>1, <3>1 DEF OnIdentified, Handles, Event
    <3>3. "identify" \in peer[l].said
      BY <3>1, <3>2 DEF RouterInv, FunnelTrue
    <3> QED
      BY <2>1, <3>3 DEF OnIdentified, Allowed, DropReceiver
  <2>2. CASE OnEstablished(l) \/ OnTimeout(l)
    BY <2>2 DEF OnEstablished, OnTimeout, DropReceiver
  <2> QED
    BY <2>1, <2>2
<1>5. \A k \in Link : relay'[k] # "none" /\ relay[k] = "none" /\ setup.allowlist
                        => peer[k].allowed /\ "identify" \in peer[k].said
  BY <1>2, <1>4
<1> QED
  BY <1>1, <1>2, <1>3, <1>5, Handled

\* The rest: no relay starts.
LEMMA OthersKeepInv ==
  ASSUME RouterInv, NEW l \in Link,
         \/ OnIdentifiedChat(l) \/ OnTimeoutChat(l) \/ OnData(l) \/ OnHello(l) \/ OnClosed(l)
         \/ MarkerSent \/ SwitchChat
         \/ RelayOpens(l) \/ RelayTakes(l) \/ RelayEnds(l) \/ RelayCleans(l)
  PROVE  RouterInv'
<1>1. /\ peer \in [Link -> Peer]
      /\ relay \in [Link -> {"none", "open", "failed", "run", "ended", "gone"}]
  BY DEF RouterInv, RouterTypes
<1>2. setup' = setup
  BY DEF OnIdentifiedChat, OnTimeoutChat, OnData, OnHello, OnClosed, MarkerSent, SwitchChat,
         RelayOpens, RelayTakes, RelayEnds, RelayCleans, RelayOnly
<1>3. events' = events \/ (events # <<>> /\ events' = Tail(events))
  BY DEF OnIdentifiedChat, OnTimeoutChat, OnData, OnHello, OnClosed, MarkerSent, SwitchChat,
         RelayOpens, RelayTakes, RelayEnds, RelayCleans, RelayOnly, Handles
<1>4. /\ relay' \in [Link -> {"none", "open", "failed", "run", "ended", "gone"}]
      /\ \A k \in Link : relay[k] = "none" => relay'[k] = "none"
  <2>1. CASE relay' = relay
    BY <1>1, <2>1
  <2>2. CASE RelayOpens(l) \/ RelayTakes(l) \/ RelayEnds(l) \/ RelayCleans(l)
    BY <1>1, <2>2 DEF RelayOpens, RelayTakes, RelayEnds, RelayCleans
  <2> QED
    BY <2>1, <2>2 DEF OnIdentifiedChat, OnTimeoutChat, OnData, OnHello, OnClosed, MarkerSent,
                      SwitchChat, EndsGame, DropReceiver
<1>5. peer' = peer \/ \E S \in SUBSET Link : CloseLinks(S)
  <2>1. {l} \in SUBSET Link
    OBVIOUS
  <2>2. ASSUME NEW S, CloseLinks(S) PROVE \E R \in SUBSET Link : CloseLinks(R)
    <3>1. CloseLinks(S \cap Link)
      BY <2>2, Zenon DEF CloseLinks
    <3> QED
      BY <3>1
  <2>3. CASE OnIdentifiedChat(l) \/ OnTimeoutChat(l) \/ RelayCleans(l)
    BY <2>1, <2>3 DEF OnIdentifiedChat, OnTimeoutChat, RelayCleans
  <2>4. CASE OnData(l) \/ OnClosed(l) \/ RelayOpens(l) \/ RelayTakes(l) \/ RelayEnds(l)
    BY <2>4 DEF OnData, OnClosed, RelayOpens, RelayTakes, RelayEnds
  <2>5. CASE OnHello(l)
    BY <2>1, <2>5 DEF OnHello, Welcome
  <2>6. CASE MarkerSent
    BY <2>2, <2>6 DEF MarkerSent, Forgets, Welcome
  <2>7. CASE SwitchChat
    BY <2>2, <2>7 DEF SwitchChat
  <2> QED
    BY <2>3, <2>4, <2>5, <2>6, <2>7
<1>6. peer' \in [Link -> Peer] /\ Keeps
  BY <1>1, <1>5, CloseKeeps DEF RouterInv, Keeps
<1> QED
  BY <1>2, <1>3, <1>4, <1>6, Handled

LEMMA RouterNextInv == RouterInv /\ [BridgeNext]_bridgeVars => RouterInv'
<1> SUFFICES ASSUME RouterInv, [BridgeNext]_bridgeVars PROVE RouterInv'
  OBVIOUS
<1>1. CASE UNCHANGED bridgeVars
  BY <1>1
  DEF bridgeVars, RouterInv, RouterTypes, FunnelTrue, AllowlistHolds
<1>2. ASSUME NEW l \in Link, BridgeNext PROVE RouterInv'
  BY <1>2, PeersKeepInv, StartersKeepInv, OthersKeepInv DEF BridgeNext, Handler
<1>3. CASE BridgeNext
  <2>1. (\E l \in Link : TRUE) => RouterInv'
    BY <1>2, <1>3
  <2>2. CASE MarkerSent \/ SwitchChat
    <3>1. CASE Link = {}
      <4>1. peer' \in [Link -> Peer] /\ relay' = relay /\ setup' = setup /\ events' = events
        BY <2>2, <3>1 DEF MarkerSent, SwitchChat, Forgets, Welcome, CloseLinks, RouterInv, RouterTypes
      <4> QED
        BY <3>1, <4>1, Handled DEF Keeps, RouterInv, RouterTypes
    <3> QED
      BY <2>1, <3>1
  <2> QED
    BY <1>3, <2>1, <2>2 DEF BridgeNext, Handler
<1> QED
  BY <1>1, <1>3

\* What the argument rests on holds of every behaviour of the bridge.
THEOREM RouterInvariant == BridgeSpec => []RouterInv
BY RouterInitInv, RouterNextInv, PTL DEF BridgeSpec

\* Behind an allowlist no game is connected for a link that did not prove it is
\* on the list, in whatever order its identity, its Hello and the timeout come.
THEOREM OnlyTheAllowed == BridgeSpec => []AllowlistHolds
BY RouterInvariant, PTL DEF RouterInv

\* What a close leaves.  The types first, action by action; then the funnel: its
\* events are true of their links, and nothing of a link but a timeout or a Hello
\* comes behind its close.  Closings says where the close of a link that is down
\* is, Parted what the router still has of one that was handled, and Counted that
\* the number shown is off only while some close is still to come.
Table == [sender : SUBSET Link, pending : SUBSET Link, chat : SUBSET Link]
Channels == [rx : {"none", "pending", "relay", "gone"}, full : 0 .. LinkRoom, end : BOOLEAN]
Hub == [on : BOOLEAN, member : SUBSET Link, named : SUBSET Link, off : 0 .. MaxSwitch]

LEMMA PeerFields ==
  ASSUME NEW p \in Peer
  PROVE  [p EXCEPT !.timer = "armed"] \in Peer /\ [p EXCEPT !.link = "closing"] \in Peer
BY DEF Peer

LEMMA ChannelFields ==
  ASSUME NEW c \in Channels
  PROVE  /\ [c EXCEPT !.rx = "gone", !.full = 0] \in Channels
         /\ \A r \in {"none", "pending", "relay", "gone"} : [c EXCEPT !.rx = r] \in Channels
         /\ \A b \in BOOLEAN : [c EXCEPT !.end = b] \in Channels
<1>1. 0 \in 0 .. LinkRoom
  BY BridgeServerAssumption
<1>2. [c EXCEPT !.rx = "gone", !.full = 0] \in Channels
  BY <1>1 DEF Channels
<1>3. \A r \in {"none", "pending", "relay", "gone"} : [c EXCEPT !.rx = r] \in Channels
  BY DEF Channels
<1>4. \A b \in BOOLEAN : [c EXCEPT !.end = b] \in Channels
  BY Zenon DEF Channels
<1> QED
  BY <1>2, <1>3, <1>4

LEMMA ClosedPeers ==
  ASSUME peer \in [Link -> Peer], NEW S, CloseLinks(S)
  PROVE  peer' \in [Link -> Peer]
<1> SUFFICES ASSUME NEW l \in Link PROVE peer'[l] \in Peer
  BY DEF CloseLinks
<1>1. peer[l] \in Peer
  OBVIOUS
<1>2. peer'[l] = peer[l] \/ peer'[l] = [peer[l] EXCEPT !.link = "closing"]
  BY DEF CloseLinks
<1> QED
  BY <1>1, <1>2, PeerFields

LEMMA CountOfLinks ==
  ASSUME NEW S \in SUBSET Link
  PROVE  Cardinality(S) \in 0 .. Cardinality(Link)
<1>1. IsFiniteSet(Link) /\ IsFiniteSet(S) /\ Cardinality(S) <= Cardinality(Link)
  BY BridgeServerAssumption, FS_Subset
<1> QED
  BY <1>1, FS_CardinalityType

LEMMA ReportTypes ==
  ASSUME BridgeTypeOK, NEW l \in Link, peer' \in [Link -> Peer], PeerOnly,
         \E k \in Kind : Reports(Event(k, l))
  PROVE  BridgeTypeOK'
<1>1. PICK k \in Kind : Reports(Event(k, l))
  OBVIOUS
<1>2. Event(k, l) \in [kind : Kind, link : Link]
  BY DEF Event
<1>3. events' \in Seq([kind : Kind, link : Link])
  BY <1>1, <1>2 DEF Reports, BridgeTypeOK
<1> QED
  BY <1>3 DEF BridgeTypeOK, Peer, PeerOnly

LEMMA PeersTypes ==
  ASSUME BridgeTypeOK, NEW l \in Link,
         \/ Connects(l) \/ Identifies(l) \/ SaysHello(l) \/ SendsChunk(l) \/ Closes(l)
         \/ TimerFires(l)
  PROVE  BridgeTypeOK'
<1>1. peer \in [Link -> Peer] /\ MaxData \in Nat
  BY BridgeServerAssumption DEF BridgeTypeOK, Peer
<1>2. peer' \in [Link -> Peer]
  <2>1. CASE Connects(l) \/ Closes(l) \/ TimerFires(l)
    BY <1>1, <2>1 DEF Connects, Closes, TimerFires, Peer
  <2>2. CASE Identifies(l) \/ SaysHello(l)
    BY <1>1, <2>2 DEF Identifies, SaysHello, Peer
  <2>3. CASE SendsChunk(l)
    BY <1>1, <2>3 DEF SendsChunk, Peer
  <2> QED
    BY <2>1, <2>2, <2>3
<1>3. PeerOnly /\ \E k \in Kind : Reports(Event(k, l))
  BY DEF Connects, Identifies, SaysHello, SendsChunk, Closes, TimerFires, Kind
<1> QED
  BY <1>2, <1>3, ReportTypes

\* The rest keep the types part by part.
DataTypes ==
  /\ router \in [at : {"idle", "send"}, on : Link, why : {"closed", "hello"}]
  /\ table \in Table
  /\ chan \in [Link -> Channels]
  /\ relay \in [Link -> {"none", "open", "failed", "run", "ended", "gone"}]
  /\ hub \in Hub
  /\ clients \subseteq Link /\ shown \in 0 .. Cardinality(Link)
  /\ past \in [closed : SUBSET Link, late : SUBSET Link]

LEMMA TypeSplit ==
  /\ BridgeTypeOK <=>
       /\ setup \in [allowlist : BOOLEAN, tcp : BOOLEAN] /\ peer \in [Link -> Peer]
       /\ events \in Seq([kind : Kind, link : Link]) /\ DataTypes
  /\ BridgeTypeOK' <=>
       /\ setup' \in [allowlist : BOOLEAN, tcp : BOOLEAN] /\ peer' \in [Link -> Peer]
       /\ events' \in Seq([kind : Kind, link : Link]) /\ DataTypes'
BY DEF BridgeTypeOK, DataTypes, Peer, Table, Channels, Hub

LEMMA RestTypes ==
  ASSUME BridgeTypeOK, setup' = setup, DataTypes',
         peer' = peer \/ (\E S \in SUBSET Link : CloseLinks(S))
           \/ (\E l \in Link : peer' = [peer EXCEPT ![l].timer = "armed"]),
         events' = events \/ (events # <<>> /\ events' = Tail(events))
  PROVE  BridgeTypeOK'
<1>1. peer \in [Link -> Peer] /\ events \in Seq([kind : Kind, link : Link])
  BY TypeSplit
<1>2. peer' \in [Link -> Peer]
  <2>1. ASSUME NEW l \in Link, peer' = [peer EXCEPT ![l].timer = "armed"] PROVE peer' \in [Link -> Peer]
    BY <1>1, <2>1, PeerFields
  <2> QED
    BY <1>1, <2>1, ClosedPeers
<1>3. events' \in Seq([kind : Kind, link : Link])
  BY <1>1
<1> QED
  BY <1>2, <1>3, TypeSplit

LEMMA GameTypes ==
  ASSUME DataTypes, NEW l \in Link, StartGame(l) \/ DropReceiver(l) \/ UNCHANGED <<chan, relay>>
  PROVE  chan' \in [Link -> Channels] /\ relay' \in [Link -> {"none", "open", "failed", "run", "ended", "gone"}]
<1>1. chan \in [Link -> Channels] /\ LinkRoom \in Nat
  BY BridgeServerAssumption DEF DataTypes
<1>2. CASE StartGame(l)
  BY <1>1, <1>2 DEF StartGame, Channels, DataTypes
<1>3. CASE DropReceiver(l)
  <2>1. chan[l] \in Channels
    BY <1>1
  <2>2. [chan[l] EXCEPT !.rx = "gone", !.full = 0] \in Channels
    BY <2>1, ChannelFields
  <2> QED
    BY <1>1, <1>3, <2>1, <2>2 DEF DropReceiver, DataTypes
<1> QED
  BY <1>2, <1>3 DEF DataTypes

LEMMA EstablishedTypes ==
  ASSUME BridgeTypeOK, NEW l \in Link, OnEstablished(l)
  PROVE  BridgeTypeOK'
<1>1. DataTypes /\ chan \in [Link -> Channels] /\ table \in Table
  BY TypeSplit DEF DataTypes
<1>2. chan' \in [Link -> Channels] /\ relay' \in [Link -> {"none", "open", "failed", "run", "ended", "gone"}]
  <2>1. CASE StartGame(l)
    BY <1>1, <2>1, GameTypes
  <2>2. CASE chan' = [chan EXCEPT ![l].rx = "pending"] /\ relay' = relay
    BY <1>1, <2>2 DEF Channels, DataTypes
  <2> QED
    BY <2>1, <2>2 DEF OnEstablished
<1>3. table' \in Table
  BY <1>1 DEF OnEstablished, Table
<1>4. table'.sender \in SUBSET Link
  BY <1>3 DEF Table
<1>5. shown' \in 0 .. Cardinality(Link)
  BY <1>4, CountOfLinks DEF OnEstablished
<1>6. DataTypes'
  BY <1>1, <1>2, <1>3, <1>5 DEF OnEstablished, DataTypes
<1>7. setup' = setup /\ events' = Tail(events) /\ events # <<>>
  BY DEF OnEstablished, Handles
<1>8. peer' = peer \/ peer' = [peer EXCEPT ![l].timer = "armed"]
  BY DEF OnEstablished
<1> QED
  BY <1>6, <1>7, <1>8, RestTypes

LEMMA DecidesTypes ==
  ASSUME BridgeTypeOK, NEW l \in Link,
         OnIdentifiedChat(l) \/ OnIdentified(l) \/ OnTimeoutChat(l) \/ OnTimeout(l)
  PROVE  BridgeTypeOK'
<1>1. DataTypes /\ chan \in [Link -> Channels] /\ table \in Table /\ hub \in Hub
  BY TypeSplit DEF DataTypes
<1>2. UNCHANGED <<setup, router, shown, past>> /\ events' = Tail(events) /\ events # <<>>
  BY DEF OnIdentifiedChat, OnIdentified, OnTimeoutChat, OnTimeout, Handles
<1>3. peer' = peer \/ CloseLinks({l})
  BY DEF OnIdentifiedChat, OnIdentified, OnTimeoutChat, OnTimeout
<1>4. StartGame(l) \/ DropReceiver(l) \/ UNCHANGED <<chan, relay>>
  BY DEF OnIdentifiedChat, OnIdentified, OnTimeoutChat, OnTimeout
<1>5. table' \in Table
  <2>1. CASE OnIdentifiedChat(l) \/ OnTimeoutChat(l)
    BY <1>1, <2>1 DEF OnIdentifiedChat, OnTimeoutChat, Table, Without
  <2>2. CASE OnIdentified(l)
    BY <1>1, <2>2 DEF OnIdentified, Table, Without
  <2>3. CASE OnTimeout(l)
    <3>1. \/ table' = table
          \/ table' = [table EXCEPT !.pending = Without(@, l), !.sender = Without(@, l)]
          \/ table' = [table EXCEPT !.pending = Without(@, l)]
      BY <1>1, <2>3 DEF OnTimeout, Table
    <3>2. Without(table.pending, l) \in SUBSET Link /\ Without(table.sender, l) \in SUBSET Link
      BY <1>1 DEF Without, Table
    <3> QED
      BY <1>1, <3>1, <3>2 DEF Table
  <2> QED
    BY <2>1, <2>2, <2>3
<1>6. hub' \in Hub
  <2>1. CASE OnIdentifiedChat(l)
    <3>1. hub' = hub \/ hub' = [hub EXCEPT !.named = @ \cup {l}]
            \/ hub' = [hub EXCEPT !.member = Without(@, l), !.named = Without(@, l)]
      BY <1>1, <2>1 DEF OnIdentifiedChat, Hub
    <3> QED
      BY <1>1, <3>1 DEF Hub, Without
  <2>2. CASE OnTimeoutChat(l)
    BY <1>1, <2>2 DEF OnTimeoutChat, Hub, Without
  <2> QED
    BY <1>1, <2>1, <2>2 DEF OnIdentified, OnTimeout
<1>7. clients' \subseteq Link
  BY <1>1 DEF OnIdentifiedChat, OnIdentified, OnTimeoutChat, OnTimeout, DataTypes, Without
<1>8. DataTypes'
  BY <1>1, <1>2, <1>4, <1>5, <1>6, <1>7, GameTypes DEF DataTypes
<1> QED
  BY <1>2, <1>3, <1>8, RestTypes

LEMMA OnDataTypes ==
  ASSUME BridgeTypeOK, NEW l \in Link, OnData(l)
  PROVE  BridgeTypeOK'
<1>1. DataTypes /\ chan \in [Link -> Channels] /\ LinkRoom \in Nat
  BY TypeSplit, BridgeServerAssumption DEF DataTypes
<1>2. chan' \in [Link -> Channels]
  BY <1>1 DEF OnData, Channels
<1>3. DataTypes'
  BY <1>1, <1>2 DEF OnData, DataTypes
<1> QED
  BY <1>3, RestTypes DEF OnData, Handles

LEMMA WelcomeTypes ==
  ASSUME hub \in Hub, table' \in Table, clients \subseteq Link, NEW l \in Link, Welcome(l)
  PROVE  /\ hub' \in Hub /\ clients' \subseteq Link /\ shown' \in 0 .. Cardinality(Link)
         /\ peer' = peer \/ CloseLinks({l})
<1>1. hub' \in Hub
  BY DEF Welcome, Hub
<1>2. table'.sender \in SUBSET Link
  BY DEF Table
<1>3. shown' \in 0 .. Cardinality(Link)
  BY <1>2, CountOfLinks DEF Welcome
<1> QED
  BY <1>1, <1>3 DEF Welcome, Without

LEMMA EndsGameTypes ==
  ASSUME BridgeTypeOK, NEW l \in Link, NEW c \in SUBSET Link, NEW k \in {"closed", "hello"},
         EndsGame(l, c), Handles(k, l)
  PROVE  /\ table' \in Table
         /\ router' \in [at : {"idle", "send"}, on : Link, why : {"closed", "hello"}]
         /\ chan' \in [Link -> Channels]
         /\ relay' \in [Link -> {"none", "open", "failed", "run", "ended", "gone"}]
<1>1. DataTypes /\ chan \in [Link -> Channels] /\ table \in Table
  BY TypeSplit DEF DataTypes
<1>2. table' \in Table
  BY <1>1 DEF EndsGame, Table, Without
<1>3. Head(events).kind = k
  BY DEF Handles, Event
<1>4. router' \in [at : {"idle", "send"}, on : Link, why : {"closed", "hello"}]
  BY <1>1, <1>3 DEF EndsGame, DataTypes
<1>5. CASE chan' = [chan EXCEPT ![l].end = TRUE] /\ relay' = relay
  <2>1. chan' = [chan EXCEPT ![l] = [chan[l] EXCEPT !.end = TRUE]] /\ chan[l] \in Channels
    BY <1>1, <1>5
  <2>2. [chan[l] EXCEPT !.end = TRUE] \in Channels
    BY <2>1, ChannelFields
  <2>3. chan' \in [Link -> Channels]
    BY <1>1, <2>1, <2>2
  <2> QED
    BY <1>1, <1>2, <1>4, <1>5, <2>3 DEF DataTypes
<1>6. CASE DropReceiver(l) \/ UNCHANGED <<chan, relay>>
  BY <1>1, <1>2, <1>4, <1>6, GameTypes
<1> QED
  BY <1>5, <1>6 DEF EndsGame

LEMMA HelloTypes ==
  ASSUME BridgeTypeOK, NEW l \in Link, OnHello(l)
  PROVE  BridgeTypeOK'
<1>1. DataTypes /\ hub \in Hub /\ table \in Table /\ past \in [closed : SUBSET Link, late : SUBSET Link]
  BY TypeSplit DEF DataTypes
<1> DEFINE c == IF MustWait(l) THEN table.chat \cup {l} ELSE Chatting(table.chat, l)
<1>2. c \in SUBSET Link
  BY <1>1 DEF Table, Without, Chatting
<1>3. EndsGame(l, c) /\ Handles("hello", l)
  BY DEF OnHello
<1> HIDE DEF c
<1>4. /\ table' \in Table
      /\ router' \in [at : {"idle", "send"}, on : Link, why : {"closed", "hello"}]
      /\ chan' \in [Link -> Channels]
      /\ relay' \in [Link -> {"none", "open", "failed", "run", "ended", "gone"}]
  BY <1>2, <1>3, EndsGameTypes
<1>5. /\ hub' \in Hub /\ clients' \subseteq Link /\ shown' \in 0 .. Cardinality(Link)
      /\ peer' = peer \/ CloseLinks({l})
  BY <1>1, <1>4, WelcomeTypes DEF OnHello, DataTypes
<1>6. past' \in [closed : SUBSET Link, late : SUBSET Link]
  BY <1>1 DEF OnHello
<1>7. DataTypes'
  BY <1>4, <1>5, <1>6 DEF DataTypes
<1> QED
  BY <1>3, <1>5, <1>7, RestTypes DEF OnHello, Handles

LEMMA ClosedTypes ==
  ASSUME BridgeTypeOK, NEW l \in Link, OnClosed(l)
  PROVE  BridgeTypeOK'
<1>1. DataTypes /\ hub \in Hub /\ table \in Table /\ past \in [closed : SUBSET Link, late : SUBSET Link]
  BY TypeSplit DEF DataTypes
<1>2. Without(table.chat, l) \in SUBSET Link
  BY <1>1 DEF Table, Without
<1>3. EndsGame(l, Without(table.chat, l)) /\ Handles("closed", l)
  BY DEF OnClosed
<1>4. /\ table' \in Table
      /\ router' \in [at : {"idle", "send"}, on : Link, why : {"closed", "hello"}]
      /\ chan' \in [Link -> Channels]
      /\ relay' \in [Link -> {"none", "open", "failed", "run", "ended", "gone"}]
  BY <1>2, <1>3, EndsGameTypes
<1>5. hub' \in Hub
  BY <1>1 DEF OnClosed, Hub, Without
<1>6. table'.sender \in SUBSET Link
  BY <1>4 DEF Table
<1>7. clients' \subseteq Link /\ shown' \in 0 .. Cardinality(Link)
  BY <1>1, <1>6, CountOfLinks DEF OnClosed, DataTypes, Without
<1>8. past' \in [closed : SUBSET Link, late : SUBSET Link]
  BY <1>1 DEF OnClosed
<1>9. DataTypes'
  BY <1>4, <1>5, <1>7, <1>8 DEF DataTypes
<1> QED
  BY <1>9, RestTypes DEF OnClosed, Handles

LEMMA MarkerTypes ==
  ASSUME BridgeTypeOK, MarkerSent
  PROVE  BridgeTypeOK'
<1> DEFINE l == router.on
<1>1. DataTypes /\ hub \in Hub /\ table \in Table /\ chan \in [Link -> Channels] /\ l \in Link
  BY TypeSplit DEF DataTypes
<1>2. setup' = setup /\ UNCHANGED <<events, relay, past>>
  BY DEF MarkerSent
<1>3. Forgets(l) \/ Welcome(l)
  BY DEF MarkerSent
<1>4. table' = table \/ table' = [table EXCEPT !.chat = Chatting(@, l)]
  BY DEF MarkerSent
<1>5. chan' \in [Link -> Channels]
  <2>1. chan' = [chan EXCEPT ![l] = [chan[l] EXCEPT !.end = chan[l].rx = "relay"]] /\ chan[l] \in Channels
    BY <1>1 DEF MarkerSent
  <2> QED
    BY <1>1, <2>1, ChannelFields
<1>6. router' \in [at : {"idle", "send"}, on : Link, why : {"closed", "hello"}]
  BY <1>1 DEF MarkerSent, DataTypes
<1> HIDE DEF l
<1>7. table' \in Table
  BY <1>1, <1>4 DEF Table, Chatting, Without
<1>8. table'.sender \in SUBSET Link
  BY <1>7 DEF Table
<1>9. /\ hub' \in Hub /\ clients' \subseteq Link /\ shown' \in 0 .. Cardinality(Link)
      /\ peer' = peer \/ CloseLinks({l})
  <2>1. CASE Forgets(l)
    BY <1>1, <1>8, <2>1, CountOfLinks DEF Forgets, Without, DataTypes
  <2>2. CASE Welcome(l)
    BY <1>1, <1>7, <2>2, WelcomeTypes DEF DataTypes
  <2> QED
    BY <1>3, <2>1, <2>2
<1>10. DataTypes'
  BY <1>1, <1>2, <1>5, <1>6, <1>9, <1>7 DEF DataTypes
<1>11. peer' = peer \/ \E S \in SUBSET Link : CloseLinks(S)
  BY <1>1, <1>9
<1> QED
  BY <1>2, <1>10, <1>11, RestTypes

LEMMA RelayTypes ==
  ASSUME BridgeTypeOK, NEW l \in Link, RelayOpens(l) \/ RelayTakes(l) \/ RelayEnds(l) \/ RelayCleans(l)
  PROVE  BridgeTypeOK'
<1>1. DataTypes /\ table \in Table /\ chan \in [Link -> Channels] /\ LinkRoom \in Nat
      /\ relay \in [Link -> {"none", "open", "failed", "run", "ended", "gone"}]
  BY TypeSplit, BridgeServerAssumption DEF DataTypes
<1>2. relay' \in [Link -> {"none", "open", "failed", "run", "ended", "gone"}]
  BY <1>1 DEF RelayOpens, RelayTakes, RelayEnds, RelayCleans
<1>3. chan' \in [Link -> Channels]
  <2>1. [rx |-> "gone", full |-> 0, end |-> FALSE] \in Channels
    BY <1>1 DEF Channels
  <2>2. CASE RelayTakes(l)
    BY <1>1, <2>2 DEF RelayTakes, Channels
  <2> QED
    BY <1>1, <2>1, <2>2 DEF RelayOpens, RelayTakes, RelayEnds, RelayCleans
<1>4. table' \in Table
  BY <1>1 DEF RelayOpens, RelayTakes, RelayEnds, RelayCleans, Table, Without
<1>5. UNCHANGED <<setup, events, router, hub, clients, shown, past>>
  BY DEF RelayOpens, RelayTakes, RelayEnds, RelayCleans, RelayOnly
<1>6. DataTypes'
  BY <1>1, <1>2, <1>3, <1>4, <1>5 DEF DataTypes
<1>7. peer' = peer \/ CloseLinks({l})
  BY DEF RelayOpens, RelayTakes, RelayEnds, RelayCleans
<1> QED
  BY <1>5, <1>6, <1>7, RestTypes

LEMMA SwitchTypes ==
  ASSUME BridgeTypeOK, SwitchChat
  PROVE  BridgeTypeOK'
<1>1. DataTypes /\ hub \in Hub /\ MaxSwitch \in Nat
  BY TypeSplit, BridgeServerAssumption DEF DataTypes
<1>2. hub' \in Hub
  BY <1>1 DEF SwitchChat, Hub
<1>3. DataTypes'
  BY <1>1, <1>2 DEF SwitchChat, DataTypes
<1>4. peer' = peer \/ \E S \in SUBSET Link : CloseLinks(S)
  BY <1>1 DEF SwitchChat, Hub
<1> QED
  BY <1>3, <1>4, RestTypes DEF SwitchChat

LEMMA BridgeInitTypes == BridgeInit => BridgeTypeOK
<1> SUFFICES ASSUME BridgeInit PROVE BridgeTypeOK
  OBVIOUS
<1>1. LinkRoom \in Nat /\ MaxData \in Nat /\ MaxSwitch \in Nat
  BY BridgeServerAssumption
<1>2. 0 \in 0 .. Cardinality(Link)
  BY BridgeServerAssumption, FS_CardinalityType
<1> QED
  <2>1. setup \in [allowlist : BOOLEAN, tcp : BOOLEAN] /\ peer \in [Link -> Peer] /\ events = <<>>
    BY <1>1 DEF BridgeInit, Peer
  <2>2. SomeLink \in Link
    BY BridgeServerAssumption DEF SomeLink
  <2>3. DataTypes
    BY <1>1, <1>2, <2>2 DEF BridgeInit, DataTypes, Table, Channels, Hub
  <2> QED
    BY <2>1, <2>3, TypeSplit

LEMMA BridgeNextTypes == BridgeTypeOK /\ [BridgeNext]_bridgeVars => BridgeTypeOK'
<1> SUFFICES ASSUME BridgeTypeOK, [BridgeNext]_bridgeVars PROVE BridgeTypeOK'
  OBVIOUS
<1>1. CASE UNCHANGED bridgeVars
  BY <1>1 DEF bridgeVars, BridgeTypeOK
<1>2. CASE MarkerSent \/ SwitchChat
  BY <1>2, MarkerTypes, SwitchTypes
<1>3. ASSUME NEW l \in Link,
             \/ OnEstablished(l) \/ OnIdentifiedChat(l) \/ OnIdentified(l) \/ OnTimeoutChat(l)
             \/ OnTimeout(l) \/ OnData(l) \/ OnHello(l) \/ OnClosed(l)
      PROVE  BridgeTypeOK'
  BY <1>3, EstablishedTypes, DecidesTypes, OnDataTypes, HelloTypes, ClosedTypes
<1>4. ASSUME NEW l \in Link,
             \/ Connects(l) \/ Identifies(l) \/ SaysHello(l) \/ SendsChunk(l) \/ Closes(l)
             \/ TimerFires(l) \/ RelayOpens(l) \/ RelayTakes(l) \/ RelayEnds(l) \/ RelayCleans(l)
      PROVE  BridgeTypeOK'
  BY <1>4, PeersTypes, RelayTypes
<1> QED
  BY <1>1, <1>2, <1>3, <1>4 DEF BridgeNext, Handler

Early == {"established", "identified", "data", "closed"}

\* What is in the funnel is true of its link, and no more of it is early once
\* the link's close was handled, or is ahead in the funnel.
EventTrue(e) ==
  /\ e.kind = "established" => peer[e.link].link # "none"
  /\ e.kind = "closed" => peer[e.link].link = "closed"
  /\ e.kind \in Early => e.link \notin past.closed

FunnelOrder ==
  /\ \A j \in 1 .. Len(events) : EventTrue(events[j])
  /\ \A i, j \in 1 .. Len(events) :
       i < j /\ events[i].kind = "closed" /\ events[j].kind \in Early => events[i].link # events[j].link

CloseQueued(l) == \E j \in 1 .. Len(events) : events[j] = Event("closed", l)

\* A link that is down has its close in the funnel or behind it.
Closings ==
  \A l \in Link :
    /\ l \in past.closed => peer[l].link = "closed"
    /\ peer[l].link = "closed" => l \in past.closed \/ CloseQueued(l)
    /\ l \in table.sender => peer[l].link # "none"

\* The router waits in the middle of a close, or of the Hello of a link that has
\* not closed and that it already counts among the chat's.
Sending ==
  router.at = "send" =>
    IF router.why = "closed" THEN router.on \in past.closed
    ELSE router.on \in table.chat /\ router.on \notin past.closed

\* What the router still has of a link that closed.
Parted ==
  \A l \in past.closed :
    /\ l \notin table.sender \cup table.pending
    /\ l \in clients => router.at = "send" /\ router.on = l
    /\ l \in table.chat => l \in past.late

MembersChat == hub.member \subseteq table.chat /\ (~hub.on => hub.member = {})

\* The number shown is the number of senders, or a close is still to come.
Counted ==
  router.at = "idle" =>
    \/ shown = Cardinality(table.sender)
    \/ \E l \in Link : peer[l].link = "closing" \/ CloseQueued(l)

TidyInv ==
  /\ BridgeTypeOK /\ FunnelOrder /\ Closings /\ Sending /\ Parted
  /\ MembersChat /\ Counted

\* The router and the relays close links at most.
PeerStays ==
  \A l \in Link : peer'[l].link = peer[l].link \/ (peer[l].link = "up" /\ peer'[l].link = "closing")

LEMMA ClosesStay ==
  ASSUME BridgeTypeOK, NEW S, CloseLinks(S)
  PROVE  PeerStays
<1> SUFFICES ASSUME NEW l \in Link
             PROVE peer'[l].link = peer[l].link \/ (peer[l].link = "up" /\ peer'[l].link = "closing")
  BY DEF PeerStays
<1>1. peer[l] \in Peer
  BY DEF BridgeTypeOK, Peer
<1>2. peer'[l] = peer[l] \/ (peer[l].link = "up" /\ peer'[l] = [peer[l] EXCEPT !.link = "closing"])
  BY DEF CloseLinks
<1> QED
  BY <1>1, <1>2 DEF Peer

\* The funnel after a step that took its head, or nothing.
Took == events # <<>> /\ events' = Tail(events)

LEMMA FunnelTail ==
  ASSUME BridgeTypeOK, Took
  PROVE  /\ Len(events) \in Nat \ {0} /\ Len(events') = Len(events) - 1 /\ Head(events) = events[1]
         /\ \A j \in 1 .. Len(events') : j + 1 \in 1 .. Len(events) /\ events'[j] = events[j + 1]
         /\ \A j \in 1 .. Len(events) : events[j] \in [kind : Kind, link : Link]
<1>1. events \in Seq([kind : Kind, link : Link])
  BY DEF BridgeTypeOK
<1>2. Len(events) \in Nat \ {0} /\ Head(events) = events[1]
  BY <1>1 DEF Took
<1>3. /\ Len(events') = Len(events) - 1
      /\ \A j \in 1 .. Len(events') : events'[j] = events[j + 1]
  BY <1>1 DEF Took
<1>4. \A j \in 1 .. Len(events') : j + 1 \in 1 .. Len(events)
  BY <1>2, <1>3
<1>5. \A j \in 1 .. Len(events) : events[j] \in [kind : Kind, link : Link]
  BY <1>1, ElementOfSeq
<1> QED
  BY <1>2, <1>3, <1>4, <1>5

LEMMA FunnelTook ==
  ASSUME BridgeTypeOK, FunnelOrder, Took, PeerStays,
         past'.closed = past.closed
           \/ (Head(events).kind = "closed" /\ past'.closed = past.closed \cup {Head(events).link})
  PROVE  FunnelOrder'
<1>1. ASSUME NEW j \in 1 .. Len(events') PROVE EventTrue(events[j])'
  <2>1. j + 1 \in 1 .. Len(events) /\ events'[j] = events[j + 1] /\ events[j + 1] \in [kind : Kind, link : Link]
    BY FunnelTail
  <2>2. EventTrue(events[j + 1]) /\ events[j + 1].link \in Link
    BY <2>1 DEF FunnelOrder
  <2>3. 1 < j + 1 /\ 1 \in 1 .. Len(events)
    BY FunnelTail, <2>1
  <2>4. events[1].kind = "closed" /\ events[j + 1].kind \in Early => events[1].link # events[j + 1].link
    BY <2>1, <2>3 DEF FunnelOrder
  <2>5. events[j + 1].kind \in Early => events[j + 1].link \notin past'.closed
    BY <2>2, <2>4, FunnelTail DEF EventTrue
  <2> QED
    BY <2>1, <2>2, <2>5 DEF EventTrue, PeerStays
<1>2. ASSUME NEW i \in 1 .. Len(events'), NEW j \in 1 .. Len(events'),
             i < j, events'[i].kind = "closed", events'[j].kind \in Early
      PROVE  events'[i].link # events'[j].link
  <2>1. /\ i + 1 \in 1 .. Len(events) /\ events'[i] = events[i + 1]
        /\ j + 1 \in 1 .. Len(events) /\ events'[j] = events[j + 1]
    BY FunnelTail
  <2>2. i + 1 < j + 1
    BY <1>2
  <2> QED
    BY <1>2, <2>1, <2>2 DEF FunnelOrder
<1> QED
  BY <1>1, <1>2 DEF FunnelOrder

LEMMA FunnelKept ==
  ASSUME BridgeTypeOK, FunnelOrder, events' = events, PeerStays, past'.closed = past.closed
  PROVE  FunnelOrder'
<1>1. \A j \in 1 .. Len(events) : events[j].link \in Link
  <2>1. events \in Seq([kind : Kind, link : Link])
    BY DEF BridgeTypeOK
  <2>2. \A j \in 1 .. Len(events) : events[j] \in [kind : Kind, link : Link]
    BY <2>1, ElementOfSeq
  <2> QED
    BY <2>2
<1> QED
  BY <1>1 DEF FunnelOrder, EventTrue, PeerStays

\* A close in the funnel stays there until it is handled.
LEMMA QueuedStays ==
  ASSUME BridgeTypeOK, NEW l \in Link, CloseQueued(l),
         events' = events \/ (Took /\ (Head(events).kind # "closed" \/ Head(events).link # l))
  PROVE  CloseQueued(l)'
<1>1. CASE events' = events
  BY <1>1 DEF CloseQueued, Event
<1>2. CASE Took /\ (Head(events).kind # "closed" \/ Head(events).link # l)
  <2>1. PICK j \in 1 .. Len(events) : events[j] = Event("closed", l)
    BY DEF CloseQueued
  <2>2. j # 1
    BY <1>2, <2>1, FunnelTail DEF Event
  <2>3. j - 1 \in 1 .. Len(events') /\ (j - 1) + 1 = j
    BY <1>2, <2>1, <2>2, FunnelTail
  <2>4. events'[j - 1] = Event("closed", l)
    BY <1>2, <2>1, <2>3, FunnelTail
  <2> QED
    BY <2>3, <2>4 DEF CloseQueued, Event
<1> QED
  BY <1>1, <1>2

LEMMA FunnelAppended ==
  ASSUME BridgeTypeOK, NEW k \in Kind, NEW l \in Link, Reports(Event(k, l))
  PROVE  /\ Len(events) \in Nat /\ Len(events') = Len(events) + 1 /\ events'[Len(events) + 1] = Event(k, l)
         /\ \A j \in 1 .. Len(events) : events'[j] = events[j] /\ events[j].link \in Link
         /\ \A j \in 1 .. Len(events') : j \in 1 .. Len(events) \/ j = Len(events) + 1
<1>1. events \in Seq([kind : Kind, link : Link]) /\ Event(k, l) \in [kind : Kind, link : Link]
  BY DEF BridgeTypeOK, Event
<1>2. \A j \in 1 .. Len(events) : events[j] \in [kind : Kind, link : Link]
  BY <1>1, ElementOfSeq
<1> QED
  BY <1>1, <1>2 DEF Reports

\* A link's end does, and the funnel says so.
LEMMA ReportTidy ==
  ASSUME TidyInv, BridgeTypeOK', NEW k \in Kind, NEW l \in Link, Reports(Event(k, l)), PeerOnly,
         \A d \in Link : d # l => peer'[d] = peer[d],
         \/ peer'[l].link = peer[l].link
         \/ k = "established" /\ peer[l].link = "none" /\ peer'[l].link = "up"
         \/ k = "closed" /\ peer[l].link # "closed" /\ peer'[l].link = "closed",
         k \in Early => peer[l].link # "closed",
         k = "established" => peer'[l].link = "up",
         k = "closed" => peer'[l].link = "closed"
  PROVE  TidyInv'
<1> DEFINE e == Event(k, l)
           n == Len(events) + 1
<1>1. e.kind = k /\ e.link = l
  BY DEF Event
<1>2. UNCHANGED <<setup, router, table, chan, relay, hub, clients, shown, past>>
  BY DEF PeerOnly
<1>3. /\ n \in Nat /\ Len(events') = n /\ events'[n] = e
      /\ \A j \in 1 .. Len(events) : events'[j] = events[j] /\ events[j].link \in Link
      /\ \A j \in 1 .. Len(events') : j \in 1 .. Len(events) \/ j = n
      /\ n \in 1 .. Len(events')
      /\ \A j \in 1 .. Len(events) : j \in 1 .. Len(events')
  BY FunnelAppended DEF TidyInv
<1> HIDE DEF e, n
<1>4. k \in Early => l \notin past.closed
  BY DEF TidyInv, Closings
<1>5. FunnelOrder'
  <2>1. ASSUME NEW j \in 1 .. Len(events') PROVE EventTrue(events[j])'
    <3>1. CASE j \in 1 .. Len(events)
      <4>1. EventTrue(events[j]) /\ events'[j] = events[j] /\ events[j].link \in Link
        BY <1>3, <3>1 DEF TidyInv, FunnelOrder
      <4> QED
        BY <1>2, <4>1 DEF EventTrue
    <3>2. CASE j = n
      BY <1>1, <1>2, <1>3, <1>4, <3>2 DEF EventTrue
    <3> QED
      BY <1>3, <3>1, <3>2
  <2>2. ASSUME NEW i \in 1 .. Len(events'), NEW j \in 1 .. Len(events'),
               i < j, events'[i].kind = "closed", events'[j].kind \in Early
        PROVE  events'[i].link # events'[j].link
    <3>1. CASE j \in 1 .. Len(events) /\ i \in 1 .. Len(events)
      BY <1>3, <2>2, <3>1 DEF TidyInv, FunnelOrder
    <3>2. CASE j = n /\ i \in 1 .. Len(events)
      <4>1. peer[events[i].link].link = "closed"
        BY <1>3, <2>2, <3>2 DEF TidyInv, FunnelOrder, EventTrue
      <4> QED
        BY <1>1, <1>3, <2>2, <3>2, <4>1
    <3>3. i # n
      BY <1>3, <2>2
    <3> QED
      BY <1>3, <3>1, <3>2, <3>3
  <2> QED
    BY <2>1, <2>2 DEF FunnelOrder
<1>6. ASSUME NEW d \in Link, CloseQueued(d) PROVE CloseQueued(d)'
  BY <1>3, <1>6 DEF CloseQueued, Event
<1>7. peer'[l].link = "closed" => peer[l].link = "closed" \/ CloseQueued(l)'
  BY <1>3 DEF CloseQueued, e
<1>8. Closings'
  <2> SUFFICES ASSUME NEW d \in Link
               PROVE  /\ d \in past.closed => peer'[d].link = "closed"
                      /\ peer'[d].link = "closed" => d \in past.closed \/ CloseQueued(d)'
                      /\ d \in table.sender => peer'[d].link # "none"
    BY <1>2 DEF Closings
  <2>1. /\ d \in past.closed => peer[d].link = "closed"
        /\ peer[d].link = "closed" => d \in past.closed \/ CloseQueued(d)
        /\ d \in table.sender => peer[d].link # "none"
    BY DEF TidyInv, Closings
  <2>2. CASE d # l
    BY <1>6, <2>1, <2>2
  <2>3. CASE d = l
    BY <1>6, <1>7, <2>1, <2>3
  <2> QED
    BY <2>2, <2>3
<1>9. Sending' /\ Parted' /\ MembersChat'
  BY <1>2 DEF TidyInv, Sending, Parted, MembersChat
<1>10. Counted'
  <2>1. ASSUME NEW d \in Link, peer[d].link = "closing" PROVE peer'[d].link = "closing" \/ CloseQueued(d)'
    BY <1>7, <2>1
  <2>2. router' = router /\ shown' = shown /\ table' = table
    BY <1>2
  <2> QED
    BY <1>6, <2>1, <2>2 DEF TidyInv, Counted
<1> QED
  BY <1>5, <1>8, <1>9, <1>10 DEF TidyInv

LEMMA PeersTidy ==
  ASSUME TidyInv, NEW l \in Link,
         \/ Connects(l) \/ Identifies(l) \/ SaysHello(l) \/ SendsChunk(l) \/ Closes(l)
         \/ TimerFires(l)
  PROVE  TidyInv'
<1>1. peer \in [Link -> Peer] /\ BridgeTypeOK'
  BY PeersTypes DEF TidyInv, BridgeTypeOK, Peer
<1>2. CASE Connects(l)
  <2>1. (\A d \in Link : d # l => peer'[d] = peer[d]) /\ peer'[l].link = "up"
    BY <1>1, <1>2 DEF Connects, Peer
  <2> QED
    BY <1>1, <1>2, <2>1, ReportTidy DEF Connects, Kind, Early
<1>3. CASE Closes(l)
  <2>1. (\A d \in Link : d # l => peer'[d] = peer[d]) /\ peer'[l].link = "closed"
    BY <1>1, <1>3 DEF Closes, Peer
  <2> QED
    BY <1>1, <1>3, <2>1, ReportTidy DEF Closes, Kind, Early
<1>4. ASSUME peer' = [peer EXCEPT ![l].said = peer'[l].said] \/ peer' = [peer EXCEPT ![l].sent = @ + 1]
               \/ peer' = [peer EXCEPT ![l].timer = "fired"]
      PROVE  /\ \A d \in Link : d # l => peer'[d] = peer[d]
             /\ peer'[l].link = peer[l].link
  BY <1>1, <1>4 DEF Peer
<1>5. CASE Identifies(l)
  BY <1>1, <1>4, <1>5, ReportTidy DEF Identifies, Kind, Early, Peer
<1>6. CASE SaysHello(l)
  BY <1>1, <1>4, <1>6, ReportTidy DEF SaysHello, Kind, Early, Peer
<1>7. CASE SendsChunk(l)
  BY <1>1, <1>4, <1>7, ReportTidy DEF SendsChunk, Kind, Early
<1>8. CASE TimerFires(l)
  BY <1>1, <1>4, <1>8, ReportTidy DEF TimerFires, Kind, Early
<1> QED
  BY <1>2, <1>3, <1>5, <1>6, <1>7, <1>8

LEMMA HeadTrue ==
  ASSUME TidyInv, NEW k, NEW l \in Link, Handles(k, l)
  PROVE  /\ Took /\ Head(events).kind = k /\ Head(events).link = l /\ router.at = "idle"
         /\ k = "established" => peer[l].link # "none"
         /\ k = "closed" => peer[l].link = "closed"
         /\ k \in Early => l \notin past.closed
<1>1. Took /\ Head(events).kind = k /\ Head(events).link = l /\ router.at = "idle"
  BY DEF Handles, Event, Took
<1>2. Head(events) = events[1] /\ 1 \in 1 .. Len(events)
  BY <1>1, FunnelTail DEF TidyInv
<1>3. EventTrue(events[1])
  BY <1>2 DEF TidyInv, FunnelOrder
<1> QED
  BY <1>1, <1>2, <1>3 DEF EventTrue

\* A step of the router or of a relay: it may take the funnel's head.
Moves(closed) ==
  /\ BridgeTypeOK' /\ PeerStays
  /\ \/ events' = events /\ closed = past.closed
     \/ Took /\ Head(events).kind # "closed" /\ closed = past.closed
     \/ Took /\ Head(events).kind = "closed" /\ closed = past.closed \cup {Head(events).link}
  /\ past'.closed = closed

LEMMA MovesTidy ==
  ASSUME TidyInv, Moves(past'.closed),
         \A l \in Link : l \in table'.sender => l \in table.sender \/ peer[l].link # "none",
         Sending', Parted', MembersChat', Counted'
  PROVE  TidyInv'
<1>1. FunnelOrder'
  BY FunnelTook, FunnelKept DEF Moves, TidyInv
<1>2. Closings'
  <2> SUFFICES ASSUME NEW l \in Link
               PROVE  /\ l \in past'.closed => peer'[l].link = "closed"
                      /\ peer'[l].link = "closed" => l \in past'.closed \/ CloseQueued(l)'
                      /\ l \in table'.sender => peer'[l].link # "none"
    BY DEF Closings
  <2>1. /\ l \in past.closed => peer[l].link = "closed"
        /\ peer[l].link = "closed" => l \in past.closed \/ CloseQueued(l)
        /\ l \in table.sender => peer[l].link # "none"
    BY DEF TidyInv, Closings
  <2>2. peer'[l].link = peer[l].link \/ (peer[l].link = "up" /\ peer'[l].link = "closing")
    BY DEF Moves, PeerStays
  <2>3. ASSUME l \in past'.closed PROVE l \in past.closed \/ peer[l].link = "closed"
    <3>1. CASE Took /\ Head(events).kind = "closed" /\ past'.closed = past.closed \cup {Head(events).link}
      <4>1. Head(events) = events[1] /\ 1 \in 1 .. Len(events)
        BY <3>1, FunnelTail DEF TidyInv
      <4>2. EventTrue(events[1])
        BY <4>1 DEF TidyInv, FunnelOrder
      <4>3. peer[Head(events).link].link = "closed"
        BY <3>1, <4>1, <4>2 DEF EventTrue
      <4>4. l \in past.closed \/ l = Head(events).link
        BY <3>1, <2>3
      <4> QED
        BY <4>3, <4>4
    <3> QED
      BY <2>3, <3>1 DEF Moves
  <2>4. CloseQueued(l) => CloseQueued(l)' \/ l \in past'.closed
    <3>1. CASE events' = events
      BY <3>1, QueuedStays DEF TidyInv
    <3>2. CASE Took /\ (Head(events).kind # "closed" \/ Head(events).link # l)
      BY <3>2, QueuedStays DEF TidyInv
    <3>3. CASE Head(events).kind = "closed" /\ Head(events).link = l /\ events' # events
      BY <3>3 DEF Moves
    <3> QED
      BY <3>1, <3>2, <3>3 DEF Moves
  <2>5. l \in past.closed => l \in past'.closed
    BY DEF Moves
  <2> QED
    BY <2>1, <2>2, <2>3, <2>4, <2>5
<1> QED
  BY <1>1, <1>2 DEF TidyInv, Moves

\* What counts: a step that leaves the number and the senders alone, and does
\* not handle a close.
Quietly == events' = events \/ (Took /\ Head(events).kind # "closed")

LEMMA CountStays ==
  ASSUME TidyInv, PeerStays, Quietly, router.at = "idle" \/ router' = router,
         shown' = shown, table'.sender = table.sender
  PROVE  Counted'
<1>1. ASSUME NEW l \in Link, CloseQueued(l) PROVE CloseQueued(l)'
  BY <1>1, QueuedStays DEF Quietly, TidyInv
<1>2. ASSUME NEW l \in Link, peer[l].link = "closing" PROVE peer'[l].link = "closing"
  BY <1>2 DEF PeerStays
<1> QED
  BY <1>1, <1>2 DEF TidyInv, Counted

\* A link that is closed with its sender taken out: its close is to come.
LEMMA CountLoses ==
  ASSUME TidyInv, NEW l \in Link, CloseLinks({l}), Quietly, router.at = "idle",
         shown' = shown, table'.sender = table.sender \ {l}
  PROVE  Counted'
<1>1. CASE l \notin table.sender
  <2>1. PeerStays
    BY ClosesStay DEF TidyInv
  <2>2. table'.sender = table.sender
    BY <1>1
  <2> QED
    BY <2>1, <2>2, CountStays
<1>2. CASE l \in table.sender
  <2>1. peer[l].link # "none" /\ l \notin past.closed
    BY <1>2 DEF TidyInv, Closings, Parted
  <2>2. peer[l] \in Peer
    BY DEF TidyInv, BridgeTypeOK, Peer
  <2>3. CASE peer[l].link = "up"
    <3>1. peer'[l] = [peer[l] EXCEPT !.link = "closing"]
      BY <2>3 DEF CloseLinks
    <3>2. peer'[l].link = "closing"
      BY <2>2, <3>1 DEF Peer
    <3> QED
      BY <3>2 DEF Counted
  <2>4. CASE peer[l].link = "closing"
    <3>1. peer'[l].link = "closing"
      BY <2>4 DEF CloseLinks
    <3> QED
      BY <3>1 DEF Counted
  <2>5. CASE peer[l].link = "closed"
    <3>1. CloseQueued(l)
      BY <2>1, <2>5 DEF TidyInv, Closings
    <3>2. CloseQueued(l)'
      BY <3>1, QueuedStays DEF Quietly, TidyInv
    <3> QED
      BY <3>2 DEF Counted
  <2> QED
    BY <2>1, <2>2, <2>3, <2>4, <2>5 DEF Peer
<1> QED
  BY <1>1, <1>2

LEMMA PartsOf ==
  ASSUME TidyInv
  PROVE  /\ BridgeTypeOK /\ DataTypes /\ peer \in [Link -> Peer] /\ chan \in [Link -> Channels]
         /\ table \in Table /\ hub \in Hub /\ LinkRoom \in Nat \ {0}
         /\ \A l \in Link : peer[l] \in Peer /\ chan[l] \in Channels
         /\ past \in [closed : SUBSET Link, late : SUBSET Link]
         /\ router \in [at : {"idle", "send"}, on : Link, why : {"closed", "hello"}]
BY TypeSplit, BridgeServerAssumption DEF TidyInv, DataTypes

\* A peer whose timer is armed stays otherwise.
LEMMA TimerStays ==
  ASSUME TidyInv, NEW l \in Link, peer' = peer \/ peer' = [peer EXCEPT ![l].timer = "armed"]
  PROVE  PeerStays
<1> SUFFICES ASSUME NEW d \in Link PROVE peer'[d].link = peer[d].link
  BY DEF PeerStays
<1>1. peer[d] \in Peer /\ peer \in [Link -> Peer]
  BY PartsOf
<1>2. peer'[d] = peer[d] \/ peer'[d] = [peer[d] EXCEPT !.timer = "armed"]
  BY <1>1
<1> QED
  BY <1>1, <1>2 DEF Peer

LEMMA EstablishedTidy ==
  ASSUME TidyInv, NEW l \in Link, OnEstablished(l)
  PROVE  TidyInv'
<1>1. Handles("established", l) /\ UNCHANGED <<setup, router, hub, clients, past>>
      /\ table'.sender = table.sender \cup {l} /\ table'.pending \subseteq table.pending \cup {l}
      /\ table'.chat = table.chat /\ shown' = Cardinality(table'.sender)
  BY PartsOf DEF OnEstablished, Table
<1>2. Took /\ Head(events).kind = "established" /\ router.at = "idle" /\ peer[l].link # "none" /\ l \notin past.closed
  BY <1>1, HeadTrue DEF Early
<1>3. PeerStays
  BY TimerStays DEF OnEstablished
<1>4. Moves(past'.closed)
  BY <1>1, <1>2, <1>3, EstablishedTypes, PartsOf DEF Moves
<1>5. Sending' /\ Counted' /\ MembersChat'
  BY <1>1, <1>2 DEF TidyInv, Sending, Counted, MembersChat
<1>6. Parted'
  BY <1>1, <1>2 DEF TidyInv, Parted
<1> QED
  BY <1>1, <1>2, <1>4, <1>5, <1>6, MovesTidy

LEMMA IdentifiedTidy ==
  ASSUME TidyInv, NEW l \in Link, OnIdentified(l)
  PROVE  TidyInv'
<1>1. Handles("identified", l) /\ UNCHANGED <<setup, router, hub, shown, past>>
      /\ table'.sender = (IF Allowed(l) THEN table.sender ELSE table.sender \ {l})
      /\ table'.pending \subseteq table.pending /\ table'.chat = table.chat
      /\ clients' \subseteq clients \cup {l}
      /\ (peer' = peer \/ CloseLinks({l}))
  BY PartsOf DEF OnIdentified, Table, Without
<1>2. Took /\ Head(events).kind = "identified" /\ router.at = "idle" /\ l \notin past.closed
  BY <1>1, HeadTrue DEF Early
<1>3. PeerStays
  BY <1>1, TimerStays, ClosesStay, PartsOf
<1>4. Moves(past'.closed)
  BY <1>1, <1>2, <1>3, DecidesTypes, PartsOf DEF Moves
<1>5. Sending' /\ MembersChat' /\ Parted'
  BY <1>1, <1>2 DEF TidyInv, Sending, MembersChat, Parted
<1>6. Counted'
  <2>1. Quietly
    BY <1>2 DEF Quietly
  <2>2. CASE Allowed(l)
    BY <1>1, <1>2, <1>3, <2>1, <2>2, CountStays
  <2>3. CASE ~Allowed(l)
    BY <1>1, <1>2, <2>1, <2>3, CountLoses DEF OnIdentified
  <2> QED
    BY <2>2, <2>3
<1> QED
  BY <1>1, <1>4, <1>5, <1>6, MovesTidy

LEMMA TimeoutTidy ==
  ASSUME TidyInv, NEW l \in Link, OnTimeout(l)
  PROVE  TidyInv'
<1>1. Handles("timeout", l) /\ UNCHANGED <<setup, router, hub, clients, shown, past>>
      /\ table'.sender = (IF l \in table.pending /\ setup.allowlist THEN table.sender \ {l} ELSE table.sender)
      /\ table'.pending \subseteq table.pending /\ table'.chat = table.chat
      /\ (peer' = peer \/ CloseLinks({l}))
  <2>1. table \in Table
    BY PartsOf
  <2>2. CASE l \notin table.pending
    BY <2>2 DEF OnTimeout
  <2>3. CASE l \in table.pending
    <3>1. table' = [table EXCEPT !.pending = table.pending \ {l},
                                !.sender = IF setup.allowlist THEN table.sender \ {l} ELSE table.sender]
      BY <2>3 DEF OnTimeout, Without
    <3>2. UNCHANGED <<setup, router, hub, clients, shown, past>> /\ (peer' = peer \/ CloseLinks({l}))
      BY <2>3 DEF OnTimeout
    <3> QED
      BY <2>1, <2>3, <3>1, <3>2 DEF OnTimeout, Table
  <2> QED
    BY <2>2, <2>3
<1>2. Took /\ Head(events).kind = "timeout" /\ router.at = "idle"
  BY <1>1, HeadTrue
<1>3. PeerStays
  BY <1>1, TimerStays, ClosesStay, PartsOf
<1>4. Moves(past'.closed)
  BY <1>1, <1>2, <1>3, DecidesTypes, PartsOf DEF Moves
<1>5. Sending' /\ MembersChat' /\ Parted'
  BY <1>1, <1>2 DEF TidyInv, Sending, MembersChat, Parted
<1>6. Counted'
  <2>1. Quietly
    BY <1>2 DEF Quietly
  <2>2. CASE ~(l \in table.pending /\ setup.allowlist)
    BY <1>1, <1>2, <1>3, <2>1, <2>2, CountStays
  <2>3. CASE l \in table.pending /\ setup.allowlist
    BY <1>1, <1>2, <2>1, <2>3, CountLoses DEF OnTimeout
  <2> QED
    BY <2>2, <2>3
<1> QED
  BY <1>1, <1>4, <1>5, <1>6, MovesTidy

LEMMA ChatDecidesTidy ==
  ASSUME TidyInv, NEW l \in Link, OnIdentifiedChat(l) \/ OnTimeoutChat(l)
  PROVE  TidyInv'
<1>1. /\ Handles("identified", l) \/ Handles("timeout", l)
      /\ UNCHANGED <<setup, router, chan, relay, clients, shown, past>>
      /\ table'.sender = table.sender /\ table'.pending = table.pending
      /\ peer' = peer \/ CloseLinks({l})
  BY PartsOf DEF OnIdentifiedChat, OnTimeoutChat, Table
<1>2. Took /\ Head(events).kind # "closed" /\ router.at = "idle"
  BY <1>1, HeadTrue
<1>3. /\ hub'.on = hub.on
      /\ \/ hub'.member = hub.member /\ table'.chat = table.chat
         \/ hub'.member = hub.member \ {l} /\ table'.chat = table.chat \ {l}
  BY PartsOf DEF OnIdentifiedChat, OnTimeoutChat, Without, Hub, Table
<1>4. PeerStays
  BY <1>1, TimerStays, ClosesStay, PartsOf
<1>5. Moves(past'.closed)
  BY <1>1, <1>2, <1>4, DecidesTypes, PartsOf DEF Moves
<1>6. Sending' /\ MembersChat' /\ Parted'
  BY <1>1, <1>2, <1>3 DEF TidyInv, Sending, MembersChat, Parted
<1>7. Counted'
  BY <1>1, <1>2, <1>4, CountStays DEF Quietly
<1> QED
  BY <1>1, <1>5, <1>6, <1>7, MovesTidy

LEMMA DataTidy ==
  ASSUME TidyInv, NEW l \in Link, OnData(l)
  PROVE  TidyInv'
<1>1. Handles("data", l) /\ UNCHANGED <<setup, peer, router, table, relay, hub, clients, shown, past>>
  BY DEF OnData
<1>2. Took /\ Head(events).kind = "data" /\ router.at = "idle"
  BY <1>1, HeadTrue
<1>3. PeerStays
  BY <1>1, TimerStays
<1>4. Moves(past'.closed)
  BY <1>1, <1>2, <1>3, OnDataTypes, PartsOf DEF Moves
<1>5. Sending' /\ MembersChat' /\ Parted'
  BY <1>1, <1>2 DEF TidyInv, Sending, MembersChat, Parted
<1>6. Counted'
  BY <1>1, <1>2, <1>3, CountStays DEF Quietly
<1> QED
  BY <1>1, <1>4, <1>5, <1>6, MovesTidy

\* Ending a link's game: what the router does first with a Hello or a close.
LEMMA EndsTidy ==
  ASSUME TidyInv, NEW l \in Link, NEW c \in SUBSET Link, EndsGame(l, c), router.at = "idle"
  PROVE  /\ table'.sender = table.sender \ {l} /\ table'.pending = table.pending \ {l} /\ table'.chat = c
         /\ \/ router' = router /\ ~MustWait(l)
            \/ /\ router' = [at |-> "send", on |-> l, why |-> Head(events).kind]
               /\ MustWait(l) /\ l \in table.sender
<1>1. table \in Table
  BY PartsOf
<1>2. table'.sender = table.sender \ {l} /\ table'.pending = table.pending \ {l} /\ table'.chat = c
  BY <1>1 DEF EndsGame, Without, Table
<1> QED
  BY <1>2 DEF EndsGame, MustWait

LEMMA HelloTidy ==
  ASSUME TidyInv, NEW l \in Link, OnHello(l)
  PROVE  TidyInv'
<1> DEFINE c == IF MustWait(l) \/ hub.on THEN table.chat \cup {l} ELSE table.chat \ {l}
<1>1. Handles("hello", l) /\ EndsGame(l, c) /\ setup' = setup
      /\ past' = [past EXCEPT !.late = IF l \in past.closed THEN @ \cup {l} ELSE @]
  BY DEF OnHello, Chatting, Without
<1>2. Took /\ Head(events).kind = "hello" /\ router.at = "idle"
  BY <1>1, HeadTrue
<1>3. c \in SUBSET Link
  BY PartsOf DEF Table
<1> HIDE DEF c
<1>4. /\ table'.sender = table.sender \ {l} /\ table'.pending = table.pending \ {l} /\ table'.chat = c
      /\ \/ router' = router /\ ~MustWait(l)
         \/ /\ router' = [at |-> "send", on |-> l, why |-> "hello"]
            /\ MustWait(l) /\ l \in table.sender
  BY <1>1, <1>2, <1>3, EndsTidy
<1>5. past'.closed = past.closed /\ past'.late = (IF l \in past.closed THEN past.late \cup {l} ELSE past.late)
  BY <1>1, PartsOf
<1>6. CASE router' = router /\ ~MustWait(l)
  <2>1. clients' = clients \ {l} /\ shown' = Cardinality(table'.sender) /\ (peer' = peer \/ CloseLinks({l}))
        /\ hub'.on = hub.on /\ hub'.member = (IF hub.on THEN hub.member \cup {l} ELSE hub.member)
    BY <1>2, <1>6, PartsOf DEF OnHello, Welcome, Without, Hub
  <2>2. PeerStays
    BY <2>1, TimerStays, ClosesStay, PartsOf
  <2>3. Moves(past'.closed)
    BY <1>2, <1>5, <2>2, HelloTypes, PartsOf DEF Moves
  <2>4. Sending' /\ Counted'
    BY <1>2, <1>6, <2>1 DEF Sending, Counted
  <2>5. MembersChat'
    BY <1>4, <1>6, <2>1 DEF TidyInv, MembersChat, c
  <2>6. Parted'
    BY <1>2, <1>4, <1>5, <2>1 DEF TidyInv, Parted, c
  <2> QED
    BY <1>4, <2>3, <2>4, <2>5, <2>6, MovesTidy
<1>7. CASE router' = [at |-> "send", on |-> l, why |-> "hello"] /\ MustWait(l) /\ l \in table.sender
  <2>1. UNCHANGED <<clients, shown, hub, peer>>
    BY <1>7 DEF OnHello
  <2>2. PeerStays
    BY <2>1, TimerStays
  <2>3. Moves(past'.closed)
    BY <1>2, <1>5, <2>2, HelloTypes, PartsOf DEF Moves
  <2>4. l \notin past.closed
    BY <1>7 DEF TidyInv, Parted
  <2>5. Sending' /\ Counted'
    BY <1>4, <1>5, <1>7, <2>4 DEF Sending, Counted, c
  <2>6. MembersChat' /\ Parted'
    BY <1>2, <1>4, <1>5, <1>7, <2>1, <2>4 DEF TidyInv, MembersChat, Parted, c
  <2> QED
    BY <1>4, <2>3, <2>5, <2>6, MovesTidy
<1> QED
  BY <1>4, <1>6, <1>7

LEMMA ClosedTidy ==
  ASSUME TidyInv, NEW l \in Link, OnClosed(l)
  PROVE  TidyInv'
<1>1. Handles("closed", l) /\ EndsGame(l, table.chat \ {l}) /\ UNCHANGED <<setup, peer>>
      /\ past' = [past EXCEPT !.closed = @ \cup {l}]
  BY DEF OnClosed, Without
<1>2. Took /\ Head(events).kind = "closed" /\ Head(events).link = l /\ router.at = "idle" /\ peer[l].link = "closed"
  BY <1>1, HeadTrue
<1>3. table.chat \ {l} \in SUBSET Link
  BY PartsOf DEF Table
<1>4. /\ table'.sender = table.sender \ {l} /\ table'.pending = table.pending \ {l}
      /\ table'.chat = table.chat \ {l}
      /\ router' = router \/ router' = [at |-> "send", on |-> l, why |-> "closed"]
  BY <1>1, <1>2, <1>3, EndsTidy
<1>5. past'.closed = past.closed \cup {l} /\ past'.late = past.late
  BY <1>1, PartsOf
<1>6. \/ router' = router /\ clients' = clients \ {l} /\ shown' = Cardinality(table'.sender)
      \/ router' = [at |-> "send", on |-> l, why |-> "closed"] /\ clients' = clients
  BY <1>2, <1>4 DEF OnClosed, Without
<1>7. hub'.on = hub.on /\ hub'.member \subseteq hub.member
      /\ (l \in table.chat => l \notin hub'.member)
  BY PartsOf DEF OnClosed, Without, Hub
<1>8. PeerStays
  BY <1>1, TimerStays
<1>9. Moves(past'.closed)
  BY <1>2, <1>5, <1>8, ClosedTypes, PartsOf DEF Moves
<1>10. Sending' /\ Counted'
  BY <1>2, <1>5, <1>6 DEF Sending, Counted
<1>11. MembersChat'
  BY <1>4, <1>7 DEF TidyInv, MembersChat
<1>12. Parted'
  BY <1>2, <1>4, <1>5, <1>6 DEF TidyInv, Parted
<1> QED
  BY <1>4, <1>9, <1>10, <1>11, <1>12, MovesTidy

LEMMA MarkerTidy ==
  ASSUME TidyInv, MarkerSent
  PROVE  TidyInv'
<1> DEFINE l == router.on
<1>1. router.at = "send" /\ l \in Link /\ UNCHANGED <<setup, events, relay, past>>
      /\ router' = [router EXCEPT !.at = "idle"] /\ router'.at = "idle"
  BY PartsOf DEF MarkerSent
<1>2. /\ clients' = clients \ {l} /\ shown' = Cardinality(table'.sender)
      /\ table'.sender = table.sender /\ table'.pending = table.pending
      /\ peer' = peer \/ CloseLinks({l})
      /\ \/ router.why = "closed" /\ UNCHANGED <<table, hub, peer>>
         \/ /\ router.why = "hello" /\ hub'.on = hub.on
            /\ IF hub.on THEN table'.chat = table.chat \cup {l} /\ hub'.member = hub.member \cup {l}
               ELSE table'.chat = table.chat \ {l} /\ hub'.member = hub.member
  BY PartsOf DEF MarkerSent, Forgets, Welcome, Without, Chatting, Table, Hub
<1> HIDE DEF l
<1>3. PeerStays
  BY <1>1, <1>2, TimerStays, ClosesStay, PartsOf
<1>4. Moves(past'.closed)
  BY <1>1, <1>3, MarkerTypes, PartsOf DEF Moves
<1>5. Sending' /\ Counted'
  BY <1>1, <1>2 DEF Sending, Counted
<1>6. MembersChat'
  BY <1>2 DEF TidyInv, MembersChat
<1>7. router.why = "closed" => l \in past.closed
  BY <1>1 DEF TidyInv, Sending, l
<1>8. router.why = "hello" => l \notin past.closed
  BY <1>1 DEF TidyInv, Sending, l
<1>9. Parted'
  <2> SUFFICES ASSUME NEW d \in past.closed
               PROVE  /\ d \notin table'.sender \cup table'.pending /\ d \notin clients'
                      /\ d \in table'.chat => d \in past.late
    BY <1>1 DEF Parted
  <2>1. /\ d \notin table.sender \cup table.pending /\ (d \in clients => d = l)
        /\ d \in table.chat => d \in past.late
    BY DEF TidyInv, Parted, l
  <2> QED
    BY <1>2, <1>8, <2>1
<1> QED
  BY <1>2, <1>4, <1>5, <1>6, <1>9, MovesTidy

LEMMA RelayTidy ==
  ASSUME TidyInv, NEW l \in Link, RelayOpens(l) \/ RelayTakes(l) \/ RelayEnds(l) \/ RelayCleans(l)
  PROVE  TidyInv'
<1>1. UNCHANGED <<setup, events, router, hub, clients, shown, past>> /\ BridgeTypeOK'
  BY RelayTypes DEF RelayOpens, RelayTakes, RelayEnds, RelayCleans, RelayOnly, TidyInv
<1>2. /\ table'.pending = table.pending /\ table'.chat = table.chat
      /\ table'.sender = table.sender \/ (RelayCleans(l) /\ table'.sender = table.sender \ {l})
  BY PartsOf DEF RelayOpens, RelayTakes, RelayEnds, RelayCleans, Table, Without
<1>3. PeerStays
  BY TimerStays, ClosesStay, PartsOf DEF RelayOpens, RelayTakes, RelayEnds, RelayCleans
<1>4. Moves(past'.closed)
  BY <1>1, <1>3 DEF Moves
<1>5. Sending' /\ MembersChat' /\ Parted'
  BY <1>1, <1>2 DEF TidyInv, Sending, MembersChat, Parted
<1>6. Counted'
  <2>1. Quietly
    BY <1>1 DEF Quietly
  <2>2. CASE table'.sender = table.sender
    BY <1>1, <1>3, <2>1, <2>2, CountStays
  <2>3. CASE RelayCleans(l) /\ table'.sender = table.sender \ {l} /\ l \in table.sender
    BY <1>1, <2>1, <2>3, CountLoses DEF RelayCleans, LockFree
  <2> QED
    BY <1>2, <2>2, <2>3
<1> QED
  BY <1>2, <1>4, <1>5, <1>6, MovesTidy

LEMMA SwitchTidy ==
  ASSUME TidyInv, SwitchChat
  PROVE  TidyInv'
<1>1. UNCHANGED <<setup, events, router, table, chan, relay, clients, shown, past>> /\ BridgeTypeOK'
  BY SwitchTypes DEF SwitchChat, TidyInv
<1>2. hub'.on = ~hub.on /\ hub'.member = IF hub.on THEN {} ELSE hub.member
  BY DEF SwitchChat
<1>3. PeerStays
  <2>1. Link # {}
    BY BridgeServerAssumption
  <2> QED
    BY <2>1, TimerStays, ClosesStay, PartsOf DEF SwitchChat
<1>4. Moves(past'.closed)
  BY <1>1, <1>3 DEF Moves
<1>5. Sending' /\ Parted'
  BY <1>1 DEF TidyInv, Sending, Parted
<1>6. MembersChat'
  BY <1>1, <1>2 DEF TidyInv, MembersChat
<1>7. Counted'
  BY <1>1, <1>3, CountStays DEF Quietly
<1> QED
  BY <1>1, <1>4, <1>5, <1>6, <1>7, MovesTidy

LEMMA TidyInit == BridgeInit => TidyInv
<1> SUFFICES ASSUME BridgeInit PROVE TidyInv
  OBVIOUS
<1>1. events = <<>> /\ Len(events) = 0 /\ past.closed = {} /\ table.sender = {} /\ hub.member = {}
      /\ router.at = "idle" /\ shown = 0
  BY DEF BridgeInit
<1>2. FunnelOrder
  BY <1>1 DEF FunnelOrder
<1>3. Closings
  <2>1. \A l \in Link : peer[l].link = "none"
    BY DEF BridgeInit
  <2> QED
    BY <1>1, <2>1 DEF Closings
<1>4. Sending /\ Parted /\ MembersChat
  BY <1>1 DEF Sending, Parted, MembersChat
<1>5. Counted
  BY <1>1, FS_EmptySet DEF Counted
<1> QED
  BY <1>2, <1>3, <1>4, <1>5, BridgeInitTypes DEF TidyInv

LEMMA TidyNext == TidyInv /\ [BridgeNext]_bridgeVars => TidyInv'
<1> SUFFICES ASSUME TidyInv, [BridgeNext]_bridgeVars PROVE TidyInv'
  OBVIOUS
<1>1. CASE UNCHANGED bridgeVars
  <2>1. \A l \in Link : CloseQueued(l)' = CloseQueued(l)
    BY <1>1 DEF bridgeVars, CloseQueued, Event
  <2>2. BridgeTypeOK'
    BY <1>1 DEF bridgeVars, TidyInv, BridgeTypeOK
  <2>3. FunnelOrder' /\ Sending' /\ Parted' /\ MembersChat'
    BY <1>1 DEF bridgeVars, TidyInv, FunnelOrder, EventTrue, Sending, Parted, MembersChat
  <2>4. Closings' /\ Counted'
    BY <1>1, <2>1 DEF bridgeVars, TidyInv, Closings, Counted
  <2> QED
    BY <2>2, <2>3, <2>4 DEF TidyInv
<1>2. CASE MarkerSent \/ SwitchChat
  BY <1>2, MarkerTidy, SwitchTidy
<1>3. ASSUME NEW l \in Link,
             \/ OnEstablished(l) \/ OnIdentifiedChat(l) \/ OnIdentified(l) \/ OnTimeoutChat(l)
             \/ OnTimeout(l) \/ OnData(l) \/ OnHello(l) \/ OnClosed(l)
      PROVE  TidyInv'
  BY <1>3, EstablishedTidy, IdentifiedTidy, ChatDecidesTidy, TimeoutTidy, DataTidy, HelloTidy, ClosedTidy
<1>4. ASSUME NEW l \in Link,
             \/ Connects(l) \/ Identifies(l) \/ SaysHello(l) \/ SendsChunk(l) \/ Closes(l)
             \/ TimerFires(l) \/ RelayOpens(l) \/ RelayTakes(l) \/ RelayEnds(l) \/ RelayCleans(l)
      PROVE  TidyInv'
  BY <1>4, PeersTidy, RelayTidy
<1> QED
  BY <1>1, <1>2, <1>3, <1>4 DEF BridgeNext, Handler

LEMMA TidyLeavesNothing == TidyInv => LeavesNothing
<1> SUFFICES ASSUME TidyInv, router.at = "idle" PROVE LeavesNothing
  BY DEF LeavesNothing
<1>1. ASSUME NEW l \in past.closed
      PROVE  /\ l \notin table.sender \cup table.pending \cup clients
             /\ l \in table.chat \cup hub.member => l \in past.late
  BY DEF TidyInv, Parted, MembersChat
<1>2. ASSUME events = <<>>, \A l \in Link : peer[l].link # "closing"
      PROVE  shown = Cardinality(table.sender)
  <2>1. \A l \in Link : ~CloseQueued(l)
    BY <1>2 DEF CloseQueued
  <2> QED
    BY <1>2, <2>1 DEF TidyInv, Counted
<1> QED
  BY <1>1, <1>2 DEF LeavesNothing

\* The router's state keeps its types, with as many links and chunks as one
\* likes (BridgeTypeOK; start_server and its tasks).
THEOREM BridgeTyped == BridgeSpec => []BridgeTypeOK
<1> QED
  BY BridgeInitTypes, BridgeNextTypes, PTL DEF BridgeSpec

\* Whatever the order of a link's identity, its Hello, its timeout, its chunks
\* and its close, a link that closed leaves nothing in the router's maps or the
\* hub but the chat membership of a Hello reported late, and the number of
\* clients the bridge reports comes to be the number of its senders.
THEOREM NothingIsLeft == BridgeSpec => []LeavesNothing
<1>1. BridgeInit => TidyInv
  BY TidyInit
<1>2. TidyInv /\ [BridgeNext]_bridgeVars => TidyInv'
  BY TidyNext
<1>3. TidyInv => LeavesNothing
  BY TidyLeavesNothing
<1> QED
  BY <1>1, <1>2, <1>3, PTL DEF BridgeSpec

\* Who is held.  A link is established once, and nothing reads from it before
\* (Once); whoever is held, chats or has a relay was accepted (Accepted), so the
\* router never holds again a link it decided, and a timeout that comes to a held
\* link ends the hold.
TimeoutQueued(l) == \E j \in 1 .. Len(events) : events[j] = Event("timeout", l)
OnHold == \A l \in table.pending : peer[l].timer = "armed" \/ TimeoutQueued(l)

\* A link is established once, before anything reads from it.
Fresh(e) ==
  /\ e.kind = "established" => chan[e.link].rx = "none"
  /\ e.kind = "hello" => chan[e.link].rx # "none"

Once ==
  /\ \A j \in 1 .. Len(events) : Fresh(events[j])
  /\ \A i, j \in 1 .. Len(events) :
       i < j /\ events[i].kind = "established" /\ events[j].kind = "established"
         => events[i].link # events[j].link
  /\ \A l \in Link : peer[l].link = "none" => chan[l].rx = "none"

\* Whoever is held, is a chat or has a relay was accepted.
Accepted ==
  /\ table.pending \cap table.chat = {}
  /\ \A l \in Link :
       l \in table.pending \/ l \in table.chat \/ relay[l] # "none" => chan[l].rx # "none"
Readers == \A l \in Link : chan[l].rx = "relay" => relay[l] \in {"open", "failed", "run"}

HoldInv == OnHold /\ Once /\ Accepted /\ Readers

\* What a peer does.
LEMMA ReportHolds ==
  ASSUME TidyInv, HoldInv, NEW k \in Kind, NEW l \in Link, Reports(Event(k, l)), PeerOnly,
         \A d \in Link : peer'[d].timer = peer[d].timer \/ (d = l /\ k = "timeout"),
         \A d \in Link : peer'[d].link = "none" => peer[d].link = "none",
         k = "established" => peer[l].link = "none",
         k = "hello" => chan[l].rx # "none"
  PROVE  HoldInv'
<1> DEFINE e == Event(k, l)
           n == Len(events) + 1
<1>1. e.kind = k /\ e.link = l
  BY DEF Event
<1>2. UNCHANGED <<table, chan, relay>>
  BY DEF PeerOnly
<1>3. /\ n \in Nat /\ Len(events') = n /\ events'[n] = e
      /\ \A j \in 1 .. Len(events) : events'[j] = events[j] /\ events[j].link \in Link
      /\ \A j \in 1 .. Len(events') : j \in 1 .. Len(events) \/ j = n
      /\ n \in 1 .. Len(events')
      /\ \A j \in 1 .. Len(events) : j \in 1 .. Len(events')
  BY FunnelAppended DEF TidyInv
<1>4. k = "timeout" => e = Event("timeout", l)
  OBVIOUS
<1> HIDE DEF e, n
<1>5. OnHold'
  <2> SUFFICES ASSUME NEW d \in table.pending
               PROVE  peer'[d].timer = "armed" \/ TimeoutQueued(d)'
    BY <1>2 DEF OnHold
  <2>1. d \in Link
    BY PartsOf DEF Table
  <2>2. CASE d = l /\ k = "timeout"
    BY <1>3, <1>4, <2>2 DEF TimeoutQueued, Event
  <2>3. CASE peer'[d].timer = peer[d].timer
    <3>1. peer[d].timer = "armed" \/ TimeoutQueued(d)
      BY DEF HoldInv, OnHold
    <3>2. TimeoutQueued(d) => TimeoutQueued(d)'
      BY <1>3 DEF TimeoutQueued, Event
    <3> QED
      BY <2>3, <3>1, <3>2
  <2> QED
    BY <2>1, <2>2, <2>3
<1>6. Once'
  <2>1. \A d \in Link : peer'[d].link = "none" => chan'[d].rx = "none"
    BY <1>2 DEF HoldInv, Once
  <2>2. ASSUME NEW j \in 1 .. Len(events') PROVE Fresh(events[j])'
    <3>1. CASE j \in 1 .. Len(events)
      BY <1>2, <1>3, <3>1 DEF HoldInv, Once, Fresh
    <3>2. CASE j = n
      BY <1>1, <1>2, <1>3, <3>2 DEF HoldInv, Once, Fresh
    <3> QED
      BY <1>3, <3>1, <3>2
  <2>3. ASSUME NEW i \in 1 .. Len(events'), NEW j \in 1 .. Len(events'), i < j,
               events'[i].kind = "established", events'[j].kind = "established"
        PROVE  events'[i].link # events'[j].link
    <3>1. i # n
      BY <1>3, <2>3
    <3>2. i \in 1 .. Len(events) /\ events'[i] = events[i]
      BY <1>3, <3>1
    <3>3. peer[events[i].link].link # "none"
      BY <2>3, <3>2 DEF TidyInv, FunnelOrder, EventTrue
    <3>4. CASE j = n
      BY <1>1, <1>3, <2>3, <3>2, <3>3, <3>4
    <3>5. CASE j \in 1 .. Len(events)
      BY <1>3, <2>3, <3>2, <3>5 DEF HoldInv, Once
    <3> QED
      BY <1>3, <3>4, <3>5
  <2> QED
    BY <2>1, <2>2, <2>3 DEF Once
<1>7. Accepted' /\ Readers'
  BY <1>2 DEF HoldInv, Accepted, Readers
<1> QED
  BY <1>5, <1>6, <1>7 DEF HoldInv

LEMMA PeersHold ==
  ASSUME TidyInv, HoldInv, NEW l \in Link,
         \/ Connects(l) \/ Identifies(l) \/ SaysHello(l) \/ SendsChunk(l) \/ Closes(l)
         \/ TimerFires(l)
  PROVE  HoldInv'
<1>1. peer \in [Link -> Peer]
  BY PartsOf
<1>2. CASE Connects(l) \/ Closes(l)
  <2>1. ASSUME NEW d \in Link
        PROVE  peer'[d].timer = peer[d].timer /\ (peer'[d].link = "none" => peer[d].link = "none")
    <3>1. peer[d] \in Peer
      BY <1>1
    <3>2. peer'[d] = peer[d] \/ peer'[d] = [peer[d] EXCEPT !.link = "up"]
            \/ peer'[d] = [peer[d] EXCEPT !.link = "closed"]
      BY <1>1, <1>2 DEF Connects, Closes
    <3> QED
      BY <3>1, <3>2 DEF Peer
  <2>2. Connects(l) => peer[l].link = "none" /\ Reports(Event("established", l)) /\ PeerOnly
    BY DEF Connects
  <2>3. Closes(l) => Reports(Event("closed", l)) /\ PeerOnly
    BY DEF Closes
  <2>4. CASE Connects(l)
    BY <2>1, <2>2, <2>4, ReportHolds DEF Kind
  <2>5. CASE Closes(l)
    BY <2>1, <2>3, <2>5, ReportHolds DEF Kind
  <2> QED
    BY <1>2, <2>4, <2>5
<1>3. CASE Identifies(l) \/ SaysHello(l) \/ SendsChunk(l)
  <2>1. ASSUME NEW d \in Link
        PROVE  peer'[d].timer = peer[d].timer /\ peer'[d].link = peer[d].link
    <3>1. peer[d] \in Peer
      BY <1>1
    <3>2. peer'[d] = peer[d] \/ (\E s : peer'[d] = [peer[d] EXCEPT !.said = s])
            \/ (\E s : peer'[d] = [peer[d] EXCEPT !.sent = s])
      <4>1. CASE Identifies(l)
        BY <1>1, <4>1 DEF Identifies
      <4>2. CASE SaysHello(l)
        BY <1>1, <4>2 DEF SaysHello
      <4>3. CASE SendsChunk(l)
        BY <1>1, <4>3 DEF SendsChunk
      <4> QED
        BY <1>3, <4>1, <4>2, <4>3
    <3> QED
      BY <3>1, <3>2 DEF Peer
  <2>2. PeerOnly /\ (Reports(Event("identified", l)) \/ Reports(Event("data", l))
                     \/ (Reports(Event("hello", l)) /\ chan[l].rx # "none"))
    BY <1>3 DEF Identifies, SaysHello, SendsChunk
  <2> QED
    BY <2>1, <2>2, ReportHolds DEF Kind
<1>4. CASE TimerFires(l)
  <2>1. ASSUME NEW d \in Link
        PROVE  (peer'[d].timer = peer[d].timer \/ d = l) /\ peer'[d].link = peer[d].link
    <3>1. peer[d] \in Peer
      BY <1>1
    <3>2. peer'[d] = peer[d] \/ (d = l /\ peer'[d] = [peer[d] EXCEPT !.timer = "fired"])
      BY <1>1, <1>4 DEF TimerFires
    <3> QED
      BY <3>1, <3>2 DEF Peer
  <2>2. PeerOnly /\ Reports(Event("timeout", l))
    BY <1>4 DEF TimerFires
  <2> QED
    BY <2>1, <2>2, ReportHolds DEF Kind
<1> QED
  BY <1>2, <1>3, <1>4

\* What the router and the relays do to the peers: at most a timer starts.
TimersRun ==
  \A d \in Link : /\ peer'[d].timer = peer[d].timer \/ peer'[d].timer = "armed"
                  /\ peer'[d].link = "none" => peer[d].link = "none"

LEMMA TimersStay ==
  ASSUME TidyInv,
         peer' = peer \/ (\E S \in SUBSET Link : CloseLinks(S))
           \/ (\E l \in Link : peer' = [peer EXCEPT ![l].timer = "armed"])
  PROVE  TimersRun
<1> SUFFICES ASSUME NEW d \in Link
             PROVE  /\ peer'[d].timer = peer[d].timer \/ peer'[d].timer = "armed"
                    /\ peer'[d].link = "none" => peer[d].link = "none"
  BY DEF TimersRun
<1>1. peer \in [Link -> Peer] /\ peer[d] \in Peer
  BY PartsOf
<1>2. \/ peer'[d] = peer[d] \/ peer'[d] = [peer[d] EXCEPT !.link = "closing"]
      \/ peer'[d] = [peer[d] EXCEPT !.timer = "armed"]
  BY <1>1 DEF CloseLinks
<1> QED
  BY <1>1, <1>2 DEF Peer

\* A step of the router or of a relay: it takes the head of the funnel, or nothing.
LEMMA StepHolds ==
  ASSUME TidyInv, HoldInv, events' = events \/ Took, TimersRun,
         \A d \in Link : chan[d].rx # "none" => chan'[d].rx # "none",
         \A d \in Link : chan[d].rx = "none" /\ chan'[d].rx # "none"
                           => Took /\ Head(events) = Event("established", d),
         \A d \in table'.pending :
           \/ d \in Link /\ peer'[d].timer = "armed"
           \/ d \in table.pending /\ (Took => Head(events) # Event("timeout", d)),
         Accepted', Readers'
  PROVE  HoldInv'
<1>1. OnHold'
  <2> SUFFICES ASSUME NEW d \in table'.pending, peer'[d].timer # "armed" PROVE TimeoutQueued(d)'
    BY DEF OnHold
  <2>1. d \in table.pending /\ (Took => Head(events) # Event("timeout", d)) /\ d \in Link
    BY PartsOf DEF Table
  <2>2. TimeoutQueued(d)
    BY <2>1 DEF HoldInv, OnHold, TimersRun
  <2>3. PICK j \in 1 .. Len(events) : events[j] = Event("timeout", d)
    BY <2>2 DEF TimeoutQueued
  <2>4. CASE events' = events
    BY <2>2, <2>4 DEF TimeoutQueued, Event
  <2>5. CASE Took
    <3>1. j # 1
      BY <2>1, <2>3, <2>5, FunnelTail DEF TidyInv
    <3>2. j - 1 \in 1 .. Len(events') /\ (j - 1) + 1 = j
      BY <2>5, <3>1, FunnelTail DEF TidyInv
    <3>3. events'[j - 1] = Event("timeout", d)
      BY <2>3, <2>5, <3>2, FunnelTail DEF TidyInv
    <3> QED
      BY <3>2, <3>3 DEF TimeoutQueued, Event
  <2> QED
    BY <2>4, <2>5
<1>2. \A d \in Link : peer'[d].link = "none" => chan'[d].rx = "none"
  <2> SUFFICES ASSUME NEW d \in Link, peer'[d].link = "none", chan'[d].rx # "none" PROVE FALSE
    OBVIOUS
  <2>1. peer[d].link = "none" /\ chan[d].rx = "none"
    BY DEF TimersRun, HoldInv, Once
  <2>2. Took /\ Head(events) = Event("established", d)
    BY <2>1
  <2>3. events[1] = Event("established", d) /\ 1 \in 1 .. Len(events)
    BY <2>2, FunnelTail DEF TidyInv
  <2>4. EventTrue(events[1])
    BY <2>3 DEF TidyInv, FunnelOrder
  <2> QED
    BY <2>1, <2>3, <2>4 DEF EventTrue, Event
<1>3. ASSUME NEW j \in 1 .. Len(events') PROVE Fresh(events[j])'
  <2>1. \A m \in 1 .. Len(events) : Fresh(events[m]) /\ events[m] \in [kind : Kind, link : Link]
    <3>1. events \in Seq([kind : Kind, link : Link])
      BY DEF TidyInv, BridgeTypeOK
    <3> QED
      BY <3>1, ElementOfSeq DEF HoldInv, Once
  <2>2. CASE events' = events /\ ~Took
    <3>1. events'[j] = events[j] /\ Fresh(events[j]) /\ events[j].link \in Link
      BY <2>1, <2>2
    <3> QED
      BY <2>2, <3>1 DEF Fresh
  <2>3. CASE Took
    <3>1. /\ j + 1 \in 1 .. Len(events) /\ events'[j] = events[j + 1] /\ 1 \in 1 .. Len(events)
          /\ Head(events) = events[1] /\ 1 < j + 1
      BY <2>3, FunnelTail DEF TidyInv
    <3>2. Fresh(events[j + 1]) /\ events[j + 1].link \in Link
      BY <2>1, <3>1
    <3>3. ASSUME events[j + 1].kind = "established" PROVE Head(events) # Event("established", events[j + 1].link)
      <4>1. events[1].kind = "established" => events[1].link # events[j + 1].link
        BY <3>1, <3>3 DEF HoldInv, Once
      <4> QED
        BY <3>1, <4>1 DEF Event
    <3> QED
      BY <3>1, <3>2, <3>3 DEF Fresh
  <2> QED
    BY <2>2, <2>3
<1>4. ASSUME NEW i \in 1 .. Len(events'), NEW j \in 1 .. Len(events'), i < j,
             events'[i].kind = "established", events'[j].kind = "established"
      PROVE  events'[i].link # events'[j].link
  <2>1. CASE events' = events
    BY <1>4, <2>1 DEF HoldInv, Once
  <2>2. CASE Took
    <3>1. /\ i + 1 \in 1 .. Len(events) /\ events'[i] = events[i + 1]
          /\ j + 1 \in 1 .. Len(events) /\ events'[j] = events[j + 1] /\ i + 1 < j + 1
      BY <1>4, <2>2, FunnelTail DEF TidyInv
    <3> QED
      BY <1>4, <3>1 DEF HoldInv, Once
  <2> QED
    BY <2>1, <2>2
<1>5. Once'
  BY <1>2, <1>3, <1>4 DEF Once
<1> QED
  BY <1>1, <1>5 DEF HoldInv

\* The same when the step is about one link.
LEMMA OneHolds ==
  ASSUME TidyInv, HoldInv, NEW l \in Link, TimersRun,
         events' = events \/ (Took /\ Head(events).link = l),
         table' \in Table,
         \A d \in Link : d # l =>
           /\ chan'[d].rx = chan[d].rx /\ relay'[d] = relay[d]
           /\ d \in table'.pending => d \in table.pending
           /\ d \in table'.chat => d \in table.chat,
         chan[l].rx = "none" => chan'[l].rx = "none" \/ (Took /\ Head(events) = Event("established", l)),
         l \in table'.pending =>
           l \notin table'.chat
             /\ (peer'[l].timer = "armed" \/ (l \in table.pending /\ (Took => Head(events).kind # "timeout"))),
         chan'[l].rx = "none" => /\ chan[l].rx = "none" /\ relay'[l] = "none"
                                 /\ l \notin table'.pending /\ l \notin table'.chat,
         chan'[l].rx = "relay" => relay'[l] \in {"open", "failed", "run"}
  PROVE  HoldInv'
<1>1. Accepted'
  <2>1. table'.pending \cap table'.chat = {}
    <3> SUFFICES ASSUME NEW d \in Link, d \in table'.pending, d \in table'.chat PROVE FALSE
      BY DEF Table
    <3>1. d # l
      OBVIOUS
    <3> QED
      BY <3>1 DEF HoldInv, Accepted
  <2>2. ASSUME NEW d \in Link, chan'[d].rx = "none"
        PROVE  d \notin table'.pending /\ d \notin table'.chat /\ relay'[d] = "none"
    <3>1. CASE d # l
      BY <2>2, <3>1 DEF HoldInv, Accepted
    <3> QED
      BY <2>2, <3>1
  <2> QED
    BY <2>1, <2>2 DEF Accepted
<1>2. Readers'
  BY DEF HoldInv, Readers
<1>3. ASSUME NEW d \in table'.pending
      PROVE  \/ d \in Link /\ peer'[d].timer = "armed"
             \/ d \in table.pending /\ (Took => Head(events) # Event("timeout", d))
  <2>1. d \in Link
    BY DEF Table
  <2>2. CASE d = l
    BY <1>3, <2>1, <2>2 DEF Event
  <2>3. CASE d # l
    <3>1. d \in table.pending
      BY <1>3, <2>1, <2>3
    <3>2. ASSUME Took, Head(events) = Event("timeout", d) PROVE FALSE
      <4>1. Head(events).link = d
        BY <3>2 DEF Event
      <4>2. events' # events
        BY <3>2, FunnelTail DEF TidyInv
      <4> QED
        BY <2>3, <4>1, <4>2
    <3> QED
      BY <3>1, <3>2
  <2> QED
    BY <2>2, <2>3
<1>4. \A d \in Link : chan[d].rx # "none" => chan'[d].rx # "none"
  OBVIOUS
<1>5. \A d \in Link : chan[d].rx = "none" /\ chan'[d].rx # "none"
                        => Took /\ Head(events) = Event("established", d)
  OBVIOUS
<1> QED
  BY <1>1, <1>2, <1>3, <1>4, <1>5, StepHolds

\* What starting a link's game, or dropping its receiver, does.
LEMMA GameChannels ==
  ASSUME TidyInv, NEW l \in Link, StartGame(l) \/ DropReceiver(l) \/ UNCHANGED <<chan, relay>>
  PROVE  /\ \A d \in Link : d # l => chan'[d] = chan[d] /\ relay'[d] = relay[d]
         /\ StartGame(l) => relay'[l] = "open" /\ chan'[l].rx \in {"gone", "relay"}
         /\ ~StartGame(l) => /\ relay' = relay
                             /\ chan'[l].rx = chan[l].rx \/ (l \in table.pending /\ chan'[l].rx = "gone")
<1>1. chan \in [Link -> Channels] /\ chan[l] \in Channels
      /\ relay \in [Link -> {"none", "open", "failed", "run", "ended", "gone"}]
  BY PartsOf DEF DataTypes
<1>2. CASE StartGame(l)
  <2>1. chan'[l] = [chan[l] EXCEPT !.rx = IF setup.tcp THEN "gone" ELSE "relay"]
    BY <1>1, <1>2 DEF StartGame
  <2>2. chan'[l].rx \in {"gone", "relay"}
    BY <1>1, <2>1 DEF Channels
  <2> QED
    BY <1>1, <1>2, <2>2 DEF StartGame
<1>3. CASE ~StartGame(l) /\ DropReceiver(l)
  <2>1. \/ chan'[l] = chan[l]
        \/ l \in table.pending /\ chan'[l] = [chan[l] EXCEPT !.rx = "gone", !.full = 0]
    BY <1>1, <1>3 DEF DropReceiver
  <2>2. chan'[l].rx = chan[l].rx \/ (l \in table.pending /\ chan'[l].rx = "gone")
    BY <1>1, <2>1 DEF Channels
  <2> QED
    BY <1>1, <1>3, <2>2 DEF DropReceiver
<1>4. CASE ~StartGame(l) /\ UNCHANGED <<chan, relay>>
  BY <1>4
<1> QED
  BY <1>2, <1>3, <1>4

LEMMA EstablishedHolds ==
  ASSUME TidyInv, HoldInv, NEW l \in Link, OnEstablished(l)
  PROVE  HoldInv'
<1>1. Took /\ Head(events) = Event("established", l) /\ Head(events).link = l /\ Head(events).kind = "established"
  BY DEF OnEstablished, Handles, Took, Event
<1>2. chan[l].rx = "none"
  <2>1. Fresh(events[1]) /\ Head(events) = events[1]
    BY <1>1, FunnelTail DEF TidyInv, HoldInv, Once
  <2> QED
    BY <1>1, <2>1 DEF Fresh
<1>3. l \notin table.pending /\ l \notin table.chat /\ relay[l] = "none"
  BY <1>2 DEF HoldInv, Accepted
<1>4. TimersRun
  BY TimersStay DEF OnEstablished
<1>5. table' \in Table /\ table'.chat = table.chat
      /\ table'.pending = (IF setup.allowlist \/ setup.tcp THEN table.pending \cup {l} ELSE table.pending)
  BY PartsOf DEF OnEstablished, Table
<1>6. CASE setup.allowlist \/ setup.tcp
  <2>1. chan' = [chan EXCEPT ![l].rx = "pending"] /\ peer' = [peer EXCEPT ![l].timer = "armed"] /\ relay' = relay
    BY <1>6 DEF OnEstablished
  <2>2. chan[l] \in Channels /\ peer[l] \in Peer /\ chan'[l] = [chan[l] EXCEPT !.rx = "pending"]
        /\ peer'[l] = [peer[l] EXCEPT !.timer = "armed"]
        /\ \A d \in Link : d # l => chan'[d] = chan[d]
    BY <2>1, PartsOf
  <2>3. chan'[l].rx = "pending" /\ peer'[l].timer = "armed"
    BY <2>2 DEF Channels, Peer
  <2> QED
    BY <1>1, <1>3, <1>4, <1>5, <2>1, <2>2, <2>3, OneHolds
<1>7. CASE ~(setup.allowlist \/ setup.tcp)
  <2>1. StartGame(l)
    BY <1>7 DEF OnEstablished
  <2> QED
    BY <1>1, <1>3, <1>4, <1>5, <1>7, <2>1, GameChannels, OneHolds
<1> QED
  BY <1>6, <1>7

LEMMA IdentifiedHolds ==
  ASSUME TidyInv, HoldInv, NEW l \in Link, OnIdentified(l) \/ OnTimeout(l)
  PROVE  HoldInv'
<1>1. Took /\ Head(events).link = l
  BY DEF OnIdentified, OnTimeout, Handles, Took, Event
<1>2. TimersRun
  BY TimersStay DEF OnIdentified, OnTimeout
<1>3. table' \in Table /\ table'.chat = table.chat /\ table'.pending = table.pending \ {l}
  <2>1. table \in Table
    BY PartsOf
  <2>2. CASE OnIdentified(l)
    BY <2>1, <2>2 DEF OnIdentified, Without, Table
  <2>3. CASE OnTimeout(l) /\ l \notin table.pending
    BY <2>1, <2>3 DEF OnTimeout, Table
  <2>4. CASE OnTimeout(l) /\ l \in table.pending
    <3>1. table' = [table EXCEPT !.pending = table.pending \ {l},
                                !.sender = IF setup.allowlist THEN table.sender \ {l} ELSE table.sender]
      BY <2>4 DEF OnTimeout, Without
    <3> QED
      BY <2>1, <3>1 DEF Table
  <2> QED
    BY <2>2, <2>3, <2>4
<1>4. StartGame(l) \/ DropReceiver(l) \/ UNCHANGED <<chan, relay>>
  BY DEF OnIdentified, OnTimeout
<1>5. l \in table.pending \/ UNCHANGED <<chan, relay>>
  <2> SUFFICES ASSUME l \notin table.pending PROVE UNCHANGED <<chan, relay>>
    OBVIOUS
  <2>1. CASE UNCHANGED <<chan, relay>>
    BY <2>1
  <2>2. CASE DropReceiver(l)
    <3>1. chan' = [chan EXCEPT ![l] = chan[l]] /\ relay' = relay
      BY <2>2 DEF DropReceiver
    <3> QED
      BY <3>1, PartsOf
  <2> QED
    BY <2>1, <2>2 DEF OnIdentified, OnTimeout
<1>6. chan[l].rx = "none" => l \notin table.pending /\ l \notin table.chat /\ relay[l] = "none"
  BY DEF HoldInv, Accepted
<1>7. chan[l].rx = "relay" => relay[l] \in {"open", "failed", "run"}
  BY DEF HoldInv, Readers
<1> QED
  BY <1>1, <1>2, <1>3, <1>4, <1>5, <1>6, <1>7, GameChannels, OneHolds

LEMMA ChatDecidesHolds ==
  ASSUME TidyInv, HoldInv, NEW l \in Link, OnIdentifiedChat(l) \/ OnTimeoutChat(l)
  PROVE  HoldInv'
<1>1. Took /\ Head(events).link = l /\ UNCHANGED <<chan, relay>> /\ l \in table.chat
  BY DEF OnIdentifiedChat, OnTimeoutChat, Handles, Took, Event
<1>2. TimersRun
  BY TimersStay DEF OnIdentifiedChat, OnTimeoutChat
<1>3. table' \in Table /\ table'.chat \subseteq table.chat /\ table'.pending = table.pending
  BY PartsOf DEF OnIdentifiedChat, OnTimeoutChat, Table, Without
<1>4. l \notin table.pending /\ chan[l].rx # "none" /\ (chan[l].rx = "relay" => relay[l] \in {"open", "failed", "run"})
  BY <1>1 DEF HoldInv, Accepted, Readers
<1> QED
  BY <1>1, <1>2, <1>3, <1>4, OneHolds

LEMMA DataHolds ==
  ASSUME TidyInv, HoldInv, NEW l \in Link, OnData(l)
  PROVE  HoldInv'
<1>1. Took /\ Head(events).link = l /\ Head(events).kind = "data" /\ UNCHANGED <<peer, table, relay>>
  BY DEF OnData, Handles, Took, Event
<1>2. TimersRun
  BY <1>1, TimersStay
<1>3. \A d \in Link : chan'[d].rx = chan[d].rx
  <2> SUFFICES ASSUME NEW d \in Link PROVE chan'[d].rx = chan[d].rx
    OBVIOUS
  <2>1. chan[d] \in Channels /\ chan \in [Link -> Channels]
    BY PartsOf
  <2>2. chan'[d] = chan[d] \/ \E n : chan'[d] = [chan[d] EXCEPT !.full = n]
    BY <2>1 DEF OnData
  <2> QED
    BY <2>1, <2>2 DEF Channels
<1>4. /\ chan[l].rx = "none" => l \notin table.pending /\ l \notin table.chat /\ relay[l] = "none"
      /\ chan[l].rx = "relay" => relay[l] \in {"open", "failed", "run"}
      /\ l \in table.pending => l \notin table.chat
  BY DEF HoldInv, Accepted, Readers
<1> QED
  BY <1>1, <1>2, <1>3, <1>4, PartsOf, OneHolds

LEMMA EndsHolds ==
  ASSUME TidyInv, HoldInv, NEW l \in Link, NEW c \in SUBSET Link, EndsGame(l, c),
         \A d \in c : d = l \/ d \in table.chat, l \in c => chan[l].rx # "none",
         Took, Head(events).link = l, TimersRun
  PROVE  HoldInv'
<1>1. table' \in Table /\ table'.pending = table.pending \ {l} /\ table'.chat = c
  BY PartsOf DEF EndsGame, Without, Table
<1>2. /\ relay' = relay /\ \A d \in Link : d # l => chan'[d] = chan[d]
      /\ chan'[l].rx = chan[l].rx \/ (l \in table.pending /\ chan'[l].rx = "gone")
  <2>1. CASE UNCHANGED <<chan, relay>>
    BY <2>1
  <2>2. CASE chan' = [chan EXCEPT ![l].end = TRUE] /\ relay' = relay
    <3>1. chan[l] \in Channels /\ chan'[l] = [chan[l] EXCEPT !.end = TRUE]
          /\ \A d \in Link : d # l => chan'[d] = chan[d]
      BY <2>2, PartsOf
    <3> QED
      BY <2>2, <3>1 DEF Channels
  <2>3. CASE DropReceiver(l)
    <3>1. relay' = relay
      BY <2>3 DEF DropReceiver
    <3>2. chan \in [Link -> Channels] /\ chan[l] \in Channels
      BY PartsOf
    <3>3. \/ chan'[l] = chan[l]
          \/ l \in table.pending /\ chan'[l] = [chan[l] EXCEPT !.rx = "gone", !.full = 0]
      BY <2>3, <3>2 DEF DropReceiver
    <3>4. \A d \in Link : d # l => chan'[d] = chan[d]
      BY <2>3, <3>2 DEF DropReceiver
    <3> QED
      BY <3>1, <3>2, <3>3, <3>4 DEF Channels
  <2> QED
    BY <2>1, <2>2, <2>3 DEF EndsGame
<1>3. /\ chan[l].rx = "none" => l \notin table.pending /\ l \notin table.chat /\ relay[l] = "none"
      /\ chan[l].rx = "relay" => relay[l] \in {"open", "failed", "run"}
  BY DEF HoldInv, Accepted, Readers
<1> QED
  BY <1>1, <1>2, <1>3, OneHolds

LEMMA HelloHolds ==
  ASSUME TidyInv, HoldInv, NEW l \in Link, OnHello(l) \/ OnClosed(l)
  PROVE  HoldInv'
<1>1. Took /\ Head(events).link = l
  BY DEF OnHello, OnClosed, Handles, Took, Event
<1>2. TimersRun
  BY TimersStay DEF OnHello, OnClosed, Welcome
<1>3. table.chat \in SUBSET Link
  BY PartsOf DEF Table
<1>4. CASE OnClosed(l)
  <2>1. EndsGame(l, table.chat \ {l})
    BY <1>4 DEF OnClosed, Without
  <2> QED
    BY <1>1, <1>2, <1>3, <2>1, EndsHolds
<1>5. CASE OnHello(l)
  <2>1. PICK c \in SUBSET Link : EndsGame(l, c) /\ \A d \in c : d = l \/ d \in table.chat
    BY <1>3, <1>5 DEF OnHello, Chatting, Without
  <2>2. Fresh(events[1]) /\ Head(events) = events[1] /\ Head(events).kind = "hello"
    BY <1>1, <1>5, FunnelTail, HeadTrue DEF OnHello, TidyInv, HoldInv, Once
  <2>3. chan[l].rx # "none"
    BY <1>1, <2>2 DEF Fresh
  <2> QED
    BY <1>1, <1>2, <2>1, <2>3, EndsHolds
<1> QED
  BY <1>4, <1>5

LEMMA MarkerHolds ==
  ASSUME TidyInv, HoldInv, MarkerSent
  PROVE  HoldInv'
<1>1. PICK l \in Link : l = router.on
  BY PartsOf
<1>2. /\ UNCHANGED <<events, relay>> /\ chan' = [chan EXCEPT ![l].end = chan[l].rx = "relay"]
      /\ Forgets(l) \/ Welcome(l)
  BY <1>1 DEF MarkerSent
<1>3. table' \in Table /\ table'.pending = table.pending /\ table'.chat \subseteq table.chat
  BY <1>1, PartsOf DEF MarkerSent, Chatting, Without, Table, TidyInv, Sending
<1>4. TimersRun
  BY <1>2, TimersStay DEF Forgets, Welcome
<1>5. (\A d \in Link : d # l => chan'[d] = chan[d]) /\ chan'[l].rx = chan[l].rx
  <2>1. chan[l] \in Channels /\ (\E b : chan'[l] = [chan[l] EXCEPT !.end = b])
        /\ \A d \in Link : d # l => chan'[d] = chan[d]
    BY <1>2, PartsOf
  <2> QED
    BY <2>1 DEF Channels
<1>6. /\ chan[l].rx = "none" => l \notin table.pending /\ l \notin table.chat /\ relay[l] = "none"
      /\ chan[l].rx = "relay" => relay[l] \in {"open", "failed", "run"}
      /\ l \in table.pending => l \notin table.chat
  BY DEF HoldInv, Accepted, Readers
<1>7. ~Took
  BY <1>2, FunnelTail DEF TidyInv
<1> QED
  BY <1>2, <1>4, <1>5, <1>6, <1>7, <1>3, OneHolds

LEMMA RelayHolds ==
  ASSUME TidyInv, HoldInv, NEW l \in Link, RelayOpens(l) \/ RelayTakes(l) \/ RelayEnds(l) \/ RelayCleans(l)
  PROVE  HoldInv'
<1>1. events' = events /\ ~Took
  <2>1. events' = events
    BY DEF RelayOpens, RelayTakes, RelayEnds, RelayCleans, RelayOnly
  <2> QED
    BY <2>1, FunnelTail DEF TidyInv
<1>2. TimersRun
  BY TimersStay DEF RelayOpens, RelayTakes, RelayEnds, RelayCleans
<1>3. table' \in Table /\ table'.pending = table.pending /\ table'.chat = table.chat
  BY PartsOf DEF RelayOpens, RelayTakes, RelayEnds, RelayCleans, Table, Without
<1>4. \A d \in Link : d # l => chan'[d] = chan[d] /\ relay'[d] = relay[d]
  BY PartsOf DEF RelayOpens, RelayTakes, RelayEnds, RelayCleans, DataTypes
<1>5. /\ relay[l] # "none" /\ chan[l].rx # "none" /\ chan'[l].rx # "none"
      /\ chan'[l].rx = "relay" => relay'[l] \in {"open", "failed", "run"}
  <2>1. relay[l] # "none" /\ chan[l].rx # "none"
    BY DEF RelayOpens, RelayTakes, RelayEnds, RelayCleans, HoldInv, Accepted
  <2>2. relay \in [Link -> {"none", "open", "failed", "run", "ended", "gone"}] /\ chan[l] \in Channels
    BY PartsOf DEF DataTypes
  <2>3. CASE RelayOpens(l)
    BY <2>1, <2>2, <2>3 DEF RelayOpens
  <2>4. CASE RelayTakes(l)
    <3>1. chan'[l] = [chan[l] EXCEPT !.full = @ - 1] /\ relay[l] = "run" /\ relay' = relay
      BY <2>4, PartsOf DEF RelayTakes
    <3> QED
      BY <2>1, <2>2, <3>1 DEF Channels
  <2>5. CASE RelayEnds(l) \/ RelayCleans(l)
    <3>1. chan'[l].rx = "gone"
      BY <2>5, PartsOf DEF RelayEnds, RelayCleans
    <3> QED
      BY <2>1, <3>1
  <2> QED
    BY <2>3, <2>4, <2>5
<1>6. l \in table.pending => l \notin table.chat
  BY DEF HoldInv, Accepted
<1> QED
  BY <1>1, <1>2, <1>3, <1>4, <1>5, <1>6, OneHolds

LEMMA SwitchHolds ==
  ASSUME TidyInv, HoldInv, SwitchChat
  PROVE  HoldInv'
<1>1. UNCHANGED <<events, table, chan, relay>> /\ ~Took
  <2>1. UNCHANGED <<events, table, chan, relay>>
    BY DEF SwitchChat
  <2> QED
    BY <2>1, FunnelTail DEF TidyInv
<1>2. TimersRun
  <2>1. hub.member \in SUBSET Link
    BY PartsOf DEF Hub
  <2> QED
    BY <2>1, TimersStay DEF SwitchChat
<1>3. Accepted' /\ Readers'
  BY <1>1 DEF HoldInv, Accepted, Readers
<1>4. \A d \in table'.pending : d \in table.pending
  BY <1>1
<1> QED
  BY <1>1, <1>2, <1>3, <1>4, StepHolds

LEMMA HoldInit == BridgeInit => HoldInv
<1> SUFFICES ASSUME BridgeInit PROVE HoldInv
  OBVIOUS
<1>1. events = <<>> /\ Len(events) = 0 /\ table.pending = {} /\ table.chat = {}
      /\ \A l \in Link : chan[l].rx = "none" /\ relay[l] = "none"
  BY DEF BridgeInit
<1> QED
  BY <1>1 DEF HoldInv, OnHold, Once, Accepted, Readers

LEMMA HoldNext == TidyInv /\ HoldInv /\ [BridgeNext]_bridgeVars => HoldInv'
<1> SUFFICES ASSUME TidyInv, HoldInv, [BridgeNext]_bridgeVars PROVE HoldInv'
  OBVIOUS
<1>1. CASE UNCHANGED bridgeVars
  BY <1>1 DEF bridgeVars, HoldInv, OnHold, TimeoutQueued, Event, Once, Fresh, Accepted, Readers
<1>2. CASE MarkerSent \/ SwitchChat
  BY <1>2, MarkerHolds, SwitchHolds
<1>3. ASSUME NEW l \in Link,
             \/ OnEstablished(l) \/ OnIdentifiedChat(l) \/ OnIdentified(l) \/ OnTimeoutChat(l)
             \/ OnTimeout(l) \/ OnData(l) \/ OnHello(l) \/ OnClosed(l)
      PROVE  HoldInv'
  BY <1>3, EstablishedHolds, IdentifiedHolds, ChatDecidesHolds, DataHolds, HelloHolds
<1>4. ASSUME NEW l \in Link,
             \/ Connects(l) \/ Identifies(l) \/ SaysHello(l) \/ SendsChunk(l) \/ Closes(l)
             \/ TimerFires(l) \/ RelayOpens(l) \/ RelayTakes(l) \/ RelayEnds(l) \/ RelayCleans(l)
      PROVE  HoldInv'
  BY <1>4, PeersHold, RelayHolds
<1> QED
  BY <1>1, <1>2, <1>3, <1>4 DEF BridgeNext, Handler

\* Whatever a link's events and their order, while it is held to identify its
\* timeout is still to come, and a router that waits for room in a channel has a
\* relay that is not over to wait for (OnEstablished, OnTimeout and OnHello of
\* start_server's router).  That the wait ends is what Decided adds, under fairness.
THEOREM NobodyIsStranded == BridgeSpec => []NobodyStranded
<1>1. BridgeInit => TidyInv /\ HoldInv
  BY TidyInit, HoldInit
<1>2. TidyInv /\ HoldInv /\ [BridgeNext]_bridgeVars => TidyInv' /\ HoldInv'
  BY TidyNext, HoldNext
<1>3. TidyInv /\ HoldInv => NobodyStranded
  BY PartsOf DEF HoldInv, OnHold, TimeoutQueued, Readers, NobodyStranded
<1> QED
  BY <1>1, <1>2, <1>3, PTL DEF BridgeSpec

(***************************************************************************)
(* The client.                                                             *)
(***************************************************************************)
Pump == [at : {"free", "establish", "register", "run", "done"}, src : Src,
         link : {"none", "up", "closed"}, queue : Seq(BOOLEAN),
         sends : BOOLEAN, hears : BOOLEAN]

\* The part of the types the argument rests on.
PumpTypes ==
  /\ loop \in [at : {"read", "send", "shut"}, src : Src, empty : BOOLEAN]
  /\ udpLinks \in [Src -> Task \cup {Nobody}]
  /\ task \in [Task -> Pump]
  /\ empties \in Nat

\* Every entry of udp_links is a task of that source that is not over.
Mapped ==
  \A s \in Src : udpLinks[s] # Nobody =>
    task[udpLinks[s]].src = s /\ task[udpLinks[s]].at \in {"register", "run"}

\* An empty packet under way was sent.
EmptiesSent ==
  /\ loop.at = "send" /\ loop.empty => empties > 0
  /\ loop.at = "shut" => empties > 0
  /\ \A k \in Task : \A j \in 1 .. Len(task[k].queue) : task[k].queue[j] => empties > 0

\* A task that is its source's and takes nothing any more has met one.
Stopped ==
  \A k \in Task :
    task[k].at = "run" /\ ~task[k].sends /\ udpLinks[task[k].src] = k => empties > 0

\* While the loop hands a packet over nobody changes the map.
Handing == loop.at = "send" => udpLinks[loop.src] # Nobody

PumpInv == PumpTypes /\ Mapped /\ EmptiesSent /\ Stopped /\ Handing

\* What a step does to task k: the fields the invariant speaks of.
Turns(k, at, src, queue, sends) ==
  /\ task' \in [Task -> Pump]
  /\ task'[k].at = at /\ task'[k].src = src /\ task'[k].queue = queue /\ task'[k].sends = sends
  /\ \A j \in Task \ {k} : task'[j] = task[j]

Shape(e, at, src, queue, sends) ==
  e \in Pump /\ e.at = at /\ e.src = src /\ e.queue = queue /\ e.sends = sends

LEMMA TurnsInto ==
  ASSUME PumpTypes, NEW k \in Task, NEW e, NEW at, NEW src, NEW queue, NEW sends,
         Shape(e, at, src, queue, sends), task' = [task EXCEPT ![k] = e]
  PROVE  Turns(k, at, src, queue, sends)
BY DEF PumpTypes, Turns, Shape

LEMMA NewPumpShape ==
  ASSUME NEW s \in Src
  PROVE  /\ Shape(NewPump, "free", NewPump.src, <<>>, FALSE) /\ NewPump.src \in Src
         /\ Shape([NewPump EXCEPT !.at = "establish", !.src = s], "establish", s, <<>>, FALSE)
         /\ Shape([NewPump EXCEPT !.at = "done"], "done", NewPump.src, <<>>, FALSE)
<1>1. (CHOOSE r \in Src : TRUE) \in Src
  BY BridgeClientAssumption
<1>2. <<>> \in Seq(BOOLEAN)
  OBVIOUS
<1>3. /\ NewPump \in Pump /\ NewPump.src \in Src /\ NewPump.at = "free"
      /\ NewPump.queue = <<>> /\ NewPump.sends = FALSE
  BY <1>1, <1>2 DEF NewPump, Pump
<1>4. Shape([NewPump EXCEPT !.at = "establish", !.src = s], "establish", s, <<>>, FALSE)
  BY <1>3, Zenon DEF Pump, Shape
<1>5. Shape([NewPump EXCEPT !.at = "done"], "done", NewPump.src, <<>>, FALSE)
  BY <1>3, Zenon DEF Pump, Shape
<1> QED
  BY <1>3, <1>4, <1>5 DEF Shape

\* What becomes of a task whose fields a step sets.
LEMMA SetShape ==
  ASSUME NEW d \in Pump, NEW q \in Seq(BOOLEAN), NEW b \in BOOLEAN
  PROVE  /\ Shape([d EXCEPT !.queue = q], d.at, d.src, q, d.sends)
         /\ Shape([d EXCEPT !.at = "register", !.link = "up"], "register", d.src, d.queue, d.sends)
         /\ Shape([d EXCEPT !.at = "run", !.sends = TRUE, !.hears = TRUE],
                  "run", d.src, d.queue, TRUE)
         /\ Shape([d EXCEPT !.sends = b, !.queue = q], d.at, d.src, q, b)
         /\ Shape([d EXCEPT !.sends = FALSE], d.at, d.src, d.queue, FALSE)
         /\ Shape([d EXCEPT !.hears = FALSE], d.at, d.src, d.queue, d.sends)
         /\ Shape([d EXCEPT !.at = "done", !.link = "closed"], "done", d.src, d.queue, d.sends)
         /\ Shape([d EXCEPT !.link = "closed"], d.at, d.src, d.queue, d.sends)
<1>1. Shape([d EXCEPT !.queue = q], d.at, d.src, q, d.sends)
  BY Zenon DEF Pump, Shape
<1>2. Shape([d EXCEPT !.at = "register", !.link = "up"], "register", d.src, d.queue, d.sends)
  BY Zenon DEF Pump, Shape
<1>3. Shape([d EXCEPT !.at = "run", !.sends = TRUE, !.hears = TRUE], "run", d.src, d.queue, TRUE)
  BY Zenon DEF Pump, Shape
<1>4. Shape([d EXCEPT !.sends = b, !.queue = q], d.at, d.src, q, b)
  BY Zenon DEF Pump, Shape
<1>5. Shape([d EXCEPT !.sends = FALSE], d.at, d.src, d.queue, FALSE)
  BY Zenon DEF Pump, Shape
<1>6. Shape([d EXCEPT !.hears = FALSE], d.at, d.src, d.queue, d.sends)
  BY Zenon DEF Pump, Shape
<1>7. Shape([d EXCEPT !.at = "done", !.link = "closed"], "done", d.src, d.queue, d.sends)
  BY Zenon DEF Pump, Shape
<1>8. Shape([d EXCEPT !.link = "closed"], d.at, d.src, d.queue, d.sends)
  BY Zenon DEF Pump, Shape
<1> QED
  BY <1>1, <1>2, <1>3, <1>4, <1>5, <1>6, <1>7, <1>8

LEMMA PumpInitInv == ClientInit => PumpInv
<1> SUFFICES ASSUME ClientInit PROVE PumpInv
  OBVIOUS
<1>1. PICK s \in Src : TRUE
  BY BridgeClientAssumption
<1>2. Shape(NewPump, "free", NewPump.src, <<>>, FALSE) /\ NewPump.src \in Src
  BY <1>1, NewPumpShape
<1> HIDE DEF NewPump
<1>3. PumpTypes
  BY <1>2 DEF ClientInit, PumpTypes, Shape
<1>4. Mapped /\ Handing /\ Stopped
  BY <1>2 DEF ClientInit, Mapped, Handing, Stopped, Shape, Nobody
<1>5. EmptiesSent
  BY <1>2 DEF ClientInit, EmptiesSent, Shape
<1> QED
  BY <1>3, <1>4, <1>5 DEF PumpInv

\* A step that changes one task's queue, its place or whether it sends, and no
\* source's entry, keeps the invariant when the task does.
LEMMA OneTask ==
  ASSUME PumpInv, NEW k \in Task, NEW at, NEW queue, NEW sends,
         Turns(k, at, task[k].src, queue, sends), PumpTypes',
         udpLinks' = udpLinks, empties' = empties, Handing', EmptiesSent',
         task[k].at \in {"register", "run"} => at \in {"register", "run"},
         at = "run" /\ ~sends /\ udpLinks[task[k].src] = k => empties > 0
  PROVE  PumpInv'
<1> USE DEF PumpInv
<1>1. Mapped'
  BY DEF Mapped, Turns, PumpTypes
<1>2. Stopped'
  BY DEF Stopped, Turns
<1> QED
  BY <1>1, <1>2

\* The loop's own steps.
LEMMA LoopKeepsInv ==
  ASSUME PumpInv,
         \/ HandsOver \/ NobodyTakes
         \/ \E s \in Src : (\E e \in BOOLEAN : Reads(s, e)) \/ \E k \in Task : ReadsNew(s, k)
  PROVE  PumpInv'
<1> USE DEF PumpInv
<1>1. ASSUME NEW s \in Src, NEW e \in BOOLEAN, Reads(s, e) PROVE PumpInv'
  <2>1. /\ loop' = [at |-> "send", src |-> s, empty |-> e] /\ udpLinks[s] # Nobody
        /\ UNCHANGED <<udpLinks, linkData, task>>
    BY <1>1 DEF Reads
  <2>2. /\ loop'.at = "send" /\ loop'.src = s /\ loop'.empty = e
        /\ loop' \in [at : {"read", "send", "shut"}, src : Src, empty : BOOLEAN]
    BY <2>1
  <2>3. empties \in Nat
    BY DEF PumpTypes
  <2>4. empties' \in Nat /\ (e => empties' > 0) /\ (empties > 0 => empties' > 0)
    <3>1. CASE e
      BY <1>1, <2>3, <3>1 DEF Reads, Counts
    <3>2. CASE ~e
      BY <1>1, <2>3, <3>2 DEF Reads, Counts
    <3> QED
      BY <3>1, <3>2
  <2>5. PumpTypes'
    BY <2>1, <2>2, <2>4 DEF PumpTypes
  <2>6. Mapped' /\ Stopped' /\ Handing'
    BY <2>1, <2>2, <2>4 DEF Mapped, Stopped, Handing
  <2>7. EmptiesSent'
    BY <2>1, <2>2, <2>4 DEF EmptiesSent
  <2> QED
    BY <2>5, <2>6, <2>7
<1>2. ASSUME NEW s \in Src, NEW k \in Task, ReadsNew(s, k) PROVE PumpInv'
  <2>1. /\ task' = [task EXCEPT ![k] = [NewPump EXCEPT !.at = "establish", !.src = s]]
        /\ task[k].at = "free" /\ UNCHANGED <<loop, udpLinks, linkData, empties>>
    BY <1>2 DEF ReadsNew
  <2>2. Turns(k, "establish", s, <<>>, FALSE)
    BY <2>1, NewPumpShape, TurnsInto
  <2>3. PumpTypes'
    BY <2>1, <2>2 DEF PumpTypes, Turns
  <2>4. Mapped' /\ Stopped' /\ Handing'
    BY <2>1, <2>2 DEF Mapped, Stopped, Handing, Turns
  <2>5. EmptiesSent'
    BY <2>1, <2>2 DEF EmptiesSent, Turns
  <2> QED
    BY <2>3, <2>4, <2>5
<1>3. CASE NobodyTakes
  <2> DEFINE k == udpLinks[loop.src]
  <2>1. /\ loop.at = "send" /\ ~Takes(k) /\ loop' = [loop EXCEPT !.at = "shut"]
        /\ UNCHANGED <<udpLinks, linkData, task, empties>>
    BY <1>3 DEF NobodyTakes
  <2>2. loop.src \in Src /\ k \in Task
    BY <2>1 DEF PumpTypes, Handing
  <2>3. task[k].src = loop.src /\ task[k].at = "run" /\ ~task[k].sends
    <3>1. k # Nobody
      BY <2>1 DEF Handing
    <3>2. task[k].src = loop.src /\ task[k].at \in {"register", "run"}
      BY <2>2, <3>1 DEF Mapped
    <3>3. task[k].at # "register" /\ ~task[k].sends
      BY <2>1 DEF Takes
    <3> QED
      BY <3>2, <3>3
  <2>4. empties > 0
    BY <2>2, <2>3 DEF Stopped
  <2>5. loop' \in [at : {"read", "send", "shut"}, src : Src, empty : BOOLEAN] /\ loop'.at = "shut"
    BY <2>1, Zenon DEF PumpTypes
  <2>6. PumpTypes'
    BY <2>1, <2>5 DEF PumpTypes
  <2>7. Mapped' /\ Stopped' /\ Handing' /\ EmptiesSent'
    BY <2>1, <2>4, <2>5 DEF Mapped, Stopped, Handing, EmptiesSent
  <2> QED
    BY <2>6, <2>7
<1>4. CASE HandsOver
  <2> DEFINE k == udpLinks[loop.src]
  <2>1. /\ loop.at = "send" /\ loop' = [loop EXCEPT !.at = "read"]
        /\ UNCHANGED <<udpLinks, linkData, empties>>
        /\ task' = [task EXCEPT ![k] =
                       [task[k] EXCEPT !.queue = Append(task[k].queue, loop.empty)]]
    BY <1>4 DEF HandsOver
  <2>2. loop.src \in Src /\ k \in Task /\ loop.empty \in BOOLEAN
    BY <2>1 DEF PumpTypes, Handing
  <2> HIDE DEF k
  <2> DEFINE q == Append(task[k].queue, loop.empty)
  <2>3. task[k] \in Pump /\ task[k].queue \in Seq(BOOLEAN)
    BY <2>2 DEF PumpTypes, Pump
  <2>4. q \in Seq(BOOLEAN) /\ \A j \in 1 .. Len(q) : q[j] => empties > 0
    <3>1. q \in Seq(BOOLEAN) /\ Len(q) = Len(task[k].queue) + 1
      BY <2>2, <2>3
    <3>2. ASSUME NEW j \in 1 .. Len(q), q[j] PROVE empties > 0
      <4>1. CASE j = Len(task[k].queue) + 1
        BY <2>1, <2>2, <2>3, <3>2, <4>1 DEF EmptiesSent
      <4>2. CASE j \in 1 .. Len(task[k].queue)
        BY <2>2, <2>3, <3>2, <4>2 DEF EmptiesSent
      <4> QED
        BY <2>3, <3>1, <4>1, <4>2
    <3> QED
      BY <3>1, <3>2
  <2>5. task' = [task EXCEPT ![k] = [task[k] EXCEPT !.queue = q]]
    BY <2>1
  <2> HIDE DEF q
  <2>6. Turns(k, task[k].at, task[k].src, q, task[k].sends)
    BY <2>2, <2>3, <2>4, <2>5, SetShape, TurnsInto
  <2>7. loop' \in [at : {"read", "send", "shut"}, src : Src, empty : BOOLEAN] /\ loop'.at = "read"
    BY <2>1, Zenon DEF PumpTypes
  <2>8. PumpTypes' /\ Handing'
    BY <2>1, <2>6, <2>7 DEF PumpTypes, Turns, Handing
  <2>9. EmptiesSent'
    BY <2>1, <2>4, <2>6, <2>7 DEF EmptiesSent, Turns
  <2> QED
    BY <2>1, <2>2, <2>6, <2>8, <2>9, OneTask DEF Stopped
<1> QED
  BY <1>1, <1>2, <1>3, <1>4

\* Of any sequence: its head is its first element and its tail the others.
LEMMA FirstAndRest ==
  ASSUME NEW S, NEW s \in Seq(S), s # <<>>
  PROVE  /\ 1 \in 1 .. Len(s) /\ Head(s) = s[1] /\ Head(s) \in S /\ Tail(s) \in Seq(S)
         /\ \A j \in 1 .. Len(Tail(s)) : j + 1 \in 1 .. Len(s) /\ Tail(s)[j] = s[j + 1]
OBVIOUS

\* The steps of a task that leave the map of sources alone.
LEMMA TaskKeepsInv ==
  ASSUME PumpInv, NEW k \in Task,
         Registers(k) \/ TaskSends(k) \/ Replaced(k) \/ StopsHearing(k) \/ LinkCloses(k)
  PROVE  PumpInv'
<1> USE DEF PumpInv
<1>1. UNCHANGED <<loop, udpLinks, empties>>
  BY DEF Registers, TaskSends, Replaced, StopsHearing, LinkCloses, LoopOnly
<1>2. /\ task[k] \in Pump /\ task[k].queue \in Seq(BOOLEAN)
      /\ \A j \in 1 .. Len(task[k].queue) : task[k].queue[j] => empties > 0
  BY DEF PumpTypes, Pump, EmptiesSent
<1>3. ASSUME NEW at, NEW queue \in Seq(BOOLEAN), NEW sends,
             Turns(k, at, task[k].src, queue, sends),
             task[k].at \in {"register", "run"} => at \in {"register", "run"},
             \A j \in 1 .. Len(queue) : queue[j] => empties > 0,
             at = "run" /\ ~sends /\ udpLinks[task[k].src] = k => empties > 0
      PROVE  PumpInv'
  <2>1. PumpTypes' /\ Handing'
    BY <1>1, <1>3 DEF PumpTypes, Turns, Handing
  <2>2. EmptiesSent'
    BY <1>1, <1>3 DEF EmptiesSent, Turns
  <2> QED
    BY <1>1, <1>3, <2>1, <2>2, OneTask
<1>4. CASE Registers(k)
  <2>1. /\ task[k].at = "register"
        /\ task' = [task EXCEPT ![k] = [task[k] EXCEPT !.at = "run", !.sends = TRUE, !.hears = TRUE]]
    BY <1>4 DEF Registers
  <2>2. Turns(k, "run", task[k].src, task[k].queue, TRUE)
    BY <1>2, <2>1, SetShape, TurnsInto
  <2> QED
    BY <1>2, <1>3, <2>1, <2>2
<1>5. CASE TaskSends(k)
  <2> DEFINE h == Head(task[k].queue)
  <2> DEFINE q == IF h THEN <<>> ELSE Tail(task[k].queue)
  <2>1. /\ task[k].sends /\ task[k].queue # <<>>
        /\ task' = [task EXCEPT ![k] = [task[k] EXCEPT !.sends = ~h, !.queue = q]]
    BY <1>5 DEF TaskSends
  <2>2. /\ 1 \in 1 .. Len(task[k].queue) /\ h = task[k].queue[1] /\ h \in BOOLEAN
        /\ Tail(task[k].queue) \in Seq(BOOLEAN)
        /\ \A j \in 1 .. Len(Tail(task[k].queue)) :
             j + 1 \in 1 .. Len(task[k].queue) /\ Tail(task[k].queue)[j] = task[k].queue[j + 1]
    BY <1>2, <2>1, FirstAndRest, Zenon
  <2> HIDE DEF h
  <2>3. (~h) \in BOOLEAN /\ (h => empties > 0)
    BY <1>2, <2>2, Zenon
  <2>4. /\ <<>> \in Seq(BOOLEAN) /\ Len(<<>>) = 0
        /\ \A j \in 1 .. Len(Tail(task[k].queue)) : Tail(task[k].queue)[j] => empties > 0
    <3>1. <<>> \in Seq(BOOLEAN) /\ Len(<<>>) = 0
      OBVIOUS
    <3> QED
      BY <1>2, <2>2, <3>1, Zenon
  <2>5. q \in Seq(BOOLEAN) /\ \A j \in 1 .. Len(q) : q[j] => empties > 0
    <3>1. CASE h
      <4>1. \A j \in 1 .. 0 : FALSE
        OBVIOUS
      <4>2. q = <<>>
        BY <3>1, Zenon
      <4> QED
        BY <2>4, <4>1, <4>2, Zenon
    <3>2. CASE ~h
      <4>1. q = Tail(task[k].queue)
        BY <3>2, Zenon
      <4> QED
        BY <2>2, <2>4, <4>1, Zenon
    <3> QED
      BY <3>1, <3>2
  <2> HIDE DEF q
  <2>6. Turns(k, task[k].at, task[k].src, q, ~h)
    BY <1>2, <2>1, <2>3, <2>5, SetShape, TurnsInto
  <2> QED
    BY <1>3, <2>3, <2>5, <2>6
<1>6. CASE Replaced(k)
  <2>1. /\ udpLinks[task[k].src] # k
        /\ task' = [task EXCEPT ![k] = [task[k] EXCEPT !.sends = FALSE]]
    BY <1>6 DEF Replaced
  <2>2. Turns(k, task[k].at, task[k].src, task[k].queue, FALSE)
    BY <1>2, <2>1, SetShape, TurnsInto
  <2> QED
    BY <1>2, <1>3, <2>1, <2>2
<1>7. CASE StopsHearing(k) \/ LinkCloses(k)
  <2>1. \/ task' = [task EXCEPT ![k] = [task[k] EXCEPT !.hears = FALSE]]
        \/ task' = [task EXCEPT ![k] = [task[k] EXCEPT !.link = "closed"]]
    BY <1>7 DEF StopsHearing, LinkCloses
  <2>2. Turns(k, task[k].at, task[k].src, task[k].queue, task[k].sends)
    BY <1>2, <2>1, SetShape, TurnsInto
  <2>3. task[k].at = "run" /\ ~task[k].sends /\ udpLinks[task[k].src] = k => empties > 0
    BY DEF Stopped
  <2> QED
    BY <1>2, <1>3, <2>2, <2>3
<1> QED
  BY <1>4, <1>5, <1>6, <1>7

\* The steps that change the map, for which the loop has to be reading.
LEMMA MapKeepsInv ==
  ASSUME PumpInv, NEW k \in Task, Establishes(k) \/ TaskEnds(k)
  PROVE  PumpInv'
<1> USE DEF PumpInv
<1>1. UNCHANGED <<loop, empties>>
  BY DEF Establishes, TaskEnds, LoopOnly
<1>2. task[k] \in Pump /\ task[k].queue \in Seq(BOOLEAN) /\ task[k].src \in Src /\ k # Nobody
  BY DEF PumpTypes, Pump, Task, Nobody
<1>3. CASE task[k].at = "establish" /\ udpLinks' = udpLinks
           /\ task' = [task EXCEPT ![k] = [NewPump EXCEPT !.at = "done"]]
  <2>1. Turns(k, "done", NewPump.src, <<>>, FALSE)
    BY <1>2, <1>3, NewPumpShape, TurnsInto
  <2>2. PumpTypes' /\ Handing'
    BY <1>1, <1>3, <2>1 DEF PumpTypes, Turns, Handing
  <2>3. Mapped'
    BY <1>3, <2>1 DEF Mapped, Turns, PumpTypes
  <2>4. Stopped' /\ EmptiesSent'
    BY <1>1, <1>3, <2>1 DEF Stopped, EmptiesSent, Turns
  <2> QED
    BY <2>2, <2>3, <2>4
<1>4. CASE task[k].at = "establish" /\ Unlocked
           /\ task' = [task EXCEPT ![k] = [task[k] EXCEPT !.at = "register", !.link = "up"]]
           /\ udpLinks' = [udpLinks EXCEPT ![task[k].src] = k]
  <2>1. Turns(k, "register", task[k].src, task[k].queue, task[k].sends)
    BY <1>2, <1>4, SetShape, TurnsInto
  <2>2. PumpTypes' /\ Handing'
    BY <1>1, <1>2, <1>4, <2>1 DEF PumpTypes, Turns, Handing, Unlocked
  <2>3. Mapped'
    BY <1>2, <1>4, <2>1 DEF Mapped, Turns, PumpTypes
  <2>4. \A j \in Task \ {k} : udpLinks'[task'[j].src] = j => udpLinks[task[j].src] = j
    BY <1>2, <1>4, <2>1 DEF Turns, PumpTypes, Pump
  <2>5. Stopped' /\ EmptiesSent'
    BY <1>1, <2>1, <2>4 DEF Stopped, EmptiesSent, Turns
  <2> QED
    BY <2>2, <2>3, <2>5
<1>5. CASE TaskEnds(k)
  <2>1. /\ task' = [task EXCEPT ![k] = [task[k] EXCEPT !.at = "done", !.link = "closed"]]
        /\ udpLinks' = [udpLinks EXCEPT ![task[k].src] = Nobody] /\ Unlocked
    BY <1>5 DEF TaskEnds
  <2>2. Turns(k, "done", task[k].src, task[k].queue, task[k].sends)
    BY <1>2, <2>1, SetShape, TurnsInto
  <2>3. PumpTypes' /\ Handing'
    BY <1>1, <1>2, <2>1, <2>2 DEF PumpTypes, Turns, Handing, Unlocked
  <2>4. Mapped'
    BY <1>2, <2>1, <2>2 DEF Mapped, Turns, PumpTypes
  <2>5. \A j \in Task \ {k} : udpLinks'[task'[j].src] = j => udpLinks[task[j].src] = j
    BY <1>2, <2>1, <2>2 DEF Turns, PumpTypes, Pump, Task, Nobody
  <2>6. Stopped' /\ EmptiesSent'
    BY <1>1, <2>2, <2>5 DEF Stopped, EmptiesSent, Turns
  <2> QED
    BY <2>3, <2>4, <2>6
<1> QED
  BY <1>3, <1>4, <1>5 DEF Establishes

LEMMA PumpNextInv == PumpInv /\ [ClientNext]_clientVars => PumpInv'
<1> SUFFICES ASSUME PumpInv, [ClientNext]_clientVars PROVE PumpInv'
  OBVIOUS
<1>1. CASE UNCHANGED clientVars
  BY <1>1 DEF clientVars, PumpInv, PumpTypes, Mapped, EmptiesSent, Stopped, Handing
<1>2. CASE ClientNext
  BY <1>2, LoopKeepsInv, TaskKeepsInv, MapKeepsInv DEF ClientNext, TaskStep
<1> QED
  BY <1>1, <1>2

\* What the argument rests on holds of every behaviour of the client.
THEOREM PumpInvariant == ClientSpec => []PumpInv
BY PumpInitInv, PumpNextInv, PTL DEF ClientSpec

\* The map of sources names only tasks of that source that are not over, and the
\* loop is shut out of it only by an empty packet.
THEOREM SoundMaps == ClientSpec => []MapsSound
<1>1. PumpInv => MapsSound
  BY DEF PumpInv, Mapped, EmptiesSent, MapsSound
<1> QED
  BY <1>1, PumpInvariant, PTL

(***************************************************************************)
(* Game datagrams on a link, for any channels, any datagrams and any       *)
(* number of lost chunks.                                                  *)
(*                                                                         *)
(* Chunks carry no number, so the argument gives them one: a chunk that    *)
(* was sent, is not on its way and was never put in a buffer is missed,    *)
(* and no more are missed than were lost.  Chunks arrive in the order they *)
(* were sent.  So what is held for a port is the front of one datagram, or *)
(* one of its chunks was left out, which is then missed: that chunk is     *)
(* newer than all the port's game was given before, and no newer than the  *)
(* delivery it spoils, hence no two deliveries blame the same chunk.  When *)
(* nothing is lost nothing is missed, and the deliveries are numbered as   *)
(* what was sent.                                                          *)
(***************************************************************************)
\* The order chunks are sent in, and the chunks on their way.
Precedes(p, q) == p.of < q.of \/ (p.of = q.of /\ p.nth < q.nth)
OnTheWay == {inbox[i] : i \in DOMAIN inbox} \cup {wire[i] : i \in DOMAIN wire}

\* A peer that is known to understand channels does; one that does not gets
\* datagrams of the game's own port alone.
KnowsInv == (heard => knows) /\ (~knows => \A k \in DOMAIN sent : sent[k].ch = 0)

\* A chunk is what was sent.
AsSent(x) ==
  /\ x.body.of \in DOMAIN sent /\ x.body.nth \in 1 .. sent[x.body.of].len
  /\ x.ch = sent[x.body.of].ch /\ (x.final <=> x.body.nth = sent[x.body.of].len)

\* Chunks arrive in the order they were sent.
PipeInv ==
  /\ \A x \in OnTheWay : AsSent(x)
  /\ \A i, j \in DOMAIN inbox : i < j => Precedes(inbox[i].body, inbox[j].body)
  /\ \A i, j \in DOMAIN wire : i < j => Precedes(wire[i].body, wire[j].body)
  /\ \A i \in DOMAIN inbox, j \in DOMAIN wire : Precedes(inbox[i].body, wire[j].body)

\* The datagram that a delivery ends.
End(j) == delivered[j].data[Len(delivered[j].data)].of

\* What is held for a port is of that port, of datagrams that it was not given
\* yet, and sent before all that is on its way.
HeldInv ==
  \A c \in Channel : \A i \in DOMAIN buffers[c] :
    LET p == buffers[c][i] IN
    /\ p.of \in DOMAIN sent /\ p.nth < sent[p.of].len /\ sent[p.of].ch = c
    /\ \A x \in OnTheWay : Precedes(p, x.body)
    /\ \A j \in DOMAIN delivered : delivered[j].ch = c => End(j) < p.of

\* So is what was given.
GivenInv ==
  \A j \in DOMAIN delivered :
    /\ Len(delivered[j].data) # 0 /\ End(j) \in DOMAIN sent
    /\ \A i \in DOMAIN delivered[j].data :
         LET p == delivered[j].data[i] IN
         p.of \in DOMAIN sent /\ sent[p.of].ch = delivered[j].ch /\ p.of <= End(j)
    /\ \A x \in OnTheWay : End(j) < x.body.of
    /\ \A i \in DOMAIN delivered : i < j => End(i) < End(j)

\* The chunks that are neither on their way nor received.
Received(p) ==
  \/ \E c \in Channel : \E i \in DOMAIN buffers[c] : buffers[c][i] = p
  \/ \E j \in DOMAIN delivered : \E i \in DOMAIN delivered[j].data : delivered[j].data[i] = p
Missed ==
  {p \in Part : /\ p.of \in DOMAIN sent /\ p.nth <= sent[p.of].len
                /\ ~Received(p) /\ \A x \in OnTheWay : x.body # p}

\* A chunk of port c is missed that is newer than what its game was given
\* before delivery j, and no newer than datagram k.
Blamed(c, j, k) ==
  \E p \in Missed : /\ sent[p.of].ch = c /\ p.of <= k
                    /\ \A i \in DOMAIN delivered : i < j /\ delivered[i].ch = c => End(i) < p.of

\* What is held for a port is the front of one datagram, or one of its chunks is
\* missed.
BufferInv ==
  \A c \in Channel : Len(buffers[c]) # 0 =>
    LET k == buffers[c][Len(buffers[c])].of IN
    \/ \A i \in DOMAIN buffers[c] : buffers[c][i].of = k /\ buffers[c][i].nth = i
    \/ Blamed(c, Len(delivered) + 1, k)

\* So is what was given, each delivery for a chunk of its own.
WrongInv ==
  \A j \in DOMAIN delivered : delivered[j] = Datagram(End(j)) \/ Blamed(delivered[j].ch, j, End(j))

\* No more is missed than was lost; while nothing is, deliveries are numbered as
\* what was sent.
CountInv == IsFiniteSet(Missed) /\ Cardinality(Missed) <= missing
NumberInv == missing = 0 => \A j \in DOMAIN delivered : End(j) = j

\* The inductive invariant of a link.
LinkInv ==
  /\ GameLinkTypeOK /\ KnowsInv /\ PipeInv /\ HeldInv /\ GivenInv
  /\ BufferInv /\ WrongInv /\ CountInv /\ NumberInv

-----------------------------------------------------------------------------
\* Sequences one shorter, and two that are joined.
LEMMA RemovedAt ==
  ASSUME NEW S, NEW s \in Seq(S), NEW i \in 1 .. Len(s)
  PROVE  /\ RemoveAt(s, i) \in Seq(S) /\ Len(RemoveAt(s, i)) = Len(s) - 1
         /\ \A j \in 1 .. Len(s) - 1 : RemoveAt(s, i)[j] = IF j < i THEN s[j] ELSE s[j + 1]
<1>1. Len(s) \in Nat /\ (\A j \in 1 .. Len(s) : s[j] \in S) /\ i - 1 \in Int /\ i + 1 \in Int /\ i \in Nat
  BY LenProperties
<1> DEFINE f == SubSeq(s, 1, i - 1)
           b == SubSeq(s, i + 1, Len(s))
<1>2. f \in Seq(S) /\ Len(f) = i - 1 /\ \A j \in 1 .. i - 1 : f[j] = s[j]
  <2>1. /\ f \in Seq(S) /\ Len(f) = IF 1 <= i - 1 THEN i - 1 - 1 + 1 ELSE 0
        /\ \A j \in 1 .. i - 1 - 1 + 1 : f[j] = s[1 + j - 1]
    BY <1>1, SubSeqProperties
  <2> HIDE DEF f
  <2> QED
    BY <1>1, <2>1
<1>3. b \in Seq(S) /\ Len(b) = Len(s) - i /\ \A j \in 1 .. Len(s) - i : b[j] = s[i + j]
  <2>1. /\ b \in Seq(S) /\ Len(b) = IF i + 1 <= Len(s) THEN Len(s) - (i + 1) + 1 ELSE 0
        /\ \A j \in 1 .. Len(s) - (i + 1) + 1 : b[j] = s[i + 1 + j - 1]
    BY <1>1, SubSeqProperties
  <2> HIDE DEF b
  <2>2. Len(b) = Len(s) - i
    BY <1>1, <2>1
  <2>3. ASSUME NEW j \in 1 .. Len(s) - i PROVE b[j] = s[i + j]
    <3>1. j \in 1 .. Len(s) - (i + 1) + 1 /\ i + 1 + j - 1 = i + j
      BY <1>1
    <3> QED
      BY <2>1, <3>1
  <2> QED
    BY <2>1, <2>2, <2>3
<1>4. RemoveAt(s, i) = f \o b
  BY DEF RemoveAt
<1> HIDE DEF f, b
<1>5. /\ f \o b \in Seq(S) /\ Len(f \o b) = Len(f) + Len(b)
      /\ \A j \in 1 .. Len(f) + Len(b) : (f \o b)[j] = IF j <= Len(f) THEN f[j] ELSE b[j - Len(f)]
  BY <1>2, <1>3, ConcatProperties
<1>6. ASSUME NEW j \in 1 .. Len(s) - 1 PROVE (f \o b)[j] = IF j < i THEN s[j] ELSE s[j + 1]
  <2>1. Len(s) \in Nat /\ j \in Nat /\ Len(f) = i - 1 /\ Len(b) = Len(s) - i
    BY <1>1, <1>2, <1>3
  <2>2. j \in 1 .. Len(f) + Len(b)
    BY <1>1, <2>1
  <2>3. (f \o b)[j] = IF j <= Len(f) THEN f[j] ELSE b[j - Len(f)]
    BY <1>5, <2>2
  <2>4. CASE j < i
    <3>1. j <= Len(f) /\ j \in 1 .. i - 1
      BY <1>1, <2>1, <2>4
    <3> QED
      BY <1>2, <2>3, <2>4, <3>1
  <2>5. CASE ~(j < i)
    <3>1. ~(j <= Len(f)) /\ j - Len(f) \in 1 .. Len(s) - i /\ i + (j - Len(f)) = j + 1
      BY <1>1, <2>1, <2>5
    <3> QED
      BY <1>3, <2>3, <2>5, <3>1
  <2> QED
    BY <2>4, <2>5
<1> QED
  BY <1>1, <1>2, <1>3, <1>4, <1>5, <1>6

\* A sequence without its head.
LEMMA TailOf ==
  ASSUME NEW S, NEW s \in Seq(S), s # <<>>
  PROVE  /\ Tail(s) \in Seq(S) /\ Len(Tail(s)) = Len(s) - 1 /\ Head(s) = s[1] /\ Head(s) \in S
         /\ Len(s) \in Nat \ {0}
         /\ \A j \in 1 .. Len(s) - 1 : Tail(s)[j] = s[j + 1]
OBVIOUS

\* A sequence with one more at its end.
LEMMA AppendedTo ==
  ASSUME NEW S, NEW s \in Seq(S), NEW x \in S
  PROVE  /\ Append(s, x) \in Seq(S) /\ Len(Append(s, x)) = Len(s) + 1 /\ Append(s, x)[Len(s) + 1] = x
         /\ Len(s) \in Nat
         /\ \A j \in 1 .. Len(s) : Append(s, x)[j] = s[j]
OBVIOUS

\* Two sequences that are joined.
LEMMA Joined ==
  ASSUME NEW S, NEW s \in Seq(S), NEW t \in Seq(S)
  PROVE  /\ s \o t \in Seq(S) /\ Len(s \o t) = Len(s) + Len(t) /\ Len(s) \in Nat /\ Len(t) \in Nat
         /\ \A j \in 1 .. Len(s) : (s \o t)[j] = s[j]
         /\ \A j \in Len(s) + 1 .. Len(s) + Len(t) : (s \o t)[j] = t[j - Len(s)]
OBVIOUS

\* The elements of a sequence.
LEMMA InSeq ==
  ASSUME NEW S, NEW s \in Seq(S)
  PROVE  /\ \A i \in DOMAIN s : s[i] \in S
         /\ DOMAIN s = 1 .. Len(s) /\ Len(s) \in Nat
OBVIOUS

\* The chunks of a datagram.
LEMMA Framed ==
  ASSUME NEW k \in 1 .. MaxSent, NEW c \in Channel, NEW n \in 1 .. MaxChunk
  PROVE  /\ Frame(k, c, n) \in Seq(Chunk) /\ Len(Frame(k, c, n)) = n
         /\ \A j \in 1 .. n : /\ Frame(k, c, n)[j].ch = c /\ (Frame(k, c, n)[j].final <=> j = n)
                              /\ Frame(k, c, n)[j].body.of = k /\ Frame(k, c, n)[j].body.nth = j
<1> DEFINE g(j) == [ch |-> c, final |-> j = n, body |-> [of |-> k, nth |-> j]]
<1>1. n \in Nat /\ 1 .. n \subseteq 1 .. MaxChunk
  BY GameLinkAssumption
<1>2. \A j \in 1 .. n : g(j) \in Chunk
  BY <1>1 DEF Chunk, Part
<1>3. \A j \in 1 .. n : g(j).ch = c /\ (g(j).final <=> j = n) /\ g(j).body.of = k /\ g(j).body.nth = j
  OBVIOUS
<1>4. Frame(k, c, n) = [j \in 1 .. n |-> g(j)]
  BY DEF Frame
<1> HIDE DEF g
<1>5. Frame(k, c, n) \in [1 .. n -> Chunk]
  BY <1>2, <1>4
<1>6. Frame(k, c, n) \in Seq(Chunk) /\ Len(Frame(k, c, n)) = n
  <2> HIDE DEF Frame
  <2>1. Frame(k, c, n) \in UNION {[1 .. m -> Chunk] : m \in Nat}
    BY <1>1, <1>5
  <2>2. Frame(k, c, n) \in Seq(Chunk)
    BY <2>1, SeqDef
  <2>3. DOMAIN Frame(k, c, n) = 1 .. n
    BY <1>5
  <2> QED
    BY <1>1, <2>2, <2>3, LenProperties
<1> QED
  BY <1>4, <1>6, <1>3

\* Parts in the order they are sent in.
LEMMA Ordered ==
  /\ \A p, q \in Part : Precedes(p, q) => p # q /\ p.of <= q.of
  /\ \A p, q, r \in Part : Precedes(p, q) /\ Precedes(q, r) => Precedes(p, r)
<1>1. \A p \in Part : p.of \in Nat /\ p.nth \in Nat
  BY GameLinkAssumption DEF Part
<1> QED
  BY <1>1 DEF Precedes

\* What the parts of the state are.
LEMMA Typed ==
  ASSUME GameLinkTypeOK
  PROVE  /\ \A k \in DOMAIN sent : k \in Nat \ {0} /\ sent[k].ch \in Channel /\ sent[k].len \in Nat \ {0}
         /\ \A k \in DOMAIN sent : sent[k].len <= MaxChunk
         /\ DOMAIN sent = 1 .. Len(sent) /\ Len(sent) \in Nat
         /\ DOMAIN delivered = 1 .. Len(delivered) /\ Len(delivered) \in Nat
         /\ \A j \in DOMAIN delivered : delivered[j].ch \in Channel /\ delivered[j].data \in Seq(Part)
         /\ \A c \in Channel : buffers[c] \in Seq(Part)
         /\ \A x \in OnTheWay : x \in Chunk /\ x.ch \in Channel /\ x.body \in Part /\ x.final \in BOOLEAN
         /\ \A p \in Part : p.of \in Nat /\ p.nth \in Nat /\ p.of \in 1 .. MaxSent /\ p.nth \in 1 .. MaxChunk
         /\ missing \in Nat
<1>1. Channel \subseteq Nat /\ MaxChunk \in Nat /\ MaxSent \in Nat
  BY GameLinkAssumption
<1>2. sent \in Seq([ch : Channel, len : 1 .. MaxChunk]) /\ delivered \in Seq([ch : Channel, data : Seq(Part)])
  BY DEF GameLinkTypeOK
<1>3. \A k \in DOMAIN sent : sent[k] \in [ch : Channel, len : 1 .. MaxChunk]
  BY <1>2, InSeq
<1>4. \A j \in DOMAIN delivered : delivered[j] \in [ch : Channel, data : Seq(Part)]
  BY <1>2, InSeq
<1>5. \A x \in OnTheWay : x \in Chunk
  BY DEF GameLinkTypeOK, OnTheWay
<1>6. DOMAIN sent = 1 .. Len(sent) /\ Len(sent) \in Nat
  BY <1>2
<1>7. DOMAIN delivered = 1 .. Len(delivered) /\ Len(delivered) \in Nat
  BY <1>2
<1>8. \A c \in Channel : buffers[c] \in Seq(Part)
  BY DEF GameLinkTypeOK
<1>9. \A p \in Part : p.of \in Nat /\ p.nth \in Nat /\ p.of \in 1 .. MaxSent /\ p.nth \in 1 .. MaxChunk
  BY <1>1 DEF Part
<1>10. \A x \in Chunk : x.ch \in Channel /\ x.body \in Part /\ x.final \in BOOLEAN
  BY DEF Chunk
<1>11. \A k \in DOMAIN sent : sent[k].len \in 1 .. MaxChunk /\ sent[k].ch \in Channel /\ k \in Nat \ {0}
  BY <1>3, <1>6
<1>12. \A k \in DOMAIN sent : sent[k].len \in Nat \ {0} /\ sent[k].len <= MaxChunk
  BY <1>1, <1>11
<1>13. missing \in Nat
  BY DEF GameLinkTypeOK
<1> QED
  BY <1>4, <1>5, <1>6, <1>7, <1>8, <1>9, <1>10, <1>11, <1>12, <1>13

\* A part that precedes all that is on its way, and was not received, is missed.
LEMMA LeftOut ==
  ASSUME GameLinkTypeOK, NEW k \in DOMAIN sent, NEW n \in 1 .. sent[k].len, k <= MaxSent,
         ~Received([of |-> k, nth |-> n]),
         \A x \in OnTheWay : x.body # [of |-> k, nth |-> n]
  PROVE  [of |-> k, nth |-> n] \in Missed
<1>1. k \in 1 .. MaxSent /\ n \in 1 .. MaxChunk
  BY Typed, GameLinkAssumption
<1>2. [of |-> k, nth |-> n] \in Part
  BY <1>1 DEF Part
<1> DEFINE p == [of |-> k, nth |-> n]
<1>3. p.of = k /\ p.nth = n
  OBVIOUS
<1>4. p \in Part /\ ~Received(p) /\ \A x \in OnTheWay : x.body # p
  BY <1>2
<1>5. n <= sent[k].len
  BY Typed
<1> HIDE DEF p
<1>6. p \in Missed
  BY <1>3, <1>4, <1>5 DEF Missed
<1> QED
  BY <1>6 DEF p

\* What was received is not disturbed by what happens to the link.
LEMMA Steady ==
  ASSUME LinkInv, GameLinkTypeOK', UNCHANGED <<buffers, delivered>>,
         \A k \in DOMAIN sent : k \in DOMAIN sent' /\ sent'[k] = sent[k],
         \A x \in OnTheWay' : x \in OnTheWay \/ x.body.of > Len(sent),
         Missed \subseteq Missed', missing' # 0 \/ missing = 0
  PROVE  HeldInv' /\ GivenInv' /\ BufferInv' /\ WrongInv' /\ NumberInv'
<1>1. \A j : End(j)' = End(j)
  BY DEF End
<1>2. DOMAIN sent = 1 .. Len(sent) /\ Len(sent) \in Nat /\ \A k \in DOMAIN sent : k \in Nat
  BY Typed DEF LinkInv
<1>3. \A k \in DOMAIN sent : \A x \in OnTheWay' : x \in OnTheWay \/ k < x.body.of
  <2>1. \A x \in OnTheWay' : x.body.of \in Nat
    <3>1. \A x \in OnTheWay' : x \in Chunk
      BY DEF GameLinkTypeOK, OnTheWay
    <3> QED
      BY <3>1, GameLinkAssumption DEF Chunk, Part
  <2> QED
    BY <1>2, <2>1
<1>4. HeldInv'
  <2> SUFFICES ASSUME NEW c \in Channel, NEW i \in DOMAIN buffers[c]
               PROVE  LET p == buffers[c][i] IN
                      /\ p.of \in DOMAIN sent' /\ p.nth < sent'[p.of].len /\ sent'[p.of].ch = c
                      /\ \A x \in OnTheWay' : Precedes(p, x.body)
                      /\ \A j \in DOMAIN delivered : delivered[j].ch = c => End(j) < p.of
    BY <1>1 DEF HeldInv
  <2> QED
    BY <1>3 DEF LinkInv, HeldInv, Precedes
<1>5. GivenInv'
  <2> SUFFICES ASSUME NEW j \in DOMAIN delivered
               PROVE  /\ Len(delivered[j].data) # 0 /\ End(j) \in DOMAIN sent'
                      /\ \A i \in DOMAIN delivered[j].data :
                           LET p == delivered[j].data[i] IN
                           p.of \in DOMAIN sent' /\ sent'[p.of].ch = delivered[j].ch /\ p.of <= End(j)
                      /\ \A x \in OnTheWay' : End(j) < x.body.of
                      /\ \A i \in DOMAIN delivered : i < j => End(i) < End(j)
    BY <1>1 DEF GivenInv
  <2> QED
    BY <1>3 DEF LinkInv, GivenInv
<1>6. \A j, k : \A c \in Channel : Blamed(c, j, k) => Blamed(c, j, k)'
  BY <1>1 DEF Blamed, Missed
<1>7. BufferInv'
  <2> SUFFICES ASSUME NEW c \in Channel, Len(buffers[c]) # 0
               PROVE  LET k == buffers[c][Len(buffers[c])].of IN
                      \/ \A i \in DOMAIN buffers[c] : buffers[c][i].of = k /\ buffers[c][i].nth = i
                      \/ Blamed(c, Len(delivered) + 1, k)'
    BY DEF BufferInv
  <2> QED
    BY <1>6 DEF LinkInv, BufferInv
<1>8. WrongInv'
  <2> SUFFICES ASSUME NEW j \in DOMAIN delivered
               PROVE  delivered[j] = Datagram(End(j))' \/ Blamed(delivered[j].ch, j, End(j))'
    BY DEF WrongInv
  <2>1. End(j) \in DOMAIN sent /\ delivered[j].ch \in Channel
    BY Typed DEF LinkInv, GivenInv
  <2>2. Datagram(End(j))' = Datagram(End(j))
    BY <1>1, <2>1 DEF Datagram, Whole
  <2>3. Blamed(delivered[j].ch, j, End(j)) => Blamed(delivered[j].ch, j, End(j))'
    BY <1>1, <1>6, <2>1
  <2> QED
    BY <2>2, <2>3 DEF LinkInv, WrongInv
<1>9. NumberInv'
  BY <1>1 DEF LinkInv, NumberInv
<1> QED
  BY <1>4, <1>5, <1>7, <1>8, <1>9

-----------------------------------------------------------------------------
\* Before the first datagram nothing is held, on its way or missed.
LEMMA LinkAtFirst == GameLinkInit => LinkInv
<1> SUFFICES ASSUME GameLinkInit
             PROVE  LinkInv
  OBVIOUS
<1>1. /\ sent = <<>> /\ wire = <<>> /\ inbox = <<>> /\ delivered = <<>> /\ missing = 0 /\ heard = FALSE
      /\ knows \in BOOLEAN /\ buffers = [c \in Channel |-> <<>>]
  BY DEF GameLinkInit
<1>2. \A S : <<>> \in Seq(S)
  OBVIOUS
<1>3. GameLinkTypeOK
  <2>1. buffers \in [Channel -> Seq(Part)]
    BY <1>1, <1>2
  <2> QED
    BY <1>1, <1>2, <2>1 DEF GameLinkTypeOK
<1>4. \A s : s = <<>> => DOMAIN s = {} /\ Len(s) = 0
  OBVIOUS
<1>5. OnTheWay = {} /\ DOMAIN sent = {} /\ DOMAIN delivered = {}
  BY <1>1, <1>4 DEF OnTheWay
<1>6. \A c \in Channel : DOMAIN buffers[c] = {} /\ Len(buffers[c]) = 0
  BY <1>1, <1>4
<1>7. Missed = {}
  BY <1>5 DEF Missed
<1>8. CountInv
  BY <1>1, <1>7, FS_EmptySet DEF CountInv
<1>9. KnowsInv /\ PipeInv
  BY <1>1, <1>4, <1>5 DEF KnowsInv, PipeInv
<1>10. HeldInv /\ GivenInv /\ BufferInv /\ WrongInv /\ NumberInv
  BY <1>5, <1>6 DEF HeldInv, GivenInv, BufferInv, WrongInv, NumberInv
<1> QED
  BY <1>3, <1>8, <1>9, <1>10 DEF LinkInv

\* The peer's announce is heard.
LEMMA HearsKeeps == LinkInv /\ Hears => LinkInv'
<1> SUFFICES ASSUME LinkInv, Hears
             PROVE  LinkInv'
  OBVIOUS
<1>1. heard' = knows /\ UNCHANGED <<knows, sent, wire, inbox, buffers, delivered, missing>>
  BY DEF Hears
<1>2. GameLinkTypeOK' /\ KnowsInv'
  BY <1>1 DEF LinkInv, GameLinkTypeOK, KnowsInv
<1>3. OnTheWay' = OnTheWay
  BY <1>1 DEF OnTheWay
<1>4. Missed' = Missed
  BY <1>1, <1>3 DEF Missed, Received
<1>5. PipeInv' /\ CountInv'
  BY <1>1, <1>3, <1>4 DEF LinkInv, PipeInv, AsSent, CountInv
<1>6. HeldInv' /\ GivenInv' /\ BufferInv' /\ WrongInv' /\ NumberInv'
  BY <1>1, <1>2, <1>3, <1>4, Steady DEF LinkInv, NumberInv
<1> QED
  BY <1>2, <1>5, <1>6 DEF LinkInv

\* A chunk that is lost is one more missed.
LEMMA LostKeeps ==
  ASSUME LinkInv, NEW i \in 1 .. Len(wire), wire # <<>>, Lost(RemoveAt(wire, i))
  PROVE  LinkInv'
<1>1. /\ wire' = RemoveAt(wire, i) /\ missing' = missing + 1
      /\ UNCHANGED <<knows, heard, sent, inbox, buffers, delivered>>
  BY DEF Lost
<1>2. wire \in Seq(Chunk) /\ DOMAIN wire = 1 .. Len(wire) /\ Len(wire) \in Nat /\ missing \in Nat
  BY InSeq DEF LinkInv, GameLinkTypeOK
<1>3. /\ wire' \in Seq(Chunk) /\ Len(wire') = Len(wire) - 1
      /\ \A j \in 1 .. Len(wire) - 1 : wire'[j] = IF j < i THEN wire[j] ELSE wire[j + 1]
  BY <1>1, <1>2, RemovedAt
<1>4. DOMAIN wire' = 1 .. Len(wire) - 1
  BY <1>3
<1>5. GameLinkTypeOK' /\ KnowsInv'
  BY <1>1, <1>3 DEF LinkInv, GameLinkTypeOK, KnowsInv
<1>6. \A j \in DOMAIN wire' : wire'[j] = wire[IF j < i THEN j ELSE j + 1]
                              /\ (IF j < i THEN j ELSE j + 1) \in DOMAIN wire
  BY <1>2, <1>3, <1>4
<1>7. OnTheWay' \subseteq OnTheWay
  BY <1>1, <1>6 DEF OnTheWay
<1>8. OnTheWay \subseteq OnTheWay' \cup {wire[i]}
  <2> SUFFICES ASSUME NEW n \in DOMAIN wire, n # i
               PROVE  \E j \in DOMAIN wire' : wire'[j] = wire[n]
    BY <1>1 DEF OnTheWay
  <2>1. CASE n < i
    <3>1. n \in DOMAIN wire' /\ wire'[n] = wire[n]
      BY <1>2, <1>3, <1>4, <2>1
    <3> QED
      BY <3>1
  <2>2. CASE n > i
    <3>1. n - 1 \in DOMAIN wire' /\ wire'[n - 1] = wire[n]
      BY <1>2, <1>3, <1>4, <2>2
    <3> QED
      BY <3>1
  <2> QED
    BY <1>2, <2>1, <2>2
<1>9. \A p : Received(p)' <=> Received(p)
  BY <1>1 DEF Received
<1>10. Missed \subseteq Missed' /\ Missed' \subseteq Missed \cup {wire[i].body}
  BY <1>1, <1>7, <1>8, <1>9 DEF Missed
<1>11. CountInv'
  <2>1. IsFiniteSet(Missed \cup {wire[i].body}) /\ Cardinality(Missed \cup {wire[i].body}) <= missing + 1
    <3>1. IsFiniteSet(Missed) /\ Cardinality(Missed) <= missing
      BY DEF LinkInv, CountInv
    <3>2. Cardinality(Missed) \in Nat
      BY <3>1, FS_CardinalityType
    <3> DEFINE b == wire[i].body
    <3>3. /\ IsFiniteSet(Missed \cup {b})
          /\ Cardinality(Missed \cup {b}) = IF b \in Missed THEN Cardinality(Missed) ELSE Cardinality(Missed) + 1
      <4> HIDE DEF b
      <4> QED
        BY <3>1, FS_AddElement
    <3> QED
      BY <1>2, <3>1, <3>2, <3>3
  <2>2. IsFiniteSet(Missed') /\ Cardinality(Missed') <= Cardinality(Missed \cup {wire[i].body})
    BY <1>10, <2>1, FS_Subset
  <2>3. Cardinality(Missed') \in Nat /\ Cardinality(Missed \cup {wire[i].body}) \in Nat
    BY <2>1, <2>2, FS_CardinalityType
  <2> QED
    BY <1>1, <1>2, <2>1, <2>2, <2>3 DEF CountInv
<1>12. PipeInv'
  <2>1. \A x \in OnTheWay' : AsSent(x)'
    <3>1. \A x \in OnTheWay : AsSent(x) => AsSent(x)'
      BY <1>1 DEF AsSent
    <3> QED
      BY <1>7, <3>1 DEF LinkInv, PipeInv
  <2>2. \A k, j \in DOMAIN wire' : k < j => Precedes(wire'[k].body, wire'[j].body)
    <3> SUFFICES ASSUME NEW k \in DOMAIN wire', NEW j \in DOMAIN wire', k < j
                 PROVE  Precedes(wire'[k].body, wire'[j].body)
      OBVIOUS
    <3>1. (IF k < i THEN k ELSE k + 1) < (IF j < i THEN j ELSE j + 1)
      BY <1>2, <1>4
    <3> QED
      BY <1>6, <3>1 DEF LinkInv, PipeInv
  <2>3. \A k \in DOMAIN inbox, j \in DOMAIN wire' : Precedes(inbox[k].body, wire'[j].body)
    BY <1>6 DEF LinkInv, PipeInv
  <2> QED
    BY <1>1, <2>1, <2>2, <2>3 DEF LinkInv, PipeInv
<1>13. HeldInv' /\ GivenInv' /\ BufferInv' /\ WrongInv' /\ NumberInv'
  BY <1>1, <1>2, <1>5, <1>7, <1>10, Steady
<1> QED
  BY <1>5, <1>11, <1>12, <1>13 DEF LinkInv

\* The mesh loses a chunk, or the router drops one that finds no room.
LEMMA LosesKeeps == LinkInv /\ (NoRoom \/ \E i \in 1 .. Len(wire) : Loses(i)) => LinkInv'
<1> SUFFICES ASSUME LinkInv, NoRoom \/ \E i \in 1 .. Len(wire) : Loses(i)
             PROVE  LinkInv'
  OBVIOUS
<1>1. wire \in Seq(Chunk) /\ DOMAIN wire = 1 .. Len(wire) /\ Len(wire) \in Nat
  BY InSeq DEF LinkInv, GameLinkTypeOK
<1>2. CASE \E i \in 1 .. Len(wire) : Loses(i)
  <2>1. PICK i \in 1 .. Len(wire) : Lost(RemoveAt(wire, i))
    BY <1>2 DEF Loses
  <2>2. wire # <<>>
    BY <1>1
  <2> QED
    BY <2>1, <2>2, LostKeeps
<1>3. CASE NoRoom
  <2>1. wire # <<>> /\ Lost(Tail(wire))
    BY <1>3 DEF NoRoom
  <2>2. Tail(wire) \in Seq(Chunk) /\ Len(Tail(wire)) = Len(wire) - 1 /\ 1 \in 1 .. Len(wire)
        /\ \A j \in 1 .. Len(wire) - 1 : Tail(wire)[j] = wire[j + 1]
    BY <1>1, <2>1, TailOf
  <2>3. RemoveAt(wire, 1) \in Seq(Chunk) /\ Len(RemoveAt(wire, 1)) = Len(wire) - 1
        /\ \A j \in 1 .. Len(wire) - 1 : RemoveAt(wire, 1)[j] = wire[j + 1]
    <3>1. /\ RemoveAt(wire, 1) \in Seq(Chunk) /\ Len(RemoveAt(wire, 1)) = Len(wire) - 1
          /\ \A j \in 1 .. Len(wire) - 1 : RemoveAt(wire, 1)[j] = IF j < 1 THEN wire[j] ELSE wire[j + 1]
      BY <1>1, <2>2, RemovedAt
    <3>2. \A j \in 1 .. Len(wire) - 1 : ~(j < 1)
      BY <1>1
    <3> QED
      BY <3>1, <3>2
  <2>4. RemoveAt(wire, 1) = Tail(wire)
    BY <2>2, <2>3, SeqEqual
  <2> QED
    BY <2>1, <2>2, <2>4, LostKeeps
<1> QED
  BY <1>2, <1>3

\* The router hands a chunk on, behind those that arrived before it.
LEMMA ArrivesKeeps == LinkInv /\ Arrives => LinkInv'
<1> SUFFICES ASSUME LinkInv, Arrives
             PROVE  LinkInv'
  OBVIOUS
<1>1. /\ wire # <<>> /\ inbox' = Append(inbox, Head(wire)) /\ wire' = Tail(wire)
      /\ UNCHANGED <<knows, heard, sent, buffers, delivered, missing>>
  BY DEF Arrives
<1>2. /\ wire \in Seq(Chunk) /\ DOMAIN wire = 1 .. Len(wire) /\ Len(wire) \in Nat
      /\ inbox \in Seq(Chunk) /\ DOMAIN inbox = 1 .. Len(inbox) /\ Len(inbox) \in Nat
      /\ missing \in Nat
  BY InSeq DEF LinkInv, GameLinkTypeOK
<1>3. /\ wire' \in Seq(Chunk) /\ Len(wire') = Len(wire) - 1 /\ 1 \in DOMAIN wire
      /\ Head(wire) = wire[1] /\ Head(wire) \in Chunk
      /\ \A j \in 1 .. Len(wire) - 1 : wire'[j] = wire[j + 1]
  BY <1>1, <1>2, TailOf
<1>4. /\ inbox' \in Seq(Chunk) /\ Len(inbox') = Len(inbox) + 1 /\ inbox'[Len(inbox) + 1] = wire[1]
      /\ \A j \in 1 .. Len(inbox) : inbox'[j] = inbox[j]
  BY <1>1, <1>2, <1>3, AppendedTo
<1>5. DOMAIN wire' = 1 .. Len(wire) - 1 /\ DOMAIN inbox' = 1 .. Len(inbox) + 1
  BY <1>3, <1>4, InSeq
<1>6. GameLinkTypeOK' /\ KnowsInv'
  BY <1>1, <1>3, <1>4 DEF LinkInv, GameLinkTypeOK, KnowsInv
<1>7. /\ \A j \in DOMAIN wire' : j + 1 \in DOMAIN wire /\ wire'[j] = wire[j + 1]
      /\ \A j \in DOMAIN inbox' : \/ j \in DOMAIN inbox /\ inbox'[j] = inbox[j]
                                  \/ j = Len(inbox) + 1 /\ inbox'[j] = wire[1]
  BY <1>2, <1>3, <1>4, <1>5
<1>8. OnTheWay' \subseteq OnTheWay
  BY <1>3, <1>7 DEF OnTheWay
<1>9. OnTheWay \subseteq OnTheWay'
  <2>1. ASSUME NEW n \in DOMAIN inbox
        PROVE  inbox[n] \in OnTheWay'
    <3>1. n \in DOMAIN inbox' /\ inbox'[n] = inbox[n]
      BY <1>2, <1>4, <1>5
    <3> QED
      BY <3>1 DEF OnTheWay
  <2>2. ASSUME NEW n \in DOMAIN wire
        PROVE  wire[n] \in OnTheWay'
    <3>1. CASE n = 1
      <4>1. Len(inbox) + 1 \in DOMAIN inbox' /\ inbox'[Len(inbox) + 1] = wire[n]
        BY <1>2, <1>4, <1>5, <3>1
      <4> QED
        BY <4>1 DEF OnTheWay
    <3>2. CASE n # 1
      <4>1. n - 1 \in DOMAIN wire' /\ wire'[n - 1] = wire[n]
        BY <1>2, <1>3, <1>5, <3>2
      <4> QED
        BY <4>1 DEF OnTheWay
    <3> QED
      BY <3>1, <3>2
  <2> QED
    BY <2>1, <2>2 DEF OnTheWay
<1>10. OnTheWay' = OnTheWay
  BY <1>8, <1>9
<1>11. Missed' = Missed
  BY <1>1, <1>10 DEF Missed, Received
<1>12. CountInv'
  BY <1>1, <1>11 DEF LinkInv, CountInv
<1>13. PipeInv'
  <2>1. \A x \in OnTheWay' : AsSent(x)'
    <3>1. \A x \in OnTheWay : AsSent(x) => AsSent(x)'
      BY <1>1 DEF AsSent
    <3> QED
      BY <1>10, <3>1 DEF LinkInv, PipeInv
  <2>2. \A i, j \in DOMAIN wire' : i < j => Precedes(wire'[i].body, wire'[j].body)
    <3>1. \A i, j \in DOMAIN wire' : i < j => i + 1 < j + 1
      BY <1>2, <1>5
    <3> QED
      BY <1>7, <3>1 DEF LinkInv, PipeInv
  <2>3. \A i, j \in DOMAIN inbox' : i < j => Precedes(inbox'[i].body, inbox'[j].body)
    <3>1. \A i, j \in DOMAIN inbox' : i < j => i \in DOMAIN inbox /\ inbox'[i] = inbox[i]
      BY <1>2, <1>5, <1>7
    <3> QED
      BY <1>3, <1>7, <3>1 DEF LinkInv, PipeInv
  <2>4. \A i \in DOMAIN inbox', j \in DOMAIN wire' : Precedes(inbox'[i].body, wire'[j].body)
    <3>1. \A j \in DOMAIN wire' : 1 < j + 1
      BY <1>2, <1>5
    <3> QED
      BY <1>3, <1>7, <3>1 DEF LinkInv, PipeInv
  <2> QED
    BY <2>1, <2>2, <2>3, <2>4 DEF PipeInv
<1>14. HeldInv' /\ GivenInv' /\ BufferInv' /\ WrongInv' /\ NumberInv'
  BY <1>1, <1>2, <1>6, <1>10, <1>11, Steady
<1> QED
  BY <1>6, <1>12, <1>13, <1>14 DEF LinkInv

\* The forwarder puts all the chunks of a datagram on the link.
LEMMA SendsKeeps ==
  ASSUME LinkInv, NEW c \in Channel, NEW n \in 1 .. MaxChunk, Sends(c, n)
  PROVE  LinkInv'
<1>k. PICK k : k = Len(sent) + 1
  OBVIOUS
<1>d. PICK d : d = [ch |-> c, len |-> n]
  OBVIOUS
<1>f. PICK f : f = Frame(k, c, n)
  OBVIOUS
<1>1. /\ c = 0 \/ heard
      /\ Len(sent) < MaxSent /\ sent' = Append(sent, d)
      /\ UNCHANGED <<knows, heard, inbox, buffers, delivered, missing>>
  BY <1>d DEF Sends, MayUse
<1>2. /\ sent \in Seq([ch : Channel, len : 1 .. MaxChunk]) /\ wire \in Seq(Chunk)
      /\ DOMAIN sent = 1 .. Len(sent) /\ Len(sent) \in Nat /\ DOMAIN wire = 1 .. Len(wire) /\ Len(wire) \in Nat
      /\ missing \in Nat /\ n \in Nat
  BY InSeq DEF LinkInv, GameLinkTypeOK
<1>3. /\ sent' \in Seq([ch : Channel, len : 1 .. MaxChunk]) /\ Len(sent') = k /\ sent'[k] = d
      /\ \A j \in 1 .. Len(sent) : sent'[j] = sent[j]
  <2>1. d \in [ch : Channel, len : 1 .. MaxChunk]
    BY <1>d
  <2> QED
    BY <1>1, <1>2, <1>k, <2>1, AppendedTo
<1>4. DOMAIN sent' = 1 .. k /\ k \in 1 .. MaxSent
  BY <1>1, <1>2, <1>3, <1>k, InSeq, GameLinkAssumption
<1>5. wire' = wire \o f
  BY <1>3, <1>f DEF Sends
<1>6. /\ f \in Seq(Chunk) /\ Len(f) = n
      /\ \A j \in 1 .. n : f[j].ch = c /\ (f[j].final <=> j = n) /\ f[j].body.of = k /\ f[j].body.nth = j
  BY <1>4, <1>f, Framed
<1>fs. f \in Seq(Chunk) /\ Len(f) = n /\ \A j \in 1 .. n : f[j] \in Chunk
  <2>1. f \in Seq(Chunk) /\ Len(f) = n
    BY <1>6
  <2> QED
    BY <2>1, InSeq
<1>7. /\ wire' \in Seq(Chunk) /\ Len(wire') = Len(wire) + n
      /\ \A j \in 1 .. Len(wire) : wire'[j] = wire[j]
      /\ \A j \in Len(wire) + 1 .. Len(wire) + n : wire'[j] = f[j - Len(wire)]
  BY <1>2, <1>5, <1>fs, Joined
<1>8. DOMAIN wire' = 1 .. Len(wire) + n
  BY <1>7, InSeq
<1>9. GameLinkTypeOK'
  BY <1>1, <1>3, <1>7 DEF LinkInv, GameLinkTypeOK
<1>10. d.ch = c /\ d.len = n
  BY <1>d
<1>11. KnowsInv'
  <2>1. heard' => knows'
    BY <1>1 DEF LinkInv, KnowsInv
  <2>2. ~knows' => \A j \in DOMAIN sent' : sent'[j].ch = 0
    <3> SUFFICES ASSUME ~knows', NEW j \in DOMAIN sent'
                 PROVE  sent'[j].ch = 0
      OBVIOUS
    <3>1. j \in DOMAIN sent \/ j = k
      BY <1>2, <1>4, <1>k
    <3> QED
      BY <1>1, <1>2, <1>3, <1>10, <3>1 DEF LinkInv, KnowsInv
  <2> QED
    BY <2>1, <2>2 DEF KnowsInv
<1>12. \A j \in DOMAIN wire' : \/ j \in DOMAIN wire /\ wire'[j] = wire[j]
                               \/ /\ j \notin DOMAIN wire
                                  /\ j - Len(wire) \in 1 .. n /\ wire'[j] = f[j - Len(wire)]
  BY <1>2, <1>7, <1>8
<1>13. \A x \in OnTheWay' : x \in OnTheWay \/ \E j \in 1 .. n : x = f[j]
  BY <1>1, <1>12 DEF OnTheWay
<1>14. OnTheWay \subseteq OnTheWay'
  <2>1. DOMAIN wire \subseteq DOMAIN wire' /\ \A j \in DOMAIN wire : wire'[j] = wire[j]
    BY <1>2, <1>7, <1>8
  <2> QED
    BY <1>1, <2>1 DEF OnTheWay
<1>15. \A j \in 1 .. n : f[j] \in OnTheWay'
  <2> SUFFICES ASSUME NEW j \in 1 .. n
               PROVE  \E i \in DOMAIN wire' : wire'[i] = f[j]
    BY DEF OnTheWay
  <2>1. Len(wire) + j \in Len(wire) + 1 .. Len(wire) + n /\ Len(wire) + j - Len(wire) = j
        /\ Len(wire) + j \in DOMAIN wire'
    BY <1>2, <1>8
  <2>2. wire'[Len(wire) + j] = f[j]
    BY <1>7, <2>1
  <2> QED
    BY <2>1, <2>2
<1>16. \A p : Received(p)' <=> Received(p)
  BY <1>1 DEF Received
<1>17. \A j \in DOMAIN sent : j \in DOMAIN sent' /\ sent'[j] = sent[j] /\ j # k
  BY <1>2, <1>3, <1>4, <1>k
<1>18. Missed \subseteq Missed'
  <2> SUFFICES ASSUME NEW p \in Missed
               PROVE  \A x \in OnTheWay' : x.body # p
    BY <1>16, <1>17 DEF Missed
  <2>1. p.of # k
    BY <1>17 DEF Missed
  <2> QED
    BY <1>6, <1>13, <2>1 DEF Missed
<1>19. Missed' \subseteq Missed
  <2> SUFFICES ASSUME NEW p \in Missed'
               PROVE  p \in Missed
    OBVIOUS
  <2>1. p \in Part /\ p.of \in DOMAIN sent' /\ p.nth <= sent'[p.of].len /\ ~Received(p) /\ \A x \in OnTheWay' : x.body # p
    BY <1>16 DEF Missed
  <2>2. p.of # k
    <3> SUFFICES ASSUME p.of = k
                 PROVE  FALSE
      OBVIOUS
    <3>1. p.nth \in 1 .. n
      BY <1>2, <1>3, <1>10, <2>1, GameLinkAssumption DEF Part
    <3>2. f[p.nth].body.of = p.of /\ f[p.nth].body.nth = p.nth /\ f[p.nth] \in OnTheWay'
      BY <1>6, <1>15, <3>1
    <3>3. f[p.nth].body \in Part
      BY <1>fs, <3>1 DEF Chunk
    <3>4. f[p.nth].body = p
      BY <2>1, <3>2, <3>3 DEF Part
    <3> QED
      BY <2>1, <3>2, <3>4
  <2>3. p.of \in DOMAIN sent
    BY <1>2, <1>4, <1>k, <2>1, <2>2
  <2> QED
    BY <1>14, <1>17, <2>1, <2>3 DEF Missed
<1>20. CountInv'
  <2>1. Missed' = Missed
    BY <1>18, <1>19
  <2> QED
    BY <1>1, <2>1 DEF LinkInv, CountInv
<1>21. PipeInv'
  <2>1. \A x \in OnTheWay' : AsSent(x)'
    <3>1. \A x \in OnTheWay : AsSent(x) => AsSent(x)'
      BY <1>17 DEF AsSent
    <3>2. \A j \in 1 .. n : AsSent(f[j])'
      BY <1>2, <1>3, <1>4, <1>6, <1>10 DEF AsSent
    <3> QED
      BY <1>13, <3>1, <3>2 DEF LinkInv, PipeInv
  <2>2. \A x \in OnTheWay, j \in 1 .. n : Precedes(x.body, f[j].body)
    <3>1. \A x \in OnTheWay : x.body.of \in DOMAIN sent
      BY DEF LinkInv, PipeInv, AsSent
    <3>2. \A i \in DOMAIN sent : i < k
      BY <1>2, <1>k
    <3>3. \A j \in 1 .. n : f[j].body.of = k
      BY <1>6
    <3> QED
      BY <3>1, <3>2, <3>3 DEF Precedes
  <2>3. \A i, j \in DOMAIN wire' : i < j => Precedes(wire'[i].body, wire'[j].body)
    <3> SUFFICES ASSUME NEW i \in DOMAIN wire', NEW j \in DOMAIN wire', i < j
                 PROVE  Precedes(wire'[i].body, wire'[j].body)
      OBVIOUS
    <3>1. CASE j \in DOMAIN wire
      <4>1. i \in DOMAIN wire
        BY <1>2, <1>8, <3>1
      <4> QED
        BY <1>12, <3>1, <4>1 DEF LinkInv, PipeInv
    <3>2. CASE j \notin DOMAIN wire /\ i \in DOMAIN wire
      <4>1. wire'[i] \in OnTheWay
        BY <1>12, <3>2 DEF OnTheWay
      <4> QED
        BY <1>12, <2>2, <3>2, <4>1
    <3>3. CASE j \notin DOMAIN wire /\ i \notin DOMAIN wire
      <4>1. i - Len(wire) \in 1 .. n /\ j - Len(wire) \in 1 .. n /\ i - Len(wire) < j - Len(wire)
            /\ wire'[i] = f[i - Len(wire)] /\ wire'[j] = f[j - Len(wire)]
        BY <1>2, <1>8, <1>12, <3>3
      <4> QED
        BY <1>6, <4>1 DEF Precedes
    <3> QED
      BY <3>1, <3>2, <3>3
  <2>4. \A i \in DOMAIN inbox, j \in DOMAIN wire' : Precedes(inbox[i].body, wire'[j].body)
    <3> SUFFICES ASSUME NEW i \in DOMAIN inbox, NEW j \in DOMAIN wire'
                 PROVE  Precedes(inbox[i].body, wire'[j].body)
      OBVIOUS
    <3>1. inbox[i] \in OnTheWay
      BY DEF OnTheWay
    <3>2. CASE j \in DOMAIN wire
      BY <1>12, <3>2 DEF LinkInv, PipeInv
    <3>3. CASE j \notin DOMAIN wire
      BY <1>12, <2>2, <3>1, <3>3
    <3> QED
      BY <3>2, <3>3
  <2> QED
    BY <1>1, <2>1, <2>3, <2>4 DEF LinkInv, PipeInv
<1>22. HeldInv' /\ GivenInv' /\ BufferInv' /\ WrongInv' /\ NumberInv'
  <2>1. \A x \in OnTheWay' : x \in OnTheWay \/ x.body.of > Len(sent)
    BY <1>2, <1>6, <1>13, <1>k
  <2> QED
    BY <1>1, <1>2, <1>9, <1>17, <1>18, <2>1, Steady
<1> QED
  BY <1>9, <1>11, <1>20, <1>21, <1>22 DEF LinkInv

\* The chunk that is put together next precedes all the others, and is held for
\* the port it was sent from.
LEMMA PushTakes ==
  ASSUME LinkInv, Push
  PROVE  \E y \in Chunk :
           /\ y \in OnTheWay /\ y = Head(inbox) /\ BufferOf(y) = y.ch
           /\ OnTheWay' \subseteq OnTheWay /\ OnTheWay \subseteq OnTheWay' \cup {y}
           /\ \A x \in OnTheWay' : Precedes(y.body, x.body)
           /\ inbox' \in Seq(Chunk) /\ PipeInv'
<1>1. /\ inbox # <<>> /\ inbox' = Tail(inbox)
      /\ UNCHANGED <<knows, heard, sent, wire, missing>>
  BY DEF Push
<1>2. /\ inbox \in Seq(Chunk) /\ DOMAIN inbox = 1 .. Len(inbox) /\ Len(inbox) \in Nat
  BY InSeq DEF LinkInv, GameLinkTypeOK
<1>3. /\ inbox' \in Seq(Chunk) /\ Len(inbox') = Len(inbox) - 1 /\ 1 \in DOMAIN inbox
      /\ Head(inbox) = inbox[1] /\ Head(inbox) \in Chunk
      /\ \A j \in 1 .. Len(inbox) - 1 : inbox'[j] = inbox[j + 1]
  BY <1>1, <1>2, TailOf
<1>4. DOMAIN inbox' = 1 .. Len(inbox) - 1
  BY <1>3, InSeq
<1>5. \A j \in DOMAIN inbox' : j + 1 \in DOMAIN inbox /\ 1 < j + 1 /\ inbox'[j] = inbox[j + 1]
  BY <1>2, <1>3, <1>4
<1>6. PICK y \in Chunk : y = inbox[1]
  BY <1>3
<1>7. y \in OnTheWay
  BY <1>3, <1>6 DEF OnTheWay
<1>8. OnTheWay' \subseteq OnTheWay
  BY <1>1, <1>5 DEF OnTheWay
<1>9. OnTheWay \subseteq OnTheWay' \cup {y}
  <2>1. ASSUME NEW n \in DOMAIN inbox, n # 1
        PROVE  inbox[n] \in OnTheWay'
    <3>1. n - 1 \in DOMAIN inbox' /\ inbox'[n - 1] = inbox[n]
      BY <1>2, <1>3, <1>4, <2>1
    <3> QED
      BY <3>1 DEF OnTheWay
  <2>2. \A n \in DOMAIN wire : wire[n] \in OnTheWay'
    BY <1>1 DEF OnTheWay
  <2> QED
    BY <1>6, <2>1, <2>2 DEF OnTheWay
<1>10. \A x \in OnTheWay' : Precedes(y.body, x.body)
  BY <1>1, <1>3, <1>5, <1>6 DEF OnTheWay, LinkInv, PipeInv
<1>11. BufferOf(y) = y.ch
  <2>1. AsSent(y)
    BY <1>7 DEF LinkInv, PipeInv
  <2> QED
    BY <2>1 DEF LinkInv, KnowsInv, AsSent, BufferOf
<1>12. PipeInv'
  <2>1. \A x \in OnTheWay' : AsSent(x)'
    <3>1. \A x \in OnTheWay : AsSent(x) => AsSent(x)'
      BY <1>1 DEF AsSent
    <3> QED
      BY <1>8, <3>1 DEF LinkInv, PipeInv
  <2>2. \A i, j \in DOMAIN inbox' : i < j => Precedes(inbox'[i].body, inbox'[j].body)
    <3>1. \A i, j \in DOMAIN inbox' : i < j => i + 1 < j + 1
      BY <1>2, <1>4
    <3> QED
      BY <1>5, <3>1 DEF LinkInv, PipeInv
  <2>3. \A i \in DOMAIN inbox', j \in DOMAIN wire : Precedes(inbox'[i].body, wire[j].body)
    BY <1>5 DEF LinkInv, PipeInv
  <2> QED
    BY <1>1, <2>1, <2>2, <2>3 DEF LinkInv, PipeInv
<1> QED
  BY <1>3, <1>6, <1>7, <1>8, <1>9, <1>10, <1>11, <1>12

\* What is held for the chunk's port, and the chunk: the front of a datagram, or
\* one of its chunks is missed.
LEMMA GapIsBlamed ==
  ASSUME LinkInv, NEW y \in OnTheWay, \A x \in OnTheWay : x = y \/ Precedes(y.body, x.body)
  PROVE  \/ /\ \A i \in DOMAIN buffers[y.ch] :
                 buffers[y.ch][i].of = y.body.of /\ buffers[y.ch][i].nth = i
            /\ y.body.nth = Len(buffers[y.ch]) + 1
         \/ Blamed(y.ch, Len(delivered) + 1, y.body.of)
<1>1. PICK c \in Channel, e \in 1 .. MaxSent, n \in Nat \ {0} :
        /\ c = y.ch /\ e = y.body.of /\ n = y.body.nth /\ e \in DOMAIN sent /\ n \in 1 .. sent[e].len
        /\ sent[e].ch = c
  <2>1. AsSent(y) /\ y.body \in Part /\ y.ch \in Channel
    BY Typed DEF LinkInv, PipeInv
  <2>2. y.body.of \in 1 .. MaxSent /\ y.body.nth \in Nat
    BY <2>1, Typed DEF LinkInv
  <2> QED
    BY <2>1, <2>2 DEF AsSent
<1>2. buffers[c] \in Seq(Part) /\ DOMAIN buffers[c] = 1 .. Len(buffers[c]) /\ Len(buffers[c]) \in Nat
      /\ \A i \in DOMAIN buffers[c] : buffers[c][i] \in Part
  BY InSeq, Typed DEF LinkInv
<1>3. \A j \in DOMAIN delivered : j \in Nat /\ End(j) < e
  BY <1>1, Typed DEF LinkInv, GivenInv
<1>4. GameLinkTypeOK
  BY DEF LinkInv
<1>5. \A k \in DOMAIN sent : k \in Nat /\ sent[k].len \in Nat
  BY <1>4, Typed
<1>6. \A j \in DOMAIN delivered : End(j) \in Nat
  BY <1>5 DEF LinkInv, GivenInv
<1>7. CASE Len(buffers[c]) = 0
  <2>1. DOMAIN buffers[c] = {}
    BY <1>2, <1>7
  <2>2. SUFFICES ASSUME n # 1
                 PROVE  Blamed(c, Len(delivered) + 1, e)
    BY <1>1, <1>7, <2>1
  <2>3. 1 \in 1 .. sent[e].len /\ 1 < n
    BY <1>1, <1>5, <2>2
  <2> DEFINE p == [of |-> e, nth |-> 1]
  <2>4. p.of = e /\ p.nth = 1
    OBVIOUS
  <2> HIDE DEF p
  <2>5. \A b \in Channel : \A i \in DOMAIN buffers[b] : buffers[b][i] # p
    BY <1>1, <2>1, <2>4 DEF LinkInv, HeldInv
  <2>6. \A j \in DOMAIN delivered : \A i \in DOMAIN delivered[j].data : delivered[j].data[i] # p
    <3> SUFFICES ASSUME NEW j \in DOMAIN delivered, NEW i \in DOMAIN delivered[j].data,
                        delivered[j].data[i] = p
                 PROVE  FALSE
      OBVIOUS
    <3>1. e <= End(j)
      BY <2>4 DEF LinkInv, GivenInv
    <3> QED
      BY <1>1, <1>3, <1>6, <3>1
  <2>7. ~Received(p)
    BY <2>5, <2>6 DEF Received
  <2>8. \A x \in OnTheWay : x.body # p
    <3> SUFFICES ASSUME NEW x \in OnTheWay, x.body = p
                 PROVE  FALSE
      OBVIOUS
    <3>1. x # y /\ Precedes(y.body, p)
      BY <1>1, <2>2, <2>4
    <3> QED
      BY <1>1, <2>3, <2>4, <3>1 DEF Precedes
  <2>9. p \in Missed
    BY <1>1, <1>4, <2>3, <2>7, <2>8, LeftOut DEF p
  <2> QED
    BY <1>1, <1>3, <2>4, <2>9 DEF Blamed
<1>8. CASE Len(buffers[c]) # 0
  <2> DEFINE L == Len(buffers[c])
  <2>1. PICK q \in Part : q = buffers[c][L]
    BY <1>2, <1>8
  <2>2. PICK k, m : k = q.of /\ m = q.nth
    OBVIOUS
  <2>3. L \in DOMAIN buffers[c]
    BY <1>2, <1>8
  <2>4. /\ k \in DOMAIN sent /\ m < sent[k].len /\ sent[k].ch = c
        /\ Precedes(q, y.body)
        /\ \A j \in DOMAIN delivered : delivered[j].ch = c => End(j) < k
    BY <2>1, <2>2, <2>3 DEF LinkInv, HeldInv
  <2>5. k \in Nat /\ m \in Nat /\ k \in 1 .. MaxSent
    BY <1>4, <2>2, Typed
  <2>6. k < e \/ (k = e /\ m < n)
    BY <1>1, <2>2, <2>4 DEF Precedes
  <2>7. CASE Blamed(c, Len(delivered) + 1, k)
    <3>1. PICK p \in Missed : /\ sent[p.of].ch = c /\ p.of <= k
                              /\ \A i \in DOMAIN delivered :
                                   i < Len(delivered) + 1 /\ delivered[i].ch = c => End(i) < p.of
      BY <2>7 DEF Blamed
    <3>2. p.of \in Nat
      BY <1>5 DEF Missed
    <3>3. p.of <= e
      BY <1>1, <2>5, <2>6, <3>1, <3>2
    <3> QED
      BY <1>1, <3>1, <3>3 DEF Blamed
  <2>8. CASE \A i \in DOMAIN buffers[c] : buffers[c][i].of = k /\ buffers[c][i].nth = i
    <3>1. m = L
      BY <2>1, <2>2, <2>3, <2>8
    <3>2. SUFFICES ASSUME ~(k = e /\ n = L + 1)
                   PROVE  Blamed(c, Len(delivered) + 1, e)
      BY <1>1, <2>8
    <3>3. L + 1 \in 1 .. sent[k].len /\ L + 1 \in Nat /\ L \in Nat
      BY <1>2, <1>5, <2>4, <3>1
    <3>4. k < e \/ (k = e /\ L + 1 < n)
      BY <1>1, <2>5, <2>6, <3>1, <3>2, <3>3
    <3> DEFINE p == [of |-> k, nth |-> L + 1]
    <3>5. p.of = k /\ p.nth = L + 1
      OBVIOUS
    <3> HIDE DEF p
    <3>6. \A b \in Channel : \A i \in DOMAIN buffers[b] : buffers[b][i] # p
      <4> SUFFICES ASSUME NEW b \in Channel, NEW i \in DOMAIN buffers[b], buffers[b][i] = p
                   PROVE  FALSE
        OBVIOUS
      <4>1. b = c
        BY <2>4, <3>5 DEF LinkInv, HeldInv
      <4>2. i \in 1 .. L /\ i = L + 1
        BY <1>2, <2>8, <3>5, <4>1
      <4> QED
        BY <3>3, <4>2
    <3>7. \A j \in DOMAIN delivered : \A i \in DOMAIN delivered[j].data : delivered[j].data[i] # p
      <4> SUFFICES ASSUME NEW j \in DOMAIN delivered, NEW i \in DOMAIN delivered[j].data,
                          delivered[j].data[i] = p
                   PROVE  FALSE
        OBVIOUS
      <4>1. k <= End(j) /\ delivered[j].ch = c
        BY <2>4, <3>5 DEF LinkInv, GivenInv
      <4>2. End(j) < k
        BY <2>4, <4>1
      <4> QED
        BY <1>6, <2>5, <4>1, <4>2
    <3>8. ~Received(p)
      BY <3>6, <3>7 DEF Received
    <3>9. \A x \in OnTheWay : x.body # p
      <4> SUFFICES ASSUME NEW x \in OnTheWay, x.body = p
                   PROVE  FALSE
        OBVIOUS
      <4>1. x # y
        BY <1>1, <2>5, <3>3, <3>4, <3>5
      <4>2. Precedes(y.body, p)
        BY <4>1
      <4> QED
        BY <1>1, <2>5, <3>3, <3>4, <3>5, <4>2 DEF Precedes
    <3>10. p \in Missed
      BY <1>4, <2>4, <2>5, <3>3, <3>8, <3>9, LeftOut DEF p
    <3>11. p.of <= e /\ sent[p.of].ch = c
      BY <1>1, <2>4, <2>5, <3>4, <3>5
    <3> QED
      BY <2>4, <3>5, <3>10, <3>11 DEF Blamed
  <2> QED
    BY <1>8, <2>1, <2>2, <2>7, <2>8 DEF LinkInv, BufferInv
<1> QED
  BY <1>1, <1>2, <1>7, <1>8

\* No chunk is missed or found by putting one together.
LEMMA PushMisses ==
  ASSUME LinkInv, NEW y \in OnTheWay,
         OnTheWay' \subseteq OnTheWay, OnTheWay \subseteq OnTheWay' \cup {y}, UNCHANGED sent,
         \A x \in OnTheWay' : Precedes(y.body, x.body),
         \A p \in Part : Received(p)' <=> Received(p) \/ p = y.body
  PROVE  Missed' = Missed
<1>1. \A p \in Missed : p \in Part /\ p # y.body
  BY DEF Missed
<1>2. Missed \subseteq Missed'
  BY <1>1 DEF Missed
<1>3. Missed' \subseteq Missed
  BY DEF Missed
<1> QED
  BY <1>2, <1>3

\* A chunk that ends no datagram is held.
LEMMA HoldsKeeps ==
  ASSUME LinkInv, Push, ~Head(inbox).final
  PROVE  LinkInv'
<1>1. PICK y \in Chunk :
           /\ y \in OnTheWay /\ y = Head(inbox) /\ BufferOf(y) = y.ch
           /\ OnTheWay' \subseteq OnTheWay /\ OnTheWay \subseteq OnTheWay' \cup {y}
           /\ \A x \in OnTheWay' : Precedes(y.body, x.body)
           /\ inbox' \in Seq(Chunk) /\ PipeInv'
  BY PushTakes
<1>2. PICK c \in Channel : c = y.ch
  BY DEF Chunk
<1>3. PICK data : data = Append(buffers[c], y.body)
  OBVIOUS
<1>4. /\ buffers' = [buffers EXCEPT ![c] = data]
      /\ UNCHANGED <<knows, heard, sent, wire, delivered, missing>>
  BY <1>1, <1>2, <1>3 DEF Push
<1>5. /\ buffers[c] \in Seq(Part) /\ DOMAIN buffers[c] = 1 .. Len(buffers[c]) /\ Len(buffers[c]) \in Nat
      /\ y.body \in Part
  BY InSeq, Typed, <1>1 DEF LinkInv
<1>6. /\ data \in Seq(Part) /\ Len(data) = Len(buffers[c]) + 1 /\ data[Len(buffers[c]) + 1] = y.body
      /\ \A i \in 1 .. Len(buffers[c]) : data[i] = buffers[c][i]
  BY <1>3, <1>5, AppendedTo
<1>7. DOMAIN data = 1 .. Len(buffers[c]) + 1
  BY <1>6, InSeq
<1>8. \A i \in DOMAIN data : \/ i \in DOMAIN buffers[c] /\ data[i] = buffers[c][i]
                             \/ i = Len(buffers[c]) + 1 /\ data[i] = y.body
  BY <1>5, <1>6, <1>7
<1>9. DOMAIN buffers = Channel
  BY DEF LinkInv, GameLinkTypeOK
<1>10. /\ DOMAIN buffers' = Channel /\ buffers'[c] = data
       /\ \A b \in Channel : b # c => buffers'[b] = buffers[b]
  BY <1>4, <1>9
<1>11. GameLinkTypeOK'
  <2>1. buffers' \in [Channel -> Seq(Part)]
    BY <1>4, <1>6 DEF LinkInv, GameLinkTypeOK
  <2> QED
    BY <1>1, <1>4, <2>1 DEF LinkInv, GameLinkTypeOK
<1>12. KnowsInv'
  BY <1>4 DEF LinkInv, KnowsInv
<1>13. \A p \in Part : Received(p)' <=> Received(p) \/ p = y.body
  <2>1. \A i \in DOMAIN buffers[c] : i \in DOMAIN data /\ data[i] = buffers[c][i]
    BY <1>5, <1>6, <1>7
  <2>2. Len(buffers[c]) + 1 \in DOMAIN data
    BY <1>5, <1>7
  <2>3. \A p : (\E b \in Channel : \E i \in DOMAIN buffers'[b] : buffers'[b][i] = p)
               <=> (\E b \in Channel : \E i \in DOMAIN buffers[b] : buffers[b][i] = p) \/ p = y.body
    <3> SUFFICES ASSUME NEW p
                 PROVE  (\E b \in Channel : \E i \in DOMAIN buffers'[b] : buffers'[b][i] = p)
                        <=> (\E b \in Channel : \E i \in DOMAIN buffers[b] : buffers[b][i] = p) \/ p = y.body
      OBVIOUS
    <3>1. (\E i \in DOMAIN data : data[i] = p) <=> (\E i \in DOMAIN buffers[c] : buffers[c][i] = p) \/ p = y.body
      BY <1>6, <1>8, <2>1, <2>2
    <3> QED
      BY <1>10, <3>1
  <2> QED
    BY <1>4, <2>3 DEF Received
<1>14. Missed' = Missed
  BY <1>1, <1>4, <1>13, PushMisses
<1>15. CountInv'
  BY <1>4, <1>14 DEF LinkInv, CountInv
<1>16. \A j : End(j)' = End(j)
  BY <1>4 DEF End
<1>17. AsSent(y) /\ y.body.nth < sent[y.body.of].len
  <2>1. AsSent(y) /\ ~y.final
    BY <1>1 DEF LinkInv, PipeInv
  <2>2. \A k \in DOMAIN sent : sent[k].len \in Nat
    BY Typed DEF LinkInv
  <2> QED
    BY <2>1, <2>2 DEF AsSent
<1>18. HeldInv'
  <2> SUFFICES ASSUME NEW b \in Channel, NEW i \in DOMAIN buffers'[b]
               PROVE  LET p == buffers'[b][i] IN
                      /\ p.of \in DOMAIN sent /\ p.nth < sent[p.of].len /\ sent[p.of].ch = b
                      /\ \A x \in OnTheWay' : Precedes(p, x.body)
                      /\ \A j \in DOMAIN delivered : delivered[j].ch = b => End(j) < p.of
    BY <1>4, <1>16 DEF HeldInv
  <2>1. CASE i \in DOMAIN buffers[b] /\ buffers'[b][i] = buffers[b][i]
    BY <1>1, <2>1 DEF LinkInv, HeldInv
  <2>2. CASE b = c /\ buffers'[b][i] = y.body
    <3>1. \A j \in DOMAIN delivered : End(j) < y.body.of
      BY <1>1 DEF LinkInv, GivenInv
    <3> QED
      BY <1>1, <1>2, <1>17, <2>2, <3>1 DEF AsSent
  <2> QED
    BY <1>8, <1>10, <2>1, <2>2
<1>19. GivenInv'
  <2> SUFFICES ASSUME NEW j \in DOMAIN delivered
               PROVE  /\ Len(delivered[j].data) # 0 /\ End(j) \in DOMAIN sent
                      /\ \A i \in DOMAIN delivered[j].data :
                           LET p == delivered[j].data[i] IN
                           p.of \in DOMAIN sent /\ sent[p.of].ch = delivered[j].ch /\ p.of <= End(j)
                      /\ \A x \in OnTheWay' : End(j) < x.body.of
                      /\ \A i \in DOMAIN delivered : i < j => End(i) < End(j)
    BY <1>4, <1>16 DEF GivenInv
  <2> QED
    BY <1>1 DEF LinkInv, GivenInv
<1>20. \A j, k : \A b \in Channel : Blamed(b, j, k) => Blamed(b, j, k)'
  BY <1>4, <1>14, <1>16 DEF Blamed
<1>21. BufferInv'
  <2> SUFFICES ASSUME NEW b \in Channel, Len(buffers'[b]) # 0,
                      NEW k, k = buffers'[b][Len(buffers'[b])].of
               PROVE  \/ \A i \in DOMAIN buffers'[b] : buffers'[b][i].of = k /\ buffers'[b][i].nth = i
                      \/ Blamed(b, Len(delivered) + 1, k)'
    BY <1>4 DEF BufferInv
  <2>1. CASE b # c
    <3>1. Len(buffers[b]) # 0 /\ k = buffers[b][Len(buffers[b])].of /\ buffers'[b] = buffers[b]
      BY <1>10, <2>1
    <3>2. (\A i \in DOMAIN buffers[b] : buffers[b][i].of = k /\ buffers[b][i].nth = i)
          \/ Blamed(b, Len(delivered) + 1, k)
      BY <3>1 DEF LinkInv, BufferInv
    <3> QED
      BY <1>4, <1>20, <3>1, <3>2
  <2>2. CASE b = c
    <3>1. buffers'[b][Len(buffers'[b])] = y.body
      BY <1>6, <1>10, <2>2
    <3>2. \A x \in OnTheWay : x = y \/ Precedes(y.body, x.body)
      BY <1>1
    <3>3. CASE Blamed(c, Len(delivered) + 1, y.body.of)
      <4>1. k = y.body.of
        BY <3>1
      <4> QED
        BY <1>4, <1>20, <2>2, <3>3, <4>1
    <3>4. CASE /\ \A i \in DOMAIN buffers[c] : buffers[c][i].of = y.body.of /\ buffers[c][i].nth = i
               /\ y.body.nth = Len(buffers[c]) + 1
      BY <1>8, <1>10, <2>2, <3>1, <3>4
    <3> QED
      BY <1>1, <1>2, <3>2, <3>3, <3>4, GapIsBlamed
  <2> QED
    BY <2>1, <2>2
<1>22. WrongInv' /\ NumberInv'
  <2>1. \A j \in DOMAIN delivered : delivered[j].ch \in Channel
    BY Typed DEF LinkInv
  <2> QED
    BY <1>4, <1>16, <1>20, <2>1 DEF LinkInv, WrongInv, NumberInv, Datagram, Whole
<1> QED
  BY <1>1, <1>11, <1>12, <1>15, <1>18, <1>19, <1>21, <1>22 DEF LinkInv

\* A chunk that ends a datagram: what is held with it is given to the game.
LEMMA GivesKeeps ==
  ASSUME LinkInv, Push, Head(inbox).final
  PROVE  LinkInv'
<1>1. PICK y \in Chunk :
           /\ y \in OnTheWay /\ y = Head(inbox) /\ BufferOf(y) = y.ch
           /\ OnTheWay' \subseteq OnTheWay /\ OnTheWay \subseteq OnTheWay' \cup {y}
           /\ \A x \in OnTheWay' : Precedes(y.body, x.body)
           /\ inbox' \in Seq(Chunk) /\ PipeInv'
  BY PushTakes
<1>2. PICK c \in Channel, e \in Nat, n \in Nat : c = y.ch /\ e = y.body.of /\ n = y.body.nth
  BY <1>1, Typed DEF LinkInv
<1>3. PICK data : data = Append(buffers[c], y.body)
  OBVIOUS
<1>g. PICK g : g = [ch |-> c, data |-> data]
  OBVIOUS
<1>m. PICK m : m = Len(delivered) + 1
  OBVIOUS
<1>4. /\ buffers' = [buffers EXCEPT ![c] = <<>>] /\ delivered' = Append(delivered, g)
      /\ UNCHANGED <<knows, heard, sent, wire, missing>>
  BY <1>1, <1>2, <1>3, <1>g DEF Push
<1>5. /\ buffers[c] \in Seq(Part) /\ DOMAIN buffers[c] = 1 .. Len(buffers[c]) /\ Len(buffers[c]) \in Nat
      /\ y.body \in Part
      /\ delivered \in Seq([ch : Channel, data : Seq(Part)])
      /\ DOMAIN delivered = 1 .. Len(delivered) /\ Len(delivered) \in Nat /\ missing \in Nat
  <2>1. delivered \in Seq([ch : Channel, data : Seq(Part)])
    BY DEF LinkInv, GameLinkTypeOK
  <2> QED
    BY InSeq, Typed, <1>1, <2>1 DEF LinkInv
<1>6. /\ data \in Seq(Part) /\ Len(data) = Len(buffers[c]) + 1 /\ data[Len(buffers[c]) + 1] = y.body
      /\ \A i \in 1 .. Len(buffers[c]) : data[i] = buffers[c][i]
  BY <1>3, <1>5, AppendedTo
<1>7. DOMAIN data = 1 .. Len(buffers[c]) + 1
  BY <1>6, InSeq
<1>8. \A i \in DOMAIN data : \/ i \in DOMAIN buffers[c] /\ data[i] = buffers[c][i]
                             \/ i = Len(buffers[c]) + 1 /\ data[i] = y.body
  <2>1. \A i \in DOMAIN data : i \in 1 .. Len(buffers[c]) \/ i = Len(buffers[c]) + 1
    BY <1>5, <1>7
  <2> QED
    BY <1>5, <1>6, <2>1
<1>9. g \in [ch : Channel, data : Seq(Part)] /\ g.ch = c /\ g.data = data
  BY <1>6, <1>g
<1>10. /\ delivered' \in Seq([ch : Channel, data : Seq(Part)]) /\ Len(delivered') = m /\ delivered'[m] = g
       /\ \A j \in 1 .. Len(delivered) : delivered'[j] = delivered[j]
  BY <1>4, <1>5, <1>9, <1>m, AppendedTo
<1>11. DOMAIN delivered' = 1 .. m /\ m \in Nat \ {0}
  BY <1>5, <1>10, <1>m, InSeq
<1>12. /\ DOMAIN delivered \subseteq DOMAIN delivered' /\ m \notin DOMAIN delivered /\ m \in DOMAIN delivered'
       /\ \A j \in DOMAIN delivered' : (j \in DOMAIN delivered /\ delivered'[j] = delivered[j]) \/ j = m
       /\ \A i, j \in DOMAIN delivered' : i < j => i \in DOMAIN delivered
       /\ \A i \in DOMAIN delivered : i < m /\ i \in Nat
  BY <1>5, <1>10, <1>11, <1>m
<1>13. DOMAIN buffers = Channel
  BY DEF LinkInv, GameLinkTypeOK
<1>14. /\ DOMAIN buffers' = Channel /\ buffers'[c] = <<>> /\ DOMAIN buffers'[c] = {} /\ Len(buffers'[c]) = 0
       /\ \A b \in Channel : b # c => buffers'[b] = buffers[b]
  <2>1. DOMAIN <<>> = {} /\ Len(<<>>) = 0
    OBVIOUS
  <2> QED
    BY <1>4, <1>13, <2>1
<1>15. GameLinkTypeOK'
  <2>1. \A b \in Channel : buffers'[b] \in Seq(Part)
    <3>1. <<>> \in Seq(Part)
      OBVIOUS
    <3> QED
      BY <1>14, <3>1 DEF LinkInv, GameLinkTypeOK
  <2>2. buffers' \in [Channel -> Seq(Part)]
    BY <1>4, <1>14, <2>1 DEF LinkInv, GameLinkTypeOK
  <2> QED
    BY <1>1, <1>4, <1>10, <2>2 DEF LinkInv, GameLinkTypeOK
<1>16. KnowsInv'
  BY <1>4 DEF LinkInv, KnowsInv
<1>17. \A j \in DOMAIN delivered : End(j)' = End(j)
  BY <1>12 DEF End
<1>18. End(m)' = e
  BY <1>2, <1>6, <1>9, <1>10, <1>m DEF End
<1>19. \A p \in Part : Received(p)' <=> Received(p) \/ p = y.body
  <2>1. \A p : (\E i \in DOMAIN data : data[i] = p) <=> (\E i \in DOMAIN buffers[c] : buffers[c][i] = p) \/ p = y.body
    <3>1. \A i \in DOMAIN buffers[c] : i \in DOMAIN data /\ data[i] = buffers[c][i]
      BY <1>5, <1>6, <1>7
    <3>2. Len(buffers[c]) + 1 \in DOMAIN data
      BY <1>5, <1>7
    <3> QED
      BY <1>6, <1>8, <3>1, <3>2
  <2>2. \A p : (\E b \in Channel : \E i \in DOMAIN buffers[b] : buffers[b][i] = p)
               <=> \/ \E b \in Channel : \E i \in DOMAIN buffers'[b] : buffers'[b][i] = p
                   \/ \E i \in DOMAIN buffers[c] : buffers[c][i] = p
    BY <1>14
  <2>3. \A p : (\E j \in DOMAIN delivered' : \E i \in DOMAIN delivered'[j].data : delivered'[j].data[i] = p)
               <=> \/ \E j \in DOMAIN delivered : \E i \in DOMAIN delivered[j].data : delivered[j].data[i] = p
                   \/ \E i \in DOMAIN data : data[i] = p
    <3>1. \A j \in DOMAIN delivered : j \in DOMAIN delivered' /\ delivered'[j] = delivered[j]
      BY <1>12
    <3>2. delivered'[m].data = data /\ m \in DOMAIN delivered'
      BY <1>9, <1>10, <1>12
    <3> QED
      BY <1>12, <3>1, <3>2
  <2> SUFFICES ASSUME NEW p \in Part
               PROVE  Received(p)' <=> Received(p) \/ p = y.body
    OBVIOUS
  <2>4. Received(p)' <=>
          \/ \E b \in Channel : \E i \in DOMAIN buffers'[b] : buffers'[b][i] = p
          \/ \E j \in DOMAIN delivered' : \E i \in DOMAIN delivered'[j].data : delivered'[j].data[i] = p
    BY DEF Received
  <2>5. Received(p) <=>
          \/ \E b \in Channel : \E i \in DOMAIN buffers[b] : buffers[b][i] = p
          \/ \E j \in DOMAIN delivered : \E i \in DOMAIN delivered[j].data : delivered[j].data[i] = p
    BY DEF Received
  <2>6. (\E i \in DOMAIN data : data[i] = p) <=> (\E i \in DOMAIN buffers[c] : buffers[c][i] = p) \/ p = y.body
    BY <2>1
  <2>7. (\E b \in Channel : \E i \in DOMAIN buffers[b] : buffers[b][i] = p)
        <=> \/ \E b \in Channel : \E i \in DOMAIN buffers'[b] : buffers'[b][i] = p
            \/ \E i \in DOMAIN buffers[c] : buffers[c][i] = p
    BY <2>2
  <2>8. (\E j \in DOMAIN delivered' : \E i \in DOMAIN delivered'[j].data : delivered'[j].data[i] = p)
        <=> \/ \E j \in DOMAIN delivered : \E i \in DOMAIN delivered[j].data : delivered[j].data[i] = p
            \/ \E i \in DOMAIN data : data[i] = p
    BY <2>3
  <2> QED
    BY <2>4, <2>5, <2>6, <2>7, <2>8
<1>20. Missed' = Missed
  BY <1>1, <1>4, <1>19, PushMisses
<1>21. CountInv'
  BY <1>4, <1>20 DEF LinkInv, CountInv
<1>22. /\ e \in DOMAIN sent /\ e \in Nat /\ sent[e].ch = c /\ n = sent[e].len /\ n \in Nat \ {0} /\ e \in 1 .. MaxSent
       /\ \A k \in DOMAIN sent : k \in Nat /\ sent[k].len \in Nat \ {0}
  <2>1. AsSent(y) /\ y.final
    BY <1>1 DEF LinkInv, PipeInv
  <2> QED
    BY <1>1, <1>2, <2>1, Typed DEF LinkInv, AsSent
<1>23. \A j \in DOMAIN delivered : End(j) < e /\ End(j) \in Nat
  BY <1>1, <1>2, <1>22 DEF LinkInv, GivenInv
<1>24. \A x \in OnTheWay' : e < x.body.of
  <2> SUFFICES ASSUME NEW x \in OnTheWay'
               PROVE  e < x.body.of
    OBVIOUS
  <2>1. Precedes(y.body, x.body) /\ AsSent(x) /\ x.body.of \in Nat /\ x.body.nth \in Nat
    BY <1>1, Typed DEF LinkInv, PipeInv
  <2>2. x.body.of = e => x.body.nth <= n
    BY <1>22, <2>1 DEF AsSent
  <2> QED
    BY <1>2, <1>22, <2>1, <2>2 DEF Precedes
<1>25. HeldInv'
  <2> SUFFICES ASSUME NEW b \in Channel, NEW i \in DOMAIN buffers'[b], NEW p, p = buffers'[b][i]
               PROVE  /\ p.of \in DOMAIN sent /\ p.nth < sent[p.of].len /\ sent[p.of].ch = b
                      /\ \A x \in OnTheWay' : Precedes(p, x.body)
                      /\ \A j \in DOMAIN delivered' : delivered'[j].ch = b => End(j)' < p.of
    BY <1>4 DEF HeldInv
  <2>1. b # c /\ i \in DOMAIN buffers[b] /\ p = buffers[b][i]
    BY <1>14
  <2>2. /\ p.of \in DOMAIN sent /\ p.nth < sent[p.of].len /\ sent[p.of].ch = b
        /\ \A x \in OnTheWay : Precedes(p, x.body)
        /\ \A j \in DOMAIN delivered : delivered[j].ch = b => End(j) < p.of
    BY <2>1 DEF LinkInv, HeldInv
  <2>3. \A j \in DOMAIN delivered' : delivered'[j].ch = b => j \in DOMAIN delivered /\ delivered[j].ch = b
    BY <1>9, <1>10, <1>12, <2>1
  <2> QED
    BY <1>1, <1>17, <2>2, <2>3
<1>26. \A i \in DOMAIN data : data[i].of \in DOMAIN sent /\ sent[data[i].of].ch = c /\ data[i].of <= e
  <2> SUFFICES ASSUME NEW i \in DOMAIN buffers[c]
               PROVE  /\ buffers[c][i].of \in DOMAIN sent /\ sent[buffers[c][i].of].ch = c
                      /\ buffers[c][i].of <= e
    BY <1>2, <1>8, <1>22
  <2>1. /\ buffers[c][i].of \in DOMAIN sent /\ sent[buffers[c][i].of].ch = c
        /\ Precedes(buffers[c][i], y.body)
    BY <1>1 DEF LinkInv, HeldInv
  <2> QED
    BY <1>2, <1>22, <2>1 DEF Precedes
<1>27. GivenInv'
  <2> SUFFICES ASSUME NEW j \in DOMAIN delivered'
               PROVE  /\ Len(delivered'[j].data) # 0 /\ End(j)' \in DOMAIN sent
                      /\ \A i \in DOMAIN delivered'[j].data :
                           LET p == delivered'[j].data[i] IN
                           p.of \in DOMAIN sent /\ sent[p.of].ch = delivered'[j].ch /\ p.of <= End(j)'
                      /\ \A x \in OnTheWay' : End(j)' < x.body.of
                      /\ \A i \in DOMAIN delivered' : i < j => End(i)' < End(j)'
    BY <1>4 DEF GivenInv
  <2>1. CASE j \in DOMAIN delivered
    <3>1. /\ Len(delivered[j].data) # 0 /\ End(j) \in DOMAIN sent
          /\ \A i \in DOMAIN delivered[j].data :
               LET p == delivered[j].data[i] IN
               p.of \in DOMAIN sent /\ sent[p.of].ch = delivered[j].ch /\ p.of <= End(j)
          /\ \A x \in OnTheWay' : End(j) < x.body.of
          /\ \A i \in DOMAIN delivered : i < j => End(i) < End(j)
      BY <1>1, <2>1 DEF LinkInv, GivenInv
    <3>2. delivered'[j] = delivered[j] /\ End(j)' = End(j)
      BY <1>12, <1>17, <2>1
    <3>3. \A i \in DOMAIN delivered' : i < j => i \in DOMAIN delivered /\ End(i)' = End(i)
      BY <1>12, <1>17
    <3> QED
      BY <3>1, <3>2, <3>3
  <2>2. CASE j = m
    <3>1. Len(delivered'[j].data) # 0 /\ delivered'[j].data = data /\ delivered'[j].ch = c
      BY <1>5, <1>6, <1>9, <1>10, <2>2
    <3>2. \A i \in DOMAIN delivered' : i < j => End(i)' < e
      BY <1>12, <1>17, <1>23
    <3> QED
      BY <1>18, <1>22, <1>24, <1>26, <2>2, <3>1, <3>2
  <2> QED
    BY <1>12, <2>1, <2>2
<1>28. \A k : \A b \in Channel : \A j \in 1 .. m : Blamed(b, j, k) => Blamed(b, j, k)'
  <2> SUFFICES ASSUME NEW b \in Channel, NEW k, NEW j \in 1 .. m, Blamed(b, j, k)
               PROVE  Blamed(b, j, k)'
    OBVIOUS
  <2>1. PICK p \in Missed : /\ sent[p.of].ch = b /\ p.of <= k
                            /\ \A i \in DOMAIN delivered : i < j /\ delivered[i].ch = b => End(i) < p.of
    BY DEF Blamed
  <2>2. \A i \in DOMAIN delivered' : i < j => i \in DOMAIN delivered /\ delivered'[i] = delivered[i] /\ End(i)' = End(i)
    BY <1>11, <1>12, <1>17
  <2> QED
    BY <1>4, <1>20, <2>1, <2>2 DEF Blamed
<1>29. \A k : \A b \in Channel : b # c /\ Blamed(b, m, k) => Blamed(b, m + 1, k)'
  <2> SUFFICES ASSUME NEW b \in Channel, NEW k, b # c, Blamed(b, m, k)
               PROVE  Blamed(b, m + 1, k)'
    OBVIOUS
  <2>1. PICK p \in Missed : /\ sent[p.of].ch = b /\ p.of <= k
                            /\ \A i \in DOMAIN delivered : i < m /\ delivered[i].ch = b => End(i) < p.of
    BY DEF Blamed
  <2>2. \A i \in DOMAIN delivered' : delivered'[i].ch = b =>
          i \in DOMAIN delivered /\ delivered'[i] = delivered[i] /\ End(i)' = End(i) /\ i < m
    BY <1>9, <1>10, <1>12, <1>17
  <2> QED
    BY <1>4, <1>20, <2>1, <2>2 DEF Blamed
<1>30. BufferInv'
  <2> SUFFICES ASSUME NEW b \in Channel, Len(buffers'[b]) # 0,
                      NEW k, k = buffers'[b][Len(buffers'[b])].of
               PROVE  \/ \A i \in DOMAIN buffers'[b] : buffers'[b][i].of = k /\ buffers'[b][i].nth = i
                      \/ Blamed(b, m + 1, k)'
    BY <1>10 DEF BufferInv
  <2>1. b # c /\ Len(buffers[b]) # 0 /\ k = buffers[b][Len(buffers[b])].of /\ buffers'[b] = buffers[b]
    BY <1>14
  <2>2. (\A i \in DOMAIN buffers[b] : buffers[b][i].of = k /\ buffers[b][i].nth = i) \/ Blamed(b, m, k)
    BY <1>m, <2>1 DEF LinkInv, BufferInv
  <2> QED
    BY <1>29, <2>1, <2>2
<1>31. WrongInv'
  <2> SUFFICES ASSUME NEW j \in DOMAIN delivered', NEW k, k = End(j)', NEW b, b = delivered'[j].ch
               PROVE  delivered'[j] = Datagram(k)' \/ Blamed(b, j, k)'
    BY DEF WrongInv
  <2>1. \A i : Datagram(i)' = Datagram(i)
    BY <1>4 DEF Datagram, Whole
  <2>2. CASE j \in DOMAIN delivered
    <3>1. k = End(j) /\ delivered'[j] = delivered[j] /\ b = delivered[j].ch /\ b \in Channel /\ j \in 1 .. m
      <4>1. delivered[j].ch \in Channel
        BY <2>2, Typed DEF LinkInv
      <4> QED
        BY <1>11, <1>12, <1>17, <2>2, <4>1
    <3>2. delivered[j] = Datagram(k) \/ Blamed(b, j, k)
      BY <2>2, <3>1 DEF LinkInv, WrongInv
    <3> QED
      BY <1>28, <2>1, <3>1, <3>2
  <2>3. CASE j = m
    <3>1. k = e /\ delivered'[j] = g /\ b = c /\ m \in 1 .. m
      BY <1>9, <1>10, <1>11, <1>18, <2>3
    <3>2. \A x \in OnTheWay : x = y \/ Precedes(y.body, x.body)
      BY <1>1
    <3>3. CASE Blamed(c, m, e)
      BY <1>28, <2>3, <3>1, <3>3
    <3>4. CASE /\ \A i \in DOMAIN buffers[c] : buffers[c][i].of = e /\ buffers[c][i].nth = i
               /\ n = Len(buffers[c]) + 1
      <4>1. \A i \in DOMAIN data : data[i] \in Part /\ data[i].of = e /\ data[i].nth = i
        <5>1. \A i \in DOMAIN data : data[i] \in Part
          BY <1>6, InSeq
        <5>2. \A i \in DOMAIN data : data[i].of = e /\ data[i].nth = i
          BY <1>2, <1>8, <3>4
        <5> QED
          BY <5>1, <5>2
      <4>2. \A i \in DOMAIN data : data[i] = [of |-> e, nth |-> i]
        BY <4>1 DEF Part
      <4>3. DOMAIN data = 1 .. sent[e].len
        BY <1>7, <1>22, <3>4
      <4>4. data = [i \in 1 .. sent[e].len |-> [of |-> e, nth |-> i]]
        <5>1. data = [i \in DOMAIN data |-> data[i]]
          BY <1>6
        <5> QED
          BY <4>2, <4>3, <5>1
      <4>5. data = Whole(e)
        BY <4>4 DEF Whole
      <4>6. g = Datagram(e)
        BY <1>22, <1>g, <4>5 DEF Datagram
      <4> QED
        BY <2>1, <3>1, <4>6
    <3> QED
      BY <1>1, <1>2, <1>m, <3>2, <3>3, <3>4, GapIsBlamed
  <2> QED
    BY <1>12, <2>2, <2>3
<1>32. NumberInv'
  <2> SUFFICES ASSUME missing = 0
               PROVE  e = m
    BY <1>4, <1>12, <1>17, <1>18 DEF LinkInv, NumberInv
  <2>1. \A j \in DOMAIN delivered : End(j) = j
    BY DEF LinkInv, NumberInv
  <2>2. Missed = {}
    <3>1. IsFiniteSet(Missed) /\ Cardinality(Missed) <= 0
      BY DEF LinkInv, CountInv
    <3> QED
      BY <3>1, FS_CardinalityType, FS_EmptySet
  <2>3. e >= m
    <3>1. CASE Len(delivered) = 0
      BY <1>22, <1>m, <3>1, Typed DEF LinkInv
    <3>2. CASE Len(delivered) # 0
      <4>1. Len(delivered) \in DOMAIN delivered
        BY <1>5, <3>2
      <4>2. Len(delivered) < e
        BY <1>23, <2>1, <4>1
      <4> QED
        BY <1>5, <1>22, <1>m, <4>2
    <3> QED
      BY <3>1, <3>2
  <2>4. SUFFICES ASSUME m < e
                 PROVE  FALSE
    BY <1>11, <1>22, <2>3
  <2>5. m \in DOMAIN sent /\ m <= MaxSent
    BY <1>11, <1>22, <2>4, Typed, GameLinkAssumption DEF LinkInv
  <2> DEFINE p == [of |-> m, nth |-> sent[m].len]
  <2>6. p.of = m /\ p.nth = sent[m].len
    OBVIOUS
  <2> HIDE DEF p
  <2>7. \A b \in Channel : \A i \in DOMAIN buffers[b] : buffers[b][i] # p
    <3> SUFFICES ASSUME NEW b \in Channel, NEW i \in DOMAIN buffers[b], buffers[b][i] = p
                 PROVE  FALSE
      OBVIOUS
    <3>1. p.nth < sent[m].len
      BY <2>6 DEF LinkInv, HeldInv
    <3> QED
      BY <1>22, <2>5, <2>6, <3>1
  <2>8. \A j \in DOMAIN delivered : \A i \in DOMAIN delivered[j].data : delivered[j].data[i] # p
    <3> SUFFICES ASSUME NEW j \in DOMAIN delivered, NEW i \in DOMAIN delivered[j].data,
                        delivered[j].data[i] = p
                 PROVE  FALSE
      OBVIOUS
    <3>1. m <= End(j)
      BY <2>6 DEF LinkInv, GivenInv
    <3> QED
      BY <1>11, <1>12, <2>1, <3>1
  <2>9. ~Received(p)
    BY <2>7, <2>8 DEF Received
  <2>10. \A x \in OnTheWay : x.body # p
    <3> SUFFICES ASSUME NEW x \in OnTheWay, x.body = p
                 PROVE  FALSE
      OBVIOUS
    <3>1. x # y
      BY <1>2, <1>11, <1>22, <2>4, <2>6
    <3>2. Precedes(y.body, p)
      BY <1>1, <3>1
    <3> QED
      BY <1>2, <1>11, <1>22, <2>4, <2>6, <3>2 DEF Precedes
  <2>11. sent[m].len \in 1 .. sent[m].len
    BY <1>22, <2>5
  <2>12. p \in Missed
    BY <2>5, <2>9, <2>10, <2>11, LeftOut DEF LinkInv, p
  <2> QED
    BY <2>2, <2>12
<1> QED
  BY <1>1, <1>15, <1>16, <1>21, <1>25, <1>27, <1>30, <1>31, <1>32 DEF LinkInv

\* Every step of the link keeps the invariant.
LEMMA LinkStep == LinkInv /\ [GameLinkNext]_gameLinkVars => LinkInv'
<1> SUFFICES ASSUME LinkInv, [GameLinkNext]_gameLinkVars
             PROVE  LinkInv'
  OBVIOUS
<1>1. CASE UNCHANGED gameLinkVars
  <2>1. UNCHANGED <<knows, heard, sent, wire, inbox, buffers, delivered, missing>>
    BY <1>1 DEF gameLinkVars
  <2>2. OnTheWay' = OnTheWay
    BY <2>1 DEF OnTheWay
  <2>3. \A p : Received(p)' = Received(p)
    BY <2>1 DEF Received
  <2>4. Missed' = Missed
    BY <2>1, <2>2, <2>3 DEF Missed
  <2>5. GameLinkTypeOK' /\ KnowsInv' /\ CountInv'
    BY <2>1, <2>4 DEF LinkInv, GameLinkTypeOK, KnowsInv, CountInv
  <2>6. PipeInv'
    BY <2>1, <2>2 DEF LinkInv, PipeInv, AsSent
  <2>7. HeldInv' /\ GivenInv' /\ BufferInv' /\ WrongInv' /\ NumberInv'
    BY <2>1, <2>2, <2>4, <2>5, Steady DEF LinkInv, NumberInv
  <2> QED
    BY <2>5, <2>6, <2>7 DEF LinkInv
<1>2. CASE Hears
  BY <1>2, HearsKeeps
<1>3. CASE Arrives
  BY <1>3, ArrivesKeeps
<1>4. CASE NoRoom \/ \E i \in 1 .. Len(wire) : Loses(i)
  BY <1>4, LosesKeeps
<1>5. CASE Push
  BY <1>5, HoldsKeeps, GivesKeeps
<1>6. CASE \E c \in Channel, n \in 1 .. MaxChunk : Sends(c, n)
  BY <1>6, SendsKeeps
<1> QED
  BY <1>1, <1>2, <1>3, <1>4, <1>5, <1>6 DEF GameLinkNext

\* So it holds throughout.
LEMMA LinkHolds == GameLinkSpec => []LinkInv
<1> QED
  BY LinkAtFirst, LinkStep, PTL DEF GameLinkSpec

\* While nothing is lost, the games get what was sent, whole, in order and each on
\* its own port (framing.rs, push and frame_on_channel; relay.rs, the two pumps).
THEOREM NothingIsBraided == GameLinkSpec => []NothingBraids
<1>1. LinkInv => NothingBraids
  <2> SUFFICES ASSUME LinkInv, missing = 0, NEW j \in DOMAIN delivered
               PROVE  j \in DOMAIN sent /\ delivered[j] = Datagram(j)
    BY DEF NothingBraids
  <2>1. IsFiniteSet(Missed) /\ Cardinality(Missed) <= 0
    BY DEF LinkInv, CountInv
  <2>2. Missed = {}
    BY <2>1, FS_CardinalityType, FS_EmptySet
  <2>3. End(j) = j /\ End(j) \in DOMAIN sent
    BY DEF LinkInv, NumberInv, GivenInv
  <2>4. delivered[j] = Datagram(End(j))
    BY <2>2 DEF LinkInv, WrongInv, Blamed
  <2> QED
    BY <2>3, <2>4
<1> QED
  BY <1>1, LinkHolds, PTL

\* A lost chunk harms at most one datagram a game is given, and no datagram mixes
\* two ports (framing.rs, push; relay.rs, the router's try_send).
THEOREM DamageIsBounded == GameLinkSpec => []DamageBounded
<1>1. LinkInv => DamageBounded
  <2> SUFFICES ASSUME LinkInv
               PROVE  DamageBounded
    OBVIOUS
  <2> DEFINE W == {j \in DOMAIN delivered : \A k \in DOMAIN sent : delivered[j] # Datagram(k)}
             Blame(j, p) == /\ sent[p.of].ch = delivered[j].ch /\ p.of <= End(j)
                            /\ \A i \in DOMAIN delivered :
                                 i < j /\ delivered[i].ch = delivered[j].ch => End(i) < p.of
  <2>1. \A j \in W : \E p \in Missed : Blame(j, p)
    BY DEF LinkInv, WrongInv, GivenInv, Blamed
  <2>2. \A p \in Missed : p.of \in Nat
    BY Typed DEF LinkInv, Missed
  <2>3. \A j \in DOMAIN delivered : End(j) \in Nat /\ j \in Nat
    BY Typed DEF LinkInv, GivenInv
  <2>4. \A i, j \in W, p \in Missed : Blame(i, p) /\ Blame(j, p) => ~(i < j)
    <3> SUFFICES ASSUME NEW i \in W, NEW j \in W, NEW p \in Missed, Blame(i, p), Blame(j, p), i < j
                 PROVE  FALSE
      OBVIOUS
    <3>1. p.of \in Nat /\ End(i) \in Nat
      BY <2>2, <2>3
    <3>2. p.of <= End(i)
      OBVIOUS
    <3>3. delivered[i].ch = delivered[j].ch
      OBVIOUS
    <3>4. End(i) < p.of
      BY <3>3
    <3> QED
      BY <3>1, <3>2, <3>4
  <2>5. \A i, j \in W, p \in Missed : Blame(i, p) /\ Blame(j, p) => i = j
    <3>1. \A j \in W : j \in Nat
      BY <2>3
    <3> HIDE DEF W, Blame
    <3> QED
      BY <2>4, <3>1
  <2>6. Cardinality(W) <= Cardinality(Missed)
    <3> HIDE DEF W, Blame
    <3> DEFINE f == [j \in W |-> CHOOSE p \in Missed : Blame(j, p)]
    <3>1. \A j \in W : f[j] \in Missed /\ Blame(j, f[j])
      BY <2>1
    <3>2. f \in [W -> Missed]
      BY <3>1
    <3> HIDE DEF f
    <3>3. \A i, j \in W : f[i] = f[j] => i = j
      BY <2>5, <3>1
    <3>4. f \in Injection(W, Missed)
      BY <3>2, <3>3 DEF Injection, IsInjective
    <3>5. IsFiniteSet(Missed)
      BY DEF LinkInv, CountInv
    <3> QED
      BY <3>4, <3>5, FS_Injection
  <2>7. Cardinality(W) <= missing
    <3>1. IsFiniteSet(Missed) /\ Cardinality(Missed) <= missing /\ missing \in Nat
      BY Typed DEF LinkInv, CountInv
    <3>2. IsFiniteSet(W)
      <4>1. IsFiniteSet(1 .. Len(delivered))
        BY FS_Interval, Typed DEF LinkInv
      <4>2. W \in SUBSET (1 .. Len(delivered))
        BY Typed DEF LinkInv
      <4> HIDE DEF W
      <4> QED
        BY <4>1, <4>2, FS_Subset
    <3>3. Cardinality(W) \in Nat /\ Cardinality(Missed) \in Nat
      <4> HIDE DEF W
      <4> QED
        BY <3>1, <3>2, FS_CardinalityType
    <3> QED
      BY <2>6, <3>1, <3>3
  <2>8. \A d \in ToSet(delivered) : \A p \in ToSet(d.data) : sent[p.of].ch = d.ch
    BY DEF ToSet, LinkInv, GivenInv
  <2> QED
    BY <2>7, <2>8 DEF DamageBounded
<1> QED
  BY <1>1, LinkHolds, PTL

\* Both, as the run checks them: what the games get of a link, whether it loses
\* chunks or not (framing.rs, push; relay.rs, the pumps and the router).
THEOREM GamesAreServed == GameLinkSpec => []Reassembles
BY NothingIsBraided, DamageIsBounded, PTL DEF Reassembles

=============================================================================
