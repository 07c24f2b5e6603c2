---------------------------- MODULE BridgeServer ----------------------------
(***************************************************************************)
(* The server side of a mesh bridge (game-bridge, relay.rs, start_server): *)
(* one router task takes the events of every link in the order they came   *)
(* and decides what each link is, a player's or the chat's; a relay task   *)
(* per link pumps chunks to the game.  The allowlist, the identify timeout *)
(* and the chat hub (server_chat.rs) decide with it.                       *)
(*                                                                         *)
(* The router and the relays share the map of senders under one lock.  The *)
(* router keeps that lock while it sends a relay its end marker, and waits *)
(* there when the relay's channel is full.  Every other handler runs to    *)
(* its end without waiting for another task and is one step.               *)
(*                                                                         *)
(* External: the mesh engine, which reports a link established first and   *)
(* closed last, and the peer, which may identify, say Hello and send       *)
(* chunks in any order, whatever the clients of this repository do.  What  *)
(* it writes to the chat stream another task reads, and may report after   *)
(* the link closed.                                                        *)
(***************************************************************************)
EXTENDS Naturals, FiniteSets, Sequences

CONSTANTS
  Link,     \* links
  LinkRoom,      \* chunks a link's channel holds
  MaxData,  \* bound: chunks a peer sends on one link
  MaxSwitch \* bound: times chat is turned off or on

ASSUME BridgeServerAssumption ==
  LinkRoom \in Nat \ {0} /\ MaxData \in Nat /\ MaxSwitch \in Nat
  /\ IsFiniteSet(Link) /\ Link # {}

VARIABLES
  setup,   \* how the server was started: allowlisted or open, a TCP game or not
  peer,    \* each link's far end: whether it is allowed, what it did
  events,  \* the funnel: what the router has still to handle
  router,  \* the router: idle, or waiting to send a link its end marker
  table,   \* what the router's maps hold of each link
  chan,    \* each link's channel: who holds its receiver, and what is in it
  relay,   \* each link's relay task
  hub,     \* the chat hub: on or off, its members, those that identified
  clients, \* connected_clients
  shown,   \* bridge_clients, the number the bridge reports
  past     \* what happened to each link: it closed, its Hello was late

bridgeVars == <<setup, peer, events, router, table, chan, relay, hub, clients, shown, past>>

Kind == {"established", "identified", "timeout", "hello", "closed", "data"}
Event(k, l) == [kind |-> k, link |-> l]

BridgeTypeOK ==
  /\ setup \in [allowlist : BOOLEAN, tcp : BOOLEAN]
  /\ peer \in [Link -> [link : {"none", "up", "closing", "closed"}, allowed : BOOLEAN,
                        said : SUBSET {"hello", "identify"}, timer : {"off", "armed", "fired"}, sent : 0 .. MaxData]]
  /\ events \in Seq([kind : Kind, link : Link])
  /\ router \in [at : {"idle", "send"}, on : Link, why : {"closed", "hello"}]
  /\ table \in [sender : SUBSET Link, pending : SUBSET Link, chat : SUBSET Link]
  /\ chan \in [Link -> [rx : {"none", "pending", "relay", "gone"}, full : 0 .. LinkRoom, end : BOOLEAN]]
  /\ relay \in [Link -> {"none", "open", "failed", "run", "ended", "gone"}]
  /\ hub \in [on : BOOLEAN, member : SUBSET Link, named : SUBSET Link, off : 0 .. MaxSwitch]
  /\ clients \subseteq Link /\ shown \in 0 .. Cardinality(Link)
  /\ past \in [closed : SUBSET Link, late : SUBSET Link]

SomeLink == CHOOSE l \in Link : TRUE

BridgeInit ==
  /\ setup \in [allowlist : BOOLEAN, tcp : BOOLEAN]
  /\ peer \in [Link -> [link : {"none"}, allowed : BOOLEAN, said : {{}},
                        timer : {"off"}, sent : {0}]]
  /\ events = <<>>
  /\ router = [at |-> "idle", on |-> SomeLink, why |-> "closed"]
  /\ table = [sender |-> {}, pending |-> {}, chat |-> {}]
  /\ chan = [l \in Link |-> [rx |-> "none", full |-> 0, end |-> FALSE]]
  /\ relay = [l \in Link |-> "none"]
  /\ hub = [on |-> TRUE, member |-> {}, named |-> {}, off |-> 0]
  /\ clients = {} /\ shown = 0
  /\ past = [closed |-> {}, late |-> {}]

Reports(e) == events' = Append(events, e)
Without(S, l) == S \ {l}
Allowed(l) == ~setup.allowlist \/ peer[l].allowed
Named(l) == l \in hub.named

(***************************************************************************)
(* The mesh and the peers.                                                 *)
(***************************************************************************)
PeerOnly == UNCHANGED <<setup, router, table, chan, relay, hub, clients, shown, past>>

Connects(l) ==
  /\ peer[l].link = "none"
  /\ peer' = [peer EXCEPT ![l].link = "up"]
  /\ Reports(Event("established", l)) /\ PeerOnly

\* A peer identifies when it likes, once.
Identifies(l) ==
  /\ peer[l].link = "up" /\ "identify" \notin peer[l].said
  /\ peer' = [peer EXCEPT ![l].said = @ \cup {"identify"}]
  /\ Reports(Event("identified", l)) /\ PeerOnly

\* spawn_server_chat_link reads a first message, reports it if it is Hello and
\* none after it; the link may have closed since it came.  Before the link is accepted nothing reads.
SaysHello(l) ==
  /\ peer[l].link # "none" /\ "hello" \notin peer[l].said
  /\ chan[l].rx # "none"
  /\ peer' = [peer EXCEPT ![l].said = @ \cup {"hello"}]
  /\ Reports(Event("hello", l)) /\ PeerOnly

SendsChunk(l) ==
  /\ peer[l].link = "up" /\ peer[l].sent < MaxData
  /\ peer' = [peer EXCEPT ![l].sent = @ + 1]
  /\ Reports(Event("data", l)) /\ PeerOnly

\* The peer leaves or the path is lost, or the bridge closed the link itself.
Closes(l) ==
  /\ peer[l].link \in {"up", "closing"}
  /\ peer' = [peer EXCEPT ![l].link = "closed"]
  /\ Reports(Event("closed", l)) /\ PeerOnly

TimerFires(l) ==
  /\ peer[l].timer = "armed"
  /\ peer' = [peer EXCEPT ![l].timer = "fired"]
  /\ Reports(Event("timeout", l)) /\ PeerOnly

\* close_link: the engine will report the link closed.
CloseLinks(S) ==
  peer' = [l \in Link |-> IF l \in S /\ peer[l].link = "up"
                          THEN [peer[l] EXCEPT !.link = "closing"] ELSE peer[l]]

(***************************************************************************)
(* The router.  It takes the event at the head of the funnel.              *)
(***************************************************************************)
Handles(k, l) ==
  /\ router.at = "idle" /\ events # <<>> /\ Head(events) = Event(k, l)
  /\ events' = Tail(events)

\* start_server_link: a UDP game's relay owns the receiver; for a TCP game the
\* receiver is dropped and the bytes come over the stream.
StartGame(l) ==
  /\ relay' = [relay EXCEPT ![l] = "open"]
  /\ chan' = [chan EXCEPT ![l].rx = IF setup.tcp THEN "gone" ELSE "relay"]

\* Dropping a receiver that nothing took.
DropReceiver(l) ==
  /\ chan' = [chan EXCEPT ![l] = IF l \in table.pending
                                 THEN [@ EXCEPT !.rx = "gone", !.full = 0] ELSE @]
  /\ UNCHANGED relay

\* Mutant of OnEstablished: a link on hold has no identify timeout.
OnEstablishedUntimed(l) ==
  /\ Handles("established", l)
  /\ table' = [table EXCEPT !.sender = @ \cup {l}, !.pending = @ \cup {l}]
  /\ shown' = Cardinality(table'.sender)
  /\ chan' = [chan EXCEPT ![l].rx = "pending"]
  /\ UNCHANGED <<setup, peer, router, relay, hub, clients, past>>

OnEstablished(l) ==
  /\ Handles("established", l)
  /\ table' = [table EXCEPT !.sender = @ \cup {l},
                            !.pending = IF setup.allowlist \/ setup.tcp THEN @ \cup {l} ELSE @]
  /\ shown' = Cardinality(table'.sender)
  /\ IF setup.allowlist \/ setup.tcp
     THEN /\ chan' = [chan EXCEPT ![l].rx = "pending"]
          /\ peer' = [peer EXCEPT ![l].timer = "armed"]
          /\ UNCHANGED relay
     ELSE StartGame(l) /\ UNCHANGED peer
  /\ UNCHANGED <<setup, router, hub, clients, past>>

\* A chat link's identity goes to the hub, and never starts a game.
OnIdentifiedChat(l) ==
  /\ Handles("identified", l) /\ l \in table.chat
  /\ IF Allowed(l)
     THEN /\ hub' = [hub EXCEPT !.named = IF l \in hub.member THEN @ \cup {l} ELSE @]
          /\ UNCHANGED <<peer, table>>
     ELSE /\ hub' = [hub EXCEPT !.member = Without(@, l), !.named = Without(@, l)]
          /\ table' = [table EXCEPT !.chat = Without(@, l)]
          /\ CloseLinks({l})
  /\ UNCHANGED <<setup, router, chan, relay, clients, shown, past>>

OnIdentified(l) ==
  /\ Handles("identified", l) /\ l \notin table.chat
  /\ table' = [table EXCEPT !.pending = Without(@, l),
                            !.sender = IF Allowed(l) THEN @ ELSE Without(@, l)]
  /\ IF Allowed(l)
     THEN /\ clients' = clients \cup {l}
          /\ IF l \in table.pending THEN StartGame(l) ELSE UNCHANGED <<chan, relay>>
          /\ UNCHANGED peer
     ELSE clients' = Without(clients, l) /\ DropReceiver(l) /\ CloseLinks({l})
  /\ UNCHANGED <<setup, router, hub, shown, past>>

OnTimeoutChat(l) ==
  /\ Handles("timeout", l) /\ l \in table.chat
  /\ IF setup.allowlist /\ ~Named(l)
     THEN /\ hub' = [hub EXCEPT !.member = Without(@, l)]
          /\ table' = [table EXCEPT !.chat = Without(@, l)]
          /\ CloseLinks({l})
     ELSE UNCHANGED <<hub, table, peer>>
  /\ UNCHANGED <<setup, router, chan, relay, clients, shown, past>>

\* Mutant of OnTimeout: an allowlisted server gives in as an open one does.
OnTimeoutStarts(l) ==
  /\ Handles("timeout", l) /\ l \notin table.chat
  /\ IF l \notin table.pending THEN UNCHANGED <<table, chan, relay>>
     ELSE table' = [table EXCEPT !.pending = Without(@, l)] /\ StartGame(l)
  /\ UNCHANGED <<setup, peer, router, hub, clients, shown, past>>

\* An open server only waited for the client's reader; an allowlisted one closes.
OnTimeout(l) ==
  /\ Handles("timeout", l) /\ l \notin table.chat
  /\ IF l \notin table.pending THEN UNCHANGED <<table, chan, relay, peer>>
     ELSE /\ table' = [table EXCEPT !.pending = Without(@, l),
                                    !.sender = IF setup.allowlist THEN Without(@, l) ELSE @]
          /\ IF setup.allowlist THEN DropReceiver(l) /\ CloseLinks({l})
             ELSE StartGame(l) /\ UNCHANGED peer
  /\ UNCHANGED <<setup, router, hub, clients, shown, past>>

\* try_send: a chunk that finds the channel full is dropped.
OnData(l) ==
  /\ Handles("data", l)
  /\ chan' = [chan EXCEPT ![l].full =
       IF l \in table.sender /\ chan[l].rx \in {"pending", "relay"} /\ @ < LinkRoom THEN @ + 1 ELSE @]
  /\ UNCHANGED <<setup, peer, router, table, relay, hub, clients, shown, past>>

\* Mutant of EndsGame: a link that turns out to be the chat's stays on hold.
EndsGameHeld(l, c) ==
  /\ table' = [table EXCEPT !.sender = Without(@, l), !.chat = c]
  /\ IF l \in table.sender /\ chan[l].rx = "relay"
     THEN chan' = [chan EXCEPT ![l].end = TRUE] /\ UNCHANGED relay
     ELSE DropReceiver(l)
  /\ UNCHANGED router

\* The end marker finds no room.
MustWait(l) == l \in table.sender /\ chan[l].rx = "relay" /\ chan[l].full = LinkRoom

\* Hello and LinkClosed end the link's game: what waited is dropped, and a relay
\* is sent its end marker.  The sender is out of the map, the lock still held.
EndsGame(l, c) ==
  /\ table' = [table EXCEPT !.pending = Without(@, l), !.sender = Without(@, l), !.chat = c]
  /\ IF MustWait(l)
     THEN router' = [at |-> "send", on |-> l, why |-> Head(events).kind] /\ UNCHANGED <<chan, relay>>
     ELSE /\ IF l \in table.sender /\ chan[l].rx = "relay"
             THEN chan' = [chan EXCEPT ![l].end = TRUE] /\ UNCHANGED relay
             ELSE DropReceiver(l)
          /\ UNCHANGED router

\* What the Hello handler leaves of a link in chat_links: it goes when chat is off.
Chatting(S, l) == IF hub.on THEN S \cup {l} ELSE Without(S, l)

\* The rest of the Hello handler: a member, or turned away when chat is off by
\* the time the marker went in.
Welcome(l) ==
  /\ clients' = Without(clients, l) /\ shown' = Cardinality(table'.sender)
  /\ IF hub.on THEN hub' = [hub EXCEPT !.member = @ \cup {l}] /\ UNCHANGED peer
     ELSE CloseLinks({l}) /\ UNCHANGED hub

OnHello(l) ==
  /\ Handles("hello", l)
  /\ EndsGame(l, IF MustWait(l) THEN table.chat \cup {l} ELSE Chatting(table.chat, l))
  /\ past' = [past EXCEPT !.late = IF l \in past.closed THEN @ \cup {l} ELSE @]
  /\ IF router'.at = "idle" THEN Welcome(l) ELSE UNCHANGED <<clients, shown, hub, peer>>
  /\ UNCHANGED setup

\* The rest of the LinkClosed handler.
Forgets(l) ==
  /\ clients' = Without(clients, l) /\ shown' = Cardinality(table'.sender)
  /\ UNCHANGED <<hub, peer>>

\* Mutant of OnClosed: a link that closes stays a member of the chat.
OnClosedKeepsMember(l) ==
  /\ Handles("closed", l)
  /\ EndsGame(l, Without(table.chat, l))
  /\ past' = [past EXCEPT !.closed = @ \cup {l}]
  /\ IF router'.at = "idle"
     THEN clients' = Without(clients, l) /\ shown' = Cardinality(table'.sender)
     ELSE UNCHANGED <<clients, shown>>
  /\ UNCHANGED <<setup, peer, hub>>

OnClosed(l) ==
  /\ Handles("closed", l)
  /\ EndsGame(l, Without(table.chat, l))
  /\ past' = [past EXCEPT !.closed = @ \cup {l}]
  /\ hub' = IF l \in table.chat
            THEN [hub EXCEPT !.member = Without(@, l), !.named = Without(@, l)] ELSE hub
  /\ IF router'.at = "idle"
     THEN clients' = Without(clients, l) /\ shown' = Cardinality(table'.sender)
     ELSE UNCHANGED <<clients, shown>>
  /\ UNCHANGED <<setup, peer>>

\* The end marker goes in once there is room, or the receiver is gone.
MarkerSent ==
  /\ router.at = "send"
  /\ LET l == router.on IN
     /\ chan[l].rx # "relay" \/ chan[l].full < LinkRoom
     /\ chan' = [chan EXCEPT ![l].end = chan[l].rx = "relay"]
     /\ IF router.why = "closed" THEN UNCHANGED table /\ Forgets(l)
        ELSE table' = [table EXCEPT !.chat = Chatting(@, l)] /\ Welcome(l)
  /\ router' = [router EXCEPT !.at = "idle"]
  /\ UNCHANGED <<setup, events, relay, past>>

Handler ==
  \/ \E l \in Link :
       \/ OnEstablished(l) \/ OnIdentifiedChat(l) \/ OnIdentified(l) \/ OnTimeoutChat(l)
       \/ OnTimeout(l) \/ OnData(l) \/ OnHello(l) \/ OnClosed(l)
  \/ MarkerSent

(***************************************************************************)
(* A link's relay: spawn_server_link_relay, spawn_server_link_stream_relay.*)
(***************************************************************************)
LockFree == router.at = "idle"
RelayOnly == UNCHANGED <<setup, events, router, hub, clients, shown, past>>

\* Sockets bound and connected to the game, or not.
RelayOpens(l) ==
  /\ relay[l] = "open"
  /\ \E s \in {"run", "failed"} : relay' = [relay EXCEPT ![l] = s]
  /\ UNCHANGED <<peer, table, chan>> /\ RelayOnly

RelayTakes(l) ==
  /\ relay[l] = "run" /\ chan[l].full > 0
  /\ chan' = [chan EXCEPT ![l].full = @ - 1]
  /\ UNCHANGED <<peer, table, relay>> /\ RelayOnly

\* The game answers with an error or hangs up, or the end marker is next, or
\* there is no sender left: the receiver is dropped.
RelayEnds(l) ==
  /\ relay[l] = "run"
  /\ relay' = [relay EXCEPT ![l] = "ended"]
  /\ chan' = [chan EXCEPT ![l] = [rx |-> "gone", full |-> 0, end |-> FALSE]]
  /\ UNCHANGED <<peer, table>> /\ RelayOnly

MustEnd(l) ==
  /\ chan[l].full = 0
  /\ \/ chan[l].end
     \/ setup.tcp /\ peer[l].link = "closed"
     \/ l \notin table.sender /\ ~(router.at = "send" /\ router.on = l)
  /\ RelayEnds(l)

\* It takes its sender out of the map and closes the link; one that failed
\* to open still holds its receiver until then.
RelayCleans(l) ==
  /\ relay[l] \in {"ended", "failed"} /\ LockFree
  /\ relay' = [relay EXCEPT ![l] = "gone"]
  /\ chan' = [chan EXCEPT ![l] = [rx |-> "gone", full |-> 0, end |-> FALSE]]
  /\ table' = [table EXCEPT !.sender = Without(@, l)]
  /\ IF l \in table.sender \/ setup.tcp \/ relay[l] = "failed"
     THEN CloseLinks({l}) ELSE UNCHANGED peer
  /\ RelayOnly

\* set_chat: turning chat off drains the members and closes their links.
SwitchChat ==
  /\ hub.off < MaxSwitch
  /\ hub' = [on |-> ~hub.on, member |-> IF hub.on THEN {} ELSE hub.member,
             named |-> IF hub.on THEN {} ELSE hub.named, off |-> hub.off + 1]
  /\ IF hub.on THEN CloseLinks(hub.member) ELSE UNCHANGED peer
  /\ UNCHANGED <<setup, events, router, table, chan, relay, clients, shown, past>>

BridgeNext ==
  \/ Handler \/ SwitchChat
  \/ \E l \in Link :
       \/ Connects(l) \/ Identifies(l) \/ SaysHello(l) \/ SendsChunk(l) \/ Closes(l)
       \/ TimerFires(l)
       \/ RelayOpens(l) \/ RelayTakes(l) \/ RelayEnds(l) \/ RelayCleans(l)

\* Tasks run, timers fire, and the engine reports the links the bridge closed.
BridgeFairness ==
  /\ WF_bridgeVars(Handler)
  /\ \A l \in Link :
       /\ WF_bridgeVars(TimerFires(l)) /\ WF_bridgeVars(RelayOpens(l))
       /\ WF_bridgeVars(RelayTakes(l) \/ MustEnd(l)) /\ WF_bridgeVars(RelayCleans(l))
       /\ WF_bridgeVars(peer[l].link = "closing" /\ Closes(l))

BridgeSpec == BridgeInit /\ [][BridgeNext]_bridgeVars /\ BridgeFairness

(***************************************************************************)
(* Properties.                                                             *)
(***************************************************************************)

\* An allowlisted server connects its game only for a link that proved it is on
\* the list, whatever the order of its identity, its Hello and the timeout.
AllowlistHolds ==
  \A l \in Link : setup.allowlist /\ relay[l] # "none" =>
    peer[l].allowed /\ "identify" \in peer[l].said

\* A link that closed leaves nothing in the router's maps or the hub, and when
\* nothing is under way the bridge reports as many clients as it has.  One thing
\* can stay for ever: the chat membership of a link whose Hello was reported
\* after its close.
LeavesNothing ==
  router.at = "idle" =>
    /\ \A l \in past.closed :
         /\ l \notin table.sender \cup table.pending \cup clients
         /\ l \in table.chat \cup hub.member => l \in past.late
    /\ (/\ events = <<>>
        /\ \A l \in Link : peer[l].link # "closing" /\ relay[l] \notin {"ended", "failed"})
         => shown = Cardinality(table.sender)

\* Nobody is kept waiting without somebody to end it: a link that is held to
\* identify has its timeout still to come, and a router that waits for room in a
\* channel, with the lock in its hand, waits on a relay that is not over.
NobodyStranded ==
  /\ \A l \in table.pending : peer[l].timer = "armed"
                             \/ \E j \in 1 .. Len(events) : events[j] = Event("timeout", l)
  /\ router.at = "send" /\ chan[router.on].rx = "relay" =>
       relay[router.on] \in {"open", "failed", "run"}

\* A link that is held to identify does not wait for ever, and the router never
\* waits on a relay for ever, unless that relay failed to open: the relay then
\* waits for the lock the router holds.
Decided ==
  /\ \A l \in Link : []<>(l \in table.pending => \E k \in Link : relay[k] = "failed")
  /\ []<>(router.at = "send" => relay[router.on] = "failed")

=============================================================================
