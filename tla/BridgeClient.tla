---------------------------- MODULE BridgeClient ----------------------------
(***************************************************************************)
(* The client side of a mesh bridge (game-bridge, relay.rs,                *)
(* spawn_client_udp_forwarder): one loop reads what the player's game      *)
(* sends to a local port; a source address heard for the first time gets a *)
(* task, which opens a link to the server and then pumps both ways.        *)
(*                                                                         *)
(* Two maps are shared: udp_links says which task takes a source's packets,*)
(* and link_data which task takes a link's chunks.  The loop holds the     *)
(* lock of udp_links, for reading, while it hands a packet over, and asks  *)
(* for it again, for writing, when nobody takes the packet.                *)
(*                                                                         *)
(* External: the mesh engine.  It opens a link or not, and a send on a     *)
(* link that has closed is accepted and goes nowhere.                      *)
(***************************************************************************)
EXTENDS Naturals, Sequences, FiniteSets

CONSTANTS
  Src,      \* source addresses of game clients
  MaxLink,  \* bound: links the bridge opens, one task for each
  PacketRoom,      \* packets a task's channel holds
  MaxEmpty  \* bound: empty packets game clients send

ASSUME BridgeClientAssumption ==
  Src # {} /\ PacketRoom \in Nat \ {0} /\ MaxEmpty \in Nat /\ MaxLink \in Nat

VARIABLES
  loop,     \* the forwarder: reading, or handing a packet over, or shut out
  udpLinks, \* the task that takes each source's packets
  linkData, \* tasks that take their link's chunks
  task,     \* each task
  empties   \* empty packets so far

clientVars == <<loop, udpLinks, linkData, task, empties>>

Task == 1 .. MaxLink
Nobody == 0
NewPump == [at |-> "free", src |-> CHOOSE s \in Src : TRUE, link |-> "none",
         queue |-> <<>>, sends |-> FALSE, hears |-> FALSE]

\* A packet is empty or not.
Packets == UNION {[1 .. n -> BOOLEAN] : n \in 0 .. PacketRoom}

ClientTypeOK ==
  /\ loop \in [at : {"read", "send", "shut"}, src : Src, empty : BOOLEAN]
  /\ udpLinks \in [Src -> Task \cup {Nobody}]
  /\ linkData \subseteq Task
  /\ task \in [Task ->
       [at : {"free", "establish", "register", "run", "done"}, src : Src,
        link : {"none", "up", "closed"}, queue : Packets,
        sends : BOOLEAN, hears : BOOLEAN]]
  /\ empties \in 0 .. MaxEmpty

ClientInit ==
  /\ loop = [at |-> "read", src |-> NewPump.src, empty |-> FALSE]
  /\ udpLinks = [s \in Src |-> Nobody]
  /\ linkData = {}
  /\ task = [k \in Task |-> NewPump]
  /\ empties = 0

\* The loop keeps udp_links locked unless it waits for a packet.
Unlocked == loop.at = "read"

(***************************************************************************)
(* The loop.                                                               *)
(***************************************************************************)
Counts(e) == IF e THEN empties < MaxEmpty /\ empties' = empties + 1 ELSE UNCHANGED empties

\* A packet of a source that has a task; it may be empty.
Reads(s, e) ==
  /\ loop.at = "read" /\ udpLinks[s] # Nobody /\ Counts(e)
  /\ loop' = [at |-> "send", src |-> s, empty |-> e]
  /\ UNCHANGED <<udpLinks, linkData, task>>

\* A packet of a source that has none: the task opens a link with it in hand.
ReadsNew(s, k) ==
  /\ loop.at = "read" /\ udpLinks[s] = Nobody /\ task[k].at = "free"
  /\ task' = [task EXCEPT ![k] = [NewPump EXCEPT !.at = "establish", !.src = s]]
  /\ UNCHANGED <<loop, udpLinks, linkData, empties>>

\* A task takes packets from when it is in udp_links until its send_task ends.
Takes(k) == task[k].at = "register" \/ task[k].sends

\* tx.send, which waits for room.
HandsOver ==
  LET k == udpLinks[loop.src] IN
  /\ loop.at = "send" /\ Takes(k) /\ Len(task[k].queue) < PacketRoom
  /\ task' = [task EXCEPT ![k] = [@ EXCEPT !.queue = Append(task[k].queue, loop.empty)]]
  /\ loop' = [loop EXCEPT !.at = "read"]
  /\ UNCHANGED <<udpLinks, linkData, empties>>

\* The task takes no more packets.  Its entry is to be removed, for which the
\* loop waits until nobody reads the map, itself included.
NobodyTakes ==
  /\ loop.at = "send" /\ ~Takes(udpLinks[loop.src])
  /\ loop' = [loop EXCEPT !.at = "shut"]
  /\ UNCHANGED <<udpLinks, linkData, task, empties>>

(***************************************************************************)
(* A task.                                                                 *)
(***************************************************************************)
LoopOnly == UNCHANGED <<loop, empties>>

\* establish_link_with_path_retry, and identify, whose failure is logged.
Establishes(k) ==
  /\ task[k].at = "establish"
  /\ \/ task' = [task EXCEPT ![k] = [NewPump EXCEPT !.at = "done"]] /\ UNCHANGED udpLinks
     \/ /\ Unlocked
        /\ task' = [task EXCEPT ![k] = [@ EXCEPT !.at = "register", !.link = "up"]]
        /\ udpLinks' = [udpLinks EXCEPT ![task[k].src] = k]
  /\ UNCHANGED linkData /\ LoopOnly

\* The first packet is sent, then the link's chunks are asked for.
Registers(k) ==
  /\ task[k].at = "register"
  /\ task' = [task EXCEPT ![k] = [@ EXCEPT !.at = "run", !.sends = TRUE, !.hears = TRUE]]
  /\ linkData' = linkData \cup {k}
  /\ UNCHANGED udpLinks /\ LoopOnly

\* send_task: it sends packets until an empty one, and drops what is behind it.
TaskSends(k) ==
  /\ task[k].sends /\ task[k].queue # <<>>
  /\ task' = [task EXCEPT ![k] =
                [@ EXCEPT !.sends = ~Head(task[k].queue),
                          !.queue = IF Head(task[k].queue) THEN <<>> ELSE Tail(task[k].queue)]]
  /\ UNCHANGED <<udpLinks, linkData>> /\ LoopOnly

\* send_task ends when another task has taken over its source.
Replaced(k) ==
  /\ task[k].sends /\ task[k].queue = <<>> /\ udpLinks[task[k].src] # k
  /\ task' = [task EXCEPT ![k] = [@ EXCEPT !.sends = FALSE]]
  /\ UNCHANGED <<udpLinks, linkData>> /\ LoopOnly

\* recv_task ends when the router has dropped the link's entry.
StopsHearing(k) ==
  /\ task[k].hears /\ k \notin linkData
  /\ task' = [task EXCEPT ![k] = [@ EXCEPT !.hears = FALSE]]
  /\ UNCHANGED <<udpLinks, linkData>> /\ LoopOnly

\* Mutant of TaskEnds: its source stays in the map.
TaskEndsMapped(k) ==
  /\ task[k].at = "run" /\ ~task[k].sends /\ ~task[k].hears /\ Unlocked
  /\ task' = [task EXCEPT ![k] = [@ EXCEPT !.at = "done", !.link = "closed"]]
  /\ linkData' = linkData \ {k}
  /\ UNCHANGED udpLinks /\ LoopOnly

\* Both have ended: the task removes its link and its source, whoever has
\* taken that over, and closes the link.
TaskEnds(k) ==
  /\ task[k].at = "run" /\ ~task[k].sends /\ ~task[k].hears /\ Unlocked
  /\ task' = [task EXCEPT ![k] = [@ EXCEPT !.at = "done", !.link = "closed"]]
  /\ linkData' = linkData \ {k}
  /\ udpLinks' = [udpLinks EXCEPT ![task[k].src] = Nobody]
  /\ LoopOnly

\* The link closes: the server leaves, or the path is lost.  The router removes
\* the link's entry, if it is there yet.
LinkCloses(k) ==
  /\ task[k].link = "up"
  /\ task' = [task EXCEPT ![k] = [@ EXCEPT !.link = "closed"]]
  /\ linkData' = linkData \ {k}
  /\ UNCHANGED udpLinks /\ LoopOnly

TaskStep(k) ==
  Establishes(k) \/ Registers(k) \/ TaskSends(k) \/ Replaced(k) \/ StopsHearing(k) \/ TaskEnds(k)

ClientNext ==
  \/ HandsOver \/ NobodyTakes
  \/ \E s \in Src : (\E e \in BOOLEAN : Reads(s, e)) \/ \E k \in Task : ReadsNew(s, k)
  \/ \E k \in Task : TaskStep(k) \/ LinkCloses(k)

ClientSpec == ClientInit /\ [][ClientNext]_clientVars

(***************************************************************************)
(* Properties.                                                             *)
(***************************************************************************)

\* Every entry of udp_links is a task of that source that is not over, and the
\* loop is never shut out of its own map but for an empty packet.
MapsSound ==
  /\ \A s \in Src : udpLinks[s] # Nobody =>
       task[udpLinks[s]].src = s /\ task[udpLinks[s]].at \in {"register", "run"}
  /\ loop.at = "shut" => empties > 0

=============================================================================
