----------------------------- MODULE NodeAgent -----------------------------
(***************************************************************************)
(* The life of the game servers of one node: platform-agent's agent.rs,    *)
(* with the calls it makes to docker.rs (the containers), ports.rs (the    *)
(* port allocator) and mesh.rs (the mesh bridges).                         *)
(*                                                                         *)
(* Every request and every background loop of the agent is a TASK.  A task *)
(* is asynchronous: between two awaits any other task, Docker or a game    *)
(* may move, so each step below is the code from one await to the next.    *)
(* Nothing is kept on disk about the servers: Docker's labels are the      *)
(* record, and an agent that starts again rebuilds its memory from them.   *)
(*                                                                         *)
(* Abstractions: a server publishes one port (PortAllocator has the        *)
(* several channels and the order of the queue); a request's own choice of *)
(* port, a pack that refuses the plan and a full range are one free choice *)
(* at Acquire; what the crash watch remembers is CrashWatch's; the names,  *)
(* packs, bans and bots of a server are left out.                          *)
(***************************************************************************)
EXTENDS Naturals, FiniteSets

CONSTANTS
  Instance,          \* server ids
  Port,              \* the node's configured port range
  None,              \* no port, no server
  MaxInstances,      \* config: max_instances
  Client,            \* requests in flight: the API and the uplink
  Loop,              \* the agent's own loops: crash watch, schedule, disk limit
  Poller,            \* whoever lists the servers: the page, an index
  Faults,            \* what may go wrong around the agent, of FaultKinds
  MaxDrops           \* bound: requests whose caller hangs up

\* "start": Docker makes a container and then cannot start it.
\* "overlap": two requests work on one server at once.
FaultKinds == {"start", "overlap"}

ASSUME CountsAssumption == MaxInstances \in Nat \ {0} /\ MaxDrops \in Nat
ASSUME NamesAssumption == None \notin Port \cup Instance /\ Faults \subseteq FaultKinds
ASSUME TasksAssumption ==
  /\ Client # {} /\ IsFiniteSet(Client) /\ IsFiniteSet(Instance)
  /\ Client \cap Loop = {} /\ Client \cap Poller = {} /\ Loop \cap Poller = {}

Task == Client \cup Loop \cup Poller

VARIABLES
  state,        \* Docker: what each server's container is doing
  port,         \* Docker: the port on each container's label
  held,         \* PortAllocator.held
  bridge,       \* MeshBridges.bridges: the game port each bridge relays to
  booted,       \* the agent has put its servers back and serves requests
  restoring,    \* running servers not put back on the mesh yet
  job,          \* each task: its next step, its request and its locals
  drops         \* ghost: requests dropped since the agent started

docker == <<state, port>>
boot   == <<booted, restoring>>
vars   == <<docker, held, bridge, boot, job, drops>>

Step == {"idle", "plan", "make", "start", "giveBack", "address", "onMesh",
         "leaveMesh", "restart", "halt", "remove", "release", "prune", "drop"}

Job == [at : Step, op : {"none", "create", "restart", "stop", "remove"},
        srv : Instance \cup {None}, prt : Port \cup {None}, todo : SUBSET Instance]

Idle == [at |-> "idle", op |-> "none", srv |-> None, prt |-> None, todo |-> {}]

TypeOK ==
  /\ state \in [Instance -> {"none", "stopped", "running"}]
  /\ port \in [Instance -> Port \cup {None}]
  /\ \A i \in Instance : port[i] = None <=> state[i] = "none"
  /\ held \in SUBSET Port
  /\ bridge \in [Instance -> Port \cup {None}]
  /\ booted \in BOOLEAN /\ restoring \in SUBSET Instance
  /\ job \in [Task -> Job]
  /\ \A t \in Task : job[t].at \in Step \ {"idle", "prune", "drop"} => job[t].srv \in Instance
  /\ \A t \in Task : job[t].at \in {"make", "start", "giveBack"} => job[t].prt \in Port
  /\ drops \in 0..MaxDrops

-----------------------------------------------------------------------------
(* What Docker shows.                                                      *)

Present == {i \in Instance : state[i] # "none"}
Running == {i \in Instance : state[i] = "running"}

\* A second container cannot bind a host port a running one has.
BindConflict(i) == \E j \in Running \ {i} : port[j] = port[i]

\* start_container, restart_container: a container that is up stays up.
Runs(i) ==
  /\ i \in Present /\ ~BindConflict(i)
  /\ state' = [state EXCEPT ![i] = "running"]

(* Moving a task along.                                                    *)
Goto(t, s) == job' = [job EXCEPT ![t].at = s]
Return(t)  == job' = [job EXCEPT ![t] = Idle]

Begin(t, o, i, s, p) ==
  /\ job[t].at = "idle" /\ booted
  /\ job' = [job EXCEPT ![t] = [Idle EXCEPT !.at = s, !.op = o, !.srv = i, !.prt = p]]

Quiet(c, i) == "overlap" \in Faults \/ \A d \in Client \ {c} : job[d].srv # i

-----------------------------------------------------------------------------
(* Create: Agent::create_on with ports of its own.                         *)

\* Mutant of CreateChecks: "more than the limit" for "at the limit".
CreateChecksOffByOne(c, i) ==
  /\ Quiet(c, i)
  /\ i \notin Present
  /\ Cardinality(Present) <= MaxInstances
  /\ Begin(c, "create", i, "plan", None)
  /\ UNCHANGED <<docker, held, bridge, boot, drops>>

\* The name and the limit are checked against one listing; no lock is kept.
CreateChecks(c, i) ==
  /\ Quiet(c, i)
  /\ i \notin Present
  /\ Cardinality(Present) < MaxInstances
  /\ Begin(c, "create", i, "plan", None)
  /\ UNCHANGED <<docker, held, bridge, boot, drops>>

\* The plan, then PortAllocator::acquire.  A refused plan, a port that is
\* taken and an exhausted range all return the error with nothing changed.
Acquire(c) ==
  /\ job[c].at = "plan"
  /\ \/ \E p \in Port \ held :
          /\ held' = held \cup {p}
          /\ job' = [job EXCEPT ![c].at = "make", ![c].prt = p]
     \/ /\ Return(c)
        /\ UNCHANGED held
  /\ UNCHANGED <<docker, bridge, boot, drops>>

\* create_container.  A name in use, a bad image, a dead daemon: an error.
\* A server asked for as stopped is left there.
MakeContainer(c) ==
  /\ job[c].at = "make"
  /\ \/ /\ job[c].srv \notin Present
        /\ state' = [state EXCEPT ![job[c].srv] = "stopped"]
        /\ port' = [port EXCEPT ![job[c].srv] = job[c].prt]
        /\ Goto(c, "start") \/ Return(c)
     \/ /\ Goto(c, "giveBack")
        /\ UNCHANGED docker
  /\ UNCHANGED <<held, bridge, boot, drops>>

StartContainer(c) ==
  /\ job[c].at = "start"
  /\ \/ /\ Runs(job[c].srv)
        /\ Goto(c, "address")
     \/ /\ "start" \in Faults \/ job[c].srv \notin Present \/ BindConflict(job[c].srv)
        /\ Goto(c, "giveBack")
        /\ UNCHANGED state
  /\ UNCHANGED <<port, held, bridge, boot, drops>>

\* Mutant of GiveBack: a failed start keeps its ports.
GiveBackForgotten(c) ==
  /\ job[c].at = "giveBack"
  /\ Return(c)
  /\ UNCHANGED <<docker, held, bridge, boot, drops>>

\* The failed create gives its port back; a container made stays made.
GiveBack(c) ==
  /\ job[c].at = "giveBack"
  /\ held' = held \ {job[c].prt}
  /\ Return(c)
  /\ UNCHANGED <<docker, bridge, boot, drops>>

-----------------------------------------------------------------------------
(* Going back on the mesh: game_address, then MeshBridges::start.          *)

Address(t) ==
  /\ job[t].at = "address"
  /\ IF job[t].srv \in Present
     THEN job' = [job EXCEPT ![t].at = "onMesh", ![t].prt = port[job[t].srv]]
     ELSE Return(t)
  /\ UNCHANGED <<docker, held, bridge, boot, drops>>

\* A bridge that is there is kept as it is; one that does not start is logged.
Bridges(i, p) ==
  \/ /\ bridge[i] = None
     /\ bridge' = [bridge EXCEPT ![i] = p]
  \/ UNCHANGED bridge

OnMesh(t) ==
  /\ job[t].at = "onMesh"
  /\ Bridges(job[t].srv, job[t].prt)
  /\ Return(t)
  /\ UNCHANGED <<docker, held, boot, drops>>

-----------------------------------------------------------------------------
(* Start, restart, stop and remove.                                        *)

\* Agent::start lists first, and refuses a server that runs.
Start(c, i) ==
  /\ Quiet(c, i)
  /\ i \in Present \ Running
  /\ Begin(c, "restart", i, "leaveMesh", None)
  /\ UNCHANGED <<docker, held, bridge, boot, drops>>

Restart(c, i) ==
  /\ Quiet(c, i)
  /\ Begin(c, "restart", i, "leaveMesh", None)
  /\ UNCHANGED <<docker, held, bridge, boot, drops>>

Stop(c, i) ==
  /\ Quiet(c, i)
  /\ Begin(c, "stop", i, "leaveMesh", None)
  /\ UNCHANGED <<docker, held, bridge, boot, drops>>

\* Agent::remove lists first, for the ports it releases at the end.
Remove(c, i) ==
  /\ Quiet(c, i)
  /\ Begin(c, "remove", i, "leaveMesh", port[i])
  /\ UNCHANGED <<docker, held, bridge, boot, drops>>

\* check_crashes restarts a server a listing showed stopped, and
\* scheduled_restarts one it showed running; both act other awaits later
\* (a lock, a warning's sleep), on a server that may have changed since.
LoopRestarts(t, i) ==
  /\ i \in Present
  /\ Begin(t, "restart", i, "leaveMesh", None)
  /\ UNCHANGED <<docker, held, bridge, boot, drops>>

\* check_disk_limits stops a server over its limit.
LoopStops(t, i) ==
  /\ i \in Running
  /\ Begin(t, "stop", i, "leaveMesh", None)
  /\ UNCHANGED <<docker, held, bridge, boot, drops>>

\* A server over its disk limit is not restarted (over_disk_limit).
LeaveMesh(t) ==
  /\ job[t].at = "leaveMesh"
  /\ \/ /\ bridge' = [bridge EXCEPT ![job[t].srv] = None]
        /\ Goto(t, IF job[t].op = "restart" THEN "restart" ELSE "halt")
     \/ /\ job[t].op = "restart"
        /\ Return(t)
        /\ UNCHANGED bridge
  /\ UNCHANGED <<docker, held, boot, drops>>

\* docker.restart starts a stopped container too.
DockerRestart(t) ==
  /\ job[t].at = "restart"
  /\ \/ /\ Runs(job[t].srv)
        /\ Goto(t, "address")
     \/ /\ Return(t)
        /\ UNCHANGED state
  /\ UNCHANGED <<port, held, bridge, boot, drops>>

\* docker.stop: remove ignores its failure, stop returns it.
DockerStop(t) ==
  /\ job[t].at = "halt"
  /\ IF job[t].op = "stop" THEN Return(t) ELSE Goto(t, "remove")
  /\ \/ /\ job[t].srv \in Present
        /\ state' = [state EXCEPT ![job[t].srv] = "stopped"]
     \/ UNCHANGED state
  /\ UNCHANGED <<port, held, bridge, boot, drops>>

\* docker.remove is forced; an absent container is an error, returned
\* before anything is released.
DockerRemove(t) ==
  /\ job[t].at = "remove"
  /\ \/ /\ job[t].srv \in Present
        /\ state' = [state EXCEPT ![job[t].srv] = "none"]
        /\ port' = [port EXCEPT ![job[t].srv] = None]
        /\ Goto(t, "release")
     \/ /\ Return(t)
        /\ UNCHANGED docker
  /\ UNCHANGED <<held, bridge, boot, drops>>

Release(t) ==
  /\ job[t].at = "release"
  /\ held' = held \ {job[t].prt}
  /\ Return(t)
  /\ UNCHANGED <<docker, bridge, boot, drops>>

-----------------------------------------------------------------------------
(* A listing: Agent::list_detailed and MeshBridges::retain_only.           *)

\* Mutant of PollLists: a container that exited counts as live.
PollListsAll(p) ==
  /\ job[p].at = "idle" /\ booted
  /\ job' = [job EXCEPT ![p].at = "prune", ![p].todo = Present]
  /\ UNCHANGED <<docker, held, bridge, boot, drops>>

PollLists(p) ==
  /\ job[p].at = "idle" /\ booted
  /\ job' = [job EXCEPT ![p].at = "prune", ![p].todo = Running]
  /\ UNCHANGED <<docker, held, bridge, boot, drops>>

\* Mutant of PollPrunes: the bridges' ports where their servers are meant.
PollPrunesPorts(p) ==
  /\ job[p].at = "prune"
  /\ job' = [job EXCEPT ![p].at = "drop",
                        ![p].todo = {bridge[i] : i \in Instance \ job[p].todo} \ {None}]
  /\ UNCHANGED <<docker, held, bridge, boot, drops>>

\* The bridges of servers that listing did not show running.
PollPrunes(p) ==
  /\ job[p].at = "prune"
  /\ job' = [job EXCEPT ![p].at = "drop",
                        ![p].todo = {i \in Instance \ job[p].todo : bridge[i] # None}]
  /\ UNCHANGED <<docker, held, bridge, boot, drops>>

PollDrops(p) ==
  /\ job[p].at = "drop"
  /\ \/ \E i \in job[p].todo :
          /\ bridge' = [bridge EXCEPT ![i] = None]
          /\ job' = [job EXCEPT ![p].todo = @ \ {i}]
     \/ /\ job[p].todo = {}
        /\ Return(p)
        /\ UNCHANGED bridge
  /\ UNCHANGED <<docker, held, boot, drops>>

-----------------------------------------------------------------------------
(* The world, and the agent's own end and start.                           *)

\* A game exits or crashes, or somebody stops its container outside.
GameEnds(i) ==
  /\ i \in Running
  /\ state' = [state EXCEPT ![i] = "stopped"]
  /\ UNCHANGED <<port, held, bridge, boot, job, drops>>

\* The caller hangs up and the API drops the handler where it waits.
CallerHangsUp(c) ==
  /\ job[c].at # "idle" /\ drops < MaxDrops
  /\ Return(c)
  /\ drops' = drops + 1
  /\ UNCHANGED <<docker, held, bridge, boot>>

\* Mutant of AgentRestarts: only the ports of running containers are taken.
AgentRestartsRunningOnly ==
  /\ held' = {port[i] : i \in Running}
  /\ bridge' = [i \in Instance |-> None]
  /\ booted' = FALSE /\ restoring' = Running
  /\ job' = [t \in Task |-> Idle]
  /\ drops' = 0
  /\ UNCHANGED docker

\* The agent's process ends at any point and starts again: Agent::new takes
\* the ports of every container Docker has, running or not.
AgentRestarts ==
  /\ held' = {port[i] : i \in Present}
  /\ bridge' = [i \in Instance |-> None]
  /\ booted' = FALSE /\ restoring' = Running
  /\ job' = [t \in Task |-> Idle]
  /\ drops' = 0
  /\ UNCHANGED docker

\* restore_mesh_bridges, before anything is served.
RestoreBridge(i) ==
  /\ i \in restoring
  /\ restoring' = restoring \ {i}
  /\ IF i \in Present THEN Bridges(i, port[i]) ELSE UNCHANGED bridge
  /\ UNCHANGED <<docker, held, booted, job, drops>>

Serve ==
  /\ ~booted /\ restoring = {}
  /\ booted' = TRUE
  /\ UNCHANGED <<docker, held, bridge, restoring, job, drops>>

-----------------------------------------------------------------------------

Init ==
  /\ state = [i \in Instance |-> "none"]
  /\ port = [i \in Instance |-> None]
  /\ held = {}
  /\ bridge = [i \in Instance |-> None]
  /\ booted = TRUE /\ restoring = {}
  /\ job = [t \in Task |-> Idle]
  /\ drops = 0

\* Steps a request shares with the agent's loops.
SharedStep(t) ==
  \/ LeaveMesh(t) \/ DockerRestart(t) \/ DockerStop(t) \/ Address(t) \/ OnMesh(t)

Asks(c) ==
  \E i \in Instance : \/ CreateChecks(c, i) \/ Start(c, i) \/ Restart(c, i)
                      \/ Stop(c, i) \/ Remove(c, i)

ClientStep(c) ==
  \/ Acquire(c) \/ MakeContainer(c) \/ StartContainer(c) \/ GiveBack(c)
  \/ DockerRemove(c) \/ Release(c)

PollStep(p) == PollLists(p) \/ PollPrunes(p) \/ PollDrops(p)

BootStep == Serve \/ \E i \in Instance : RestoreBridge(i)

Next ==
  \/ \E c \in Client : Asks(c) \/ ClientStep(c) \/ CallerHangsUp(c)
  \/ \E t \in Client \cup Loop : SharedStep(t)
  \/ \E t \in Loop, i \in Instance : LoopRestarts(t, i) \/ LoopStops(t, i)
  \/ \E p \in Poller : PollStep(p)
  \/ \E i \in Instance : GameEnds(i)
  \/ BootStep \/ AgentRestarts

Spec == Init /\ [][Next]_vars

-----------------------------------------------------------------------------
(* Fairness: tokio polls every task it has woken, Docker answers in the end, *)
(* and whoever lists the servers lists them again.                           *)
Fairness ==
  /\ \A c \in Client : WF_vars(ClientStep(c))
  /\ \A t \in Client \cup Loop : WF_vars(SharedStep(t))
  /\ \A p \in Poller : WF_vars(PollStep(p))
  /\ WF_vars(BootStep)

FairSpec == Spec /\ Fairness

-----------------------------------------------------------------------------
(* What has to hold.                                                       *)

\* Two servers are never handed one port (ports.rs: "two instances handed the
\* same port means the second container fails to bind, or worse").
PortsDistinct == \A i, j \in Present : i # j => port[i] # port[j]

\* And a port with a container behind it is never free in the allocator, so
\* the next create cannot be handed it (ports.rs: "single-owner").  Both need
\* quiet servers: no "start" and no "overlap" among the faults.
PortSingleOwner == PortsDistinct /\ \A i \in Present : port[i] \in held

\* create_on counts the servers before it makes one and keeps no lock, so the
\* limit of max_instances can be passed, but only by one server for each
\* further request that was in flight.
LimitOvershoot == Cardinality(Present) <= MaxInstances - 1 + Cardinality(Client)

\* The ports of requests between the allocator's answer and the container,
\* and between a removed container and the release.
InFlight == {job[c].prt : c \in {d \in Client :
                job[d].at \in {"make", "start", "giveBack", "release"}}}
Leaked == held \ (InFlight \cup {port[i] : i \in Present})

\* Every port held is some server's or some request's, but for one port at
\* most for each request whose caller hung up: failed creates, removes and
\* restarts of the agent leak none.
LeakBound == Cardinality(Leaked) <= drops

\* A bridge whose server does not run is dropped by a listing, or the server
\* runs again: the agent does not announce a dead server for ever, whoever
\* stopped it and whatever restarts raced with the stop.
StaleBridgeDropped ==
  \A i \in Instance :
    (bridge[i] # None /\ i \notin Running) ~> (bridge[i] = None \/ i \in Running)

=============================================================================
