# Lanthorn: a verification project

TLA+ models of the concurrent parts of Lanthorn (this repository): a decentralized browser and
host for game servers. The models are translated from the source; `PROJECT.json` maps each
definition to the lines it stands for. File names without a directory are under
`src/crates/platform-agent/src/`.

## 1. The system

A **node** is a machine that runs game servers as Docker containers. Its **agent**
(`platform-agent`) creates and runs them, holds their ports, keeps the games' files, and puts
each server on the Reticulum mesh through a bridge. An **index** (`platform-index`) lists the
servers and asks nodes to host new ones; it is a cache (DESIGN.md §0): the node is the authority
on what it runs. The **game bridge** (`game-bridge`) carries a game's traffic over the mesh, and
LAN games with it; the **launcher** is the player's side.

| Component | State it keeps | Operations | What makes it correct |
|---|---|---|---|
| Server lifecycle: `agent.rs`, `docker.rs`, `main.rs` | none of its own: Docker's labels are the record, rebuilt at each start | create, start, restart, stop, remove; loops (crash watch every ten seconds, schedule, disk limit); listings | a port has one owner; the limit of servers; nothing leaks when a request is cut short |
| Port allocator: `ports.rs` | a queue of free ports, the set of held ones | acquire a set, release a set | the range is partitioned; a set is taken whole or not at all; a freed port rests |
| Mesh bridges: `mesh.rs` | a map from server to bridge | start, stop, retain only those that run | a dead server is not announced for ever |
| Crash watch: `agent.rs` | exits seen, restarts of the last hour, servers stopped through the agent | a pass: list, look under a lock, restart | a crash is answered, once; a stop is no crash |
| Content and moves: `agent.rs`, `active.rs`, `install.rs`, `api.rs` | copies on disk; the active copy and those queued for removal (a file); pins of moves and the games' slots (memory) | use, update, check, delete, sweep, move with rollback | a copy in use is never deleted; a move never loses its server |
| Installs: `install.rs`, `content.rs`, `docker.rs` | a slot per game, one turn for the node, a staging directory, SteamCMD's container, a cancel flag | install, update, verify, cancel; the disk watch | an answered cancel has stopped the tool; a cancelled download installs nothing and leaves nothing; the turn always passes on |
| Accounts, API, bans: `api.rs`, `accounts.rs`, `bans.rs` | files and sessions | HTTP handlers | access checks |
| Controller link: `controller.rs`, `accounts.rs` | by account name: the session at the index, the last list of servers | list, deploy, remove, log in again, remove an account | a list shows what was changed before it; an ended session is no refusal; an account acts as itself |
| Uplink: `uplink.rs`, `uplink_wire.rs` | one link to an index, requests by id | connect, answer, reconnect | an answer reaches its own request |
| Authentication: `platform-auth` | challenges given out, sessions | challenge, sign, verify, revoke | no replay; a removed identity has no session |
| Index, hosting: `hosting.rs`, `quota.rs`, `main.rs`, `agent_client.rs` of `platform-index` | a set of ids being moved; everything else is asked of the nodes each time | deploy, start, stop, destroy, back up, erase, move to another node; a sweep each minute | limits are passed by no more than the requests in flight; an erase is complete; a move loses no world and leaves one server at the address; the sweep stops and removes only what it should, and in the end does |
| Game bridge: `relay.rs`, `framing.rs`, `server_chat.rs` of `game-bridge` | server: maps of senders, links not yet identified, chat links; client: a map from source address to task | accept, identify, hello, time out, close; forward, reassemble | only the allowed reach the game; a chat is no player; a closed link leaves nothing; a lost chunk harms one datagram; nobody waits for ever |
| LAN rooms: `lan.rs`, `lan_session.rs` | host: table with its epoch, links and seats, names; member: its link, its copy of the table | link, identify, seat or refuse, tell, close, link again | one seat and one address for a member, on its newest link; everybody ends with the host's table |
| Pack repository: `repo*.rs`, `signing.rs`, `review.rs` | signed revisions | publish, fetch, approve | only signed, newest revisions are used |
| Launcher: `launcher-core`, `launcher/src-tauri` | settings, one join | join, host, update | out of scope: user interface |

How they interact: handlers of the API, requests over the uplink and the loops of `main.rs` are
tokio tasks that share one `Agent`. The index keeps no record of servers: each of its requests and its
sweep ask the nodes, one after the other, over the uplink (one reply, one packet) or HTTP, and act on
what they said. The bridge of a server takes the events of all its links in one router task, with a task
per link between the mesh and the game; the bridge of a player has a loop for the game's datagrams
and a task per source address. The agent's tasks exclude one another only on short locks (the allocator,
the bridges, the crash watch's memory), on the move lock, and on a game's install slot; **no lock
is held over a server**. Every await on Docker is a point where any other task, a game, or Docker
itself may move, and where a handler is dropped if its caller closes the connection (axum drops
the future: no line after the await runs, only destructors). The agent may end at any of these
points and starts again from Docker and the disk. A call of the index to a node can be carried out, be
refused, or be carried out with its reply lost, and its caller cannot tell the last two apart.

The hard behaviours are therefore check-then-act over an await, steps half done when a handler is
dropped or the agent ends, listings that are stale when they are acted on, and the order in which
two records of one fact are written. `PROJECT.json` lists each as a hazard with its line.

## 2. The modules

| Module | Models | Run by | Theorems |
|---|---|---|---|
| `NodeAgent` | lifecycle of the servers, with allocator (a set) and bridges | `MCNode`, `MCNodeAgent` | `NodeAgentProofs` |
| `PortAllocator` | the allocator, step by step; implements `PortPool` | `MCParts` | `NodePartsProofs` |
| `PortPool` | what an allocator promises (abstract) | as a property of `PortAllocator` | |
| `DownloadQueue` | what the downloads of a node promise (abstract) | as a property of `Installs` | |
| `CrashWatch` | the crash watch among the requests | `MCParts`, `MCCrashWatch` | `NodePartsProofs` |
| `ContentMoves` | copies of a game, deletes and sweeps, moves, uses and updates | `MCContentMoves` | `ContentMovesProofs` |
| `Relocate` | the index moves a running server to another node | `MCServices` | `RelocateProofs` |
| `Hosting` | the index's requests: deploy, backup, erase, destroy, against limits | `MCParts` | `HostingProofs` |
| `Sweeps` | the index's sweep of idle and of long-stopped servers | `MCServices` | `RelocateProofs` |
| `BridgeServer` | the router of a server's bridge, its relays, timers, chat links | `MCServices` | `BridgeProofs` |
| `GameLink` | datagrams cut into chunks over one link, and put together again | `MCServices` | `BridgeProofs` |
| `BridgeClient` | the forwarder of a player's bridge | `MCServices` | `BridgeProofs` |
| `LanRoom` | a LAN room: its host, its members, the mesh between them | `MCParts`, `MCServices`, `MCLanRoom` | `RoomProofs` |
| `Installs` | downloads on a node: turn, tool, cancel, full disk | `MCServices` | `NodePartsProofs` |
| `Controller` | a page's requests to the index its node is placed with: sessions, the shared list, removed accounts | `MCNode`, `MCController` | `ControllerProofs` |

Conventions shared by the modules. A request or loop is a **task**: `job[t]` is a record of the
step it is at (`at`), the request it makes and its local variables. A step is the code from one
await to the next. What Docker has (`state`, `port`, `copy`, `up`, `exit`) is changed by the tasks'
calls and by `GameEnds`. `CallerHangsUp` drops a request where it waits; `AgentRestarts` empties
memory, keeps Docker and the disk, and rebuilds what the start rebuilds. A definition named after
an action with a suffix and a comment "Mutant of ..." is a plausible bug of that action; no
specification uses it. It is there to show that a property would notice.

**NodeAgent.** `CreateChecks`, `Acquire`, `MakeContainer`, `StartContainer`, `GiveBack`, `Address`,
`OnMesh` are the awaits of `create_on` in their order (agent.rs:1012-1194); `LeaveMesh`,
`DockerRestart`, `DockerStop`, `DockerRemove`, `Release` those of restart, stop and remove, which
the loops share (`LoopRestarts`, `LoopStops`). `PollLists`, `PollPrunes`, `PollDrops` are a listing
and what `retain_only` does with it. A server publishes one port; several channels, named ports
and the order of the queue are `PortAllocator`'s. `Faults` says what may go wrong beyond a refused
call: `"start"`, a container that is made and does not start, and `"overlap"`, two requests on one
server at once.

**PortAllocator.** `free` is the queue, `held` the set; a call is modelled a slot and a port at a
step, so the half-way states of a refused set are states. `ahead` is a ghost: the ports free when
a port was freed and not handed out since, for "ports are not reused immediately".

**CrashWatch.** An exit is known to the code by its end time; the model keeps the set of servers
whose present exit was seen, which an exit leaves (`Ends`). The lock of the watch's memory is
`Unlocked`: the watch has it through a whole look. A restart, the watch's or a request's, may be refused (the disk
limit) or fail in Docker, before the container ended or after (`RestartFails`). The ghost `watch.failed` has the
servers for which the watch's own restart failed, since it does not try the same exit twice. The ghost `passed` has the exits from before
this agent and those already looked at.

**ContentMoves.** One game's copies: installed directories, the active copy, the queue of copies to
remove, the pins of moves (`Agent.moving`), the move lock (`mover`) and the game's slot. A server's
ports are its own (`held` is the set of servers whose ports the allocator keeps). A move is
`MoveLists` ... `MoveSettles` on the good path and `MoveUndoes`, `MoveTurnsBack`, `MoveRestores` on
the way back (agent.rs:3437-3537), its calls of `create_on` checked again by `CreateOnAllows`
for what the agent keeps (the limit, the copy's directory), and refused at will for what it does not:
`resource_check` judges the host's free memory anew for the new copy (`MoveTries`) and for the way back (`MoveTurnsBack`).
A delete is `DeleteLists`, `DeleteRenames`, `DeleteEnds`, whether an operator or a sweep asks. It
does not model which servers a pass of moves picks (any may be), nor a
download (`FetchLands` lands or fails).

**Relocate.** A move is a record of its step and locals, one step for each await of `relocate_to`
(hosting.rs:1247-1350 and the helpers it calls): `Begin`, `TakeGuard`, `Place`, `CreateNew`, `Hold`, the passes
`MakeCopy`, `Read`, `Land`, then `StopOld`, a last pass, `Identity`, `SetIdentity`, `StartNew`, `RemoveOld`; `RemoveNew` and
`RestartOld` are the ways back. `Ask` is a call to a node: done, refused, or done with its reply lost.
A world is a number of writes for each file, and players write to a running server at any moment.
The owner's buttons and the sweep act by a listing (`List`, then `Do`). The id of a server stands for
its mesh identity at first; `addr` is the identity it has now. Every server has one: that a node without a mesh has none to
give, and the new server then keeps its own (hosting.rs:1325), is left out, for such a server has no address the properties could speak of.

**Hosting.** A request asks node after node (`DeployAsks`, `BackupAsks`, `EraseAsks`) and then acts. A node that
does not answer is skipped by a deploy and fails the other two. `Replies` is what a listing over the uplink can
say: all there is if it fits, otherwise some of it; `HeardBackups` is what one of a server's backups lists, the newest
`BackupsFit` of them. `call[t].before` is a ghost: the servers that
stood when an erase was asked for.

**Sweeps.** A pass lists (`SweepLists`), stops what is idle row by row, lists again and removes what has been
stopped too long. A server is on a node; a node that is silent is left out, and one with more servers than a reply holds
lists any `RowsFit` of them (`Listings`). `Reload` changes which
accounts the policy keeps. Ages are ticks. `touched` is a ghost: what somebody changed after the listing.

**BridgeServer.** `Handles` takes the next event of the funnel; `On...` are the arms of the router's match, each
one step, but for the send of a link's end marker into its relay's bounded channel, which the router
makes with the lock of all links in its hand (`MarkerSent`, and `LockFree` in what the relays do): for a link that
closes, and for one that has played and then says Hello. A peer is or is not on the allowlist, and keeps to no protocol: it
may identify, say Hello and send chunks in any order and mix them. Only its Hello must wait until the router has accepted the link, for
nothing reads its stream before.

**GameLink.** A datagram is cut into chunks (`Frame`) with the channel of its port, as far as the peer's generation
knows channels (`MayUse`); the mesh loses any chunk and the receiving channel drops what does not
fit (`NoRoom`); `Push` is the reassembly. The data of a chunk is its datagram and place, so that a splice shows.

**BridgeClient.** The loop hands a datagram to the task of its source (`HandsOver`) or makes one (`ReadsNew`); a task
opens a link, registers it for what comes back, and then sends and hears until either half ends.
The read lock the loop keeps over a hand-over is `Unlocked`.

**LanRoom.** A host's event is an action (`Seats`, `TimesOut`, `HostHearsClose`, `HostHearsHello`, `HostHearsName` are the arms
of `Host::on_event`, `Refreshes` its timer), and so is a member's. `ends[l]` is a link: whose it is, whether it is up,
which end has still to hear that it closed, and whether its identity is still on its way. `mesh` is a set of
messages, so they arrive in any order and a repeated one counts once. `Falls`, `MeshLoses`, `MemberRestarts`, `HostEnds` are
what goes wrong, `MaxTrouble` times. A member makes a link and identifies in a task of its own
(`LinksUp`), whose word for the loop is `coming`; with `LateUp` the loop may hear from the engine first, as `select!` allows.

**Installs.** A download is a task: its turn, room on the disk, the copy, the attempts of SteamCMD (`BeginsAttempt` to
`JudgesOutcome`), promotion. `CreatesBox`, `ChecksFlag`, `StartsBox`, `Awaits` are the awaits of `run_task`; a cancel sets the
flag (`Cancels`) and removes the container by name (`CancelRemoves`) between any two of them. `Holds` and `LetsGo` are
what else takes a game's slot. It implements `DownloadQueue`: who has asked, one permit on the node, and what was installed.

**Controller.** A page's request is a record `req[r]` of the await it is at (`at`), what it asks, the account that asks, and
the session it holds. `ListsOrAsks` and `DropsList` are the two halves of `forward_as` (controller.rs:174-198), `lock` the lock of the
lists, which a list keeps until its reply; `TokenOrLogin`, `Login`, `KeepsToken`, `Sends`, `HearsRefusal` are `forward_now` and `login`;
`Erases`, `Forgets`, `ForgetsList`, `RemovesAccount` are `remove_account`, whose handler may be dropped between them. A name is taken again
with a new salt: `life` counts, and an identity is a name and a life. `work` is what the index does, known to it by the session only; a list and an
erase are done in two halves (`half`), between which other requests' work comes; a caller that went away does not hear its end. `told` is a ghost: what pages were answered. `Overlap` says whether an account may be removed
while its own requests are under way.

How the parts compose: `NodeAgent` uses of the allocator what `PortPool` promises (a held port is
nobody else's), with one channel; that `PortAllocator` keeps that promise is `PoolImplemented`.
`CrashWatch` and `ContentMoves` are views of the same agent on other state: the watch's restarts are
`NodeAgent`'s `LoopRestarts`, and a move is a remove and a create with the ports kept. `Installs` has the slot `ContentMoves` has, seen
from the downloads. `Hosting`, `Sweeps` and `Relocate` are three clients of the nodes; the move has the acts of the
other two as `List` and `Do`. `MCServices` runs the index's move and sweep, the four parts of the bridge and the downloads in
one run, `MCParts` the crash watch, the allocator, the index's requests and a larger room, and `MCNode` the node's servers
and its page's requests to an index: the
variable `part`, chosen in the initial state, says which of them moves, so its states are the sum
of the parts' and not their product. They share no state; what each sees of the others is in its own
module. That a behaviour of `MCParts` is a behaviour of each of its parts is a theorem (`EachPartRuns`).

## 3. The runs

| Run | Instance and bounds | Checks |
|---|---|---|
| `node_safety` | two parts, 2,069,601 states together: | |
| ... `NodeAgent` | 3 servers, 3 ports, limit 1, 2 requests, 1 listing, 1 hang-up, no faults, any number of agent restarts | `PortSingleOwner`, `LimitOvershoot`, `LeakBound` |
| ... `Controller` | 1 name taken twice, 2 requests, 3 sessions, 2 at once, 1 server, 1 upset | `NextListHasChange`, `NotRefused` |
| `node_mesh` | 2 servers, 1 port, a request, a loop, a listing, 1 hang-up; start failures and overlapping requests | `StaleBridgeDropped` (liveness) |
| `node_failed_start` | 2 servers, 2 ports, 1 request, start failures | `PortsDistinct`, **violated** |
| `parts` | four parts, 1,103,958 states together: | `PartsTypeOK` |
| ... `CrashWatch` | 1 server, 2 requests, the watch, limit 2, 1 agent restart, restarts that fail | `FreshExitsOnly`, `CrashAnswered` (liveness) |
| ... `PortAllocator` | range of 3, one port outside it, sets of up to 3 channels | `Rested`, `PoolSpec` (refinement) |
| ... `Hosting` | 2 nodes, 3 servers, 1 account, 2 requests, limit 1, 2 in all, a cap of 1 backup, 2 of a server, 1 in a reply | `LimitsOvershoot`, `EraseComplete` |
| ... `LanRoom` | 2 members, 1 or 2 seats or one barred, 3 links, 1 trouble, 1 message on a link, `LateUp` | `SeatsAgree`, `NewestLinkSeated`, `ViewMatchesEpoch` |
| `crash_stop` | 1 server, 1 request, the watch | `StopIsNoCrash`, **violated** |
| `moves` | 1 server, 3 copies, a request and a loop, one failure, hang-up or agent restart | `PortsKept`, `SlotExcludes`, `DeleteUnused`, `MoveKeepsServer`, `QueuedCopyGoes` (liveness) |
| `move_limit` | 2 servers, limit 1, a request and a loop | `MoveKeepsServer`, **violated** |
| `slot_leak` | as `moves` | `SlotIsHeld`, **violated** |
| `late_delete` | as `moves`, with late listings | `DeleteUnused`, **violated** |
| `services` | seven parts, 553,046 states together: | |
| ... `Relocate` | 3 ids, 2 moves, 1 actor, 1 file, 1 write, 1 delta, 1 mishap | `ServesLatest`, `OneRunning`, `NeverLost`, `FailureRestores`, `MoveEnds` (liveness) |
| ... `Sweeps` | 2 servers on 2 nodes or one, 1 row in a reply, ages to 2, 1 outage, reloads | `SweepSpares` (`ReapedWasEmpty` and `RemovedWasDown`), `SweptInTheEnd` (liveness) |
| ... `BridgeServer` | 1 link, 2 chunks of room, 3 sent, chat switched twice | `AllowlistHolds`, `LeavesNothing`, `NobodyStranded`, `Decided` (liveness) |
| ... `GameLink` | 2 channels, 3 datagrams of 1 or 2 chunks, 2 chunks of room | `Reassembles` (`NothingBraids` and `DamageBounded`) |
| ... `BridgeClient` | 1 source, 2 links, 1 packet of room, 1 empty packet | `MapsSound` |
| ... `LanRoom` | 1 member, barred or not, 1 seat, 3 links, 2 troubles, 6 messages on a link | `CloseComes`, `RoomSettles` (liveness) |
| ... `Installs` | 2 games, 2 tries, 3 downloads, 1 full disk | `NothingLingers` (`CancelStops` and `NothingStaged`), `CancelHonoured`, `QueueKept` (refinement), `DownloadsEnd` (liveness) |
| `account_late` | 1 name taken twice, 2 requests, 2 sessions, no upset, `Overlap` | `ActsAsItself`, **violated** |
| `room_late` | 1 member, 3 links, 2 troubles, `LateUp` | `DeadLinkGivenUp`, **violated** |

Why the bounds are enough. The properties of ports relate two servers and the requests between
them; three servers with two requests let a third take what the first two dispute, and the limit
of 1 is passed by the second request. Servers, ports and requests are interchangeable in the
safety run, which uses the symmetry of servers (the page's requests have no part in it); the liveness runs do not. One hang-up shows one leak, and the
theorem of `LimitOvershoot` and of `PortSingleOwner` needs no bound. The allocator's rules concern
two ports in a queue and a set cut in the middle: three ports and three slots have both. A crash
concerns one server; two requests are what it takes to stop and recreate it during a look. A move
and a delete dispute one server's two copies; the third copy is the target of the next update. One
upset at any point is the hazard; two would compose unrelated losses. `MaxUpsets`, `MaxDrops`,
`MaxBoots` and `MaxSlots` are the only bounds that are not the program's own numbers;
`MaxRestarts` is the program's five, made smaller.

In `services`: two moves dispute one server and may move it on; one delta with one write shows whether a
delta reaches far enough, for the write may come before, in or after any pass; one mishap at any of a
move's calls is one failure, and two would be two losses. In `parts`: two requests pass a limit together, and
three servers let them; two nodes are what it takes to ask one and miss the other; a second backup is one more than a reply
lists. Two servers on one node with one row in a reply are a listing that is cut, and on two nodes one that is whole. A
router decides each link by that link's events; what links share is the lock, and one full channel
shows the wait. Two chunks and three datagrams are a splice and what comes after it. Two games wait for one turn. A seat is
disputed by two links of one member, or by two members when there is one seat: three links let a member come back while another is
there, and one trouble is a loss, a fall, or a program that starts over, at any point. With two troubles and one member
(`services`) the repair is itself disturbed. Two members and no trouble settle as well (483,272 states, tried apart from the runs).
Deadlock is not checked in `node_safety`, `parts`, `services`, `account_late` and `room_late`: a part stops when its bounds are used up, as a bridge or an index
nobody uses does.

What the passing runs leave aside, by name. `Faults = {}` in `node_safety`: with `"start"` ports are
shared (the finding below), and with `"overlap"` a remove can release the port of a server
recreated under it. `Races = {}` in `moves`: with `"late"` a copy can be deleted under a create (the
finding below), and with `"overlap"` an operator's create or remove of the very server that is
between its containers makes the move's outcome anybody's. `InspectFails = FALSE` in `parts`:
a Docker that lists a container and cannot say how it ended makes the first look skip an old exit
and answer it later. In `services`: `Blind` in the move's properties, a move of a server another move is still making or whose listing was
out of date when it took its guard (a finding below), a start by the owner in the middle of a move, and a
start of the new server whose reply was lost, which brings up both; `LateUp = FALSE`, without which a member may keep a dead link for ever (a
finding below) and no room settles. In `parts`: `extra` in `LimitsOvershoot`, a deploy admitted on a count that
left servers out (a finding), and caps on backups above what a reply lists of a server's (`BackupsFit >= BackupLimit` in
the run, and in the theorem; another finding). `watch.failed` in `CrashAnswered`: a crash whose restart failed stays
unanswered, for its exit is seen. `Sweepable` in `SweptInTheEnd`: a server on a node with more of them than one reply lists can be
left out of every listing, and stays for ever. In `services` again: `past.late` in the bridge's, a Hello that was
reported after the link's close; a relay that failed to open, which the router
then waits for with the lock it needs (`Decided`). `harm` in `PortsKept` and `MoveKeepsServer`: when Docker fails in the middle of
a rollback, or the caller hangs up between removal and create, the server is lost, and nothing in
the code brings it back; nor when `resource_check` refuses the last create of the way back (finding 3). All of these are `harm`, which `MoveKeepsServer` asks not to grow while the move ends. `Undisturbed` in `FailureRestores`: a move's
failure restores nothing when the owner stopped the server, or a stop of another move did its work and lost its reply.

In `node_safety`: `Overlap = FALSE` for `Controller`; an account that is removed while its requests are under way ends their sessions, so they
are refused, and may leave a session or a server (two findings below). `NotRefused` is stated for one upset and for no more requests than an
identity may hold sessions (eight in the code), and a request may be refused when as many logins of its account followed the
session of its retry as that number: with three requests or more the others may all log in between the retry's login and its
request, one after the other, which ends the session once more.

The types of every module are theorems or part of an invariant proved (those of `Controller` without its counts); `PartsTypeOK` has the
run check the types of the four parts in `parts`, those of `Relocate`, `GameLink` and `Controller` (`...TypeOK`) were checked apart
from the runs too.

The invariants the proofs use are in the proof modules and are proved, not only checked.

### Fairness

- `NodeAgent`: weak fairness of each task's next step. A woken tokio task is polled, and Docker
  answers or fails, in the end; both are a step here. Whoever lists the servers lists again: an index
  that hosts does so every minute for what is idle (`REAP_INTERVAL`, platform-index/src/main.rs:28), and so does an
  open page. The agent has no such loop of its own: on a node nobody lists, the bridge of a server
  that died outside the agent stays. Nothing is assumed of the games or the people.
- `CrashWatch`: weak fairness of the watch and of its restarts; `main.rs` runs `check_crashes` for ever.
  None for requests: a crash is answered whatever they do.
- `ContentMoves`: strong fairness of each task's steps. Strong only because `Answered` and
  `NotPlanned`, which exclude late listings, disable a step while another task finishes a delete's
  last synchronous part or a create's call; the code's task is delayed there, never disabled.
- `Relocate`: weak fairness of each move's next step: every call to a node ends, for the uplink's requests and
  the HTTP client have timeouts.
- `Sweeps`: weak fairness of time, of the sweep's steps (`main.rs` loops for ever) and of the end of an outage.
- `BridgeServer`: weak fairness of the router, of each relay's steps, of the identify timer, and of the report
  of a close by the engine. None of what peers do.
- `LanRoom`: weak fairness of each task's steps, of its timers (refresh, retry, identify timeout, the delay after
  a refusal), of the arrival of what the mesh does not lose, of the report of a close to each end, of a member's
  attempts to link, one of which succeeds while the room is open, and of a room that ended being opened again. Troubles are bounded, so they end: the
  claim is that a room settles after the last one.
- `Installs`: weak fairness of each download's steps, and the tool in the container ends.
- `Hosting`, `GameLink`, `BridgeClient`: none; their properties are about safety.

## 4. Where code and comments disagree

Seven runs find the code doing what a comment says it does not; each states that comment's claim.

1. `node_failed_start`: a failed start keeps the container and gives its port away
   (agent.rs:1089; ports.rs:3-6).
2. `crash_stop`: a stop is noted after Docker has made it, so the crash watch can restart the server
   it finds in between (agent.rs:1247; agent.rs:317-318, instance.rs:756-758).
3. `move_limit`: `create_on` checks the limit again after a move has removed the container, when a
   create may have taken its place; neither copy is then allowed and the server is lost
   (agent.rs:3508 and 1017; agent.rs:3432-3433). `resource_check` is run again there too (agent.rs:1025-1028,
   resources.rs:74-83) and loses a server in the same way when the host's memory has gone meanwhile.
4. `slot_leak`: the install slot is given back by a line after an await; a handler dropped there
   keeps the slot until the agent restarts (install.rs:189; install.rs:179-180).
5. `late_delete`: nothing pins a copy between a create's check of its directory and its container; an
   update that removes the old copy deletes it there (agent.rs:807 and 3778; agent.rs:3762-3763).
6. `room_late`: a member's loop hears of its link from its connector and from the mesh engine over two channels; when it takes
   the close first it drops it, takes the link for its own after, and never links again
   (game-bridge/src/lan_session.rs:1068 and 1119; 1036, 1009).

7. `account_late`: a login that returns after its account was removed keeps its session under the account's name, and the name's next
   account acts at the index as the removed one (controller.rs:282 and 88-93; 97-100, 317).

Found while modelling, in the models, without a run of their own (quotations in `PROJECT.json`):

8. A move decides whether to stop the old server by a listing older than its guard (hosting.rs:1249, 1260).
9. The idle limit counts from the container's creation, not from when players were last there
   (hosting.rs:2154; quota.rs:36-37).
10. A deploy admits against a listing that leaves silent nodes out (hosting.rs:716; 1116-1117).
11. A create whose reply is lost leaves its server on the new node (hosting.rs:1269; 1225-1228).
12. The client's forwarder keeps the entry of a dead link, opens a second link for a source heard twice before
    the first stands, and can wait for its own lock (game-bridge/src/relay.rs:1988; 30-33).
13. The index drops the mark of a listing that was cut, so an erase takes what fitted one packet for the whole node and reports done:
    `EraseComplete` fails with `RowsFit = 1`, `Limit = 2`, `Total = 3` (platform-index/src/agent_client.rs:121; uplink_wire.rs:22-24, hosting.rs:1135-1137).
    The sweep sees no more: a server that never fits is never swept.
14. A deploy at the index may outlive the erase that comes before its account's removal; nobody can reach its server then:
    `NoneLeftRunning` fails with `Overlap` (api.rs:769; 756-760).
15. The cap on backups counts what the replies list, and a list that does not fit one packet is cut; with a cap above that an account
    has as many backups as it likes: `LimitsOvershoot` fails with `BackupsFit = 1`, `BackupLimit = 2`, `MaxBackup = 4`
    (platform-index/src/hosting.rs:1129; 1115-1117, uplink_wire.rs:301-317). An erase deletes only the backups it heard of.

## 5. The proofs

All hold for every value of the constants that the modules' named assumptions allow: disjoint
sets of tasks, `None` in none of the sets, positive limits, at least one node, account and file. The proofs that count need finite sets of
servers, requests and files. Every invariant, every action property and both refinements of the passing runs are theorems.

| Theorem | States | Further assumption |
|---|---|---|
| `TypeCorrect`, `WatchTypeCorrect`, `MovesTypeCorrect` | `[]TypeOK` of `NodeAgent`, `CrashWatch`, `ContentMoves` | |
| `SingleOwner` | `[]PortSingleOwner` | `Faults = {}` |
| `LeaksBounded` | `[]LeakBound` | `Faults = {}` |
| `LimitHolds` | `[]LimitOvershoot` | |
| `FreshExits` | `FreshExitsOnly` | `~InspectFails` |
| `PortsPartitioned` | `[](PortsTypeOK /\ Partition)` | |
| `PoolImplemented` | `PortsSpec => PoolSpec`, the allocator implements `PortPool` | |
| `FreedPortsRest` | `Rested` | |
| `SlotIsExclusive` | `[]SlotExcludes` | |
| `DeletesOnlyUnused` | `DeleteUnused` | `"late" \notin Races` |
| `ContainersKeepPorts` | `[]PortsKept` | `"overlap" \notin Races` |
| `MovesKeepServers` | `MoveKeepsServer` | `Races = {}`, a place for every server |
| `RelocateTyped` | types and `Shape` of the index's moves | |
| `FailureLeavesUp` | `FailureRestores` | |
| `EachStepAdvances` | `MoveAdvances`: every step of a move leaves it fewer | |
| `OneServerRuns`, `LatestIsServed`, `WorldIsKept` | `[]OneRunning`, `[]ServesLatest`, `[]NeverLost` | |
| `SweepsInvariant`, `NoPlayerThrownOut`, `NothingRemovedEarly`, `SweepsSpareServers` | the sweep's invariant, `ReapedWasEmpty`, `RemovedWasDown`, both (`SweepSpares`) | |
| `InstallsInvariant`, `AnsweredCancelStops`, `NoDebris`, `NoToolLingers`, `CancelledInstallsNothing` | the downloads' invariant, `CancelStops`, `NothingStaged`, both (`NothingLingers`), `CancelHonoured` | |
| `RouterInvariant`, `OnlyTheAllowed` | the router's invariant, `AllowlistHolds` | |
| `DownloadsQueue` | `InstallsSpec => Queue!Spec`, the downloads implement `DownloadQueue` | |
| `BridgeTyped`, `NothingIsLeft`, `NobodyIsStranded` | `[]BridgeTypeOK`, `[]LeavesNothing`, `[]NobodyStranded` | |
| `NothingIsBraided`, `DamageIsBounded`, `GamesAreServed` | `[]NothingBraids`, `[]DamageBounded`, both (`[]Reassembles`) | |
| `PumpInvariant`, `SoundMaps` | the forwarder's invariant, `MapsSound` | |
| `RoomInvariant`, `RoomSeatsAgree`, `RoomNewestSeated` | the room's invariant, `SeatsAgree`, `NewestLinkSeated` | |
| `RoomTyped`, `RoomTablesAgree`, `RoomCloseComes` | `[]RoomTypeOK`, `[]ViewMatchesEpoch`, `[]CloseComes` | |
| `HostingTyped` | `[]HostingTypeOK` | |
| `EachPartRuns`, `PartsTyped` | a behaviour of `MCParts` is one of each part; `[]PartsTypeOK` | |
| `OvershootBounded` | `[]Overshoot`, the first half of `LimitsOvershoot` | |
| `LimitsBounded` | `[]LimitsOvershoot` | `RowsFit >= Cardinality(Instance)`, `BackupsFit >= BackupLimit` |
| `EraseLeavesNone` | `EraseComplete` | `RowsFit >= Cardinality(Instance)` |
| `PagesHold` | the invariant of a page's requests | |
| `ListsShowChanges`, `ActsForItself`, `RemovedLeavesNone` | `[]NextListHasChange`, `[]ActsAsItself`, `[]NoneLeftRunning` | `~Overlap` |
| `RetriedOnceIsHeard` | `[]NotRefused` | finitely many requests |

What a property supposes of a behaviour (no upset, no blind move, nothing lost) is in the property itself; the last column has what is supposed of the
constants beyond the modules' assumptions. Where that excludes something the code may do, a finding above or the list of what the runs leave
aside says what goes wrong then.

- *SingleOwner.* `PortSingleOwner` speaks of containers only and is not inductive: it must also say
  who answers for a port that has none. `OwnerInv` adds `Claimed` (a request between allocator and
  container, or between container and release, is the only claimant of a held port), `Remembered` (a
  request's local port is its server's) and `OneEach` (one request to a server).
- *LimitHolds.* A request past the checks counts as a server to be: servers plus `Pending` requests
  never exceed the limit by more than the other requests. Every action moves at most one unit
  between the two counts.
- *LeaksBounded.* `LeakInv` counts on the ownership above: a port loses its last owner only where a caller hangs up, and then one port.
- *FreshExits.* `FirstLook`: an exit that is old and unseen has a first look before or around it, with
  the server still on its list; so it never meets a watch that is seeded and has not seen it.
- *PortsPartitioned, PoolImplemented.* `PoolInv` adds that the ports a call has taken are held and
  distinct. Each turn of a loop maps to a stutter of `PortPool`, the last one of an acquire to
  `Grant`, a turn of a release to `Give` or a stutter.
- *FreedPortsRest.* `RestInv`: the queue never has a port before one that `ahead` says was free when it was freed, and what is held is
  ahead of nothing. Taking a port out of the middle, and putting a refused set back at the end, keep that order.
- *MovesTypeCorrect.* `TypeInv` adds, for each step a task can be at, which of its locals hold a server
  or a copy: the model's `None` is never used as one.
- *DeletesOnlyUnused.* `DeleteInv` adds `PinsInv` (pins belong to the holder of the move lock, from its
  pin to its end) and `RenameInv`: when a delete is about to rename, whoever mounts the copy has it
  pinned, and no create is about to mount it. A delete that has listed found the copy unmounted; only
  a move can mount it since, and a move pins first and cannot let go before the rename. This is the
  order the comment at agent.rs:3787-3789 argues for, proved for any number of tasks, moves,
  failures, hang-ups and restarts. It is `RenameInv` that needs prompt listings.
- *SlotIsExclusive.* Who has not begun, or creates or removes a server, has no slot; so whoever ends gives back a slot that is his, or none.
- *ContainersKeepPorts, MovesKeepServers.* `OwnInv`: one task at most works on a server, so what it found out at one await (no
  container; ports held) is so at the next. `FilesInv` adds that what is mounted is installed and that a move's two copies are, as long as
  they are pinned, so the rollback finds the old copy. With a place for every server `create_on` cannot refuse for the limit,
  which is finding 3. That `resource_check` may refuse either create is in it: a refused new copy turns the move back, and a
  refused way back is harm, as a failed one is.

- *SweepsInvariant.* `SweepsInv` adds to the types `RowsStand`: a row the sweep still has on its list is as the
  listing said, empty or down long enough, unless it is in `touched`. Every action that changes such a fact
  touches its server; ids are never made twice.
- *EachStepAdvances.* `StepsToGo` adds up the steps after the present one, the files a pass has still to read, and a whole pass for each
  delta that may still come. It falls with each step because a pass starts with no more files than there are, `MAX_LIVE_DELTAS` bounds the
  passes, and the ways back only lead on to the end.
- *RelocateTyped, FailureLeavesUp.* `Shape`: which move holds which id (a new id is nobody else's, a server has one move unless one is
  blind), and what a move can still do at its step. `UpUntil`: up to the last pass a move has not taken the old server down, and after it whoever
  fails starts it again. The property used to suppose only that a move's own server was left alone; with three moves another move's stop, of a
  server that has moved on since, can do its work without an answer, so it says now what may not have happened (`Undisturbed`).
- *OneServerRuns, LatestIsServed.* `Calm`: the new server is down until it is started and the old one from its stop on (`NewDown`, `OldDown`);
  what a pass reads lies between what was there when it began and what is there at its end (`Between`), so what
  has not changed since the last pass began has arrived (`Synced`), and after the pass that follows the stop the two are alike (`Alike`).
  `OneServes`: one move at most carries the address, and what runs there is its old server or its new one.
- *WorldIsKept.* `Safe`, on top of `Calm`: the server a move removes has a twin with the same world, and one server at the address has it.
- *InstallsInvariant.* `InstallsInv` says, game by game: at which steps there is a container (`BoxKnown`) and its name is
  known to a cancel (`NameKnown`); who has been answered has set the flag before, and found no container or removed it
  (`AnswerKept`); a download told to stop has its flag set until it is judged (`Obeyed`); and what is staged is there
  between the room check and the end (`Staging`). `CancelStops` alone is not inductive: it needs that a
  container made after the answer meets the flag at `ChecksFlag`.
- *DownloadsQueue.* The abstract queue is read off the slots and the permit: a game waits when its slot says queued, its turn is the
  holder of the permit. `PermitKnown` ties a download's step to both: the holder of the permit is at a step between its turn and its end with its slot
  running, and nobody else is at such a step. Each action is then a `Join`, `Leave`, `Turn`, `Install`, `Finish`, `Delete` or a stutter.
- *OnlyTheAllowed.* For peers that do anything in any order. `FunnelTrue`: an identity in the funnel was proved by its peer, and nothing a peer has said is
  taken back, so the router, which starts a relay behind an allowlist on such an event only, is right
  whenever it gets to it.
- *NothingIsLeft.* `TidyInv`: the close of a link is the last of its events but for a late hello (`FunnelOrder`, `Closings`); whoever is in a map of the router
  has a link that is up or whose close is still in the funnel; and the number shown is right but between a close and its event (`Counted`).
- *NobodyIsStranded.* `Once`: a link is established once, before anything of it is read, so nobody is held after he was decided;
  `Accepted`: nobody is held and a chat, so the timeout of a held link ends its hold and is not spent on the chat.
- *NothingIsBraided, DamageIsBounded.* Chunks carry no number, so `LinkInv` says which are missed: sent, not on their way, never put in a
  buffer; no more than were lost. Chunks arrive in the order they were sent (`PipeInv`), so what is held for a port is the front of one
  datagram or one of its chunks is missed (`BufferInv`), newer than all that the port was given before and no newer than the delivery it
  spoils: two deliveries never blame the same chunk (`WrongInv`). When nothing is missed the n-th delivery is the n-th datagram
  (`NumberInv`). `NothingBraids` says so port by port and in order, whole datagrams of both generations.
- *SoundMaps.* `Mapped`, `Handing` (nobody changes the map during a hand-over), and `Stopped` with `EmptiesSent`: a task that
  takes nothing any more while it is its source's has met an empty packet.
- *RoomSeatsAgree, RoomNewestSeated.* A seat moves when an identity is heard, so the proof is about which link that can be. `HasNewest`:
  a member links again only when it has no link, so the one it has is its newest. `LinksTrue`: its identities are heard in the order of
  its links, so the last heard is of the newest. `RefusedOutside`: one that was refused, or whose refusal is on its way on its own
  link, has no identity left to be heard, so it gets no seat after it stopped trying.
- *RoomTablesAgree.* `Fits`: a table on its way, or that a member has, is of an epoch of this host no newer than its own, and of its own is its table. A table of a host that
  ended is on a link the new one never gave an identity, and a member that loses its link drops its address (`OneLink`).
- *RoomCloseComes.* `CloseDue`: while a link is coming its close waits behind its Up, so whoever has a link, or is about to, has not heard it
  close. That is what `LateUp` breaks (section 4, 6).
- *RoomTyped.* A free address is found whenever a seat is given (`ViewMatchesEpoch`'s invariant, `RestTyped` for what it leaves out).
- *OvershootBounded, LimitsBounded.* Two requests counted at different times make no bound one by one. `Spared`: in every group of requests under
  way there is one for which all that is held, and one more for each of the group, is within what it has counted and still has to count, or
  its limit when that is less, and the number of requests. Whoever creates next leaves the group, and the rest still has such a one. A request that met a cut list of backups has counted
  `BackupsFit` of them already, which is the cap: it will be refused, and is in no group (`HeardAllOrFull`).
- *EraseLeavesNone.* `Lists`: an erase's rows have every server of the account, from before its request, that still stands
  on a node already asked. No id comes back at another place. The assumption on `RowsFit` is what
  a cut listing breaks (section 4, 13).

- *PagesHold, ListsShowChanges, ActsForItself, RemovedLeavesNone.* `PageInv`: where a request of a kind can be, who has the lock of the lists, whose a
  session is (`SessionsInv`). While no account is removed under its requests, a life of a name ends when nothing of it is under way
  (`LifeInv`), so a list that is kept or under way has every change that was answered before whoever waits for it asked (`ListsInv`), since a change drops the
  kept list before it is answered and waits for the lock to do so.
- *RetriedOnceIsHeard.* `RetryInv`: while nothing went wrong, or what went wrong is an erase nobody hears of, no session in use is so old that the
  logins that may yet come end it (`InTime` counts the newer sessions and those that may log in). One upset ends one identity's sessions once; whoever is then refused
  logs in again and holds a session that only later logins can end (`Sound`).

- *EachPartRuns, PartsTyped.* A step of one part of `MCParts` leaves the variables of the others alone, so a behaviour of the whole is a
  behaviour of each part, and what was proved of a part holds in the run's specification.

Model-checked only: liveness, which the prover does not reach (`StaleBridgeDropped`, `CrashAnswered`, `QueuedCopyGoes`, `MoveEnds`,
`SweptInTheEnd`, `Decided`, `DownloadsEnd`, `RoomSettles`). For four of them the half that is about safety is a theorem: that a move has
fewer steps left after each (`MoveAdvances`; `MoveEnds` adds that the steps are taken), that the permit comes back from every download that had it (`QueueKept`, for
`DownloadsEnd`), that a held link's timeout is still to come and the router waits on a relay that is not over (`NobodyStranded`, for `Decided`),
that a member with a link has its close still to hear (`CloseComes`, for `RoomSettles`).

Proved only: `Partition` and `MoveAdvances`, which no run checks beside what they serve (`PoolSpec` and `Rested`, `MoveEnds`).

## 6. Not modelled, and why

- **Uplink and authentication** (`uplink.rs`, `uplink_wire.rs`, `platform-auth`): a call that fails, or does its work and
  loses its reply, is in the models; the transport that makes it so is not, nor are challenges and signatures. Of `controller.rs`, the
  paths it lets through, admins and reads that are not kept are left out.
- **Pack repository** (`repo*.rs`, `signing.rs`, `review.rs`): not modelled; the next part to take.
- **Schedules, update checks, backups, worlds** (`schedule.rs`, `updates.rs`, `backups.rs`, `world.rs`): `NodeAgent` has what a
  scheduled restart does, `Relocate` what a backup and a merge leave of the files; calendars and archives are data.
- **Of the modelled parts**: the packets of a LAN room and whom they go to, the limits on broadcasts and chat lines, chat, the search for
  a room, the order in which an address is derived; how a TCP connection is spliced on a stream and the announces of the bridge; region
  requests, admins and the registry's rows of the index; what downloads fetch and how archives are unpacked
  and checked; a rename of a staged copy that fails half way, which leaves staging behind.
- **Launcher, LAN adapters, queries, consoles, store layout, images, packs, site**: interfaces, parsing, formatting,
  operating-system calls, build files. They keep little state and no protocol.

The map covers a small share of the repository's lines for that reason: the models are of the places
where several actors meet, and most of the code is not such a place.
