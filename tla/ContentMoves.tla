---------------------------- MODULE ContentMoves ----------------------------
(***************************************************************************)
(* The copies of one game's files on a node, and the servers that mount    *)
(* them: agent.rs (create, remove, move_instance, delete_content,          *)
(* sweep_old_copies, update_content, verify_content, use_copy), active.rs  *)
(* (which copy new servers use, which ones are to go) and the game's slot  *)
(* of install.rs.                                                          *)
(*                                                                         *)
(* As in NodeAgent every request and every loop is a task, and a step is   *)
(* the code from one await to the next.  Ports are the servers' own here:  *)
(* `held` has the servers whose container's ports the allocator keeps.     *)
(*                                                                         *)
(* Left out: the mesh; the queue of downloads and how one is fetched; the  *)
(* log of moves and the operator's policy, so a pass may move any server.  *)
(***************************************************************************)
EXTENDS Naturals, FiniteSets

CONSTANTS
  Instance,       \* server ids, all of this game
  Copy,           \* versions of the game's files
  Base,           \* config: content_version
  None,           \* no copy, no server, no task
  MaxInstances,   \* config: max_instances
  Client,         \* requests: create, remove, move, delete, use
  Loop,           \* tasks nobody hangs up on: a pass of moves, a download, the start
  Races,          \* what the runs leave aside, of RaceKinds
  MaxUpsets       \* bound: failures in Docker, refusals, hang-ups, agent restarts

\* "overlap": two requests work on one server at once.
\* "late": a delete's listing of Docker is acted on after the rest of a move
\* has come and gone, or falls in a create between its look at the copy's
\* directory and its container.
RaceKinds == {"overlap", "late"}

ASSUME CopiesAssumption == Base \in Copy /\ None \notin Copy \cup Instance
ASSUME CountsAssumption == MaxInstances \in Nat \ {0} /\ MaxUpsets \in Nat
ASSUME TasksAssumption ==
  Client \cap Loop = {} /\ None \notin Client \cup Loop /\ Races \subseteq RaceKinds

Task == Client \cup Loop

VARIABLES
  copy,        \* Docker: the copy each server's container mounts
  up,          \* Docker: the servers that run
  held,        \* PortAllocator: the servers whose ports are held
  installed,   \* disk: content/<game>/<version>
  active,      \* disk: Entry.active, the copy an update or the operator chose
  pending,     \* disk: Entry.pending_removal
  pins,        \* Agent.moving: both copies of each server being moved
  mover,       \* Agent.move_lock: the task that has it
  slot,        \* Installs: whether the game's slot is taken
  job,         \* each task: its next step, its request and its locals
  boots,       \* ghost: how often the agent started again
  harm         \* ghost: how often Docker failed, the host refused a server that is
               \* being moved its memory, or a caller hung up

docker == <<copy, up>>
disk   == <<installed, active, pending>>
locks  == <<pins, mover, slot>>
ghosts == <<boots, harm>>
vars   == <<docker, held, disk, locks, job, ghosts>>

Job == [at : {"idle", "plan", "make", "remove", "release", "sweep", "list", "rename",
              "trash", "use", "fetch", "activate", "mlist", "mplan", "mpin", "mstop",
              "mremove", "mto", "mmake", "settle", "mundo", "mback", "mrestore"},
        op : {"none", "create", "remove", "delete", "use", "fetch", "move", "boot"},
        srv : Instance \cup {None}, ver : Copy \cup {None}, to : Copy \cup {None},
        todo : SUBSET Copy]

Idle == [at |-> "idle", op |-> "none", srv |-> None, ver |-> None, to |-> None, todo |-> {}]

TypeOK ==
  /\ copy \in [Instance -> Copy \cup {None}]
  /\ up \in SUBSET {i \in Instance : copy[i] # None}
  /\ held \in SUBSET Instance
  /\ installed \in SUBSET Copy /\ active \in Copy \cup {None} /\ pending \in SUBSET (Copy \ {active})
  /\ pins \in [Instance -> SUBSET Copy]
  /\ mover \in Task \cup {None} /\ slot \in BOOLEAN
  /\ job \in [Task -> Job]
  /\ boots \in 0..MaxUpsets /\ harm \in 0..MaxUpsets

-----------------------------------------------------------------------------

Present == {i \in Instance : copy[i] # None}

\* active_version: a recorded copy that was deleted since does not count.
Active == IF active \in installed THEN active ELSE Base

Mounted(v) == \E i \in Instance : copy[i] = v
Pinned(v)  == \E i \in Instance : v \in pins[i]

Goto(t, s) == job' = [job EXCEPT ![t].at = s]
Return(t)  == job' = [job EXCEPT ![t] = Idle]

\* Nothing is asked of an agent that starts before it has swept.
Begin(t, r) ==
  /\ job[t].at = "idle" /\ \A b \in Task : job[b].op # "boot"
  /\ job' = [job EXCEPT ![t] = r]

\* Nobody else works on the server.
Quiet(i) == "overlap" \in Races \/ \A t \in Task : job[t].srv # i

\* No listing that Docker has answered waits for its reader to delete v, and
\* no create that found v there waits for its container.
Waits(t, s, v) == job[t].at = s /\ job[t].ver = v
Answered(v)    == "late" \in Races \/ \A t \in Task : ~Waits(t, "rename", v)
NotPlanned(v)  == "late" \in Races \/ \A t \in Task : ~Waits(t, "make", v)

\* Something goes wrong.
Upset == boots + harm < MaxUpsets
Harm  == Upset /\ harm' = harm + 1

\* Docker makes a container of server i on v, and starts it or fails to.
Makes(i, v, started) ==
  /\ i \notin Present
  /\ copy' = [copy EXCEPT ![i] = v]
  /\ up' = IF started THEN up \cup {i} ELSE up

Unmakes(i) ==
  /\ i \in Present
  /\ copy' = [copy EXCEPT ![i] = None]
  /\ up' = up \ {i}

RemoveFails(i) == IF i \in Present THEN Harm ELSE UNCHANGED harm

\* One server at most is being moved (the move lock).
Unpin ==
  /\ \A v \in Copy : Pinned(v) => Answered(v)
  /\ pins' = [i \in Instance |-> {}]

\* A task's scope closes: the move lock and the pins go with it (Unpin), the
\* slot does not; it is given back by the code after the work.
Unwinds(t) ==
  /\ Return(t)
  /\ mover' = IF mover = t THEN None ELSE mover
  /\ IF mover = t THEN Unpin ELSE UNCHANGED pins

Ends(t) ==
  /\ Unwinds(t)
  /\ slot' = (slot /\ job[t].op \notin {"delete", "use", "fetch"})

-----------------------------------------------------------------------------
(* Create and remove.                                                      *)

CreateChecks(c, i) ==
  /\ Quiet(i) /\ i \notin Present /\ Cardinality(Present) < MaxInstances
  /\ Begin(c, [Idle EXCEPT !.at = "plan", !.op = "create", !.srv = i])
  /\ UNCHANGED <<docker, held, disk, locks, ghosts>>

\* plan_and_check_on: the copy new servers use, if it is there.
CreatePlans(c) ==
  /\ job[c].at = "plan" /\ Answered(Active)
  /\ IF Active \in installed
     THEN job' = [job EXCEPT ![c].at = "make", ![c].ver = Active]
     ELSE Return(c)
  /\ UNCHANGED <<docker, held, disk, locks, ghosts>>

CreateMakes(c) ==
  /\ job[c].at = "make"
  /\ \/ /\ Makes(job[c].srv, job[c].ver, TRUE)
        /\ held' = held \cup {job[c].srv}
        /\ UNCHANGED harm
     \/ Makes(job[c].srv, job[c].ver, FALSE) /\ Harm /\ UNCHANGED held
     \/ UNCHANGED <<docker, held, harm>>
  /\ Return(c)
  /\ UNCHANGED <<disk, locks, boots>>

Remove(c, i) ==
  /\ Quiet(i) /\ i \in Present
  /\ Begin(c, [Idle EXCEPT !.at = "remove", !.op = "remove", !.srv = i])
  /\ UNCHANGED <<docker, held, disk, locks, ghosts>>

DockerRemove(c) ==
  /\ job[c].at = "remove"
  /\ \/ /\ Unmakes(job[c].srv)
        /\ Goto(c, "release")
        /\ UNCHANGED harm
     \/ /\ RemoveFails(job[c].srv)
        /\ Return(c)
        /\ UNCHANGED docker
  /\ UNCHANGED <<held, disk, locks, boots>>

\* The ports go back, then the copies that waited for this server are swept.
Release(c) ==
  /\ job[c].at = "release"
  /\ held' = held \ {job[c].srv}
  /\ job' = [job EXCEPT ![c].at = "sweep", ![c].srv = None, ![c].todo = pending]
  /\ UNCHANGED <<docker, disk, locks, ghosts>>

-----------------------------------------------------------------------------
(* Deleting a copy: delete_content, asked for by the operator or a sweep.  *)

DeleteBegins(c, v) ==
  /\ ~slot /\ v \in installed
  /\ Begin(c, [Idle EXCEPT !.at = "list", !.op = "delete", !.ver = v])
  /\ slot' = TRUE
  /\ UNCHANGED <<docker, held, disk, pins, mover, ghosts>>

\* One queued copy of a sweep: never the active one.  A sweep holds no slot.
SweepNext(t, v) ==
  /\ job[t].at = "sweep" /\ v \in job[t].todo
  /\ IF v # Active /\ v \in installed
     THEN /\ job' = [job EXCEPT ![t].at = "list", ![t].ver = v, ![t].todo = @ \ {v}]
          /\ UNCHANGED pending
     ELSE /\ job' = [job EXCEPT ![t].todo = @ \ {v}]
          /\ pending' = IF v = Active THEN pending ELSE pending \ {v}
  /\ UNCHANGED <<docker, held, installed, active, locks, ghosts>>

\* The delete is over: a sweep goes on, a request answers.
Deleted(t) ==
  IF job[t].op = "delete" THEN Ends(t)
  ELSE Goto(t, "sweep") /\ UNCHANGED locks

\* Mutant of DeleteLists: a stopped server does not count.
DeleteListsRunning(t) ==
  /\ job[t].at = "list" /\ NotPlanned(job[t].ver)
  /\ IF \E i \in up : copy[i] = job[t].ver THEN Deleted(t) ELSE Goto(t, "rename") /\ UNCHANGED locks
  /\ UNCHANGED <<docker, held, disk, ghosts>>

\* Every container counts, running or stopped.
DeleteLists(t) ==
  /\ job[t].at = "list" /\ NotPlanned(job[t].ver)
  /\ IF Mounted(job[t].ver) THEN Deleted(t) ELSE Goto(t, "rename") /\ UNCHANGED locks
  /\ UNCHANGED <<docker, held, disk, ghosts>>

\* The pins are read after the listing, and the copy renamed at once.
DeleteRenames(t) ==
  /\ job[t].at = "rename"
  /\ IF Pinned(job[t].ver) \/ job[t].ver \notin installed
     THEN Deleted(t) /\ UNCHANGED installed
     ELSE /\ installed' = installed \ {job[t].ver}
          /\ Goto(t, "trash")
          /\ UNCHANGED locks
  /\ UNCHANGED <<docker, held, active, pending, ghosts>>

\* The renamed tree is gone from the disk; a sweep crosses it off.
DeleteEnds(t) ==
  /\ job[t].at = "trash"
  /\ Deleted(t)
  /\ pending' = IF job[t].op = "delete" THEN pending ELSE pending \ {job[t].ver}
  /\ UNCHANGED <<docker, held, installed, active, ghosts>>

SweepEnds(t) ==
  /\ job[t].at = "sweep" /\ job[t].todo = {}
  /\ Ends(t)
  /\ UNCHANGED <<docker, held, disk, ghosts>>

-----------------------------------------------------------------------------
(* What changes the copy new servers use.                                  *)

UseBegins(c, v) ==
  /\ ~slot /\ v \in installed
  /\ Begin(c, [Idle EXCEPT !.at = "use", !.op = "use", !.ver = v])
  /\ slot' = TRUE
  /\ UNCHANGED <<docker, held, disk, pins, mover, ghosts>>

\* Mutant of UseSets: the copy stays queued for removal.
UseSetsQueued(c) ==
  /\ job[c].at = "use"
  /\ active' = job[c].ver
  /\ Ends(c)
  /\ UNCHANGED <<docker, held, installed, pending, ghosts>>

UseSets(c) ==
  /\ job[c].at = "use"
  /\ active' = job[c].ver
  /\ pending' = pending \ {job[c].ver}
  /\ Ends(c)
  /\ UNCHANGED <<docker, held, installed, ghosts>>

\* An install of the copy that is missing, or an update or a check of the one
\* in use, which lands beside it under a name nothing has (next_version_name).
FetchBegins(t, v) ==
  /\ ~slot /\ v \notin installed
  /\ IF Active \in installed THEN v # Base ELSE v = Active
  /\ Begin(t, [Idle EXCEPT !.at = "fetch", !.op = "fetch", !.ver = Active, !.to = v])
  /\ slot' = TRUE
  /\ UNCHANGED <<docker, held, disk, pins, mover, ghosts>>

\* It lands, or it fails, is cancelled, finds nothing new.
FetchLands(t) ==
  /\ job[t].at = "fetch"
  /\ \/ /\ installed' = installed \cup {job[t].to}
        /\ IF job[t].ver # job[t].to THEN Goto(t, "activate") /\ UNCHANGED locks ELSE Ends(t)
     \/ Ends(t) /\ UNCHANGED installed
  /\ UNCHANGED <<docker, held, active, pending, ghosts>>

\* Mutant of Activates: the slot is given back before the old copy is swept.
ActivatesReleasing(t) ==
  /\ job[t].at = "activate"
  /\ \/ /\ active' = job[t].to
        /\ \/ /\ pending' = (pending \ {job[t].to}) \cup {job[t].ver}
              /\ job' = [job EXCEPT ![t].at = "sweep", ![t].todo = pending']
              /\ slot' = FALSE /\ UNCHANGED <<pins, mover>>
           \/ /\ pending' = pending \ {job[t].to}
              /\ Ends(t)
     \/ Ends(t) /\ UNCHANGED <<active, pending>>
  /\ UNCHANGED <<docker, held, installed, ghosts>>

\* An update: new servers use it, and with remove_old the copy before it is
\* queued and swept.  A check of the files leaves it at that.
Activates(t) ==
  /\ job[t].at = "activate"
  /\ \/ /\ active' = job[t].to
        /\ \/ /\ pending' = (pending \ {job[t].to}) \cup {job[t].ver}
              /\ job' = [job EXCEPT ![t].at = "sweep", ![t].todo = pending']
              /\ UNCHANGED locks
           \/ /\ pending' = pending \ {job[t].to}
              /\ Ends(t)
     \/ Ends(t) /\ UNCHANGED <<active, pending>>
  /\ UNCHANGED <<docker, held, installed, ghosts>>

-----------------------------------------------------------------------------
(* Moving a server onto the copy new servers use: move_instance.           *)

MoveBegins(t, i) ==
  /\ mover = None /\ Quiet(i)
  /\ Begin(t, [Idle EXCEPT !.at = "mlist", !.op = "move", !.srv = i])
  /\ mover' = t
  /\ UNCHANGED <<docker, held, disk, pins, slot, ghosts>>

\* Only a running server that is not on the active copy yet.
MoveLists(t) ==
  /\ job[t].at = "mlist"
  /\ IF job[t].srv \in up /\ copy[job[t].srv] # Active
     THEN /\ job' = [job EXCEPT ![t].at = "mplan", ![t].ver = copy[job[t].srv], ![t].to = Active]
          /\ UNCHANGED locks
     ELSE Ends(t)
  /\ UNCHANGED <<docker, held, disk, ghosts>>

MovePlans(t) ==
  /\ job[t].at = "mplan"
  /\ IF job[t].to \in installed THEN Goto(t, "mpin") /\ UNCHANGED locks ELSE Ends(t)
  /\ UNCHANGED <<docker, held, disk, ghosts>>

\* Mutant of MovePins: only the copy the server moves to is pinned.
MovePinsTarget(t) ==
  /\ job[t].at = "mpin"
  /\ pins' = [pins EXCEPT ![job[t].srv] = {job[t].to}]
  /\ Goto(t, "mstop")
  /\ UNCHANGED <<docker, held, disk, mover, slot, ghosts>>

MovePins(t) ==
  /\ job[t].at = "mpin"
  /\ pins' = [pins EXCEPT ![job[t].srv] = {job[t].ver, job[t].to}]
  /\ Goto(t, "mstop")
  /\ UNCHANGED <<docker, held, disk, mover, slot, ghosts>>

\* The players could not be warned, or they were and the server is stopped.
MoveStops(t) ==
  /\ job[t].at = "mstop"
  /\ \/ /\ up' = up \ {job[t].srv}
        /\ Goto(t, "mremove")
        /\ UNCHANGED locks
     \/ Ends(t) /\ UNCHANGED up
  /\ UNCHANGED <<copy, held, disk, ghosts>>

\* A container that could not be removed is started again as it was.
MoveRemoves(t) ==
  /\ job[t].at = "mremove"
  /\ \/ /\ Unmakes(job[t].srv)
        /\ Goto(t, "mto")
        /\ UNCHANGED <<locks, harm>>
     \/ /\ RemoveFails(job[t].srv)
        /\ up' = up \cup ({job[t].srv} \cap Present)
        /\ Ends(t)
        /\ UNCHANGED copy
  /\ UNCHANGED <<held, disk, boots>>

\* create_on with the ports the server had makes its own checks all over again.
\* These are the ones that ask what the agent keeps; the host's memory and
\* cores, which resource_check judges anew, may refuse whatever these say.
CreateOnAllows(i, v) ==
  /\ i \notin Present /\ Cardinality(Present) < MaxInstances
  /\ v \in installed

MoveTries(t) ==
  /\ job[t].at = "mto"
  /\ \/ CreateOnAllows(job[t].srv, job[t].to) /\ Goto(t, "mmake")
     \/ Goto(t, "mundo")
  /\ UNCHANGED <<docker, held, disk, locks, ghosts>>

\* Mutant of MoveMakes: a failed create gives the ports back here too.
MoveMakesReleasing(t) ==
  /\ job[t].at = "mmake"
  /\ \/ /\ Makes(job[t].srv, job[t].to, TRUE)
        /\ Goto(t, "settle")
        /\ UNCHANGED <<held, harm>>
     \/ /\ Goto(t, "mundo")
        /\ UNCHANGED <<docker, harm>> \/ (Makes(job[t].srv, job[t].to, FALSE) /\ Harm)
        /\ held' = held \ {job[t].srv}
  /\ UNCHANGED <<disk, locks, boots>>

MoveMakes(t) ==
  /\ job[t].at = "mmake"
  /\ \/ /\ Makes(job[t].srv, job[t].to, TRUE)
        /\ Goto(t, "settle")
        /\ UNCHANGED harm
     \/ /\ Goto(t, "mundo")
        /\ UNCHANGED <<docker, harm>> \/ (Makes(job[t].srv, job[t].to, FALSE) /\ Harm)
  /\ UNCHANGED <<held, disk, locks, boots>>

\* Mutant of MoveSettles: the sweep comes before the pins are let go.
MoveSettlesPinned(t) ==
  /\ job[t].at = "settle"
  /\ IF job[t].srv \in up
     THEN /\ job' = [job EXCEPT ![t].at = "sweep", ![t].todo = pending]
          /\ UNCHANGED pins
     ELSE Goto(t, "mundo") /\ UNCHANGED pins
  /\ UNCHANGED <<docker, held, disk, mover, slot, ghosts>>

\* Up through the settle time, or not.  One that stayed is let go, and the
\* copies that waited for it are swept, the move lock still held.
MoveSettles(t) ==
  /\ job[t].at = "settle"
  /\ IF job[t].srv \in up
     THEN /\ job' = [job EXCEPT ![t].at = "sweep", ![t].todo = pending]
          /\ Unpin
     ELSE Goto(t, "mundo") /\ UNCHANGED pins
  /\ UNCHANGED <<docker, held, disk, mover, slot, ghosts>>

\* The failure of this removal is ignored.
MoveUndoes(t) ==
  /\ job[t].at = "mundo"
  /\ \/ Unmakes(job[t].srv) /\ UNCHANGED harm
     \/ RemoveFails(job[t].srv) /\ UNCHANGED docker
  /\ Goto(t, "mback")
  /\ UNCHANGED <<held, disk, locks, boots>>

\* Neither copy would have it: its ports are given back, the server is lost.
Lost(t) ==
  /\ held' = held \ {job[t].srv}
  /\ Ends(t)

MoveTurnsBack(t) ==
  /\ job[t].at = "mback"
  /\ IF CreateOnAllows(job[t].srv, job[t].ver)
     THEN \/ Goto(t, "mrestore") /\ UNCHANGED <<held, locks, harm>>
          \/ Lost(t) /\ Harm
     ELSE Lost(t) /\ UNCHANGED harm
  /\ UNCHANGED <<docker, disk, boots>>

MoveRestores(t) ==
  /\ job[t].at = "mrestore"
  /\ \/ /\ Makes(job[t].srv, job[t].ver, TRUE)
        /\ Ends(t)
        /\ UNCHANGED <<held, harm>>
     \/ /\ UNCHANGED docker \/ Makes(job[t].srv, job[t].ver, FALSE)
        /\ IF job[t].srv \in Present THEN UNCHANGED harm ELSE Harm
        /\ Lost(t)
  /\ UNCHANGED <<disk, boots>>

-----------------------------------------------------------------------------
(* The world, and the agent's own end and start.                           *)

\* A game ends, or a person or the crash watch has it up again.
GameEnds(i) ==
  /\ i \in up
  /\ up' = up \ {i}
  /\ UNCHANGED <<copy, held, disk, locks, job, ghosts>>

GameRuns(i) ==
  /\ i \in Present \ up /\ Quiet(i)
  /\ up' = up \cup {i}
  /\ UNCHANGED <<copy, held, disk, locks, job, ghosts>>

\* A handler dropped where it waits: no line after the await is run.
CallerHangsUp(c) ==
  /\ job[c].at # "idle" /\ Harm
  /\ Unwinds(c)
  /\ UNCHANGED <<docker, held, disk, slot, boots>>

\* The agent starts again: memory is rebuilt from Docker, and one sweep is
\* made before anything is served.
AgentRestarts(t) ==
  /\ Upset
  /\ boots' = boots + 1
  /\ held' = Present
  /\ pins' = [i \in Instance |-> {}] /\ mover' = None /\ slot' = FALSE
  /\ job' = [d \in Task |-> IF d = t THEN [Idle EXCEPT !.at = "sweep", !.op = "boot", !.todo = pending]
                            ELSE Idle]
  /\ UNCHANGED <<docker, disk, harm>>

-----------------------------------------------------------------------------

Init ==
  /\ copy = [i \in Instance |-> None] /\ up = {} /\ held = {}
  /\ installed = {} /\ active = None /\ pending = {}
  /\ pins = [i \in Instance |-> {}] /\ mover = None /\ slot = FALSE
  /\ job = [t \in Task |-> Idle]
  /\ boots = 0 /\ harm = 0

Asks(c) ==
  \/ \E i \in Instance : CreateChecks(c, i) \/ Remove(c, i) \/ MoveBegins(c, i)
  \/ \E v \in Copy : DeleteBegins(c, v) \/ UseBegins(c, v)

LoopBegins(t) ==
  \/ \E v \in Copy : FetchBegins(t, v)
  \/ \E i \in Instance : MoveBegins(t, i)

MoveStep(t) ==
  \/ MoveLists(t) \/ MovePlans(t) \/ MovePins(t) \/ MoveStops(t) \/ MoveRemoves(t)
  \/ MoveTries(t) \/ MoveMakes(t) \/ MoveSettles(t)
  \/ MoveUndoes(t) \/ MoveTurnsBack(t) \/ MoveRestores(t)

ContentStep(t) ==
  \/ \E v \in Copy : SweepNext(t, v)
  \/ DeleteLists(t) \/ DeleteRenames(t) \/ DeleteEnds(t) \/ SweepEnds(t)
  \/ FetchLands(t) \/ Activates(t) \/ UseSets(t)

ServerStep(t) ==
  CreatePlans(t) \/ CreateMakes(t) \/ DockerRemove(t) \/ Release(t)

Next ==
  \/ \E c \in Client : Asks(c) \/ CallerHangsUp(c)
  \/ \E t \in Loop : LoopBegins(t) \/ AgentRestarts(t)
  \/ \E t \in Task : MoveStep(t) \/ ContentStep(t) \/ ServerStep(t)
  \/ \E i \in Instance : GameEnds(i) \/ GameRuns(i)

Spec == Init /\ [][Next]_vars

\* A task that has begun is polled on, and Docker and the disk answer it.
\* Strongly, for Answered and NotPlanned only ever delay a step.
FairSpec == Spec /\ \A t \in Task : SF_vars(MoveStep(t) \/ ContentStep(t) \/ ServerStep(t))

-----------------------------------------------------------------------------
(* What has to hold.                                                       *)

\* A copy any container mounts, running or stopped, is never deleted, nor one
\* a server is being moved off or onto (agent.rs, delete_content): a delete,
\* which lists and then looks at the pins, against moves, which pin and then
\* remove the container, whatever fails.  Needs listings acted on: no "late".
DeleteUnused ==
  [][\A v \in installed \ installed' :
       \A i \in Instance : copy[i] # v /\ v \notin pins[i]]_vars

\* The ports of a server that has a container stay held through every move,
\* whichever copy it ends on.  Needs Docker not to have failed, no "overlap".
PortsKept == harm = 0 => Present \subseteq held

\* A move ends with the server on the new copy or the old one: what can refuse
\* does so before anything is stopped (agent.rs, move_instance), whatever failed
\* or was refused before.  Needs Docker to do, and resource_check to allow, what
\* the last step of the way back asks, a place on the node for each server,
\* nobody else on that server and nobody hanging up.
MoveKeepsServer ==
  [][\A i \in Instance :
       (pins[i] # {} /\ pins'[i] = {} /\ boots' = boots /\ harm' = harm) => i \in Present']_vars

\* A queued copy goes with its last server, by a removal or by a move off it,
\* unless it is chosen again or a server is on its way onto it.
Queued(v) ==
  /\ v \in pending \cap installed /\ v # Active /\ harm = 0
  /\ \A t \in Task : job[t].op = "move" => job[t].to # v

QueuedCopyGoes ==
  \A v \in Copy : []((Mounted(v) /\ []Queued(v)) => []<>Mounted(v))

HasSlot(t) == job[t].op \in {"delete", "use", "fetch"}

\* The slot is released once the work is over (install.rs, exclusive).
SlotIsHeld == slot => \E t \in Task : HasSlot(t)

\* A game's slot is one task's at a time, through the sweep an update ends with,
\* and whoever works under it has it: an operator's delete, a use and a download
\* never overlap.  A slot that is nobody's was left by a caller that hung up.
SlotExcludes ==
  /\ \A t, d \in Task : HasSlot(t) /\ HasSlot(d) => t = d
  /\ \A t \in Task : HasSlot(t) => slot
  /\ SlotIsHeld \/ harm > 0

=============================================================================
