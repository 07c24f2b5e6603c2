----------------------------- MODULE CrashWatch -----------------------------
(***************************************************************************)
(* The crash watch of a node's agent (agent.rs, check_crashes and what its *)
(* CrashWatch remembers) among the requests that stop, restart, create and *)
(* remove the servers it watches.                                          *)
(*                                                                         *)
(* What the watch remembers is in memory behind one lock, which the watch  *)
(* keeps through a whole look and a request only takes for an instant,     *)
(* after Docker has answered it.  An exit is known by its time, so `seen`  *)
(* is the set of servers whose present exit has been looked at: an exit    *)
(* that happens takes its server out.                                      *)
(*                                                                         *)
(* Left out: the mesh, the ports (NodeAgent), servers being moved, the     *)
(* event sent for a crash.                                                 *)
(***************************************************************************)
EXTENDS Naturals, FiniteSets

CONSTANTS
  ServerId,      \* server ids
  Client,        \* requests in flight
  Watch,         \* the crash watch's own task
  None,          \* no server
  MaxRestarts,   \* MAX_CRASH_RESTARTS_PER_HOUR
  MaxBoots,      \* bound: how often the agent's process starts again
  InspectFails   \* whether Docker may fail to say how a container ended

ASSUME WatchAssumption == Watch \notin Client /\ None \notin ServerId
ASSUME BoundsAssumption ==
  MaxRestarts \in Nat \ {0} /\ MaxBoots \in Nat /\ InspectFails \in BOOLEAN

Task == Client \cup {Watch}

VARIABLES
  state,        \* Docker: what each server's container is doing
  exit,         \* Docker: how it ended last
  marker,       \* disk: restart-on-crash, beside the server's files
  seeded,       \* CrashWatch.seeded
  seen,         \* CrashWatch.seen
  stoppedHere,  \* CrashWatch.stopped_here
  restarts,     \* CrashWatch.restarts, counted over the last hour
  watch,        \* check_crashes: its next step, its lists, and as a ghost the crashes
                \* it has looked at and could not answer
  job,          \* each task: its next step and its server
  passed,       \* ghost: exits from before this agent, or looked at already
  boots         \* ghost: how often the agent started again

docker == <<state, exit>>
memory == <<seeded, seen, stoppedHere, restarts>>
vars   == <<docker, marker, memory, watch, job, passed, boots>>

\* An exit is clean, the game's own crash, or a code the game chose to end
\* with when the agent stopped it, or ended it to restart or to remove it.
\* LastExit::is_crash sees the code only.
Codes   == {"crash", "stop", "kill"}
Exits   == {"never", "clean"} \cup Codes
IsCrash(i) == exit[i] \in Codes

Present == {i \in ServerId : state[i] # "none"}
Stopped == {i \in ServerId : state[i] = "stopped"}

Idle == [at |-> "idle", srv |-> None]

TypeOK ==
  /\ state \in [ServerId -> {"none", "stopped", "running"}]
  /\ exit \in [ServerId -> Exits]
  /\ marker \in [ServerId -> BOOLEAN]
  /\ seeded \in BOOLEAN /\ seen \in SUBSET ServerId /\ stoppedHere \in SUBSET ServerId
  /\ restarts \in [ServerId -> 0..MaxRestarts]
  /\ watch \in [at : {"idle", "listed", "look", "act"},
                todo : SUBSET ServerId, due : SUBSET ServerId, failed : SUBSET ServerId]
  /\ job \in [Task -> [at : {"idle", "stop", "mark", "end", "up", "unmark", "keep", "clear", "remove"},
                       srv : ServerId \cup {None}]]
  /\ \A t \in Task : job[t].at # "idle" => job[t].srv \in ServerId
  /\ passed \in SUBSET ServerId
  /\ boots \in 0..MaxBoots

-----------------------------------------------------------------------------

Goto(t, s) == job' = [job EXCEPT ![t].at = s]
Return(t)  == job' = [job EXCEPT ![t] = Idle]
Begin(c, i, s) == job[c].at = "idle" /\ job' = [job EXCEPT ![c] = [at |-> s, srv |-> i]]

\* A container ends, with an exit nobody has looked at.
Ends(i, e) ==
  /\ state' = [state EXCEPT ![i] = "stopped"]
  /\ exit' = [exit EXCEPT ![i] = e]
  /\ seen' = seen \ {i}
  /\ passed' = passed \ {i}

NothingEnds == UNCHANGED <<docker, seen, passed>>

\* The lock on the watch's memory: the watch has it while it looks.
Unlocked == watch.at # "look"

-----------------------------------------------------------------------------
(* Requests.                                                               *)

Asks(c, i) ==
  /\ \/ Begin(c, i, "stop")
     \/ Begin(c, i, "end")
     \/ Begin(c, i, "clear")
  /\ UNCHANGED <<docker, marker, memory, watch, passed, boots>>

\* Agent::stop, and Docker's part of remove, which ignores a failure.
DockerStop(c) ==
  /\ job[c].at \in {"stop", "clear"}
  /\ \/ /\ state[job[c].srv] = "running"
        /\ \E e \in {"clean", IF job[c].at = "stop" THEN "stop" ELSE "kill"} : Ends(job[c].srv, e)
        /\ Goto(c, IF job[c].at = "stop" THEN "mark" ELSE "remove")
     \/ /\ state[job[c].srv] # "running"
        /\ \/ Goto(c, IF job[c].at = "stop" THEN "mark" ELSE "remove")
           \/ job[c].at = "stop" /\ Return(c)
        /\ NothingEnds
  /\ UNCHANGED <<marker, seeded, stoppedHere, restarts, watch, boots>>

\* Docker has stopped it, and only now the agent notes whose doing it was.
Mark(c) ==
  /\ job[c].at = "mark" /\ Unlocked
  /\ stoppedHere' = stoppedHere \cup {job[c].srv}
  /\ Return(c)
  /\ UNCHANGED <<docker, marker, seeded, seen, restarts, watch, passed, boots>>

\* The call fails.  The watch logs it, and the exit it has seen stays seen.
RestartFails(t) ==
  /\ Return(t)
  /\ watch' = IF t = Watch /\ job[t].srv \in seen
              THEN [watch EXCEPT !.failed = @ \cup {job[t].srv}] ELSE watch

\* Agent::restart: the container ends and comes up again, unless the server is
\* over its disk limit, or Docker fails before it ended anything.  The watch's
\* own restarts and a person's are the same call.
RestartEnds(t) ==
  /\ job[t].at = "end"
  /\ \/ /\ state[job[t].srv] = "running"
        /\ \E e \in {"clean", "kill"} : Ends(job[t].srv, e)
        /\ Goto(t, "up") /\ UNCHANGED watch
     \/ /\ state[job[t].srv] = "stopped"
        /\ Goto(t, "up") /\ UNCHANGED watch
        /\ NothingEnds
     \/ RestartFails(t) /\ NothingEnds
  /\ UNCHANGED <<marker, seeded, stoppedHere, restarts, boots>>

ComesUp(t) ==
  /\ job[t].at = "up"
  /\ \/ /\ job[t].srv \in Present
        /\ state' = [state EXCEPT ![job[t].srv] = "running"]
        /\ Goto(t, "unmark") /\ UNCHANGED watch
     \/ RestartFails(t) /\ UNCHANGED state
  /\ UNCHANGED <<exit, marker, memory, passed, boots>>

\* After a start the exits to come are the server's own again.  A create that
\* asks for restart-on-crash goes on to write the marker.
Unmark(t) ==
  /\ job[t].at = "unmark" /\ Unlocked
  /\ stoppedHere' = stoppedHere \ {job[t].srv}
  /\ Return(t) \/ (t \in Client /\ Goto(t, "keep"))
  /\ UNCHANGED <<docker, marker, seeded, seen, restarts, watch, passed, boots>>

\* create_on: a container is made, then started unless asked for as stopped.
\* The marker of an earlier server of that name is still in its folder.
CreateContainer(c, i) ==
  /\ i \notin Present
  /\ \/ Begin(c, i, "up")
     \/ job[c].at = "idle" /\ UNCHANGED job
  /\ state' = [state EXCEPT ![i] = "stopped"]
  /\ exit' = [exit EXCEPT ![i] = "never"]
  /\ UNCHANGED <<marker, memory, watch, passed, boots>>

Keep(c) ==
  /\ job[c].at = "keep"
  /\ marker' = [marker EXCEPT ![job[c].srv] = job[c].srv \in Present \/ @]
  /\ Return(c)
  /\ UNCHANGED <<docker, memory, watch, passed, boots>>

\* set_restart_on_crash, as a request of its own.
SetMarker(c, i, on) ==
  /\ job[c].at = "idle" /\ i \in Present
  /\ marker' = [marker EXCEPT ![i] = on]
  /\ UNCHANGED <<docker, memory, watch, job, passed, boots>>

\* The container goes; its marker, its count and its mark of a stop stay.  A
\* look in progress asks Docker by the container's own id, which is gone.
DockerRemove(c) ==
  /\ job[c].at = "remove"
  /\ state' = [state EXCEPT ![job[c].srv] = "none"]
  /\ exit' = [exit EXCEPT ![job[c].srv] = "never"]
  /\ seen' = seen \ {job[c].srv} /\ passed' = passed \ {job[c].srv}
  /\ watch' = [watch EXCEPT !.todo = @ \ {job[c].srv}]
  /\ Return(c)
  /\ UNCHANGED <<marker, seeded, stoppedHere, restarts, boots>>

\* The caller hangs up and the API drops the handler where it waits.
CallerHangsUp(c) ==
  /\ job[c].at # "idle"
  /\ Return(c)
  /\ UNCHANGED <<docker, marker, memory, watch, passed, boots>>

-----------------------------------------------------------------------------
(* The watch: check_crashes.                                               *)

\* Mutant of WatchLists: the servers that run instead of those that stopped.
WatchListsRunning ==
  /\ watch.at = "idle"
  /\ watch' = [at |-> "listed", todo |-> Present \ Stopped, due |-> {}, failed |-> {}]
  /\ UNCHANGED <<docker, marker, memory, job, passed, boots>>

WatchLists ==
  /\ watch.at = "idle"
  /\ watch' = [at |-> "listed", todo |-> Stopped, due |-> {}, failed |-> {}]
  /\ UNCHANGED <<docker, marker, memory, job, passed, boots>>

WatchLocks ==
  /\ watch.at = "listed"
  /\ watch' = [watch EXCEPT !.at = "look"]
  /\ UNCHANGED <<docker, marker, memory, job, passed, boots>>

\* Docker has no ending to tell (it runs again, it never ran), or fails to.
WatchSkips(i) ==
  /\ watch.at = "look" /\ i \in watch.todo
  /\ state[i] = "running" \/ exit[i] = "never" \/ i \in seen \/ InspectFails
  /\ watch' = [watch EXCEPT !.todo = @ \ {i}]
  /\ UNCHANGED <<docker, marker, memory, job, passed, boots>>

\* What the watch does with an exit it has not seen, once `due` is decided.
Looks(i, due) ==
  /\ watch.at = "look" /\ i \in watch.todo
  /\ state[i] = "stopped" /\ exit[i] # "never" /\ i \notin seen
  /\ seen' = seen \cup {i}
  /\ passed' = passed \cup {i}
  /\ watch' = [watch EXCEPT !.todo = @ \ {i}, !.due = IF due THEN @ \cup {i} ELSE @]
  /\ restarts' = IF due THEN [restarts EXCEPT ![i] = @ + 1] ELSE restarts
  /\ UNCHANGED <<docker, marker, seeded, stoppedHere, job, boots>>

\* Mutant of WatchLooks: the first look restarts what it finds.
WatchLooksUnseeded(i) ==
  Looks(i, i \notin stoppedHere /\ IsCrash(i) /\ marker[i] /\ restarts[i] < MaxRestarts)

\* Mutant of WatchLooks: "more than the limit" for "at the limit".
WatchLooksOffByOne(i) ==
  Looks(i, seeded /\ i \notin stoppedHere /\ IsCrash(i) /\ marker[i] /\ restarts[i] <= MaxRestarts)

WatchLooks(i) ==
  Looks(i, seeded /\ i \notin stoppedHere /\ IsCrash(i) /\ marker[i] /\ restarts[i] < MaxRestarts)

WatchUnlocks ==
  /\ watch.at = "look" /\ watch.todo = {}
  /\ watch' = [watch EXCEPT !.at = "act"]
  /\ seeded' = TRUE
  /\ UNCHANGED <<docker, marker, seen, stoppedHere, restarts, job, passed, boots>>

\* One restart after the other; what happened since the look is not asked.
WatchActs(i) ==
  /\ watch.at = "act" /\ i \in watch.due
  /\ Begin(Watch, i, "end")
  /\ watch' = [watch EXCEPT !.due = @ \ {i}]
  /\ UNCHANGED <<docker, marker, memory, passed, boots>>

WatchSleeps ==
  /\ watch.at = "act" /\ watch.due = {} /\ job[Watch].at = "idle"
  /\ watch' = [watch EXCEPT !.at = "idle"]
  /\ UNCHANGED <<docker, marker, memory, job, passed, boots>>

-----------------------------------------------------------------------------
(* The world, and the agent's own end and start.                           *)

GameEnds(i) ==
  /\ state[i] = "running"
  /\ \E e \in {"clean", "crash"} : Ends(i, e)
  /\ UNCHANGED <<marker, seeded, stoppedHere, restarts, watch, job, boots>>

\* A restart is no longer one of the last hour's (CrashWatch::recent).
HourPasses(i) ==
  /\ restarts[i] > 0
  /\ restarts' = [restarts EXCEPT ![i] = @ - 1]
  /\ UNCHANGED <<docker, marker, seeded, seen, stoppedHere, watch, job, passed, boots>>

\* The agent forgets: its counts, its marks, what it had seen.
AgentRestarts ==
  /\ boots < MaxBoots
  /\ boots' = boots + 1
  /\ seeded' = FALSE /\ seen' = {} /\ stoppedHere' = {}
  /\ restarts' = [i \in ServerId |-> 0]
  /\ watch' = [at |-> "idle", todo |-> {}, due |-> {}, failed |-> {}]
  /\ job' = [t \in Task |-> Idle]
  /\ passed' = Stopped
  /\ UNCHANGED <<docker, marker>>

-----------------------------------------------------------------------------

Init ==
  /\ state = [i \in ServerId |-> "none"] /\ exit = [i \in ServerId |-> "never"]
  /\ marker = [i \in ServerId |-> FALSE]
  /\ seeded = FALSE /\ seen = {} /\ stoppedHere = {}
  /\ restarts = [i \in ServerId |-> 0]
  /\ watch = [at |-> "idle", todo |-> {}, due |-> {}, failed |-> {}]
  /\ job = [t \in Task |-> Idle]
  /\ passed = {} /\ boots = 0

ClientStep(c) ==
  \/ \E i \in ServerId : \/ Asks(c, i) \/ CreateContainer(c, i)
                         \/ \E on \in BOOLEAN : SetMarker(c, i, on)
  \/ DockerStop(c) \/ Mark(c) \/ Keep(c) \/ DockerRemove(c) \/ CallerHangsUp(c)

RestartStep(t) == RestartEnds(t) \/ ComesUp(t) \/ Unmark(t)

WatchStep ==
  \/ WatchLists \/ WatchLocks \/ WatchUnlocks \/ WatchSleeps
  \/ \E i \in ServerId : WatchSkips(i) \/ WatchLooks(i) \/ WatchActs(i)

Next ==
  \/ \E c \in Client : ClientStep(c)
  \/ \E t \in Task : RestartStep(t)
  \/ WatchStep
  \/ \E i \in ServerId : GameEnds(i) \/ HourPasses(i)
  \/ AgentRestarts

Spec == Init /\ [][Next]_vars

\* main.rs runs check_crashes for ever, and Docker answers it.
FairSpec == Spec /\ WF_vars(WatchStep) /\ WF_vars(RestartStep(Watch))

-----------------------------------------------------------------------------
(* What has to hold.                                                       *)

\* The watch restarts a server for an exit it meets for the first time, and
\* never for one from before the agent ran (agent.rs, CrashWatch): no exit is
\* answered twice, and none long after it happened.  Needs Docker to say how
\* each container ended when the first look asks.
FreshExitsOnly == [][\A i \in watch'.due \ watch.due : i \notin passed]_vars

\* A server that asked for it, crashed, was not stopped by anybody and is below
\* the limit comes up again, whatever the requests do meanwhile, unless they
\* stop it, remove it or withdraw the wish, the agent itself starts again, or
\* the watch tried and the restart failed: it does not try the same exit twice.
Crashed(i) ==
  /\ seeded /\ state[i] = "stopped" /\ IsCrash(i) /\ i \notin seen
  /\ i \notin stoppedHere /\ marker[i] /\ restarts[i] < MaxRestarts

CrashAnswered ==
  \A i \in ServerId :
    Crashed(i) ~> \/ state[i] # "stopped" \/ i \in stoppedHere \/ ~marker[i] \/ ~seeded
                  \/ i \in watch.failed

\* A server stopped through the agent is never restarted as crashed, whatever
\* its exit code (agent.rs, CrashWatch.stopped_here).
StopIsNoCrash == [][\A i \in watch'.due \ watch.due : exit[i] # "stop"]_vars

=============================================================================
