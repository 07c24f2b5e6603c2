------------------------------ MODULE Installs ------------------------------
(***************************************************************************)
(* Downloads of game content on a node (platform-agent, install.rs, with   *)
(* run_steamcmd and its callers of content.rs and run_task of docker.rs):  *)
(* one slot per game, one download at a time on the node, a tool that runs *)
(* in a container and is tried again, a cancel that may come at any        *)
(* moment, and a watch that cancels by itself when the disk is full.       *)
(*                                                                         *)
(* A download is a task of its own; a step of it is the code between two   *)
(* awaits.  Nothing it fetches counts before it is moved into place, and   *)
(* what it staged is removed on every way out.                             *)
(*                                                                         *)
(* External: Docker, and the tool in the container, which ends.            *)
(***************************************************************************)
EXTENDS Naturals, FiniteSets

CONSTANTS
  Game,      \* games
  Tries,     \* STEAMCMD_ATTEMPTS
  MaxBegin,  \* bound: downloads asked for
  MaxLow     \* bound: times the disk reaches its reserve

\* No download's.
NoGame == "none"

ASSUME InstallsAssumption ==
  NoGame \notin Game /\ Tries \in Nat \ {0} /\ MaxBegin \in Nat /\ MaxLow \in Nat

VARIABLES
  slot,      \* each game's entry of Installs.tasks
  turn,      \* the game whose download holds the one permit
  dl,        \* each game's download: where it stands and its InstallProgress
  box,       \* the container of the attempt under way
  stop,      \* a cancel request: waiting to remove the container, or answered
  installed, \* games of which a copy is installed
  disk,      \* whether the disk is at its reserve, and how often it was
  asked      \* downloads asked for so far

installsVars == <<slot, turn, dl, box, stop, installed, disk, asked>>

\* Fetching an archive or a Minecraft build; a first install with steamcmd; an
\* update or a check of the files, which work on a copy of what is installed.
Op == {"fetch", "install", "renew"}

\* Inside `watched`: the disk is looked at while the download is at one of these.
Watched == {"copy", "try", "create", "check", "start", "wait", "after", "promote"}
Outcome == {"ok", "transient", "bad"}

Stand == Watched \cup {"off", "queue", "room", "end"}

Download == [at : Stand, op : Op, attempt : 0 .. Tries, out : Outcome, flag : BOOLEAN,
             named : BOOLEAN, staged : BOOLEAN, told : BOOLEAN, good : BOOLEAN]

InstallsTypeOK ==
  /\ slot \in [Game -> {"idle", "queued", "running", "held", "done", "failed"}]
  /\ turn \in Game \cup {NoGame}
  /\ dl \in [Game -> Download]
  /\ box \in [Game -> {"none", "created", "running", "exited"}]
  /\ stop \in [Game -> {"none", "remove", "answered"}]
  /\ installed \subseteq Game
  /\ disk \in [low : BOOLEAN, times : 0 .. MaxLow] /\ asked \in 0 .. MaxBegin

Off ==
  [at |-> "off", op |-> "install", attempt |-> 0, out |-> "ok", flag |-> FALSE,
   named |-> FALSE, staged |-> FALSE, told |-> FALSE, good |-> FALSE]

InstallsInit ==
  /\ slot = [g \in Game |-> "idle"] /\ turn = NoGame
  /\ dl = [g \in Game |-> Off]
  /\ box = [g \in Game |-> "none"] /\ stop = [g \in Game |-> "none"]
  /\ installed = {} /\ disk = [low |-> FALSE, times |-> 0] /\ asked = 0

\* is_active: a download under way, or a held entry.
Active(g) == slot[g] \in {"queued", "running", "held"}

Becomes(g, d) == dl' = [dl EXCEPT ![g] = d]
To(g, s) == Becomes(g, [dl[g] EXCEPT !.at = s])

\* What a download leaves of itself on every way out that installs nothing.
Fails(g) == Becomes(g, [dl[g] EXCEPT !.at = "end", !.staged = FALSE, !.named = FALSE])

\* The task is over; what it did not remove stays.
Over(g) == Becomes(g, [Off EXCEPT !.staged = dl[g].staged])

(***************************************************************************)
(* The slot and the queue.                                                 *)
(***************************************************************************)

\* begin, of spawn_version, spawn_update and spawn_verify.  A cancel still on
\* its way knows the last download's container by name and finds none.
BeginDownload(g, o) ==
  /\ ~Active(g) /\ asked < MaxBegin /\ asked' = asked + 1
  /\ slot' = [slot EXCEPT ![g] = "queued"]
  /\ Becomes(g, [Off EXCEPT !.at = "queue", !.op = o])
  /\ stop' = [stop EXCEPT ![g] = "none"]
  /\ UNCHANGED <<turn, box, installed, disk>>

\* take_turn: the flag is looked at every 250 ms while the permit is taken.
TakesTurn(g) ==
  /\ dl[g].at = "queue"
  /\ IF dl[g].flag
     THEN slot' = [slot EXCEPT ![g] = "failed"] /\ Over(g) /\ UNCHANGED turn
     ELSE /\ turn = NoGame /\ turn' = g
          /\ slot' = [slot EXCEPT ![g] = "running"] /\ To(g, "room")
  /\ UNCHANGED <<box, stop, installed, disk, asked>>

\* Mutant of Finishes: the permit is not given back.
FinishesHolding(g) ==
  /\ dl[g].at = "end"
  /\ slot' = [slot EXCEPT ![g] = IF dl[g].good THEN "done" ELSE "failed"]
  /\ Over(g) /\ UNCHANGED <<turn, box, stop, installed, disk, asked>>

\* finish, and the permit goes.
Finishes(g) ==
  /\ dl[g].at = "end"
  /\ slot' = [slot EXCEPT ![g] = IF dl[g].good THEN "done" ELSE "failed"]
  /\ turn' = NoGame /\ Over(g)
  /\ UNCHANGED <<box, stop, installed, disk, asked>>

\* exclusive: deleting or choosing a copy holds the slot meanwhile.  (A caller
\* that hangs up is ContentMoves' business.)
Holds(g) ==
  /\ ~Active(g) /\ slot' = [slot EXCEPT ![g] = "held"]
  /\ UNCHANGED <<turn, dl, box, stop, installed, disk, asked>>

LetsGo(g) ==
  /\ slot[g] = "held" /\ slot' = [slot EXCEPT ![g] = "idle"]
  /\ \/ UNCHANGED installed
     \/ installed' = installed \ {g}
  /\ UNCHANGED <<turn, dl, box, stop, disk, asked>>

(***************************************************************************)
(* The download.                                                           *)
(***************************************************************************)
DownloadOnly == UNCHANGED <<slot, turn, stop, disk, asked>>

\* content_is_missing, room_for, and the refusals before anything is staged.
FindsRoom(g) ==
  /\ dl[g].at = "room" /\ DownloadOnly /\ UNCHANGED <<box, installed>>
  /\ \/ Fails(g)
     \/ /\ dl[g].op # "renew" /\ g \in installed
        /\ Becomes(g, [dl[g] EXCEPT !.at = "end", !.good = TRUE])
     \/ /\ ~disk.low /\ (dl[g].op = "renew" <=> g \in installed)
        /\ Becomes(g, [dl[g] EXCEPT !.staged = TRUE,
                                    !.at = IF dl[g].op = "install" THEN "try" ELSE "copy"])

\* fetch, or copy_for_steamcmd: it goes on until it is done or the flag is set,
\* and the flag is looked at once more.
Copies(g) ==
  /\ dl[g].at = "copy" /\ DownloadOnly /\ UNCHANGED <<box, installed>>
  /\ \/ Fails(g)
     \/ ~dl[g].flag /\ To(g, IF dl[g].op = "fetch" THEN "promote" ELSE "try")

\* run_steamcmd: one attempt, its container's name known before it is made.
BeginsAttempt(g) ==
  /\ dl[g].at = "try" /\ DownloadOnly /\ UNCHANGED <<box, installed>>
  /\ IF dl[g].flag THEN Fails(g)
     ELSE Becomes(g, [dl[g] EXCEPT !.at = "create", !.named = TRUE, !.attempt = @ + 1])

Outcomes(g, o) == Becomes(g, [dl[g] EXCEPT !.at = "after", !.out = o])

CreatesBox(g) ==
  /\ dl[g].at = "create" /\ DownloadOnly /\ UNCHANGED installed
  /\ \/ Outcomes(g, "bad") /\ UNCHANGED box
     \/ To(g, "check") /\ box' = [box EXCEPT ![g] = "created"]

\* Mutant of ChecksFlag: the container is started without another look.
ChecksNothing(g) ==
  /\ dl[g].at = "check" /\ DownloadOnly /\ UNCHANGED installed
  /\ To(g, "start") /\ UNCHANGED box

\* run_task looks at the flag once more between create and start.
ChecksFlag(g) ==
  /\ dl[g].at = "check" /\ DownloadOnly /\ UNCHANGED installed
  /\ IF dl[g].flag THEN Outcomes(g, "bad") /\ box' = [box EXCEPT ![g] = "none"]
     ELSE To(g, "start") /\ UNCHANGED box

StartsBox(g) ==
  /\ dl[g].at = "start" /\ DownloadOnly /\ UNCHANGED installed
  /\ IF box[g] = "created" THEN To(g, "wait") /\ box' = [box EXCEPT ![g] = "running"]
     ELSE Outcomes(g, "bad") /\ UNCHANGED box

\* The tool ends.
BoxExits(g) ==
  /\ box[g] = "running" /\ box' = [box EXCEPT ![g] = "exited"]
  /\ UNCHANGED <<slot, turn, dl, stop, installed, disk, asked>>

\* await_task: the container ended or was removed; then it is removed.
Awaits(g) ==
  /\ dl[g].at = "wait" /\ box[g] \in {"exited", "none"}
  /\ DownloadOnly /\ UNCHANGED installed
  /\ \E o \in (IF box[g] = "none" THEN {"bad"} ELSE Outcome) : Outcomes(g, o)
  /\ box' = [box EXCEPT ![g] = "none"]

\* Mutant of JudgesOutcome: the outcome alone.
JudgesOutcomeOnly(g) ==
  /\ dl[g].at = "after" /\ DownloadOnly /\ UNCHANGED <<box, installed>>
  /\ IF dl[g].out = "ok" THEN Becomes(g, [dl[g] EXCEPT !.at = "promote", !.named = FALSE])
     ELSE Fails(g)

\* The flag, then the outcome; a passing failure is tried again.
JudgesOutcome(g) ==
  /\ dl[g].at = "after" /\ DownloadOnly /\ UNCHANGED <<box, installed>>
  /\ \/ dl[g].flag /\ Fails(g)
     \/ /\ ~dl[g].flag
        /\ IF dl[g].out = "ok" THEN Becomes(g, [dl[g] EXCEPT !.at = "promote", !.named = FALSE])
           ELSE IF dl[g].out = "transient" /\ dl[g].attempt < Tries
           THEN Becomes(g, [dl[g] EXCEPT !.at = "try", !.named = FALSE])
           ELSE Fails(g)

\* The copy is moved into place, unless the update brought nothing new; a check
\* of the files compares them first.
Promotes(g) ==
  /\ dl[g].at = "promote" /\ DownloadOnly /\ UNCHANGED box
  /\ Becomes(g, [dl[g] EXCEPT !.at = "end", !.staged = FALSE, !.good = TRUE])
  /\ \/ installed' = installed \cup {g}
     \/ dl[g].op = "renew" /\ UNCHANGED installed

(***************************************************************************)
(* Cancel and the disk.                                                    *)
(***************************************************************************)
Flagged(g) ==
  Becomes(g, [dl[g] EXCEPT !.flag = TRUE, !.told = @ \/ dl[g].at \notin {"promote", "end"}])

\* cancel: the flag is set, and the container's name read if it has one.
Cancels(g) ==
  /\ slot[g] \in {"queued", "running"}
  /\ Flagged(g)
  /\ stop' = [stop EXCEPT ![g] = IF dl[g].named THEN "remove" ELSE "answered"]
  /\ UNCHANGED <<slot, turn, box, installed, disk, asked>>

\* remove_task: a container that is not there is as good as removed.
CancelRemoves(g) ==
  /\ stop[g] = "remove"
  /\ stop' = [stop EXCEPT ![g] = "answered"] /\ box' = [box EXCEPT ![g] = "none"]
  /\ UNCHANGED <<slot, turn, dl, installed, disk, asked>>

\* watched: the download stands still while its watch stops it.
DiskStops(g) ==
  /\ dl[g].at \in Watched /\ disk.low /\ ~dl[g].flag
  /\ Flagged(g)
  /\ box' = IF dl[g].named THEN [box EXCEPT ![g] = "none"] ELSE box
  /\ UNCHANGED <<slot, turn, stop, installed, disk, asked>>

DiskTurns ==
  /\ disk.low \/ disk.times < MaxLow
  /\ disk' = [low |-> ~disk.low, times |-> IF disk.low THEN disk.times ELSE disk.times + 1]
  /\ UNCHANGED <<slot, turn, dl, box, stop, installed, asked>>

DownloadStep(g) ==
  \/ TakesTurn(g) \/ FindsRoom(g) \/ Copies(g) \/ BeginsAttempt(g) \/ CreatesBox(g)
  \/ ChecksFlag(g) \/ StartsBox(g) \/ Awaits(g) \/ JudgesOutcome(g) \/ Promotes(g)
  \/ Finishes(g)

InstallsNext ==
  \/ DiskTurns
  \/ \E g \in Game :
       \/ DownloadStep(g) \/ BoxExits(g) \/ Holds(g) \/ LetsGo(g)
       \/ Cancels(g) \/ CancelRemoves(g) \/ DiskStops(g)
       \/ \E o \in Op : BeginDownload(g, o)

\* Tasks run and the tool ends.
InstallsFairness ==
  \A g \in Game : WF_installsVars(DownloadStep(g)) /\ WF_installsVars(BoxExits(g))

InstallsSpec == InstallsInit /\ [][InstallsNext]_installsVars /\ InstallsFairness

(***************************************************************************)
(* Properties.                                                             *)
(***************************************************************************)

\* A cancel that has been answered has stopped the tool, whether it came before
\* the container had a name, before it was made, between create and start, or
\* while it ran: nothing runs and nothing will.
CancelStops == \A g \in Game : stop[g] = "answered" => box[g] # "running"

\* A download somebody cancelled, or the disk watch stopped, before its outcome
\* was judged installs nothing.
CancelHonoured ==
  [][\A g \in Game : g \notin installed /\ g \in installed' => ~dl[g].told]_installsVars

\* A download that is over leaves nothing behind: no staged files, no container.
NothingStaged == \A g \in Game : dl[g].at = "off" => ~dl[g].staged /\ box[g] = "none"

\* Neither a download that was cancelled nor one that is over leaves a tool at work.
NothingLingers == CancelStops /\ NothingStaged

\* The slots and the permit are a queue, DownloadQueue: the permit goes to a
\* download that waits for it, comes back from every one that has it, and is the
\* only way to install.
Queue == INSTANCE DownloadQueue
  WITH Games <- Game, Nobody <- NoGame, current <- turn, content <- installed,
       waiting <- {g \in Game : slot[g] = "queued"}

QueueKept == Queue!Spec

\* Every download ends, waiting ones too: the permit comes back on every way out.
DownloadsEnd == \A g \in Game : []<>(slot[g] \notin {"queued", "running"})

=============================================================================
