------------------------------ MODULE Relocate ------------------------------
(***************************************************************************)
(* The index moves one server from a node to another while its players are *)
(* on it (platform-index, hosting.rs, relocate_to): the new server is made *)
(* and held stopped, the files are copied while the old one serves, then   *)
(* the old one is stopped, the last changes and the mesh identity (the     *)
(* address players know) are carried over, the new one is started and the  *)
(* old one removed.                                                        *)
(*                                                                         *)
(* A step is the code between two awaits.  A call to a node is carried     *)
(* out, refused, or carried out with its reply lost (a link that times     *)
(* out); the owner's own buttons and the two sweeps act from listings made *)
(* before.  The index may drop a move at any await: its HTTP handler is    *)
(* dropped when the caller hangs up, and nothing is kept over a restart.   *)
(***************************************************************************)
EXTENDS Naturals, FiniteSets

CONSTANTS
  Srv,        \* instance ids, every one made by new_instance_id
  First,      \* the server that exists at the start; its id names its address
  Moves,      \* bound: calls of relocate_to
  Actor,      \* the owner's requests and the sweeps
  File,       \* the files of a world
  MaxWrite,   \* bound: writes players make to one file
  MaxMishap,  \* bound: replies lost, moves dropped and acts of others, together
  MaxDelta    \* MAX_LIVE_DELTAS

ASSUME RelocateAssumption ==
  /\ First \in Srv /\ IsFiniteSet(File) /\ File # {}
  /\ Moves \in Nat /\ MaxWrite \in Nat /\ MaxMishap \in Nat /\ MaxDelta \in Nat

VARIABLES
  server,     \* the servers the nodes hold
  world,   \* what the players at First's address last wrote to each file
  move,    \* each relocate_to: where it stands and what it holds
  act,     \* each actor: idle, or about to act on what it listed
  lost,    \* steps of moves whose call's reply was lost
  hand,    \* what actors did to servers
  mishaps  \* replies lost, moves dropped and acts so far

relocateVars == <<server, world, move, act, lost, hand, mishaps>>

\* Calls are numbered as they come.
Mover == 1 .. Moves

Files == [File -> 0 .. MaxWrite]
NewFiles == [f \in File |-> 0]

\* A call of relocate_to that holds its MoveGuard is at one of these steps.
Guarded == {"place", "create", "hold", "make", "read", "land", "stopold", "ident",
            "setid", "startnew", "removeold", "undo", "again"}
Ended == {"moved", "failed", "down", "dropped"}
Act == {"start", "stop", "remove"}

RelocateTypeOK ==
  /\ server \in [Srv -> [st : {"none", "running", "stopped"}, addr : Srv, files : Files]]
  /\ world \in Files
  /\ move \in [Mover ->
       [at : Guarded \cup Ended \cup {"idle", "guard"}, old : Srv, new : Srv,
        ran : BOOLEAN, blind : BOOLEAN, pass : {"full", "live", "last"}, n : 0 .. MaxDelta,
        since : Files, began : Files, seen : Files, left : SUBSET File,
        addr : Srv, again : BOOLEAN]]
  /\ act \in [Actor -> [at : {"idle", "listed"}, op : Act, on : Srv]]
  /\ lost \subseteq Guarded
  /\ hand \subseteq Act
  /\ mishaps \in 0 .. MaxMishap

\* A call that holds no copy of anything.
Call(at, old, new, ran, blind) ==
  [at |-> at, old |-> old, new |-> new, ran |-> ran, blind |-> blind,
   pass |-> "full", n |-> 0, since |-> NewFiles, began |-> NewFiles,
   seen |-> NewFiles, left |-> {}, addr |-> First, again |-> FALSE]

NoServer(i) == [st |-> "none", addr |-> i, files |-> NewFiles]

RelocateInit ==
  /\ server = [i \in Srv |->
       IF i = First THEN [NoServer(i) EXCEPT !.st = "running"] ELSE NoServer(i)]
  /\ world = NewFiles
  /\ move = [m \in Mover |-> Call("idle", First, First, FALSE, FALSE)]
  /\ act = [a \in Actor |-> [at |-> "idle", op |-> "stop", on |-> First]]
  /\ lost = {} /\ hand = {} /\ mishaps = 0

Exists(i) == server[i].st # "none"
Running(i) == server[i].st = "running"
Stopped(i) == server[i].st = "stopped"

\* MoveGuard: ids whose move is under way.  It is released when its call ends or
\* is dropped, so it is held exactly while the call stands at a guarded step.
Moving == {move[m].old : m \in {k \in Mover : move[k].at \in Guarded}}

(***************************************************************************)
(* What a node does with a call.                                           *)
(***************************************************************************)
Put(i, st) == [server EXCEPT ![i].st = st]
Gone(i) == [server EXCEPT ![i] = NoServer(i)]

Mishap == mishaps < MaxMishap /\ mishaps' = mishaps + 1

\* A call of move m that changes a server: carried out and answered, refused,
\* or carried out with the answer lost.  The move goes on as good or as bad.
Ask(m, can, done, good, bad) ==
  /\ \/ /\ can /\ server' = done /\ move' = [move EXCEPT ![m] = good]
        /\ UNCHANGED <<lost, mishaps>>
     \/ /\ move' = [move EXCEPT ![m] = bad]
        /\ UNCHANGED <<server, lost, mishaps>>
     \/ /\ can /\ Mishap /\ lost' = lost \cup {move[m].at}
        /\ server' = done /\ move' = [move EXCEPT ![m] = bad]
  /\ UNCHANGED <<world, act, hand>>

\* A step of move m that changes no server.
Think(m, then) ==
  /\ move' = [move EXCEPT ![m] = then]
  /\ UNCHANGED <<server, world, act, lost, hand, mishaps>>

\* The move goes on to step s; at its end it forgets what it held.
At(m, s) == [move[m] EXCEPT !.at = s]
End(m, s) == Call(s, move[m].old, move[m].new, move[m].ran, move[m].blind)

\* Mutant of Undo: the old server is never started again.
UndoOnly(m, again) == [End(m, "undo") EXCEPT !.again = FALSE]

\* remove_new, and then restart_old if again holds.
Undo(m, again) == [End(m, "undo") EXCEPT !.again = again]

(***************************************************************************)
(* relocate_to.                                                            *)
(***************************************************************************)

\* A server another move made and has not finished.
HalfMade(i) == \E k \in Mover : move[k].new = i /\ i # First /\ move[k].at # "moved"

\* owned(): the listing the call begins with, the state in it kept for later.
Begin(m, i) ==
  /\ move[m].at = "idle" /\ \A k \in 1 .. m - 1 : move[k].at # "idle"
  /\ Exists(i)
  /\ Think(m, Call("guard", i, First, Running(i), HalfMade(i)))

\* Mutant of TakeGuard: two moves of one server at once.
TakeGuardAlways(m) ==
  /\ move[m].at = "guard"
  /\ Think(m, [At(m, "place") EXCEPT !.blind = @ \/ Running(move[m].old) # move[m].ran])

TakeGuard(m) ==
  /\ move[m].at = "guard"
  /\ IF move[m].old \in Moving THEN Think(m, End(m, "failed"))
     ELSE Think(m, [At(m, "place") EXCEPT !.blind = @ \/ Running(move[m].old) # move[m].ran])

\* Ids are random, and one unused id is as good as another.
Unused == {i \in Srv : ~Exists(i) /\ \A k \in Mover : i \notin {move[k].old, move[k].new}}

\* The second listing, move_target, spec_on and the new id.
Place(m) ==
  /\ move[m].at = "place"
  /\ \/ Think(m, End(m, "failed"))
     \/ /\ Exists(move[m].old) /\ Unused # {}
        /\ Think(m, [move[m] EXCEPT !.at = "create", !.new = CHOOSE i \in Unused : TRUE])

\* A failed create undoes nothing.
CreateNew(m) ==
  /\ move[m].at = "create"
  /\ LET new == move[m].new IN
     Ask(m, ~Exists(new),
         [server EXCEPT ![new] = [st |-> "running", addr |-> new, files |-> NewFiles]],
         At(m, "hold"), End(m, "failed"))

Hold(m) ==
  /\ move[m].at = "hold"
  /\ Ask(m, Exists(move[m].new), Put(move[m].new, "stopped"),
         [move[m] EXCEPT !.at = "make", !.pass = "full"], Undo(m, FALSE))

\* copy_pass, make_on: the node notes when it begins, then reads file by file.
MakeCopy(m) ==
  /\ move[m].at = "make"
  /\ \/ Think(m, Undo(m, move[m].pass = "last"))
     \/ /\ Exists(move[m].old)
        /\ LET now == server[move[m].old].files IN
           Think(m, [move[m] EXCEPT !.at = "read", !.began = now,
                                    !.seen = now, !.left = File])

Read(m) ==
  /\ move[m].at = "read"
  /\ \E f \in move[m].left :
       LET rest == move[m].left \ {f} IN
       Think(m, [move[m] EXCEPT
                   !.at = IF rest = {} THEN "land" ELSE "read",
                   !.seen[f] = server[move[m].old].files[f], !.left = rest])

\* What the archive leaves of the new server's files: all of it after a restore,
\* after a merge only what changed since the last pass began.
Laid(m) ==
  LET t == move[m] IN
  [f \in File |-> IF t.pass # "full" /\ t.seen[f] = t.since[f]
                  THEN server[t.new].files[f] ELSE t.seen[f]]

\* Mutant of Onward: the next delta reaches back to the end of this pass only.
OnwardFromEnd(m) ==
  [move[m] EXCEPT !.since = server[move[m].old].files, !.began = NewFiles, !.seen = NewFiles]

\* The next delta reaches back to the beginning of this pass.
Onward(m) == [move[m] EXCEPT !.since = move[m].began, !.began = NewFiles, !.seen = NewFiles]

\* Mutant of AfterPass: deltas go on while one is not small.
AfterPassEndless(m) ==
  LET t == Onward(m)  go == [t EXCEPT !.at = "stopold"] IN
  IF t.pass = "last" \/ ~t.ran THEN {End(m, "ident")}
  ELSE {go, [t EXCEPT !.at = "make", !.pass = "live"]}

\* The step after a pass: further deltas while one is not small and there are
\* not too many, then the stop; the last pass is followed by the identity.
AfterPass(m) ==
  LET t == Onward(m) IN
  IF t.pass = "last" \/ ~t.ran THEN {End(m, "ident")}
  ELSE LET go == [t EXCEPT !.at = "stopold", !.n = 0] IN
       IF t.pass = "full"
       THEN {IF MaxDelta = 0 THEN go
             ELSE [t EXCEPT !.at = "make", !.pass = "live", !.n = 1]}
       ELSE {go} \cup (IF t.n < MaxDelta
                       THEN {[t EXCEPT !.at = "make", !.n = t.n + 1]} ELSE {})

\* Mutant of Land: a pass that failed counts as done.
LandAnyway(m) ==
  /\ move[m].at = "land"
  /\ \E good \in AfterPass(m) :
       Ask(m, Stopped(move[m].new), [server EXCEPT ![move[m].new].files = Laid(m)], good, good)

\* fetch_from, push_backup, then restore_on or merge_on: only on a stopped server.
Land(m) ==
  /\ move[m].at = "land"
  /\ \E good \in AfterPass(m) :
       Ask(m, Stopped(move[m].new), [server EXCEPT ![move[m].new].files = Laid(m)],
           good, Undo(m, move[m].pass = "last"))

\* A stop that fails removes the new server and starts nothing again.
StopOld(m) ==
  /\ move[m].at = "stopold"
  /\ Ask(m, Exists(move[m].old), Put(move[m].old, "stopped"),
         [move[m] EXCEPT !.at = "make", !.pass = "last"], Undo(m, FALSE))

\* Left out: a server of a node without a mesh, which has no identity to give.
Identity(m) ==
  /\ move[m].at = "ident"
  /\ \/ Think(m, Undo(m, move[m].ran))
     \/ /\ Exists(move[m].old)
        /\ Think(m, [move[m] EXCEPT !.at = "setid", !.addr = server[move[m].old].addr])

SetIdentity(m) ==
  /\ move[m].at = "setid"
  /\ Ask(m, Stopped(move[m].new), [server EXCEPT ![move[m].new].addr = move[m].addr],
         At(m, IF move[m].ran THEN "startnew" ELSE "removeold"), Undo(m, move[m].ran))

StartNew(m) ==
  /\ move[m].at = "startnew"
  /\ Ask(m, Stopped(move[m].new), Put(move[m].new, "running"),
         At(m, "removeold"), Undo(m, TRUE))

\* A failed removal of the old server is logged and the move counts as done.
RemoveOld(m) ==
  /\ move[m].at = "removeold"
  /\ Ask(m, Exists(move[m].old), Gone(move[m].old), End(m, "moved"), End(m, "moved"))

\* remove_new: a failure of its own is logged.
RemoveNew(m) ==
  /\ move[m].at = "undo"
  /\ LET next == End(m, IF move[m].again THEN "again" ELSE "failed") IN
     Ask(m, Exists(move[m].new), Gone(move[m].new), next, next)

\* restart_old: the caller is told when the old server could not be started.
RestartOld(m) ==
  /\ move[m].at = "again"
  /\ Ask(m, Stopped(move[m].old), Put(move[m].old, "running"),
         End(m, "failed"), End(m, "down"))

\* The handler is dropped at an await, or the index restarts.
HandlerDropped(m) ==
  /\ move[m].at \in Guarded \cup {"guard"} /\ Mishap
  /\ move' = [move EXCEPT ![m] = End(m, "dropped")]
  /\ UNCHANGED <<server, world, act, lost, hand>>

(***************************************************************************)
(* Everyone else.                                                          *)
(***************************************************************************)

\* A player at First's address changes a file.
PlayerWrites(i, f) ==
  /\ Running(i) /\ server[i].addr = First /\ world[f] < MaxWrite
  /\ world' = [world EXCEPT ![f] = @ + 1]
  /\ server' = [server EXCEPT ![i].files[f] = world[f] + 1]
  /\ UNCHANGED <<move, act, lost, hand, mishaps>>

\* find_for, all_instances: an actor lists, and picks what its act is for.
\* start is refused of a server listed as running; a sweep stops what it listed
\* running and removes what it listed stopped.
List(a, op, i) ==
  /\ act[a].at = "idle" /\ Exists(i) /\ Mishap
  /\ op = "start" => ~Running(i)
  /\ act' = [act EXCEPT ![a] = [at |-> "listed", op |-> op, on |-> i]]
  /\ UNCHANGED <<server, world, move, lost, hand>>

\* The act itself, on whatever the node holds by now.
Do(a) ==
  LET op == act[a].op  i == act[a].on IN
  /\ act[a].at = "listed"
  /\ \/ op = "start" /\ Stopped(i) /\ server' = Put(i, "running")
     \/ op = "stop" /\ Exists(i) /\ server' = Put(i, "stopped")
     \/ op = "remove" /\ Exists(i) /\ server' = Gone(i)
  /\ act' = [act EXCEPT ![a] = [at |-> "idle", op |-> "stop", on |-> First]]
  /\ hand' = hand \cup {op}
  /\ UNCHANGED <<world, move, lost, mishaps>>

\* The node refuses, or what was listed is gone.
Refused(a) ==
  /\ act[a].at = "listed"
  /\ act' = [act EXCEPT ![a] = [at |-> "idle", op |-> "stop", on |-> First]]
  /\ UNCHANGED <<server, world, move, lost, hand, mishaps>>

MoveStep(m) ==
  \/ TakeGuard(m) \/ Place(m) \/ CreateNew(m) \/ Hold(m) \/ MakeCopy(m) \/ Read(m) \/ Land(m)
  \/ StopOld(m) \/ Identity(m) \/ SetIdentity(m) \/ StartNew(m) \/ RemoveOld(m)
  \/ RemoveNew(m) \/ RestartOld(m)

RelocateNext ==
  \/ \E m \in Mover : MoveStep(m) \/ HandlerDropped(m) \/ \E i \in Srv : Begin(m, i)
  \/ \E i \in Srv, f \in File : PlayerWrites(i, f)
  \/ \E a \in Actor : Do(a) \/ Refused(a) \/ \E op \in Act, i \in Srv : List(a, op, i)

\* Every call to a node ends: the uplink and the HTTP client time out.
RelocateFairness == \A m \in Mover : WF_relocateVars(MoveStep(m))

RelocateSpec == RelocateInit /\ [][RelocateNext]_relocateVars /\ RelocateFairness

(***************************************************************************)
(* Properties.                                                             *)
(***************************************************************************)

AtFirst(i) == Exists(i) /\ server[i].addr = First

\* The reply to a move's call at step s was lost.
LostAt(s) == s \in lost

\* A move is blind when another move was still making the server it moves (the
\* guard is on the old id alone and does not refuse that), or when the listing
\* it began with, made before it took the guard, was out of date by then.
Blind == \E m \in Mover : move[m].blind

\* An actor started, stopped or removed one of the servers of a move.
Did(op) == op \in hand

\* Players never reach a world older than what they last wrote: a server that
\* runs at the address holds every write made there.  This is about the deltas
\* (each reaches back to the beginning of the pass before) and the last pass
\* after the stop.  Only a start by hand in the middle of a move, or a start
\* whose reply was lost, can break it.
ServesLatest ==
  ~Blind /\ ~Did("start") /\ ~LostAt("startnew") =>
    \A i \in Srv : Running(i) /\ AtFirst(i) => server[i].files = world

\* One address, one running server: nothing a move does by itself brings up two
\* servers at the address.
OneRunning ==
  ~Blind /\ ~Did("start") /\ ~LostAt("startnew") =>
    \A i, j \in Srv : Running(i) /\ Running(j) /\ AtFirst(i) /\ AtFirst(j) => i = j

\* The players' world is never lost to a failed, dropped or half-undone move:
\* some server at the address holds it.
NeverLost ==
  ~Blind /\ ~Did("start") /\ ~Did("remove") /\ ~LostAt("startnew") =>
    \E i \in Srv : AtFirst(i) /\ server[i].files = world

\* Nothing but move m itself takes its server down: its listing was up to date
\* and settled, the owner stopped nothing, and no stop of a move did its work
\* without an answer, for that failure starts nothing.
Undisturbed(m) == ~move[m].blind /\ ~Did("stop") /\ ~LostAt("stopold")

\* All or nothing: a move that reports a failure and does not say that the old
\* server is down has it running again if it was running, whatever the other
\* moves, the sweeps and the owner's starts and removals did meanwhile.
FailureRestores ==
  [][\A m \in Mover :
       LET i == move[m].old IN
       move[m].at \in Guarded /\ move'[m].at = "failed" /\ move[m].ran
         /\ Undisturbed(m)' /\ Exists(i)' => Running(i)']_relocateVars

\* The steps of a pass, and those still ahead of a move in the passes after the
\* one under way: deltas not made yet, the stop, the last pass.
PassSteps == Cardinality(File) + 2

Ahead(t) ==
  CASE t.pass = "full" -> 1 + PassSteps * (MaxDelta + 1)
    [] t.pass = "live" -> 1 + PassSteps * (MaxDelta + 1 - t.n)
    [] t.pass = "last" -> 0

\* The most steps a call of relocate_to still takes.
StepsToGo(t) ==
  CASE t.at = "guard" -> 11 + PassSteps * (MaxDelta + 2)
    [] t.at = "place" -> 10 + PassSteps * (MaxDelta + 2)
    [] t.at = "create" -> 9 + PassSteps * (MaxDelta + 2)
    [] t.at = "hold" -> 8 + PassSteps * (MaxDelta + 2)
    [] t.at = "make" -> 8 + Ahead(t) + Cardinality(File)
    [] t.at = "read" -> 7 + Ahead(t) + Cardinality(t.left)
    [] t.at = "land" -> 7 + Ahead(t)
    [] t.at = "stopold" -> 7 + PassSteps
    [] t.at = "ident" -> 6
    [] t.at = "setid" -> 5
    [] t.at = "startnew" -> 4
    [] t.at = "removeold" -> 3
    [] t.at = "undo" -> 2
    [] t.at = "again" -> 1
    [] OTHER -> 0

\* No move goes in circles: whatever the nodes refuse, whatever is lost and
\* however fast the players write, each step of a call leaves it fewer steps to
\* its end.  This is what the bound on the deltas is for.
MoveAdvances ==
  [][\A m \in Mover :
       move[m].at \in Guarded \cup {"guard"} /\ move'[m] # move[m]
         => StepsToGo(move'[m]) < StepsToGo(move[m])]_relocateVars

\* Every move ends, however fast the players write: the deltas are bounded.
MoveEnds == \A m \in Mover : []<>(move[m].at \notin Guarded \cup {"guard"})

=============================================================================
