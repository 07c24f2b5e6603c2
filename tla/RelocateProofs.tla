--------------------------- MODULE RelocateProofs ---------------------------
(***************************************************************************)
(* Theorems about moves, and at the end about the index's sweep of the     *)
(* servers it hosts.                                                       *)
(*                                                                         *)
(* A move.  A step is first said field by field, without the EXCEPTs and   *)
(* the CHOOSE of the specification (MoveDoes and the rest of the first     *)
(* part), so that each later proof looks at one field.                     *)
(*                                                                         *)
(* The invariant has three layers.  Shape holds of every behaviour: which  *)
(* move holds which id, what it can still do at its step, and that no copy *)
(* is newer than what players wrote.  Calm holds while no move is blind,   *)
(* nobody starts a server by hand and no start loses its reply: who runs   *)
(* at the address, what a pass has read and what has arrived.  Safe holds  *)
(* while the owner removes nothing either: what a move gives up has a twin.*)
(* The action property FailureRestores has an invariant of its own,        *)
(* UpUntil, beside Shape; MoveAdvances needs only the types.               *)
(***************************************************************************)
EXTENDS Relocate, Sweeps, FiniteSetTheorems, TLAPS

-----------------------------------------------------------------------------
(* The invariant.  Its first half, Shape, holds of every behaviour: who    *)
(* holds which id, and what a move can still do at the step it stands at.  *)

\* The servers a move takes from and to.
Old(m) == server[move[m].old]
New(m) == server[move[m].new]

\* Move m holds its guard.
Held(m) == move[m].at \in Guarded
Passing(m) == move[m].at \in {"make", "read", "land"}

\* An id no server has keeps nothing of the one that had it, and First keeps its
\* address.
Numbered ==
  /\ \A i \in Srv : ~Exists(i) => server[i] = NoServer(i)
  /\ server[First].addr = First

\* A move makes no server before Place, and then one that is not First and not
\* the one it moves.
NewNamed ==
  \A m \in Mover :
    /\ move[m].at \in {"idle", "guard", "place"} => move[m].new = First
    /\ Held(m) /\ move[m].at # "place" => move[m].new # First
    /\ move[m].new # First => move[m].new # move[m].old

\* No two moves make the same server.
NewOwn ==
  \A m, k \in Mover : move[m].new = move[k].new /\ move[m].new # First => m = k

\* What the guard is for.
OneMoves ==
  \A m, k \in Mover : Held(m) /\ Held(k) /\ move[m].old = move[k].old => m = k

\* A move that is not blind moves a server whose own making is over.
Settled ==
  \A m, k \in Mover :
    move[m].at # "idle" /\ ~move[m].blind /\ move[k].new = move[m].old /\ move[k].new # First
      => move[k].at = "moved"

\* A server found stopped is copied once and never started; only a server found
\* running is started again.
Ways ==
  \A m \in Mover :
    /\ move[m].pass # "full"
         => move[m].ran /\ move[m].at \in {"make", "read", "land", "stopold"}
    /\ move[m].at \in {"stopold", "startnew", "again"} => move[m].ran
    /\ move[m].at = "stopold" => move[m].pass # "last"
    /\ move[m].again => move[m].ran /\ move[m].at = "undo"
    /\ move[m].blind => move[m].at # "idle"

\* The new server keeps an address of its own until SetIdentity.
OwnAddress ==
  \A m \in Mover :
    move[m].at \in {"create", "hold", "make", "read", "land", "stopold", "ident", "setid"}
      => New(m).addr = move[m].new

\* Nothing anywhere is newer than what players wrote.
NoneNewer ==
  /\ \A i \in Srv, f \in File : server[i].files[f] <= world[f]
  /\ \A m \in Mover, f \in File : move[m].seen[f] <= world[f]

Shape ==
  /\ Numbered /\ NewNamed /\ NewOwn /\ OneMoves /\ Settled /\ Ways /\ OwnAddress /\ NoneNewer

-----------------------------------------------------------------------------
\* What one call of relocate_to holds.
CallSet ==
  [at : Guarded \cup Ended \cup {"idle", "guard"}, old : Srv, new : Srv,
   ran : BOOLEAN, blind : BOOLEAN, pass : {"full", "live", "last"}, n : 0 .. MaxDelta,
   since : Files, began : Files, seen : Files, left : SUBSET File,
   addr : Srv, again : BOOLEAN]

\* What a node holds of one server.
ServerSet == [st : {"none", "running", "stopped"}, addr : Srv, files : Files]

LEMMA TypeParts ==
  RelocateTypeOK <=>
    /\ server \in [Srv -> ServerSet] /\ world \in Files
    /\ move \in [Mover -> CallSet]
    /\ act \in [Actor -> [at : {"idle", "listed"}, op : Act, on : Srv]]
    /\ lost \subseteq Guarded /\ hand \subseteq Act /\ mishaps \in 0 .. MaxMishap
BY DEF RelocateTypeOK, CallSet, ServerSet

LEMMA NewFilesType == NewFiles \in Files /\ 0 \in 0 .. MaxDelta
BY RelocateAssumption DEF NewFiles, Files

\* A call that holds no copy of anything is a call.
LEMMA CallType ==
  ASSUME NEW at \in Guarded \cup Ended \cup {"idle", "guard"}, NEW old \in Srv, NEW new \in Srv,
         NEW ran \in BOOLEAN, NEW blind \in BOOLEAN
  PROVE  Call(at, old, new, ran, blind) \in CallSet
BY NewFilesType, RelocateAssumption DEF Call, CallSet

LEMMA EndType ==
  ASSUME RelocateTypeOK, NEW m \in Mover, NEW s \in Guarded \cup Ended
  PROVE  /\ End(m, s) \in CallSet
         /\ \A b \in BOOLEAN : Undo(m, b) \in CallSet
         /\ At(m, s) \in CallSet
<1>1. move[m] \in CallSet
  BY TypeParts
<1>2. \A u \in Guarded \cup Ended : End(m, u) \in CallSet
  BY <1>1, CallType DEF End, CallSet
<1>3. At(m, s) \in CallSet
  BY <1>1 DEF At, CallSet
<1>4. End(m, "undo") \in CallSet
  BY <1>2 DEF Guarded
<1>5. \A b \in BOOLEAN : Undo(m, b) \in CallSet
  BY <1>4 DEF Undo, CallSet
<1> QED
  BY <1>2, <1>3, <1>5

-----------------------------------------------------------------------------
(* What a step changes, field by field.                                    *)

OtherMoves(m) == \A k \in Mover \ {m} : move'[k] = move[k]
OtherServers(i) == \A j \in Srv \ {i} : server'[j] = server[j]

\* Move m goes on to step s, for the same servers.
Steps(m, s) ==
  /\ OtherMoves(m) /\ move'[m].at = s
  /\ move'[m].old = move[m].old /\ move'[m].new = move[m].new
  /\ move'[m].ran = move[m].ran /\ move'[m].blind = move[m].blind

\* It keeps what it holds of a copy, or forgets it.
Goes(m, s) ==
  /\ Steps(m, s) /\ move'[m].again = move[m].again
  /\ move'[m].pass = move[m].pass /\ move'[m].since = move[m].since
  /\ move'[m].began = move[m].began /\ move'[m].seen = move[m].seen

Ends(m, s, b) ==
  /\ Steps(m, s) /\ move'[m].again = b
  /\ move'[m].pass = "full" /\ move'[m].seen = NewFiles

\* Server i is started or stopped, vanishes, or appears.
Becomes(i, st) ==
  /\ OtherServers(i)
  /\ server'[i].st = st /\ server'[i].addr = server[i].addr
  /\ server'[i].files = server[i].files
Vanishes(i) == OtherServers(i) /\ server'[i] = NoServer(i)
Appears(i) ==
  /\ ~Exists(i) /\ OtherServers(i)
  /\ server'[i].st = "running" /\ server'[i].addr = i /\ server'[i].files = NewFiles

LEMMA AtFields ==
  ASSUME NEW t \in CallSet, NEW s
  PROVE  LET u == [t EXCEPT !.at = s] IN
         /\ u.at = s /\ u.old = t.old /\ u.new = t.new /\ u.ran = t.ran /\ u.blind = t.blind
         /\ u.pass = t.pass /\ u.seen = t.seen /\ u.since = t.since /\ u.began = t.began
         /\ u.again = t.again
BY DEF CallSet

LEMMA EndSteps ==
  ASSUME move \in [Mover -> CallSet], NEW m \in Mover, NEW s, NEW b \in BOOLEAN
  PROVE  /\ move' = [move EXCEPT ![m] = End(m, s)] => Ends(m, s, FALSE)
         /\ move' = [move EXCEPT ![m] = Undo(m, b)] => Ends(m, "undo", b)
         /\ move' = [move EXCEPT ![m] = At(m, s)] => Goes(m, s)
<1>1. ASSUME NEW t PROVE move' = [move EXCEPT ![m] = t] => OtherMoves(m) /\ move'[m] = t
  BY DEF OtherMoves
<1>2. \A u : /\ End(m, u).at = u /\ End(m, u).old = move[m].old /\ End(m, u).new = move[m].new
             /\ End(m, u).ran = move[m].ran /\ End(m, u).blind = move[m].blind
             /\ End(m, u).pass = "full" /\ End(m, u).seen = NewFiles /\ End(m, u).again = FALSE
  BY DEF End, Call
<1>3. /\ Undo(m, b).at = "undo" /\ Undo(m, b).old = move[m].old /\ Undo(m, b).new = move[m].new
      /\ Undo(m, b).ran = move[m].ran /\ Undo(m, b).blind = move[m].blind
      /\ Undo(m, b).pass = "full" /\ Undo(m, b).seen = NewFiles /\ Undo(m, b).again = b
  BY <1>2 DEF Undo, End, Call
<1>4. /\ At(m, s).at = s /\ At(m, s).old = move[m].old /\ At(m, s).new = move[m].new
      /\ At(m, s).ran = move[m].ran /\ At(m, s).blind = move[m].blind
      /\ At(m, s).pass = move[m].pass /\ At(m, s).seen = move[m].seen
      /\ At(m, s).since = move[m].since /\ At(m, s).began = move[m].began
      /\ At(m, s).again = move[m].again
  <2>1. move[m] \in CallSet
    OBVIOUS
  <2> QED
    BY <2>1, AtFields DEF At
<1>5. move' = [move EXCEPT ![m] = End(m, s)] => Ends(m, s, FALSE)
  <2>1. ASSUME move' = [move EXCEPT ![m] = End(m, s)] PROVE OtherMoves(m) /\ move'[m] = End(m, s)
    BY <2>1 DEF OtherMoves
  <2>2. /\ End(m, s).at = s /\ End(m, s).old = move[m].old /\ End(m, s).new = move[m].new
        /\ End(m, s).ran = move[m].ran /\ End(m, s).blind = move[m].blind
        /\ End(m, s).pass = "full" /\ End(m, s).seen = NewFiles /\ End(m, s).again = FALSE
    BY <1>2
  <2> HIDE DEF End
  <2> QED
    BY <2>1, <2>2 DEF Ends, Steps
<1>6. move' = [move EXCEPT ![m] = Undo(m, b)] => Ends(m, "undo", b)
  BY <1>1, <1>3 DEF Ends, Steps
<1>7. move' = [move EXCEPT ![m] = At(m, s)] => Goes(m, s)
  BY <1>1, <1>4 DEF Goes, Steps
<1> QED
  BY <1>5, <1>6, <1>7

LEMMA ServerSteps ==
  ASSUME server \in [Srv -> ServerSet], NEW i \in Srv, NEW st \in {"none", "running", "stopped"}
  PROVE  /\ Put(i, st) \in [Srv -> ServerSet] /\ (server' = Put(i, st) => Becomes(i, st))
         /\ Gone(i) \in [Srv -> ServerSet] /\ (server' = Gone(i) => Vanishes(i))
<1>1. Put(i, st) \in [Srv -> ServerSet]
  BY DEF Put, ServerSet
<1>2. server' = Put(i, st) => Becomes(i, st)
  BY DEF Put, ServerSet, Becomes, OtherServers
<1>3. Gone(i) \in [Srv -> ServerSet]
  BY NewFilesType DEF Gone, ServerSet, NoServer
<1>4. server' = Gone(i) => Vanishes(i)
  BY DEF Gone, Vanishes, OtherServers
<1> QED
  BY <1>1, <1>2, <1>3, <1>4

-----------------------------------------------------------------------------
(* What each step of a move does, field by field.                          *)

Guards(m) ==
  /\ move[m].at = "guard" /\ server' = server
  /\ \/ Ends(m, "failed", FALSE)
     \/ /\ \A k \in Mover : Held(k) => move[k].old # move[m].old
        /\ OtherMoves(m) /\ move'[m].at = "place" /\ move'[m].again = move[m].again
        /\ move'[m].old = move[m].old /\ move'[m].new = move[m].new
        /\ move'[m].ran = move[m].ran /\ move'[m].pass = move[m].pass
        /\ move'[m].seen = move[m].seen /\ move'[m].blind \in BOOLEAN
        /\ ~move'[m].blind => ~move[m].blind /\ Running(move[m].old) = move[m].ran

Places(m) ==
  /\ move[m].at = "place" /\ server' = server
  /\ \/ Ends(m, "failed", FALSE)
     \/ /\ Exists(move[m].old) /\ move'[m].new \in Unused
        /\ OtherMoves(m) /\ move'[m].at = "create" /\ move'[m].again = move[m].again
        /\ move'[m].old = move[m].old /\ move'[m].ran = move[m].ran
        /\ move'[m].pass = move[m].pass /\ move'[m].seen = move[m].seen
        /\ move'[m].blind = move[m].blind

Creates(m) ==
  /\ move[m].at = "create"
  /\ \/ Goes(m, "hold") /\ Appears(move[m].new)
     \/ Ends(m, "failed", FALSE) /\ (server' = server \/ Appears(move[m].new))

Holds(m) ==
  /\ move[m].at = "hold"
  /\ \/ /\ Exists(move[m].new) /\ Becomes(move[m].new, "stopped")
        /\ Steps(m, "make") /\ move'[m].pass = "full" /\ move'[m].again = move[m].again
        /\ move'[m].seen = move[m].seen
     \/ /\ Ends(m, "undo", FALSE)
        /\ \/ server' = server
           \/ Exists(move[m].new) /\ Becomes(move[m].new, "stopped")

Makes(m) ==
  /\ move[m].at = "make" /\ server' = server
  /\ \/ Ends(m, "undo", move[m].pass = "last")
     \/ /\ Exists(move[m].old) /\ Steps(m, "read")
        /\ move'[m].pass = move[m].pass /\ move'[m].again = move[m].again
        /\ move'[m].since = move[m].since
        /\ move'[m].began = Old(m).files /\ move'[m].seen = Old(m).files

Reads(m) ==
  /\ move[m].at = "read" /\ server' = server
  /\ \E s \in {"read", "land"} : Steps(m, s)
  /\ move'[m].pass = move[m].pass /\ move'[m].again = move[m].again
  /\ move'[m].since = move[m].since /\ move'[m].began = move[m].began
  /\ \A f \in File : move'[m].seen[f] \in {move[m].seen[f], Old(m).files[f]}

\* What a pass that landed leaves of the new server's files.
Lays(m) ==
  LET t == move[m] IN
  /\ Stopped(t.new) /\ OtherServers(t.new)
  /\ server'[t.new].st = server[t.new].st /\ server'[t.new].addr = server[t.new].addr
  /\ server'[t.new].files \in Files
  /\ \A f \in File : server'[t.new].files[f] =
       IF t.pass # "full" /\ t.seen[f] = t.since[f] THEN server[t.new].files[f] ELSE t.seen[f]

Lands(m) ==
  /\ move[m].at = "land"
  /\ \/ Ends(m, "undo", move[m].pass = "last") /\ (server' = server \/ Lays(m))
     \/ Ends(m, "ident", FALSE) /\ Lays(m) /\ (move[m].pass = "last" \/ ~move[m].ran)
     \/ /\ move[m].pass # "last" /\ move[m].ran /\ Lays(m)
        /\ \E s \in {"stopold", "make"} : Steps(m, s)
        /\ move'[m].again = move[m].again /\ move'[m].seen = NewFiles
        /\ move'[m].since = move[m].began
        /\ move'[m].pass \in {"full", "live"}
        /\ move'[m].at = "make" => move'[m].pass = "live"

StopsOld(m) ==
  /\ move[m].at = "stopold"
  /\ \/ /\ Exists(move[m].old) /\ Becomes(move[m].old, "stopped")
        /\ Steps(m, "make") /\ move'[m].pass = "last" /\ move'[m].again = move[m].again
        /\ move'[m].seen = move[m].seen /\ move'[m].since = move[m].since
     \/ /\ Ends(m, "undo", FALSE)
        /\ \/ server' = server
           \/ Exists(move[m].old) /\ Becomes(move[m].old, "stopped") /\ LostAt("stopold")'

Identifies(m) ==
  /\ move[m].at = "ident" /\ server' = server
  /\ \/ Ends(m, "undo", move[m].ran)
     \/ /\ Exists(move[m].old) /\ Steps(m, "setid")
        /\ move'[m].pass = move[m].pass /\ move'[m].again = move[m].again
        /\ move'[m].seen = move[m].seen /\ move'[m].addr = Old(m).addr

\* The new server gets the address the move holds.
Readdresses(m) ==
  LET i == move[m].new IN
  /\ Stopped(i) /\ OtherServers(i) /\ server'[i].addr = move[m].addr
  /\ server'[i].st = server[i].st /\ server'[i].files = server[i].files

SetsIdentity(m) ==
  /\ move[m].at = "setid"
  /\ \/ Goes(m, IF move[m].ran THEN "startnew" ELSE "removeold") /\ Readdresses(m)
     \/ Ends(m, "undo", move[m].ran) /\ (server' = server \/ Readdresses(m))

StartsNew(m) ==
  /\ move[m].at = "startnew"
  /\ \/ /\ Goes(m, "removeold") /\ Stopped(move[m].new) /\ Becomes(move[m].new, "running")
     \/ /\ Ends(m, "undo", TRUE)
        /\ \/ server' = server
           \/ /\ Stopped(move[m].new) /\ Becomes(move[m].new, "running")
              /\ LostAt("startnew")'

RemovesOld(m) ==
  /\ move[m].at = "removeold" /\ Ends(m, "moved", FALSE)
  /\ server' = server \/ (Exists(move[m].old) /\ Vanishes(move[m].old))

RemovesNew(m) ==
  /\ move[m].at = "undo" /\ Ends(m, IF move[m].again THEN "again" ELSE "failed", FALSE)
  /\ server' = server \/ (Exists(move[m].new) /\ Vanishes(move[m].new))

RestartsOld(m) ==
  /\ move[m].at = "again"
  /\ \/ /\ Stopped(move[m].old) /\ Becomes(move[m].old, "running")
        /\ Ends(m, "failed", FALSE) \/ Ends(m, "down", FALSE)
     \/ Ends(m, "down", FALSE) /\ server' = server

Drops(m) ==
  move[m].at \in Guarded \cup {"guard"} /\ Ends(m, "dropped", FALSE) /\ server' = server

MoveDoes(m) ==
  \/ Guards(m) \/ Places(m) \/ Creates(m) \/ Holds(m) \/ Makes(m) \/ Reads(m) \/ Lands(m)
  \/ StopsOld(m) \/ Identifies(m) \/ SetsIdentity(m) \/ StartsNew(m) \/ RemovesOld(m)
  \/ RemovesNew(m) \/ RestartsOld(m) \/ Drops(m)

\* A move changes nothing of the players, the actors and their past, and a lost
\* reply is not forgotten.
Elsewhere ==
  world' = world /\ UNCHANGED <<act, hand>> /\ lost \subseteq lost' /\ lost' \subseteq Guarded
    /\ mishaps' \in 0 .. MaxMishap

\* Whatever becomes of move m and of the servers, the types hold.
LEMMA StepType ==
  ASSUME RelocateTypeOK, NEW m \in Mover, NEW t \in CallSet, move' = [move EXCEPT ![m] = t],
         server' \in [Srv -> ServerSet], Elsewhere
  PROVE  RelocateTypeOK'
<1>1. /\ world \in Files /\ move \in [Mover -> CallSet] /\ hand \subseteq Act
      /\ act \in [Actor -> [at : {"idle", "listed"}, op : Act, on : Srv]]
  BY TypeParts
<1>2. move' \in [Mover -> CallSet]
  BY <1>1
<1>3. /\ world' \in Files /\ hand' \subseteq Act
      /\ act' \in [Actor -> [at : {"idle", "listed"}, op : Act, on : Srv]]
      /\ lost' \subseteq Guarded /\ mishaps' \in 0 .. MaxMishap
  BY <1>1 DEF Elsewhere
<1> QED
  BY <1>2, <1>3 DEF RelocateTypeOK, CallSet, ServerSet

LEMMA AskTypes ==
  ASSUME RelocateTypeOK, NEW m \in Mover, NEW done \in [Srv -> ServerSet],
         NEW good \in CallSet, NEW bad \in CallSet, move[m].at \in Guarded,
         Ask(m, TRUE, done, good, bad)
  PROVE  RelocateTypeOK' /\ Elsewhere
<1>1. Elsewhere
  BY RelocateAssumption DEF Ask, Mishap, Elsewhere, RelocateTypeOK
<1>2. server \in [Srv -> ServerSet]
  BY TypeParts
<1>3. /\ server' = done \/ server' = server
      /\ move' = [move EXCEPT ![m] = good] \/ move' = [move EXCEPT ![m] = bad]
  BY DEF Ask
<1> QED
  BY <1>1, <1>2, <1>3, StepType

LEMMA ThinkDoes ==
  ASSUME RelocateTypeOK, NEW m \in Mover, NEW t \in CallSet, Think(m, t)
  PROVE  /\ RelocateTypeOK' /\ Elsewhere /\ server' = server
         /\ move' = [move EXCEPT ![m] = t] /\ OtherMoves(m) /\ move'[m] = t
<1>1. /\ lost \subseteq Guarded /\ mishaps \in 0 .. MaxMishap
      /\ server \in [Srv -> ServerSet] /\ move \in [Mover -> CallSet]
  BY TypeParts
<1>2. Elsewhere /\ server' = server /\ move' = [move EXCEPT ![m] = t]
  BY <1>1 DEF Think, Elsewhere
<1>3. OtherMoves(m) /\ move'[m] = t
  BY <1>1, <1>2 DEF OtherMoves
<1>4. RelocateTypeOK'
  BY <1>1, <1>2, StepType
<1> QED
  BY <1>2, <1>3, <1>4

LEMMA GuardsDoes ==
  ASSUME RelocateTypeOK, NEW m \in Mover, TakeGuard(m)
  PROVE  RelocateTypeOK' /\ Elsewhere /\ Guards(m)
<1>1. move \in [Mover -> CallSet] /\ move[m] \in CallSet /\ move[m].at = "guard"
  BY TypeParts DEF TakeGuard
<1>2. CASE move[m].old \in Moving
  <2>1. End(m, "failed") \in CallSet
    BY EndType DEF Ended
  <2>2. Think(m, End(m, "failed"))
    BY <1>2 DEF TakeGuard
  <2>3. RelocateTypeOK' /\ Elsewhere /\ server' = server /\ Ends(m, "failed", FALSE)
    BY <1>1, <2>1, <2>2, ThinkDoes, EndSteps
  <2> QED
    BY <1>1, <2>3 DEF Guards
<1>3. CASE move[m].old \notin Moving
  <2> DEFINE t == [At(m, "place") EXCEPT !.blind = @ \/ Running(move[m].old) # move[m].ran]
  <2>1. t \in CallSet
    BY <1>1 DEF At, CallSet, Guarded
  <2>2. /\ t.at = "place" /\ t.again = move[m].again /\ t.old = move[m].old /\ t.new = move[m].new
        /\ t.ran = move[m].ran /\ t.pass = move[m].pass /\ t.seen = move[m].seen
        /\ t.blind = (move[m].blind \/ Running(move[m].old) # move[m].ran)
    BY <1>1 DEF At, CallSet
  <2>3. Think(m, t)
    BY <1>3 DEF TakeGuard
  <2> HIDE DEF t
  <2>4. RelocateTypeOK' /\ Elsewhere /\ server' = server /\ OtherMoves(m) /\ move'[m] = t
    BY <2>1, <2>3, ThinkDoes
  <2>5. \A k \in Mover : Held(k) => move[k].old # move[m].old
    BY <1>3 DEF Moving, Held
  <2>6. move[m].ran \in BOOLEAN /\ move[m].blind \in BOOLEAN /\ Running(move[m].old) \in BOOLEAN
    BY <1>1 DEF CallSet, Running
  <2>7. t.blind \in BOOLEAN /\ (~t.blind => ~move[m].blind /\ Running(move[m].old) = move[m].ran)
    BY <2>2, <2>6
  <2> QED
    BY <1>1, <2>2, <2>4, <2>5, <2>7 DEF Guards
<1> QED
  BY <1>2, <1>3

LEMMA PlacesDoes ==
  ASSUME RelocateTypeOK, NEW m \in Mover, Place(m)
  PROVE  RelocateTypeOK' /\ Elsewhere /\ Places(m)
<1>1. move \in [Mover -> CallSet] /\ move[m] \in CallSet /\ move[m].at = "place"
  BY TypeParts DEF Place
<1>2. CASE Think(m, End(m, "failed"))
  <2>1. End(m, "failed") \in CallSet
    BY EndType DEF Ended
  <2>3. RelocateTypeOK' /\ Elsewhere /\ server' = server /\ Ends(m, "failed", FALSE)
    BY <1>1, <1>2, <2>1, ThinkDoes, EndSteps
  <2> QED
    BY <1>1, <2>3 DEF Places
<1>3. CASE /\ Exists(move[m].old) /\ Unused # {}
           /\ Think(m, [move[m] EXCEPT !.at = "create", !.new = CHOOSE i \in Unused : TRUE])
  <2> DEFINE i == CHOOSE j \in Unused : TRUE
             t == [move[m] EXCEPT !.at = "create", !.new = i]
  <2>1. i \in Unused /\ i \in Srv
    BY <1>3 DEF Unused
  <2> HIDE DEF i
  <2>2. t \in CallSet
    BY <1>1, <2>1 DEF CallSet, Guarded
  <2>3. /\ t.at = "create" /\ t.again = move[m].again /\ t.old = move[m].old /\ t.new = i
        /\ t.ran = move[m].ran /\ t.pass = move[m].pass /\ t.seen = move[m].seen
        /\ t.blind = move[m].blind
    BY <1>1 DEF CallSet
  <2>4. Think(m, t)
    BY <1>3 DEF i
  <2> HIDE DEF t
  <2>5. RelocateTypeOK' /\ Elsewhere /\ server' = server /\ OtherMoves(m) /\ move'[m] = t
    BY <2>2, <2>4, ThinkDoes
  <2> QED
    BY <1>1, <1>3, <2>1, <2>3, <2>5 DEF Places
<1> QED
  BY <1>2, <1>3 DEF Place

LEMMA CreatesDoes ==
  ASSUME RelocateTypeOK, NEW m \in Mover, CreateNew(m)
  PROVE  RelocateTypeOK' /\ Elsewhere /\ Creates(m)
<1> DEFINE i == move[m].new
           r == [st |-> "running", addr |-> i, files |-> NewFiles]
           done == [server EXCEPT ![i] = r]
<1>1. /\ move \in [Mover -> CallSet] /\ move[m] \in CallSet /\ move[m].at = "create"
      /\ server \in [Srv -> ServerSet] /\ i \in Srv
  BY TypeParts DEF CreateNew, CallSet
<1>2. done \in [Srv -> ServerSet]
  BY <1>1, NewFilesType DEF ServerSet
<1>3. At(m, "hold") \in CallSet /\ End(m, "failed") \in CallSet /\ "create" \in Guarded
  BY EndType DEF Ended, Guarded
<1>4. Ask(m, TRUE, done, At(m, "hold"), End(m, "failed"))
  BY DEF CreateNew, Ask
<1>5. \/ ~Exists(i) /\ server' = done /\ move' = [move EXCEPT ![m] = At(m, "hold")]
      \/ /\ move' = [move EXCEPT ![m] = End(m, "failed")]
         /\ server' = server \/ (~Exists(i) /\ server' = done)
  BY DEF CreateNew, Ask
<1>6. server' = done /\ ~Exists(i) => Appears(i)
  BY <1>1 DEF Appears, OtherServers
<1> HIDE DEF done, i
<1>7. RelocateTypeOK' /\ Elsewhere
  BY <1>1, <1>2, <1>3, <1>4, AskTypes
<1>8. /\ move' = [move EXCEPT ![m] = End(m, "failed")] => Ends(m, "failed", FALSE)
      /\ move' = [move EXCEPT ![m] = At(m, "hold")] => Goes(m, "hold")
  BY <1>1, EndSteps
<1> QED
  BY <1>1, <1>5, <1>6, <1>7, <1>8 DEF Creates, i

LEMMA HoldsDoes ==
  ASSUME RelocateTypeOK, NEW m \in Mover, Hold(m)
  PROVE  RelocateTypeOK' /\ Elsewhere /\ Holds(m)
<1> DEFINE i == move[m].new
           done == Put(i, "stopped")
           t == [move[m] EXCEPT !.at = "make", !.pass = "full"]
<1>1. /\ move \in [Mover -> CallSet] /\ move[m] \in CallSet /\ move[m].at = "hold"
      /\ server \in [Srv -> ServerSet] /\ i \in Srv
  BY TypeParts DEF Hold, CallSet
<1>2. done \in [Srv -> ServerSet] /\ (server' = done => Becomes(i, "stopped"))
  BY <1>1, ServerSteps
<1>3. Undo(m, FALSE) \in CallSet /\ "hold" \in Guarded /\ t \in CallSet
  BY <1>1, EndType DEF Guarded, CallSet
<1>4. /\ t.at = "make" /\ t.pass = "full" /\ t.again = move[m].again /\ t.old = move[m].old
      /\ t.new = i /\ t.ran = move[m].ran /\ t.blind = move[m].blind /\ t.seen = move[m].seen
  BY <1>1 DEF CallSet
<1>5. Ask(m, TRUE, done, t, Undo(m, FALSE))
  BY DEF Hold, Ask
<1>6. \/ Exists(i) /\ server' = done /\ move' = [move EXCEPT ![m] = t]
      \/ /\ move' = [move EXCEPT ![m] = Undo(m, FALSE)]
         /\ server' = server \/ (Exists(i) /\ server' = done)
  BY DEF Hold, Ask
<1> HIDE DEF done, i, t
<1>7. RelocateTypeOK' /\ Elsewhere
  BY <1>1, <1>2, <1>3, <1>5, AskTypes
<1>8. move' = [move EXCEPT ![m] = t] => OtherMoves(m) /\ move'[m] = t
  BY <1>1 DEF OtherMoves
<1>9. move' = [move EXCEPT ![m] = Undo(m, FALSE)] => Ends(m, "undo", FALSE)
  BY <1>1, EndSteps
<1> QED
  BY <1>1, <1>2, <1>4, <1>6, <1>7, <1>8, <1>9 DEF Holds, Steps, i

LEMMA MakesDoes ==
  ASSUME RelocateTypeOK, NEW m \in Mover, MakeCopy(m)
  PROVE  RelocateTypeOK' /\ Elsewhere /\ Makes(m)
<1>1. /\ move \in [Mover -> CallSet] /\ move[m] \in CallSet /\ move[m].at = "make"
      /\ server \in [Srv -> ServerSet] /\ (move[m].pass = "last") \in BOOLEAN
  BY TypeParts DEF MakeCopy
<1>2. CASE Think(m, Undo(m, move[m].pass = "last"))
  <2>1. Undo(m, move[m].pass = "last") \in CallSet
    BY <1>1, EndType DEF Guarded
  <2>2. /\ RelocateTypeOK' /\ Elsewhere /\ server' = server
        /\ move' = [move EXCEPT ![m] = Undo(m, move[m].pass = "last")]
    BY <1>2, <2>1, ThinkDoes
  <2>3. Ends(m, "undo", move[m].pass = "last")
    BY <1>1, <2>2, EndSteps
  <2> QED
    BY <1>1, <2>2, <2>3 DEF Makes
<1>3. CASE /\ Exists(move[m].old)
           /\ Think(m, [move[m] EXCEPT !.at = "read", !.began = server[move[m].old].files,
                                       !.seen = server[move[m].old].files, !.left = File])
  <2> DEFINE now == server[move[m].old].files
             t == [move[m] EXCEPT !.at = "read", !.began = now, !.seen = now, !.left = File]
  <2>1. now \in Files
    BY <1>1 DEF CallSet, ServerSet
  <2> HIDE DEF now
  <2>2. t \in CallSet
    BY <1>1, <2>1 DEF CallSet, Guarded
  <2>3. /\ t.at = "read" /\ t.again = move[m].again /\ t.old = move[m].old /\ t.new = move[m].new
        /\ t.ran = move[m].ran /\ t.pass = move[m].pass /\ t.seen = now /\ t.began = now
        /\ t.blind = move[m].blind /\ t.since = move[m].since
    BY <1>1 DEF CallSet
  <2>4. Think(m, t)
    BY <1>3 DEF now
  <2> HIDE DEF t
  <2>5. RelocateTypeOK' /\ Elsewhere /\ server' = server /\ OtherMoves(m) /\ move'[m] = t
    BY <2>2, <2>4, ThinkDoes
  <2> QED
    BY <1>1, <1>3, <2>3, <2>5 DEF Makes, Steps, Old, now
<1> QED
  BY <1>2, <1>3 DEF MakeCopy

LEMMA ReadsDoes ==
  ASSUME RelocateTypeOK, NEW m \in Mover, Read(m)
  PROVE  RelocateTypeOK' /\ Elsewhere /\ Reads(m)
<1>1. /\ move \in [Mover -> CallSet] /\ move[m] \in CallSet /\ move[m].at = "read"
      /\ server \in [Srv -> ServerSet]
  BY TypeParts DEF Read
<1>2. PICK f \in move[m].left :
        Think(m, [move[m] EXCEPT
                   !.at = IF move[m].left \ {f} = {} THEN "land" ELSE "read",
                   !.seen[f] = server[move[m].old].files[f], !.left = move[m].left \ {f}])
  BY DEF Read
<1> DEFINE s == IF move[m].left \ {f} = {} THEN "land" ELSE "read"
           got == [move[m].seen EXCEPT ![f] = server[move[m].old].files[f]]
           rest == move[m].left \ {f}
           t == [move[m] EXCEPT !.at = s, !.seen = got, !.left = rest]
<1>3. got \in Files /\ f \in File /\ rest \in SUBSET File /\ s \in {"read", "land"}
  BY <1>1 DEF CallSet, ServerSet, Files
<1>4. \A g \in File : got[g] \in {move[m].seen[g], Old(m).files[g]}
  BY <1>1, <1>3 DEF CallSet, Files, Old
<1>5. Think(m, t)
  BY <1>2
<1> HIDE DEF s, got, rest
<1>6. t \in CallSet
  BY <1>1, <1>3 DEF CallSet, Guarded
<1>7. /\ t.at = s /\ t.again = move[m].again /\ t.old = move[m].old /\ t.new = move[m].new
      /\ t.ran = move[m].ran /\ t.pass = move[m].pass /\ t.seen = got /\ t.began = move[m].began
      /\ t.blind = move[m].blind /\ t.since = move[m].since
  BY <1>1 DEF CallSet
<1> HIDE DEF t
<1>8. RelocateTypeOK' /\ Elsewhere /\ server' = server /\ OtherMoves(m) /\ move'[m] = t
  BY <1>5, <1>6, ThinkDoes
<1> QED
  BY <1>1, <1>3, <1>4, <1>7, <1>8 DEF Reads, Steps

\* What AfterPass makes of a move whose pass landed.
LEMMA AfterPassDoes ==
  ASSUME RelocateTypeOK, NEW m \in Mover, NEW g \in AfterPass(m)
  PROVE  /\ g \in CallSet
         /\ \/ g = End(m, "ident") /\ (move[m].pass = "last" \/ ~move[m].ran)
            \/ /\ move[m].pass # "last" /\ move[m].ran
               /\ g.at \in {"stopold", "make"} /\ g.again = move[m].again
               /\ g.old = move[m].old /\ g.new = move[m].new
               /\ g.ran = move[m].ran /\ g.blind = move[m].blind
               /\ g.seen = NewFiles /\ g.since = move[m].began
               /\ g.pass \in {"full", "live"} /\ (g.at = "make" => g.pass = "live")
<1>1. move[m] \in CallSet
  BY TypeParts
<1> DEFINE t == Onward(m)
           go == [t EXCEPT !.at = "stopold", !.n = 0]
           one == [t EXCEPT !.at = "make", !.pass = "live", !.n = 1]
           more == [t EXCEPT !.at = "make", !.n = t.n + 1]
<1>2. t \in CallSet
  BY <1>1, NewFilesType DEF Onward, CallSet
<1>3. /\ t.pass = move[m].pass /\ t.ran = move[m].ran /\ t.again = move[m].again
      /\ t.old = move[m].old /\ t.new = move[m].new /\ t.blind = move[m].blind
      /\ t.seen = NewFiles /\ t.since = move[m].began
  BY <1>1 DEF Onward, CallSet
<1> HIDE DEF t
<1>4. CASE t.pass = "last" \/ ~t.ran
  <2>1. g = End(m, "ident")
    BY <1>4 DEF AfterPass, t
  <2>2. "ident" \in Guarded \cup Ended
    BY DEF Guarded
  <2> QED
    BY <1>3, <1>4, <2>1, <2>2, EndType
<1>5. CASE ~(t.pass = "last" \/ ~t.ran)
  <2>1. \/ g = go
        \/ t.pass = "full" /\ MaxDelta # 0 /\ g = one
        \/ t.pass # "full" /\ t.n < MaxDelta /\ g = more
    BY <1>5 DEF AfterPass, t
  <2>2. t.n \in 0 .. MaxDelta /\ MaxDelta \in Nat /\ t.pass \in {"full", "live", "last"}
    BY <1>2, RelocateAssumption DEF CallSet
  <2>3. CASE g = go
    <3>1. go \in CallSet
      BY <1>2, NewFilesType DEF CallSet, Guarded
    <3>2. /\ g.at = "stopold" /\ g.again = t.again /\ g.old = t.old /\ g.new = t.new
          /\ g.ran = t.ran /\ g.blind = t.blind /\ g.seen = t.seen /\ g.since = t.since
          /\ g.pass = t.pass
      BY <1>2, <2>3 DEF CallSet
    <3> HIDE DEF go
    <3> QED
      BY <1>3, <1>5, <2>2, <2>3, <3>1, <3>2
  <2>4. CASE t.pass = "full" /\ MaxDelta # 0 /\ g = one
    <3>1. 1 \in 0 .. MaxDelta
      BY <2>2, <2>4
    <3>2. one \in CallSet
      BY <1>2, <3>1 DEF CallSet, Guarded
    <3>3. /\ g.at = "make" /\ g.again = t.again /\ g.old = t.old /\ g.new = t.new
          /\ g.ran = t.ran /\ g.blind = t.blind /\ g.seen = t.seen /\ g.since = t.since
          /\ g.pass = "live"
      BY <1>2, <2>4 DEF CallSet
    <3> HIDE DEF one
    <3> QED
      BY <1>3, <1>5, <2>2, <2>4, <3>2, <3>3
  <2>5. CASE t.pass # "full" /\ t.n < MaxDelta /\ g = more
    <3>1. t.n + 1 \in 0 .. MaxDelta
      BY <2>2, <2>5
    <3>2. g \in CallSet
      BY <1>2, <2>5, <3>1 DEF CallSet, Guarded
    <3>3. /\ g.at = "make" /\ g.again = t.again /\ g.old = t.old /\ g.new = t.new
          /\ g.ran = t.ran /\ g.blind = t.blind /\ g.seen = t.seen /\ g.since = t.since
          /\ g.pass = t.pass
      BY <1>2, <2>5 DEF CallSet
    <3> HIDE DEF more
    <3> QED
      BY <1>3, <1>5, <2>2, <2>5, <3>2, <3>3
  <2> HIDE DEF go, one, more
  <2> QED
    BY <2>1, <2>3, <2>4, <2>5
<1> QED
  BY <1>4, <1>5

LEMMA LandsDoes ==
  ASSUME RelocateTypeOK, NEW m \in Mover, Land(m)
  PROVE  RelocateTypeOK' /\ Elsewhere /\ Lands(m)
<1> DEFINE i == move[m].new
           laid == Laid(m)
           last == move[m].pass = "last"
           done == [server EXCEPT ![i].files = laid]
<1>1. /\ move \in [Mover -> CallSet] /\ move[m] \in CallSet /\ move[m].at = "land"
      /\ server \in [Srv -> ServerSet] /\ i \in Srv /\ last \in BOOLEAN
  BY TypeParts DEF Land, CallSet
<1>2. laid \in Files
  BY <1>1 DEF Laid, CallSet, ServerSet, Files
<1>3. \A f \in File : laid[f] =
        IF move[m].pass # "full" /\ move[m].seen[f] = move[m].since[f]
        THEN server[i].files[f] ELSE move[m].seen[f]
  BY DEF Laid
<1>4. PICK g \in AfterPass(m) : Ask(m, Stopped(i), done, g, Undo(m, last))
  BY DEF Land
<1> HIDE DEF laid
<1>5. done \in [Srv -> ServerSet]
  BY <1>1, <1>2 DEF ServerSet
<1>6. server' = done => OtherServers(i) /\ server'[i].st = server[i].st
                        /\ server'[i].addr = server[i].addr /\ server'[i].files = laid
  BY <1>1 DEF ServerSet, OtherServers
<1>7. g \in CallSet /\ Undo(m, last) \in CallSet /\ "land" \in Guarded
  BY <1>1, AfterPassDoes, EndType DEF Guarded
<1>8. Ask(m, TRUE, done, g, Undo(m, last))
  BY <1>4 DEF Ask
<1>9. \/ Stopped(i) /\ server' = done /\ move' = [move EXCEPT ![m] = g]
      \/ /\ move' = [move EXCEPT ![m] = Undo(m, last)]
         /\ server' = server \/ (Stopped(i) /\ server' = done)
  BY <1>4 DEF Ask
<1> HIDE DEF done, i, last
<1>10. RelocateTypeOK' /\ Elsewhere
  BY <1>1, <1>5, <1>7, <1>8, AskTypes
<1>11. Stopped(i) /\ server' = done => Lays(m)
  BY <1>2, <1>3, <1>6 DEF Lays, i
<1>12. CASE move' = [move EXCEPT ![m] = g] /\ Lays(m)
  <2>1. OtherMoves(m) /\ move'[m] = g
    BY <1>1, <1>12 DEF OtherMoves
  <2>2. CASE g = End(m, "ident") /\ (move[m].pass = "last" \/ ~move[m].ran)
    <3>1. Ends(m, "ident", FALSE)
      BY <1>1, <1>12, <2>2, EndSteps
    <3> QED
      BY <1>1, <1>10, <1>12, <2>2, <3>1 DEF Lands
  <2>3. CASE /\ move[m].pass # "last" /\ move[m].ran
             /\ g.at \in {"stopold", "make"} /\ g.again = move[m].again
             /\ g.old = move[m].old /\ g.new = move[m].new
             /\ g.ran = move[m].ran /\ g.blind = move[m].blind
             /\ g.seen = NewFiles /\ g.since = move[m].began
             /\ g.pass \in {"full", "live"} /\ (g.at = "make" => g.pass = "live")
    BY <1>1, <1>10, <1>12, <2>1, <2>3 DEF Lands, Steps
  <2> QED
    BY <2>2, <2>3, AfterPassDoes
<1>13. CASE move' = [move EXCEPT ![m] = Undo(m, last)] /\ (server' = server \/ Lays(m))
  <2>1. Ends(m, "undo", last)
    BY <1>1, <1>13, EndSteps
  <2> QED
    BY <1>1, <1>10, <1>13, <2>1 DEF Lands, last
<1> QED
  BY <1>9, <1>11, <1>12, <1>13

LEMMA StopsOldDoes ==
  ASSUME RelocateTypeOK, NEW m \in Mover, StopOld(m)
  PROVE  RelocateTypeOK' /\ Elsewhere /\ StopsOld(m)
<1> DEFINE i == move[m].old
           done == Put(i, "stopped")
           t == [move[m] EXCEPT !.at = "make", !.pass = "last"]
<1>1. /\ move \in [Mover -> CallSet] /\ move[m] \in CallSet /\ move[m].at = "stopold"
      /\ server \in [Srv -> ServerSet] /\ i \in Srv
  BY TypeParts DEF StopOld, CallSet
<1>2. done \in [Srv -> ServerSet] /\ (server' = done => Becomes(i, "stopped"))
  BY <1>1, ServerSteps
<1>3. Undo(m, FALSE) \in CallSet /\ "stopold" \in Guarded /\ t \in CallSet
  BY <1>1, EndType DEF Guarded, CallSet
<1>4. /\ t.at = "make" /\ t.pass = "last" /\ t.again = move[m].again /\ t.old = i
      /\ t.new = move[m].new /\ t.ran = move[m].ran /\ t.blind = move[m].blind
      /\ t.seen = move[m].seen /\ t.since = move[m].since
  BY <1>1 DEF CallSet
<1>5. Ask(m, TRUE, done, t, Undo(m, FALSE))
  BY DEF StopOld, Ask
<1>6. \/ Exists(i) /\ server' = done /\ move' = [move EXCEPT ![m] = t]
      \/ /\ move' = [move EXCEPT ![m] = Undo(m, FALSE)]
         /\ server' = server \/ (Exists(i) /\ server' = done /\ move[m].at \in lost')
  BY DEF StopOld, Ask
<1> HIDE DEF done, i, t
<1>7. RelocateTypeOK' /\ Elsewhere
  BY <1>1, <1>2, <1>3, <1>5, AskTypes
<1>8. move' = [move EXCEPT ![m] = t] => OtherMoves(m) /\ move'[m] = t
  BY <1>1 DEF OtherMoves
<1>9. move' = [move EXCEPT ![m] = Undo(m, FALSE)] => Ends(m, "undo", FALSE)
  BY <1>1, EndSteps
<1>10. "stopold" \in lost' => LostAt("stopold")'
  BY DEF LostAt
<1> QED
  BY <1>1, <1>2, <1>4, <1>6, <1>7, <1>8, <1>9, <1>10 DEF StopsOld, Steps, i

LEMMA IdentifiesDoes ==
  ASSUME RelocateTypeOK, NEW m \in Mover, Identity(m)
  PROVE  RelocateTypeOK' /\ Elsewhere /\ Identifies(m)
<1> DEFINE ran == move[m].ran
           a == server[move[m].old].addr
           t == [move[m] EXCEPT !.at = "setid", !.addr = a]
<1>1. /\ move \in [Mover -> CallSet] /\ move[m] \in CallSet /\ move[m].at = "ident"
      /\ server \in [Srv -> ServerSet] /\ ran \in BOOLEAN /\ a \in Srv
  BY TypeParts DEF Identity, CallSet, ServerSet
<1> HIDE DEF ran, a
<1>2. CASE Think(m, Undo(m, ran))
  <2>1. Undo(m, ran) \in CallSet
    BY <1>1, EndType DEF Guarded
  <2>2. /\ RelocateTypeOK' /\ Elsewhere /\ server' = server
        /\ move' = [move EXCEPT ![m] = Undo(m, ran)]
    BY <1>2, <2>1, ThinkDoes
  <2>3. Ends(m, "undo", ran)
    BY <1>1, <2>2, EndSteps
  <2> QED
    BY <1>1, <2>2, <2>3 DEF Identifies, ran
<1>3. CASE Exists(move[m].old) /\ Think(m, t)
  <2>1. t \in CallSet
    BY <1>1 DEF CallSet, Guarded
  <2>2. /\ t.at = "setid" /\ t.again = move[m].again /\ t.old = move[m].old /\ t.new = move[m].new
        /\ t.ran = move[m].ran /\ t.pass = move[m].pass /\ t.seen = move[m].seen
        /\ t.blind = move[m].blind /\ t.addr = a
    BY <1>1 DEF CallSet
  <2> HIDE DEF t
  <2>3. RelocateTypeOK' /\ Elsewhere /\ server' = server /\ OtherMoves(m) /\ move'[m] = t
    BY <1>3, <2>1, ThinkDoes
  <2> QED
    BY <1>1, <1>3, <2>2, <2>3 DEF Identifies, Steps, Old, a
<1> QED
  BY <1>2, <1>3 DEF Identity, ran, a

LEMMA SetsIdentityDoes ==
  ASSUME RelocateTypeOK, NEW m \in Mover, SetIdentity(m)
  PROVE  RelocateTypeOK' /\ Elsewhere /\ SetsIdentity(m)
<1> DEFINE i == move[m].new
           a == move[m].addr
           ran == move[m].ran
           s == IF ran THEN "startnew" ELSE "removeold"
           done == [server EXCEPT ![i].addr = a]
<1>1. /\ move \in [Mover -> CallSet] /\ move[m] \in CallSet /\ move[m].at = "setid"
      /\ server \in [Srv -> ServerSet] /\ i \in Srv /\ a \in Srv /\ ran \in BOOLEAN
  BY TypeParts DEF SetIdentity, CallSet
<1>2. s \in Guarded
  BY DEF Guarded
<1>3. Ask(m, TRUE, done, At(m, s), Undo(m, ran))
  BY DEF SetIdentity, Ask
<1>4. \/ Stopped(i) /\ server' = done /\ move' = [move EXCEPT ![m] = At(m, s)]
      \/ /\ move' = [move EXCEPT ![m] = Undo(m, ran)]
         /\ server' = server \/ (Stopped(i) /\ server' = done)
  BY DEF SetIdentity, Ask
<1> HIDE DEF i, a, ran, s
<1>5. done \in [Srv -> ServerSet]
  BY <1>1 DEF ServerSet
<1>6. server' = done => OtherServers(i) /\ server'[i].st = server[i].st
                        /\ server'[i].addr = a /\ server'[i].files = server[i].files
  BY <1>1 DEF ServerSet, OtherServers
<1>7. At(m, s) \in CallSet /\ Undo(m, ran) \in CallSet /\ "setid" \in Guarded
  BY <1>1, <1>2, EndType DEF Guarded
<1> HIDE DEF done
<1>8. RelocateTypeOK' /\ Elsewhere
  BY <1>1, <1>3, <1>5, <1>7, AskTypes
<1>9. Stopped(i) /\ server' = done => Readdresses(m)
  BY <1>6 DEF Readdresses, i, a
<1>10. /\ move' = [move EXCEPT ![m] = At(m, s)] => Goes(m, s)
       /\ move' = [move EXCEPT ![m] = Undo(m, ran)] => Ends(m, "undo", ran)
  BY <1>1, EndSteps
<1> QED
  BY <1>1, <1>4, <1>8, <1>9, <1>10 DEF SetsIdentity, s, ran

LEMMA StartsNewDoes ==
  ASSUME RelocateTypeOK, NEW m \in Mover, StartNew(m)
  PROVE  RelocateTypeOK' /\ Elsewhere /\ StartsNew(m)
<1> DEFINE i == move[m].new
           done == Put(i, "running")
<1>1. /\ move \in [Mover -> CallSet] /\ move[m] \in CallSet /\ move[m].at = "startnew"
      /\ server \in [Srv -> ServerSet] /\ i \in Srv
  BY TypeParts DEF StartNew, CallSet
<1>2. done \in [Srv -> ServerSet] /\ (server' = done => Becomes(i, "running"))
  BY <1>1, ServerSteps
<1>3. At(m, "removeold") \in CallSet /\ Undo(m, TRUE) \in CallSet /\ "startnew" \in Guarded
  BY EndType DEF Guarded
<1>4. Ask(m, TRUE, done, At(m, "removeold"), Undo(m, TRUE))
  BY DEF StartNew, Ask
<1>5. \/ Stopped(i) /\ server' = done /\ move' = [move EXCEPT ![m] = At(m, "removeold")]
      \/ /\ move' = [move EXCEPT ![m] = Undo(m, TRUE)]
         /\ server' = server \/ (Stopped(i) /\ server' = done /\ move[m].at \in lost')
  BY DEF StartNew, Ask
<1> HIDE DEF done, i
<1>6. RelocateTypeOK' /\ Elsewhere
  BY <1>1, <1>2, <1>3, <1>4, AskTypes
<1>7. /\ move' = [move EXCEPT ![m] = At(m, "removeold")] => Goes(m, "removeold")
      /\ move' = [move EXCEPT ![m] = Undo(m, TRUE)] => Ends(m, "undo", TRUE)
  BY <1>1, EndSteps
<1>8. "startnew" \in lost' => LostAt("startnew")'
  BY DEF LostAt
<1> QED
  BY <1>1, <1>2, <1>5, <1>6, <1>7, <1>8 DEF StartsNew, i

LEMMA RemovesOldDoes ==
  ASSUME RelocateTypeOK, NEW m \in Mover, RemoveOld(m)
  PROVE  RelocateTypeOK' /\ Elsewhere /\ RemovesOld(m)
<1> DEFINE i == move[m].old
           done == Gone(i)
<1>1. /\ move \in [Mover -> CallSet] /\ move[m] \in CallSet /\ move[m].at = "removeold"
      /\ server \in [Srv -> ServerSet] /\ i \in Srv
  BY TypeParts DEF RemoveOld, CallSet
<1>2. done \in [Srv -> ServerSet] /\ (server' = done => Vanishes(i))
  BY <1>1, ServerSteps
<1>3. End(m, "moved") \in CallSet /\ "removeold" \in Guarded
  BY EndType DEF Ended, Guarded
<1>4. Ask(m, TRUE, done, End(m, "moved"), End(m, "moved"))
  BY DEF RemoveOld, Ask
<1>5. /\ move' = [move EXCEPT ![m] = End(m, "moved")]
      /\ server' = server \/ (Exists(i) /\ server' = done)
  BY DEF RemoveOld, Ask
<1> HIDE DEF done, i
<1>6. RelocateTypeOK' /\ Elsewhere
  BY <1>1, <1>2, <1>3, <1>4, AskTypes
<1>7. Ends(m, "moved", FALSE)
  BY <1>1, <1>5, EndSteps
<1> QED
  BY <1>1, <1>2, <1>5, <1>6, <1>7 DEF RemovesOld, i

LEMMA RemovesNewDoes ==
  ASSUME RelocateTypeOK, NEW m \in Mover, RemoveNew(m)
  PROVE  RelocateTypeOK' /\ Elsewhere /\ RemovesNew(m)
<1> DEFINE i == move[m].new
           done == Gone(i)
           s == IF move[m].again THEN "again" ELSE "failed"
<1>1. /\ move \in [Mover -> CallSet] /\ move[m] \in CallSet /\ move[m].at = "undo"
      /\ server \in [Srv -> ServerSet] /\ i \in Srv
  BY TypeParts DEF RemoveNew, CallSet
<1>2. done \in [Srv -> ServerSet] /\ (server' = done => Vanishes(i))
  BY <1>1, ServerSteps
<1>3. End(m, s) \in CallSet /\ "undo" \in Guarded
  BY EndType DEF Ended, Guarded
<1>4. Ask(m, TRUE, done, End(m, s), End(m, s))
  BY DEF RemoveNew, Ask
<1>5. /\ move' = [move EXCEPT ![m] = End(m, s)]
      /\ server' = server \/ (Exists(i) /\ server' = done)
  BY DEF RemoveNew, Ask
<1> HIDE DEF done, i, s
<1>6. RelocateTypeOK' /\ Elsewhere
  BY <1>1, <1>2, <1>3, <1>4, AskTypes
<1>7. Ends(m, s, FALSE)
  BY <1>1, <1>5, EndSteps
<1> QED
  BY <1>1, <1>2, <1>5, <1>6, <1>7 DEF RemovesNew, i, s

LEMMA RestartsOldDoes ==
  ASSUME RelocateTypeOK, NEW m \in Mover, RestartOld(m)
  PROVE  RelocateTypeOK' /\ Elsewhere /\ RestartsOld(m)
<1> DEFINE i == move[m].old
           done == Put(i, "running")
<1>1. /\ move \in [Mover -> CallSet] /\ move[m] \in CallSet /\ move[m].at = "again"
      /\ server \in [Srv -> ServerSet] /\ i \in Srv
  BY TypeParts DEF RestartOld, CallSet
<1>2. done \in [Srv -> ServerSet] /\ (server' = done => Becomes(i, "running"))
  BY <1>1, ServerSteps
<1>3. End(m, "failed") \in CallSet /\ End(m, "down") \in CallSet /\ "again" \in Guarded
  BY EndType DEF Ended, Guarded
<1>4. Ask(m, TRUE, done, End(m, "failed"), End(m, "down"))
  BY DEF RestartOld, Ask
<1>5. \/ Stopped(i) /\ server' = done /\ move' = [move EXCEPT ![m] = End(m, "failed")]
      \/ /\ move' = [move EXCEPT ![m] = End(m, "down")]
         /\ server' = server \/ (Stopped(i) /\ server' = done)
  BY DEF RestartOld, Ask
<1> HIDE DEF done, i
<1>6. RelocateTypeOK' /\ Elsewhere
  BY <1>1, <1>2, <1>3, <1>4, AskTypes
<1>7. /\ move' = [move EXCEPT ![m] = End(m, "failed")] => Ends(m, "failed", FALSE)
      /\ move' = [move EXCEPT ![m] = End(m, "down")] => Ends(m, "down", FALSE)
  BY <1>1, EndSteps
<1> QED
  BY <1>1, <1>2, <1>5, <1>6, <1>7 DEF RestartsOld, i

LEMMA DropsDoes ==
  ASSUME RelocateTypeOK, NEW m \in Mover, HandlerDropped(m)
  PROVE  RelocateTypeOK' /\ Elsewhere /\ Drops(m)
<1>1. /\ move \in [Mover -> CallSet] /\ server \in [Srv -> ServerSet]
      /\ mishaps \in 0 .. MaxMishap /\ MaxMishap \in Nat /\ lost \subseteq Guarded
  BY TypeParts, RelocateAssumption
<1>2. Elsewhere /\ server' = server
  BY <1>1 DEF HandlerDropped, Mishap, Elsewhere
<1>3. End(m, "dropped") \in CallSet
  BY EndType DEF Ended
<1>4. move' = [move EXCEPT ![m] = End(m, "dropped")]
  BY DEF HandlerDropped
<1>5. RelocateTypeOK'
  BY <1>1, <1>2, <1>3, <1>4, StepType
<1>6. Ends(m, "dropped", FALSE)
  BY <1>1, <1>4, EndSteps
<1> QED
  BY <1>2, <1>5, <1>6 DEF Drops, HandlerDropped

\* Every step of a move is one of these, and keeps the types.
LEMMA MoveStepDoes ==
  ASSUME RelocateTypeOK, NEW m \in Mover, MoveStep(m) \/ HandlerDropped(m)
  PROVE  RelocateTypeOK' /\ Elsewhere /\ MoveDoes(m)
BY GuardsDoes, PlacesDoes, CreatesDoes, HoldsDoes, MakesDoes, ReadsDoes, LandsDoes, StopsOldDoes,
   IdentifiesDoes, SetsIdentityDoes, StartsNewDoes, RemovesOldDoes, RemovesNewDoes,
   RestartsOldDoes, DropsDoes
   DEF MoveStep, MoveDoes

-----------------------------------------------------------------------------
(* Shape is kept by every step.                                            *)

\* The new server has an address of its own at these steps.
Before == {"create", "hold", "make", "read", "land", "stopold", "ident", "setid"}

\* How a step of move m changes where the move stands and what it is about.
Control(m) ==
  /\ OtherMoves(m) /\ move'[m].old = move[m].old /\ move'[m].ran = move[m].ran
  /\ move[m].at \in Guarded \cup {"guard"} /\ move'[m].at \notin {"idle", "guard"}
  /\ \/ move'[m].new = move[m].new
     \/ move[m].at = "place" /\ move'[m].at = "create" /\ move'[m].new \in Unused
  /\ \/ move'[m].blind = move[m].blind
     \/ /\ move[m].at = "guard" /\ move'[m].at = "place"
        /\ ~move'[m].blind => ~move[m].blind /\ Running(move[m].old) = move[m].ran
  /\ move'[m].at \in Guarded
       => move[m].at \in Guarded \/ \A k \in Mover : Held(k) => move[k].old # move[m].old
  /\ move'[m].at = "place" => move[m].at = "guard"
  /\ move[m].at = "guard" => move'[m].at \in {"place", "failed", "dropped"}
  /\ move[m].at = "place" /\ move'[m].at \notin {"failed", "dropped"}
       => move'[m].at = "create" /\ move'[m].new \in Unused
  /\ move'[m].at \in Before => move[m].at \in (Before \ {"setid"}) \cup {"place"}

LEMMA MoveControl ==
  ASSUME NEW m \in Mover, MoveDoes(m)
  PROVE  Control(m)
<1>1. CASE Guards(m)
  BY <1>1 DEF Guards, Ends, Steps, Control, Guarded, Before
<1>2. CASE Places(m)
  BY <1>2 DEF Places, Ends, Steps, Control, Guarded, Before
<1>3. CASE Creates(m)
  BY <1>3 DEF Creates, Goes, Ends, Steps, Control, Guarded, Before
<1>4. CASE Holds(m)
  BY <1>4 DEF Holds, Goes, Ends, Steps, Control, Guarded, Before
<1>5. CASE Makes(m)
  BY <1>5 DEF Makes, Goes, Ends, Steps, Control, Guarded, Before
<1>6. CASE Reads(m)
  BY <1>6 DEF Reads, Goes, Ends, Steps, Control, Guarded, Before
<1>7. CASE Lands(m)
  BY <1>7 DEF Lands, Goes, Ends, Steps, Control, Guarded, Before
<1>8. CASE StopsOld(m)
  BY <1>8 DEF StopsOld, Goes, Ends, Steps, Control, Guarded, Before
<1>9. CASE Identifies(m)
  BY <1>9 DEF Identifies, Goes, Ends, Steps, Control, Guarded, Before
<1>10. CASE SetsIdentity(m)
  BY <1>10 DEF SetsIdentity, Goes, Ends, Steps, Control, Guarded, Before
<1>11. CASE StartsNew(m)
  BY <1>11 DEF StartsNew, Goes, Ends, Steps, Control, Guarded, Before
<1>12. CASE RemovesOld(m)
  BY <1>12 DEF RemovesOld, Goes, Ends, Steps, Control, Guarded, Before
<1>13. CASE RemovesNew(m)
  BY <1>13 DEF RemovesNew, Goes, Ends, Steps, Control, Guarded, Before
<1>14. CASE RestartsOld(m)
  BY <1>14 DEF RestartsOld, Goes, Ends, Steps, Control, Guarded, Before
<1>15. CASE Drops(m)
  BY <1>15 DEF Drops, Goes, Ends, Steps, Control, Guarded, Before
<1> QED
  BY <1>1, <1>2, <1>3, <1>4, <1>5, <1>6, <1>7, <1>8, <1>9, <1>10, <1>11, <1>12, <1>13, <1>14,
     <1>15 DEF MoveDoes

\* The four parts that are about the moves alone.
LEMMA ControlKeeps ==
  ASSUME RelocateTypeOK, Shape, NEW m \in Mover, Control(m)
  PROVE  (NewNamed /\ NewOwn /\ OneMoves /\ Settled)'
<1>1. \A k \in Mover \ {m} : move'[k] = move[k]
  BY DEF Control, OtherMoves
<1>2. /\ move'[m].old = move[m].old /\ (~move'[m].blind => ~move[m].blind)
      /\ move[m].at \in Guarded \cup {"guard"}
  BY DEF Control
<1>3. NewNamed /\ NewOwn /\ OneMoves /\ Settled
  BY DEF Shape
<1>4. \/ move'[m].new = move[m].new
      \/ /\ move[m].at = "place" /\ move'[m].new # First
         /\ \A k \in Mover : move'[m].new # move[k].old /\ move'[m].new # move[k].new
  <2>1. ASSUME move[m].at = "place", move'[m].new \in Unused
        PROVE  \A k \in Mover : move'[m].new # move[k].old /\ move'[m].new # move[k].new
    BY <2>1 DEF Unused
  <2>2. move[m].at = "place" => move[m].new = First
    BY <1>3 DEF NewNamed
  <2> QED
    BY <2>1, <2>2 DEF Control
<1>5. NewNamed'
  <2>1. move'[m].at \in {"idle", "guard", "place"} => move'[m].new = First
    BY <1>3, <1>4 DEF Control, NewNamed
  <2>2. ASSUME move'[m].at \in Guarded, move'[m].at # "place" PROVE move'[m].new # First
    <3>1. CASE move[m].at = "place"
      <4>1. move'[m].at \notin {"failed", "dropped"}
        BY <2>2 DEF Guarded
      <4> QED
        BY <1>3, <1>4, <3>1, <4>1 DEF Control, NewNamed, Unused
    <3>2. CASE move[m].at # "place"
      <4>1. move[m].at # "guard"
        BY <2>2 DEF Control, Guarded
      <4> QED
        BY <1>2, <1>3, <1>4, <3>2, <4>1 DEF NewNamed, Held
    <3> QED
      BY <3>1, <3>2
  <2>3. move'[m].new # First => move'[m].new # move'[m].old
    BY <1>2, <1>3, <1>4 DEF NewNamed
  <2> QED
    BY <1>1, <1>3, <2>1, <2>2, <2>3 DEF NewNamed, Held
<1>6. NewOwn'
  BY <1>1, <1>3, <1>4 DEF NewOwn
<1>7. OneMoves'
  <2>1. move'[m].at \in Guarded
          => move[m].at \in Guarded \/ \A k \in Mover : Held(k) => move[k].old # move[m].old
    BY DEF Control
  <2> QED
    BY <1>1, <1>2, <1>3, <2>1 DEF OneMoves, Held
<1>8. Settled'
  <2>1. SUFFICES ASSUME NEW k \in Mover, NEW l \in Mover, move'[k].at # "idle",
                        ~move'[k].blind, move'[l].new = move'[k].old, move'[l].new # First
                 PROVE  move'[l].at = "moved"
    BY DEF Settled
  <2>2. CASE k = l
    BY <1>5, <2>1, <2>2 DEF NewNamed
  <2>3. CASE k = m /\ l # m
    <3>1. move[m].at # "idle"
      BY <1>2 DEF Guarded
    <3> QED
      BY <1>1, <1>2, <1>3, <2>1, <2>3, <3>1 DEF Settled
  <2>4. CASE k # m /\ l = m
    <3>1. move[m].at # "moved"
      BY <1>2 DEF Guarded
    <3> QED
      BY <1>1, <1>2, <1>3, <1>4, <2>1, <2>4, <3>1 DEF Settled
  <2>5. CASE k # m /\ l # m
    BY <1>1, <1>3, <2>1, <2>5 DEF Settled
  <2> QED
    BY <2>2, <2>3, <2>4, <2>5
<1> QED
  BY <1>5, <1>6, <1>7, <1>8

\* A move goes the ways it can go.
LEMMA WaysKept ==
  ASSUME RelocateTypeOK, RelocateTypeOK', Shape, NEW m \in Mover, MoveDoes(m)
  PROVE  Ways'
<1> DEFINE Way(t) == /\ t.pass # "full"
                        => t.ran /\ t.at \in {"make", "read", "land", "stopold"}
                     /\ t.at \in {"stopold", "startnew", "again"} => t.ran
                     /\ t.at = "stopold" => t.pass # "last"
                     /\ t.again => t.ran /\ t.at = "undo"
                     /\ t.blind => t.at # "idle"
<1>1. \A k \in Mover : Way(move[k])
  BY DEF Shape, Ways
<1>2. \A k \in Mover \ {m} : move'[k] = move[k]
  BY MoveControl DEF Control, OtherMoves
<1>3. move[m].pass \in {"full", "live", "last"} /\ move[m].ran \in BOOLEAN
  BY TypeParts DEF CallSet
<1>4. Way(move[m]) /\ move'[m].at # "idle"
  BY <1>1, MoveControl DEF Control
<1>5. Way(move'[m])
  <2>1. CASE Guards(m)
    BY <1>4, <2>1 DEF Guards, Ends, Steps
  <2>2. CASE Places(m)
    BY <1>4, <2>2 DEF Places, Ends, Steps
  <2>3. CASE Creates(m)
    BY <1>4, <2>3 DEF Creates, Goes, Ends, Steps
  <2>4. CASE Holds(m)
    BY <1>4, <2>4 DEF Holds, Ends, Steps
  <2>5. CASE Makes(m)
    BY <1>4, <2>5 DEF Makes, Ends, Steps
  <2>6. CASE Reads(m)
    BY <1>4, <2>6 DEF Reads, Steps
  <2>7. CASE Lands(m)
    BY <1>3, <1>4, <2>7 DEF Lands, Ends, Steps
  <2>8. CASE StopsOld(m)
    BY <1>4, <2>8 DEF StopsOld, Ends, Steps
  <2>9. CASE Identifies(m)
    BY <1>3, <1>4, <2>9 DEF Identifies, Ends, Steps
  <2>10. CASE SetsIdentity(m)
    BY <1>3, <1>4, <2>10 DEF SetsIdentity, Goes, Ends, Steps
  <2>11. CASE StartsNew(m)
    BY <1>4, <2>11 DEF StartsNew, Goes, Ends, Steps
  <2>12. CASE RemovesOld(m)
    BY <1>4, <2>12 DEF RemovesOld, Ends, Steps
  <2>13. CASE RemovesNew(m)
    BY <1>4, <2>13 DEF RemovesNew, Ends, Steps
  <2>14. CASE RestartsOld(m)
    BY <1>4, <2>14 DEF RestartsOld, Ends, Steps
  <2>15. CASE Drops(m)
    BY <1>4, <2>15 DEF Drops, Ends, Steps
  <2> QED
    BY <2>1, <2>2, <2>3, <2>4, <2>5, <2>6, <2>7, <2>8, <2>9, <2>10, <2>11, <2>12, <2>13, <2>14,
       <2>15 DEF MoveDoes
<1> QED
  BY <1>1, <1>2, <1>5 DEF Ways

\* How it changes the servers.
Touches(m) ==
  LET o == move[m].old  i == move[m].new  at == move[m].at IN
  \/ server' = server
  \/ at \in {"stopold", "again"} /\ Exists(o) /\ \E st \in {"running", "stopped"} : Becomes(o, st)
  \/ at \in {"hold", "startnew"} /\ Exists(i) /\ \E st \in {"running", "stopped"} : Becomes(i, st)
  \/ at = "create" /\ Appears(i)
  \/ at = "removeold" /\ Vanishes(o)
  \/ at = "undo" /\ Vanishes(i)
  \/ at = "land" /\ Lays(m)
  \/ at = "setid" /\ move'[m].at \in {"startnew", "removeold", "undo"} /\ Readdresses(m)

LEMMA MoveTouches ==
  ASSUME NEW m \in Mover, MoveDoes(m)
  PROVE  Touches(m)
<1>1. CASE Guards(m) \/ Places(m) \/ Makes(m) \/ Reads(m) \/ Identifies(m) \/ Drops(m)
  BY <1>1 DEF Guards, Places, Makes, Reads, Identifies, Drops, Touches
<1>2. CASE Creates(m) \/ Holds(m) \/ Lands(m)
  BY <1>2 DEF Creates, Holds, Lands, Touches
<1>3. CASE StopsOld(m)
  BY <1>3 DEF StopsOld, Touches
<1>4. CASE SetsIdentity(m)
  BY <1>4 DEF SetsIdentity, Goes, Ends, Steps, Touches
<1>5. CASE StartsNew(m)
  BY <1>5 DEF StartsNew, Touches, Stopped, Exists
<1>6. CASE RemovesOld(m) \/ RemovesNew(m)
  BY <1>6 DEF RemovesOld, RemovesNew, Touches
<1>7. CASE RestartsOld(m)
  BY <1>7 DEF RestartsOld, Touches, Stopped, Exists
<1> QED
  BY <1>1, <1>2, <1>3, <1>4, <1>5, <1>6, <1>7 DEF MoveDoes

\* A move changes one server, its old or its new one.
LEMMA MoveServers ==
  ASSUME RelocateTypeOK, NEW m \in Mover, MoveDoes(m)
  PROVE  \E x \in {move[m].old, move[m].new} : x \in Srv /\ OtherServers(x)
<1>1. move[m].old \in Srv /\ move[m].new \in Srv
  BY TypeParts DEF CallSet
<1> QED
  BY <1>1, MoveTouches DEF Touches, OtherServers, Becomes, Appears, Vanishes, Lays, Readdresses

\* A server that is there may change if First keeps its address, or vanish.
LEMMA NumberedStays ==
  ASSUME Numbered, NEW x \in Srv, OtherServers(x), server'[x].st # "none",
         x # First \/ server'[x].addr = First
  PROVE  Numbered'
BY RelocateAssumption DEF Numbered, OtherServers, Exists

LEMMA NumberedVanishes ==
  ASSUME Numbered, NEW x \in Srv, Vanishes(x)
  PROVE  Numbered'
BY RelocateAssumption DEF Numbered, Vanishes, OtherServers, Exists, NoServer

LEMMA NumberedKept ==
  ASSUME RelocateTypeOK, Shape, NEW m \in Mover, MoveDoes(m)
  PROVE  Numbered'
<1>1. Numbered /\ NewNamed /\ First \in Srv /\ Touches(m)
  BY MoveTouches, RelocateAssumption DEF Shape
<1>2. move[m].at \in Guarded \ {"place"} => move[m].new # First
  BY <1>1 DEF NewNamed, Held
<1>3. move[m].old \in Srv /\ move[m].new \in Srv
  BY TypeParts DEF CallSet
<1>4. ASSUME NEW x \in Srv, OtherServers(x), server'[x].st # "none",
             x # First \/ server'[x].addr = First
      PROVE  Numbered'
  BY <1>1, <1>4, NumberedStays
<1>5. ASSUME NEW x \in Srv, Vanishes(x)
      PROVE  Numbered'
  BY <1>1, <1>5, NumberedVanishes
<1>6. CASE server' = server
  BY <1>1, <1>6 DEF Numbered, Exists
<1>7. ASSUME NEW x \in Srv, NEW st \in {"running", "stopped"}, Becomes(x, st)
      PROVE  Numbered'
  <2>1. x = First => server'[x].addr = First
    BY <1>1, <1>7 DEF Becomes, Numbered
  <2> QED
    BY <1>4, <1>7, <2>1 DEF Becomes
<1>8. CASE move[m].at = "create" /\ Appears(move[m].new)
  BY <1>2, <1>3, <1>4, <1>8 DEF Appears, Guarded
<1>9. CASE move[m].at = "land" /\ Lays(m)
  BY <1>2, <1>3, <1>4, <1>9 DEF Lays, Guarded, Stopped
<1>10. CASE move[m].at = "setid" /\ Readdresses(m)
  BY <1>2, <1>3, <1>4, <1>10 DEF Readdresses, Guarded, Stopped
<1> QED
  BY <1>1, <1>3, <1>5, <1>6, <1>7, <1>8, <1>9, <1>10 DEF Touches

LEMMA OwnAddressKept ==
  ASSUME RelocateTypeOK, RelocateTypeOK', Shape, NEW m \in Mover, MoveDoes(m)
  PROVE  OwnAddress'
<1>1. Control(m) /\ Touches(m)
  BY MoveControl, MoveTouches
<1>2. Numbered /\ NewNamed /\ NewOwn /\ OwnAddress
  BY DEF Shape
<1>3. \A k \in Mover : move[k].new \in Srv /\ move[k].old \in Srv
  BY TypeParts DEF CallSet
<1>4. \A k \in Mover : move[k].at \in Before => New(k).addr = move[k].new
  BY <1>2 DEF OwnAddress, Before
<1>5. ASSUME NEW i \in Srv, server[i].addr = i, ~(Readdresses(m) /\ i = move[m].new /\ move[m].at = "setid")
      PROVE  server'[i].addr = i
  <2>1. CASE server' = server \/ \E k \in {move[m].old, move[m].new} : \E st \in {"running", "stopped"} : Becomes(k, st)
    BY <1>3, <1>5, <2>1 DEF OtherServers, Becomes
  <2>2. CASE Appears(move[m].new)
    BY <1>3, <1>5, <2>2 DEF OtherServers, Appears
  <2>3. CASE Vanishes(move[m].old) \/ Vanishes(move[m].new)
    BY <1>3, <1>5, <2>3 DEF OtherServers, Vanishes, NoServer
  <2>4. CASE Lays(m)
    BY <1>3, <1>5, <2>4 DEF OtherServers, Lays
  <2>5. CASE move[m].at = "setid" /\ Readdresses(m)
    BY <1>3, <1>5, <2>5 DEF OtherServers, Readdresses
  <2> QED
    BY <1>1, <2>1, <2>2, <2>3, <2>4, <2>5 DEF Touches
<1>6. ASSUME NEW k \in Mover, k # m, move'[k].at \in Before
      PROVE  server'[move'[k].new].addr = move'[k].new
  <2>1. move'[k] = move[k]
    BY <1>1, <1>6 DEF Control, OtherMoves
  <2>2. move[k].new # First
    BY <1>2, <1>6, <2>1 DEF NewNamed, Held, Before, Guarded
  <2>3. move[k].new # move[m].new
    BY <1>2, <1>6, <2>2 DEF NewOwn
  <2> QED
    BY <1>3, <1>4, <1>5, <1>6, <2>1, <2>3 DEF New
<1>7. ASSUME move'[m].at \in Before
      PROVE  server'[move'[m].new].addr = move'[m].new
  <2>1. CASE move[m].at = "place"
    <3>1. move'[m].new \in Unused
      BY <1>1, <1>7, <2>1 DEF Control, Before
    <3>2. move'[m].new \in Srv /\ ~Exists(move'[m].new)
      BY <3>1 DEF Unused
    <3>3. server[move'[m].new] = NoServer(move'[m].new)
      BY <1>2, <3>2 DEF Numbered
    <3>4. server[move'[m].new].addr = move'[m].new
      BY <3>3 DEF NoServer
    <3> QED
      BY <1>5, <2>1, <3>2, <3>4
  <2>2. CASE move[m].at # "place"
    <3>1. move[m].at \in Before \ {"setid"} /\ move'[m].new = move[m].new
      BY <1>1, <1>7, <2>2 DEF Control
    <3> QED
      BY <1>3, <1>4, <1>5, <3>1 DEF New
  <2> QED
    BY <2>1, <2>2
<1> QED
  BY <1>6, <1>7 DEF OwnAddress, New, Before

LEMMA NoneNewerKept ==
  ASSUME RelocateTypeOK, Shape, NEW m \in Mover, MoveDoes(m), Elsewhere
  PROVE  NoneNewer'
<1>1. Control(m) /\ Touches(m) /\ world' = world
  BY MoveControl, MoveTouches DEF Elsewhere
<1>2. NoneNewer
  BY DEF Shape
<1>3. \A k \in Mover : move[k].new \in Srv /\ move[k].old \in Srv
  BY TypeParts DEF CallSet
<1>4. \A f \in File : NewFiles[f] <= world[f]
  BY TypeParts, RelocateAssumption DEF NewFiles, Files
<1>5. ASSUME NEW i \in Srv, NEW f \in File
      PROVE  server'[i].files[f] <= world[f]
  <2>1. \A j \in Srv : server[j].files[f] <= world[f]
    BY <1>2 DEF NoneNewer
  <2>2. move[m].seen[f] <= world[f]
    BY <1>2 DEF NoneNewer
  <2>3. CASE server' = server \/ \E k \in {move[m].old, move[m].new} : \E st \in {"running", "stopped"} : Becomes(k, st)
    BY <1>3, <2>1, <2>3 DEF OtherServers, Becomes
  <2>4. CASE Appears(move[m].new)
    BY <1>3, <1>4, <2>1, <2>4 DEF OtherServers, Appears
  <2>5. CASE Vanishes(move[m].old) \/ Vanishes(move[m].new)
    BY <1>3, <1>4, <2>1, <2>5 DEF OtherServers, Vanishes, NoServer
  <2>6. CASE Lays(m)
    BY <1>3, <2>1, <2>2, <2>6 DEF OtherServers, Lays
  <2>7. CASE Readdresses(m)
    BY <1>3, <2>1, <2>7 DEF OtherServers, Readdresses
  <2> QED
    BY <1>1, <2>3, <2>4, <2>5, <2>6, <2>7 DEF Touches
<1>6. ASSUME NEW f \in File
      PROVE  move'[m].seen[f] <= world[f]
  <2>1. \/ move'[m].seen = move[m].seen
        \/ move'[m].seen = NewFiles
        \/ move'[m].seen = Old(m).files
        \/ \A g \in File : move'[m].seen[g] \in {move[m].seen[g], Old(m).files[g]}
    <3>1. CASE Guards(m) \/ Places(m) \/ Creates(m) \/ Holds(m)
      BY <3>1 DEF Guards, Places, Creates, Holds, Goes, Ends
    <3>5. CASE Reads(m)
      BY <3>5 DEF Reads
    <3>2. CASE Makes(m) \/ Lands(m) \/ StopsOld(m) \/ Identifies(m)
      BY <3>2 DEF Makes, Lands, StopsOld, Identifies, Ends
    <3>3. CASE SetsIdentity(m) \/ StartsNew(m) \/ RemovesOld(m) \/ RemovesNew(m)
      BY <3>3 DEF SetsIdentity, StartsNew, RemovesOld, RemovesNew, Goes, Ends
    <3>4. CASE RestartsOld(m) \/ Drops(m)
      BY <3>4 DEF RestartsOld, Drops, Ends
    <3> QED
      BY <3>1, <3>2, <3>3, <3>4, <3>5 DEF MoveDoes
  <2> QED
    BY <1>2, <1>3, <1>4, <2>1 DEF NoneNewer, Old
<1>7. \A k \in Mover \ {m} : move'[k] = move[k]
  BY <1>1 DEF Control, OtherMoves
<1> QED
  BY <1>1, <1>2, <1>5, <1>6, <1>7 DEF NoneNewer

LEMMA MoveKeepsShape ==
  ASSUME RelocateTypeOK, RelocateTypeOK', Shape, NEW m \in Mover, MoveDoes(m), Elsewhere
  PROVE  Shape'
BY MoveControl, ControlKeeps, WaysKept, NumberedKept, OwnAddressKept, NoneNewerKept DEF Shape

-----------------------------------------------------------------------------
(* Everyone else's steps, field by field.                                  *)

Begins(m) ==
  /\ move[m].at = "idle" /\ OtherMoves(m) /\ UNCHANGED <<server, world, lost, hand>>
  /\ Exists(move'[m].old) /\ move'[m].at = "guard" /\ move'[m].new = First
  /\ move'[m].ran = Running(move'[m].old) /\ move'[m].blind = HalfMade(move'[m].old)
  /\ move'[m].pass = "full" /\ move'[m].again = FALSE /\ move'[m].seen = NewFiles

Writes(i, f) ==
  /\ Running(i) /\ server[i].addr = First /\ OtherServers(i)
  /\ server'[i].st = server[i].st /\ server'[i].addr = First
  /\ server'[i].files[f] = world[f] + 1 /\ world'[f] = world[f] + 1
  /\ \A g \in File \ {f} : world'[g] = world[g] /\ server'[i].files[g] = server[i].files[g]
  /\ world' \in Files /\ server'[i].files \in Files
  /\ UNCHANGED <<move, lost, hand>>

Acts(op, i) ==
  /\ UNCHANGED <<move, world, lost>> /\ hand' = hand \cup {op}
  /\ \/ op = "start" /\ Stopped(i) /\ Becomes(i, "running")
     \/ op = "stop" /\ Exists(i) /\ Becomes(i, "stopped")
     \/ op = "remove" /\ Vanishes(i)

LEMMA BeginsDoes ==
  ASSUME RelocateTypeOK, NEW m \in Mover, NEW i \in Srv, Begin(m, i)
  PROVE  RelocateTypeOK' /\ Begins(m)
<1> DEFINE b == HalfMade(i)
           r == Running(i)
           t == Call("guard", i, First, r, b)
<1>1. b \in BOOLEAN /\ r \in BOOLEAN /\ First \in Srv
  BY RelocateAssumption DEF HalfMade, Running
<1>2. Think(m, t) /\ move[m].at = "idle" /\ Exists(i)
  BY DEF Begin
<1> HIDE DEF b, r
<1>3. t \in CallSet
  BY <1>1, CallType
<1>4. /\ t.at = "guard" /\ t.old = i /\ t.new = First /\ t.ran = r /\ t.blind = b
      /\ t.pass = "full" /\ t.again = FALSE /\ t.seen = NewFiles
  BY DEF Call
<1> HIDE DEF t
<1>5. RelocateTypeOK' /\ OtherMoves(m) /\ move'[m] = t
  BY <1>2, <1>3, ThinkDoes
<1>6. UNCHANGED <<server, world, lost, hand>>
  BY <1>2 DEF Think
<1> QED
  BY <1>2, <1>4, <1>5, <1>6 DEF Begins, r, b

LEMMA WritesDoes ==
  ASSUME RelocateTypeOK, NEW i \in Srv, NEW f \in File, PlayerWrites(i, f)
  PROVE  RelocateTypeOK' /\ Writes(i, f)
<1> DEFINE new == [server[i].files EXCEPT ![f] = world[f] + 1]
           r == [server[i] EXCEPT !.files = new]
<1>1. /\ server \in [Srv -> ServerSet] /\ server[i] \in ServerSet
      /\ world \in Files /\ world[f] < MaxWrite /\ MaxWrite \in Nat
  BY TypeParts, RelocateAssumption DEF PlayerWrites
<1>2. server[i].files \in Files /\ world[f] + 1 \in 0 .. MaxWrite
  BY <1>1 DEF ServerSet, Files
<1>3. /\ new \in Files /\ new[f] = world[f] + 1
      /\ \A g \in File \ {f} : new[g] = server[i].files[g]
  BY <1>2 DEF Files
<1>4. /\ world' \in Files /\ world'[f] = world[f] + 1
      /\ \A g \in File \ {f} : world'[g] = world[g]
  BY <1>1, <1>2 DEF PlayerWrites, Files
<1>5. server' = [server EXCEPT ![i] = r]
  BY <1>1 DEF PlayerWrites
<1> HIDE DEF new
<1>6. r \in ServerSet /\ r.st = server[i].st /\ r.addr = server[i].addr /\ r.files = new
  BY <1>1, <1>3 DEF ServerSet
<1> HIDE DEF r
<1>7. server' \in [Srv -> ServerSet] /\ server'[i] = r /\ OtherServers(i)
  BY <1>1, <1>5, <1>6 DEF OtherServers
<1>8. UNCHANGED <<move, act, lost, hand, mishaps>> /\ Running(i) /\ server[i].addr = First
  BY DEF PlayerWrites
<1>9. RelocateTypeOK'
  BY <1>4, <1>7, <1>8 DEF RelocateTypeOK, ServerSet
<1> QED
  BY <1>3, <1>4, <1>6, <1>7, <1>8, <1>9 DEF Writes

LEMMA ActsDoes ==
  ASSUME RelocateTypeOK, NEW a \in Actor, Do(a)
  PROVE  RelocateTypeOK' /\ \E op \in Act, i \in Srv : Acts(op, i)
<1> DEFINE op == act[a].op
           i == act[a].on
           rest == [at |-> "idle", op |-> "stop", on |-> First]
<1>1. /\ server \in [Srv -> ServerSet] /\ op \in Act /\ i \in Srv
      /\ act \in [Actor -> [at : {"idle", "listed"}, op : Act, on : Srv]]
  BY TypeParts
<1>2. /\ \/ op = "start" /\ Stopped(i) /\ server' = Put(i, "running")
         \/ op = "stop" /\ Exists(i) /\ server' = Put(i, "stopped")
         \/ op = "remove" /\ Exists(i) /\ server' = Gone(i)
      /\ act' = [act EXCEPT ![a] = rest] /\ hand' = hand \cup {op}
      /\ UNCHANGED <<world, move, lost, mishaps>>
  BY DEF Do
<1>3. rest \in [at : {"idle", "listed"}, op : Act, on : Srv]
  BY RelocateAssumption DEF Act
<1> HIDE DEF op, i, rest
<1>4. /\ server' = Put(i, "running") => server' \in [Srv -> ServerSet] /\ Becomes(i, "running")
      /\ server' = Put(i, "stopped") => server' \in [Srv -> ServerSet] /\ Becomes(i, "stopped")
      /\ server' = Gone(i) => server' \in [Srv -> ServerSet] /\ Vanishes(i)
  BY <1>1, ServerSteps
<1>5. server' \in [Srv -> ServerSet] /\ Acts(op, i)
  BY <1>2, <1>4 DEF Acts
<1>6. act' \in [Actor -> [at : {"idle", "listed"}, op : Act, on : Srv]] /\ hand' \subseteq Act
  BY <1>1, <1>2, <1>3, TypeParts
<1>7. RelocateTypeOK'
  BY <1>2, <1>5, <1>6 DEF RelocateTypeOK, ServerSet
<1> QED
  BY <1>1, <1>5, <1>7

\* Listing, and finding that what was listed is gone, change no server.
LEMMA ListDoes ==
  ASSUME RelocateTypeOK, NEW a \in Actor, Refused(a) \/ \E op \in Act, i \in Srv : List(a, op, i)
  PROVE  RelocateTypeOK' /\ UNCHANGED <<server, world, move, lost, hand>>
<1> DEFINE Set == [at : {"idle", "listed"}, op : Act, on : Srv]
<1>1. act \in [Actor -> Set] /\ mishaps \in 0 .. MaxMishap /\ MaxMishap \in Nat
  BY TypeParts, RelocateAssumption
<1>2. \E r \in Set : act' = [act EXCEPT ![a] = r]
  <2>1. CASE Refused(a)
    <3>1. [at |-> "idle", op |-> "stop", on |-> First] \in Set
      BY RelocateAssumption DEF Act
    <3> QED
      BY <2>1, <3>1 DEF Refused
  <2>2. ASSUME NEW op \in Act, NEW i \in Srv, List(a, op, i)
        PROVE  \E r \in Set : act' = [act EXCEPT ![a] = r]
    <3>1. [at |-> "listed", op |-> op, on |-> i] \in Set
      OBVIOUS
    <3> QED
      BY <2>2, <3>1 DEF List
  <2> QED
    BY <2>1, <2>2
<1>3. act' \in [Actor -> Set]
  BY <1>1, <1>2
<1>4. mishaps' \in 0 .. MaxMishap /\ UNCHANGED <<server, world, move, lost, hand>>
  BY <1>1 DEF List, Refused, Mishap
<1> QED
  BY <1>3, <1>4 DEF RelocateTypeOK

\* Every step of the system is one of these.
LEMMA NextDoes ==
  ASSUME RelocateTypeOK, [RelocateNext]_relocateVars
  PROVE  /\ RelocateTypeOK'
         /\ \/ \E m \in Mover : MoveDoes(m) /\ Elsewhere
            \/ \E m \in Mover : Begins(m)
            \/ \E i \in Srv, f \in File : Writes(i, f)
            \/ \E op \in Act, i \in Srv : Acts(op, i)
            \/ UNCHANGED <<server, world, move, lost, hand>>
<1>1. CASE UNCHANGED relocateVars
  BY <1>1 DEF relocateVars, RelocateTypeOK
<1>2. CASE \E m \in Mover : MoveStep(m) \/ HandlerDropped(m)
  BY <1>2, MoveStepDoes
<1>3. CASE \E m \in Mover, i \in Srv : Begin(m, i)
  BY <1>3, BeginsDoes
<1>4. CASE \E i \in Srv, f \in File : PlayerWrites(i, f)
  BY <1>4, WritesDoes
<1>5. CASE \E a \in Actor : Do(a)
  BY <1>5, ActsDoes
<1>6. CASE \E a \in Actor : Refused(a) \/ \E op \in Act, i \in Srv : List(a, op, i)
  BY <1>6, ListDoes
<1> QED
  BY <1>1, <1>2, <1>3, <1>4, <1>5, <1>6 DEF RelocateNext

LEMMA BeginsKeepsShape ==
  ASSUME RelocateTypeOK, Shape, NEW m \in Mover, Begins(m)
  PROVE  Shape'
<1>1. /\ \A k \in Mover \ {m} : move'[k] = move[k]
      /\ server' = server /\ world' = world
  BY DEF Begins, OtherMoves
<1>2. /\ move'[m].at = "guard" /\ move'[m].new = First /\ move'[m].pass = "full"
      /\ move'[m].again = FALSE /\ move'[m].seen = NewFiles
  BY DEF Begins
<1>3. Numbered'
  BY <1>1 DEF Shape, Numbered, Exists
<1>4. NewNamed' /\ NewOwn' /\ OneMoves'
  BY <1>1, <1>2 DEF Shape, NewNamed, NewOwn, OneMoves, Held, Guarded
<1>5. Settled'
  <2>1. ~move'[m].blind
          => \A k \in Mover : move[k].new = move'[m].old /\ move[k].new # First => move[k].at = "moved"
    BY DEF Begins, HalfMade
  <2> QED
    BY <1>1, <1>2, <2>1 DEF Shape, Settled
<1>6. Ways' /\ OwnAddress'
  BY <1>1, <1>2 DEF Shape, Ways, OwnAddress, New
<1>7. NoneNewer'
  <2>1. \A f \in File : NewFiles[f] <= world[f]
    BY TypeParts, RelocateAssumption DEF NewFiles, Files
  <2> QED
    BY <1>1, <1>2, <2>1 DEF Shape, NoneNewer
<1> QED
  BY <1>3, <1>4, <1>5, <1>6, <1>7 DEF Shape

\* What only servers can disturb.
LEMMA SameMovesKeepShape ==
  ASSUME Shape, move' = move, (Numbered /\ OwnAddress /\ NoneNewer)'
  PROVE  Shape'
BY DEF Shape, NewNamed, NewOwn, OneMoves, Settled, Ways, Held

LEMMA WritesKeepsShape ==
  ASSUME RelocateTypeOK, Shape, NEW i \in Srv, NEW f \in File, Writes(i, f)
  PROVE  Shape'
<1>1. /\ world \in Files /\ \A g \in File : world[g] \in Nat
      /\ \A j \in Srv, g \in File : server[j].files[g] \in Nat
      /\ \A m \in Mover, g \in File : move[m].seen[g] \in Nat
  BY TypeParts, RelocateAssumption DEF Files, ServerSet, CallSet
<1>2. /\ \A g \in File : world[g] <= world'[g]
      /\ \A g \in File \ {f} : world'[g] = world[g]
      /\ world'[f] = world[f] + 1 /\ move' = move
  BY <1>1 DEF Writes
<1>3. Numbered'
  BY NumberedStays DEF Writes, Running, Shape
<1>4. OwnAddress'
  <2>1. \A j \in Srv : server'[j].addr = server[j].addr
    BY DEF Writes, OtherServers
  <2>2. \A m \in Mover : move[m].new \in Srv
    BY TypeParts DEF CallSet
  <2> QED
    BY <1>2, <2>1, <2>2 DEF Shape, OwnAddress, New
<1>5. \A j \in Srv, g \in File : server'[j].files[g] <= world'[g]
  <2>1. \A j \in Srv \ {i}, g \in File : server'[j].files[g] <= world'[g]
    BY <1>1, <1>2 DEF Writes, OtherServers, Shape, NoneNewer
  <2>2. \A g \in File : server'[i].files[g] <= world'[g]
    BY <1>1, <1>2 DEF Writes, Shape, NoneNewer
  <2> QED
    BY <2>1, <2>2
<1>6. NoneNewer'
  BY <1>1, <1>2, <1>5 DEF Shape, NoneNewer
<1> QED
  BY <1>2, <1>3, <1>4, <1>6, SameMovesKeepShape

LEMMA ActsKeepsShape ==
  ASSUME RelocateTypeOK, Shape, NEW op \in Act, NEW i \in Srv, Acts(op, i)
  PROVE  Shape'
<1>1. /\ move' = move /\ world' = world
      /\ \/ Exists(i) /\ \E st \in {"running", "stopped"} : Becomes(i, st)
         \/ Vanishes(i)
  BY DEF Acts, Stopped, Exists
<1>2. Numbered'
  <2>1. Numbered
    BY DEF Shape
  <2>2. ASSUME NEW st \in {"running", "stopped"}, Becomes(i, st) PROVE Numbered'
    <3>1. i = First => server'[i].addr = First
      BY <2>1, <2>2 DEF Becomes, Numbered
    <3> QED
      BY <2>1, <2>2, <3>1, NumberedStays DEF Becomes
  <2> QED
    BY <1>1, <2>1, <2>2, NumberedVanishes
<1>3. \A m \in Mover : move[m].new \in Srv
  BY TypeParts DEF CallSet
<1>4. OwnAddress'
  <2>1. \A j \in Srv : server'[j].addr \in {server[j].addr, j}
    BY <1>1 DEF Becomes, Vanishes, OtherServers, NoServer
  <2> QED
    BY <1>1, <1>3, <2>1 DEF Shape, OwnAddress, New
<1>5. NoneNewer'
  <2>1. \A f \in File : NewFiles[f] <= world[f]
    BY TypeParts, RelocateAssumption DEF NewFiles, Files
  <2>2. \A j \in Srv : server'[j].files = server[j].files \/ server'[j].files = NewFiles
    BY <1>1 DEF Becomes, Vanishes, OtherServers, NoServer
  <2> QED
    BY <1>1, <2>1, <2>2 DEF Shape, NoneNewer
<1> QED
  BY <1>1, <1>2, <1>4, <1>5, SameMovesKeepShape

\* The initial state has Shape, and every step keeps it.
LEMMA InitShape == RelocateInit => RelocateTypeOK /\ Shape
<1> SUFFICES ASSUME RelocateInit PROVE RelocateTypeOK /\ Shape
  OBVIOUS
<1> DEFINE idle == Call("idle", First, First, FALSE, FALSE)
<1>1. /\ idle \in CallSet /\ idle.at = "idle" /\ idle.new = First /\ idle.pass = "full"
      /\ idle.again = FALSE /\ idle.blind = FALSE /\ idle.seen = NewFiles
  BY CallType, RelocateAssumption DEF Call
<1> HIDE DEF idle
<1>2. move \in [Mover -> CallSet] /\ \A m \in Mover : move[m] = idle
  BY <1>1 DEF RelocateInit, idle
<1>3. /\ server \in [Srv -> ServerSet] /\ server[First].addr = First /\ First \in Srv
      /\ \A i \in Srv : server[i].files = NewFiles /\ (i # First => server[i] = NoServer(i))
      /\ server[First].st = "running"
  BY NewFilesType, RelocateAssumption DEF RelocateInit, NoServer, ServerSet
<1>4. /\ world = NewFiles /\ world \in Files /\ lost = {} /\ hand = {}
      /\ mishaps \in 0 .. MaxMishap
  BY NewFilesType, RelocateAssumption DEF RelocateInit
<1>5. act \in [Actor -> [at : {"idle", "listed"}, op : Act, on : Srv]]
  BY RelocateAssumption DEF RelocateInit, Act
<1>6. RelocateTypeOK
  BY <1>2, <1>3, <1>4, <1>5 DEF RelocateTypeOK, CallSet, ServerSet
<1>7. Numbered
  BY <1>3 DEF Numbered, Exists
<1>8. NewNamed /\ NewOwn /\ OneMoves /\ Settled /\ Ways /\ OwnAddress
  BY <1>1, <1>2 DEF NewNamed, NewOwn, OneMoves, Settled, Ways, OwnAddress, Held, Guarded
<1>9. NoneNewer
  <2>1. \A f \in File : NewFiles[f] <= NewFiles[f]
    BY DEF NewFiles
  <2> QED
    BY <1>1, <1>2, <1>3, <1>4, <2>1 DEF NoneNewer
<1> QED
  BY <1>6, <1>7, <1>8, <1>9 DEF Shape

LEMMA NextKeepsShape ==
  ASSUME RelocateTypeOK, Shape, [RelocateNext]_relocateVars
  PROVE  RelocateTypeOK' /\ Shape'
<1>1. RelocateTypeOK'
  BY NextDoes
<1>2. ASSUME NEW m \in Mover, MoveDoes(m), Elsewhere PROVE Shape'
  BY <1>1, <1>2, MoveKeepsShape
<1>3. ASSUME UNCHANGED <<server, world, move, lost, hand>> PROVE Shape'
  <2>1. (Numbered /\ OwnAddress /\ NoneNewer)'
    BY <1>3 DEF Shape, Numbered, OwnAddress, NoneNewer, New, Exists
  <2> QED
    BY <1>3, <2>1, SameMovesKeepShape
<1> QED
  BY <1>1, <1>2, <1>3, NextDoes, BeginsKeepsShape, WritesKeepsShape, ActsKeepsShape

\* The variables have their types, and no two moves ever hold the same server,
\* make the same server, or make the server another one moves unless the other
\* knows: relocate_to under its guard, whatever fails around it.
THEOREM RelocateTyped == RelocateSpec => [](RelocateTypeOK /\ Shape)
<1>1. RelocateInit => RelocateTypeOK /\ Shape
  BY InitShape
<1>2. RelocateTypeOK /\ Shape /\ [RelocateNext]_relocateVars => (RelocateTypeOK /\ Shape)'
  BY NextKeepsShape
<1> QED
  BY <1>1, <1>2, PTL DEF RelocateSpec

-----------------------------------------------------------------------------
(* A failed move leaves its server running.                                *)

\* Move m has taken its server down, or found it down: it is at a step where the
\* old server is to stay as it is.
Still(m) ==
  /\ Held(m)
  /\ \/ ~move[m].ran \/ move[m].pass = "last" \/ move[m].again
     \/ move[m].at \in {"ident", "setid", "startnew", "removeold", "again"}

\* Until then the old server runs, if nothing else took it down.
UpUntil ==
  \A m \in Mover :
    Held(m) /\ ~Still(m) /\ Undisturbed(m) /\ Exists(move[m].old) => Running(move[m].old)

\* What move m does to servers is done to its own old and new one, which are not
\* what another move moves.
LEMMA LeavesOld ==
  ASSUME RelocateTypeOK, Shape, NEW m \in Mover, MoveDoes(m),
         NEW k \in Mover \ {m}, Held(k), ~move[k].blind
  PROVE  server'[move[k].old] = server[move[k].old]
<1>1. NewNamed /\ OneMoves /\ Settled
  BY DEF Shape
<1>2. move[k].old \in Srv /\ move[k].at # "idle"
  BY TypeParts DEF CallSet, Held, Guarded
<1>3. ASSUME move[m].at \in Guarded PROVE move[m].old # move[k].old
  BY <1>1, <1>3 DEF OneMoves, Held
<1>4. ASSUME move[m].at \in Guarded \ {"place"} PROVE move[m].new # move[k].old
  <2>1. move[m].new # First /\ move[m].at # "moved"
    BY <1>1, <1>4 DEF NewNamed, Held, Guarded
  <2> QED
    BY <1>1, <1>2, <2>1 DEF Settled
<1>5. Touches(m)
  BY MoveTouches
<1> QED
  BY <1>2, <1>3, <1>4, <1>5
     DEF Touches, Becomes, Appears, Vanishes, Lays, Readdresses, OtherServers, Guarded

\* Nor are they what another move makes, once that is another id than First.
LEMMA LeavesNew ==
  ASSUME RelocateTypeOK, Shape, NEW m \in Mover, MoveDoes(m), ~move[m].blind,
         NEW k \in Mover \ {m}, move[k].new # First, move[k].at # "moved"
  PROVE  server'[move[k].new] = server[move[k].new]
<1>1. NewOwn /\ Settled
  BY DEF Shape
<1>2. move[k].new \in Srv /\ move[m].at # "idle"
  BY TypeParts, MoveControl DEF CallSet, Control, Guarded
<1>3. move[m].new # move[k].new
  BY <1>1 DEF NewOwn
<1>4. move[m].old # move[k].new
  BY <1>1, <1>2 DEF Settled
<1>5. Touches(m)
  BY MoveTouches
<1> QED
  BY <1>2, <1>3, <1>4, <1>5
     DEF Touches, Becomes, Appears, Vanishes, Lays, Readdresses, OtherServers

\* A move whose step is about its new server leaves its old one alone.
LEMMA NewIsNotOld ==
  ASSUME RelocateTypeOK, Shape, NEW m \in Mover, Held(m), move[m].at # "place"
  PROVE  move[m].new # move[m].old /\ move[m].new \in Srv /\ move[m].old \in Srv
BY TypeParts DEF Shape, NewNamed, CallSet

LEMMA MoveKeepsUp ==
  ASSUME RelocateTypeOK, Shape, UpUntil, NEW m \in Mover, MoveDoes(m), Elsewhere
  PROVE  UpUntil'
<1>1. \A k \in Mover : Undisturbed(k)' => ~move'[k].blind /\ (~move[k].blind => Undisturbed(k))
  BY DEF Elsewhere, Undisturbed, Did, LostAt
<1>2. ASSUME NEW k \in Mover \ {m}, Held(k)', ~Still(k)', Undisturbed(k)', Exists(move[k].old)'
      PROVE  Running(move[k].old)'
  <2>1. move'[k] = move[k]
    BY MoveControl DEF Control, OtherMoves
  <2>2. Held(k) /\ ~Still(k) /\ ~move[k].blind /\ Undisturbed(k)
    BY <1>1, <1>2, <2>1 DEF Held, Still
  <2>3. server'[move[k].old] = server[move[k].old]
    BY <2>2, LeavesOld
  <2> QED
    BY <1>2, <2>1, <2>2, <2>3 DEF UpUntil, Exists, Running
<1>3. ASSUME Held(m)', ~Still(m)', Undisturbed(m)', Exists(move[m].old)'
      PROVE  Running(move[m].old)'
  <2> DEFINE o == move[m].old
  <2>1. /\ move'[m].old = o /\ move'[m].ran = move[m].ran /\ move[m].ran
        /\ ~move'[m].again /\ move'[m].pass # "last" /\ ~move'[m].blind
        /\ move'[m].at \in Guarded \ {"ident", "setid", "startnew", "removeold", "again"}
        /\ server'[o].st # "none"
    BY <1>1, <1>3, MoveControl DEF Control, Still, Held, Exists
  <2>2. SUFFICES server'[o].st = "running"
    BY <2>1 DEF Running
  <2>3. Ways /\ o \in Srv
    BY TypeParts DEF Shape, CallSet
  <2>4. ASSUME move[m].at \in {"place", "create", "hold", "make", "read", "land", "stopold"},
               move[m].pass # "last", server'[o] = server[o], ~move[m].blind
        PROVE  server'[o].st = "running"
    <3>1. Held(m) /\ ~move[m].again
      BY <2>3, <2>4 DEF Held, Guarded, Ways
    <3>2. ~Still(m) /\ Exists(o) /\ Undisturbed(m)
      BY <1>1, <1>3, <2>1, <2>4, <3>1 DEF Still, Exists
    <3> QED
      BY <2>4, <3>1, <3>2 DEF UpUntil, Running
  <2>5. CASE Guards(m)
    BY <2>1, <2>5 DEF Guards, Running, Ends, Steps, Guarded
  <2>6. CASE Places(m)
    <3>1. move[m].pass # "last" /\ ~move[m].blind
      BY <2>1, <2>3, <2>6 DEF Ways, Places, Ends, Steps, Guarded
    <3> QED
      BY <2>1, <2>4, <2>6, <3>1 DEF Places
  <2>7. CASE Creates(m) \/ Holds(m) \/ Makes(m) \/ Reads(m) \/ Lands(m)
    <3>1. /\ move[m].at \in {"create", "hold", "make", "read", "land"}
          /\ move'[m].blind = move[m].blind
      BY <2>7 DEF Creates, Holds, Makes, Reads, Lands, Goes, Ends, Steps
    <3>2. move[m].pass # "last"
      <4>1. CASE Creates(m) \/ Holds(m)
        BY <2>3, <4>1 DEF Creates, Holds, Ways
      <4>2. CASE Makes(m)
        BY <2>1, <4>2 DEF Makes, Ends
      <4>3. CASE Reads(m)
        BY <2>1, <4>3 DEF Reads
      <4>4. CASE Lands(m)
        BY <2>1, <4>4 DEF Lands, Ends, Steps
      <4> QED
        BY <2>7, <4>1, <4>2, <4>3, <4>4
    <3>3. server'[o] = server[o]
      <4>1. move[m].new # o
        BY <3>1, NewIsNotOld DEF Held, Guarded
      <4> QED
        BY <2>3, <3>1, <4>1, MoveTouches
           DEF Touches, Becomes, Appears, Vanishes, Lays, Readdresses, OtherServers
    <3> QED
      BY <2>1, <2>4, <3>1, <3>2, <3>3
  <2>8. CASE StopsOld(m)
    <3>1. server' = server /\ move[m].at = "stopold" /\ move'[m].blind = move[m].blind
      BY <1>3, <2>1, <2>8 DEF StopsOld, Undisturbed, Ends, Steps
    <3> QED
      BY <2>1, <2>3, <2>4, <3>1 DEF Ways
  <2>9. CASE Identifies(m) \/ SetsIdentity(m) \/ StartsNew(m)
    BY <2>1, <2>9 DEF Identifies, SetsIdentity, StartsNew, Goes, Ends, Steps
  <2>10. CASE RemovesOld(m) \/ RemovesNew(m) \/ RestartsOld(m) \/ Drops(m)
    BY <2>1, <2>10 DEF RemovesOld, RemovesNew, RestartsOld, Drops, Ends, Steps, Guarded
  <2> QED
    BY <2>5, <2>6, <2>7, <2>8, <2>9, <2>10 DEF MoveDoes
<1> QED
  BY <1>2, <1>3 DEF UpUntil

LEMMA OthersKeepUp ==
  ASSUME RelocateTypeOK, Shape, UpUntil,
         \/ \E m \in Mover : Begins(m)
         \/ \E i \in Srv, f \in File : Writes(i, f)
         \/ \E op \in Act, i \in Srv : Acts(op, i)
         \/ UNCHANGED <<server, world, move, lost, hand>>
  PROVE  UpUntil'
<1> SUFFICES ASSUME NEW k \in Mover, Held(k)', ~Still(k)', Undisturbed(k)', Exists(move[k].old)'
             PROVE  server'[move'[k].old].st = "running"
  BY DEF UpUntil, Running
<1>1. ASSUME move'[k] = move[k], hand \subseteq hand', lost' = lost,
             server'[move[k].old].st = server[move[k].old].st
      PROVE  server'[move'[k].old].st = "running"
  <2>1. Held(k) /\ ~Still(k) /\ Undisturbed(k) /\ Exists(move[k].old)
    BY <1>1 DEF Held, Still, Undisturbed, Did, LostAt, Exists
  <2> QED
    BY <1>1, <2>1 DEF UpUntil, Running
<1>2. ASSUME NEW m \in Mover, Begins(m) PROVE move'[k] = move[k]
  BY <1>2 DEF Begins, OtherMoves, Held, Guarded
<1>3. CASE \E m \in Mover : Begins(m)
  BY <1>1, <1>2, <1>3 DEF Begins
<1>4. move[k].old \in Srv
  BY TypeParts DEF CallSet
<1>5. ASSUME NEW i \in Srv, NEW f \in File, Writes(i, f)
      PROVE  server'[move'[k].old].st = "running"
  <2>1. server'[move[k].old].st = server[move[k].old].st
    BY <1>4, <1>5 DEF Writes, OtherServers
  <2> QED
    BY <1>1, <1>5, <2>1 DEF Writes
<1>6. ASSUME NEW op \in Act, NEW i \in Srv, Acts(op, i)
      PROVE  server'[move'[k].old].st = "running"
  <2>1. move' = move /\ hand \subseteq hand' /\ lost' = lost /\ op # "stop"
    BY <1>6 DEF Acts, Undisturbed, Did
  <2>2. CASE move[k].old # i
    <3>1. server'[move[k].old] = server[move[k].old]
      BY <1>4, <1>6, <2>2 DEF Acts, Becomes, Vanishes, OtherServers
    <3> QED
      BY <1>1, <2>1, <3>1
  <2>3. CASE move[k].old = i
    BY <1>6, <2>1, <2>3 DEF Acts, Becomes, Vanishes, NoServer, Exists
  <2> QED
    BY <2>2, <2>3
<1> QED
  BY <1>1, <1>3, <1>5, <1>6

LEMMA NextKeepsUp ==
  ASSUME RelocateTypeOK, Shape, UpUntil, [RelocateNext]_relocateVars
  PROVE  UpUntil'
BY NextDoes, MoveKeepsUp, OthersKeepUp

\* What a failing move leaves.
LEMMA FailsUp ==
  ASSUME RelocateTypeOK, Shape, UpUntil, [RelocateNext]_relocateVars, NEW m \in Mover,
         Held(m), move'[m].at = "failed", move[m].ran, Undisturbed(m)', Exists(move[m].old)'
  PROVE  Running(move[m].old)'
<1> DEFINE o == move[m].old
<1>1. Ways /\ o \in Srv /\ move[m].at # "failed" /\ move[m].at # "idle"
  BY TypeParts DEF Shape, CallSet, Held, Guarded
<1>2. MoveDoes(m) /\ Elsewhere
  <2>1. ASSUME NEW k \in Mover, MoveDoes(k), Elsewhere PROVE MoveDoes(m) /\ Elsewhere
    BY <1>1, <2>1, MoveControl DEF Control, OtherMoves
  <2>2. ASSUME NEW k \in Mover, Begins(k) PROVE FALSE
    BY <1>1, <2>2 DEF Begins, OtherMoves
  <2> QED
    BY <1>1, <2>1, <2>2, NextDoes DEF Writes, Acts
<1>3. move'[m].old = o /\ server'[o].st # "none"
  BY <1>2, MoveControl DEF Control, Exists
<1> SUFFICES server'[o].st = "running"
  BY <1>3 DEF Running
<1>4. ASSUME move[m].pass # "last", ~move[m].again, server'[o] = server[o],
             move[m].at \in {"place", "create", "undo"}, move'[m].blind = move[m].blind
      PROVE  server'[o].st = "running"
  <2>1. ~Still(m) /\ Undisturbed(m) /\ Exists(o)
    BY <1>2, <1>3, <1>4 DEF Still, Undisturbed, Did, LostAt, Elsewhere, Exists
  <2> QED
    BY <1>4, <2>1 DEF UpUntil, Running
<1>5. CASE Places(m)
  BY <1>1, <1>4, <1>5 DEF Places, Ends, Steps, Ways
<1>6. CASE Creates(m) \/ RemovesNew(m)
  <2>1. move[m].at \in {"create", "undo"} /\ move'[m].blind = move[m].blind
    BY <1>6 DEF Creates, RemovesNew, Goes, Ends, Steps
  <2>2. move[m].pass # "last" /\ ~move[m].again
    <3>1. move[m].at = "undo" => ~move[m].again
      BY <1>6 DEF Creates, RemovesNew, Ends, Steps
    <3> QED
      BY <1>1, <2>1, <3>1 DEF Ways
  <2>3. server'[o] = server[o]
    BY <1>1, <2>1, NewIsNotOld, MoveTouches, <1>2 DEF Touches, Appears, Vanishes, OtherServers, Held
  <2> QED
    BY <1>4, <2>1, <2>2, <2>3
<1>7. CASE RestartsOld(m)
  BY <1>7 DEF RestartsOld, Becomes, Ends, Steps
<1>8. CASE \/ Guards(m) \/ Holds(m) \/ Makes(m) \/ Reads(m) \/ Lands(m) \/ StopsOld(m) \/ Identifies(m)
           \/ SetsIdentity(m) \/ StartsNew(m) \/ RemovesOld(m) \/ Drops(m)
  BY <1>8 DEF Guards, Holds, Makes, Reads, Lands, StopsOld, Identifies, SetsIdentity, StartsNew,
              RemovesOld, Drops, Goes, Ends, Steps, Held, Guarded
<1> QED
  BY <1>2, <1>5, <1>6, <1>7, <1>8 DEF MoveDoes

\* All or nothing: a move of a running server that reports a failure, and not
\* that the server is down, leaves it running.
THEOREM FailureLeavesUp == RelocateSpec => FailureRestores
<1> DEFINE Inv == RelocateTypeOK /\ Shape /\ UpUntil
<1>1. RelocateInit => Inv
  <2>1. ASSUME RelocateInit, NEW m \in Mover PROVE ~Held(m)
    BY <2>1 DEF RelocateInit, Call, Held, Guarded
  <2> QED
    BY <2>1, InitShape DEF UpUntil
<1>2. Inv /\ [RelocateNext]_relocateVars => Inv'
  BY NextKeepsShape, NextKeepsUp
<1>3. Inv /\ [RelocateNext]_relocateVars =>
        [\A m \in Mover :
           LET i == move[m].old IN
           move[m].at \in Guarded /\ move'[m].at = "failed" /\ move[m].ran
             /\ Undisturbed(m)' /\ Exists(i)' => Running(i)']_relocateVars
  BY FailsUp DEF Held
<1>4. RelocateSpec => []Inv
  BY <1>1, <1>2, PTL DEF RelocateSpec
<1> QED
  BY <1>3, <1>4, PTL DEF RelocateSpec, FailureRestores

-----------------------------------------------------------------------------
(* The second half of the invariant, Calm, holds while no move is blind,   *)
(* nobody starts a server by hand and no start loses its reply.            *)

Clean == ~Blind /\ ~Did("start") /\ ~LostAt("startnew")

\* The new server does not run before StartNew; one that could not be held
\* stopped has an address of its own.
NewDown(m) ==
  /\ Passing(m) \/ move[m].at \in {"stopold", "ident", "setid", "startnew"}
       => ~Running(move[m].new)
  /\ move[m].at \in {"undo", "again"} /\ Running(move[m].new) => New(m).addr = move[m].new

\* The old server stays down once the move took it down or found it down.
OldDown(m) == Still(m) => ~Running(move[m].old)

\* What a pass reads lies between what was there when it began and what is there
\* now, and is what is there now when the server is down.
Between(m) ==
  move[m].at \in {"read", "land"} /\ Exists(move[m].old) =>
    \A f \in File :
      /\ move[m].began[f] <= move[m].seen[f] /\ move[m].seen[f] <= Old(m).files[f]
      /\ move[m].pass # "full" => move[m].since[f] <= move[m].began[f]
      /\ Still(m) => move[m].seen[f] = Old(m).files[f]

\* A further pass is to follow or under way.
Further(m) == (Passing(m) /\ move[m].pass # "full") \/ move[m].at = "stopold"

\* What has not changed since the last pass began has arrived.
Synced(m) ==
  Further(m) /\ Exists(move[m].old) =>
    \A f \in File :
      /\ move[m].at \in {"make", "stopold"} => move[m].since[f] <= Old(m).files[f]
      /\ Exists(move[m].new) /\ Old(m).files[f] = move[m].since[f] => New(m).files[f] = Old(m).files[f]

\* After the last pass the two servers are alike.
Alike(m) ==
  move[m].at \in {"ident", "setid", "startnew"} /\ Exists(move[m].old) /\ Exists(move[m].new)
    => New(m).files = Old(m).files

\* Move m took its server while it ran at First's address, or is to run another
\* server there.
Carries(m) ==
  /\ move[m].ran /\ Held(m)
  /\ \/ Old(m).addr = First
     \/ move[m].at = "setid" /\ move[m].addr = First
     \/ move[m].at = "startnew" /\ New(m).addr = First

\* Such a move has the players' world.
HasWorld(m) ==
  /\ Carries(m) /\ move[m].at # "removeold" /\ Exists(move[m].old) /\ Old(m).addr = First
       => Old(m).files = world
  /\ move[m].at = "setid" /\ move[m].ran /\ move[m].addr = First /\ Exists(move[m].new)
       => New(m).files = world
  /\ move[m].at = "startnew" /\ Exists(move[m].new) /\ New(m).addr = First
       => New(m).files = world

Sound(m) == NewDown(m) /\ OldDown(m) /\ Between(m) /\ Synced(m) /\ Alike(m) /\ HasWorld(m)

\* Server i runs at First's address.
Serves(i) == Running(i) /\ server[i].addr = First

\* One server at most runs there, one move at most has it in hand, and what runs
\* there meanwhile is the old server, or the new one that is to replace it.
OneServes ==
  /\ \A i, j \in Srv : Serves(i) /\ Serves(j) => i = j
  /\ \A m, k \in Mover : Carries(m) /\ Carries(k) => m = k
  /\ \A m \in Mover, i \in Srv :
       Carries(m) /\ Serves(i)
         => i = move[m].old \/ (move[m].at = "removeold" /\ i = move[m].new)

\* And it holds what players wrote.
ServesWorld == \A i \in Srv : Serves(i) => server[i].files = world

Calm == (\A m \in Mover : Sound(m)) /\ OneServes /\ ServesWorld

-----------------------------------------------------------------------------
(* Calm is kept by the steps of a move.                                    *)

\* What is no longer clean never is again.
LEMMA CleanStays ==
  ASSUME RelocateTypeOK, Shape, [RelocateNext]_relocateVars, Clean'
  PROVE  /\ Clean
         /\ \A k \in Mover : ~move[k].blind /\ ~move'[k].blind
<1>1. \A k \in Mover : ~move'[k].blind
  BY DEF Clean, Blind
<1>2. \A k \in Mover : move[k].blind => move[k].at # "idle"
  BY DEF Shape, Ways
<1>3. lost \subseteq lost' /\ hand \subseteq hand'
  BY NextDoes DEF Elsewhere, Begins, Writes, Acts
<1>4. \A k \in Mover : ~move[k].blind
  <2>1. ASSUME NEW m \in Mover, MoveDoes(m) PROVE \A k \in Mover : ~move[k].blind
    BY <1>1, <2>1, MoveControl DEF Control, OtherMoves
  <2>2. ASSUME NEW m \in Mover, Begins(m) PROVE \A k \in Mover : ~move[k].blind
    BY <1>1, <1>2, <2>2 DEF Begins, OtherMoves
  <2> QED
    BY <1>1, <2>1, <2>2, NextDoes DEF Writes, Acts
<1> QED
  BY <1>1, <1>3, <1>4 DEF Clean, Blind, Did, LostAt

\* What is known of a move that does not step stays true when its servers and
\* the world stay as they are.
LEMMA SoundStays ==
  ASSUME NEW k \in Mover, Sound(k), move'[k] = move[k],
         Held(k) => server'[move[k].old] = server[move[k].old],
         Held(k) /\ move[k].at # "place" => server'[move[k].new] = server[move[k].new],
         world' = world
  PROVE  Sound(k)' /\ (Carries(k)' => Carries(k))
<1>1. NewDown(k)'
  BY DEF Sound, NewDown, Passing, Running, New, Held, Guarded
<1>2. OldDown(k)'
  BY DEF Sound, OldDown, Still, Running, Held
<1>3. Between(k)'
  BY DEF Sound, Between, Still, Exists, Old, Held, Guarded
<1>4. Synced(k)'
  BY DEF Sound, Synced, Further, Passing, Exists, Old, New, Held, Guarded
<1>5. Alike(k)'
  BY DEF Sound, Alike, Exists, Old, New, Held, Guarded
<1>6. Carries(k)' => Carries(k)
  BY DEF Carries, Held, Old, New, Guarded
<1>7. HasWorld(k)'
  BY <1>6 DEF Sound, HasWorld, Exists, Old, New, Held, Carries, Guarded
<1> QED
  BY <1>1, <1>2, <1>3, <1>4, <1>5, <1>6, <1>7 DEF Sound

LEMMA OthersStay ==
  ASSUME RelocateTypeOK, Shape, NEW m \in Mover, MoveDoes(m), Elsewhere,
         \A k \in Mover : ~move[k].blind, NEW k \in Mover \ {m}, Sound(k)
  PROVE  Sound(k)' /\ (Carries(k)' => Carries(k))
<1>1. move'[k] = move[k]
  BY MoveControl DEF Control, OtherMoves
<1>2. Held(k) => server'[move[k].old] = server[move[k].old]
  BY LeavesOld
<1>3. ASSUME Held(k), move[k].at # "place" PROVE server'[move[k].new] = server[move[k].new]
  <2>1. move[k].new # First /\ move[k].at # "moved"
    BY <1>3 DEF Shape, NewNamed, Held, Guarded
  <2> QED
    BY <2>1, LeavesNew
<1> QED
  BY <1>1, <1>2, <1>3, SoundStays DEF Elsewhere

\* Where the step of a move leaves its own servers.
LEMMA OwnServers ==
  ASSUME RelocateTypeOK, Shape, NEW m \in Mover, MoveDoes(m)
  PROVE  /\ move[m].old \in Srv /\ move[m].new \in Srv
         /\ move[m].at \notin {"stopold", "again", "removeold"}
              => server'[move[m].old] = server[move[m].old]
         /\ move[m].at \in {"guard", "place", "make", "read", "stopold", "ident", "removeold", "again"}
              => move[m].at \in {"guard", "place"} \/ server'[move[m].new] = server[move[m].new]
<1>1. move[m].old \in Srv /\ move[m].new \in Srv /\ Touches(m)
  BY TypeParts, MoveTouches DEF CallSet
<1>2. move[m].at \in Guarded \ {"place"} => move[m].new # move[m].old
  BY NewIsNotOld DEF Held
<1> QED
  BY <1>1, <1>2 DEF Touches, Becomes, Appears, Vanishes, Lays, Readdresses, OtherServers, Guarded

LEMMA MoveKeepsNewDown ==
  ASSUME RelocateTypeOK, Shape, NEW m \in Mover, MoveDoes(m), Sound(m), ~LostAt("startnew")'
  PROVE  NewDown(m)'
<1> DEFINE i == move[m].new
<1>1. NewDown(m) /\ OwnAddress /\ i \in Srv
  BY OwnServers DEF Sound, Shape
<1>2. SUFFICES
        /\ move'[m].at \in {"make", "read", "land", "stopold", "ident", "setid", "startnew"}
             => server'[move'[m].new].st # "running"
        /\ move'[m].at \in {"undo", "again"} /\ server'[move'[m].new].st = "running"
             => server'[move'[m].new].addr = move'[m].new
  BY DEF NewDown, Passing, Running, New
<1>3. CASE Guards(m) \/ Places(m) \/ Creates(m) \/ RemovesOld(m) \/ RestartsOld(m) \/ Drops(m)
  BY <1>3 DEF Guards, Places, Creates, RemovesOld, RestartsOld, Drops, Goes, Ends, Steps
<1>4. CASE Holds(m)
  <2>1. server[i].addr = i
    BY <1>1, <1>4 DEF Holds, OwnAddress, New
  <2> QED
    BY <1>4, <2>1 DEF Holds, Ends, Steps, Becomes
<1>5. CASE Makes(m) \/ Reads(m) \/ Identifies(m)
  BY <1>1, <1>5 DEF Makes, Reads, Identifies, Ends, Steps, NewDown, Passing, Running
<1>6. CASE Lands(m)
  BY <1>1, <1>6 DEF Lands, Lays, Ends, Steps, NewDown, Passing, Running
<1>7. CASE StopsOld(m)
  <2>1. server'[i] = server[i] /\ server[i].st # "running"
    BY <1>1, <1>7, OwnServers DEF StopsOld, NewDown, Running
  <2> QED
    BY <1>7, <2>1 DEF StopsOld, Ends, Steps
<1>8. CASE SetsIdentity(m)
  BY <1>1, <1>8 DEF SetsIdentity, Readdresses, Goes, Ends, Steps, NewDown, Running
<1>9. CASE StartsNew(m)
  BY <1>1, <1>9 DEF StartsNew, Goes, Ends, Steps, NewDown, Running
<1>10. CASE RemovesNew(m)
  BY <1>1, <1>10 DEF RemovesNew, Ends, Steps, Vanishes, NoServer, NewDown, Running, New
<1> QED
  BY <1>3, <1>4, <1>5, <1>6, <1>7, <1>8, <1>9, <1>10 DEF MoveDoes

\* A move comes to be still by taking its server down, or by finding it down.
LEMMA BecomesStill ==
  ASSUME RelocateTypeOK, Shape, NEW m \in Mover, MoveDoes(m), Still(m)'
  PROVE  \/ Still(m)
         \/ move[m].at = "guard" /\ Guards(m) /\ ~move[m].ran
         \/ move[m].at = "stopold" /\ Becomes(move[m].old, "stopped")
<1>1. Ways /\ move[m].ran \in BOOLEAN
  BY TypeParts DEF Shape, CallSet
<1>2. /\ move'[m].at \in Guarded /\ move'[m].ran = move[m].ran
      /\ \/ ~move[m].ran \/ move'[m].pass = "last" \/ move'[m].again
         \/ move'[m].at \in {"ident", "setid", "startnew", "removeold", "again"}
  BY MoveControl DEF Still, Held, Control
<1>3. CASE Guards(m)
  BY <1>1, <1>2, <1>3 DEF Guards, Ends, Steps, Guarded, Ways
<1>4. CASE Places(m) \/ Creates(m)
  BY <1>1, <1>2, <1>4 DEF Places, Creates, Goes, Ends, Steps, Guarded, Ways, Still, Held
<1>5. CASE Holds(m) \/ Makes(m)
  BY <1>1, <1>2, <1>5 DEF Holds, Makes, Ends, Steps, Guarded, Ways, Still, Held
<1>6. CASE Reads(m)
  BY <1>1, <1>2, <1>6 DEF Reads, Steps, Guarded, Ways, Still, Held
<1>7. CASE Lands(m)
  BY <1>1, <1>2, <1>7 DEF Lands, Ends, Steps, Guarded, Ways, Still, Held
<1>8. CASE StopsOld(m)
  BY <1>1, <1>2, <1>8 DEF StopsOld, Ends, Steps, Guarded, Ways, Still, Held
<1>9. CASE Identifies(m) \/ SetsIdentity(m) \/ StartsNew(m)
  BY <1>9 DEF Identifies, SetsIdentity, StartsNew, Guarded, Still, Held
<1>10. CASE RemovesOld(m) \/ RestartsOld(m) \/ Drops(m)
  BY <1>2, <1>10 DEF RemovesOld, RestartsOld, Drops, Ends, Steps, Guarded
<1>11. CASE RemovesNew(m)
  BY <1>1, <1>2, <1>11 DEF RemovesNew, Ends, Steps, Guarded, Still, Held
<1> QED
  BY <1>3, <1>4, <1>5, <1>6, <1>7, <1>8, <1>9, <1>10, <1>11 DEF MoveDoes

LEMMA MoveKeepsOldDown ==
  ASSUME RelocateTypeOK, Shape, NEW m \in Mover, MoveDoes(m), Sound(m), ~move'[m].blind
  PROVE  OldDown(m)'
<1> DEFINE o == move[m].old
<1> SUFFICES ASSUME Still(m)' PROVE server'[o].st # "running"
  BY MoveControl DEF OldDown, Running, Control
<1>1. OldDown(m)
  BY DEF Sound
<1>2. CASE Still(m)
  <2>1. server[o].st # "running" /\ move[m].at \in Guarded
    BY <1>1, <1>2 DEF OldDown, Running, Still, Held
  <2>2. CASE move[m].at \notin {"stopold", "again", "removeold"}
    BY <2>1, <2>2, OwnServers
  <2>3. CASE move[m].at \in {"again", "removeold"}
    <3>1. move'[m].at \notin Guarded
      BY <2>3 DEF MoveDoes, Guards, Places, Creates, Holds, Makes, Reads, Lands, StopsOld,
         Identifies, SetsIdentity, StartsNew, RemovesOld, RemovesNew, RestartsOld, Drops, Ends,
         Steps, Guarded
    <3> QED
      BY <3>1 DEF Still, Held
  <2>4. CASE move[m].at = "stopold"
    BY <2>1, <2>4 DEF MoveDoes, Guards, Places, Creates, Holds, Makes, Reads, Lands, StopsOld,
       Identifies, SetsIdentity, StartsNew, RemovesOld, RemovesNew, RestartsOld, Drops, Becomes
  <2> QED
    BY <2>2, <2>3, <2>4
<1>3. CASE move[m].at = "guard" /\ Guards(m) /\ ~move[m].ran
  BY <1>3 DEF Guards, Ends, Steps, Still, Held, Guarded, Running
<1>4. CASE move[m].at = "stopold" /\ Becomes(move[m].old, "stopped")
  BY <1>4 DEF Becomes
<1> QED
  BY <1>2, <1>3, <1>4, BecomesStill

\* Files are counted in natural numbers.
LEMMA FilesAreNumbers ==
  ASSUME RelocateTypeOK
  PROVE  /\ \A f \in File : world[f] \in Nat
         /\ \A i \in Srv, f \in File : server[i].files[f] \in Nat
         /\ \A k \in Mover, f \in File :
              move[k].since[f] \in Nat /\ move[k].began[f] \in Nat /\ move[k].seen[f] \in Nat
BY TypeParts, RelocateAssumption DEF Files, ServerSet, CallSet

\* Files that agree on every file are the same.
LEMMA FilesAgree ==
  ASSUME NEW a \in Files, NEW b \in Files, \A f \in File : a[f] = b[f]
  PROVE  a = b
BY DEF Files

LEMMA MoveKeepsBetween ==
  ASSUME RelocateTypeOK, Shape, NEW m \in Mover, MoveDoes(m), Sound(m)
  PROVE  Between(m)'
<1> DEFINE o == move[m].old
<1>1. SUFFICES ASSUME move'[m].at \in {"read", "land"}, server'[o].st # "none", NEW f \in File
               PROVE  /\ move'[m].began[f] <= move'[m].seen[f]
                      /\ move'[m].seen[f] <= server'[o].files[f]
                      /\ move'[m].pass # "full" => move'[m].since[f] <= move'[m].began[f]
                      /\ Still(m)' => move'[m].seen[f] = server'[o].files[f]
  BY MoveControl DEF Between, Exists, Old, Control
<1>2. Makes(m) \/ Reads(m)
  BY <1>1 DEF MoveDoes, Guards, Places, Creates, Holds, Makes, Reads, Lands, StopsOld, Identifies,
     SetsIdentity, StartsNew, RemovesOld, RemovesNew, RestartsOld, Drops, Goes, Ends, Steps, Guarded
<1>3. server' = server /\ o \in Srv /\ Exists(o)
  BY <1>1, <1>2, OwnServers DEF Makes, Reads, Exists
<1>4. server[o].files[f] \in Nat
  BY <1>1, <1>3, FilesAreNumbers
<1>5. CASE Makes(m)
  <2>1. /\ move'[m].began = server[o].files /\ move'[m].seen = server[o].files
        /\ move'[m].pass = move[m].pass /\ move'[m].since = move[m].since /\ move[m].at = "make"
    BY <1>1, <1>5 DEF Makes, Ends, Steps, Old
  <2>2. move[m].pass # "full" => move[m].since[f] <= server[o].files[f]
    BY <1>3, <2>1 DEF Sound, Synced, Further, Passing, Old
  <2> QED
    BY <1>3, <1>4, <2>1, <2>2
<1>6. CASE Reads(m)
  <2>1. /\ move[m].at = "read" /\ move'[m].began = move[m].began /\ move'[m].since = move[m].since
        /\ move'[m].pass = move[m].pass
        /\ move'[m].seen[f] \in {move[m].seen[f], server[o].files[f]}
    BY <1>6 DEF Reads, Old
  <2>2. Still(m)' => Still(m)
    BY <2>1, BecomesStill
  <2>3. /\ move[m].began[f] <= move[m].seen[f] /\ move[m].seen[f] <= server[o].files[f]
        /\ move[m].pass # "full" => move[m].since[f] <= move[m].began[f]
        /\ Still(m) => move[m].seen[f] = server[o].files[f]
    BY <1>3, <2>1 DEF Sound, Between, Old
  <2>4. move[m].began[f] \in Nat /\ move[m].seen[f] \in Nat
    BY FilesAreNumbers
  <2> QED
    BY <1>3, <1>4, <2>1, <2>2, <2>3, <2>4
<1> QED
  BY <1>2, <1>5, <1>6

\* A pass that landed leaves nothing behind but what has changed since it began.
LEMMA PassLands ==
  ASSUME RelocateTypeOK, Shape, NEW m \in Mover, Sound(m), move[m].at = "land", Lays(m),
         Exists(move[m].old), NEW f \in File
  PROVE  /\ Old(m).files[f] = move[m].began[f] => server'[move[m].new].files[f] = Old(m).files[f]
         /\ Still(m) => server'[move[m].new].files[f] = Old(m).files[f]
         /\ move[m].began[f] <= Old(m).files[f]
<1>1. /\ Old(m).files[f] \in Nat /\ move[m].began[f] \in Nat /\ move[m].seen[f] \in Nat
      /\ move[m].since[f] \in Nat
  BY FilesAreNumbers, TypeParts DEF Old, CallSet
<1>2. /\ move[m].began[f] <= move[m].seen[f] /\ move[m].seen[f] <= Old(m).files[f]
      /\ move[m].pass # "full" => move[m].since[f] <= move[m].began[f]
      /\ Still(m) => move[m].seen[f] = Old(m).files[f]
  BY DEF Sound, Between
<1>3. server'[move[m].new].files[f] =
        IF move[m].pass # "full" /\ move[m].seen[f] = move[m].since[f]
        THEN New(m).files[f] ELSE move[m].seen[f]
  BY DEF Lays, New
<1>4. move[m].pass # "full" /\ Old(m).files[f] = move[m].since[f] => New(m).files[f] = Old(m).files[f]
  BY DEF Sound, Synced, Further, Passing, Lays, Stopped, Exists
<1>5. move[m].seen[f] = Old(m).files[f] => server'[move[m].new].files[f] = Old(m).files[f]
  BY <1>1, <1>2, <1>3, <1>4
<1> QED
  BY <1>1, <1>2, <1>5

LEMMA MoveKeepsSynced ==
  ASSUME RelocateTypeOK, Shape, NEW m \in Mover, MoveDoes(m), Sound(m)
  PROVE  Synced(m)'
<1> DEFINE o == move[m].old
           i == move[m].new
<1>1. SUFFICES ASSUME Further(m)', server'[o].st # "none", NEW f \in File
               PROVE  /\ move'[m].at \in {"make", "stopold"} => move'[m].since[f] <= server'[o].files[f]
                      /\ server'[move'[m].new].st # "none" /\ server'[o].files[f] = move'[m].since[f]
                           => server'[move'[m].new].files[f] = server'[o].files[f]
  BY MoveControl DEF Synced, Exists, Old, New, Control
<1>2. Makes(m) \/ Reads(m) \/ Lands(m) \/ StopsOld(m)
  BY <1>1 DEF Further, Passing, MoveDoes, Guards, Places, Creates, Holds, Makes, Reads, Lands, StopsOld,
     Identifies, SetsIdentity, StartsNew, RemovesOld, RemovesNew, RestartsOld, Drops, Goes, Ends,
     Steps, Guarded
<1>3. o \in Srv /\ i \in Srv /\ move'[m].new = i
  BY <1>2, OwnServers, MoveControl DEF Control, Makes, Reads, Lands, StopsOld
<1>4. CASE Makes(m) \/ Reads(m)
  <2>1. /\ server' = server /\ move'[m].at \notin {"make", "stopold"} /\ Exists(o)
        /\ move'[m].since = move[m].since /\ Further(m)
    BY <1>1, <1>4 DEF Makes, Reads, Ends, Steps, Further, Passing, Exists
  <2> QED
    BY <1>3, <2>1 DEF Sound, Synced, Old, New, Exists
<1>5. CASE Lands(m)
  <2>1. move[m].at = "land" /\ Lays(m) /\ move'[m].since = move[m].began
    BY <1>1, <1>5 DEF Lands, Ends, Steps, Further, Passing
  <2>2. server'[o] = server[o] /\ Exists(o)
    BY <1>1, <2>1, OwnServers DEF Exists
  <2> QED
    BY <1>3, <2>1, <2>2, PassLands DEF Old
<1>6. CASE StopsOld(m)
  <2>1. /\ move[m].at = "stopold" /\ Becomes(o, "stopped") /\ Exists(o)
        /\ move'[m].since = move[m].since
    BY <1>1, <1>6 DEF StopsOld, Ends, Steps, Further, Passing
  <2>2. server'[o].files = server[o].files /\ server'[i] = server[i]
    BY <2>1, OwnServers DEF Becomes
  <2> QED
    BY <1>3, <2>1, <2>2 DEF Sound, Synced, Further, Old, New, Exists
<1> QED
  BY <1>2, <1>4, <1>5, <1>6

LEMMA MoveKeepsAlike ==
  ASSUME RelocateTypeOK, RelocateTypeOK', Shape, NEW m \in Mover, MoveDoes(m), Sound(m)
  PROVE  Alike(m)'
<1> DEFINE o == move[m].old
           i == move[m].new
<1>1. SUFFICES ASSUME move'[m].at \in {"ident", "setid", "startnew"}, server'[o].st # "none",
                      server'[move'[m].new].st # "none"
               PROVE  server'[move'[m].new].files = server'[o].files
  BY MoveControl DEF Alike, Exists, Old, New, Control
<1>2. Lands(m) \/ Identifies(m) \/ SetsIdentity(m)
  BY <1>1 DEF MoveDoes, Guards, Places, Creates, Holds, Makes, Reads, Lands, StopsOld, Identifies,
     SetsIdentity, StartsNew, RemovesOld, RemovesNew, RestartsOld, Drops, Goes, Ends, Steps, Guarded
<1>3. o \in Srv /\ i \in Srv /\ move'[m].new = i
  BY <1>2, OwnServers, MoveControl DEF Control, Lands, Identifies, SetsIdentity
<1>4. server'[o] = server[o] /\ Exists(o)
  BY <1>1, <1>2, OwnServers DEF Lands, Identifies, SetsIdentity, Exists
<1>5. CASE Lands(m)
  <2>1. /\ move[m].at = "land" /\ Lays(m) /\ (move[m].pass = "last" \/ ~move[m].ran)
    BY <1>1, <1>5 DEF Lands, Ends, Steps
  <2>2. Still(m)
    BY <2>1 DEF Still, Held, Guarded
  <2>3. \A f \in File : server'[i].files[f] = server'[o].files[f]
    BY <1>4, <2>1, <2>2, PassLands DEF Old
  <2>4. server'[i].files \in Files /\ server'[o].files \in Files
    BY <1>3 DEF RelocateTypeOK
  <2> QED
    BY <1>3, <2>3, <2>4, FilesAgree
<1>6. CASE Identifies(m) \/ SetsIdentity(m)
  <2>1. move[m].at \in {"ident", "setid"}
    BY <1>6 DEF Identifies, SetsIdentity
  <2>2. server'[i].files = server[i].files /\ Exists(i)
    BY <1>1, <1>3, <1>6 DEF Identifies, SetsIdentity, Readdresses, Exists
  <2> QED
    BY <1>3, <1>4, <2>1, <2>2 DEF Sound, Alike, Old, New
<1> QED
  BY <1>2, <1>5, <1>6

\* A move that has the old server in hand had it already, or takes it running.
LEMMA ComesToCarry ==
  ASSUME RelocateTypeOK, Shape, NEW m \in Mover, MoveDoes(m), ~move'[m].blind, Carries(m)'
  PROVE  \/ Carries(m) /\ move[m].at # "removeold"
         \/ Guards(m) /\ move[m].at = "guard" /\ Serves(move[m].old)
            /\ \A k \in Mover : Held(k) => move[k].old # move[m].old
<1> DEFINE o == move[m].old
           i == move[m].new
<1>1. /\ move'[m].ran /\ move'[m].at \in Guarded
      /\ \/ server'[o].addr = First
         \/ move'[m].at = "setid" /\ move'[m].addr = First
         \/ move'[m].at = "startnew" /\ server'[move'[m].new].addr = First
  BY MoveControl DEF Carries, Held, Old, New, Control
<1>2. move[m].ran /\ o \in Srv /\ i \in Srv
  BY <1>1, MoveControl, OwnServers DEF Control
<1>3. CASE Guards(m)
  <2>1. /\ server' = server /\ move[m].at = "guard" /\ move'[m].at = "place" /\ Running(o) = move[m].ran
        /\ \A k \in Mover : Held(k) => move[k].old # move[m].old
    BY <1>1, <1>3 DEF Guards, Ends, Steps, Guarded
  <2> QED
    BY <1>1, <1>2, <1>3, <2>1 DEF Serves
<1>4. ASSUME ~Guards(m) PROVE move[m].at \in Guarded \ {"removeold", "again"}
  BY <1>1, <1>4 DEF MoveDoes, Places, Creates, Holds, Makes, Reads, Lands, StopsOld, Identifies,
     SetsIdentity, StartsNew, RemovesOld, RemovesNew, RestartsOld, Drops, Ends, Steps, Guarded
<1>5. ASSUME ~Guards(m), server'[o].addr = First PROVE Carries(m)
  <2>1. server'[o].addr = server[o].addr
    BY <1>2, <1>4, <1>5, OwnServers DEF MoveDoes, Guards, Places, Creates, Holds, Makes, Reads, Lands,
       StopsOld, Identifies, SetsIdentity, StartsNew, RemovesOld, RemovesNew, RestartsOld, Drops, Becomes
  <2> QED
    BY <1>2, <1>4, <1>5, <2>1 DEF Carries, Held, Old
<1>6. ASSUME move'[m].at = "setid", move'[m].addr = First PROVE Carries(m)
  <2>1. Identifies(m)
    BY <1>6 DEF MoveDoes, Guards, Places, Creates, Holds, Makes, Reads, Lands, StopsOld, Identifies,
       SetsIdentity, StartsNew, RemovesOld, RemovesNew, RestartsOld, Drops, Goes, Ends, Steps
  <2>2. Old(m).addr = First /\ move[m].at = "ident"
    BY <1>6, <2>1 DEF Identifies, Ends, Steps
  <2> QED
    BY <1>2, <2>2 DEF Carries, Held, Guarded
<1>7. ASSUME move'[m].at = "startnew", server'[move'[m].new].addr = First PROVE Carries(m)
  <2>1. SetsIdentity(m)
    BY <1>7 DEF MoveDoes, Guards, Places, Creates, Holds, Makes, Reads, Lands, StopsOld, Identifies,
       SetsIdentity, StartsNew, RemovesOld, RemovesNew, RestartsOld, Drops, Goes, Ends, Steps
  <2>2. move[m].at = "setid" /\ move[m].addr = First
    BY <1>7, <2>1 DEF SetsIdentity, Readdresses, Goes, Ends, Steps
  <2> QED
    BY <1>2, <2>2 DEF Carries, Held, Guarded
<1> QED
  BY <1>1, <1>3, <1>4, <1>5, <1>6, <1>7

LEMMA MoveKeepsHasWorld ==
  ASSUME RelocateTypeOK, Shape, NEW m \in Mover, MoveDoes(m), Sound(m), ServesWorld,
         ~move'[m].blind, world' = world
  PROVE  HasWorld(m)'
<1> DEFINE o == move[m].old
           i == move[m].new
<1>1. o \in Srv /\ i \in Srv /\ move'[m].old = o /\ HasWorld(m) /\ Alike(m)
  BY OwnServers, MoveControl DEF Control, Sound
<1>2. ASSUME Carries(m)', server'[o].st # "none", server'[o].addr = First
      PROVE  server'[o].files = world
  <2>1. CASE Guards(m) /\ Serves(o)
    BY <1>1, <2>1 DEF Guards, ServesWorld
  <2>2. CASE Carries(m) /\ move[m].at # "removeold"
    <3>1. Held(m) /\ Held(m)'
      BY <1>2, <2>2 DEF Carries
    <3>2. move[m].at # "again"
      BY <3>1 DEF MoveDoes, Guards, Places, Creates, Holds, Makes, Reads, Lands, StopsOld, Identifies,
         SetsIdentity, StartsNew, RemovesOld, RemovesNew, RestartsOld, Drops, Ends, Steps, Held, Guarded
    <3>3. move[m].at = "stopold" /\ server' # server => Exists(o) /\ Becomes(o, "stopped")
      BY DEF MoveDoes, Guards, Places, Creates, Holds, Makes, Reads, Lands, StopsOld, Identifies,
         SetsIdentity, StartsNew, RemovesOld, RemovesNew, RestartsOld, Drops
    <3>4. \/ server'[o] = server[o]
          \/ Exists(o) /\ server'[o].addr = server[o].addr /\ server'[o].files = server[o].files
      BY <2>2, <3>2, <3>3, OwnServers DEF Becomes
    <3> QED
      BY <1>1, <1>2, <2>2, <3>4 DEF HasWorld, Exists, Old
  <2> QED
    BY <1>2, <2>1, <2>2, ComesToCarry
<1>3. ASSUME move'[m].at = "setid", move'[m].ran, move'[m].addr = First,
             server'[move'[m].new].st # "none"
      PROVE  server'[move'[m].new].files = world
  <2>1. Identifies(m)
    BY <1>3 DEF MoveDoes, Guards, Places, Creates, Holds, Makes, Reads, Lands, StopsOld, Identifies,
       SetsIdentity, StartsNew, RemovesOld, RemovesNew, RestartsOld, Drops, Goes, Ends, Steps
  <2>2. /\ Old(m).addr = First /\ move[m].at = "ident" /\ server' = server /\ move'[m].new = i
        /\ Exists(o) /\ Exists(i) /\ move[m].ran
    BY <1>3, <2>1 DEF Identifies, Ends, Steps, Exists
  <2>3. Carries(m)
    BY <2>2 DEF Carries, Held, Guarded
  <2>4. Old(m).files = world
    BY <1>1, <2>2, <2>3 DEF HasWorld
  <2>5. New(m).files = Old(m).files
    BY <1>1, <2>2 DEF Alike
  <2> QED
    BY <2>2, <2>4, <2>5 DEF New
<1>4. ASSUME move'[m].at = "startnew", server'[move'[m].new].st # "none",
             server'[move'[m].new].addr = First
      PROVE  server'[move'[m].new].files = world
  <2>1. SetsIdentity(m)
    BY <1>4 DEF MoveDoes, Guards, Places, Creates, Holds, Makes, Reads, Lands, StopsOld, Identifies,
       SetsIdentity, StartsNew, RemovesOld, RemovesNew, RestartsOld, Drops, Goes, Ends, Steps
  <2>2. /\ move[m].at = "setid" /\ move[m].ran /\ move[m].addr = First /\ Stopped(i)
        /\ move'[m].new = i /\ server'[i].files = server[i].files
    BY <1>4, <2>1 DEF SetsIdentity, Readdresses, Goes, Ends, Steps
  <2>3. New(m).files = world
    BY <1>1, <2>2 DEF HasWorld, Stopped, Exists
  <2> QED
    BY <2>2, <2>3 DEF New
<1> QED
  BY <1>1, <1>2, <1>3, <1>4 DEF HasWorld, Exists, Old, New

LEMMA MoveKeepsSound ==
  ASSUME RelocateTypeOK, RelocateTypeOK', Shape, NEW m \in Mover, MoveDoes(m), Elsewhere, Clean',
         ServesWorld, \A k \in Mover : ~move[k].blind /\ Sound(k)
  PROVE  \A k \in Mover : Sound(k)'
<1>1. ~move'[m].blind /\ ~LostAt("startnew")' /\ world' = world
  BY DEF Clean, Blind, Elsewhere
<1>2. Sound(m)'
  BY <1>1, MoveKeepsNewDown, MoveKeepsOldDown, MoveKeepsBetween, MoveKeepsSynced, MoveKeepsAlike,
     MoveKeepsHasWorld DEF Sound
<1> QED
  BY <1>2, OthersStay

\* A server comes to run at the address because a move starts it there: its new
\* server, or its old one again.  Nothing else ran there then.
LEMMA ComesToServe ==
  ASSUME RelocateTypeOK, Shape, NEW m \in Mover, MoveDoes(m), Sound(m), OneServes,
         NEW x \in Srv, Serves(x)'
  PROVE  \/ Serves(x) /\ server'[x].files = server[x].files
         \/ /\ Carries(m) /\ \A j \in Srv : ~Serves(j)
            /\ \A j \in Srv \ {x} : ~Serves(j)'
            /\ \/ x = move[m].new /\ move[m].at = "startnew"
               \/ x = move[m].old /\ move[m].at = "again" /\ move'[m].at \notin Guarded
            /\ server'[x].files = server[x].files /\ server'[x].addr = server[x].addr /\ Exists(x)
<1> DEFINE o == move[m].old
           i == move[m].new
<1>1. /\ o \in Srv /\ i \in Srv /\ Ways /\ Touches(m) /\ NewNamed
      /\ server'[x].st = "running" /\ server'[x].addr = First
  BY OwnServers, MoveTouches DEF Shape, Serves, Running
<1>2. ASSUME move[m].at \in {"startnew", "again"}, Carries(m) PROVE \A j \in Srv : ~Serves(j)
  <2>1. ~Running(o)
    BY <1>2 DEF Sound, OldDown, Still, Held, Guarded
  <2> QED
    BY <1>2, <2>1 DEF OneServes, Serves
<1>3. CASE server' = server
  BY <1>1, <1>3 DEF Serves, Running
<1>4. CASE move[m].at \in {"stopold", "hold"}
  BY <1>1, <1>4 DEF MoveDoes, Guards, Places, Creates, Holds, Makes, Reads, Lands, StopsOld, Identifies,
     SetsIdentity, StartsNew, RemovesOld, RemovesNew, RestartsOld, Drops, Becomes, OtherServers,
     Serves, Running
<1>5. CASE move[m].at = "create"
  <2>1. i # First
    BY <1>1, <1>5 DEF NewNamed, Held, Guarded
  <2> QED
    BY <1>1, <1>3, <1>5, <2>1 DEF Touches, Appears, OtherServers, Serves, Running
<1>6. CASE move[m].at \in {"removeold", "undo"}
  BY <1>1, <1>6 DEF Touches, Vanishes, NoServer, OtherServers, Serves, Running
<1>7. CASE move[m].at \in {"land", "setid"}
  BY <1>1, <1>7 DEF Touches, Lays, Readdresses, Stopped, OtherServers, Serves, Running
<1>8. CASE move[m].at = "again"
  <2>1. CASE x # o
    BY <1>1, <1>8, <2>1 DEF Touches, Becomes, OtherServers, Serves, Running
  <2>2. CASE x = o /\ server' # server
    <3>1. RestartsOld(m) /\ Stopped(o) /\ Becomes(o, "running") /\ move'[m].at \in {"failed", "down"}
      BY <1>8, <2>2 DEF MoveDoes, Guards, Places, Creates, Holds, Makes, Reads, Lands, StopsOld,
         Identifies, SetsIdentity, StartsNew, RemovesOld, RemovesNew, RestartsOld, Drops, Ends, Steps
    <3>2. Carries(m)
      BY <1>1, <1>8, <2>2, <3>1 DEF Ways, Carries, Held, Guarded, Becomes, Old
    <3>3. \A j \in Srv \ {x} : ~Serves(j)'
      BY <1>2, <1>8, <2>2, <3>1, <3>2 DEF Becomes, OtherServers, Serves, Running
    <3> QED
      BY <1>2, <1>8, <2>2, <3>1, <3>2, <3>3 DEF Becomes, Stopped, Exists, Guarded
  <2> QED
    BY <1>3, <2>1, <2>2
<1>9. CASE move[m].at = "startnew"
  <2>1. CASE x # i
    BY <1>1, <1>9, <2>1 DEF Touches, Becomes, OtherServers, Serves, Running
  <2>2. CASE x = i /\ server' # server
    <3>1. Stopped(i) /\ Becomes(i, "running")
      BY <1>9, <2>2 DEF MoveDoes, Guards, Places, Creates, Holds, Makes, Reads, Lands, StopsOld,
         Identifies, SetsIdentity, StartsNew, RemovesOld, RemovesNew, RestartsOld, Drops
    <3>2. Carries(m)
      BY <1>1, <1>9, <2>2, <3>1 DEF Ways, Carries, Held, Guarded, Becomes, New
    <3>3. \A j \in Srv \ {x} : ~Serves(j)'
      BY <1>2, <1>9, <2>2, <3>1, <3>2 DEF Becomes, OtherServers, Serves, Running
    <3> QED
      BY <1>2, <1>9, <2>2, <3>1, <3>2, <3>3 DEF Becomes, Stopped, Exists
  <2> QED
    BY <1>3, <2>1, <2>2
<1> QED
  BY <1>1, <1>3, <1>4, <1>5, <1>6, <1>7, <1>8, <1>9 DEF Touches

LEMMA MoveKeepsServesWorld ==
  ASSUME RelocateTypeOK, Shape, NEW m \in Mover, MoveDoes(m), Sound(m), OneServes, ServesWorld,
         world' = world
  PROVE  ServesWorld'
<1> SUFFICES ASSUME NEW x \in Srv, Serves(x)' PROVE server'[x].files = world
  BY DEF ServesWorld
<1>1. CASE Serves(x) /\ server'[x].files = server[x].files
  BY <1>1 DEF ServesWorld
<1>2. CASE /\ Carries(m) /\ Exists(x)
           /\ \/ x = move[m].new /\ move[m].at = "startnew"
              \/ x = move[m].old /\ move[m].at = "again"
           /\ server'[x].files = server[x].files /\ server'[x].addr = server[x].addr
  BY <1>2 DEF Serves, Sound, HasWorld, Old, New
<1> QED
  BY <1>1, <1>2, ComesToServe

LEMMA MoveKeepsOneServes ==
  ASSUME RelocateTypeOK, Shape, NEW m \in Mover, MoveDoes(m), Elsewhere, Clean', OneServes,
         \A k \in Mover : ~move[k].blind /\ Sound(k)
  PROVE  OneServes'
<1>1. /\ ~move'[m].blind /\ ~LostAt("startnew")' /\ \A k \in Mover \ {m} : move'[k] = move[k]
      /\ move'[m].old = move[m].old
  BY MoveControl DEF Clean, Blind, Control, OtherMoves
<1>2. \A k \in Mover \ {m} : Carries(k)' => Carries(k)
  BY OthersStay
<1>3. ASSUME NEW x \in Srv, NEW y \in Srv, Serves(x)', Serves(y)' PROVE x = y
  BY <1>3, ComesToServe DEF OneServes
<1>4. ASSUME NEW k \in Mover \ {m}, Carries(m)', Carries(k)' PROVE FALSE
  <2>1. Carries(k) /\ Held(k)
    BY <1>2, <1>4 DEF Carries
  <2>2. CASE Carries(m)
    BY <2>1, <2>2 DEF OneServes
  <2>3. CASE move[m].at = "guard" /\ Serves(move[m].old) /\ move[k].old # move[m].old
    <3>1. move[m].old \in Srv
      BY OwnServers
    <3>2. move[k].at = "removeold" /\ move[m].old = move[k].new
      BY <2>1, <2>3, <3>1 DEF OneServes
    <3>3. move[k].new # First
      BY <2>1, <3>2 DEF Shape, NewNamed
    <3> QED
      BY <2>3, <3>2, <3>3 DEF Shape, Settled
  <2> QED
    BY <1>1, <1>4, <2>1, <2>2, <2>3, ComesToCarry
<1>5. ASSUME NEW k \in Mover, NEW x \in Srv, Carries(k)', Serves(x)'
      PROVE  x = move'[k].old \/ (move'[k].at = "removeold" /\ x = move'[k].new)
  <2>1. CASE Serves(x) /\ k # m
    BY <1>1, <1>2, <1>5, <2>1 DEF OneServes
  <2>2. CASE Serves(x) /\ k = m
    BY <1>1, <1>5, <2>2, ComesToCarry, OwnServers DEF OneServes
  <2>3. CASE ~Serves(x)
    <3>1. /\ Carries(m)
          /\ \/ x = move[m].new /\ move[m].at = "startnew"
             \/ x = move[m].old /\ move[m].at = "again" /\ move'[m].at \notin Guarded
      BY <1>5, <2>3, ComesToServe
    <3>2. k = m
      BY <1>2, <1>5, <3>1 DEF OneServes
    <3>3. x = move[m].new /\ move[m].at = "startnew" /\ move'[m].at \in Guarded
      BY <1>5, <3>1, <3>2 DEF Carries, Held
    <3>4. x = move[m].new /\ StartsNew(m)
      BY <3>3 DEF MoveDoes, Guards, Places, Creates, Holds, Makes, Reads, Lands, StopsOld,
         Identifies, SetsIdentity, StartsNew, RemovesOld, RemovesNew, RestartsOld, Drops, Ends, Steps,
         Guarded
    <3>5. Goes(m, "removeold") \/ server' = server
      BY <1>1, <3>4 DEF StartsNew
    <3> QED
      BY <1>5, <2>3, <3>2, <3>4, <3>5 DEF Goes, Steps, Serves, Running
  <2> QED
    BY <2>1, <2>2, <2>3
<1>6. ASSUME NEW k \in Mover, NEW l \in Mover, Carries(k)', Carries(l)' PROVE k = l
  <2>1. k # m /\ l # m => Carries(k) /\ Carries(l)
    BY <1>2, <1>6
  <2> QED
    BY <1>4, <1>6, <2>1 DEF OneServes
<1> QED
  BY <1>3, <1>5, <1>6 DEF OneServes

-----------------------------------------------------------------------------
(* Calm is kept by everyone else.                                          *)

\* What is taken down or away leaves nothing new behind.
LEMMA ShrinkKeepsCalm ==
  ASSUME RelocateTypeOK, Shape, Calm, move' = move, world' = world,
         \A j \in Srv :
           \/ server'[j] = server[j]
           \/ /\ Exists(j) /\ server'[j].st = "stopped"
              /\ server'[j].addr = server[j].addr /\ server'[j].files = server[j].files
           \/ server'[j] = NoServer(j)
  PROVE  Calm'
<1>1. /\ \A j \in Srv : server'[j].st = "running" => server'[j] = server[j]
      /\ \A j \in Srv : server'[j].st # "none" =>
           /\ Exists(j) /\ server'[j].addr = server[j].addr /\ server'[j].files = server[j].files
      /\ \A j \in Srv : server'[j].addr = First => server[j].addr = First
  <2> SUFFICES ASSUME NEW j \in Srv
               PROVE  /\ server'[j].st = "running" => server'[j] = server[j]
                      /\ server'[j].st # "none" =>
                           /\ Exists(j) /\ server'[j].addr = server[j].addr
                           /\ server'[j].files = server[j].files
                      /\ server'[j].addr = First => server[j].addr = First
    OBVIOUS
  <2>1. NoServer(j).st = "none" /\ NoServer(j).addr = j
    BY DEF NoServer
  <2>2. server[First].addr = First
    BY DEF Shape, Numbered
  <2> QED
    BY <2>1, <2>2 DEF Exists
<1>2. \A j \in Srv : Serves(j)' => Serves(j) /\ server'[j] = server[j]
  BY <1>1 DEF Serves, Running
<1>3. \A k \in Mover : move[k].old \in Srv /\ move[k].new \in Srv
  BY TypeParts DEF CallSet
<1>4. \A k \in Mover : Carries(k)' => Carries(k)
  BY <1>1, <1>3 DEF Carries, Held, Old, New
<1>5. ASSUME NEW k \in Mover PROVE Sound(k)'
  <2>1. Sound(k)
    BY DEF Calm
  <2>2. NewDown(k)'
    BY <1>1, <1>3, <2>1 DEF Sound, NewDown, Passing, Running, New
  <2>3. OldDown(k)'
    BY <1>1, <1>3, <2>1 DEF Sound, OldDown, Still, Running, Held
  <2>4. Between(k)'
    BY <1>1, <1>3, <2>1 DEF Sound, Between, Still, Held, Exists, Old
  <2>5. Synced(k)'
    BY <1>1, <1>3, <2>1 DEF Sound, Synced, Further, Passing, Exists, Old, New
  <2>6. Alike(k)'
    BY <1>1, <1>3, <2>1 DEF Sound, Alike, Exists, Old, New
  <2>7. HasWorld(k)'
    BY <1>1, <1>3, <1>4, <2>1 DEF Sound, HasWorld, Exists, Old, New
  <2> QED
    BY <2>2, <2>3, <2>4, <2>5, <2>6, <2>7 DEF Sound
<1>6. OneServes'
  BY <1>2, <1>4 DEF Calm, OneServes
<1>7. ServesWorld'
  BY <1>2 DEF Calm, ServesWorld
<1> QED
  BY <1>5, <1>6, <1>7 DEF Calm

LEMMA ActsKeepsCalm ==
  ASSUME RelocateTypeOK, Shape, Calm, NEW op \in Act, NEW i \in Srv, Acts(op, i), Clean'
  PROVE  Calm'
<1>1. op # "start"
  BY DEF Clean, Did, Acts
<1> QED
  BY <1>1, ShrinkKeepsCalm DEF Acts, Becomes, Vanishes, OtherServers

LEMMA BeginsKeepsCalm ==
  ASSUME RelocateTypeOK, Shape, Calm, NEW m \in Mover, Begins(m)
  PROVE  Calm'
<1>1. /\ server' = server /\ world' = world /\ move'[m].at = "guard"
      /\ \A k \in Mover \ {m} : move'[k] = move[k]
  BY DEF Begins, OtherMoves
<1>2. ASSUME NEW k \in Mover \ {m} PROVE Sound(k)' /\ (Carries(k)' => Carries(k))
  BY <1>1, SoundStays DEF Calm
<1>3. Sound(m)' /\ ~Carries(m)'
  BY <1>1 DEF Sound, NewDown, OldDown, Between, Synced, Alike, HasWorld, Carries, Still, Held, Further,
     Passing, Guarded
<1>4. \A j \in Srv : Serves(j)' <=> Serves(j)
  BY <1>1 DEF Serves, Running
<1>5. OneServes'
  BY <1>1, <1>2, <1>3, <1>4 DEF Calm, OneServes
<1>6. ServesWorld'
  BY <1>1, <1>4 DEF Calm, ServesWorld
<1> QED
  BY <1>2, <1>3, <1>5, <1>6 DEF Calm

\* A write goes to the one server there; a delta that reaches back to before it
\* still takes it along.
LEMMA WriteKeepsCopies ==
  ASSUME RelocateTypeOK, Shape, NEW i \in Srv, NEW f \in File, Writes(i, f),
         NEW k \in Mover, Sound(k)
  PROVE  Between(k)' /\ Synced(k)' /\ Alike(k)'
<1> DEFINE o == move[k].old
<1>1. /\ o \in Srv /\ move[k].new \in Srv /\ move' = move
      /\ \A j \in Srv : server'[j].st = server[j].st
      /\ \A j \in Srv \ {i} : server'[j] = server[j]
  BY TypeParts DEF CallSet, Writes, OtherServers
<1>2. o = i => ~Still(k)
  BY DEF Sound, OldDown, Writes
<1>3. \A g \in File : /\ server[i].files[g] \in Nat /\ world[g] \in Nat
                      /\ move[k].since[g] \in Nat /\ move[k].began[g] \in Nat /\ move[k].seen[g] \in Nat
  BY FilesAreNumbers
<1>4. /\ \A g \in File : server[i].files[g] <= server'[i].files[g]
      /\ server[i].files[f] < server'[i].files[f]
      /\ \A g \in File \ {f} : server'[i].files[g] = server[i].files[g]
  <2>1. server[i].files[f] <= world[f]
    BY DEF Shape, NoneNewer
  <2> QED
    BY <1>3, <2>1 DEF Writes
<1>5. \A g \in File : server'[i].files[g] \in Nat
  BY <1>3 DEF Writes
<1>6. Between(k)'
  <2> SUFFICES ASSUME move[k].at \in {"read", "land"}, Exists(o), NEW g \in File
               PROVE  /\ move[k].began[g] <= move[k].seen[g] /\ move[k].seen[g] <= server'[o].files[g]
                      /\ move[k].pass # "full" => move[k].since[g] <= move[k].began[g]
                      /\ Still(k) => move[k].seen[g] = server'[o].files[g]
    BY <1>1 DEF Between, Exists, Old, Still, Held
  <2>1. /\ move[k].began[g] <= move[k].seen[g] /\ move[k].seen[g] <= server[o].files[g]
        /\ move[k].pass # "full" => move[k].since[g] <= move[k].began[g]
        /\ Still(k) => move[k].seen[g] = server[o].files[g]
    BY DEF Sound, Between, Old
  <2> QED
    BY <1>1, <1>2, <1>3, <1>4, <1>5, <2>1
<1>7. Synced(k)'
  <2> SUFFICES ASSUME Further(k), Exists(o), NEW g \in File
               PROVE  /\ move[k].at \in {"make", "stopold"} => move[k].since[g] <= server'[o].files[g]
                      /\ Exists(move[k].new) /\ server'[o].files[g] = move[k].since[g]
                           => server'[move[k].new].files[g] = server'[o].files[g]
    BY <1>1 DEF Synced, Exists, Old, New, Further, Passing
  <2>1. server'[move[k].new] = server[move[k].new]
    BY <1>1 DEF Sound, NewDown, Further, Writes
  <2>2. move[k].since[g] <= server[o].files[g]
    <3>1. CASE move[k].at \in {"make", "stopold"}
      BY <3>1 DEF Sound, Synced, Old
    <3>2. CASE move[k].at \in {"read", "land"} /\ move[k].pass # "full"
      <4>1. /\ move[k].since[g] <= move[k].began[g] /\ move[k].began[g] <= move[k].seen[g]
            /\ move[k].seen[g] <= server[o].files[g]
        BY <3>2 DEF Sound, Between, Old
      <4>2. server[o].files[g] \in Nat
        BY <1>1, FilesAreNumbers
      <4> QED
        BY <1>3, <4>1, <4>2
    <3> QED
      BY <3>1, <3>2 DEF Further, Passing
  <2>3. server[o].files[g] = move[k].since[g] /\ Exists(move[k].new)
          => server[move[k].new].files[g] = server[o].files[g]
    BY DEF Sound, Synced, Old, New
  <2> QED
    BY <1>1, <1>3, <1>4, <1>5, <2>1, <2>2, <2>3
<1>8. Alike(k)'
  <2> SUFFICES ASSUME move[k].at \in {"ident", "setid", "startnew"}
               PROVE  server'[o] = server[o] /\ server'[move[k].new] = server[move[k].new]
    BY <1>1 DEF Sound, Alike, Exists, Old, New
  <2>1. ~Running(o) /\ ~Running(move[k].new)
    BY DEF Sound, OldDown, NewDown, Still, Held, Guarded
  <2> QED
    BY <1>1, <2>1 DEF Writes
<1> QED
  BY <1>6, <1>7, <1>8

LEMMA WritesKeepsCalm ==
  ASSUME RelocateTypeOK, RelocateTypeOK', Shape, Calm, NEW i \in Srv, NEW f \in File, Writes(i, f)
  PROVE  Calm'
<1>1. /\ move' = move /\ Serves(i)
      /\ \A j \in Srv : server'[j].st = server[j].st /\ server'[j].addr = server[j].addr
      /\ \A j \in Srv \ {i} : server'[j] = server[j]
  BY DEF Writes, OtherServers, Serves
<1>2. \A k \in Mover : move[k].old \in Srv /\ move[k].new \in Srv
  BY TypeParts DEF CallSet
<1>3. server'[i].files = world'
  <2>1. server[i].files = world
    BY <1>1 DEF Calm, ServesWorld
  <2>2. \A g \in File : server'[i].files[g] = world'[g]
    BY <2>1 DEF Writes
  <2>3. server'[i].files \in Files /\ world' \in Files
    BY DEF Writes
  <2> QED
    BY <2>2, <2>3, FilesAgree
<1>4. /\ \A j \in Srv : Serves(j)' <=> Serves(j)
      /\ \A k \in Mover : Carries(k)' <=> Carries(k)
  BY <1>1, <1>2 DEF Serves, Running, Carries, Held, Old, New
<1>5. ASSUME NEW k \in Mover PROVE HasWorld(k)'
  <2>1. ASSUME Carries(k), move[k].at # "removeold" PROVE move[k].old = i /\ ~Still(k)
    <3>1. move[k].old = i
      BY <1>1, <2>1 DEF Calm, OneServes
    <3> QED
      BY <3>1 DEF Calm, Sound, OldDown, Writes
  <2>2. ASSUME move[k].at \in {"setid", "startnew"}
        PROVE  ~Carries(k)
    BY <2>1, <2>2 DEF Still, Held, Guarded
  <2>3. move[k].at = "startnew" => move[k].ran
    BY DEF Shape, Ways
  <2>4. /\ ~(move[k].at = "setid" /\ move[k].ran /\ move[k].addr = First)
        /\ ~(move[k].at = "startnew" /\ New(k).addr = First)
    BY <2>2, <2>3 DEF Carries, Held, Guarded
  <2> QED
    BY <1>1, <1>2, <1>3, <1>4, <2>1, <2>4 DEF HasWorld, Exists, Old, New
<1>6. ASSUME NEW k \in Mover PROVE Sound(k)'
  <2>1. Sound(k)
    BY DEF Calm
  <2>2. NewDown(k)' /\ OldDown(k)'
    BY <1>1, <1>2, <2>1 DEF Sound, NewDown, OldDown, Still, Passing, Running, New, Held
  <2> QED
    BY <1>5, <2>1, <2>2, WriteKeepsCopies DEF Sound
<1>7. OneServes'
  BY <1>1, <1>4 DEF Calm, OneServes
<1>8. ServesWorld'
  BY <1>1, <1>3, <1>4 DEF Calm, OneServes, ServesWorld
<1> QED
  BY <1>6, <1>7, <1>8 DEF Calm

LEMMA InitCalm == RelocateInit => Calm
<1> SUFFICES ASSUME RelocateInit PROVE Calm
  OBVIOUS
<1>1. /\ \A k \in Mover : move[k].at = "idle"
      /\ \A j \in Srv : server[j].files = world /\ (server[j].st = "running" => j = First)
  BY DEF RelocateInit, Call, NoServer, NewFiles
<1>2. \A k \in Mover : Sound(k) /\ ~Carries(k)
  BY <1>1 DEF Sound, NewDown, OldDown, Between, Synced, Alike, HasWorld, Carries, Still, Held, Further,
     Passing, Guarded
<1>3. OneServes /\ ServesWorld
  BY <1>1, <1>2 DEF OneServes, ServesWorld, Serves, Running
<1> QED
  BY <1>2, <1>3 DEF Calm

LEMMA NextKeepsCalm ==
  ASSUME RelocateTypeOK, Shape, Clean => Calm, [RelocateNext]_relocateVars
  PROVE  (Clean => Calm)'
<1> SUFFICES ASSUME Clean' PROVE Calm'
  OBVIOUS
<1>1. Calm /\ \A k \in Mover : ~move[k].blind
  BY CleanStays
<1>2. ASSUME NEW m \in Mover, MoveDoes(m), Elsewhere PROVE Calm'
  <2>1. /\ OneServes /\ ServesWorld /\ world' = world
        /\ \A k \in Mover : ~move[k].blind /\ Sound(k)
    BY <1>1, <1>2 DEF Calm, Elsewhere
  <2> QED
    BY <1>2, <2>1, NextDoes, MoveKeepsSound, MoveKeepsOneServes, MoveKeepsServesWorld DEF Calm
<1>3. ASSUME NEW m \in Mover, Begins(m) PROVE Calm'
  BY <1>1, <1>3, BeginsKeepsCalm
<1>4. ASSUME NEW i \in Srv, NEW f \in File, Writes(i, f) PROVE Calm'
  BY <1>1, <1>4, NextDoes, WritesKeepsCalm
<1>5. ASSUME NEW op \in Act, NEW i \in Srv, Acts(op, i) PROVE Calm'
  BY <1>1, <1>5, ActsKeepsCalm
<1>6. CASE UNCHANGED <<server, world, move, lost, hand>>
  BY <1>1, <1>6, ShrinkKeepsCalm
<1> QED
  BY <1>2, <1>3, <1>4, <1>5, <1>6, NextDoes

\* While no move is blind, nobody starts a server by hand and no start loses its
\* reply, the moves are calm.
LEMMA StaysCalm == RelocateSpec => [](RelocateTypeOK /\ Shape /\ (Clean => Calm))
<1> DEFINE Inv == RelocateTypeOK /\ Shape /\ (Clean => Calm)
<1>1. RelocateInit => Inv
  BY InitShape, InitCalm
<1>2. Inv /\ [RelocateNext]_relocateVars => Inv'
  BY NextKeepsShape, NextKeepsCalm
<1> QED
  BY <1>1, <1>2, PTL DEF RelocateSpec

\* One address, one running server: no move brings up a second one.
THEOREM OneServerRuns == RelocateSpec => []OneRunning
<1>1. RelocateTypeOK /\ Shape /\ (Clean => Calm) => OneRunning
  BY DEF Clean, Calm, OneServes, OneRunning, Serves, AtFirst, Running, Exists
<1> QED
  BY <1>1, StaysCalm, PTL

\* Players never reach a world older than what they last wrote.
THEOREM LatestIsServed == RelocateSpec => []ServesLatest
<1>1. RelocateTypeOK /\ Shape /\ (Clean => Calm) => ServesLatest
  BY DEF Clean, Calm, ServesWorld, ServesLatest, Serves, AtFirst
<1> QED
  BY <1>1, StaysCalm, PTL

-----------------------------------------------------------------------------
(* Nothing is lost, if the owner removes nothing either: a move in hand     *)
(* keeps what it moves, and gives it up only for a server that is the same. *)

Kept(m) ==
  /\ Held(m) /\ move[m].at # "place" => Exists(move[m].old)
  /\ move[m].at = "removeold" => Exists(move[m].new)
  /\ move[m].at = "setid" => move[m].addr = Old(m).addr
  /\ move[m].at \in {"startnew", "removeold"} => New(m).addr = Old(m).addr
  /\ move[m].at = "undo" /\ New(m).addr # move[m].new
       => /\ New(m).addr = Old(m).addr /\ New(m).files = Old(m).files
          /\ ~Running(move[m].old) /\ ~Running(move[m].new)
  /\ move[m].at = "removeold" /\ Old(m).addr = First /\ Old(m).files = world
       => New(m).files = world

\* Some server at the address holds the players' world.
Holder == \E i \in Srv : AtFirst(i) /\ server[i].files = world

Safe == (\A m \in Mover : Kept(m)) /\ Holder

LEMMA OthersKept ==
  ASSUME RelocateTypeOK, Shape, NEW m \in Mover, MoveDoes(m), Elsewhere,
         \A k \in Mover : ~move[k].blind, NEW k \in Mover \ {m}, Kept(k)
  PROVE  Kept(k)'
<1>1. move'[k] = move[k] /\ world' = world
  BY MoveControl DEF Control, OtherMoves, Elsewhere
<1>2. CASE Held(k) /\ move[k].at # "place"
  <2>1. server'[move[k].old] = server[move[k].old]
    BY <1>2, LeavesOld
  <2>2. move[k].new # First /\ move[k].at # "moved"
    BY <1>2 DEF Shape, NewNamed, Held, Guarded
  <2>3. server'[move[k].new] = server[move[k].new]
    BY <2>2, LeavesNew
  <2> QED
    BY <1>1, <2>1, <2>3 DEF Kept, Held, Exists, Running, Old, New
<1>3. CASE ~(Held(k) /\ move[k].at # "place")
  BY <1>1, <1>3 DEF Kept, Held, Guarded
<1> QED
  BY <1>2, <1>3

\* A move that undoes has not touched its new server's address, or has made it
\* the old one's twin.
LEMMA UndoneKept ==
  ASSUME RelocateTypeOK, Shape, NEW m \in Mover, MoveDoes(m), Sound(m), Kept(m),
         ~LostAt("startnew")', move'[m].at = "undo", server'[move[m].new].addr # move[m].new
  PROVE  /\ server'[move[m].new].addr = server'[move[m].old].addr
         /\ server'[move[m].new].files = server'[move[m].old].files
         /\ server'[move[m].old].st # "running" /\ server'[move[m].new].st # "running"
<1> DEFINE o == move[m].old
           i == move[m].new
<1>1. o \in Srv /\ i \in Srv /\ Numbered /\ OwnAddress
  BY OwnServers DEF Shape
<1>2. Holds(m) \/ Makes(m) \/ Lands(m) \/ StopsOld(m) \/ Identifies(m) \/ SetsIdentity(m) \/ StartsNew(m)
  BY DEF MoveDoes, Guards, Places, Creates, Holds, Makes, Reads, Lands, StopsOld, Identifies,
     SetsIdentity, StartsNew, RemovesOld, RemovesNew, RestartsOld, Drops, Goes, Ends, Steps
<1>3. ~(Holds(m) \/ Makes(m) \/ Lands(m) \/ Identifies(m))
  BY <1>1 DEF Holds, Makes, Lands, Identifies, Becomes, Lays, OwnAddress, New
<1>4. ~StopsOld(m)
  BY <1>1, OwnServers DEF StopsOld, OwnAddress, New
<1>5. CASE SetsIdentity(m)
  <2>1. move[m].at = "setid" /\ Readdresses(m)
    BY <1>1, <1>5 DEF SetsIdentity, OwnAddress, New
  <2>2. /\ Exists(o) /\ Exists(i) /\ move[m].addr = Old(m).addr /\ ~Running(o) /\ ~Running(i)
        /\ New(m).files = Old(m).files
    BY <2>1 DEF Readdresses, Kept, Stopped, Exists, Sound, NewDown, OldDown, Alike, Still, Held, Guarded
  <2>3. server'[o] = server[o]
    BY <2>1, OwnServers
  <2> QED
    BY <2>1, <2>2, <2>3 DEF Readdresses, Old, New, Running
<1>6. CASE StartsNew(m)
  <2>1. move[m].at = "startnew" /\ server' = server
    BY <1>6 DEF StartsNew, Goes, Steps
  <2>2. Exists(i)
    <3>1. NoServer(i).addr = i
      BY DEF NoServer
    <3> QED
      BY <1>1, <2>1, <3>1 DEF Numbered
  <2>3. /\ Exists(o) /\ New(m).addr = Old(m).addr /\ ~Running(o) /\ ~Running(i)
        /\ New(m).files = Old(m).files
    BY <2>1, <2>2 DEF Kept, Sound, NewDown, OldDown, Alike, Still, Held, Guarded
  <2> QED
    BY <2>1, <2>3 DEF Old, New, Running
<1> QED
  BY <1>2, <1>3, <1>4, <1>5, <1>6

LEMMA MoveKeepsKept ==
  ASSUME RelocateTypeOK, Shape, NEW m \in Mover, MoveDoes(m), Sound(m), Kept(m),
         ~LostAt("startnew")'
  PROVE  Kept(m)'
<1> DEFINE o == move[m].old
           i == move[m].new
<1>1. o \in Srv /\ i \in Srv /\ move'[m].old = o
  BY OwnServers, MoveControl DEF Control
<1>2. ASSUME move'[m].at \in Guarded \ {"place"} PROVE server'[o].st # "none"
  <2>1. CASE move[m].at = "place"
    BY <1>2, <2>1 DEF MoveDoes, Guards, Places, Creates, Holds, Makes, Reads, Lands, StopsOld, Identifies,
       SetsIdentity, StartsNew, RemovesOld, RemovesNew, RestartsOld, Drops, Ends, Steps, Guarded, Exists
  <2>2. CASE move[m].at # "place"
    <3>1. move[m].at \in Guarded /\ move[m].at \notin {"removeold", "again"}
      BY <1>2, <2>2 DEF MoveDoes, Guards, Places, Creates, Holds, Makes, Reads, Lands, StopsOld,
         Identifies, SetsIdentity, StartsNew, RemovesOld, RemovesNew, RestartsOld, Drops, Ends, Steps,
         Guarded
    <3>2. Exists(o)
      BY <2>2, <3>1 DEF Kept, Held
    <3>3. CASE move[m].at # "stopold"
      BY <3>1, <3>2, <3>3, OwnServers DEF Exists
    <3>4. CASE move[m].at = "stopold"
      BY <3>2, <3>4 DEF MoveDoes, Guards, Places, Creates, Holds, Makes, Reads, Lands, StopsOld,
         Identifies, SetsIdentity, StartsNew, RemovesOld, RemovesNew, RestartsOld, Drops, Becomes, Exists
    <3> QED
      BY <3>3, <3>4
  <2> QED
    BY <2>1, <2>2
<1>3. ASSUME move'[m].at = "setid" PROVE move'[m].addr = server'[o].addr
  <2>1. Identifies(m)
    BY <1>3 DEF MoveDoes, Guards, Places, Creates, Holds, Makes, Reads, Lands, StopsOld, Identifies,
       SetsIdentity, StartsNew, RemovesOld, RemovesNew, RestartsOld, Drops, Goes, Ends, Steps
  <2> QED
    BY <1>3, <2>1 DEF Identifies, Ends, Steps, Old
<1>4. ASSUME move'[m].at \in {"startnew", "removeold"}
      PROVE  /\ move'[m].new = i /\ server'[i].addr = server'[o].addr
             /\ move'[m].at = "removeold" => server'[i].st # "none"
             /\ server'[i].files = server'[o].files
  <2>1. SetsIdentity(m) \/ StartsNew(m)
    BY <1>4 DEF MoveDoes, Guards, Places, Creates, Holds, Makes, Reads, Lands, StopsOld, Identifies,
       SetsIdentity, StartsNew, RemovesOld, RemovesNew, RestartsOld, Drops, Goes, Ends, Steps
  <2>2. server'[o] = server[o] /\ Exists(o) /\ move[m].at \in {"setid", "startnew"}
    BY <2>1, OwnServers DEF SetsIdentity, StartsNew, Kept, Held, Guarded
  <2>3. CASE SetsIdentity(m)
    <3>1. /\ move[m].at = "setid" /\ move'[m].new = i /\ Stopped(i) /\ server'[i].addr = move[m].addr
          /\ server'[i].st = server[i].st /\ server'[i].files = server[i].files
      BY <1>4, <2>3 DEF SetsIdentity, Readdresses, Goes, Ends, Steps
    <3>2. move[m].addr = Old(m).addr /\ New(m).files = Old(m).files
      BY <2>2, <3>1 DEF Kept, Sound, Alike, Stopped, Exists
    <3> QED
      BY <2>2, <3>1, <3>2 DEF Stopped, Old, New
  <2>4. CASE StartsNew(m)
    <3>1. /\ move[m].at = "startnew" /\ move'[m].new = i /\ Stopped(i) /\ Becomes(i, "running")
      BY <1>4, <2>4 DEF StartsNew, Goes, Ends, Steps
    <3>2. New(m).addr = Old(m).addr /\ New(m).files = Old(m).files
      BY <2>2, <3>1 DEF Kept, Sound, Alike, Stopped, Exists
    <3> QED
      BY <2>2, <3>1, <3>2 DEF Becomes, Old, New
  <2> QED
    BY <2>1, <2>3, <2>4
<1>5. ASSUME move'[m].at = "undo" PROVE move'[m].new = i
  BY <1>5, MoveControl DEF Control
<1>6. \A x \in {"startnew", "removeold", "undo"} : x \in Guarded
  BY DEF Guarded
<1>7. /\ Held(m)' /\ move'[m].at # "place" => server'[move'[m].old].st # "none"
      /\ move'[m].at = "removeold" => server'[move'[m].new].st # "none"
      /\ move'[m].at = "setid" => move'[m].addr = server'[move'[m].old].addr
  BY <1>1, <1>2, <1>3, <1>4 DEF Held
<1>8. /\ move'[m].at \in {"startnew", "removeold"}
           => server'[move'[m].new].addr = server'[move'[m].old].addr
      /\ move'[m].at = "removeold" /\ server'[move'[m].old].files = world'
           => server'[move'[m].new].files = world'
  BY <1>1, <1>4
<1>9. move'[m].at = "undo" /\ server'[move'[m].new].addr # move'[m].new
        => /\ server'[move'[m].new].addr = server'[move'[m].old].addr
           /\ server'[move'[m].new].files = server'[move'[m].old].files
           /\ server'[move'[m].old].st # "running" /\ server'[move'[m].new].st # "running"
  BY <1>1, <1>5, UndoneKept
<1> QED
  BY <1>7, <1>8, <1>9 DEF Kept, Exists, Running, Old, New

LEMMA MoveKeepsHolder ==
  ASSUME RelocateTypeOK, Shape, NEW m \in Mover, MoveDoes(m), Kept(m), Holder, world' = world
  PROVE  Holder'
<1> DEFINE o == move[m].old
           i == move[m].new
<1>1. /\ o \in Srv /\ i \in Srv /\ OwnAddress /\ NewNamed /\ Touches(m)
      /\ move[m].at \in Guarded \ {"place"} => i # First /\ i # o
  BY OwnServers, MoveTouches DEF Shape, NewNamed, Held
<1>2. PICK x \in Srv : AtFirst(x) /\ server[x].files = world
  BY DEF Holder
<1>3. SUFFICES \E y \in Srv : /\ server'[y].st # "none" /\ server'[y].addr = First
                              /\ server'[y].files = world
  BY DEF Holder, AtFirst, Exists
<1>4. CASE server' = server
  BY <1>2, <1>4 DEF AtFirst, Exists
<1>5. CASE \E j \in Srv, st \in {"running", "stopped"} : Becomes(j, st)
  <2>1. PICK j \in Srv, st \in {"running", "stopped"} : Becomes(j, st)
    BY <1>5
  <2>2. server'[x].st # "none" /\ server'[x].addr = server[x].addr /\ server'[x].files = server[x].files
    BY <1>2, <2>1 DEF Becomes, OtherServers, AtFirst, Exists
  <2> QED
    BY <1>2, <2>2 DEF AtFirst
<1>6. CASE Appears(i)
  BY <1>2, <1>6 DEF Appears, OtherServers, AtFirst, Exists
<1>7. CASE move[m].at = "removeold" /\ Vanishes(o)
  <2>1. /\ Exists(i) /\ New(m).addr = Old(m).addr /\ server'[i] = server[i] /\ i # o
        /\ Old(m).addr = First /\ Old(m).files = world => New(m).files = world
    BY <1>1, <1>7 DEF Kept, Vanishes, OtherServers, Guarded
  <2>2. CASE x = o
    BY <1>1, <1>2, <2>1, <2>2 DEF AtFirst, Exists, Old, New
  <2>3. CASE x # o
    BY <1>2, <1>7, <2>3 DEF Vanishes, OtherServers, AtFirst, Exists
  <2> QED
    BY <2>2, <2>3
<1>8. CASE move[m].at = "undo" /\ Vanishes(i)
  <2>1. CASE x = i
    <3>1. New(m).addr # i /\ i # o /\ server'[o] = server[o]
      BY <1>1, <1>2, <1>8, <2>1 DEF AtFirst, New, Guarded, Vanishes, OtherServers
    <3>2. Exists(o) /\ New(m).addr = Old(m).addr /\ New(m).files = Old(m).files
      BY <1>8, <3>1 DEF Kept, Held, Guarded
    <3> QED
      BY <1>1, <1>2, <2>1, <3>1, <3>2 DEF AtFirst, Exists, Old, New
  <2>2. CASE x # i
    BY <1>2, <1>8, <2>2 DEF Vanishes, OtherServers, AtFirst, Exists
  <2> QED
    BY <2>1, <2>2
<1>9. CASE move[m].at \in {"land", "setid"} /\ OtherServers(i)
  <2>1. server[i].addr = i /\ i # First
    BY <1>1, <1>9 DEF OwnAddress, New, Guarded
  <2> QED
    BY <1>2, <1>9, <2>1 DEF OtherServers, AtFirst, Exists
<1> QED
  BY <1>1, <1>4, <1>5, <1>6, <1>7, <1>8, <1>9 DEF Touches, Lays, Readdresses

\* A stop takes away nothing.
LEMMA StopKeepsSafe ==
  ASSUME RelocateTypeOK, Safe, move' = move, world' = world,
         NEW i \in Srv, Exists(i), Becomes(i, "stopped")
  PROVE  Safe'
<1>1. \A j \in Srv : /\ server'[j].addr = server[j].addr /\ server'[j].files = server[j].files
                     /\ Exists(j) => server'[j].st # "none"
                     /\ server'[j].st = "running" => server[j].st = "running"
  BY DEF Becomes, OtherServers, Exists
<1>2. ASSUME NEW k \in Mover PROVE Kept(k)'
  <2>1. Kept(k) /\ move[k].old \in Srv /\ move[k].new \in Srv
    BY TypeParts DEF CallSet, Safe
  <2> QED
    BY <1>1, <2>1 DEF Kept, Held, Exists, Running, Old, New
<1>3. Holder'
  <2>1. PICK x \in Srv : AtFirst(x) /\ server[x].files = world
    BY DEF Safe, Holder
  <2>2. server'[x].st # "none" /\ server'[x].addr = First /\ server'[x].files = world'
    BY <1>1, <2>1 DEF AtFirst
  <2> QED
    BY <2>2 DEF Holder, AtFirst, Exists
<1> QED
  BY <1>2, <1>3 DEF Safe

\* A write goes to a server that runs, and that one holds the players' world.
LEMMA WritesKeepsSafe ==
  ASSUME RelocateTypeOK, Shape, Calm, ServesWorld', Safe, NEW i \in Srv, NEW f \in File, Writes(i, f)
  PROVE  Safe'
<1>1. /\ move' = move /\ Running(i) /\ server'[i].st = "running" /\ server'[i].addr = First
      /\ \A j \in Srv : server'[j].st = server[j].st /\ server'[j].addr = server[j].addr
      /\ \A j \in Srv \ {i} : server'[j] = server[j]
  BY DEF Writes, OtherServers, Running
<1>2. server'[i].files = world'
  BY <1>1 DEF ServesWorld, Serves, Running
<1>3. ASSUME NEW k \in Mover PROVE Kept(k)'
  <2> DEFINE o == move[k].old
             n == move[k].new
  <2>1. Kept(k) /\ Sound(k) /\ o \in Srv /\ n \in Srv
    BY TypeParts DEF CallSet, Safe, Calm
  <2>2. ~Running(o) => server'[o] = server[o]
    BY <1>1, <2>1
  <2>3. ~Running(n) => server'[n] = server[n]
    BY <1>1, <2>1
  <2>4. ASSUME move[k].at = "removeold" PROVE server'[o].files # world'
    <3>1. ~Running(o)
      BY <2>1, <2>4 DEF Sound, OldDown, Still, Held, Guarded
    <3>2. server[o].files[f] <= world[f] /\ world[f] \in Nat /\ world'[f] = world[f] + 1
      BY <2>1, FilesAreNumbers DEF Shape, NoneNewer, Writes
    <3>3. server[o].files[f] \in Nat
      BY <2>1, FilesAreNumbers
    <3>4. server[o].files[f] # world'[f]
      BY <3>2, <3>3
    <3> QED
      BY <2>2, <3>1, <3>4
  <2>5. /\ \A x : Exists(x)' <=> server'[x].st # "none"
        /\ server'[o].st = server[o].st /\ server'[o].addr = server[o].addr
        /\ server'[n].st = server[n].st /\ server'[n].addr = server[n].addr
    BY <1>1, <2>1 DEF Exists
  <2> QED
    BY <1>1, <2>1, <2>2, <2>3, <2>4, <2>5 DEF Kept, Held, Exists, Running, Old, New
<1> QED
  BY <1>1, <1>2, <1>3 DEF Safe, Holder, AtFirst, Exists

LEMMA InitSafe == RelocateInit => Safe
<1> SUFFICES ASSUME RelocateInit PROVE Safe
  OBVIOUS
<1>1. First \in Srv
  BY RelocateAssumption
<1>2. \A k \in Mover : move[k].at = "idle"
  BY DEF RelocateInit, Call
<1>3. server[First].st = "running" /\ server[First].addr = First /\ server[First].files = world
  BY <1>1 DEF RelocateInit, NoServer
<1> QED
  BY <1>1, <1>2, <1>3 DEF Safe, Kept, Holder, AtFirst, Exists, Held, Guarded

LEMMA NextKeepsSafe ==
  ASSUME RelocateTypeOK, Shape, Clean => Calm, (Clean => Calm)', Clean /\ ~Did("remove") => Safe,
         [RelocateNext]_relocateVars
  PROVE  (Clean /\ ~Did("remove") => Safe)'
<1> SUFFICES ASSUME Clean', ~Did("remove")' PROVE Safe'
  OBVIOUS
<1>1. ~Did("remove")
  BY NextDoes DEF Elsewhere, Begins, Writes, Acts, Did
<1>2. Calm /\ Calm' /\ Safe /\ \A k \in Mover : ~move[k].blind
  BY <1>1, CleanStays
<1>3. ASSUME NEW m \in Mover, MoveDoes(m), Elsewhere PROVE Safe'
  <2>1. ~LostAt("startnew")' /\ world' = world /\ Holder /\ \A k \in Mover : Sound(k) /\ Kept(k)
    BY <1>2, <1>3 DEF Clean, Elsewhere, Calm, Safe
  <2>2. Kept(m)'
    BY <1>3, <2>1, MoveKeepsKept
  <2>3. \A k \in Mover \ {m} : Kept(k)'
    BY <1>2, <1>3, <2>1, OthersKept
  <2>4. Holder'
    BY <1>3, <2>1, MoveKeepsHolder
  <2> QED
    BY <2>2, <2>3, <2>4 DEF Safe
<1>4. ASSUME NEW m \in Mover, Begins(m) PROVE Safe'
  <2>1. /\ server' = server /\ world' = world /\ move'[m].at = "guard"
        /\ \A k \in Mover \ {m} : move'[k] = move[k]
    BY <1>4 DEF Begins, OtherMoves
  <2>2. \A k \in Mover : Kept(k)'
    BY <1>2, <2>1 DEF Safe, Kept, Held, Exists, Running, Old, New, Guarded
  <2> QED
    BY <1>2, <2>1, <2>2 DEF Safe, Holder, AtFirst, Exists
<1>5. ASSUME NEW i \in Srv, NEW f \in File, Writes(i, f) PROVE Safe'
  BY <1>2, <1>5, WritesKeepsSafe DEF Calm
<1>6. ASSUME NEW op \in Act, NEW i \in Srv, Acts(op, i) PROVE Safe'
  <2>1. op \notin {"start", "remove"}
    BY <1>6 DEF Clean, Did, Acts
  <2> QED
    BY <1>2, <1>6, <2>1, StopKeepsSafe DEF Acts
<1>7. CASE UNCHANGED <<server, world, move, lost, hand>>
  BY <1>2, <1>7 DEF Safe, Kept, Held, Holder, AtFirst, Exists, Running, Old, New
<1> QED
  BY <1>3, <1>4, <1>5, <1>6, <1>7, NextDoes

\* The players' world is never lost to a move that failed, was dropped or was
\* half undone.
THEOREM WorldIsKept == RelocateSpec => []NeverLost
<1> DEFINE Inv == /\ RelocateTypeOK /\ Shape /\ (Clean => Calm)
                  /\ Clean /\ ~Did("remove") => Safe
<1>1. RelocateInit => Inv
  BY InitShape, InitCalm, InitSafe
<1>2. Inv /\ [RelocateNext]_relocateVars => Inv'
  BY NextKeepsShape, NextKeepsCalm, NextKeepsSafe
<1>3. Inv => NeverLost
  BY DEF Clean, Safe, Holder, NeverLost
<1> QED
  BY <1>1, <1>2, <1>3, PTL DEF RelocateSpec

-----------------------------------------------------------------------------
(* Every step of a move leaves it fewer steps to its end.                  *)

Advances(m) == StepsToGo(move'[m]) < StepsToGo(move[m])

\* The numbers the measure is made of, and what is still ahead in each pass.
LEMMA Measures ==
  ASSUME NEW t \in CallSet
  PROVE  /\ Cardinality(File) \in Nat /\ PassSteps = Cardinality(File) + 2 /\ MaxDelta \in Nat
         /\ PassSteps * (MaxDelta + 2) \in Nat /\ Ahead(t) \in Nat
         /\ 7 + PassSteps + Ahead(t) <= 8 + PassSteps * (MaxDelta + 2)
         /\ t.left \subseteq File /\ Cardinality(t.left) \in Nat
<1>1. Cardinality(File) \in Nat /\ MaxDelta \in Nat /\ t.n \in 0 .. MaxDelta
      /\ t.left \subseteq File /\ t.pass \in {"full", "live", "last"}
  BY RelocateAssumption, FS_CardinalityType DEF CallSet
<1>2. IsFiniteSet(t.left) /\ Cardinality(t.left) \in Nat
  BY <1>1, RelocateAssumption, FS_Subset, FS_CardinalityType
<1> DEFINE p == PassSteps
<1>3. p \in Nat /\ p = Cardinality(File) + 2
  BY <1>1 DEF PassSteps
<1> HIDE DEF p
<1>4. p * (MaxDelta + 2) \in Nat /\ p * (MaxDelta + 2) = p * (MaxDelta + 1) + p
  BY <1>1, <1>3
<1>5. /\ p * (MaxDelta + 1) \in Nat /\ p * (MaxDelta + 1 - t.n) \in Nat
      /\ p * (MaxDelta + 1 - t.n) <= p * (MaxDelta + 1)
  <2> DEFINE k == MaxDelta + 1 - t.n
  <2>1. k \in Nat /\ t.n \in Nat /\ MaxDelta + 1 = k + t.n
    BY <1>1
  <2> HIDE DEF k
  <2>2. p * (k + t.n) = p * k + p * t.n /\ p * k \in Nat /\ p * t.n \in Nat
    BY <1>3, <2>1
  <2>3. p * k <= p * (MaxDelta + 1)
    BY <2>1, <2>2
  <2> QED
    BY <2>1, <2>2, <2>3 DEF k
<1>6. CASE t.pass = "full"
  <2>1. Ahead(t) = 1 + p * (MaxDelta + 1)
    BY <1>6 DEF Ahead, p
  <2> QED
    BY <1>1, <1>2, <1>3, <1>4, <1>5, <2>1 DEF p
<1>7. CASE t.pass = "live"
  <2>1. Ahead(t) = 1 + p * (MaxDelta + 1 - t.n)
    BY <1>7 DEF Ahead, p
  <2> QED
    BY <1>1, <1>2, <1>3, <1>4, <1>5, <2>1 DEF p
<1>8. CASE t.pass = "last"
  <2>1. Ahead(t) = 0
    BY <1>8 DEF Ahead
  <2> QED
    BY <1>1, <1>2, <1>3, <1>4, <1>5, <2>1 DEF p
<1> QED
  BY <1>1, <1>6, <1>7, <1>8

\* After a pass there is a whole pass less ahead.
LEMMA PassPasses ==
  ASSUME NEW t \in CallSet, NEW u \in CallSet, u.pass = "live",
         \/ t.pass = "full" /\ u.n = 1
         \/ t.pass = "live" /\ u.n = t.n + 1
  PROVE  Ahead(u) + PassSteps = Ahead(t)
<1> DEFINE p == PassSteps
           k == MaxDelta + 1 - u.n
<1>1. /\ p \in Nat /\ MaxDelta \in Nat /\ u.n \in 0 .. MaxDelta /\ t.n \in 0 .. MaxDelta
      /\ k \in Nat
  BY Measures DEF CallSet
<1>2. Ahead(u) = 1 + p * k
  BY DEF Ahead
<1>3. Ahead(t) = 1 + p * (k + 1)
  <2>1. CASE t.pass = "full"
    <3>1. MaxDelta + 1 = k + 1
      BY <1>1, <2>1
    <3> QED
      BY <2>1, <3>1 DEF Ahead
  <2>2. CASE t.pass = "live" /\ u.n = t.n + 1
    <3>1. MaxDelta + 1 - t.n = k + 1
      BY <1>1, <2>2
    <3> QED
      BY <2>2, <3>1 DEF Ahead
  <2> QED
    BY <2>1, <2>2
<1> HIDE DEF p, k
<1>4. p * (k + 1) = p * k + p /\ p * k \in Nat
  BY <1>1
<1> QED
  BY <1>1, <1>2, <1>3, <1>4 DEF p

\* How many steps are left at each step.
LEMMA Remaining ==
  ASSUME NEW t
  PROVE  /\ t.at = "guard" => StepsToGo(t) = 11 + PassSteps * (MaxDelta + 2)
         /\ t.at = "place" => StepsToGo(t) = 10 + PassSteps * (MaxDelta + 2)
         /\ t.at = "create" => StepsToGo(t) = 9 + PassSteps * (MaxDelta + 2)
         /\ t.at = "hold" => StepsToGo(t) = 8 + PassSteps * (MaxDelta + 2)
         /\ t.at = "make" => StepsToGo(t) = 8 + Ahead(t) + Cardinality(File)
         /\ t.at = "read" => StepsToGo(t) = 7 + Ahead(t) + Cardinality(t.left)
         /\ t.at = "land" => StepsToGo(t) = 7 + Ahead(t)
         /\ t.at = "stopold" => StepsToGo(t) = 7 + PassSteps
         /\ t.at = "ident" => StepsToGo(t) = 6
         /\ t.at = "setid" => StepsToGo(t) = 5
         /\ t.at = "startnew" => StepsToGo(t) = 4
         /\ t.at = "removeold" => StepsToGo(t) = 3
         /\ t.at = "undo" => StepsToGo(t) = 2
         /\ t.at = "again" => StepsToGo(t) = 1
         /\ t.at \in Ended => StepsToGo(t) = 0
BY DEF StepsToGo, Ended

\* Giving up is nearer to the end than any step but starting the old server again.
LEMMA GivingUp ==
  ASSUME NEW t \in CallSet, NEW u, t.at \in Guarded \cup {"guard"},
         \/ u.at \in Ended
         \/ u.at = "undo" /\ t.at \notin {"undo", "again"}
         \/ u.at = "ident" /\ t.at = "land"
  PROVE  StepsToGo(u) < StepsToGo(t)
<1>1. /\ StepsToGo(t) \in Nat /\ StepsToGo(t) > 0
      /\ t.at \notin {"undo", "again"} => StepsToGo(t) > 2
      /\ t.at = "land" => StepsToGo(t) > 6
  <2>1. /\ PassSteps * (MaxDelta + 2) \in Nat /\ Ahead(t) \in Nat /\ PassSteps \in Nat
        /\ Cardinality(File) \in Nat /\ Cardinality(t.left) \in Nat
    BY Measures
  <2> HIDE DEF PassSteps, Ahead
  <2> QED
    BY <2>1, Remaining DEF Guarded
<1> QED
  BY <1>1, Remaining

\* make_on: every file is still to be read.
LEMMA MakesAdvances ==
  ASSUME RelocateTypeOK, NEW m \in Mover, MakeCopy(m)
  PROVE  Advances(m)
<1>1. move \in [Mover -> CallSet] /\ move[m] \in CallSet /\ move[m].at = "make"
  BY TypeParts DEF MakeCopy
<1>2. CASE Think(m, Undo(m, move[m].pass = "last"))
  <2>1. move'[m] = Undo(m, move[m].pass = "last")
    BY <1>1, <1>2 DEF Think
  <2>2. move'[m].at = "undo"
    BY <2>1 DEF Undo, End, Call
  <2> QED
    BY <1>1, <2>2, GivingUp DEF Advances, Guarded
<1>3. CASE Think(m, [move[m] EXCEPT !.at = "read", !.began = server[move[m].old].files,
                                    !.seen = server[move[m].old].files, !.left = File])
  <2>1. /\ move'[m].at = "read" /\ move'[m].pass = move[m].pass /\ move'[m].n = move[m].n
        /\ move'[m].left = File
    BY <1>1, <1>3 DEF Think, CallSet
  <2>2. Ahead(move'[m]) = Ahead(move[m])
    BY <2>1 DEF Ahead
  <2>3. /\ StepsToGo(move[m]) = 8 + Ahead(move[m]) + Cardinality(File)
        /\ StepsToGo(move'[m]) = 7 + Ahead(move[m]) + Cardinality(File)
    BY <1>1, <2>1, <2>2, Remaining
  <2> QED
    BY <1>1, <2>3, Measures DEF Advances
<1> QED
  BY <1>2, <1>3 DEF MakeCopy

\* One file less to read.
LEMMA ReadsAdvances ==
  ASSUME RelocateTypeOK, NEW m \in Mover, Read(m)
  PROVE  Advances(m)
<1>1. move \in [Mover -> CallSet] /\ move[m] \in CallSet /\ move[m].at = "read"
  BY TypeParts DEF Read
<1>2. PICK f \in move[m].left :
        Think(m, [move[m] EXCEPT
                   !.at = IF move[m].left \ {f} = {} THEN "land" ELSE "read",
                   !.seen[f] = server[move[m].old].files[f], !.left = move[m].left \ {f}])
  BY DEF Read
<1> DEFINE rest == move[m].left \ {f}
<1>3. /\ move'[m].at = IF rest = {} THEN "land" ELSE "read"
      /\ move'[m].pass = move[m].pass /\ move'[m].n = move[m].n /\ move'[m].left = rest
  BY <1>1, <1>2 DEF Think, CallSet
<1>4. Ahead(move'[m]) = Ahead(move[m])
  BY <1>3 DEF Ahead
<1>5. /\ IsFiniteSet(move[m].left) /\ Ahead(move[m]) \in Nat
      /\ Cardinality(move[m].left) \in Nat
  BY <1>1, RelocateAssumption, FS_Subset, Measures
<1>6. Cardinality(rest) = Cardinality(move[m].left) - 1 /\ Cardinality(rest) \in Nat
  BY <1>2, <1>5, FS_RemoveElement, FS_CardinalityType
<1>7. StepsToGo(move[m]) = 7 + Ahead(move[m]) + Cardinality(move[m].left)
  BY <1>1, Remaining
<1>8. StepsToGo(move'[m]) <= 7 + Ahead(move[m]) + Cardinality(rest) /\ StepsToGo(move'[m]) \in Nat
  <2>1. CASE move'[m].at = "land"
    <3>1. StepsToGo(move'[m]) = 7 + Ahead(move[m])
      BY <1>4, <2>1, Remaining
    <3> QED
      BY <1>5, <1>6, <3>1
  <2>2. CASE move'[m].at = "read"
    <3>1. StepsToGo(move'[m]) = 7 + Ahead(move[m]) + Cardinality(rest)
      BY <1>3, <1>4, <2>2, Remaining
    <3> QED
      BY <1>5, <1>6, <3>1
  <2> QED
    BY <1>3, <2>1, <2>2
<1> DEFINE left == Cardinality(move[m].left)  fewer == Cardinality(rest)  now == StepsToGo(move[m])
           then == StepsToGo(move'[m])  a == Ahead(move[m])
<1> HIDE DEF left, fewer, now, then, a
<1>9. /\ a \in Nat /\ left \in Nat /\ fewer = left - 1 /\ fewer \in Nat /\ now = 7 + a + left
      /\ then <= 7 + a + fewer /\ then \in Nat
  BY <1>5, <1>6, <1>7, <1>8 DEF left, fewer, now, then, a
<1>10. then < now
  BY <1>9
<1> QED
  BY <1>10 DEF then, now, Advances

\* What follows a pass: a delta fewer, or the stop, or the identity.
LEMMA PassAdvances ==
  ASSUME RelocateTypeOK, NEW m \in Mover, move[m].at = "land", NEW g \in AfterPass(m)
  PROVE  StepsToGo(g) < StepsToGo(move[m])
<1>1. move[m] \in CallSet
  BY TypeParts
<1> DEFINE t == Onward(m)
           go == [t EXCEPT !.at = "stopold", !.n = 0]
           one == [t EXCEPT !.at = "make", !.pass = "live", !.n = 1]
           more == [t EXCEPT !.at = "make", !.n = t.n + 1]
<1>2. t \in CallSet /\ t.pass = move[m].pass /\ t.ran = move[m].ran /\ t.n = move[m].n
  BY <1>1, NewFilesType DEF Onward, CallSet
<1> HIDE DEF t
<1>3. /\ StepsToGo(move[m]) = 7 + Ahead(move[m]) /\ Ahead(move[m]) = Ahead(t)
      /\ Ahead(t) \in Nat /\ PassSteps = Cardinality(File) + 2 /\ Cardinality(File) \in Nat
  BY <1>1, <1>2, Measures, Remaining DEF Ahead
<1>4. CASE g = End(m, "ident")
  <2>1. g.at = "ident"
    BY <1>4 DEF End, Call
  <2> QED
    BY <1>1, <2>1, GivingUp DEF Guarded
<1>5. CASE g = go /\ t.pass # "last"
  <2>1. g.at = "stopold"
    BY <1>2, <1>5 DEF CallSet
  <2>2. Ahead(t) >= 1 + PassSteps
    <3> DEFINE k == MaxDelta - (IF t.pass = "full" THEN 0 ELSE t.n)
    <3>1. k \in Nat /\ PassSteps \in Nat /\ MaxDelta \in Nat /\ t.n \in 0 .. MaxDelta
          /\ t.pass \in {"full", "live"}
      BY <1>2, <1>3, <1>5, RelocateAssumption DEF CallSet
    <3>2. Ahead(t) = 1 + PassSteps * (k + 1)
      <4>1. CASE t.pass = "full"
        <5>1. MaxDelta + 1 = k + 1
          BY <3>1, <4>1
        <5> QED
          BY <4>1, <5>1 DEF Ahead
      <4>2. CASE t.pass = "live"
        <5>1. MaxDelta + 1 - t.n = k + 1
          BY <3>1, <4>2
        <5> QED
          BY <4>2, <5>1 DEF Ahead
      <4> QED
        BY <3>1, <4>1, <4>2
    <3> HIDE DEF k
    <3>3. PassSteps * (k + 1) = PassSteps * k + PassSteps /\ PassSteps * k \in Nat
      BY <3>1
    <3> QED
      BY <3>1, <3>2, <3>3
  <2>3. StepsToGo(g) = 7 + PassSteps
    BY <2>1, Remaining
  <2> QED
    BY <1>3, <2>2, <2>3
<1>6. CASE t.pass = "full" /\ MaxDelta # 0 /\ g = one
  <2>1. 1 \in 0 .. MaxDelta
    BY <1>6, RelocateAssumption
  <2>2. g \in CallSet /\ g.at = "make" /\ g.pass = "live" /\ g.n = 1
    BY <1>2, <1>6, <2>1 DEF CallSet, Guarded
  <2>3. Ahead(g) + PassSteps = Ahead(t) /\ Ahead(g) \in Nat
    BY <1>2, <1>6, <2>2, PassPasses, Measures
  <2>4. StepsToGo(g) = 8 + Ahead(g) + Cardinality(File)
    BY <2>2, Remaining
  <2> QED
    BY <1>3, <2>3, <2>4
<1>7. CASE t.pass = "live" /\ t.n < MaxDelta /\ g = more
  <2>1. t.n + 1 \in 0 .. MaxDelta
    BY <1>2, <1>7, RelocateAssumption DEF CallSet
  <2>2. g \in CallSet /\ g.at = "make" /\ g.pass = "live" /\ g.n = t.n + 1
    BY <1>2, <1>7, <2>1 DEF CallSet, Guarded
  <2>3. Ahead(g) + PassSteps = Ahead(t) /\ Ahead(g) \in Nat
    BY <1>2, <1>7, <2>2, PassPasses, Measures
  <2>4. StepsToGo(g) = 8 + Ahead(g) + Cardinality(File)
    BY <2>2, Remaining
  <2> QED
    BY <1>3, <2>3, <2>4
<1>8. \/ g = End(m, "ident")
      \/ g = go /\ t.pass # "last"
      \/ t.pass = "full" /\ MaxDelta # 0 /\ g = one
      \/ t.pass = "live" /\ t.n < MaxDelta /\ g = more
  <2>1. CASE t.pass = "last" \/ ~t.ran
    BY <2>1 DEF AfterPass, t
  <2>2. CASE ~(t.pass = "last" \/ ~t.ran)
    <3>1. t.pass \in {"full", "live"}
      BY <1>2, <2>2 DEF CallSet
    <3> QED
      BY <2>2, <3>1 DEF AfterPass, t
  <2> QED
    BY <2>1, <2>2
<1> HIDE DEF go, one, more
<1> QED
  BY <1>4, <1>5, <1>6, <1>7, <1>8

LEMMA LandsAdvances ==
  ASSUME RelocateTypeOK, NEW m \in Mover, Land(m)
  PROVE  Advances(m)
<1>1. move \in [Mover -> CallSet] /\ move[m] \in CallSet /\ move[m].at = "land"
  BY TypeParts DEF Land
<1>2. PICK g \in AfterPass(m) :
        move' = [move EXCEPT ![m] = g] \/ move' = [move EXCEPT ![m] = Undo(m, move[m].pass = "last")]
  BY DEF Land, Ask
<1>3. move'[m] = g \/ move'[m] = Undo(m, move[m].pass = "last")
  BY <1>1, <1>2
<1>4. Undo(m, move[m].pass = "last").at = "undo"
  BY DEF Undo, End, Call
<1>5. StepsToGo(Undo(m, move[m].pass = "last")) < StepsToGo(move[m])
  BY <1>1, <1>4, GivingUp DEF Guarded
<1> QED
  BY <1>1, <1>3, <1>5, PassAdvances DEF Advances

\* Every other step is followed by a later one, the stop by the last pass.
LEMMA OthersAdvance ==
  ASSUME RelocateTypeOK, RelocateTypeOK', NEW m \in Mover, MoveDoes(m),
         move[m].at \notin {"make", "read", "land"}
  PROVE  Advances(m)
<1>1. move[m] \in CallSet /\ move'[m] \in CallSet
  BY TypeParts DEF RelocateTypeOK, CallSet
<1>2. /\ PassSteps * (MaxDelta + 2) \in Nat /\ PassSteps = Cardinality(File) + 2
      /\ Cardinality(File) \in Nat
      /\ 7 + PassSteps + Ahead(move'[m]) <= 8 + PassSteps * (MaxDelta + 2)
  BY <1>1, Measures
<1>3. \/ move'[m].at \in Ended
      \/ move'[m].at = "undo" /\ move[m].at \in Guarded \ {"undo", "again"}
      \/ move[m].at = "guard" /\ move'[m].at = "place"
      \/ move[m].at = "place" /\ move'[m].at = "create"
      \/ move[m].at = "create" /\ move'[m].at = "hold"
      \/ move[m].at = "hold" /\ move'[m].at = "make"
      \/ move[m].at = "stopold" /\ move'[m].at = "make" /\ move'[m].pass = "last"
      \/ move[m].at = "ident" /\ move'[m].at = "setid"
      \/ move[m].at = "setid" /\ move'[m].at \in {"startnew", "removeold"}
      \/ move[m].at = "startnew" /\ move'[m].at = "removeold"
      \/ move[m].at = "undo" /\ move'[m].at = "again"
  <2>1. CASE Guards(m) \/ Places(m) \/ Creates(m) \/ Holds(m)
    BY <2>1 DEF Guards, Places, Creates, Holds, Ends, Goes, Steps, Guarded, Ended
  <2>2. CASE Makes(m) \/ Reads(m) \/ Lands(m)
    BY <2>2 DEF Makes, Reads, Lands
  <2>3. CASE StopsOld(m) \/ Identifies(m) \/ SetsIdentity(m) \/ StartsNew(m)
    BY <2>3 DEF StopsOld, Identifies, SetsIdentity, StartsNew, Ends, Goes, Steps, Guarded, Ended
  <2>4. CASE RemovesOld(m) \/ RemovesNew(m) \/ RestartsOld(m) \/ Drops(m)
    BY <2>4 DEF RemovesOld, RemovesNew, RestartsOld, Drops, Ends, Goes, Steps, Guarded, Ended
  <2> QED
    BY <2>1, <2>2, <2>3, <2>4 DEF MoveDoes
<1>4. move[m].at \in Guarded \cup {"guard"}
  BY MoveControl DEF Control
<1>5. CASE \/ move'[m].at \in Ended
           \/ move'[m].at = "undo" /\ move[m].at \in Guarded \ {"undo", "again"}
  BY <1>1, <1>4, <1>5, GivingUp DEF Advances
<1>6. CASE move[m].at = "hold" /\ move'[m].at = "make"
  <2>1. /\ StepsToGo(move[m]) = 8 + PassSteps * (MaxDelta + 2)
        /\ StepsToGo(move'[m]) = 8 + Ahead(move'[m]) + Cardinality(File)
    BY <1>6, Remaining
  <2>2. Ahead(move'[m]) \in Nat
    BY <1>1, Measures
  <2> HIDE DEF PassSteps, Ahead
  <2> QED
    BY <1>2, <2>1, <2>2 DEF Advances
<1>7. CASE move[m].at = "stopold" /\ move'[m].at = "make" /\ move'[m].pass = "last"
  <2>1. Ahead(move'[m]) = 0
    BY <1>7 DEF Ahead
  <2>2. /\ StepsToGo(move[m]) = 7 + PassSteps
        /\ StepsToGo(move'[m]) = 8 + 0 + Cardinality(File)
    BY <1>7, <2>1, Remaining
  <2> QED
    BY <1>2, <2>2 DEF Advances
<1>8. CASE \/ move[m].at = "guard" /\ move'[m].at = "place"
           \/ move[m].at = "place" /\ move'[m].at = "create"
           \/ move[m].at = "create" /\ move'[m].at = "hold"
           \/ move[m].at = "ident" /\ move'[m].at = "setid"
           \/ move[m].at = "setid" /\ move'[m].at \in {"startnew", "removeold"}
           \/ move[m].at = "startnew" /\ move'[m].at = "removeold"
           \/ move[m].at = "undo" /\ move'[m].at = "again"
  BY <1>2, <1>8, Remaining DEF Advances
<1> QED
  BY <1>3, <1>5, <1>6, <1>7, <1>8

\* No move goes in circles (relocate_to): MAX_LIVE_DELTAS bounds the passes, and
\* nothing a node refuses or loses makes a call do a step again.
THEOREM EachStepAdvances == RelocateSpec => MoveAdvances
<1>1. ASSUME RelocateTypeOK, [RelocateNext]_relocateVars
      PROVE  \A m \in Mover : move[m].at \in Guarded \cup {"guard"} /\ move'[m] # move[m]
                                => StepsToGo(move'[m]) < StepsToGo(move[m])
  <2> SUFFICES ASSUME NEW m \in Mover, move[m].at \in Guarded \cup {"guard"}, move'[m] # move[m]
               PROVE  Advances(m)
    BY DEF Advances
  <2>1. CASE \E k \in Mover : MoveStep(k) \/ HandlerDropped(k)
    <3>1. PICK k \in Mover : MoveStep(k) \/ HandlerDropped(k)
      BY <2>1
    <3>2. RelocateTypeOK' /\ MoveDoes(k)
      BY <1>1, <3>1, MoveStepDoes
    <3>3. k = m
      BY <3>2, MoveControl DEF Control, OtherMoves
    <3>4. CASE move[m].at \notin {"make", "read", "land"}
      BY <1>1, <3>2, <3>3, <3>4, OthersAdvance
    <3>5. CASE move[m].at \in {"make", "read", "land"} /\ HandlerDropped(m)
      <4>1. move'[m].at \in Ended
        BY <1>1, <3>5, DropsDoes DEF Drops, Ends, Steps, Ended
      <4>2. move[m] \in CallSet
        BY <1>1, TypeParts
      <4> QED
        BY <4>1, <4>2, GivingUp DEF Advances
    <3>6. CASE move[m].at \in {"make", "read", "land"} /\ MoveStep(m)
      <4>1. MakeCopy(m) \/ Read(m) \/ Land(m)
        BY <3>6 DEF MoveStep, TakeGuard, Place, CreateNew, Hold, StopOld, Identity, SetIdentity,
                    StartNew, RemoveOld, RemoveNew, RestartOld
      <4> QED
        BY <1>1, <4>1, MakesAdvances, ReadsAdvances, LandsAdvances
    <3> QED
      BY <3>1, <3>3, <3>4, <3>5, <3>6
  <2>2. CASE \E k \in Mover, i \in Srv : Begin(k, i)
    <3>1. PICK k \in Mover : Begins(k)
      BY <1>1, <2>2, BeginsDoes
    <3>2. k # m
      BY <3>1 DEF Begins, Guarded
    <3> QED
      BY <3>1, <3>2 DEF Begins, OtherMoves
  <2>3. CASE UNCHANGED move
    BY <2>3
  <2> QED
    BY <1>1, <2>1, <2>2, <2>3 DEF RelocateNext, relocateVars, PlayerWrites, Do, Refused, List
<1>2. RelocateSpec => []RelocateTypeOK
  BY RelocateTyped, PTL
<1> QED
  BY <1>1, <1>2, PTL DEF RelocateSpec, MoveAdvances

(***************************************************************************)
(* The sweep, for any number of servers, accounts and limits: it stops no  *)
(* server it does not know to be empty, and removes none that has not been *)
(* down long enough.  Both hold because what the listing said of a row     *)
(* stays true until something happens to that server, which `touched`      *)
(* remembers.                                                              *)
(***************************************************************************)
\* What the sweep still has on its list is as the listing said it was, unless it
\* has been touched: empty while it is to be stopped, down while it is to be
\* removed.  A server on the list was made, and no id is made twice.
RowsStand ==
  \A i \in sweep.rows :
    /\ srv[i].st # "unmade"
    /\ sweep.at = "stop" /\ i \notin touched /\ srv[i].st = "running"
         => srv[i].players = "none"
    /\ sweep.at = "expire" /\ i \notin touched /\ srv[i].st \in {"running", "stopped"}
         => srv[i].st = "stopped" /\ srv[i].down >= Expiry
    /\ sweep.at \in {"stop", "expire"}

SweepsInv == SweepsTypeOK /\ RowsStand

-----------------------------------------------------------------------------
\* One more tick is an age, and no younger.
LEMMA OlderIsAge ==
  ASSUME NEW n \in Age
  PROVE  Older(n) \in Age /\ Older(n) >= n
BY SweepsAssumption DEF Older, Age

LEMMA SweepsInitInv == SweepsInit => SweepsInv
<1> SUFFICES ASSUME SweepsInit PROVE SweepsInv
  OBVIOUS
<1>1. 0 \in Age /\ MaxOutage \in Nat
  BY SweepsAssumption DEF Age
<1>2. SweepsTypeOK
  BY <1>1 DEF SweepsInit, SweepsTypeOK, Absent, Players
<1>3. RowsStand
  BY DEF SweepsInit, RowsStand
<1> QED
  BY <1>2, <1>3 DEF SweepsInv

-----------------------------------------------------------------------------
(* The sweep's own steps.                                                  *)

\* The two listings: what they put on the list is as RowsStand says.
LEMMA ListingsKeepInv ==
  ASSUME SweepsInv, SweepLists \/ SweepListsAgain
  PROVE  SweepsInv'
<1>1. SweepsTypeOK'
  BY DEF SweepsInv, SweepsTypeOK, SweepLists, SweepListsAgain, Listings, Standing, net
<1>2. CASE SweepLists
  <2>1. sweep'.at = "stop" /\ UNCHANGED srv
    BY <1>2 DEF SweepLists
  <2>2. \A i \in sweep'.rows : i \in Standing /\ Reapable(i) /\ i \in Server
    BY <1>2 DEF SweepLists, Listings, Standing
  <2>3. \A i \in sweep'.rows : srv[i].st # "unmade" /\ srv[i].players = "none"
    BY <2>2 DEF Standing, Reapable, SweepsInv, SweepsTypeOK, Players
  <2> QED
    BY <1>1, <2>1, <2>3 DEF SweepsInv, RowsStand
<1>3. CASE SweepListsAgain
  <2>1. sweep'.at = "expire" /\ UNCHANGED srv
    BY <1>3 DEF SweepListsAgain
  <2>2. \A i \in sweep'.rows : i \in Standing /\ Expired(i)
    BY <1>3 DEF SweepListsAgain, Listings
  <2> QED
    BY <1>1, <2>1, <2>2 DEF Expired, SweepsInv, RowsStand
<1> QED
  BY <1>2, <1>3

\* Working a row off the list, and the turns between the phases.
LEMMA SweepingKeepsInv ==
  ASSUME SweepsInv,
         \/ \E i \in Server : SweepStops(i) \/ SweepSkips(i) \/ SweepRemoves(i)
         \/ SweepTurns \/ SweepRests
  PROVE  SweepsInv'
<1> USE DEF SweepsInv
<1>1. ASSUME NEW i \in Server, SweepStops(i) PROVE SweepsInv'
  <2>1. SweepsTypeOK'
    BY <1>1 DEF SweepsTypeOK, SweepStops, Stops, Players, net
  <2>2. \A j \in sweep'.rows : srv'[j] = srv[j] /\ j \in sweep.rows
    BY <1>1 DEF SweepStops, Stops, SweepsTypeOK
  <2>3. sweep'.at = sweep.at /\ touched' = touched
    BY <1>1 DEF SweepStops, SweepsTypeOK
  <2> QED
    BY <2>1, <2>2, <2>3 DEF RowsStand
<1>2. ASSUME NEW i \in Server, SweepSkips(i) PROVE SweepsInv'
  <2>1. SweepsTypeOK'
    BY <1>2 DEF SweepsTypeOK, SweepSkips, net
  <2>2. /\ sweep'.rows \subseteq sweep.rows /\ sweep'.at = sweep.at
        /\ touched' = touched /\ srv' = srv
    BY <1>2 DEF SweepSkips, SweepsTypeOK
  <2> QED
    BY <2>1, <2>2 DEF RowsStand
<1>3. ASSUME NEW i \in Server, SweepRemoves(i) PROVE SweepsInv'
  <2>1. SweepsTypeOK'
    BY <1>3, SweepsAssumption DEF SweepsTypeOK, SweepRemoves, Removed, Absent, Players, net, Age
  <2>2. \A j \in sweep'.rows : srv'[j] = srv[j] /\ j \in sweep.rows
    BY <1>3 DEF SweepRemoves, Removed, SweepsTypeOK
  <2>3. sweep'.at = sweep.at /\ touched' = touched
    BY <1>3 DEF SweepRemoves, SweepsTypeOK
  <2> QED
    BY <2>1, <2>2, <2>3 DEF RowsStand
<1>4. CASE SweepTurns \/ SweepRests
  <2>1. SweepsTypeOK'
    BY <1>4 DEF SweepsTypeOK, SweepTurns, SweepRests, net
  <2>2. sweep'.rows = {}
    BY <1>4 DEF SweepTurns, SweepRests, SweepsTypeOK
  <2> QED
    BY <2>1, <2>2 DEF RowsStand
<1> QED
  BY <1>1, <1>2, <1>3, <1>4

-----------------------------------------------------------------------------
(* Everyone else's.                                                        *)

\* One server changes, and either it is touched, or it goes, or it was not yet made.
LEMMA OthersKeepInv ==
  ASSUME SweepsInv, NEW i \in Server,
         \/ Made(i) \/ StartsAgain(i) \/ StopsAlone(i) \/ OwnerDestroys(i) \/ PlayersChange(i)
  PROVE  SweepsInv'
<1> USE DEF SweepsInv
<1>1. SweepsTypeOK'
  <2>1. CASE Made(i) \/ StartsAgain(i) \/ StopsAlone(i)
    BY <2>1, SweepsAssumption
    DEF Made, StartsAgain, StopsAlone, Stops, SweepsTypeOK, Players, Age, net
  <2>2. CASE OwnerDestroys(i)
    BY <2>2, SweepsAssumption DEF OwnerDestroys, Removed, Absent, SweepsTypeOK, Players, Age, net
  <2>3. CASE PlayersChange(i)
    <3>1. PICK p \in Players : srv' = [srv EXCEPT ![i].players = p]
      BY <2>3 DEF PlayersChange
    <3> QED
      BY <2>3, <3>1 DEF PlayersChange, SweepsTypeOK, net
  <2> QED
    BY <2>1, <2>2, <2>3
<1>2. /\ sweep' = sweep
      /\ \A j \in Server \ {i} : srv'[j] = srv[j]
      /\ touched \subseteq touched'
  BY DEF Made, StartsAgain, StopsAlone, Stops, OwnerDestroys, Removed, PlayersChange, SweepsTypeOK
<1>3. i \in sweep.rows => srv[i].st # "unmade"
  BY DEF RowsStand
<1>4. i \in sweep.rows => i \in touched' \/ srv'[i].st = "gone"
  BY <1>3 DEF Made, StartsAgain, StopsAlone, OwnerDestroys, Removed, Absent, PlayersChange, SweepsTypeOK
<1>5. i \in sweep.rows => srv'[i].st # "unmade"
  BY <1>3 DEF Made, StartsAgain, StopsAlone, Stops, OwnerDestroys, Removed, Absent, PlayersChange,
              SweepsTypeOK
<1>6. sweep.rows \subseteq Server
  BY DEF SweepsTypeOK
<1> QED
  BY <1>1, <1>2, <1>4, <1>5, <1>6 DEF RowsStand

\* Time makes nobody younger.
LEMMA TickKeepsInv ==
  ASSUME SweepsInv, Tick
  PROVE  SweepsInv'
<1> USE DEF SweepsInv
<1>1. ASSUME NEW i \in Server
      PROVE /\ srv'[i] \in [st : {"unmade", "running", "stopped", "gone"}, acct : Owner,
                             node : Node, players : Players, age : Age, down : Age]
            /\ srv'[i].st = srv[i].st /\ srv'[i].players = srv[i].players
            /\ srv[i].st = "stopped" => srv'[i].down >= srv[i].down
  <2>1. srv'[i] = IF i \notin Standing THEN srv[i]
                  ELSE [srv[i] EXCEPT !.age = Older(@),
                                      !.down = IF srv[i].st = "stopped" THEN Older(@) ELSE 0]
    BY DEF Tick
  <2>2. srv[i] \in [st : {"unmade", "running", "stopped", "gone"}, acct : Owner,
                     node : Node, players : Players, age : Age, down : Age]
    BY DEF SweepsTypeOK
  <2>3. 0 \in Age /\ srv[i].down \in Age /\ srv[i].age \in Age /\ srv[i].down \in Nat
    BY <2>2, SweepsAssumption DEF Age
  <2>4. /\ Older(srv[i].age) \in Age
        /\ Older(srv[i].down) \in Age /\ Older(srv[i].down) >= srv[i].down
    BY <2>3, OlderIsAge
  <2>5. CASE i \notin Standing
    BY <2>1, <2>2, <2>3, <2>5
  <2>6. CASE i \in Standing
    BY <2>1, <2>2, <2>3, <2>4, <2>6
  <2> QED
    BY <2>5, <2>6
<1>2. srv' = [i \in Server |-> srv'[i]] /\ UNCHANGED <<keep, sweep, touched, net>>
  BY DEF Tick
<1>3. SweepsTypeOK'
  BY <1>1, <1>2 DEF SweepsTypeOK, net
<1>4. RowsStand'
  <2> SUFFICES ASSUME NEW i \in sweep.rows
               PROVE /\ srv'[i].st # "unmade"
                     /\ sweep.at = "stop" /\ i \notin touched /\ srv'[i].st = "running"
                          => srv'[i].players = "none"
                     /\ sweep.at = "expire" /\ i \notin touched
                          /\ srv'[i].st \in {"running", "stopped"}
                          => srv'[i].st = "stopped" /\ srv'[i].down >= Expiry
                     /\ sweep.at \in {"stop", "expire"}
    BY <1>2 DEF RowsStand
  <2>1. i \in Server /\ srv[i].down \in Nat /\ srv'[i].down \in Nat
    BY <1>1, SweepsAssumption DEF SweepsTypeOK, Age
  <2> QED
    BY <1>1, <2>1, SweepsAssumption DEF RowsStand
<1> QED
  BY <1>3, <1>4

LEMMA SweepsNextInv == SweepsInv /\ [SweepsNext]_sweepsVars => SweepsInv'
<1> SUFFICES ASSUME SweepsInv, [SweepsNext]_sweepsVars PROVE SweepsInv'
  OBVIOUS
<1>1. CASE SweepStep
  BY <1>1, ListingsKeepInv, SweepingKeepsInv DEF SweepStep
<1>2. ASSUME NEW i \in Server,
             \/ Made(i) \/ StartsAgain(i) \/ StopsAlone(i) \/ OwnerDestroys(i) \/ PlayersChange(i)
      PROVE SweepsInv'
  BY <1>2, OthersKeepInv
<1>3. CASE Tick
  BY <1>3, TickKeepsInv
<1>4. CASE \/ \E n \in Node : Outage(n) \/ Recovers(n)
           \/ \E k \in SUBSET Owner : Reload(k)
           \/ UNCHANGED sweepsVars
  <2>1. UNCHANGED <<srv, sweep, touched>>
    BY <1>4 DEF Outage, Recovers, Reload, sweepsVars
  <2>2. keep' \subseteq Owner /\ silent' \subseteq Node /\ outages' \in 0 .. MaxOutage
    BY <1>4, SweepsAssumption
    DEF Outage, Recovers, Reload, sweepsVars, net, SweepsInv, SweepsTypeOK
  <2> QED
    BY <2>1, <2>2 DEF SweepsInv, SweepsTypeOK, RowsStand
<1> QED
  BY <1>1, <1>2, <1>3, <1>4 DEF SweepsNext

-----------------------------------------------------------------------------
(* The theorems.                                                           *)

\* The inductive invariant holds of every behaviour of the sweep.
THEOREM SweepsInvariant == SweepsSpec => []SweepsInv
BY SweepsInitInv, SweepsNextInv, PTL DEF SweepsSpec

\* Every variable of the sweep keeps its type.
THEOREM SweepsTypes == SweepsSpec => []SweepsTypeOK
BY SweepsInvariant, PTL DEF SweepsInv

\* reap_idle never stops a server with players on it, or one that nobody could
\* ask, unless something happened to that server after the listing.
THEOREM NoPlayerThrownOut == SweepsSpec => ReapedWasEmpty
<1>1. SweepsInv /\ [SweepsNext]_sweepsVars
        => [\A i \in Server :
              sweep.at = "stop" /\ i \in sweep.rows \ sweep'.rows
                /\ srv[i].st = "running" /\ srv'[i].st = "stopped"
              => srv[i].players = "none" \/ i \in touched]_sweepsVars
  BY DEF SweepsInv, RowsStand
<1> QED
  BY <1>1, SweepsInvariant, PTL DEF ReapedWasEmpty, SweepsSpec

\* expire_stopped never removes a server before its time, unless somebody
\* touched it after the listing.
THEOREM NothingRemovedEarly == SweepsSpec => RemovedWasDown
<1>1. SweepsInv /\ [SweepsNext]_sweepsVars
        => [\A i \in Server :
              sweep.at = "expire" /\ i \in sweep.rows \ sweep'.rows
                /\ i \in Standing /\ i \notin Standing'
              => srv[i].down >= Expiry \/ i \in touched]_sweepsVars
  BY DEF SweepsInv, RowsStand, Standing
<1> QED
  BY <1>1, SweepsInvariant, PTL DEF RemovedWasDown, SweepsSpec

\* Both, as the run checks them: the whole of what a sweep may do to a server
\* (hosting.rs, reap_idle and expire_stopped).
THEOREM SweepsSpareServers == SweepsSpec => SweepSpares
BY NoPlayerThrownOut, NothingRemovedEarly DEF SweepSpares

=============================================================================
