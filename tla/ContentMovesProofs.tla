------------------------- MODULE ContentMovesProofs -------------------------
(***************************************************************************)
(* Theorems of ContentMoves, for every set of servers, copies and tasks,   *)
(* and any number of failures and restarts of the agent.                   *)
(***************************************************************************)
EXTENDS ContentMoves, FiniteSetTheorems, TLAPS

USE DEF Task, docker, disk, locks, ghosts, vars

-----------------------------------------------------------------------------
(* Type correctness, with what a task's locals hold at each of its steps.  *)

Underway == {"mstop", "mremove", "mto", "mmake", "settle", "mundo", "mback", "mrestore"}
MoveAt   == {"mplan", "mpin"} \cup Underway

Wf(j) ==
  /\ j.at \in MoveAt \cup {"mlist", "plan", "make", "remove", "release"} => j.srv \in Instance
  /\ j.at \in MoveAt \cup {"make", "list", "rename", "trash", "use", "fetch", "activate"}
       => j.ver \in Copy
  /\ j.at \in MoveAt \cup {"fetch", "activate"} => j.to \in Copy
  /\ j.at = "activate" => j.ver # j.to

Locals  == \A t \in Task : Wf(job[t])
TypeInv == TypeOK /\ Locals

LEMMA ActiveIsCopy == TypeOK => Active \in Copy
BY CopiesAssumption DEF TypeOK, Active

\* A task that ends or goes on changes its own record only.
LEMMA StepsOfJob ==
  ASSUME TypeInv, NEW t \in Task, NEW r \in Job, Wf(r), job' = [job EXCEPT ![t] = r]
  PROVE  job' \in [Task -> Job] /\ Locals'
BY DEF TypeInv, TypeOK, Locals

LEMMA IdleIsJob == Idle \in Job /\ Wf(Idle)
BY DEF Idle, Job, Wf, MoveAt, Underway

LocksOK ==
  /\ job \in [Task -> Job] /\ Locals
  /\ mover \in Task \cup {None}
  /\ pins \in [Instance -> SUBSET Copy] /\ slot \in BOOLEAN

DataOK ==
  /\ copy \in [Instance -> Copy \cup {None}]
  /\ up \in SUBSET {i \in Instance : copy[i] # None}
  /\ held \in SUBSET Instance
  /\ installed \in SUBSET Copy /\ active \in Copy \cup {None} /\ pending \in SUBSET (Copy \ {active})
  /\ boots \in 0..MaxUpsets /\ harm \in 0..MaxUpsets

LEMMA TypeParts == (TypeInv <=> LocksOK /\ DataOK) /\ (TypeInv' <=> LocksOK' /\ DataOK')
BY DEF TypeInv, TypeOK, LocksOK, DataOK

LEMMA EndsType ==
  ASSUME TypeInv, NEW t \in Task, Unwinds(t), slot' \in BOOLEAN
  PROVE  LocksOK'
<1>1. job' \in [Task -> Job] /\ Locals'
  BY StepsOfJob, IdleIsJob DEF Unwinds, Return
<1>2. mover' \in Task \cup {None} /\ pins' \in [Instance -> SUBSET Copy]
  BY DEF Unwinds, Unpin, TypeInv, TypeOK
<1> QED
  BY <1>1, <1>2 DEF LocksOK

LEMMA MovesInitType == Init => TypeInv
<1> SUFFICES ASSUME Init PROVE TypeInv
  OBVIOUS
<1>1. job \in [Task -> Job] /\ Locals
  BY IdleIsJob DEF Init, Locals
<1>2. boots \in 0..MaxUpsets /\ harm \in 0..MaxUpsets
  BY CountsAssumption DEF Init
<1> QED
  BY <1>1, <1>2, CopiesAssumption DEF Init, TypeInv, TypeOK

LEMMA FetchJob ==
  ASSUME NEW a \in Copy, NEW v \in Copy
  PROVE  LET r == [Idle EXCEPT !.at = "fetch", !.op = "fetch", !.ver = a, !.to = v]
         IN  r \in Job /\ Wf(r)
<1> DEFINE r == [Idle EXCEPT !.at = "fetch", !.op = "fetch", !.ver = a, !.to = v]
<1>1. r \in Job
  BY DEF Idle, Job
<1>2. r.at = "fetch" /\ r.ver = a /\ r.to = v
  BY DEF Idle
<1> HIDE DEF r
<1>3. Wf(r)
  BY <1>2 DEF Wf, MoveAt, Underway
<1> QED
  BY <1>1, <1>3 DEF r

LEMMA MovesNextType == TypeInv /\ [Next]_vars => TypeInv'
<1> SUFFICES ASSUME TypeInv, [Next]_vars PROVE TypeInv'
  OBVIOUS
<1> USE CopiesAssumption, CountsAssumption, TypeParts, ActiveIsCopy
    DEF Begin, Goto, Return, Makes, Unmakes, RemoveFails, Harm, Upset, Present, LocksOK, DataOK
<1>e. ASSUME NEW t \in Task, Ends(t) PROVE LocksOK'
  BY <1>e, EndsType DEF Ends
<1>1. ASSUME NEW c \in Client, NEW i \in Instance, CreateChecks(c, i) PROVE TypeInv'
  BY <1>1 DEF CreateChecks, Job, Idle, Wf, MoveAt, Underway, Locals
<1>2. ASSUME NEW c \in Client, NEW i \in Instance, Remove(c, i) PROVE TypeInv'
  BY <1>2 DEF Remove, Job, Idle, Wf, MoveAt, Underway, Locals
<1>3. ASSUME NEW c \in Client, NEW v \in Copy, DeleteBegins(c, v) PROVE TypeInv'
  BY <1>3 DEF DeleteBegins, Job, Idle, Wf, MoveAt, Underway, Locals
<1>4. ASSUME NEW c \in Client, NEW v \in Copy, UseBegins(c, v) PROVE TypeInv'
  BY <1>4 DEF UseBegins, Job, Idle, Wf, MoveAt, Underway, Locals
<1>5. ASSUME NEW t \in Task, NEW i \in Instance, MoveBegins(t, i) PROVE TypeInv'
  BY <1>5 DEF MoveBegins, Job, Idle, Wf, MoveAt, Underway, Locals
<1>6. ASSUME NEW t \in Task, NEW v \in Copy, FetchBegins(t, v) PROVE TypeInv'
  <2>1. DataOK' /\ UNCHANGED <<pins, mover>> /\ slot' = TRUE
    BY <1>6 DEF FetchBegins
  <2> DEFINE r == [Idle EXCEPT !.at = "fetch", !.op = "fetch", !.ver = Active, !.to = v]
  <2>2. r \in Job /\ Wf(r)
    <3>1. TypeOK
      BY DEF TypeInv
    <3> HIDE DEF TypeOK, TypeInv
    <3>2. Active \in Copy
      BY <3>1, ActiveIsCopy
    <3> QED
      BY <3>2, FetchJob
  <2>3. job' = [job EXCEPT ![t] = r]
    BY <1>6 DEF FetchBegins, Begin
  <2>4. job' \in [Task -> Job] /\ Locals'
    BY <2>2, <2>3, StepsOfJob
  <2> QED
    BY <2>1, <2>4
<1>7. ASSUME NEW t \in Task, NEW v \in Copy, SweepNext(t, v) PROVE TypeInv'
  BY <1>7 DEF SweepNext, Job, Idle, Wf, MoveAt, Underway, Locals
<1>8. ASSUME NEW t \in Task, CreatePlans(t) PROVE TypeInv'
  BY <1>8 DEF CreatePlans, Job, Idle, Wf, MoveAt, Underway, Locals
<1>9. ASSUME NEW t \in Task, CreateMakes(t) PROVE TypeInv'
  BY <1>9 DEF CreateMakes, Job, Idle, Wf, MoveAt, Underway, Locals
<1>10. ASSUME NEW t \in Task, DockerRemove(t) PROVE TypeInv'
  BY <1>10 DEF DockerRemove, Job, Idle, Wf, MoveAt, Underway, Locals
<1>11. ASSUME NEW t \in Task, Release(t) PROVE TypeInv'
  BY <1>11 DEF Release, Job, Idle, Wf, MoveAt, Underway, Locals
<1>12. ASSUME NEW t \in Task, MovePins(t) PROVE TypeInv'
  BY <1>12 DEF MovePins, Job, Idle, Wf, MoveAt, Underway, Locals
<1>13. ASSUME NEW t \in Task, MoveTries(t) PROVE TypeInv'
  BY <1>13 DEF MoveTries, Job, Idle, Wf, MoveAt, Underway, Locals
<1>14. ASSUME NEW t \in Task, MoveMakes(t) PROVE TypeInv'
  BY <1>14 DEF MoveMakes, Job, Idle, Wf, MoveAt, Underway, Locals
<1>15. ASSUME NEW t \in Task, MoveUndoes(t) PROVE TypeInv'
  BY <1>15 DEF MoveUndoes, Job, Idle, Wf, MoveAt, Underway, Locals
<1>16. ASSUME NEW t \in Task, DeleteLists(t) PROVE TypeInv'
  <2>1. DataOK'
    BY <1>16 DEF DeleteLists, Deleted
  <2>2. CASE Ends(t)
    BY <1>e, <2>1, <2>2
  <2>3. CASE ~Ends(t)
    BY <1>16, <2>1, <2>3 DEF DeleteLists, Deleted, Job, Idle, Wf, MoveAt, Underway, Locals
  <2> QED
    BY <2>2, <2>3
<1>17. ASSUME NEW t \in Task, DeleteRenames(t) PROVE TypeInv'
  <2>1. DataOK'
    BY <1>17 DEF DeleteRenames, Deleted
  <2>2. CASE Ends(t)
    BY <1>e, <2>1, <2>2
  <2>3. CASE ~Ends(t)
    BY <1>17, <2>1, <2>3 DEF DeleteRenames, Deleted, Job, Idle, Wf, MoveAt, Underway, Locals
  <2> QED
    BY <2>2, <2>3
<1>18. ASSUME NEW t \in Task, DeleteEnds(t) PROVE TypeInv'
  <2>1. DataOK'
    BY <1>18 DEF DeleteEnds, Deleted
  <2>2. CASE Ends(t)
    BY <1>e, <2>1, <2>2
  <2>3. CASE ~Ends(t)
    BY <1>18, <2>1, <2>3 DEF DeleteEnds, Deleted, Job, Idle, Wf, MoveAt, Underway, Locals
  <2> QED
    BY <2>2, <2>3
<1>19. ASSUME NEW t \in Task, SweepEnds(t) PROVE TypeInv'
  <2>1. DataOK'
    BY <1>19 DEF SweepEnds
  <2>2. CASE Ends(t)
    BY <1>e, <2>1, <2>2
  <2>3. CASE ~Ends(t)
    BY <1>19, <2>1, <2>3 DEF SweepEnds, Job, Idle, Wf, MoveAt, Underway, Locals
  <2> QED
    BY <2>2, <2>3
<1>20. ASSUME NEW t \in Task, UseSets(t) PROVE TypeInv'
  <2>1. DataOK'
    BY <1>20 DEF UseSets, Locals, Wf, MoveAt, Underway
  <2>2. CASE Ends(t)
    BY <1>e, <2>1, <2>2
  <2>3. CASE ~Ends(t)
    BY <1>20, <2>1, <2>3 DEF UseSets, Job, Idle, Wf, MoveAt, Underway, Locals
  <2> QED
    BY <2>2, <2>3
<1>21. ASSUME NEW t \in Task, FetchLands(t) PROVE TypeInv'
  <2>1. DataOK'
    BY <1>21 DEF FetchLands, Locals, Wf, MoveAt, Underway
  <2>2. CASE Ends(t)
    BY <1>e, <2>1, <2>2
  <2>3. CASE ~Ends(t)
    BY <1>21, <2>1, <2>3 DEF FetchLands, Job, Idle, Wf, MoveAt, Underway, Locals
  <2> QED
    BY <2>2, <2>3
<1>22. ASSUME NEW t \in Task, Activates(t) PROVE TypeInv'
  <2>1. DataOK'
    BY <1>22 DEF Activates, Locals, Wf, MoveAt, Underway
  <2>2. CASE Ends(t)
    BY <1>e, <2>1, <2>2
  <2>3. CASE ~Ends(t)
    BY <1>22, <2>1, <2>3 DEF Activates, Job, Idle, Wf, MoveAt, Underway, Locals
  <2> QED
    BY <2>2, <2>3
<1>23. ASSUME NEW t \in Task, MoveLists(t) PROVE TypeInv'
  <2>1. DataOK'
    BY <1>23 DEF MoveLists
  <2>2. CASE Ends(t)
    BY <1>e, <2>1, <2>2
  <2>3. CASE ~Ends(t)
    <3>1. /\ job' = [job EXCEPT ![t].at = "mplan", ![t].ver = copy[job[t].srv], ![t].to = Active]
          /\ job[t].srv \in up /\ job[t].at = "mlist" /\ UNCHANGED locks
      BY <1>23, <2>3 DEF MoveLists
    <3>2. copy[job[t].srv] \in Copy
      BY <3>1
    <3> DEFINE r == [job[t] EXCEPT !.at = "mplan", !.ver = copy[job[t].srv], !.to = Active]
    <3>3. job[t] \in Job /\ job[t].srv \in Instance /\ Active \in Copy
      BY <3>1 DEF Wf, Locals, TypeInv
    <3>4. r \in Job /\ Wf(r)
      BY <3>2, <3>3 DEF Job, Wf, MoveAt, Underway
    <3>5. job' = [job EXCEPT ![t] = r]
      BY <3>1
    <3>6. job' \in [Task -> Job] /\ Locals'
      BY <3>4, <3>5, StepsOfJob
    <3> QED
      BY <2>1, <3>1, <3>6
  <2> QED
    BY <2>2, <2>3
<1>24. ASSUME NEW t \in Task, MovePlans(t) PROVE TypeInv'
  <2>1. DataOK'
    BY <1>24 DEF MovePlans
  <2>2. CASE Ends(t)
    BY <1>e, <2>1, <2>2
  <2>3. CASE ~Ends(t)
    BY <1>24, <2>1, <2>3 DEF MovePlans, Job, Idle, Wf, MoveAt, Underway, Locals
  <2> QED
    BY <2>2, <2>3
<1>25. ASSUME NEW t \in Task, MoveStops(t) PROVE TypeInv'
  <2>1. DataOK'
    BY <1>25 DEF MoveStops
  <2>2. CASE Ends(t)
    BY <1>e, <2>1, <2>2
  <2>3. CASE ~Ends(t)
    BY <1>25, <2>1, <2>3 DEF MoveStops, Job, Idle, Wf, MoveAt, Underway, Locals
  <2> QED
    BY <2>2, <2>3
<1>26. ASSUME NEW t \in Task, MoveRemoves(t) PROVE TypeInv'
  <2>1. DataOK'
    BY <1>26 DEF MoveRemoves
  <2>2. CASE Ends(t)
    BY <1>e, <2>1, <2>2
  <2>3. CASE ~Ends(t)
    BY <1>26, <2>1, <2>3 DEF MoveRemoves, Job, Idle, Wf, MoveAt, Underway, Locals
  <2> QED
    BY <2>2, <2>3
<1>27. ASSUME NEW t \in Task, MoveSettles(t) PROVE TypeInv'
  <2>1. DataOK'
    BY <1>27 DEF MoveSettles
  <2>2. CASE Ends(t)
    BY <1>e, <2>1, <2>2
  <2>3. CASE ~Ends(t)
    BY <1>27, <2>1, <2>3 DEF MoveSettles, Unpin, Job, Idle, Wf, MoveAt, Underway, Locals
  <2> QED
    BY <2>2, <2>3
<1>28. ASSUME NEW t \in Task, MoveTurnsBack(t) PROVE TypeInv'
  <2>1. DataOK'
    BY <1>28 DEF MoveTurnsBack, Lost
  <2>2. CASE Ends(t)
    BY <1>e, <2>1, <2>2
  <2>3. CASE ~Ends(t)
    BY <1>28, <2>1, <2>3 DEF MoveTurnsBack, Lost, Job, Idle, Wf, MoveAt, Underway, Locals
  <2> QED
    BY <2>2, <2>3
<1>29. ASSUME NEW t \in Task, MoveRestores(t) PROVE TypeInv'
  <2>1. DataOK'
    BY <1>29 DEF MoveRestores, Lost, Locals, Wf, MoveAt, Underway
  <2>2. CASE Ends(t)
    BY <1>e, <2>1, <2>2
  <2>3. CASE ~Ends(t)
    BY <1>29, <2>1, <2>3 DEF MoveRestores, Lost, Job, Idle, Wf, MoveAt, Underway, Locals
  <2> QED
    BY <2>2, <2>3
<1>30. ASSUME NEW i \in Instance, GameEnds(i) \/ GameRuns(i) PROVE TypeInv'
  BY <1>30 DEF GameEnds, GameRuns, Locals
<1>31. ASSUME NEW c \in Client, CallerHangsUp(c) PROVE TypeInv'
  BY <1>31, EndsType DEF CallerHangsUp
<1>32. ASSUME NEW t \in Loop, AgentRestarts(t) PROVE TypeInv'
  <2>1. DataOK'
    BY <1>32 DEF AgentRestarts
  <2>2. LocksOK'
    BY <1>32 DEF AgentRestarts, Job, Idle, Wf, MoveAt, Underway, Locals
  <2> QED
    BY <2>1, <2>2
<1>33. CASE UNCHANGED vars
  BY <1>33 DEF Locals
<1> QED
  BY <1>1, <1>2, <1>3, <1>4, <1>5, <1>6, <1>7, <1>8, <1>9, <1>10, <1>11, <1>12, <1>13, <1>14, <1>15, <1>16, <1>17, <1>18, <1>19, <1>20, <1>21, <1>22, <1>23, <1>24, <1>25, <1>26, <1>27, <1>28, <1>29, <1>30, <1>31, <1>32, <1>33
     DEF Next, Asks, LoopBegins, MoveStep, ContentStep, ServerStep

\* Tasks, locks, copies and servers keep their types, and every step finds the
\* server and the copies it works on in its task's locals.
THEOREM MovesTypeCorrect == Spec => []TypeOK
<1>1. Init => TypeInv
  BY MovesInitType
<1>2. TypeInv /\ [Next]_vars => TypeInv'
  BY MovesNextType
<1>3. TypeInv => TypeOK
  BY DEF TypeInv
<1> QED
  BY <1>1, <1>2, <1>3, PTL DEF Spec

-----------------------------------------------------------------------------
(* No delete takes a copy that is mounted or pinned.  A delete between its *)
(* listing and its rename found the copy unmounted; who mounts it since is *)
(* a move, which pinned it first and cannot let go before the rename; so a *)
(* mounted copy is pinned there, and the look at the pins saves it.        *)

Moving == MoveAt \cup {"mlist"}

\* Pins are the mover's, from its pin to its end.
PinsInv ==
  /\ \A t \in Task : job[t].at \in Moving => mover = t
  /\ \A t \in Task : job[t].at \in Underway => pins[job[t].srv] = {job[t].ver, job[t].to}
  /\ \A i \in Instance : pins[i] # {} => mover \in Task /\ job[mover].at \in Underway

RenameInv ==
  \A t \in Task : job[t].at = "rename" =>
    /\ \A c \in Task : job[c].at = "make" => job[c].ver # job[t].ver
    /\ \A i \in Instance : copy[i] = job[t].ver => job[t].ver \in pins[i]

DeleteInv == TypeInv /\ PinsInv /\ RenameInv

Prompt == "late" \notin Races

\* What a step may do to the mounts: unmount, or mount what is pinned.
MountsPinned == \A i \in Instance : copy'[i] \in {copy[i], None} \cup pins[i]

\* The step is one of task t, which goes on at s or ends.
OnlyJob(t) == t \in Task /\ \A d \in Task : d # t => job'[d] = job[d]
GoesTo(t, s) ==
  /\ OnlyJob(t) /\ job'[t].at = s
  /\ job'[t].srv = job[t].srv /\ job'[t].ver = job[t].ver /\ job'[t].to = job[t].to

LEMMA GotoGoes ==
  ASSUME TypeInv, NEW t \in Task, NEW s, Goto(t, s)
  PROVE  GoesTo(t, s)
<1>1. job[t] \in Job /\ job' = [job EXCEPT ![t] = [job[t] EXCEPT !.at = s]]
  BY DEF Goto, TypeInv, TypeOK
<1> QED
  BY <1>1 DEF GoesTo, OnlyJob, Job, TypeInv, TypeOK

LEMMA BeginGoes ==
  ASSUME TypeInv, NEW t \in Task, NEW r, Begin(t, r)
  PROVE  OnlyJob(t) /\ job'[t] = r /\ job[t].at = "idle"
BY DEF Begin, OnlyJob, TypeInv, TypeOK

\* Steps of a task that is in no move under way, does not learn that a copy is
\* unmounted or is there, and leaves the move lock and the pins alone.
LEMMA FrameDelete ==
  ASSUME DeleteInv, TypeInv', MountsPinned, UNCHANGED <<pins, mover>>, NEW t \in Task,
         OnlyJob(t), job[t].at \notin Underway, job'[t].at \notin Moving \cup {"make", "rename"}
  PROVE  PinsInv' /\ RenameInv'
<1> USE CopiesAssumption DEF DeleteInv, TypeInv, TypeOK, Locals, OnlyJob
<1>1. PinsInv'
  BY DEF PinsInv, Moving, MoveAt, Underway
<1>2. RenameInv'
  BY DEF RenameInv, MountsPinned, Wf
<1> QED
  BY <1>1, <1>2

\* A step of a move under way, from its pins to the end.
LEMMA MoveDelete ==
  ASSUME DeleteInv, TypeInv', MountsPinned, UNCHANGED <<pins, mover>>, NEW t \in Task,
         NEW s \in Underway, GoesTo(t, s), job[t].at \in Underway
  PROVE  PinsInv' /\ RenameInv'
<1>1. mover = t /\ pins' = pins /\ mover' = mover
  BY DEF DeleteInv, PinsInv, Moving, MoveAt
<1>2. ASSUME NEW d \in Task
      PROVE  /\ job'[d].at \in Moving => mover' = d
             /\ job'[d].at \in Underway => pins'[job'[d].srv] = {job'[d].ver, job'[d].to}
  BY <1>1 DEF DeleteInv, PinsInv, GoesTo, OnlyJob
<1>3. PinsInv'
  BY <1>1, <1>2 DEF DeleteInv, PinsInv, GoesTo
<1>4. RenameInv'
  BY CopiesAssumption DEF RenameInv, MountsPinned, Wf, Underway, DeleteInv, TypeInv, TypeOK, Locals,
     GoesTo, OnlyJob
<1> QED
  BY <1>3, <1>4

\* The mover lets go of its pins: by then no delete waits to rename one of them.
LEMMA LetGoDelete ==
  ASSUME DeleteInv, Prompt, TypeInv', MountsPinned, NEW t \in Task, OnlyJob(t),
         job'[t].at \notin Moving \cup {"make", "rename"},
         mover = t, Unpin, mover' \in {t, None}
  PROVE  PinsInv' /\ RenameInv'
<1> USE CopiesAssumption DEF DeleteInv, TypeInv, TypeOK, Locals, OnlyJob
<1>1. pins' = [i \in Instance |-> {}]
  BY DEF Unpin
<1>2. PinsInv'
  BY <1>1 DEF PinsInv, Moving, MoveAt, Underway
<1>3. ASSUME NEW d \in Task, job'[d].at = "rename", NEW i \in Instance, copy'[i] = job'[d].ver
      PROVE  FALSE
  <2>1. d # t /\ job[d].at = "rename" /\ job'[d] = job[d] /\ job[d].ver \in Copy
    BY <1>3 DEF Wf
  <2>2. job[d].ver \in pins[i]
    BY <1>3, <2>1 DEF MountsPinned, RenameInv
  <2>3. Answered(job[d].ver)
    BY <2>1, <2>2 DEF Unpin, Pinned
  <2> QED
    BY <2>1, <2>3 DEF Answered, Waits, Prompt
<1>4. ASSUME NEW d \in Task, job'[d].at = "rename", NEW c \in Task, job'[c].at = "make"
      PROVE  job'[c].ver # job'[d].ver
  BY <1>4 DEF RenameInv
<1> QED
  BY <1>2, <1>3, <1>4 DEF RenameInv

\* The end of a task, of its move if it has one.
LEMMA EndsDelete ==
  ASSUME DeleteInv, Prompt, TypeInv', MountsPinned, NEW t \in Task, Unwinds(t)
  PROVE  PinsInv' /\ RenameInv'
<1>1. OnlyJob(t) /\ job'[t].at = "idle"
  BY DEF Unwinds, Return, Idle, OnlyJob, DeleteInv, TypeInv, TypeOK
<1>2. job'[t].at \notin Moving \cup {"make", "rename"}
  BY <1>1 DEF Moving, MoveAt, Underway
<1>3. CASE mover # t
  <2>1. job[t].at \notin Underway /\ UNCHANGED <<pins, mover>>
    BY <1>3 DEF DeleteInv, PinsInv, Moving, MoveAt, Unwinds
  <2> QED
    BY <1>1, <1>2, <2>1, FrameDelete
<1>4. CASE mover = t
  <2>1. Unpin /\ mover' = None
    BY <1>4 DEF Unwinds
  <2> QED
    BY <1>1, <1>2, <1>4, <2>1, LetGoDelete
<1> QED
  BY <1>3, <1>4

\* A task on its way to its pins: it alone has the lock, and pins nothing yet.
LEMMA BeforePins ==
  ASSUME DeleteInv, TypeInv', UNCHANGED <<copy, pins>>, NEW t \in Task, OnlyJob(t), mover' = t,
         job'[t].at \in {"mlist", "mplan", "mpin"},
         mover = None \/ job[t].at \in {"mlist", "mplan"}
  PROVE  PinsInv' /\ RenameInv'
<1> USE TasksAssumption DEF DeleteInv, TypeInv, TypeOK, Locals, OnlyJob, Moving, MoveAt, Underway
<1>1. \A i \in Instance : pins[i] = {}
  BY DEF PinsInv
<1>2. \A d \in Task : job[d].at \in Moving => d = t
  BY DEF PinsInv
<1>3. PinsInv'
  BY <1>1, <1>2 DEF PinsInv
<1>4. RenameInv'
  BY DEF RenameInv
<1> QED
  BY <1>3, <1>4

LEMMA CreateDelete ==
  ASSUME DeleteInv, Prompt, TypeInv', NEW c \in Task, CreatePlans(c) \/ CreateMakes(c)
  PROVE  PinsInv' /\ RenameInv'
<1> USE CopiesAssumption DEF DeleteInv, TypeInv, TypeOK, Locals, OnlyJob
<1>1. CASE CreatePlans(c)
  <2>1. OnlyJob(c) /\ UNCHANGED <<pins, mover, copy>> /\ job[c].at = "plan"
    BY <1>1 DEF CreatePlans, Return
  <2>2. CASE Active \notin installed
    <3>1. job'[c].at = "idle"
      BY <1>1, <2>2 DEF CreatePlans, Return, Idle
    <3> QED
      BY <2>1, <3>1, FrameDelete DEF MountsPinned, Moving, MoveAt, Underway
  <2>3. CASE Active \in installed
    <3>1. job'[c].at = "make" /\ job'[c].ver = Active
      BY <1>1, <2>3 DEF CreatePlans, Job
    <3>2. ASSUME NEW d \in Task, job'[d].at = "rename"
          PROVE  job[d].at = "rename" /\ job'[d] = job[d] /\ job[d].ver # Active
      <4>1. job[d].at = "rename" /\ job'[d] = job[d]
        BY <2>1, <3>1, <3>2
      <4>2. Answered(Active)
        BY <1>1 DEF CreatePlans
      <4> QED
        BY <4>1, <4>2 DEF Answered, Waits, Prompt
    <3>3. RenameInv'
      BY <2>1, <3>1, <3>2 DEF RenameInv
    <3>4. PinsInv'
      <4>1. \A d \in Task : job'[d].at \in Moving => job'[d] = job[d]
        BY <2>1, <3>1 DEF Moving, MoveAt, Underway
      <4>2. \A d \in Task : job[d].at \in Underway => job'[d] = job[d]
        BY <2>1 DEF Underway
      <4>3. Underway \subseteq Moving
        BY DEF Moving, MoveAt
      <4> HIDE DEF DeleteInv, TypeInv, TypeOK, Locals
      <4>4. PinsInv
        BY DEF DeleteInv
      <4> QED
        BY <2>1, <4>1, <4>2, <4>3, <4>4 DEF PinsInv
    <3> QED
      BY <3>3, <3>4
  <2> QED
    BY <2>2, <2>3
<1>2. CASE CreateMakes(c)
  <2>1. /\ OnlyJob(c) /\ UNCHANGED <<pins, mover>>
        /\ job[c].at = "make" /\ job'[c].at = "idle"
    BY <1>2 DEF CreateMakes, Return, Idle
  <2>2. \A i \in Instance : copy'[i] \in {copy[i], job[c].ver}
    BY <1>2 DEF CreateMakes, Makes
  <2>3. PinsInv'
    BY <2>1 DEF PinsInv, Moving, MoveAt, Underway
  <2>4. RenameInv'
    BY <2>1, <2>2 DEF RenameInv
  <2> QED
    BY <2>3, <2>4
<1> QED
  BY <1>1, <1>2

\* The listing finds the copy unmounted, and no create waits to mount it.
LEMMA ListDelete ==
  ASSUME DeleteInv, Prompt, TypeInv', NEW t \in Task, DeleteLists(t), Goto(t, "rename"),
         ~Mounted(job[t].ver), UNCHANGED locks
  PROVE  PinsInv' /\ RenameInv'
<1> USE DEF DeleteInv, TypeInv, TypeOK, Locals, OnlyJob
<1>1. GoesTo(t, "rename")
  BY GotoGoes
<1>2. job[t].at = "list" /\ UNCHANGED <<copy, pins, mover>>
  BY DEF DeleteLists
<1>3. PinsInv'
  BY <1>1, <1>2 DEF GoesTo, PinsInv, Moving, MoveAt, Underway
<1>4. \A c \in Task : job[c].at = "make" => job[c].ver # job[t].ver
  BY DEF DeleteLists, NotPlanned, Waits, Prompt
<1>5. \A i \in Instance : copy[i] # job[t].ver
  BY DEF Mounted
<1>6. RenameInv'
  BY <1>1, <1>2, <1>4, <1>5 DEF GoesTo, RenameInv
<1> QED
  BY <1>3, <1>6

LEMMA PinDelete ==
  ASSUME DeleteInv, TypeInv', NEW t \in Task, MovePins(t)
  PROVE  PinsInv' /\ RenameInv'
<1> USE DEF DeleteInv, TypeInv, TypeOK, Locals, OnlyJob, Moving, MoveAt, Underway
<1>1. GoesTo(t, "mstop") /\ job[t].at = "mpin" /\ UNCHANGED <<copy, mover>>
  BY GotoGoes DEF MovePins
<1>2. mover = t /\ \A i \in Instance : pins[i] = {}
  BY <1>1 DEF PinsInv
<1>3. \A d \in Task : d # t => job[d].at \notin Moving
  BY <1>2 DEF PinsInv
<1>4. job[t].srv \in Instance
  BY <1>1 DEF Wf
<1>5. pins' = [pins EXCEPT ![job[t].srv] = {job[t].ver, job[t].to}]
  BY DEF MovePins
<1>6. PinsInv'
  BY <1>1, <1>2, <1>3, <1>4, <1>5 DEF GoesTo, PinsInv
<1>7. RenameInv'
  BY <1>1, <1>2, <1>5 DEF GoesTo, RenameInv
<1> QED
  BY <1>6, <1>7

LEMMA RestartDelete ==
  ASSUME TypeInv, TypeInv', NEW t \in Loop, AgentRestarts(t)
  PROVE  PinsInv' /\ RenameInv'
<1>1. \A d \in Task : job'[d].at \in {"sweep", "idle"}
  BY DEF AgentRestarts, Idle, TypeInv, TypeOK, Job
<1>2. \A i \in Instance : pins'[i] = {}
  BY DEF AgentRestarts
<1> QED
  BY <1>1, <1>2 DEF PinsInv, RenameInv, Moving, MoveAt, Underway

LEMMA DeleteStep ==
  ASSUME DeleteInv, Prompt, [Next]_vars
  PROVE  DeleteInv'
<1> TypeInv'
  BY MovesNextType DEF DeleteInv
<1> SUFFICES PinsInv' /\ RenameInv'
  BY DEF DeleteInv
<1> DEFINE Kept == PinsInv' /\ RenameInv'
           Calm(t) == /\ MountsPinned /\ UNCHANGED <<pins, mover>> /\ OnlyJob(t)
                      /\ job[t].at \notin Underway /\ job'[t].at \notin Moving \cup {"make", "rename"}
<1> TypeInv /\ TypeOK /\ PinsInv /\ RenameInv
  BY DEF DeleteInv, TypeInv
<1> USE DEF MountsPinned
<1>calm. ASSUME NEW t \in Task, Calm(t) PROVE Kept
  BY <1>calm, FrameDelete
<1>ends. ASSUME NEW t \in Task, Ends(t) \/ Unwinds(t), MountsPinned PROVE Kept
  BY <1>ends, EndsDelete DEF Ends
<1>move. ASSUME NEW t \in Task, NEW s \in Underway, Goto(t, s), MountsPinned,
                UNCHANGED <<pins, mover>>, job[t].at \in Underway
         PROVE  Kept
  BY <1>move, GotoGoes, MoveDelete
<1>calmgo. ASSUME NEW t \in Task, NEW s, Goto(t, s), MountsPinned, UNCHANGED <<pins, mover>>,
                  job[t].at \notin Underway, s \notin Moving \cup {"make", "rename"}
           PROVE  Kept
  BY <1>calmgo, GotoGoes, <1>calm DEF GoesTo
<1>begin. ASSUME NEW t \in Task, NEW r, Begin(t, r), UNCHANGED <<copy, pins, mover>>,
                 r.at \notin Moving \cup {"make", "rename"}
          PROVE  Kept
  BY <1>begin, BeginGoes, <1>calm DEF Moving, MoveAt, Underway
<1>deleted. ASSUME NEW t \in Task, Deleted(t), UNCHANGED copy, job[t].at \in {"list", "rename", "trash"}
            PROVE  Kept
  BY <1>deleted, <1>ends, <1>calmgo DEF Deleted, Moving, MoveAt, Underway
<1>1. ASSUME NEW c \in Client, NEW i \in Instance, CreateChecks(c, i) PROVE Kept
  BY <1>1, <1>begin DEF CreateChecks, Idle, Moving, MoveAt, Underway
<1>2. ASSUME NEW c \in Client, NEW i \in Instance, Remove(c, i) PROVE Kept
  BY <1>2, <1>begin DEF Remove, Idle, Moving, MoveAt, Underway
<1>3. ASSUME NEW c \in Client, NEW v \in Copy, DeleteBegins(c, v) PROVE Kept
  BY <1>3, <1>begin DEF DeleteBegins, Idle, Moving, MoveAt, Underway
<1>4. ASSUME NEW c \in Client, NEW v \in Copy, UseBegins(c, v) PROVE Kept
  BY <1>4, <1>begin DEF UseBegins, Idle, Moving, MoveAt, Underway
<1>5. ASSUME NEW t \in Loop, NEW v \in Copy, FetchBegins(t, v) PROVE Kept
  BY <1>5, <1>begin DEF FetchBegins, Idle, Moving, MoveAt, Underway
<1>6. ASSUME NEW t \in Task, CreatePlans(t) \/ CreateMakes(t) PROVE Kept
  BY <1>6, CreateDelete
<1>7. ASSUME NEW t \in Task, DockerRemove(t) PROVE Kept
  <2>1. MountsPinned /\ UNCHANGED <<pins, mover>> /\ job[t].at = "remove"
    BY <1>7 DEF DockerRemove, Unmakes, TypeOK
  <2>2. CASE Goto(t, "release")
    BY <2>1, <2>2, <1>calmgo DEF Moving, MoveAt, Underway
  <2>3. CASE Return(t)
    BY <2>1, <2>3, <1>calm DEF Return, Idle, OnlyJob, TypeOK, Moving, MoveAt, Underway
  <2> QED
    BY <1>7, <2>2, <2>3 DEF DockerRemove
<1>8. ASSUME NEW t \in Task, Release(t) PROVE Kept
  BY <1>8, <1>calm DEF Release, OnlyJob, TypeOK, Job, Moving, MoveAt, Underway
<1>9. ASSUME NEW t \in Task, NEW v \in Copy, SweepNext(t, v) PROVE Kept
  BY <1>9, <1>calm DEF SweepNext, OnlyJob, TypeOK, Job, Moving, MoveAt, Underway
<1>10. ASSUME NEW t \in Task, DeleteLists(t) PROVE Kept
  BY <1>10, <1>deleted, ListDelete DEF DeleteLists
<1>11. ASSUME NEW t \in Task, DeleteRenames(t) PROVE Kept
  BY <1>11, <1>deleted, <1>calmgo DEF DeleteRenames, Moving, MoveAt, Underway
<1>12. ASSUME NEW t \in Task, DeleteEnds(t) PROVE Kept
  BY <1>12, <1>deleted DEF DeleteEnds
<1>13. ASSUME NEW t \in Task, SweepEnds(t) PROVE Kept
  BY <1>13, <1>ends DEF SweepEnds
<1>14. ASSUME NEW t \in Task, UseSets(t) PROVE Kept
  BY <1>14, <1>ends DEF UseSets
<1>15. ASSUME NEW t \in Task, FetchLands(t) PROVE Kept
  BY <1>15, <1>ends, <1>calmgo DEF FetchLands, Moving, MoveAt, Underway
<1>16. ASSUME NEW t \in Task, Activates(t) PROVE Kept
  <2>1. UNCHANGED copy /\ job[t].at = "activate"
    BY <1>16 DEF Activates
  <2>2. CASE Ends(t)
    BY <2>1, <2>2, <1>ends
  <2>3. CASE ~Ends(t)
    <3>1. job' = [job EXCEPT ![t].at = "sweep", ![t].todo = pending'] /\ UNCHANGED locks
      BY <1>16, <2>3 DEF Activates
    <3> QED
      BY <2>1, <3>1, <1>calm DEF OnlyJob, TypeOK, Job, Moving, MoveAt, Underway
  <2> QED
    BY <2>2, <2>3
<1>17. ASSUME NEW t \in Task, NEW i \in Instance, MoveBegins(t, i) PROVE Kept
  <2>1. /\ mover = None /\ mover' = t /\ UNCHANGED <<copy, pins>>
        /\ Begin(t, [Idle EXCEPT !.at = "mlist", !.op = "move", !.srv = i])
    BY <1>17 DEF MoveBegins
  <2>2. OnlyJob(t) /\ job'[t].at = "mlist"
    BY <2>1 DEF Begin, Idle, OnlyJob, TypeOK
  <2> QED
    BY <2>1, <2>2, BeforePins
<1>18. ASSUME NEW t \in Task, MoveLists(t) PROVE Kept
  <2>1. CASE Ends(t)
    BY <1>18, <2>1, <1>ends DEF MoveLists
  <2>2. CASE ~Ends(t)
    <3>1. /\ UNCHANGED <<copy, pins, mover>> /\ job[t].at = "mlist"
          /\ OnlyJob(t) /\ job'[t].at = "mplan"
      BY <1>18, <2>2 DEF MoveLists, OnlyJob, TypeOK, Job
    <3>2. mover' = t
      BY <3>1 DEF PinsInv, Moving
    <3> QED
      BY <3>1, <3>2, BeforePins
  <2> QED
    BY <2>1, <2>2
<1>19. ASSUME NEW t \in Task, MovePlans(t) PROVE Kept
  <2>1. CASE Ends(t)
    BY <1>19, <2>1, <1>ends DEF MovePlans
  <2>2. CASE Goto(t, "mpin") /\ UNCHANGED locks
    <3>1. UNCHANGED <<copy, pins, mover>> /\ job[t].at = "mplan"
      BY <1>19, <2>2 DEF MovePlans
    <3>2. mover' = t
      BY <3>1 DEF PinsInv, Moving, MoveAt
    <3> QED
      BY <2>2, <3>1, <3>2, GotoGoes, BeforePins DEF GoesTo
  <2> QED
    BY <1>19, <2>1, <2>2 DEF MovePlans
<1>20. ASSUME NEW t \in Task, MovePins(t) PROVE Kept
  BY <1>20, PinDelete
<1>21. ASSUME NEW t \in Task, MoveStops(t) PROVE Kept
  BY <1>21, <1>ends, <1>move DEF MoveStops, Underway
<1>22. ASSUME NEW t \in Task, MoveRemoves(t) PROVE Kept
  BY <1>22, <1>ends, <1>move DEF MoveRemoves, Unmakes, Underway, TypeOK
<1>23. ASSUME NEW t \in Task, MoveTries(t) PROVE Kept
  BY <1>23, <1>move DEF MoveTries, Underway
<1>24. ASSUME NEW t \in Task, MoveMakes(t) PROVE Kept
  <2>1. job[t].at = "mmake" /\ job[t].at \in Underway /\ job[t].srv \in Instance
    BY <1>24 DEF MoveMakes, Underway, MoveAt, DeleteInv, TypeInv, Locals, Wf
  <2>2. job[t].ver \in pins[job[t].srv] /\ job[t].to \in pins[job[t].srv]
    BY <2>1 DEF PinsInv
  <2>3. MountsPinned
    BY <1>24, <2>1, <2>2 DEF MoveMakes, Makes, TypeOK
  <2> QED
    BY <1>24, <2>1, <2>3, <1>move DEF MoveMakes, Underway
<1>25. ASSUME NEW t \in Task, MoveSettles(t) PROVE Kept
  <2>1. UNCHANGED <<copy, mover>> /\ job[t].at = "settle" /\ mover = t
    BY <1>25 DEF MoveSettles, PinsInv, Moving, MoveAt, Underway
  <2>2. CASE job[t].srv \in up
    BY <1>25, <2>1, <2>2, LetGoDelete DEF MoveSettles, OnlyJob, TypeOK, Job, Moving, MoveAt, Underway
  <2>3. CASE job[t].srv \notin up
    BY <1>25, <2>1, <2>3, <1>move DEF MoveSettles, Underway
  <2> QED
    BY <2>2, <2>3
<1>26. ASSUME NEW t \in Task, MoveUndoes(t) PROVE Kept
  BY <1>26, <1>move DEF MoveUndoes, Unmakes, Underway, TypeOK
<1>27. ASSUME NEW t \in Task, MoveTurnsBack(t) PROVE Kept
  BY <1>27, <1>ends, <1>move DEF MoveTurnsBack, Lost, Underway
<1>28. ASSUME NEW t \in Task, MoveRestores(t) PROVE Kept
  <2>1. job[t].at = "mrestore" /\ job[t].at \in Underway /\ job[t].srv \in Instance
    BY <1>28 DEF MoveRestores, Underway, MoveAt, DeleteInv, TypeInv, Locals, Wf
  <2>2. job[t].ver \in pins[job[t].srv] /\ job[t].to \in pins[job[t].srv]
    BY <2>1 DEF PinsInv
  <2>3. MountsPinned
    BY <1>28, <2>1, <2>2 DEF MoveRestores, Makes, TypeOK
  <2> QED
    BY <1>28, <2>3, <1>ends DEF MoveRestores, Lost
<1>29. ASSUME NEW i \in Instance, GameEnds(i) \/ GameRuns(i) PROVE Kept
  BY <1>29 DEF GameEnds, GameRuns, PinsInv, RenameInv
<1>30. ASSUME NEW c \in Client, CallerHangsUp(c) PROVE Kept
  BY <1>30, <1>ends DEF CallerHangsUp
<1>31. ASSUME NEW t \in Loop, AgentRestarts(t) PROVE Kept
  BY <1>31, RestartDelete
<1>32. CASE UNCHANGED vars
  BY <1>32 DEF PinsInv, RenameInv
<1> QED
  BY <1>1, <1>2, <1>3, <1>4, <1>5, <1>6, <1>7, <1>8, <1>9, <1>10, <1>11, <1>12, <1>13, <1>14, <1>15, <1>16, <1>17, <1>18, <1>19, <1>20, <1>21, <1>22, <1>23, <1>24, <1>25, <1>26, <1>27, <1>28, <1>29, <1>30, <1>31, <1>32
     DEF Next, Asks, LoopBegins, MoveStep, ContentStep, ServerStep

\* Only the rename of a delete takes a copy off the disk.
LEMMA OnlyRenames ==
  ASSUME [Next]_vars, NEW v \in installed \ installed'
  PROVE  \E t \in Task : job[t].at = "rename" /\ v = job[t].ver /\ ~Pinned(v)
<1>1. PICK t \in Task : DeleteRenames(t)
  <2>1. installed' # installed
    OBVIOUS
  <2>2. ASSUME NEW t \in Task, MoveStep(t) PROVE FALSE
    BY <2>1, <2>2 DEF MoveStep, MoveLists, MovePlans, MovePins, MoveStops, MoveRemoves, MoveTries,
       MoveMakes, MoveSettles, MoveUndoes, MoveTurnsBack, MoveRestores
  <2>3. ASSUME NEW t \in Task, ServerStep(t) PROVE FALSE
    BY <2>1, <2>3 DEF ServerStep, CreatePlans, CreateMakes, DockerRemove, Release
  <2>4. ASSUME NEW t \in Task, FetchLands(t) PROVE FALSE
    BY <2>4 DEF FetchLands
  <2>5. ASSUME NEW t \in Task, ContentStep(t) PROVE DeleteRenames(t)
    BY <2>1, <2>4, <2>5 DEF ContentStep, SweepNext, DeleteLists, DeleteEnds, SweepEnds, Activates, UseSets
  <2>6. ASSUME NEW c \in Client, Asks(c) \/ CallerHangsUp(c) PROVE FALSE
    BY <2>1, <2>6 DEF Asks, CreateChecks, Remove, MoveBegins, DeleteBegins, UseBegins, CallerHangsUp
  <2>7. ASSUME NEW t \in Loop, LoopBegins(t) \/ AgentRestarts(t) PROVE FALSE
    BY <2>1, <2>7 DEF LoopBegins, FetchBegins, MoveBegins, AgentRestarts
  <2>8. ASSUME NEW s \in Instance, GameEnds(s) \/ GameRuns(s) PROVE FALSE
    BY <2>1, <2>8 DEF GameEnds, GameRuns
  <2> QED
    BY <2>1, <2>2, <2>3, <2>5, <2>6, <2>7, <2>8 DEF Next
<1>2. job[t].at = "rename" /\ v = job[t].ver /\ ~Pinned(v)
  BY <1>1 DEF DeleteRenames
<1> QED
  BY <1>2

\* A step that deletes a copy: nothing mounts it, nothing pins it, and no create
\* that found it there is still to make its container.
LEMMA DeleteStepUnused ==
  ASSUME DeleteInv, [Next]_vars, NEW v \in installed \ installed'
  PROVE  /\ \A i \in Instance : copy[i] # v /\ v \notin pins[i]
         /\ \A c \in Task : ~Waits(c, "make", v)
BY OnlyRenames DEF DeleteInv, RenameInv, Pinned, Waits

\* No delete, asked for or swept, takes a copy that a container mounts or that
\* a server is being moved off or onto, if listings are acted on promptly.
THEOREM DeletesOnlyUnused == Prompt => (Spec => DeleteUnused)
<1> SUFFICES ASSUME Prompt PROVE Spec => DeleteUnused
  OBVIOUS
<1>1. Init => DeleteInv
  BY MovesInitType DEF Init, Idle, DeleteInv, PinsInv, RenameInv, Moving, MoveAt, Underway
<1>2. DeleteInv /\ [Next]_vars => DeleteInv'
  BY DeleteStep
<1>3. DeleteInv /\ [Next]_vars =>
        [\A v \in installed \ installed' : \A i \in Instance : copy[i] # v /\ v \notin pins[i]]_vars
  BY DeleteStepUnused
<1> QED
  BY <1>1, <1>2, <1>3, PTL DEF Spec, DeleteUnused


-----------------------------------------------------------------------------
(* The ports of a server with a container are held.  Only the task that    *)
(* works on a server changes its container or its ports, so what that task *)
(* found out about it at one step is still so at the next.                 *)

Separate == "overlap" \notin Races

\* One task at most works on a server.
OneEach == \A t, d \in Task : t # d /\ job[t].srv # None => job[t].srv # job[d].srv

\* At these steps the task's server has no container.
Gone == {"mto", "mmake", "mrestore", "release"}

\* What task t knows of its server: at Gone it has no container; a server in a
\* move keeps its ports, and is gone too before it is put back, unless Docker
\* refused to remove it.
GoneOf(t) == job[t].at \in Gone => copy[job[t].srv] = None
HeldOf(t) ==
  harm = 0 => /\ job[t].at \in MoveAt => job[t].srv \in held
              /\ job[t].at = "mback" => copy[job[t].srv] = None

OwnInv ==
  /\ TypeInv /\ OneEach /\ PortsKept
  /\ \A t \in Task : GoneOf(t) /\ HeldOf(t)

\* A step of task t touches the container and the ports of its own server only.
OwnStep(t) ==
  /\ OnlyJob(t) /\ job'[t].srv \in {job[t].srv, None}
  /\ \A i \in Instance : i # job[t].srv => copy'[i] = copy[i] /\ (i \in held' <=> i \in held)
  /\ harm' \in {harm, harm + 1}

LEMMA FrameOwn ==
  ASSUME OwnInv, TypeInv', NEW t \in Task, OwnStep(t), GoneOf(t)', HeldOf(t)',
         harm' = 0 /\ job[t].srv \in Present' => job[t].srv \in held'
  PROVE  OwnInv'
<1> USE CopiesAssumption DEF OwnInv, OwnStep, OnlyJob
<1>1. harm \in Nat /\ (harm' = 0 => harm = 0)
  BY CountsAssumption DEF TypeInv, TypeOK
<1>2. OneEach'
  BY DEF OneEach
<1>3. PortsKept'
  BY <1>1 DEF PortsKept, Present
<1>4. ASSUME NEW d \in Task, d # t PROVE GoneOf(d)' /\ HeldOf(d)'
  <2>1. job'[d] = job[d] /\ GoneOf(d) /\ HeldOf(d)
    BY <1>4
  <2>2. CASE job[d].at \in Gone \cup MoveAt
    <3>1. job[d].srv \in Instance /\ job[d].srv # job[t].srv
      BY <1>4, <2>2 DEF TypeInv, Locals, Wf, Gone, MoveAt, Underway, OneEach
    <3>2. copy'[job[d].srv] = copy[job[d].srv] /\ (job[d].srv \in held' <=> job[d].srv \in held)
      BY <3>1
    <3> QED
      BY <1>1, <2>1, <3>2 DEF GoneOf, HeldOf
  <2>3. CASE job[d].at \notin Gone \cup MoveAt
    BY <2>1, <2>3 DEF GoneOf, HeldOf, MoveAt, Underway
  <2> QED
    BY <2>2, <2>3
<1> QED
  BY <1>2, <1>3, <1>4

\* A request begins: with a server nobody works on, or with none.
LEMMA BeginOwn ==
  ASSUME OwnInv, Separate, TypeInv', NEW t \in Task, NEW r, Begin(t, r), UNCHANGED <<copy, held, harm>>,
         r.at \notin Gone \cup MoveAt, r.srv = None \/ Quiet(r.srv)
  PROVE  OwnInv'
<1> USE CopiesAssumption DEF OwnInv
<1>1. OnlyJob(t) /\ job'[t] = r
  BY BeginGoes
<1>2. r.srv # None => \A d \in Task : job[d].srv # r.srv
  BY DEF Quiet, Separate
<1>3. OneEach'
  BY <1>1, <1>2 DEF OneEach, OnlyJob
<1>4. PortsKept'
  BY DEF PortsKept, Present
<1>5. \A d \in Task : GoneOf(d)' /\ HeldOf(d)'
  BY <1>1 DEF GoneOf, HeldOf, OnlyJob, MoveAt, Underway
<1> QED
  BY <1>3, <1>4, <1>5

\* A step that changes neither containers nor ports, and ends the task or goes
\* on outside a move.
LEMMA RestOwn ==
  ASSUME OwnInv, TypeInv', NEW t \in Task, OnlyJob(t), UNCHANGED <<copy, held>>,
         harm' \in {harm, harm + 1}, job'[t].srv \in {job[t].srv, None},
         job'[t].at \notin Gone \cup MoveAt
  PROVE  OwnInv'
<1>1. OwnStep(t)
  BY DEF OwnStep
<1>2. GoneOf(t)' /\ HeldOf(t)'
  BY DEF GoneOf, HeldOf, MoveAt, Underway
<1>3. harm' = 0 /\ job[t].srv \in Present' => job[t].srv \in held'
  BY CountsAssumption DEF OwnInv, TypeInv, TypeOK, PortsKept, Present
<1> QED
  BY <1>1, <1>2, <1>3, FrameOwn

LEMMA EndsGoes ==
  ASSUME TypeInv, NEW t \in Task, Ends(t) \/ Unwinds(t) \/ Return(t)
  PROVE  OnlyJob(t) /\ job'[t] = Idle
BY DEF Ends, Unwinds, Return, OnlyJob, TypeInv, TypeOK

\* A step of a move that leaves containers and ports alone.
LEMMA GoOnOwn ==
  ASSUME OwnInv, TypeInv', NEW t \in Task, NEW s \in MoveAt, GoesTo(t, s), UNCHANGED <<copy, held>>,
         job[t].at \in MoveAt, harm' \in {harm, harm + 1},
         s \in Gone => copy[job[t].srv] = None,
         s = "mback" /\ harm' = 0 => copy[job[t].srv] = None
  PROVE  OwnInv'
<1>1. OwnStep(t)
  BY DEF OwnStep, GoesTo
<1>2. harm \in Nat /\ (harm' = 0 => harm = 0)
  BY CountsAssumption DEF OwnInv, TypeInv, TypeOK
<1>3. GoneOf(t)' /\ HeldOf(t)'
  BY <1>2 DEF GoneOf, HeldOf, GoesTo, OwnInv
<1>4. harm' = 0 /\ job[t].srv \in Present' => job[t].srv \in held'
  BY <1>2 DEF OwnInv, PortsKept, Present
<1> QED
  BY <1>1, <1>3, <1>4, FrameOwn

LEMMA MakesServer ==
  ASSUME TypeInv, NEW i \in Instance, NEW v \in Copy, NEW b, Makes(i, v, b)
  PROVE  /\ \A d \in Instance : d # i => copy'[d] = copy[d]
         /\ copy[i] = None /\ copy'[i] = v
BY DEF Makes, Present, TypeInv, TypeOK

LEMMA UnmakesServer ==
  ASSUME TypeInv, NEW i \in Instance, Unmakes(i)
  PROVE  /\ \A d \in Instance : d # i => copy'[d] = copy[d]
         /\ copy'[i] = None
BY DEF Unmakes, TypeInv, TypeOK

LEMMA MoveServerOwn ==
  ASSUME OwnInv, TypeInv', NEW t \in Task,
         MoveRemoves(t) \/ MoveMakes(t) \/ MoveUndoes(t) \/ MoveTurnsBack(t) \/ MoveRestores(t)
  PROVE  OwnInv'
<1> USE CountsAssumption, CopiesAssumption DEF OwnInv
<1> DEFINE i == job[t].srv
<1>t. TypeInv /\ harm \in Nat
  BY DEF TypeInv, TypeOK
<1>i. /\ job[t].at \in {"mremove", "mmake", "mundo", "mback", "mrestore"}
      /\ i \in Instance /\ job[t].ver \in Copy /\ job[t].to \in Copy
      /\ job[t].at \in MoveAt /\ (harm = 0 => i \in held)
  <2>1. job[t].at \in {"mremove", "mmake", "mundo", "mback", "mrestore"}
    BY DEF MoveRemoves, MoveMakes, MoveUndoes, MoveTurnsBack, MoveRestores
  <2> QED
    BY <2>1 DEF TypeInv, Locals, Wf, MoveAt, Underway, HeldOf
<1> HIDE DEF i
<1>h. harm' \in {harm, harm + 1}
  BY DEF MoveRemoves, MoveMakes, MoveUndoes, MoveTurnsBack, MoveRestores, RemoveFails, Harm
<1>g. ASSUME NEW s, Goto(t, s) PROVE GoesTo(t, s)
  BY <1>t, <1>g, GotoGoes
<1>e. ASSUME Ends(t) PROVE OnlyJob(t) /\ job'[t] = Idle
  BY <1>t, <1>e, EndsGoes
<1>idle. Idle.at = "idle" /\ Idle.srv = None /\ "idle" \notin Gone \cup MoveAt
  BY DEF Idle, Gone, MoveAt, Underway
\* The move goes on, with the ports held and the container made or removed.
<1>on. ASSUME NEW s \in Underway, Goto(t, s), held' = held, \A d \in Instance : d # i => copy'[d] = copy[d],
              s \in Gone => copy'[i] = None, s = "mback" /\ harm' = 0 => copy'[i] = None
       PROVE  OwnInv'
  <2>1. GoesTo(t, s)
    BY <1>on, <1>g
  <2>2. OwnStep(t)
    BY <2>1, <1>on, <1>h DEF OwnStep, GoesTo, i
  <2>3. GoneOf(t)' /\ HeldOf(t)'
    BY <2>1, <1>on, <1>i, <1>h, <1>t DEF GoneOf, HeldOf, GoesTo, i
  <2>4. harm' = 0 /\ i \in Present' => i \in held'
    BY <1>on, <1>i, <1>h, <1>t
  <2> QED
    BY <2>2, <2>3, <2>4, FrameOwn DEF i
\* It ends, with the ports held or given back.
<1>end. ASSUME Ends(t), \A d \in Instance : d # i => copy'[d] = copy[d] /\ (d \in held' <=> d \in held),
               harm' = 0 /\ i \in Present' => i \in held'
        PROVE  OwnInv'
  <2>1. OnlyJob(t) /\ job'[t] = Idle
    BY <1>end, <1>e
  <2>2. OwnStep(t)
    BY <2>1, <1>end, <1>h, <1>idle DEF OwnStep, i
  <2>3. GoneOf(t)' /\ HeldOf(t)'
    BY <2>1, <1>idle DEF GoneOf, HeldOf, MoveAt, Underway
  <2> QED
    BY <2>2, <2>3, <1>end, FrameOwn DEF i
<1>h0. harm' = 0 => harm = 0 /\ i \in held
  BY <1>h, <1>t, <1>i
<1>1. CASE MoveRemoves(t)
  <2>1. CASE Unmakes(i) /\ Goto(t, "mto")
    <3>1. (\A d \in Instance : d # i => copy'[d] = copy[d]) /\ copy'[i] = None
      BY <2>1, <1>t, <1>i, UnmakesServer
    <3> QED
      BY <1>1, <2>1, <3>1, <1>on DEF MoveRemoves, Underway
  <2>2. CASE Ends(t) /\ UNCHANGED copy
    BY <1>1, <2>2, <1>h0, <1>end DEF MoveRemoves
  <2> QED
    BY <1>1, <2>1, <2>2 DEF MoveRemoves, i
<1>2. CASE MoveMakes(t)
  <2>1. CASE Makes(i, job[t].to, TRUE) /\ Goto(t, "settle")
    <3>1. \A d \in Instance : d # i => copy'[d] = copy[d]
      BY <2>1, <1>t, <1>i, MakesServer
    <3> QED
      BY <1>2, <2>1, <3>1, <1>on DEF MoveMakes, Underway, Gone
  <2>2. CASE Goto(t, "mundo") /\ UNCHANGED <<docker, harm>>
    BY <1>2, <2>2, <1>on DEF MoveMakes, Underway, Gone
  <2>3. CASE Goto(t, "mundo") /\ Makes(i, job[t].to, FALSE)
    <3>1. \A d \in Instance : d # i => copy'[d] = copy[d]
      BY <2>3, <1>t, <1>i, MakesServer
    <3> QED
      BY <1>2, <2>3, <3>1, <1>on DEF MoveMakes, Underway, Gone
  <2> QED
    BY <1>2, <2>1, <2>2, <2>3 DEF MoveMakes, i
<1>3. CASE MoveUndoes(t)
  <2>1. Goto(t, "mback") /\ held' = held
    BY <1>3 DEF MoveUndoes
  <2>2. CASE Unmakes(i)
    <3>1. (\A d \in Instance : d # i => copy'[d] = copy[d]) /\ copy'[i] = None
      BY <2>2, <1>t, <1>i, UnmakesServer
    <3> QED
      BY <2>1, <3>1, <1>on DEF Underway, Gone
  <2>3. CASE RemoveFails(i) /\ UNCHANGED docker
    <3>1. harm' = 0 => copy'[i] = None
      BY <2>3, <1>i, <1>t DEF RemoveFails, Harm, Present
    <3> QED
      BY <2>1, <2>3, <3>1, <1>on DEF Underway, Gone
  <2> QED
    BY <1>3, <2>2, <2>3 DEF MoveUndoes, i
<1>4. CASE MoveTurnsBack(t)
  <2>1. job[t].at = "mback" /\ copy' = copy
    BY <1>4 DEF MoveTurnsBack
  <2>2. CASE CreateOnAllows(i, job[t].ver) /\ Goto(t, "mrestore") /\ UNCHANGED held
    <3>1. copy[i] = None
      BY <2>2, <1>i DEF CreateOnAllows, Present
    <3> QED
      BY <2>1, <2>2, <3>1, <1>on DEF Underway, Gone
  <2>3. CASE Lost(t)
    <3>1. harm' = 0 => copy[i] = None
      BY <2>1, <1>h0 DEF HeldOf, i
    <3> QED
      BY <2>1, <2>3, <3>1, <1>end DEF Lost, Present, i
  <2> QED
    BY <1>4, <2>2, <2>3 DEF MoveTurnsBack, i
<1>5. CASE MoveRestores(t)
  <2>1. job[t].at = "mrestore" /\ copy[i] = None
    BY <1>5 DEF MoveRestores, GoneOf, Gone, i
  <2>2. CASE Makes(i, job[t].ver, TRUE) /\ Ends(t) /\ UNCHANGED held
    <3>1. \A d \in Instance : d # i => copy'[d] = copy[d]
      BY <2>2, <1>t, <1>i, MakesServer
    <3> QED
      BY <2>2, <3>1, <1>h0, <1>end
  <2>3. CASE Lost(t) /\ (UNCHANGED docker \/ Makes(i, job[t].ver, FALSE)) /\ Harm
    <3>1. \A d \in Instance : d # i => copy'[d] = copy[d]
      BY <2>3, <1>t, <1>i, MakesServer
    <3>2. harm' # 0
      BY <2>3, <1>t DEF Harm
    <3> QED
      BY <2>3, <3>1, <3>2, <1>end DEF Lost, i
  <2> QED
    BY <1>5, <2>1, <2>2, <2>3, <1>i DEF MoveRestores, Present, i
<1> QED
  BY <1>1, <1>2, <1>3, <1>4, <1>5

LEMMA CreateOwn ==
  ASSUME OwnInv, TypeInv', NEW t \in Task, CreateMakes(t) \/ DockerRemove(t) \/ Release(t)
  PROVE  OwnInv'
<1> USE CountsAssumption, CopiesAssumption DEF OwnInv
<1> DEFINE i == job[t].srv
<1>t. TypeInv /\ harm \in Nat
  BY DEF TypeInv, TypeOK
<1>i. i \in Instance /\ (job[t].at = "make" => job[t].ver \in Copy)
  <2>1. job[t].at \in {"make", "remove", "release"}
    BY DEF CreateMakes, DockerRemove, Release
  <2>2. TypeInv /\ Wf(job[t])
    BY <1>t DEF TypeInv, Locals
  <2> QED
    BY <2>1, <2>2 DEF Wf, MoveAt
<1>h. harm' \in {harm, harm + 1} /\ (harm' = 0 => harm = 0)
  <2>1. harm' = harm \/ harm' = harm + 1
    BY DEF CreateMakes, DockerRemove, Release, RemoveFails, Harm
  <2> QED
    BY <2>1, <1>t
<1>idle. Idle.at = "idle" /\ Idle.srv = None
  BY DEF Idle
<1> HIDE DEF i
<1>1. CASE CreateMakes(t)
  <2>1. OnlyJob(t) /\ job'[t] = Idle /\ job[t].at = "make"
    BY <1>1, <1>t, EndsGoes DEF CreateMakes
  <2>2. GoneOf(t)' /\ HeldOf(t)'
    BY <2>1, <1>idle DEF GoneOf, HeldOf, Gone, MoveAt, Underway
  <2>3. CASE Makes(i, job[t].ver, TRUE) /\ held' = held \cup {i}
    <3>1. \A d \in Instance : d # i => copy'[d] = copy[d]
      BY <2>1, <2>3, <1>t, <1>i, MakesServer
    <3> QED
      BY <2>1, <2>2, <2>3, <3>1, <1>h, <1>idle, FrameOwn DEF OwnStep, i
  <2>4. CASE Makes(i, job[t].ver, FALSE) /\ Harm
    <3>1. \A d \in Instance : d # i => copy'[d] = copy[d]
      BY <2>1, <2>4, <1>t, <1>i, MakesServer
    <3>2. harm' # 0
      BY <2>4, <1>t DEF Harm
    <3>3. held' = held \/ held' = held \cup {i}
      BY <1>1 DEF CreateMakes, i
    <3> QED
      BY <2>1, <2>2, <3>1, <3>2, <3>3, <1>h, <1>idle, FrameOwn DEF OwnStep, i
  <2>5. CASE UNCHANGED <<docker, held, harm>>
    BY <2>1, <2>5, <1>t, <1>idle, RestOwn DEF Gone, MoveAt, Underway
  <2> QED
    BY <1>1, <2>3, <2>4, <2>5 DEF CreateMakes, i
<1>2. CASE DockerRemove(t)
  <2>1. held' = held
    BY <1>2 DEF DockerRemove
  <2>2. CASE Unmakes(i) /\ Goto(t, "release")
    <3>1. GoesTo(t, "release")
      BY <2>2, <1>t, GotoGoes
    <3>2. (\A d \in Instance : d # i => copy'[d] = copy[d]) /\ copy'[i] = None
      BY <2>2, <1>t, <1>i, UnmakesServer
    <3>3. GoneOf(t)' /\ HeldOf(t)'
      BY <3>1, <3>2 DEF GoneOf, HeldOf, GoesTo, MoveAt, Underway, i
    <3> QED
      BY <2>1, <3>1, <3>2, <3>3, <1>h, FrameOwn DEF OwnStep, GoesTo, Present, i
  <2>3. CASE Return(t) /\ UNCHANGED docker
    <3>1. OnlyJob(t) /\ job'[t] = Idle
      BY <2>3, <1>t, EndsGoes
    <3> QED
      BY <2>1, <2>3, <3>1, <1>h, <1>idle, RestOwn DEF Gone, MoveAt, Underway
  <2> QED
    BY <1>2, <2>2, <2>3 DEF DockerRemove, i
<1>3. CASE Release(t)
  <2>1. OnlyJob(t) /\ job'[t].at = "sweep" /\ job'[t].srv = None
    BY <1>3, <1>t DEF Release, OnlyJob, TypeInv, TypeOK, Job
  <2>2. copy[i] = None /\ held' = held \ {i} /\ UNCHANGED <<copy, harm>>
    BY <1>3 DEF Release, GoneOf, Gone, i
  <2>3. OwnStep(t)
    BY <2>1, <2>2, <1>h DEF OwnStep, i
  <2>4. GoneOf(t)' /\ HeldOf(t)'
    BY <2>1 DEF GoneOf, HeldOf, Gone, MoveAt, Underway
  <2> QED
    BY <2>2, <2>3, <2>4, FrameOwn DEF Present, i
<1> QED
  BY <1>1, <1>2, <1>3

LEMMA OwnStepKept ==
  ASSUME OwnInv, Separate, [Next]_vars
  PROVE  OwnInv'
<1>t. TypeInv /\ TypeInv' /\ TypeOK /\ harm \in Nat
  BY MovesNextType, CountsAssumption DEF OwnInv, TypeInv, TypeOK
<1>n. "idle" \notin Gone \cup MoveAt /\ Idle.at = "idle" /\ Idle.srv = None
  BY DEF Gone, MoveAt, Underway, Idle
<1>r. ASSUME NEW t \in Task, OnlyJob(t), UNCHANGED <<copy, held>>, harm' \in {harm, harm + 1},
             job'[t].srv \in {job[t].srv, None}, job'[t].at \notin Gone \cup MoveAt
      PROVE  OwnInv'
  BY <1>r, <1>t, RestOwn
<1>e. ASSUME NEW t \in Task, Ends(t) \/ Unwinds(t) \/ Return(t), UNCHANGED <<copy, held>>,
             harm' \in {harm, harm + 1}
      PROVE  OwnInv'
  <2>1. OnlyJob(t) /\ job'[t] = Idle
    BY <1>e, <1>t, EndsGoes
  <2> QED
    BY <2>1, <1>e, <1>r, <1>n
<1>g. ASSUME NEW t \in Task, NEW s, Goto(t, s), UNCHANGED <<copy, held, harm>>, s \notin Gone \cup MoveAt
      PROVE  OwnInv'
  <2>1. GoesTo(t, s)
    BY <1>g, <1>t, GotoGoes
  <2> QED
    BY <2>1, <1>g, <1>r DEF GoesTo
<1>d. ASSUME NEW t \in Task, Deleted(t), UNCHANGED <<copy, held, harm>> PROVE OwnInv'
  BY <1>d, <1>e, <1>g DEF Deleted, Gone, MoveAt, Underway
<1>m. ASSUME NEW t \in Task, NEW s \in MoveAt, Goto(t, s), UNCHANGED <<copy, held, harm>>,
             job[t].at \in MoveAt, s \in Gone \cup {"mback"} => copy[job[t].srv] = None
      PROVE  OwnInv'
  <2>1. GoesTo(t, s)
    BY <1>m, <1>t, GotoGoes
  <2> QED
    BY <2>1, <1>m, <1>t, GoOnOwn
<1>b. ASSUME NEW t \in Task, NEW r, Begin(t, r), UNCHANGED <<copy, held, harm>>,
             r.at \notin Gone \cup MoveAt, r.srv = None \/ Quiet(r.srv)
      PROVE  OwnInv'
  BY <1>b, <1>t, BeginOwn
<1>1. ASSUME NEW c \in Client, NEW i \in Instance, CreateChecks(c, i) PROVE OwnInv'
  BY <1>1, <1>b DEF CreateChecks, Idle, Gone, MoveAt, Underway
<1>2. ASSUME NEW c \in Client, NEW i \in Instance, Remove(c, i) PROVE OwnInv'
  BY <1>2, <1>b DEF Remove, Idle, Gone, MoveAt, Underway
<1>3. ASSUME NEW c \in Client, NEW v \in Copy, DeleteBegins(c, v) PROVE OwnInv'
  BY <1>3, <1>b DEF DeleteBegins, Idle, Gone, MoveAt, Underway
<1>4. ASSUME NEW c \in Client, NEW v \in Copy, UseBegins(c, v) PROVE OwnInv'
  BY <1>4, <1>b DEF UseBegins, Idle, Gone, MoveAt, Underway
<1>5. ASSUME NEW t \in Loop, NEW v \in Copy, FetchBegins(t, v) PROVE OwnInv'
  BY <1>5, <1>b DEF FetchBegins, Idle, Gone, MoveAt, Underway
<1>6. ASSUME NEW t \in Task, NEW i \in Instance, MoveBegins(t, i) PROVE OwnInv'
  BY <1>6, <1>b DEF MoveBegins, Idle, Gone, MoveAt, Underway
<1>7. ASSUME NEW t \in Task, CreatePlans(t) PROVE OwnInv'
  <2>1. CASE Return(t)
    BY <1>7, <2>1, <1>e DEF CreatePlans
  <2>2. CASE job' = [job EXCEPT ![t].at = "make", ![t].ver = Active]
    <3>1. OnlyJob(t) /\ job'[t].srv = job[t].srv /\ job'[t].at = "make"
      BY <2>2, <1>t DEF OnlyJob, TypeOK, Job
    <3> QED
      BY <1>7, <3>1, <1>r DEF CreatePlans, Gone, MoveAt, Underway
  <2> QED
    BY <1>7, <2>1, <2>2 DEF CreatePlans
<1>8. ASSUME NEW t \in Task, CreateMakes(t) \/ DockerRemove(t) \/ Release(t) PROVE OwnInv'
  BY <1>8, <1>t, CreateOwn
<1>9. ASSUME NEW t \in Task, NEW v \in Copy, SweepNext(t, v) PROVE OwnInv'
  <2>1. OnlyJob(t) /\ job'[t].srv = job[t].srv /\ job'[t].at \in {"list", "sweep"}
    BY <1>9, <1>t DEF SweepNext, OnlyJob, TypeOK, Job
  <2> QED
    BY <1>9, <2>1, <1>r DEF SweepNext, Gone, MoveAt, Underway
<1>10. ASSUME NEW t \in Task, DeleteLists(t) \/ DeleteRenames(t) \/ DeleteEnds(t) PROVE OwnInv'
  BY <1>10, <1>d, <1>g DEF DeleteLists, DeleteRenames, DeleteEnds, Gone, MoveAt, Underway
<1>11. ASSUME NEW t \in Task, SweepEnds(t) \/ UseSets(t) PROVE OwnInv'
  BY <1>11, <1>e DEF SweepEnds, UseSets
<1>12. ASSUME NEW t \in Task, FetchLands(t) PROVE OwnInv'
  BY <1>12, <1>e, <1>g DEF FetchLands, Gone, MoveAt, Underway
<1>13. ASSUME NEW t \in Task, Activates(t) PROVE OwnInv'
  <2>1. CASE Ends(t)
    BY <1>13, <2>1, <1>e DEF Activates
  <2>2. CASE ~Ends(t)
    <3>1. OnlyJob(t) /\ job'[t].srv = job[t].srv /\ job'[t].at = "sweep"
      BY <1>13, <2>2, <1>t DEF Activates, OnlyJob, TypeOK, Job
    <3> QED
      BY <1>13, <3>1, <1>r DEF Activates, Gone, MoveAt, Underway
  <2> QED
    BY <2>1, <2>2
<1>14. ASSUME NEW t \in Task, MoveLists(t) PROVE OwnInv'
  <2>1. CASE Ends(t)
    BY <1>14, <2>1, <1>e DEF MoveLists
  <2>2. CASE ~Ends(t)
    <3>1. OnlyJob(t) /\ job'[t].srv = job[t].srv /\ job'[t].at = "mplan"
      BY <1>14, <2>2, <1>t DEF MoveLists, OnlyJob, TypeOK, Job
    <3>2. job[t].srv \in Present /\ UNCHANGED <<copy, held, harm>>
      BY <1>14, <2>2, <1>t DEF MoveLists, TypeOK, Present
    <3>3. OwnStep(t)
      BY <3>1, <3>2 DEF OwnStep
    <3>4. GoneOf(t)' /\ HeldOf(t)'
      BY <3>1, <3>2 DEF GoneOf, HeldOf, Gone, OwnInv, PortsKept
    <3> QED
      BY <3>2, <3>3, <3>4, <1>t, FrameOwn DEF OwnInv, PortsKept, Present
  <2> QED
    BY <2>1, <2>2
<1>15. ASSUME NEW t \in Task, MovePlans(t) \/ MovePins(t) \/ MoveStops(t) PROVE OwnInv'
  BY <1>15, <1>e, <1>m DEF MovePlans, MovePins, MoveStops, Gone, MoveAt, Underway
<1>16. ASSUME NEW t \in Task, MoveTries(t) PROVE OwnInv'
  <2>1. copy[job[t].srv] = None
    BY <1>16 DEF MoveTries, OwnInv, GoneOf, Gone
  <2> QED
    BY <1>16, <2>1, <1>m DEF MoveTries, MoveAt, Underway
<1>17. ASSUME NEW t \in Task, MoveSettles(t) PROVE OwnInv'
  <2>1. CASE job[t].srv \in up
    <3>1. OnlyJob(t) /\ job'[t].srv = job[t].srv /\ job'[t].at = "sweep"
      BY <1>17, <2>1, <1>t DEF MoveSettles, OnlyJob, TypeOK, Job
    <3> QED
      BY <1>17, <3>1, <1>r DEF MoveSettles, Gone, MoveAt, Underway
  <2>2. CASE job[t].srv \notin up
    BY <1>17, <2>2, <1>m DEF MoveSettles, Gone, MoveAt, Underway
  <2> QED
    BY <2>1, <2>2
<1>18. ASSUME NEW t \in Task, MoveRemoves(t) \/ MoveMakes(t) \/ MoveUndoes(t) \/ MoveTurnsBack(t)
                              \/ MoveRestores(t)
       PROVE  OwnInv'
  BY <1>18, <1>t, MoveServerOwn
<1>19. ASSUME NEW i \in Instance, GameEnds(i) \/ GameRuns(i) PROVE OwnInv'
  BY <1>19, <1>t DEF GameEnds, GameRuns, OwnInv, OneEach, PortsKept, Present, GoneOf, HeldOf
<1>20. ASSUME NEW c \in Client, CallerHangsUp(c) PROVE OwnInv'
  BY <1>20, <1>e DEF CallerHangsUp, Harm
<1>21. ASSUME NEW t \in Loop, AgentRestarts(t) PROVE OwnInv'
  <2>1. \A d \in Task : job'[d].srv = None /\ job'[d].at \in {"sweep", "idle"}
    BY <1>21 DEF AgentRestarts, Idle
  <2>2. held' = Present /\ Present' = Present
    BY <1>21 DEF AgentRestarts, Present
  <2> QED
    BY <2>1, <2>2, <1>t DEF OwnInv, OneEach, PortsKept, GoneOf, HeldOf, Gone, MoveAt, Underway
<1>22. CASE UNCHANGED vars
  BY <1>22, <1>t DEF OwnInv, OneEach, PortsKept, Present, GoneOf, HeldOf
<1> QED
  BY <1>1, <1>2, <1>3, <1>4, <1>5, <1>6, <1>7, <1>8, <1>9, <1>10, <1>11, <1>12, <1>13, <1>14, <1>15,
     <1>16, <1>17, <1>18, <1>19, <1>20, <1>21, <1>22
     DEF Next, Asks, LoopBegins, MoveStep, ContentStep, ServerStep

LEMMA OwnInit == Init => OwnInv
<1> SUFFICES ASSUME Init PROVE OwnInv
  OBVIOUS
<1>1. TypeInv
  BY MovesInitType
<1>2. Present = {} /\ \A t \in Task : job[t].srv = None /\ job[t].at = "idle"
  BY DEF Init, Present, Idle
<1> QED
  BY <1>1, <1>2 DEF OwnInv, OneEach, PortsKept, GoneOf, HeldOf, Gone, MoveAt, Underway

\* A server that has a container keeps its ports through creates, removals and
\* moves, whichever copy a move ends on, as long as Docker does what it is
\* asked, nobody hangs up, and one request works on a server at a time.
THEOREM ContainersKeepPorts == Separate => (Spec => []PortsKept)
<1> SUFFICES ASSUME Separate PROVE Spec => []PortsKept
  OBVIOUS
<1>1. Init => OwnInv
  BY OwnInit
<1>2. OwnInv /\ [Next]_vars => OwnInv'
  BY OwnStepKept
<1>3. OwnInv => PortsKept
  BY DEF OwnInv
<1> QED
  BY <1>1, <1>2, <1>3, PTL DEF Spec

-----------------------------------------------------------------------------
(* A move ends with its server on one of the two copies.  The old copy is  *)
(* on the disk when the move begins, for a server mounts it, and the pins  *)
(* keep it there: what would put the server back finds it.                 *)

\* The pins are those of the server its mover works on.
OwnPins == \A i \in Instance : pins[i] # {} => job[mover].srv = i

\* The copies task t counts on are there: up to the removal its server mounts
\* the old one, which stays to the end; what a create looked at stays too.
FilesOf(t) ==
  /\ job[t].at \in {"mplan", "mpin", "mstop", "mremove"} => copy[job[t].srv] = job[t].ver
  /\ job[t].at \in Underway \cup {"make"} => job[t].ver \in installed
  /\ job[t].at = "mmake" => job[t].to \in installed

MountsInstalled == \A i \in Present : copy[i] \in installed

FilesInv ==
  /\ DeleteInv /\ OwnInv /\ OwnPins /\ MountsInstalled
  /\ \A t \in Task : FilesOf(t)

\* What a step deletes, if it deletes: nobody uses it.
DeletesUnused ==
  \A v \in installed \ installed' :
    /\ \A i \in Instance : copy[i] # v /\ v \notin pins[i]
    /\ \A c \in Task : ~Waits(c, "make", v)

LEMMA FrameFiles ==
  ASSUME FilesInv, DeletesUnused, DeleteInv', OwnInv', OwnPins', NEW t \in Task, OwnStep(t), FilesOf(t)',
         \A i \in Instance : copy'[i] \in {copy[i], None} \cup installed'
  PROVE  FilesInv'
<1> USE CopiesAssumption DEF OwnStep, OnlyJob
<1>t. TypeInv /\ TypeInv' /\ PinsInv /\ OneEach
  BY DEF FilesInv, OwnInv, DeleteInv
<1>1. MountsInstalled'
  <2>1. ASSUME NEW i \in Present' PROVE copy'[i] \in installed'
    <3>1. i \in Instance /\ copy'[i] # None
      BY DEF Present
    <3>2. CASE copy'[i] = copy[i]
      <4>1. copy[i] \in installed
        BY <3>1, <3>2 DEF FilesInv, MountsInstalled, Present
      <4> QED
        BY <3>1, <3>2, <4>1 DEF DeletesUnused
    <3> QED
      BY <3>1, <3>2
  <2> QED
    BY <2>1 DEF MountsInstalled
<1>2. ASSUME NEW d \in Task, d # t PROVE FilesOf(d)'
  <2>1. job'[d] = job[d] /\ FilesOf(d)
    BY <1>2 DEF FilesInv
  <2>2. CASE job[d].at \in MoveAt
    <3>1. job[d].srv \in Instance /\ job[d].srv # job[t].srv
      BY <1>2, <1>t, <2>2 DEF TypeInv, Locals, Wf, OneEach
    <3>2. copy'[job[d].srv] = copy[job[d].srv]
      BY <3>1
    <3>3. job[d].at \in Underway => pins[job[d].srv] = {job[d].ver, job[d].to}
      BY <1>t DEF PinsInv
    <3>4. /\ job[d].at \in Underway => job[d].ver \in installed'
          /\ job[d].at = "mmake" => job[d].to \in installed'
      BY <2>1, <3>1, <3>3 DEF DeletesUnused, FilesOf, Underway
    <3> QED
      BY <2>1, <2>2, <3>2, <3>4 DEF FilesOf, MoveAt, Underway
  <2>3. CASE job[d].at \notin MoveAt
    <3>1. job[d].at = "make" => job[d].ver \in installed'
      BY <2>1 DEF DeletesUnused, FilesOf, Waits
    <3> QED
      BY <2>1, <2>3, <3>1 DEF FilesOf, MoveAt, Underway
  <2> QED
    BY <2>2, <2>3
<1> QED
  BY <1>1, <1>2 DEF FilesInv

\* The pins stay with the mover's server, or go.
LEMMA PinsStay ==
  ASSUME FilesInv, DeleteInv', NEW t \in Task, OwnStep(t),
         UNCHANGED <<pins, mover>> \/ pins' = [i \in Instance |-> {}]
  PROVE  OwnPins'
<1>1. CASE UNCHANGED <<pins, mover>>
  <2> SUFFICES ASSUME NEW i \in Instance, pins[i] # {} PROVE job'[mover].srv = i
    BY <1>1 DEF OwnPins
  <2>1. mover \in Task /\ job[mover].srv = i
    BY DEF FilesInv, OwnPins, DeleteInv, PinsInv
  <2>2. job'[mover].at \in Underway
    BY <1>1 DEF DeleteInv, PinsInv
  <2>3. job'[mover].srv \in Instance
    BY <2>1, <2>2 DEF DeleteInv, TypeInv, Locals, Wf, MoveAt
  <2> QED
    BY <2>1, <2>3, CopiesAssumption DEF OwnStep, OnlyJob
<1>2. CASE pins' = [i \in Instance |-> {}]
  BY <1>2 DEF OwnPins
<1> QED
  BY <1>1, <1>2

\* A request begins, with nothing decided.
LEMMA BeginFiles ==
  ASSUME FilesInv, DeleteInv', OwnInv', NEW t \in Task, NEW r, Begin(t, r),
         UNCHANGED <<copy, installed, pins>>, mover' = mover \/ mover = None,
         r.at \notin MoveAt \cup {"make"}
  PROVE  FilesInv'
<1>1. OnlyJob(t) /\ job'[t] = r /\ job[t].at = "idle"
  BY BeginGoes DEF FilesInv, DeleteInv
<1>2. OwnPins'
  <2> SUFFICES ASSUME NEW i \in Instance, pins[i] # {} PROVE job'[mover'].srv = i
    BY DEF OwnPins
  <2>1. mover \in Task /\ job[mover].srv = i /\ job[mover].at \in Underway
    BY DEF FilesInv, OwnPins, DeleteInv, PinsInv
  <2>2. mover # t /\ mover' = mover
    BY <1>1, <2>1, TasksAssumption DEF Underway
  <2> QED
    BY <1>1, <2>1, <2>2 DEF OnlyJob
<1>3. MountsInstalled'
  BY DEF FilesInv, MountsInstalled, Present
<1>4. \A d \in Task : FilesOf(d)'
  BY <1>1 DEF FilesInv, FilesOf, OnlyJob, MoveAt, Underway
<1> QED
  BY <1>2, <1>3, <1>4 DEF FilesInv

LEMMA TaskStepsOwn ==
  ASSUME TypeInv, NEW t \in Task, MoveStep(t) \/ ContentStep(t) \/ ServerStep(t)
  PROVE  OwnStep(t)
<1>t. TypeOK
  BY DEF TypeInv
<1>j. ASSUME NEW r, job' = [job EXCEPT ![t] = r], r.srv \in {job[t].srv, None}
      PROVE  OnlyJob(t) /\ job'[t].srv \in {job[t].srv, None}
  BY <1>j, <1>t DEF OnlyJob, TypeOK
<1>e. ASSUME Ends(t) \/ Return(t) PROVE OnlyJob(t) /\ job'[t].srv \in {job[t].srv, None}
  BY <1>e, EndsGoes DEF Idle
<1>g. ASSUME NEW s, Goto(t, s) PROVE OnlyJob(t) /\ job'[t].srv \in {job[t].srv, None}
  BY <1>g, GotoGoes DEF GoesTo
<1>s. ASSUME OnlyJob(t), job'[t].srv \in {job[t].srv, None},
             \A i \in Instance : i # job[t].srv => copy'[i] = copy[i],
             \A i \in Instance : i # job[t].srv => (i \in held' <=> i \in held),
             harm' = harm \/ harm' = harm + 1
      PROVE  OwnStep(t)
  BY <1>s DEF OwnStep
<1>c. ASSUME NEW v, NEW b, Makes(job[t].srv, v, b) \/ Unmakes(job[t].srv) \/ UNCHANGED docker
      PROVE  \A i \in Instance : i # job[t].srv => copy'[i] = copy[i]
  BY <1>c, <1>t DEF Makes, Unmakes, TypeOK
<1>h. ASSUME held' = held \/ held' = held \cup {job[t].srv} \/ held' = held \ {job[t].srv}
      PROVE  \A i \in Instance : i # job[t].srv => (i \in held' <=> i \in held)
  BY <1>h
<1>1. CASE CreatePlans(t)
  BY <1>1, <1>s, <1>e, <1>t DEF CreatePlans, OnlyJob, TypeOK, Job
<1>2. CASE CreateMakes(t)
  <2>1. held' = held \/ held' = held \cup {job[t].srv}
    BY <1>2 DEF CreateMakes
  <2>2. harm' = harm \/ harm' = harm + 1
    BY <1>2 DEF CreateMakes, Harm
  <2>3. \A i \in Instance : i # job[t].srv => copy'[i] = copy[i]
    BY <1>2, <1>c DEF CreateMakes
  <2> QED
    BY <1>2, <2>1, <2>2, <2>3, <1>e, <1>h, <1>s DEF CreateMakes
<1>3. CASE DockerRemove(t)
  <2>1. harm' = harm \/ harm' = harm + 1
    BY <1>3 DEF DockerRemove, RemoveFails, Harm
  <2>2. \A i \in Instance : i # job[t].srv => copy'[i] = copy[i]
    BY <1>3, <1>c DEF DockerRemove
  <2> QED
    BY <1>3, <2>1, <2>2, <1>e, <1>g, <1>s DEF DockerRemove
<1>4. CASE Release(t)
  <2>1. OnlyJob(t) /\ job'[t].srv = None
    BY <1>4, <1>t DEF Release, OnlyJob, TypeOK, Job
  <2> QED
    BY <1>4, <2>1, <1>s DEF Release
<1>5. ASSUME NEW v \in Copy, SweepNext(t, v) PROVE OwnStep(t)
  <2>1. OnlyJob(t) /\ job'[t].srv = job[t].srv
    BY <1>5, <1>t DEF SweepNext, OnlyJob, TypeOK, Job
  <2> QED
    BY <1>5, <2>1, <1>s DEF SweepNext
<1>6. CASE DeleteLists(t) \/ DeleteRenames(t) \/ DeleteEnds(t)
  BY <1>6, <1>e, <1>g, <1>s DEF DeleteLists, DeleteRenames, DeleteEnds, Deleted
<1>7. CASE SweepEnds(t) \/ UseSets(t) \/ FetchLands(t)
  BY <1>7, <1>e, <1>g, <1>s DEF SweepEnds, UseSets, FetchLands
<1>8. CASE Activates(t)
  <2>1. CASE Ends(t)
    BY <1>8, <2>1, <1>e, <1>s DEF Activates
  <2>2. CASE ~Ends(t)
    <3>1. OnlyJob(t) /\ job'[t].srv = job[t].srv
      BY <1>8, <2>2, <1>t DEF Activates, OnlyJob, TypeOK, Job
    <3> QED
      BY <1>8, <3>1, <1>s DEF Activates
  <2> QED
    BY <2>1, <2>2
<1>9. CASE MoveLists(t)
  <2>1. CASE Ends(t)
    BY <1>9, <2>1, <1>e, <1>s DEF MoveLists
  <2>2. CASE ~Ends(t)
    <3>1. OnlyJob(t) /\ job'[t].srv = job[t].srv
      BY <1>9, <2>2, <1>t DEF MoveLists, OnlyJob, TypeOK, Job
    <3> QED
      BY <1>9, <3>1, <1>s DEF MoveLists
  <2> QED
    BY <2>1, <2>2
<1>10. CASE MovePlans(t) \/ MovePins(t) \/ MoveStops(t) \/ MoveTries(t)
  BY <1>10, <1>e, <1>g, <1>s DEF MovePlans, MovePins, MoveStops, MoveTries
<1>11. CASE MoveSettles(t)
  <2>1. OnlyJob(t) /\ job'[t].srv = job[t].srv
    BY <1>11, <1>t DEF MoveSettles, Goto, OnlyJob, TypeOK, Job
  <2> QED
    BY <1>11, <2>1, <1>s DEF MoveSettles
<1>12. CASE MoveRemoves(t) \/ MoveMakes(t) \/ MoveUndoes(t) \/ MoveTurnsBack(t) \/ MoveRestores(t)
  <2>1. harm' = harm \/ harm' = harm + 1
    BY <1>12 DEF MoveRemoves, MoveMakes, MoveUndoes, MoveTurnsBack, MoveRestores, RemoveFails, Harm
  <2>2. held' = held \/ held' = held \ {job[t].srv}
    BY <1>12 DEF MoveRemoves, MoveMakes, MoveUndoes, MoveTurnsBack, MoveRestores, Lost
  <2>3. \A i \in Instance : i # job[t].srv => copy'[i] = copy[i]
    <3>1. CASE MoveRemoves(t) \/ MoveUndoes(t) \/ MoveTurnsBack(t)
      BY <3>1, <1>c DEF MoveRemoves, MoveUndoes, MoveTurnsBack
    <3>2. CASE MoveMakes(t) \/ MoveRestores(t)
      BY <3>2, <1>c DEF MoveMakes, MoveRestores
    <3> QED
      BY <1>12, <3>1, <3>2
  <2>4. OnlyJob(t) /\ job'[t].srv \in {job[t].srv, None}
    BY <1>12, <1>e, <1>g DEF MoveRemoves, MoveMakes, MoveUndoes, MoveTurnsBack, MoveRestores, Lost
  <2>5. \A i \in Instance : i # job[t].srv => (i \in held' <=> i \in held)
    BY <2>2
  <2> QED
    BY <2>1, <2>3, <2>4, <2>5, <1>s
<1> QED
  BY <1>1, <1>2, <1>3, <1>4, <1>5, <1>6, <1>7, <1>8, <1>9, <1>10, <1>11, <1>12
     DEF MoveStep, ContentStep, ServerStep

LEMMA FilesStepKept ==
  ASSUME FilesInv, Prompt, Separate, [Next]_vars
  PROVE  FilesInv'
<1>t. TypeInv /\ TypeOK /\ PinsInv /\ OwnPins /\ MountsInstalled /\ DeleteInv' /\ OwnInv'
      /\ DeleteInv /\ OwnInv
  BY DeleteStep, OwnStepKept DEF FilesInv, DeleteInv, TypeInv
<1>w. \A t \in Task : FilesOf(t) /\ Wf(job[t]) /\ GoneOf(t)
  BY <1>t DEF FilesInv, TypeInv, Locals, OwnInv
<1>u. DeletesUnused
  BY <1>t, DeleteStepUnused DEF DeletesUnused
<1> DEFINE PinsOK  == UNCHANGED <<pins, mover>> \/ pins' = [i \in Instance |-> {}]
           CopyOK  == \A i \in Instance : copy'[i] \in {copy[i], None} \cup installed'
           Step(t) == MoveStep(t) \/ ContentStep(t) \/ ServerStep(t)
<1>f. ASSUME NEW t \in Task, Step(t), PinsOK, CopyOK, FilesOf(t)' PROVE FilesInv'
  <2>1. OwnStep(t)
    BY <1>f, <1>t, TaskStepsOwn
  <2>2. OwnPins'
    BY <1>f, <1>t, <2>1, PinsStay
  <2> QED
    BY <1>f, <1>t, <1>u, <2>1, <2>2, FrameFiles
<1>p. ASSUME NEW t \in Task, Unwinds(t) PROVE PinsOK
  BY <1>p DEF Unwinds, Unpin
<1>i. ASSUME NEW t \in Task, Unwinds(t) \/ Return(t) PROVE FilesOf(t)'
  <2>1. job'[t].at = "idle"
    BY <1>i, <1>t, EndsGoes DEF Idle
  <2> QED
    BY <2>1 DEF FilesOf, MoveAt, Underway
<1>e. ASSUME NEW t \in Task, Step(t), Ends(t), CopyOK PROVE FilesInv'
  BY <1>e, <1>f, <1>p, <1>i DEF Ends
<1>o. ASSUME NEW t \in Task, Step(t), PinsOK, CopyOK, job'[t].at \notin MoveAt \cup {"make"}
      PROVE  FilesInv'
  <2>1. FilesOf(t)'
    BY <1>o DEF FilesOf, MoveAt, Underway
  <2> QED
    BY <1>o, <2>1, <1>f
<1>g. ASSUME NEW t \in Task, Step(t), PinsOK, CopyOK, NEW s, Goto(t, s), s \notin MoveAt \cup {"make"}
      PROVE  FilesInv'
  <2>1. GoesTo(t, s)
    BY <1>g, <1>t, GotoGoes
  <2> QED
    BY <1>g, <2>1, <1>o DEF GoesTo
<1>d. ASSUME NEW t \in Task, Step(t), CopyOK, Deleted(t) PROVE FilesInv'
  BY <1>d, <1>e, <1>g DEF Deleted, MoveAt, Underway
\* A move under way goes on: its old copy stays where it is.
<1>m. ASSUME NEW t \in Task, Step(t), UNCHANGED <<pins, mover, installed>>, CopyOK, NEW s \in Underway,
             Goto(t, s), job[t].at \in Underway,
             s \in {"mstop", "mremove"} => copy'[job[t].srv] = job[t].ver,
             s = "mmake" => job[t].to \in installed
      PROVE  FilesInv'
  <2>1. GoesTo(t, s)
    BY <1>m, <1>t, GotoGoes
  <2>2. job[t].ver \in installed
    BY <1>m, <1>w DEF FilesOf
  <2>3. FilesOf(t)'
    BY <1>m, <2>1, <2>2 DEF FilesOf, GoesTo, Underway
  <2> QED
    BY <1>m, <2>3, <1>f
<1>b. ASSUME NEW t \in Task, NEW r, Begin(t, r), UNCHANGED <<copy, installed, pins>>,
             mover' = mover \/ mover = None, r.at \notin MoveAt \cup {"make"}
      PROVE  FilesInv'
  BY <1>b, <1>t, BeginFiles
<1>mk. ASSUME NEW i \in Instance, NEW v \in installed, NEW b, Makes(i, v, b), installed' = installed
       PROVE  CopyOK
  BY <1>mk, <1>t DEF Makes, TypeOK
<1>um. ASSUME NEW i, Unmakes(i) PROVE CopyOK
  BY <1>um, <1>t DEF Unmakes, TypeOK
<1>1. ASSUME NEW c \in Client, NEW i \in Instance, CreateChecks(c, i) \/ Remove(c, i) PROVE FilesInv'
  BY <1>1, <1>b DEF CreateChecks, Remove, Idle, MoveAt, Underway
<1>2. ASSUME NEW c \in Client, NEW v \in Copy, DeleteBegins(c, v) \/ UseBegins(c, v) PROVE FilesInv'
  BY <1>2, <1>b DEF DeleteBegins, UseBegins, Idle, MoveAt, Underway
<1>3. ASSUME NEW t \in Loop, NEW v \in Copy, FetchBegins(t, v) PROVE FilesInv'
  BY <1>3, <1>b DEF FetchBegins, Idle, MoveAt, Underway
<1>4. ASSUME NEW t \in Task, NEW i \in Instance, MoveBegins(t, i) PROVE FilesInv'
  BY <1>4, <1>b DEF MoveBegins, Idle, MoveAt, Underway
<1>5. ASSUME NEW t \in Task, CreatePlans(t) PROVE FilesInv'
  <2>1. Step(t) /\ PinsOK /\ CopyOK
    BY <1>5 DEF ServerStep, CreatePlans
  <2>2. CASE Return(t)
    BY <2>1, <2>2, <1>f, <1>i
  <2>3. CASE job' = [job EXCEPT ![t].at = "make", ![t].ver = Active] /\ Active \in installed
    <3>1. job'[t].at = "make" /\ job'[t].ver \in installed'
      BY <1>5, <2>3, <1>t DEF CreatePlans, TypeOK, Job
    <3>2. FilesOf(t)'
      BY <3>1 DEF FilesOf, Underway
    <3> QED
      BY <2>1, <3>2, <1>f
  <2> QED
    BY <1>5, <2>2, <2>3 DEF CreatePlans
<1>6. ASSUME NEW t \in Task, CreateMakes(t) PROVE FilesInv'
  <2>1. Step(t) /\ PinsOK /\ Return(t) /\ installed' = installed /\ job[t].at = "make"
    BY <1>6 DEF ServerStep, CreateMakes
  <2>2. job[t].srv \in Instance /\ job[t].ver \in installed
    BY <2>1, <1>w DEF Wf, FilesOf
  <2>3. CopyOK
    BY <1>6, <2>1, <2>2, <1>mk DEF CreateMakes
  <2> QED
    BY <2>1, <2>3, <1>f, <1>i
<1>7. ASSUME NEW t \in Task, DockerRemove(t) PROVE FilesInv'
  <2>1. Step(t) /\ PinsOK
    BY <1>7 DEF ServerStep, DockerRemove
  <2>2. CopyOK
    BY <1>7, <1>um DEF DockerRemove
  <2> QED
    BY <1>7, <2>1, <2>2, <1>f, <1>g, <1>i DEF DockerRemove, MoveAt, Underway
<1>8. ASSUME NEW t \in Task, Release(t) PROVE FilesInv'
  <2>1. Step(t) /\ PinsOK /\ CopyOK
    BY <1>8 DEF ServerStep, Release
  <2>2. job'[t].at = "sweep"
    BY <1>8, <1>t DEF Release, TypeOK, Job
  <2> QED
    BY <2>1, <2>2, <1>o DEF MoveAt, Underway
<1>9. ASSUME NEW t \in Task, NEW v \in Copy, SweepNext(t, v) PROVE FilesInv'
  <2>1. Step(t) /\ PinsOK /\ CopyOK
    BY <1>9 DEF ContentStep, SweepNext
  <2>2. job'[t].at \in {"list", "sweep"}
    BY <1>9, <1>t DEF SweepNext, TypeOK, Job
  <2> QED
    BY <2>1, <2>2, <1>o DEF MoveAt, Underway
<1>10. ASSUME NEW t \in Task, DeleteLists(t) PROVE FilesInv'
  <2>1. Step(t) /\ CopyOK
    BY <1>10 DEF ContentStep, DeleteLists
  <2> QED
    BY <1>10, <2>1, <1>d, <1>g DEF DeleteLists, MoveAt, Underway
<1>11. ASSUME NEW t \in Task, DeleteRenames(t) PROVE FilesInv'
  <2>1. Step(t) /\ CopyOK
    BY <1>11 DEF ContentStep, DeleteRenames
  <2> QED
    BY <1>11, <2>1, <1>d, <1>g DEF DeleteRenames, MoveAt, Underway
<1>12. ASSUME NEW t \in Task, DeleteEnds(t) PROVE FilesInv'
  BY <1>12, <1>d DEF ContentStep, DeleteEnds
<1>13. ASSUME NEW t \in Task, SweepEnds(t) \/ UseSets(t) PROVE FilesInv'
  BY <1>13, <1>e DEF ContentStep, SweepEnds, UseSets
<1>14. ASSUME NEW t \in Task, FetchLands(t) PROVE FilesInv'
  <2>1. Step(t) /\ CopyOK
    BY <1>14 DEF ContentStep, FetchLands
  <2> QED
    BY <1>14, <2>1, <1>e, <1>g DEF FetchLands, MoveAt, Underway
<1>15. ASSUME NEW t \in Task, Activates(t) PROVE FilesInv'
  <2>1. Step(t) /\ CopyOK
    BY <1>15 DEF ContentStep, Activates
  <2>2. CASE Ends(t)
    BY <2>1, <2>2, <1>e
  <2>3. CASE ~Ends(t)
    <3>1. PinsOK /\ job'[t].at = "sweep"
      BY <1>15, <2>3, <1>t DEF Activates, TypeOK, Job
    <3> QED
      BY <2>1, <3>1, <1>o DEF MoveAt, Underway
  <2> QED
    BY <2>2, <2>3
<1>16. ASSUME NEW t \in Task, MoveLists(t) PROVE FilesInv'
  <2>1. Step(t) /\ CopyOK /\ copy' = copy
    BY <1>16 DEF MoveStep, MoveLists
  <2>2. CASE Ends(t)
    BY <2>1, <2>2, <1>e
  <2>3. CASE ~Ends(t)
    <3>1. /\ PinsOK /\ job'[t].at = "mplan" /\ job'[t].srv = job[t].srv
          /\ job'[t].ver = copy[job[t].srv]
      BY <1>16, <2>3, <1>t DEF MoveLists, TypeOK, Job
    <3>2. FilesOf(t)'
      BY <2>1, <3>1 DEF FilesOf, Underway
    <3> QED
      BY <2>1, <3>1, <3>2, <1>f
  <2> QED
    BY <2>2, <2>3
<1>17. ASSUME NEW t \in Task, MovePlans(t) PROVE FilesInv'
  <2>1. Step(t) /\ CopyOK /\ copy' = copy /\ job[t].at = "mplan"
    BY <1>17 DEF MoveStep, MovePlans
  <2>2. CASE Ends(t)
    BY <2>1, <2>2, <1>e
  <2>3. CASE Goto(t, "mpin") /\ UNCHANGED locks
    <3>1. GoesTo(t, "mpin")
      BY <2>3, <1>t, GotoGoes
    <3>2. FilesOf(t)'
      BY <2>1, <3>1, <1>w DEF FilesOf, GoesTo, Underway
    <3> QED
      BY <2>1, <2>3, <3>2, <1>f
  <2> QED
    BY <1>17, <2>2, <2>3 DEF MovePlans
<1>18. ASSUME NEW t \in Task, MovePins(t) PROVE FilesInv'
  <2>1. Step(t) /\ CopyOK /\ UNCHANGED <<copy, installed, mover>> /\ job[t].at = "mpin"
    BY <1>18 DEF MoveStep, MovePins
  <2>2. OwnStep(t)
    BY <2>1, <1>t, TaskStepsOwn
  <2>3. GoesTo(t, "mstop")
    BY <1>18, <1>t, GotoGoes DEF MovePins
  <2>4. job[t].srv \in Instance /\ job[t].ver \in Copy /\ copy[job[t].srv] = job[t].ver
    BY <2>1, <1>w DEF Wf, FilesOf, MoveAt
  <2>5. job[t].ver \in installed
    BY <2>4, <1>t, CopiesAssumption DEF MountsInstalled, Present
  <2>6. FilesOf(t)'
    BY <2>1, <2>3, <2>4, <2>5 DEF FilesOf, GoesTo
  <2>7. mover = t /\ \A i \in Instance : pins[i] = {}
    BY <2>1, <1>t DEF PinsInv, Moving, MoveAt, Underway
  <2>8. OwnPins'
    BY <1>18, <2>1, <2>3, <2>4, <2>7, <1>t DEF MovePins, OwnPins, GoesTo, TypeOK
  <2> QED
    BY <1>t, <1>u, <2>1, <2>2, <2>6, <2>8, FrameFiles
<1>19. ASSUME NEW t \in Task, MoveStops(t) PROVE FilesInv'
  <2>1. Step(t) /\ CopyOK /\ copy' = copy /\ job[t].at = "mstop" /\ installed' = installed
    BY <1>19 DEF MoveStep, MoveStops
  <2>2. CASE Ends(t)
    BY <2>1, <2>2, <1>e
  <2>3. CASE Goto(t, "mremove") /\ UNCHANGED locks
    <3>1. copy'[job[t].srv] = job[t].ver
      BY <2>1, <1>w DEF FilesOf
    <3> QED
      BY <2>1, <2>3, <3>1, <1>m DEF Underway
  <2> QED
    BY <1>19, <2>2, <2>3 DEF MoveStops
<1>20. ASSUME NEW t \in Task, MoveRemoves(t) PROVE FilesInv'
  <2>1. Step(t) /\ job[t].at = "mremove" /\ installed' = installed
    BY <1>20 DEF MoveStep, MoveRemoves
  <2>2. CopyOK
    BY <1>20, <1>um DEF MoveRemoves
  <2> QED
    BY <1>20, <2>1, <2>2, <1>e, <1>m DEF MoveRemoves, Underway
<1>21. ASSUME NEW t \in Task, MoveTries(t) PROVE FilesInv'
  <2>1. Step(t) /\ CopyOK /\ job[t].at = "mto" /\ UNCHANGED <<pins, mover, installed>>
    BY <1>21 DEF MoveStep, MoveTries
  <2>2. CASE CreateOnAllows(job[t].srv, job[t].to)
    BY <1>21, <2>1, <2>2, <1>m DEF MoveTries, CreateOnAllows, Underway
  <2>3. CASE ~CreateOnAllows(job[t].srv, job[t].to)
    BY <1>21, <2>1, <2>3, <1>m DEF MoveTries, Underway
  <2> QED
    BY <2>2, <2>3
<1>22. ASSUME NEW t \in Task, MoveMakes(t) PROVE FilesInv'
  <2>1. Step(t) /\ job[t].at = "mmake" /\ UNCHANGED <<pins, mover, installed>>
    BY <1>22 DEF MoveStep, MoveMakes
  <2>2. job[t].srv \in Instance /\ job[t].to \in installed
    BY <2>1, <1>w DEF Wf, FilesOf, MoveAt, Underway
  <2>3. CopyOK
    BY <1>22, <2>1, <2>2, <1>mk DEF MoveMakes
  <2> QED
    BY <1>22, <2>1, <2>3, <1>m DEF MoveMakes, Underway
<1>23. ASSUME NEW t \in Task, MoveSettles(t) PROVE FilesInv'
  <2>1. Step(t) /\ CopyOK /\ job[t].at = "settle" /\ UNCHANGED <<mover, installed>>
    BY <1>23 DEF MoveStep, MoveSettles
  <2>2. CASE job[t].srv \in up
    <3>1. PinsOK /\ job'[t].at = "sweep"
      BY <1>23, <2>2, <1>t DEF MoveSettles, Unpin, TypeOK, Job
    <3> QED
      BY <2>1, <3>1, <1>o DEF MoveAt, Underway
  <2>3. CASE job[t].srv \notin up
    BY <1>23, <2>1, <2>3, <1>m DEF MoveSettles, Underway
  <2> QED
    BY <2>2, <2>3
<1>24. ASSUME NEW t \in Task, MoveUndoes(t) PROVE FilesInv'
  <2>1. Step(t) /\ job[t].at = "mundo" /\ UNCHANGED <<pins, mover, installed>>
    BY <1>24 DEF MoveStep, MoveUndoes
  <2>2. CopyOK
    BY <1>24, <1>um DEF MoveUndoes
  <2> QED
    BY <1>24, <2>1, <2>2, <1>m DEF MoveUndoes, Underway
<1>25. ASSUME NEW t \in Task, MoveTurnsBack(t) PROVE FilesInv'
  <2>1. Step(t) /\ CopyOK /\ job[t].at = "mback" /\ installed' = installed
    BY <1>25 DEF MoveStep, MoveTurnsBack
  <2> QED
    BY <1>25, <2>1, <1>e, <1>m DEF MoveTurnsBack, Lost, Underway
<1>26. ASSUME NEW t \in Task, MoveRestores(t) PROVE FilesInv'
  <2>1. Step(t) /\ job[t].at = "mrestore" /\ installed' = installed /\ Ends(t)
    BY <1>26 DEF MoveStep, MoveRestores, Lost
  <2>2. job[t].srv \in Instance /\ job[t].ver \in installed
    BY <2>1, <1>w DEF Wf, FilesOf, MoveAt, Underway
  <2>3. CopyOK
    BY <1>26, <2>1, <2>2, <1>mk DEF MoveRestores
  <2> QED
    BY <2>1, <2>3, <1>e
<1>27. ASSUME UNCHANGED <<copy, installed, pins, mover, job>> PROVE FilesInv'
  BY <1>27, <1>t, <1>w DEF FilesInv, FilesOf, OwnPins, MountsInstalled, Present
<1>28. ASSUME NEW i \in Instance, GameEnds(i) \/ GameRuns(i) PROVE FilesInv'
  BY <1>28, <1>27 DEF GameEnds, GameRuns
<1>29. ASSUME NEW c \in Client, CallerHangsUp(c) PROVE FilesInv'
  <2>1. OnlyJob(c) /\ job'[c] = Idle
    BY <1>29, <1>t, EndsGoes DEF CallerHangsUp
  <2>2. OwnStep(c)
    BY <1>29, <2>1 DEF CallerHangsUp, OwnStep, Harm, Idle
  <2>3. PinsOK /\ FilesOf(c)'
    BY <1>29, <1>p, <1>i DEF CallerHangsUp
  <2>4. OwnPins'
    BY <1>t, <2>2, <2>3, PinsStay
  <2> QED
    BY <1>29, <1>t, <1>u, <2>2, <2>3, <2>4, FrameFiles DEF CallerHangsUp
<1>30. ASSUME NEW t \in Loop, AgentRestarts(t) PROVE FilesInv'
  <2>1. \A d \in Task : job'[d].at \in {"sweep", "idle"}
    BY <1>30 DEF AgentRestarts, Idle
  <2>2. OwnPins' /\ MountsInstalled'
    BY <1>30, <1>t DEF AgentRestarts, OwnPins, MountsInstalled, Present
  <2> QED
    BY <2>1, <2>2, <1>t DEF FilesInv, FilesOf, MoveAt, Underway
<1>31. CASE UNCHANGED vars
  BY <1>31, <1>27
<1> QED
  BY <1>1, <1>2, <1>3, <1>4, <1>5, <1>6, <1>7, <1>8, <1>9, <1>10, <1>11, <1>12, <1>13, <1>14, <1>15,
     <1>16, <1>17, <1>18, <1>19, <1>20, <1>21, <1>22, <1>23, <1>24, <1>25, <1>26, <1>28, <1>29, <1>30,
     <1>31
     DEF Next, Asks, LoopBegins, MoveStep, ContentStep, ServerStep

\* The node has a place for every server there is: with fewer, a create of
\* another server may take the place while the moved one has no container.
Room == IsFiniteSet(Instance) /\ Cardinality(Instance) <= MaxInstances

LEMMA PlaceLeft ==
  ASSUME Room, NEW i \in Instance, i \notin Present
  PROVE  Cardinality(Present) < MaxInstances
<1>1. Present \in SUBSET Instance /\ Present # Instance
  BY DEF Present
<1>2. /\ Cardinality(Present) <= Cardinality(Instance)
      /\ Cardinality(Instance) = Cardinality(Present) => Instance = Present
      /\ IsFiniteSet(Present)
  BY <1>1, FS_Subset DEF Room
<1>3. Cardinality(Present) \in Nat /\ Cardinality(Instance) \in Nat
  BY <1>2, FS_CardinalityType DEF Room
<1> QED
  BY <1>1, <1>2, <1>3, CountsAssumption DEF Room

\* Only a step of the mover's own move, a hang-up or a restart lets go of pins.
LEMMA WhoLetsGo ==
  ASSUME FilesInv, [Next]_vars, NEW i \in Instance, pins[i] # {}, pins'[i] = {},
         boots' = boots, harm' = harm
  PROVE  MoveStep(mover) /\ mover \in Task /\ job[mover].at \in Underway /\ job[mover].srv = i
<1>t. TypeInv /\ mover \in Task /\ job[mover].at \in Underway /\ job[mover].srv = i
      /\ harm \in Nat /\ boots \in Nat
  BY CountsAssumption DEF FilesInv, DeleteInv, PinsInv, OwnPins, TypeInv, TypeOK
<1>1. pins' # pins
  OBVIOUS
<1>2. ASSUME NEW t \in Task, MoveStep(t) PROVE t = mover
  <2>1. job[t].at \in Moving
    BY <1>2 DEF MoveStep, MoveLists, MovePlans, MovePins, MoveStops, MoveRemoves, MoveTries, MoveMakes,
       MoveSettles, MoveUndoes, MoveTurnsBack, MoveRestores, Moving, MoveAt, Underway
  <2> QED
    BY <2>1 DEF FilesInv, DeleteInv, PinsInv
<1>3. ASSUME NEW t \in Task, job[t].at \notin Underway, Ends(t) PROVE FALSE
  BY <1>1, <1>3, <1>t DEF Ends, Unwinds
<1>4. ASSUME NEW t \in Task, ServerStep(t) PROVE FALSE
  BY <1>1, <1>4 DEF ServerStep, CreatePlans, CreateMakes, DockerRemove, Release
<1>5. ASSUME NEW t \in Task, ContentStep(t) PROVE FALSE
  <2>1. job[t].at \notin Underway /\ Ends(t)
    BY <1>1, <1>5 DEF ContentStep, SweepNext, DeleteLists, DeleteRenames, DeleteEnds, Deleted, SweepEnds,
       FetchLands, Activates, UseSets, Underway
  <2> QED
    BY <2>1, <1>3
<1>6. ASSUME NEW c \in Client, Asks(c) PROVE FALSE
  BY <1>1, <1>6 DEF Asks, CreateChecks, Remove, MoveBegins, DeleteBegins, UseBegins
<1>7. ASSUME NEW c \in Client, CallerHangsUp(c) PROVE FALSE
  BY <1>t, <1>7 DEF CallerHangsUp, Harm
<1>8. ASSUME NEW t \in Loop, LoopBegins(t) PROVE FALSE
  BY <1>1, <1>8 DEF LoopBegins, FetchBegins, MoveBegins
<1>9. ASSUME NEW t \in Loop, AgentRestarts(t) PROVE FALSE
  BY <1>t, <1>9 DEF AgentRestarts
<1>10. ASSUME NEW s \in Instance, GameEnds(s) \/ GameRuns(s) PROVE FALSE
  BY <1>1, <1>10 DEF GameEnds, GameRuns
<1> QED
  BY <1>1, <1>2, <1>4, <1>5, <1>6, <1>7, <1>8, <1>9, <1>10, <1>t DEF Next

LEMMA MoveStepKeeps ==
  ASSUME FilesInv, Room, [Next]_vars, NEW i \in Instance, pins[i] # {}, pins'[i] = {},
         boots' = boots, harm' = harm
  PROVE  i \in Present'
<1> DEFINE m == mover
<1>t. TypeOK /\ harm \in Nat
  BY CountsAssumption DEF FilesInv, DeleteInv, TypeInv, TypeOK
<1>w. MoveStep(m) /\ m \in Task /\ job[m].at \in Underway /\ job[m].srv = i
  BY WhoLetsGo
<1>f. FilesOf(m) /\ GoneOf(m) /\ Wf(job[m])
  BY <1>w DEF FilesInv, OwnInv, TypeInv, Locals
<1>1. pins' # pins /\ job[m].at \notin {"mlist", "mplan", "mpin"}
  BY <1>w DEF Underway
<1> HIDE DEF m
\* Before the removal its container is there, on the old copy.
<1>2. ASSUME job[m].at \in {"mstop", "mremove"}, copy' = copy PROVE i \in Present'
  BY <1>2, <1>w, <1>f, CopiesAssumption DEF FilesOf, Present, Wf, MoveAt
<1>3. CASE MoveStops(m)
  BY <1>2, <1>3 DEF MoveStops
<1>4. CASE MoveRemoves(m)
  BY <1>1, <1>2, <1>4 DEF MoveRemoves
<1>5. CASE MoveSettles(m)
  BY <1>1, <1>5, <1>w, <1>t DEF MoveSettles, Present, TypeOK
<1>6. CASE MoveTurnsBack(m)
  <2>0. ~Harm
    BY <1>t DEF Harm
  <2>1. job[m].at = "mback" /\ ~CreateOnAllows(i, job[m].ver) /\ copy' = copy
    BY <1>1, <1>6, <1>w, <2>0 DEF MoveTurnsBack
  <2>2. job[m].ver \in installed
    BY <2>1, <1>w, <1>f DEF FilesOf
  <2>3. i \in Present
    BY <2>1, <2>2, PlaceLeft DEF CreateOnAllows
  <2> QED
    BY <2>1, <2>3 DEF Present
<1>7. CASE MoveRestores(m)
  <2>1. job[m].at = "mrestore" /\ i \notin Present /\ job[m].ver \in Copy
    BY <1>7, <1>w, <1>f DEF MoveRestores, GoneOf, Gone, Present, Wf, MoveAt
  <2>2. ~Harm
    BY <1>t DEF Harm
  <2>3. Makes(i, job[m].ver, TRUE)
    BY <1>7, <2>1, <2>2, <1>w DEF MoveRestores
  <2> QED
    BY <2>1, <2>3, <1>t, CopiesAssumption DEF Makes, Present, TypeOK
<1> QED
  BY <1>1, <1>3, <1>4, <1>5, <1>6, <1>7, <1>w
     DEF MoveStep, MoveLists, MovePlans, MovePins, MoveTries, MoveMakes, MoveUndoes

\* A move ends with its server on the new copy or on the old one, where nobody
\* else works on that server, listings are acted on promptly, the node has a
\* place for each server, Docker does what the last step asks of it, and the
\* host does not refuse the way back its memory (the step is no harm).
THEOREM MovesKeepServers == Prompt /\ Separate /\ Room => (Spec => MoveKeepsServer)
<1> SUFFICES ASSUME Prompt, Separate, Room PROVE Spec => MoveKeepsServer
  OBVIOUS
<1>1. Init => FilesInv
  <2> SUFFICES ASSUME Init PROVE FilesInv
    OBVIOUS
  <2>1. DeleteInv /\ OwnInv
    BY MovesInitType, OwnInit
       DEF Init, Idle, DeleteInv, PinsInv, RenameInv, Moving, MoveAt, Underway
  <2> QED
    BY <2>1 DEF Init, Idle, FilesInv, OwnPins, MountsInstalled, Present, FilesOf, Underway
<1>2. FilesInv /\ [Next]_vars => FilesInv'
  BY FilesStepKept
<1>3. FilesInv /\ [Next]_vars =>
        [\A i \in Instance :
           (pins[i] # {} /\ pins'[i] = {} /\ boots' = boots /\ harm' = harm) => i \in Present']_vars
  BY MoveStepKeeps
<1> QED
  BY <1>1, <1>2, <1>3, PTL DEF Spec, MoveKeepsServer

-----------------------------------------------------------------------------
(* The slot of the game.                                                   *)

SlotInv ==
  /\ TypeInv /\ SlotExcludes
  /\ \A t \in Task : job[t].at \in {"idle", "plan", "make", "remove"} => ~HasSlot(t)

\* A task's step: it ends, giving back a slot it has, or its request goes on.
GoesOn(t) ==
  \/ Ends(t)
  \/ slot' = slot /\ Return(t) /\ job[t].at \in {"plan", "make", "remove"}
  \/ /\ slot' = slot /\ OnlyJob(t) /\ job'[t].op = job[t].op
     /\ job'[t].at \in {"idle", "plan", "make", "remove"} => job[t].at = "plan"

\* A task that is over, or never had the slot, gives back what it had.
LEMMA SlotGivenBack ==
  ASSUME SlotInv, NEW t \in Task, harm \in Nat, harm' \in Nat, harm' >= harm, ~HasSlot(t)',
         \A d \in Task : d # t => (HasSlot(d)' <=> HasSlot(d)), slot' <=> slot /\ ~HasSlot(t)
  PROVE  SlotExcludes'
<1>1. ASSUME NEW d \in Task, NEW e \in Task, HasSlot(d)', HasSlot(e)' PROVE d = e
  BY <1>1 DEF SlotInv, SlotExcludes
<1>2. ASSUME NEW d \in Task, HasSlot(d)' PROVE slot'
  <2>1. d # t /\ HasSlot(d)
    BY <1>2
  <2>2. slot /\ ~HasSlot(t)
    BY <2>1 DEF SlotInv, SlotExcludes
  <2> QED
    BY <2>2
<1>3. ASSUME slot', ~(harm' > 0) PROVE \E d \in Task : HasSlot(d)'
  <2>1. slot /\ ~HasSlot(t) /\ ~(harm > 0)
    BY <1>3
  <2>2. PICK d \in Task : HasSlot(d)
    BY <2>1 DEF SlotInv, SlotExcludes, SlotIsHeld
  <2> QED
    BY <2>1, <2>2
<1> QED
  BY <1>1, <1>2, <1>3 DEF SlotExcludes, SlotIsHeld

LEMMA GoesOnKeeps ==
  ASSUME SlotInv, TypeInv', NEW t \in Task, GoesOn(t), harm' \in {harm, harm + 1}
  PROVE  SlotInv'
<1> TypeInv /\ harm \in Nat /\ harm' \in Nat /\ harm' >= harm
  BY CountsAssumption DEF SlotInv, TypeInv, TypeOK
<1>1. CASE Ends(t)
  <2>0. OnlyJob(t) /\ job'[t] = Idle
    BY <1>1, EndsGoes
  <2>1. ~HasSlot(t)'
    BY <2>0 DEF HasSlot, Idle
  <2>a. slot' <=> slot /\ ~HasSlot(t)
    BY <1>1, Zenon DEF Ends, HasSlot
  <2>2. \A d \in Task : d # t => (HasSlot(d)' <=> HasSlot(d))
    BY <2>0 DEF OnlyJob, HasSlot
  <2>3. SlotExcludes'
    BY <2>1, <2>2, <2>a, SlotGivenBack
  <2>4. \A d \in Task : job'[d].at \in {"idle", "plan", "make", "remove"} => ~HasSlot(d)'
    BY <2>0, <2>1, <2>2 DEF SlotInv, OnlyJob
  <2> QED
    BY <2>3, <2>4 DEF SlotInv
<1>2. CASE slot' = slot /\ Return(t) /\ job[t].at \in {"plan", "make", "remove"}
  <2>0. OnlyJob(t) /\ job'[t] = Idle
    BY <1>2, EndsGoes
  <2>1. OnlyJob(t) /\ job'[t] = Idle /\ ~HasSlot(t) /\ ~HasSlot(t)'
    BY <1>2, <2>0 DEF HasSlot, Idle, SlotInv
  <2>2. \A d \in Task : d # t => (HasSlot(d)' <=> HasSlot(d))
    BY <2>1 DEF OnlyJob, HasSlot
  <2>3. SlotExcludes'
    BY <1>2, <2>1, <2>2, SlotGivenBack
  <2>4. \A d \in Task : job'[d].at \in {"idle", "plan", "make", "remove"} => ~HasSlot(d)'
    BY <2>1, <2>2 DEF SlotInv, OnlyJob
  <2> QED
    BY <2>3, <2>4 DEF SlotInv
<1>3. CASE /\ slot' = slot /\ OnlyJob(t) /\ job'[t].op = job[t].op
           /\ job'[t].at \in {"idle", "plan", "make", "remove"} => job[t].at = "plan"
  <2>1. \A d \in Task : HasSlot(d)' <=> HasSlot(d)
    BY <1>3 DEF OnlyJob, HasSlot
  <2>2. SlotExcludes'
    BY <1>3, <2>1 DEF SlotInv, SlotExcludes, SlotIsHeld
  <2>3. \A d \in Task : job'[d].at \in {"idle", "plan", "make", "remove"} => ~HasSlot(d)'
    BY <1>3, <2>1 DEF SlotInv, OnlyJob
  <2> QED
    BY <2>2, <2>3 DEF SlotInv
<1> QED
  BY <1>1, <1>2, <1>3 DEF GoesOn

\* A task that begins takes the slot when it was free, or does without.
LEMMA BeginSlot ==
  ASSUME SlotInv, TypeInv', NEW t \in Task, NEW r, Begin(t, r), harm' = harm,
         \/ slot' = slot /\ r.op \notin {"delete", "use", "fetch"}
         \/ ~slot /\ slot' = TRUE /\ r.op \in {"delete", "use", "fetch"}
              /\ r.at \notin {"idle", "plan", "make", "remove"}
  PROVE  SlotInv'
<1>1. OnlyJob(t) /\ job'[t] = r /\ ~HasSlot(t)
  BY BeginGoes DEF SlotInv
<1>2. /\ \A d \in Task : d # t => (HasSlot(d)' <=> HasSlot(d))
      /\ HasSlot(t)' <=> r.op \in {"delete", "use", "fetch"}
  BY <1>1 DEF OnlyJob, HasSlot
<1>3. SlotExcludes'
  BY <1>1, <1>2 DEF SlotInv, SlotExcludes, SlotIsHeld
<1>4. \A d \in Task : job'[d].at \in {"idle", "plan", "make", "remove"} => ~HasSlot(d)'
  BY <1>1, <1>2 DEF SlotInv, OnlyJob
<1> QED
  BY <1>3, <1>4 DEF SlotInv

LEMMA StepsGoOn ==
  ASSUME TypeInv, NEW t \in Task, MoveStep(t) \/ ContentStep(t) \/ ServerStep(t)
  PROVE  GoesOn(t)
<1>t. job \in [Task -> Job] /\ job[t] \in Job
  BY DEF TypeInv, TypeOK
<1>e. ASSUME Ends(t) PROVE GoesOn(t)
  BY <1>e DEF GoesOn
<1>r. ASSUME NEW r \in Job, job' = [job EXCEPT ![t] = r], slot' = slot, r.op = job[t].op,
             r.at \in {"idle", "plan", "make", "remove"} => job[t].at = "plan"
      PROVE  GoesOn(t)
  <2>1. OnlyJob(t) /\ job'[t] = r
    BY <1>r, <1>t DEF OnlyJob
  <2> QED
    BY <1>r, <2>1 DEF GoesOn
<1>g. ASSUME NEW s, Goto(t, s), slot' = slot, s \notin {"idle", "plan", "make", "remove"}
      PROVE  GoesOn(t)
  <2>1. job' = [job EXCEPT ![t] = [job[t] EXCEPT !.at = s]]
    BY <1>g DEF Goto
  <2>2. OnlyJob(t) /\ job'[t].op = job[t].op /\ job'[t].at = s
    BY <1>t, <2>1 DEF OnlyJob, Job
  <2> QED
    BY <1>g, <2>2 DEF GoesOn
<1>d. ASSUME Deleted(t) PROVE GoesOn(t)
  BY <1>d, <1>e, <1>g DEF Deleted
<1>1. CASE CreatePlans(t)
  <2>1. CASE Active \in installed
    <3>1. job' = [job EXCEPT ![t] = [job[t] EXCEPT !.at = "make", !.ver = Active]] /\ job[t].at = "plan"
          /\ slot' = slot
      BY <1>1, <2>1 DEF CreatePlans
    <3>2. OnlyJob(t) /\ job'[t].op = job[t].op
      BY <1>t, <3>1 DEF OnlyJob, Job
    <3> QED
      BY <3>1, <3>2 DEF GoesOn
  <2>2. CASE Active \notin installed
    BY <1>1, <2>2 DEF CreatePlans, GoesOn
  <2> QED
    BY <2>1, <2>2
<1>2. CASE CreateMakes(t)
  BY <1>2 DEF CreateMakes, GoesOn
<1>3. CASE DockerRemove(t)
  BY <1>3, <1>g DEF DockerRemove, GoesOn
<1>4. CASE Release(t)
  <2>1. job' = [job EXCEPT ![t] = [job[t] EXCEPT !.at = "sweep", !.srv = None, !.todo = pending]] /\ slot' = slot
    BY <1>4 DEF Release
  <2>2. OnlyJob(t) /\ job'[t].op = job[t].op /\ job'[t].at = "sweep"
    BY <1>t, <2>1 DEF OnlyJob, Job
  <2> QED
    BY <2>1, <2>2 DEF GoesOn
<1>5. ASSUME NEW v \in Copy, SweepNext(t, v) PROVE GoesOn(t)
  <2>1. slot' = slot /\ (\/ job' = [job EXCEPT ![t] = [job[t] EXCEPT !.at = "list", !.ver = v, !.todo = @ \ {v}]]
                         \/ job[t].at = "sweep" /\ job' = [job EXCEPT ![t] = [job[t] EXCEPT !.todo = @ \ {v}]])
    BY <1>5 DEF SweepNext
  <2>2. PICK r \in {[job[t] EXCEPT !.at = "list", !.ver = v, !.todo = @ \ {v}],
                    [job[t] EXCEPT !.todo = @ \ {v}]} :
          job' = [job EXCEPT ![t] = r] /\ r.op = job[t].op /\ r.at \in {"list", "sweep"}
    BY <1>t, <2>1 DEF Job
  <2>3. OnlyJob(t) /\ job'[t].op = job[t].op /\ job'[t].at \in {"list", "sweep"}
    BY <1>t, <2>2 DEF OnlyJob
  <2> QED
    BY <2>1, <2>3 DEF GoesOn
<1>6. CASE DeleteLists(t) \/ DeleteRenames(t) \/ DeleteEnds(t) \/ SweepEnds(t) \/ FetchLands(t) \/ UseSets(t)
  BY <1>6, <1>d, <1>e, <1>g DEF DeleteLists, DeleteRenames, DeleteEnds, SweepEnds, FetchLands, UseSets
<1>7. CASE Activates(t)
  <2>1. CASE job' = [job EXCEPT ![t].at = "sweep", ![t].todo = pending'] /\ UNCHANGED locks
    <3>1. job' = [job EXCEPT ![t] = [job[t] EXCEPT !.at = "sweep", !.todo = pending']] /\ slot' = slot
      BY <2>1
    <3>2. OnlyJob(t) /\ job'[t].op = job[t].op /\ job'[t].at = "sweep"
      BY <1>t, <3>1 DEF OnlyJob, Job
    <3> QED
      BY <3>1, <3>2 DEF GoesOn
  <2> QED
    BY <1>7, <1>e, <2>1 DEF Activates
<1>8. CASE MoveLists(t)
  <2>1. CASE job' = [job EXCEPT ![t].at = "mplan", ![t].ver = copy[job[t].srv], ![t].to = Active] /\ UNCHANGED locks
    <3>1. job' = [job EXCEPT ![t] = [job[t] EXCEPT !.at = "mplan", !.ver = copy[job[t].srv], !.to = Active]]
          /\ slot' = slot
      BY <2>1
    <3>2. OnlyJob(t) /\ job'[t].op = job[t].op /\ job'[t].at = "mplan"
      BY <1>t, <3>1 DEF OnlyJob, Job
    <3> QED
      BY <3>1, <3>2 DEF GoesOn
  <2> QED
    BY <1>8, <1>e, <2>1 DEF MoveLists
<1>9. CASE MoveSettles(t)
  <2>1. CASE job' = [job EXCEPT ![t].at = "sweep", ![t].todo = pending]
    <3>1. job' = [job EXCEPT ![t] = [job[t] EXCEPT !.at = "sweep", !.todo = pending]] /\ slot' = slot
      BY <1>9, <2>1 DEF MoveSettles
    <3>2. OnlyJob(t) /\ job'[t].op = job[t].op /\ job'[t].at = "sweep"
      BY <1>t, <3>1 DEF OnlyJob, Job
    <3> QED
      BY <3>1, <3>2 DEF GoesOn
  <2>2. CASE Goto(t, "mundo")
    BY <1>9, <1>g, <2>2 DEF MoveSettles
  <2> QED
    BY <1>9, <2>1, <2>2 DEF MoveSettles
<1>10. CASE MovePlans(t) \/ MovePins(t) \/ MoveStops(t) \/ MoveRemoves(t)
  BY <1>10, <1>e, <1>g DEF MovePlans, MovePins, MoveStops, MoveRemoves
<1>11. CASE MoveTries(t) \/ MoveMakes(t)
  BY <1>11, <1>g DEF MoveTries, MoveMakes
<1>12. CASE MoveUndoes(t) \/ MoveTurnsBack(t) \/ MoveRestores(t)
  BY <1>12, <1>e, <1>g DEF MoveUndoes, MoveTurnsBack, MoveRestores, Lost
<1> QED
  BY <1>1, <1>2, <1>3, <1>4, <1>5, <1>6, <1>7, <1>8, <1>9, <1>10, <1>11, <1>12
  DEF MoveStep, ContentStep, ServerStep

LEMMA SlotNext == SlotInv /\ [Next]_vars => SlotInv'
<1> SUFFICES ASSUME SlotInv, [Next]_vars PROVE SlotInv'
  OBVIOUS
<1>t. TypeInv /\ TypeInv' /\ harm \in Nat
  BY MovesNextType, CountsAssumption DEF SlotInv, TypeInv, TypeOK
<1>1. ASSUME NEW t \in Task, MoveStep(t) \/ ContentStep(t) \/ ServerStep(t) PROVE SlotInv'
  <2>1. harm' \in {harm, harm + 1}
    BY <1>1, <1>t, TaskStepsOwn DEF OwnStep
  <2> QED
    BY <1>1, <1>t, <2>1, StepsGoOn, GoesOnKeeps
<1>2. ASSUME NEW c \in Client, Asks(c) PROVE SlotInv'
  <2>1. ASSUME NEW i \in Instance, CreateChecks(c, i) PROVE SlotInv'
    BY <1>t, <2>1, BeginSlot DEF CreateChecks, Idle
  <2>2. ASSUME NEW i \in Instance, Remove(c, i) PROVE SlotInv'
    BY <1>t, <2>2, BeginSlot DEF Remove, Idle
  <2>3. ASSUME NEW i \in Instance, MoveBegins(c, i) PROVE SlotInv'
    BY <1>t, <2>3, BeginSlot DEF MoveBegins, Idle
  <2>4. ASSUME NEW v \in Copy, DeleteBegins(c, v) PROVE SlotInv'
    BY <1>t, <2>4, BeginSlot DEF DeleteBegins, Idle
  <2>5. ASSUME NEW v \in Copy, UseBegins(c, v) PROVE SlotInv'
    BY <1>t, <2>5, BeginSlot DEF UseBegins, Idle
  <2> QED
    BY <1>2, <2>1, <2>2, <2>3, <2>4, <2>5 DEF Asks
<1>3. ASSUME NEW t \in Loop, LoopBegins(t) PROVE SlotInv'
  <2>1. ASSUME NEW v \in Copy, FetchBegins(t, v) PROVE SlotInv'
    BY <1>t, <2>1, BeginSlot DEF FetchBegins, Idle
  <2>2. ASSUME NEW i \in Instance, MoveBegins(t, i) PROVE SlotInv'
    BY <1>t, <2>2, BeginSlot DEF MoveBegins, Idle
  <2> QED
    BY <1>3, <2>1, <2>2 DEF LoopBegins
<1>4. ASSUME NEW c \in Client, CallerHangsUp(c) PROVE SlotInv'
  <2>1. OnlyJob(c) /\ job'[c] = Idle /\ slot' = slot /\ harm' > 0
    BY <1>4, <1>t, EndsGoes DEF CallerHangsUp, Harm
  <2>2. ~HasSlot(c)' /\ \A d \in Task : d # c => (HasSlot(d)' <=> HasSlot(d))
    BY <2>1 DEF OnlyJob, HasSlot, Idle
  <2>3. SlotExcludes'
    BY <2>1, <2>2 DEF SlotInv, SlotExcludes
  <2>4. \A d \in Task : job'[d].at \in {"idle", "plan", "make", "remove"} => ~HasSlot(d)'
    BY <2>1, <2>2 DEF SlotInv, OnlyJob
  <2> QED
    BY <1>t, <2>3, <2>4 DEF SlotInv
<1>5. ASSUME NEW t \in Loop, AgentRestarts(t) PROVE SlotInv'
  <2>1. slot' = FALSE /\ \A d \in Task : ~HasSlot(d)'
    BY <1>5 DEF AgentRestarts, HasSlot, Idle
  <2> QED
    BY <1>t, <2>1 DEF SlotInv, SlotExcludes, SlotIsHeld
<1>6. CASE UNCHANGED vars \/ \E i \in Instance : GameEnds(i) \/ GameRuns(i)
  <2>1. UNCHANGED <<job, slot, harm>>
    BY <1>6 DEF GameEnds, GameRuns
  <2> QED
    BY <1>t, <2>1 DEF SlotInv, SlotExcludes, SlotIsHeld, HasSlot
<1> QED
  BY <1>1, <1>2, <1>3, <1>4, <1>5, <1>6 DEF Next

\* A game's slot is one task's at a time, whatever is asked, fails, hangs up or
\* starts again, and it is lost only with a caller that hung up (install.rs,
\* exclusive): a delete, a use and a download never overlap.
THEOREM SlotIsExclusive == Spec => []SlotExcludes
<1>1. Init => SlotInv
  BY MovesInitType DEF Init, SlotInv, SlotExcludes, SlotIsHeld, HasSlot, Idle
<1>2. SlotInv => SlotExcludes
  BY DEF SlotInv
<1> QED
  BY <1>1, <1>2, SlotNext, PTL DEF Spec

=============================================================================
