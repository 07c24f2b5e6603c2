-------------------------- MODULE NodeAgentProofs --------------------------
(***************************************************************************)
(* Theorems of NodeAgent, for every set of servers, ports and tasks and    *)
(* every limit.                                                            *)
(***************************************************************************)
EXTENDS NodeAgent, FiniteSetTheorems, TLAPS

USE DEF Task, docker, boot, vars

-----------------------------------------------------------------------------
(* Type correctness.                                                       *)

\* A task that takes a list of servers along is still a task.
LEMMA JobWithList ==
  ASSUME NEW j \in Job, NEW s \in Step, NEW S \in SUBSET Instance
  PROVE  /\ [j EXCEPT !.at = s, !.todo = S] \in Job
         /\ [j EXCEPT !.at = s, !.todo = S].at = s
BY DEF Job

\* A listing's steps change its own record only.
LEMMA PollType ==
  ASSUME TypeOK, NEW p \in Poller, NEW r \in Job, r.at \in {"prune", "drop"},
         job' = [job EXCEPT ![p] = r], UNCHANGED <<docker, held, bridge, boot, drops>>
  PROVE  TypeOK'
<1>1. job \in [Task -> Job] /\ p \in Task
  BY DEF TypeOK
<1>2. job' \in [Task -> Job] /\ \A t \in Task : job'[t] = IF t = p THEN r ELSE job[t]
  BY <1>1
<1> QED
  BY <1>2 DEF TypeOK

LEMMA InitType == Init => TypeOK
BY CountsAssumption, NamesAssumption DEF Init, TypeOK, Job, Idle, Step

LEMMA NextType == TypeOK /\ [Next]_vars => TypeOK'
<1> SUFFICES ASSUME TypeOK, [Next]_vars PROVE TypeOK'
  OBVIOUS
<1> USE DEF TypeOK, Present, Running, Job, Idle, Step, Goto, Return, Begin
<1>1. ASSUME NEW c \in Client, Asks(c) PROVE TypeOK'
  <2> SUFFICES ASSUME NEW i \in Instance,
                      \/ CreateChecks(c, i) \/ Start(c, i) \/ Restart(c, i)
                      \/ Stop(c, i) \/ Remove(c, i)
               PROVE  TypeOK'
    BY <1>1 DEF Asks
  <2>1. CASE CreateChecks(c, i)
    BY <2>1 DEF CreateChecks
  <2>2. CASE Start(c, i)
    BY <2>2 DEF Start
  <2>3. CASE Restart(c, i)
    BY <2>3 DEF Restart
  <2>4. CASE Stop(c, i)
    BY <2>4 DEF Stop
  <2>5. CASE Remove(c, i)
    BY <2>5 DEF Remove
  <2> QED
    BY <2>1, <2>2, <2>3, <2>4, <2>5
<1>2. ASSUME NEW c \in Client, ClientStep(c) PROVE TypeOK'
  <2>1. CASE Acquire(c)
    BY <2>1 DEF Acquire
  <2>2. CASE MakeContainer(c)
    BY <2>2, NamesAssumption DEF MakeContainer
  <2>3. CASE StartContainer(c)
    BY <2>3 DEF StartContainer, Runs
  <2>4. CASE GiveBack(c)
    BY <2>4 DEF GiveBack
  <2>5. CASE DockerRemove(c)
    BY <2>5 DEF DockerRemove
  <2>6. CASE Release(c)
    BY <2>6 DEF Release
  <2> QED
    BY <1>2, <2>1, <2>2, <2>3, <2>4, <2>5, <2>6 DEF ClientStep
<1>3. ASSUME NEW c \in Client, CallerHangsUp(c) PROVE TypeOK'
  BY <1>3, CountsAssumption DEF CallerHangsUp
<1>4. ASSUME NEW t \in Client \cup Loop, SharedStep(t) PROVE TypeOK'
  <2>1. CASE LeaveMesh(t)
    BY <2>1 DEF LeaveMesh
  <2>2. CASE DockerRestart(t)
    BY <2>2 DEF DockerRestart, Runs
  <2>3. CASE DockerStop(t)
    BY <2>3 DEF DockerStop
  <2>4. CASE Address(t)
    BY <2>4 DEF Address
  <2>5. CASE OnMesh(t)
    BY <2>5 DEF OnMesh, Bridges
  <2> QED
    BY <1>4, <2>1, <2>2, <2>3, <2>4, <2>5 DEF SharedStep
<1>5. ASSUME NEW t \in Loop, NEW i \in Instance, LoopRestarts(t, i) PROVE TypeOK'
  BY <1>5 DEF LoopRestarts
<1>6. ASSUME NEW t \in Loop, NEW i \in Instance, LoopStops(t, i) PROVE TypeOK'
  BY <1>6 DEF LoopStops
<1>7. ASSUME NEW p \in Poller, PollStep(p) PROVE TypeOK'
  <2>1. CASE PollLists(p)
    <3>1. Running \in SUBSET Instance
      OBVIOUS
    <3>2. PICK r \in Job : r.at = "prune" /\ job' = [job EXCEPT ![p] = r]
      <4>1. job' = [job EXCEPT ![p] = [job[p] EXCEPT !.at = "prune", !.todo = Running]]
        BY <2>1 DEF PollLists
      <4>2. job[p] \in Job /\ "prune" \in Step
        OBVIOUS
      <4> HIDE DEF Running, Job, Step, TypeOK
      <4> QED
        BY <3>1, <4>1, <4>2, JobWithList
    <3>3. UNCHANGED <<docker, held, bridge, boot, drops>>
      BY <2>1 DEF PollLists
    <3> HIDE DEF Job, TypeOK
    <3> QED
      BY <3>2, <3>3, PollType
  <2>2. CASE PollPrunes(p)
    <3> DEFINE S == {i \in Instance \ job[p].todo : bridge[i] # None}
    <3>1. S \in SUBSET Instance
      OBVIOUS
    <3>2. PICK r \in Job : r.at = "drop" /\ job' = [job EXCEPT ![p] = r]
      <4>1. job' = [job EXCEPT ![p] = [job[p] EXCEPT !.at = "drop", !.todo = S]]
        BY <2>2 DEF PollPrunes
      <4>2. job[p] \in Job /\ "drop" \in Step
        OBVIOUS
      <4> HIDE DEF S, Job, Step, TypeOK
      <4> QED
        BY <3>1, <4>1, <4>2, JobWithList
    <3>3. UNCHANGED <<docker, held, bridge, boot, drops>>
      BY <2>2 DEF PollPrunes
    <3> HIDE DEF S, Job, TypeOK
    <3> QED
      BY <3>2, <3>3, PollType
  <2>3. CASE PollDrops(p)
    BY <2>3 DEF PollDrops
  <2> QED
    BY <1>7, <2>1, <2>2, <2>3 DEF PollStep
<1>8. ASSUME NEW i \in Instance, GameEnds(i) PROVE TypeOK'
  BY <1>8 DEF GameEnds
<1>9. CASE BootStep
  BY <1>9 DEF BootStep, RestoreBridge, Serve, Bridges
<1>10. CASE AgentRestarts
  <2>1. {port[i] : i \in Present} \in SUBSET Port
    BY NamesAssumption
  <2>2. Running \in SUBSET Instance
    OBVIOUS
  <2>3. /\ job' \in [Task -> Job]
        /\ \A t \in Task : job'[t].at = "idle"
    BY <1>10 DEF AgentRestarts
  <2>4. held' \in SUBSET Port /\ restoring' \in SUBSET Instance
    BY <1>10, <2>1, <2>2 DEF AgentRestarts
  <2>5. UNCHANGED <<state, port>> /\ booted' \in BOOLEAN
    BY <1>10 DEF AgentRestarts
  <2>6. bridge' \in [Instance -> Port \cup {None}]
    BY <1>10 DEF AgentRestarts
  <2>7. drops' \in 0..MaxDrops
    <3>1. drops' = 0
      BY <1>10 DEF AgentRestarts
    <3> QED
      BY <3>1, CountsAssumption
  <2> QED
    BY <2>3, <2>4, <2>5, <2>6, <2>7
<1>11. CASE UNCHANGED vars
  BY <1>11
<1> QED
  BY <1>1, <1>2, <1>3, <1>4, <1>5, <1>6, <1>7, <1>8, <1>9, <1>10, <1>11 DEF Next

\* Every variable keeps its type whatever the tasks, Docker and the games do.
THEOREM TypeCorrect == Spec => []TypeOK
BY InitType, NextType, PTL DEF Spec

-----------------------------------------------------------------------------
(* One owner for each port.  PortSingleOwner is not inductive: it says      *)
(* nothing of the requests that hold a port with no container behind it, so *)
(* the invariant follows a port through the request that takes it (until a  *)
(* container carries it) and the one that gives it back (from the moment no *)
(* container does).                                                         *)

\* A port some request, and no container, answers for.
Claims(c, p) == job[c].at \in {"make", "giveBack", "release"} /\ job[c].prt = p

Claimed == \A c \in Client, p \in Port :
             Claims(c, p) => /\ p \in held
                             /\ \A i \in Present : port[i] # p
                             /\ \A d \in Client \ {c} : ~Claims(d, p)

\* What each request remembers of its own server's port.
Remembered == \A c \in Client :
  /\ job[c].at = "start" => /\ job[c].srv \in Present
                            /\ job[c].prt = port[job[c].srv]
  /\ (job[c].at \in {"leaveMesh", "halt"} /\ job[c].op \notin {"restart", "stop"})
        => job[c].prt = port[job[c].srv]
  /\ job[c].at = "halt" => job[c].op # "restart"
  /\ job[c].at = "remove" => job[c].prt = port[job[c].srv]

\* One request for each server.
OneEach == \A c \in Client : \A d \in Client \ {c} :
             job[c].srv = None \/ job[c].srv # job[d].srv

OwnerInv == TypeOK /\ PortSingleOwner /\ Claimed /\ Remembered /\ OneEach

LEMMA InitOwner == Init => OwnerInv
<1> SUFFICES ASSUME Init PROVE OwnerInv
  OBVIOUS
<1>1. TypeOK
  BY InitType
<1> QED
  BY <1>1 DEF Init, OwnerInv, PortSingleOwner, PortsDistinct, Claimed, Claims,
              Remembered, OneEach, Present, Idle

LEMMA NextOwner == Faults = {} /\ OwnerInv /\ [Next]_vars => OwnerInv'
<1> SUFFICES ASSUME Faults = {}, OwnerInv, [Next]_vars PROVE OwnerInv'
  OBVIOUS
<1>0. TypeOK /\ TypeOK'
  BY NextType DEF OwnerInv
<1> DEFINE Goal == (PortSingleOwner /\ Claimed /\ Remembered /\ OneEach)'
<1> SUFFICES Goal
  BY <1>0 DEF OwnerInv
<1> USE <1>0, NamesAssumption DEF Present, Running, Goto, Return, Begin, Quiet
<1> USE DEF OwnerInv, PortSingleOwner, PortsDistinct, Claimed, Claims, Remembered, OneEach, Idle, TypeOK, Job, Step
<1>1. ASSUME NEW c \in Client, Asks(c) PROVE Goal
  <2> SUFFICES ASSUME NEW i \in Instance,
                      \/ CreateChecks(c, i) \/ Start(c, i) \/ Restart(c, i)
                      \/ Stop(c, i) \/ Remove(c, i)
               PROVE  Goal
    BY <1>1 DEF Asks
  <2>1. CASE CreateChecks(c, i)
    BY <2>1 DEF CreateChecks
  <2>2. CASE Start(c, i)
    BY <2>2 DEF Start
  <2>3. CASE Restart(c, i)
    BY <2>3 DEF Restart
  <2>4. CASE Stop(c, i)
    BY <2>4 DEF Stop
  <2>5. CASE Remove(c, i)
    BY <2>5 DEF Remove
  <2> QED
    BY <2>1, <2>2, <2>3, <2>4, <2>5
<1>2. ASSUME NEW c \in Client, ClientStep(c) PROVE Goal
  <2>1. CASE Acquire(c)
    BY <2>1 DEF Acquire
  <2>2. CASE MakeContainer(c)
    BY <2>2 DEF MakeContainer
  <2>3. CASE StartContainer(c)
    BY <2>3 DEF StartContainer, Runs, BindConflict
  <2>4. CASE GiveBack(c)
    BY <2>4 DEF GiveBack
  <2>5. CASE DockerRemove(c)
    BY <2>5 DEF DockerRemove
  <2>6. CASE Release(c)
    BY <2>6 DEF Release
  <2> QED
    BY <1>2, <2>1, <2>2, <2>3, <2>4, <2>5, <2>6 DEF ClientStep
<1>3. ASSUME NEW c \in Client, CallerHangsUp(c) PROVE Goal
  BY <1>3 DEF CallerHangsUp
<1>4. ASSUME NEW t \in Client \cup Loop, SharedStep(t) PROVE Goal
  <2>1. CASE LeaveMesh(t)
    BY <2>1 DEF LeaveMesh
  <2>2. CASE DockerRestart(t)
    BY <2>2 DEF DockerRestart, Runs
  <2>3. CASE DockerStop(t)
    BY <2>3 DEF DockerStop
  <2>4. CASE Address(t)
    BY <2>4 DEF Address
  <2>5. CASE OnMesh(t)
    BY <2>5 DEF OnMesh, Bridges
  <2> QED
    BY <1>4, <2>1, <2>2, <2>3, <2>4, <2>5 DEF SharedStep
<1>5. ASSUME NEW t \in Loop, NEW i \in Instance, LoopRestarts(t, i) PROVE Goal
  BY <1>5, TasksAssumption DEF LoopRestarts
<1>6. ASSUME NEW t \in Loop, NEW i \in Instance, LoopStops(t, i) PROVE Goal
  BY <1>6, TasksAssumption DEF LoopStops
<1>7. ASSUME NEW p \in Poller, PollStep(p) PROVE Goal
  BY <1>7, TasksAssumption DEF PollStep, PollLists, PollPrunes, PollDrops
<1>8. ASSUME NEW i \in Instance, GameEnds(i) PROVE Goal
  BY <1>8 DEF GameEnds
<1>9. CASE BootStep
  BY <1>9 DEF BootStep, RestoreBridge, Serve, Bridges
<1>10. CASE AgentRestarts
  BY <1>10 DEF AgentRestarts
<1>11. CASE UNCHANGED vars
  BY <1>11
<1> QED
  BY <1>1, <1>2, <1>3, <1>4, <1>5, <1>6, <1>7, <1>8, <1>9, <1>10, <1>11 DEF Next

\* With quiet servers and a Docker that starts what it makes, no port is ever
\* two servers', or free while a server has it: whatever crashes, hang-ups,
\* restarts of the agent, races of the loops and failed creates happen.
THEOREM SingleOwner == Faults = {} => (Spec => []PortSingleOwner)
<1> SUFFICES ASSUME Faults = {} PROVE Spec => []PortSingleOwner
  OBVIOUS
<1>1. Init => OwnerInv
  BY InitOwner
<1>2. OwnerInv /\ [Next]_vars => OwnerInv'
  BY NextOwner
<1>3. OwnerInv => PortSingleOwner
  BY DEF OwnerInv
<1> QED
  BY <1>1, <1>2, <1>3, PTL DEF Spec

-----------------------------------------------------------------------------
(* The limit.  A request that has passed the checks of create_on and made   *)
(* no container yet is a server to be: it counts beside those that are.     *)

Pending == {c \in Client : job[c].at \in {"plan", "make"}}

LimitInv ==
  /\ TypeOK
  /\ Cardinality(Present) + Cardinality(Pending) <= MaxInstances - 1 + Cardinality(Client)

\* Servers and requests are finitely many, in every state.
LEMMA Counted ==
  /\ IsFiniteSet(Present) /\ Cardinality(Present) \in Nat
  /\ IsFiniteSet(Pending) /\ Cardinality(Pending) \in Nat
  /\ IsFiniteSet(Client) /\ Cardinality(Client) \in Nat \ {0}
  /\ Cardinality(Pending) <= Cardinality(Client)
<1>1. Present \subseteq Instance /\ Pending \subseteq Client
  BY DEF Present, Pending
<1>2. Cardinality(Client) # 0
  BY TasksAssumption, FS_EmptySet
<1> QED
  BY <1>1, <1>2, TasksAssumption, FS_Subset, FS_CardinalityType

LEMMA InitLimit == Init => LimitInv
<1> SUFFICES ASSUME Init PROVE LimitInv
  OBVIOUS
<1>1. TypeOK
  BY InitType
<1>2. Present = {} /\ Pending = {}
  BY DEF Init, Present, Pending, Idle
<1>3. Cardinality({}) = 0
  BY FS_EmptySet
<1>4. Cardinality(Present) + Cardinality(Pending) <= MaxInstances - 1 + Cardinality(Client)
  BY <1>2, <1>3, Counted, CountsAssumption
<1> QED
  BY <1>1, <1>4 DEF LimitInv

\* A step that adds neither a server nor a request on its way to one.
LEMMA NoneAdded ==
  ASSUME LimitInv, TypeOK', Present' \subseteq Present, Pending' \subseteq Pending
  PROVE  LimitInv'
<1>1. Cardinality(Present') <= Cardinality(Present) /\ Cardinality(Present') \in Nat
  BY Counted, FS_Subset, FS_CardinalityType
<1>2. Cardinality(Pending') <= Cardinality(Pending) /\ Cardinality(Pending') \in Nat
  BY Counted, FS_Subset, FS_CardinalityType
<1>3. Cardinality(Present') + Cardinality(Pending') <= MaxInstances - 1 + Cardinality(Client)
  BY <1>1, <1>2, Counted, CountsAssumption DEF LimitInv
<1> QED
  BY <1>3 DEF LimitInv

LEMMA NextLimit == LimitInv /\ [Next]_vars => LimitInv'
<1> SUFFICES ASSUME LimitInv, [Next]_vars PROVE LimitInv'
  OBVIOUS
<1>0. TypeOK /\ TypeOK'
  BY NextType DEF LimitInv
<1> DEFINE Still == Present' \subseteq Present /\ Pending' \subseteq Pending
<1>s. ASSUME Still PROVE LimitInv'
  BY <1>0, <1>s, NoneAdded
<1> USE <1>0 DEF TypeOK, Job, Step, Goto, Return, Begin, Idle
<1>1. ASSUME NEW c \in Client, NEW i \in Instance, CreateChecks(c, i) PROVE LimitInv'
  <2>1. Present' = Present /\ Cardinality(Present) < MaxInstances
    BY <1>1 DEF CreateChecks, Present
  <2>2. Cardinality(Pending') <= Cardinality(Client) /\ Cardinality(Pending') \in Nat
    <3>1. Pending' \subseteq Client
      BY DEF Pending
    <3> HIDE DEF Job, Step, TypeOK
    <3> QED
      BY <3>1, TasksAssumption, FS_Subset, FS_CardinalityType
  <2>3. Cardinality(Present') + Cardinality(Pending') <= MaxInstances - 1 + Cardinality(Client)
    <3> HIDE <1>0
    <3> QED
      BY <2>1, <2>2, Counted, CountsAssumption
  <2> QED
    BY <1>0, <2>3 DEF LimitInv
<1>2. ASSUME NEW c \in Client, MakeContainer(c) PROVE LimitInv'
  <2>1. CASE job[c].srv \notin Present /\ state' = [state EXCEPT ![job[c].srv] = "stopped"]
    <3>1. Present' = Present \cup {job[c].srv}
      BY <1>2, <2>1 DEF Present, MakeContainer
    <3>2. c \in Pending /\ Pending' = Pending \ {c}
      BY <1>2 DEF MakeContainer, Pending
    <3> HIDE <1>0 DEF Job, Step, TypeOK
    <3>3. Cardinality(Present') = Cardinality(Present) + 1
      BY <2>1, <3>1, Counted, FS_AddElement
    <3>4. Cardinality(Pending') = Cardinality(Pending) - 1
      BY <3>2, Counted, FS_RemoveElement
    <3> QED
      BY <1>0, <3>3, <3>4, Counted, CountsAssumption DEF LimitInv
  <2>2. CASE state' = state
    <3>1. Still
      BY <1>2, <2>2 DEF MakeContainer, Present, Pending
    <3> QED
      BY <3>1, <1>s
  <2> QED
    BY <1>2, <2>1, <2>2 DEF MakeContainer, docker
<1>3. ASSUME NEW c \in Client, NEW i \in Instance,
             Start(c, i) \/ Restart(c, i) \/ Stop(c, i) \/ Remove(c, i)
      PROVE  LimitInv'
  <2>1. Present' = Present
    BY <1>3 DEF Start, Restart, Stop, Remove, Present
  <2>2. PICK o, p : Begin(c, o, i, "leaveMesh", p)
    <3> HIDE DEF Begin, TypeOK, Job, Step
    <3> QED
      BY <1>3 DEF Start, Restart, Stop, Remove
  <2>3. Pending' \subseteq Pending
    BY <2>2 DEF Pending
  <2> QED
    BY <2>1, <2>3, <1>s
<1>4. ASSUME NEW c \in Client,
             Acquire(c) \/ StartContainer(c) \/ GiveBack(c) \/ DockerRemove(c) \/ Release(c)
      PROVE  LimitInv'
  BY <1>4, <1>s DEF Acquire, StartContainer, Runs, GiveBack, DockerRemove, Release, Present, Pending
<1>5. ASSUME NEW c \in Client, CallerHangsUp(c) PROVE LimitInv'
  BY <1>5, <1>s DEF CallerHangsUp, Present, Pending
<1>6. ASSUME NEW t \in Client \cup Loop, SharedStep(t) PROVE LimitInv'
  BY <1>6, <1>s DEF SharedStep, LeaveMesh, DockerRestart, Runs, DockerStop, Address, OnMesh,
                    Present, Pending
<1>7. ASSUME NEW t \in Loop, NEW i \in Instance, LoopRestarts(t, i) \/ LoopStops(t, i)
      PROVE  LimitInv'
  <2>1. Present' = Present
    BY <1>7 DEF LoopRestarts, LoopStops, Present
  <2>2. PICK o : Begin(t, o, i, "leaveMesh", None)
    <3> HIDE DEF Begin, TypeOK, Job, Step
    <3> QED
      BY <1>7 DEF LoopRestarts, LoopStops
  <2>3. Pending' \subseteq Pending
    BY <2>2 DEF Pending
  <2> QED
    BY <2>1, <2>3, <1>s
<1>8. ASSUME NEW p \in Poller, PollStep(p) PROVE LimitInv'
  BY <1>8, <1>s, TasksAssumption DEF PollStep, PollLists, PollPrunes, PollDrops, Present, Pending
<1>9. ASSUME NEW i \in Instance, GameEnds(i) PROVE LimitInv'
  BY <1>9, <1>s DEF GameEnds, Present, Running, Pending
<1>10. CASE BootStep
  BY <1>10, <1>s DEF BootStep, Serve, RestoreBridge, Present, Pending
<1>11. CASE AgentRestarts
  BY <1>11, <1>s DEF AgentRestarts, Present, Pending
<1>12. CASE UNCHANGED vars
  BY <1>12, <1>s DEF Present, Pending
<1> QED
  BY <1>1, <1>2, <1>3, <1>4, <1>5, <1>6, <1>7, <1>8, <1>9, <1>10, <1>11, <1>12
     DEF Next, Asks, ClientStep

\* However many requests race past the check of max_instances, in whatever
\* order they make, lose and remove their servers, the node never has more
\* than one server over the limit for each further request in flight.
THEOREM LimitHolds == Spec => []LimitOvershoot
<1>1. Init => LimitInv
  BY InitLimit
<1>2. LimitInv /\ [Next]_vars => LimitInv'
  BY NextLimit
<1>3. LimitInv => LimitOvershoot
  BY Counted, CountsAssumption DEF LimitInv, LimitOvershoot
<1> QED
  BY <1>1, <1>2, <1>3, PTL DEF Spec


-----------------------------------------------------------------------------
(* Leaks.  With one owner for each port, a port loses its last owner only  *)
(* where a caller hangs up: every other step that takes an owner away      *)
(* releases the port, or leaves it with a container or with a request.     *)

LeakInv == OwnerInv /\ IsFiniteSet(Leaked) /\ Cardinality(Leaked) <= drops

LEMMA InitLeak == Init => LeakInv
<1> SUFFICES ASSUME Init PROVE LeakInv
  OBVIOUS
<1>1. OwnerInv
  BY InitOwner
<1>2. Leaked = {} /\ drops = 0
  BY DEF Init, Leaked
<1> QED
  BY <1>1, <1>2, FS_EmptySet DEF LeakInv

\* A step that takes no port's last owner away.
LEMMA NoLeak ==
  ASSUME LeakInv, OwnerInv', Leaked' \subseteq Leaked, drops' = drops
  PROVE  LeakInv'
<1>1. IsFiniteSet(Leaked') /\ Cardinality(Leaked') <= Cardinality(Leaked)
  BY FS_Subset DEF LeakInv
<1>2. Cardinality(Leaked) \in Nat /\ Cardinality(Leaked') \in Nat /\ drops \in Nat
  BY <1>1, FS_CardinalityType, CountsAssumption DEF LeakInv, OwnerInv, TypeOK
<1> QED
  BY <1>1, <1>2 DEF LeakInv

LEMMA NextLeak == Faults = {} /\ LeakInv /\ [Next]_vars => LeakInv'
<1> SUFFICES ASSUME Faults = {}, LeakInv, [Next]_vars PROVE LeakInv'
  OBVIOUS
<1>0. OwnerInv /\ OwnerInv' /\ TypeOK
  BY NextOwner DEF LeakInv, OwnerInv
<1> DEFINE Fine == Leaked' \subseteq Leaked /\ drops' = drops
<1>s. ASSUME Fine PROVE LeakInv'
  BY <1>0, <1>s, NoLeak
<1>r. Remembered
  BY <1>0 DEF OwnerInv
<1> USE <1>0 DEF Present, Goto, Return, Idle, TypeOK, Job, Step
<1>1. ASSUME NEW c \in Client, NEW o, NEW i \in Instance, NEW s \in {"plan", "leaveMesh"}, NEW p,
             Begin(c, o, i, s, p), UNCHANGED <<docker, held, bridge, boot, drops>>
      PROVE  LeakInv'
  <2>1. InFlight' = InFlight
    BY <1>1 DEF InFlight, Begin
  <2> QED
    BY <1>1, <2>1, <1>s DEF Leaked
<1>2. ASSUME NEW c \in Client, Asks(c) PROVE LeakInv'
  <2> HIDE <1>0 DEF Present, Goto, Return, Idle, TypeOK, Job, Step
  <2> QED
    BY <1>1, <1>2 DEF Asks, CreateChecks, Start, Restart, Stop, Remove
<1>3. ASSUME NEW c \in Client, ClientStep(c) PROVE LeakInv'
  <2>1. CASE Acquire(c)
    BY <2>1, <1>s, NamesAssumption DEF Acquire, Leaked, InFlight
  <2>2. CASE MakeContainer(c)
    BY <2>2, <1>s, NamesAssumption DEF MakeContainer, Leaked, InFlight
  <2>3. CASE StartContainer(c)
    BY <2>3, <1>s, <1>r DEF StartContainer, Runs, Leaked, InFlight, Remembered
  <2>4. CASE GiveBack(c)
    BY <2>4, <1>s DEF GiveBack, Leaked, InFlight
  <2>5. CASE DockerRemove(c)
    BY <2>5, <1>s, <1>r DEF DockerRemove, Leaked, InFlight, Remembered
  <2>6. CASE Release(c)
    BY <2>6, <1>s DEF Release, Leaked, InFlight
  <2> QED
    BY <1>3, <2>1, <2>2, <2>3, <2>4, <2>5, <2>6 DEF ClientStep
<1>4. ASSUME NEW c \in Client, CallerHangsUp(c) PROVE LeakInv'
  <2>1. Leaked' \subseteq Leaked \cup {job[c].prt} /\ drops' = drops + 1 /\ drops \in Nat
    BY <1>4, CountsAssumption DEF CallerHangsUp, Leaked, InFlight
  <2> HIDE <1>0 DEF Present, Goto, Return, Idle, TypeOK, Job, Step
  <2>2. /\ IsFiniteSet(Leaked \cup {job[c].prt})
        /\ Cardinality(Leaked \cup {job[c].prt}) <= Cardinality(Leaked) + 1
        /\ Cardinality(Leaked) \in Nat /\ Cardinality(Leaked \cup {job[c].prt}) \in Nat
    BY FS_AddElement, FS_CardinalityType DEF LeakInv
  <2>3. /\ IsFiniteSet(Leaked') /\ Cardinality(Leaked') \in Nat
        /\ Cardinality(Leaked') <= Cardinality(Leaked \cup {job[c].prt})
    BY <2>1, <2>2, FS_Subset, FS_CardinalityType
  <2>4. Cardinality(Leaked') <= drops'
    BY <2>1, <2>2, <2>3 DEF LeakInv
  <2> QED
    BY <1>0, <2>3, <2>4 DEF LeakInv
<1>5. ASSUME NEW t \in Client \cup Loop, SharedStep(t) PROVE LeakInv'
  BY <1>5, <1>s DEF SharedStep, LeaveMesh, DockerRestart, Runs, DockerStop, Address, OnMesh, Leaked, InFlight
<1>6. ASSUME NEW t \in Loop, NEW i \in Instance, LoopRestarts(t, i) \/ LoopStops(t, i) PROVE LeakInv'
  BY <1>6, <1>s, TasksAssumption DEF LoopRestarts, LoopStops, Begin, Leaked, InFlight
<1>7. ASSUME NEW p \in Poller, PollStep(p) PROVE LeakInv'
  BY <1>7, <1>s, TasksAssumption DEF PollStep, PollLists, PollPrunes, PollDrops, Leaked, InFlight
<1>8. ASSUME NEW i \in Instance, GameEnds(i) PROVE LeakInv'
  BY <1>8, <1>s DEF GameEnds, Running, Leaked, InFlight
<1>9. CASE BootStep
  BY <1>9, <1>s DEF BootStep, RestoreBridge, Serve, Leaked, InFlight
<1>10. CASE AgentRestarts
  <2>1. Leaked' = {} /\ drops' = 0
    BY <1>10 DEF AgentRestarts, Leaked
  <2> HIDE <1>0 DEF Present, Goto, Return, Idle, TypeOK, Job, Step
  <2> QED
    BY <1>0, <2>1, FS_EmptySet DEF LeakInv
<1>11. CASE UNCHANGED vars
  BY <1>11, <1>s DEF Leaked, InFlight
<1> QED
  BY <1>2, <1>3, <1>4, <1>5, <1>6, <1>7, <1>8, <1>9, <1>10, <1>11 DEF Next

\* With quiet servers and a Docker that starts what it makes, a port is held for
\* nobody only because a caller hung up, and then one for each hang-up: failed
\* creates, races, removes and restarts of the agent leak none.
THEOREM LeaksBounded == Faults = {} => (Spec => []LeakBound)
<1> SUFFICES ASSUME Faults = {} PROVE Spec => []LeakBound
  OBVIOUS
<1>1. Init => LeakInv
  BY InitLeak
<1>2. LeakInv /\ [Next]_vars => LeakInv'
  BY NextLeak
<1>3. LeakInv => LeakBound
  BY DEF LeakInv, LeakBound
<1> QED
  BY <1>1, <1>2, <1>3, PTL DEF Spec
=============================================================================
