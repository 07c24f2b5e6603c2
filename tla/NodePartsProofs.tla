-------------------------- MODULE NodePartsProofs ---------------------------
(***************************************************************************)
(* Theorems about the smaller parts of a node's agent: the crash watch,    *)
(* for every set of servers and requests, every limit and any number of    *)
(* restarts of the agent; the port allocator, for any range and number of  *)
(* channels; and downloads, for any set of games and any number of tries,  *)
(* cancels and full disks.  The three share no state and no lemma.  At the *)
(* end, the parts composed: a behaviour of all of them is one of each, so  *)
(* what is proved of a part alone holds of it beside the others.           *)
(*                                                                         *)
(* Downloads: a cancel that was answered has stopped the tool, a cancelled *)
(* download installs nothing, and none leaves anything behind.  The        *)
(* argument is one download's, game by game: its container is there only   *)
(* at the steps that know of it, and whoever has been answered has set the *)
(* flag before, which every later step looks at.  Slots and permit are a   *)
(* DownloadQueue, because a slot says where its download stands.           *)
(***************************************************************************)
EXTENDS MCParts, Installs, HostingProofs, RoomProofs, FiniteSetTheorems, TLAPS

USE DEF Task, docker, memory, vars

-----------------------------------------------------------------------------
(* Type correctness.                                                       *)

LEMMA WatchInitType == Init => TypeOK
<1> SUFFICES ASSUME Init PROVE TypeOK
  OBVIOUS
<1> USE DEF Init, TypeOK, Idle, Exits, Codes
<1>1. restarts \in [ServerId -> 0..MaxRestarts] /\ boots \in 0..MaxBoots
  BY BoundsAssumption
<1> QED
  BY <1>1

WatchType ==
  [at : {"idle", "listed", "look", "act"},
   todo : SUBSET ServerId, due : SUBSET ServerId, failed : SUBSET ServerId]

\* A restart that fails leaves its task idle and the watch's lists alone.
LEMMA FailsOnly ==
  ASSUME TypeOK, NEW t \in Task, RestartFails(t), job[t].at # "idle"
  PROVE  /\ job' = [job EXCEPT ![t] = Idle] /\ watch' \in WatchType
         /\ watch'.at = watch.at /\ watch'.todo = watch.todo /\ watch'.due = watch.due
<1>1. watch \in WatchType
  BY DEF TypeOK, WatchType
<1>2. job[t].srv \in ServerId
  BY DEF TypeOK
<1>3. job' = [job EXCEPT ![t] = Idle]
  BY DEF RestartFails, Return
<1>4. CASE watch' = watch
  BY <1>1, <1>3, <1>4
<1>5. CASE watch' = [watch EXCEPT !.failed = @ \cup {job[t].srv}]
  <2>1. watch.failed \cup {job[t].srv} \in SUBSET ServerId
    BY <1>1, <1>2 DEF WatchType
  <2>2. watch' \in WatchType
    BY <1>1, <1>5, <2>1 DEF WatchType
  <2>3. watch'.at = watch.at /\ watch'.todo = watch.todo /\ watch'.due = watch.due
    BY <1>1, <1>5 DEF WatchType
  <2> QED
    BY <1>3, <2>2, <2>3
<1> QED
  BY <1>4, <1>5 DEF RestartFails

LEMMA WatchNextType == TypeOK /\ [Next]_vars => TypeOK'
<1> SUFFICES ASSUME TypeOK, [Next]_vars PROVE TypeOK'
  OBVIOUS
<1> USE BoundsAssumption DEF TypeOK, Idle, Exits, Codes, Goto, Return, Begin, Ends, NothingEnds
<1>1. ASSUME NEW c \in Client, ClientStep(c) PROVE TypeOK'
  <2>1. ASSUME NEW i \in ServerId, Asks(c, i) PROVE TypeOK'
    BY <2>1 DEF Asks
  <2>2. ASSUME NEW i \in ServerId, CreateContainer(c, i) PROVE TypeOK'
    BY <2>2 DEF CreateContainer
  <2>3. ASSUME NEW i \in ServerId, NEW b \in BOOLEAN, SetMarker(c, i, b) PROVE TypeOK'
    BY <2>3 DEF SetMarker
  <2>4. CASE DockerStop(c)
    <3>1. CASE state[job[c].srv] = "running"
      BY <2>4, <3>1 DEF DockerStop
    <3>2. CASE state[job[c].srv] # "running"
      BY <2>4, <3>2 DEF DockerStop
    <3> QED
      BY <3>1, <3>2
  <2>5. CASE Mark(c)
    BY <2>5 DEF Mark
  <2>6. CASE Keep(c)
    BY <2>6 DEF Keep, Present
  <2>7. CASE DockerRemove(c)
    BY <2>7 DEF DockerRemove
  <2>8. CASE CallerHangsUp(c)
    BY <2>8 DEF CallerHangsUp
  <2> QED
    BY <1>1, <2>1, <2>2, <2>3, <2>4, <2>5, <2>6, <2>7, <2>8 DEF ClientStep
<1>2. ASSUME NEW t \in Task, RestartStep(t) PROVE TypeOK'
  <2>1. CASE RestartEnds(t)
    <3>1. CASE RestartFails(t)
      <4>1. job' = [job EXCEPT ![t] = Idle] /\ watch' \in WatchType
        BY <1>2, <2>1, <3>1, FailsOnly DEF RestartEnds
      <4> QED
        BY <2>1, <4>1 DEF RestartEnds, WatchType
    <3>2. CASE watch' = watch
      BY <2>1, <3>2 DEF RestartEnds, RestartFails
    <3> QED
      BY <2>1, <3>1, <3>2 DEF RestartEnds
  <2>2. CASE ComesUp(t)
    <3>1. CASE RestartFails(t) /\ UNCHANGED state
      <4>1. job' = [job EXCEPT ![t] = Idle] /\ watch' \in WatchType
        BY <1>2, <2>2, <3>1, FailsOnly DEF ComesUp
      <4> QED
        BY <2>2, <3>1, <4>1 DEF ComesUp, WatchType
    <3>2. CASE state' = [state EXCEPT ![job[t].srv] = "running"] /\ Goto(t, "unmark") /\ UNCHANGED watch
      BY <2>2, <3>2 DEF ComesUp
    <3> QED
      BY <2>2, <3>1, <3>2 DEF ComesUp
  <2>3. CASE Unmark(t)
    BY <2>3 DEF Unmark
  <2> QED
    BY <1>2, <2>1, <2>2, <2>3 DEF RestartStep
<1>3. CASE WatchStep
  <2>1. CASE WatchLists
    BY <2>1 DEF WatchLists, Stopped
  <2>2. CASE WatchLocks \/ WatchUnlocks \/ WatchSleeps
    BY <2>2 DEF WatchLocks, WatchUnlocks, WatchSleeps
  <2>3. ASSUME NEW i \in ServerId, WatchSkips(i) PROVE TypeOK'
    BY <2>3 DEF WatchSkips
  <2>4. ASSUME NEW i \in ServerId, WatchLooks(i) PROVE TypeOK'
    <3>1. PICK due \in BOOLEAN :
            /\ watch' = [watch EXCEPT !.todo = @ \ {i}, !.due = IF due THEN @ \cup {i} ELSE @]
            /\ restarts' = IF due THEN [restarts EXCEPT ![i] = @ + 1] ELSE restarts
            /\ due => restarts[i] < MaxRestarts
      BY <2>4 DEF WatchLooks, Looks
    <3>2. restarts' \in [ServerId -> 0..MaxRestarts]
      BY <3>1
    <3>3. watch' \in [at : {"idle", "listed", "look", "act"},
                      todo : SUBSET ServerId, due : SUBSET ServerId, failed : SUBSET ServerId]
      BY <3>1
    <3> QED
      BY <2>4, <3>2, <3>3 DEF WatchLooks, Looks
  <2>5. ASSUME NEW i \in ServerId, WatchActs(i) PROVE TypeOK'
    BY <2>5 DEF WatchActs
  <2> QED
    BY <1>3, <2>1, <2>2, <2>3, <2>4, <2>5 DEF WatchStep
<1>4. ASSUME NEW i \in ServerId, GameEnds(i) PROVE TypeOK'
  BY <1>4 DEF GameEnds
<1>5. ASSUME NEW i \in ServerId, HourPasses(i) PROVE TypeOK'
  BY <1>5 DEF HourPasses
<1>6. CASE AgentRestarts
  <2>1. restarts' \in [ServerId -> 0..MaxRestarts] /\ boots' \in 0..MaxBoots
    BY <1>6 DEF AgentRestarts
  <2>2. /\ watch' \in [at : {"idle", "listed", "look", "act"},
                       todo : SUBSET ServerId, due : SUBSET ServerId, failed : SUBSET ServerId]
        /\ passed' \in SUBSET ServerId
    BY <1>6 DEF AgentRestarts, Stopped
  <2> QED
    BY <1>6, <2>1, <2>2 DEF AgentRestarts
<1>7. CASE UNCHANGED vars
  BY <1>7
<1> QED
  BY <1>1, <1>2, <1>3, <1>4, <1>5, <1>6, <1>7 DEF Next

\* No count of restarts passes the limit, and every list names servers only.
THEOREM WatchTypeCorrect == Spec => []TypeOK
BY WatchInitType, WatchNextType, PTL DEF Spec

-----------------------------------------------------------------------------
(* No exit is answered twice.  An exit that has passed, of a server that is *)
(* still down, has been seen, or the first look of this agent is not over   *)
(* and has it on its list: so it never meets the watch unseen and seeded.   *)

Unseen(i) == state[i] = "stopped" /\ exit[i] # "never" /\ i \notin seen

FirstLook == \A i \in passed : Unseen(i) =>
  ~seeded /\ (watch.at \in {"listed", "look"} => i \in watch.todo)

FreshInv == TypeOK /\ FirstLook

LEMMA NextFresh == ~InspectFails /\ FreshInv /\ [Next]_vars => FreshInv'
<1> SUFFICES ASSUME ~InspectFails, FreshInv, [Next]_vars PROVE FirstLook'
  BY WatchNextType DEF FreshInv
<1> USE DEF FreshInv, FirstLook, Unseen, TypeOK
<1>1. ASSUME NEW c \in Client, ClientStep(c) PROVE FirstLook'
  BY <1>1 DEF ClientStep, Asks, CreateContainer, SetMarker, DockerStop, Mark, Keep, DockerRemove,
              CallerHangsUp, Ends, NothingEnds
<1>2. ASSUME NEW t \in Task, RestartStep(t) PROVE FirstLook'
  <2>1. watch'.at = watch.at /\ watch'.todo = watch.todo
    BY <1>2, FailsOnly DEF RestartStep, RestartEnds, ComesUp, Unmark
  <2> QED
    BY <1>2, <2>1 DEF RestartStep, RestartEnds, ComesUp, RestartFails, Unmark, Ends, NothingEnds
<1>3. CASE WatchStep
  <2>1. CASE WatchLists
    BY <2>1 DEF WatchLists, Stopped
  <2>2. CASE WatchLocks \/ WatchUnlocks \/ WatchSleeps
    BY <2>2 DEF WatchLocks, WatchUnlocks, WatchSleeps
  <2>3. ASSUME NEW i \in ServerId, WatchSkips(i) PROVE FirstLook'
    BY <2>3 DEF WatchSkips
  <2>4. ASSUME NEW i \in ServerId, WatchLooks(i) PROVE FirstLook'
    <3>1. watch'.at = watch.at /\ watch'.todo = watch.todo \ {i}
      BY <2>4 DEF WatchLooks, Looks
    <3> QED
      BY <2>4, <3>1 DEF WatchLooks, Looks
  <2>5. ASSUME NEW i \in ServerId, WatchActs(i) PROVE FirstLook'
    BY <2>5 DEF WatchActs
  <2> QED
    BY <1>3, <2>1, <2>2, <2>3, <2>4, <2>5 DEF WatchStep
<1>4. ASSUME NEW i \in ServerId, GameEnds(i) \/ HourPasses(i) PROVE FirstLook'
  BY <1>4 DEF GameEnds, Ends, HourPasses
<1>5. CASE AgentRestarts
  BY <1>5 DEF AgentRestarts
<1>6. CASE UNCHANGED vars
  BY <1>6
<1> QED
  BY <1>1, <1>2, <1>3, <1>4, <1>5, <1>6 DEF Next

\* What the watch decides to restart in one step is an exit it had not passed.
LEMMA DueIsFresh ==
  FreshInv /\ [Next]_vars => [\A i \in watch'.due \ watch.due : i \notin passed]_vars
<1> SUFFICES ASSUME FreshInv, Next, NEW i \in watch'.due \ watch.due PROVE i \notin passed
  OBVIOUS
<1> USE DEF FreshInv, TypeOK
<1>1. PICK j \in ServerId : WatchLooks(j)
  <2>1. ASSUME NEW c \in Client, ClientStep(c) PROVE FALSE
    BY <2>1 DEF ClientStep, Asks, CreateContainer, SetMarker, DockerStop, Mark, Keep, DockerRemove,
                CallerHangsUp
  <2>2. ASSUME NEW t \in Task, RestartStep(t) PROVE FALSE
    BY <2>2, FailsOnly DEF RestartStep, RestartEnds, ComesUp, Unmark
  <2>3. ASSUME NEW j \in ServerId, GameEnds(j) \/ HourPasses(j) PROVE FALSE
    BY <2>3 DEF GameEnds, HourPasses
  <2>4. ~AgentRestarts
    BY DEF AgentRestarts
  <2> QED
    BY <2>1, <2>2, <2>3, <2>4 DEF Next, WatchStep, WatchLists, WatchLocks, WatchUnlocks,
                                  WatchSleeps, WatchSkips, WatchActs
<1>2. i = j /\ seeded /\ Unseen(j)
  BY <1>1 DEF WatchLooks, Looks, Unseen
<1> QED
  BY <1>2 DEF FirstLook

\* An agent that Docker answers restarts no server for an exit from before it
\* ran, and none twice for one exit, whatever requests race with its looks.
THEOREM FreshExits == ~InspectFails => (Spec => FreshExitsOnly)
<1> SUFFICES ASSUME ~InspectFails PROVE Spec => FreshExitsOnly
  OBVIOUS
<1>1. Init => FreshInv
  BY WatchInitType DEF Init, FreshInv, FirstLook
<1>2. FreshInv /\ [Next]_vars => FreshInv'
  BY NextFresh
<1>3. FreshInv /\ [Next]_vars => [\A i \in watch'.due \ watch.due : i \notin passed]_vars
  BY DueIsFresh
<1> QED
  BY <1>1, <1>2, <1>3, PTL DEF Spec, FreshExitsOnly

-----------------------------------------------------------------------------
HIDE DEF Task, docker, memory, vars

(* Queues in which no port stands twice.                                   *)

Once(s) == \A j, k \in 1..Len(s) : s[j] = s[k] => j = k

\* What is left when the front is taken.
LEMMA TailOnce ==
  ASSUME NEW S, NEW s \in Seq(S), s # <<>>, Once(s)
  PROVE  /\ Head(s) \in S /\ Head(s) \in Elements(s)
         /\ Tail(s) \in Seq(S)
         /\ Once(Tail(s))
         /\ Elements(Tail(s)) = Elements(s) \ {Head(s)}
<1>1. Len(s) \in Nat \ {0} /\ Head(s) = s[1] /\ Head(s) \in S
  OBVIOUS
<1>2. Tail(s) \in Seq(S) /\ Len(Tail(s)) = Len(s) - 1
  OBVIOUS
<1>3. \A k \in 1..(Len(s) - 1) : Tail(s)[k] = s[k + 1]
  OBVIOUS
<1>4. Once(Tail(s))
  BY <1>1, <1>2, <1>3 DEF Once
<1>5. Elements(Tail(s)) \subseteq Elements(s) \ {Head(s)}
  BY <1>1, <1>2, <1>3 DEF Once, Elements
<1>6. ASSUME NEW p \in Elements(s) \ {Head(s)} PROVE p \in Elements(Tail(s))
  <2>1. PICK k \in 1..Len(s) : s[k] = p /\ k # 1
    BY <1>1 DEF Elements
  <2>2. k - 1 \in 1..Len(Tail(s)) /\ Tail(s)[k - 1] = p
    BY <2>1, <1>1, <1>2, <1>3
  <2> QED
    BY <2>2 DEF Elements
<1>7. Elements(Tail(s)) = Elements(s) \ {Head(s)}
  BY <1>5, <1>6
<1>8. Head(s) \in Elements(s)
  BY <1>1 DEF Elements
<1> QED
  BY <1>1, <1>2, <1>4, <1>7, <1>8

\* What is there when a new port joins at the back.
LEMMA AppendOnce ==
  ASSUME NEW S, NEW s \in Seq(S), NEW p \in S, Once(s), p \notin Elements(s)
  PROVE  /\ Append(s, p) \in Seq(S)
         /\ Len(Append(s, p)) = Len(s) + 1
         /\ Once(Append(s, p))
         /\ Elements(Append(s, p)) = Elements(s) \cup {p}
<1>1. /\ Append(s, p) \in Seq(S) /\ Len(Append(s, p)) = Len(s) + 1 /\ Len(s) \in Nat
      /\ Append(s, p)[Len(s) + 1] = p
      /\ \A k \in 1..Len(s) : Append(s, p)[k] = s[k]
  OBVIOUS
<1>2. Once(Append(s, p))
  BY <1>1 DEF Once, Elements
<1>3. Elements(Append(s, p)) = Elements(s) \cup {p}
  BY <1>1 DEF Elements
<1> QED
  BY <1>1, <1>2, <1>3

\* What is left when one port leaves from the middle.
LEMMA WithoutOnce ==
  ASSUME NEW S, NEW s \in Seq(S), NEW p, Once(s)
  PROVE  /\ Without(s, p) \in Seq(S)
         /\ Once(Without(s, p))
         /\ Elements(Without(s, p)) = Elements(s) \ {p}
<1>1. CASE p \notin Elements(s)
  BY <1>1 DEF Without
<1>2. CASE p \in Elements(s)
  <2> DEFINE at == CHOOSE k \in 1..Len(s) : s[k] = p
             t  == [k \in 1..(Len(s) - 1) |-> IF k < at THEN s[k] ELSE s[k + 1]]
  <2>1. at \in 1..Len(s) /\ s[at] = p
    BY <1>2 DEF Elements
  <2>2. Without(s, p) = t
    BY <1>2 DEF Without
  <2> HIDE DEF at
  <2>3. Len(s) \in Nat /\ Len(s) - 1 \in Nat /\ \A k \in 1..Len(s) : s[k] \in S
    BY <2>1
  <2>4. t \in Seq(S) /\ Len(t) = Len(s) - 1
    BY <2>1, <2>3
  <2>5. Once(t)
    BY <2>1, <2>3, <2>4 DEF Once
  <2>6. Elements(t) \subseteq Elements(s) \ {p}
    BY <2>1, <2>3, <2>4 DEF Elements, Once
  <2>7. ASSUME NEW q \in Elements(s) \ {p} PROVE q \in Elements(t)
    <3>1. PICK k \in 1..Len(s) : s[k] = q /\ k # at
      BY <2>1 DEF Elements
    <3>2. CASE k < at
      <4>1. k \in 1..Len(t) /\ t[k] = q
        BY <3>1, <3>2, <2>1, <2>3, <2>4
      <4> QED
        BY <4>1 DEF Elements
    <3>3. CASE k > at
      <4>1. k - 1 \in 1..Len(t) /\ t[k - 1] = q
        BY <3>1, <3>3, <2>1, <2>3, <2>4
      <4> QED
        BY <4>1 DEF Elements
    <3> QED
      BY <3>1, <3>2, <3>3, <2>1, <2>3
  <2> QED
    BY <2>2, <2>4, <2>5, <2>6, <2>7
<1> QED
  BY <1>1, <1>2

-----------------------------------------------------------------------------
(* The partition.  It is inductive with what a call remembers: the ports a  *)
(* set has so far, or has left to give back, are held and named once.       *)

CallHolds ==
  /\ op.at \in {"acquire", "undo"} => Elements(op.ports) \subseteq held /\ Once(op.ports)
  /\ op.at = "idle" => op.ports = <<>>

PoolInv == PortsTypeOK /\ Partition /\ CallHolds

LEMMA InitPool == PortsInit => PoolInv
<1> SUFFICES ASSUME PortsInit PROVE PoolInv
  OBVIOUS
<1> USE DEF PortsInit
<1>1. PICK n \in 0..Cardinality(InRange) : free \in [1..n -> InRange \ held]
  OBVIOUS
<1>2. Cardinality(InRange) \in Nat
  BY FS_Interval, FS_CardinalityType, RangeAssumption DEF InRange
<1>3. free \in Seq(InRange) /\ Len(free) = n
  BY <1>1, <1>2
<1>4. InRange \subseteq Int
  BY RangeAssumption DEF InRange
<1>5. Partition
  <2>1. \A k \in 1..Len(free) : free[k] \in Int
    <3>1. \A k \in 1..Len(free) : free[k] \in InRange
      BY <1>3
    <3> QED
      BY <3>1, <1>4
  <2>2. Len(free) \in Nat
    BY <1>3
  <2>3. ASSUME NEW j \in 1..Len(free), NEW k \in 1..Len(free), free[j] = free[k] PROVE j = k
    <3>1. ~(j < k) /\ ~(k < j)
      BY <2>1, <2>3
    <3> QED
      BY <3>1, <2>2
  <2> QED
    BY <2>3 DEF Partition
<1>6. PortsTypeOK
  BY <1>3 DEF PortsTypeOK, NoOp
<1>7. CallHolds
  BY DEF CallHolds, NoOp
<1> QED
  BY <1>5, <1>6, <1>7 DEF PoolInv

\* A slot that got a port nobody had.
LEMMA GotHolds ==
  ASSUME PoolInv, NEW p \in InRange \ held, Got(p), op.at = "acquire", op.slots # <<>>
  PROVE  /\ held' \in SUBSET AllPorts /\ ahead' \in [InRange -> SUBSET InRange]
         /\ op' \in [at : {"idle", "acquire", "undo", "release"},
                       slots : Seq(Slot), ports : Seq(AllPorts)]
         /\ CallHolds'
<1> USE DEF PoolInv, PortsTypeOK, AllPorts
<1>1. op.slots \in Seq(Slot) /\ Tail(op.slots) \in Seq(Slot)
  OBVIOUS
<1>2. p \notin Elements(op.ports) /\ op.ports \in Seq(AllPorts) /\ Once(op.ports)
  BY DEF CallHolds
<1>3. /\ Append(op.ports, p) \in Seq(AllPorts)
      /\ Once(Append(op.ports, p))
      /\ Elements(Append(op.ports, p)) = Elements(op.ports) \cup {p}
  BY <1>2, AppendOnce
<1>4. op'.at = "acquire" /\ op'.slots = Tail(op.slots) /\ op'.ports = Append(op.ports, p)
  BY DEF Got
<1>5. op' \in [at : {"idle", "acquire", "undo", "release"}, slots : Seq(Slot), ports : Seq(AllPorts)]
  BY <1>1, <1>3 DEF Got
<1>6. CallHolds'
  BY <1>3, <1>4 DEF CallHolds, Got
<1>7. ahead' \in [InRange -> SUBSET InRange]
  BY DEF Got, Handed
<1> QED
  BY <1>5, <1>6, <1>7 DEF Got

\* A call that changes what it does and what slots are left is still a call.
LEMMA CallType ==
  ASSUME NEW r \in [at : {"idle", "acquire", "undo", "release"}, slots : Seq(Slot), ports : Seq(AllPorts)],
         NEW a \in {"idle", "acquire", "undo", "release"}, NEW s \in Seq(Slot)
  PROVE  [r EXCEPT !.at = a, !.slots = s]
           \in [at : {"idle", "acquire", "undo", "release"}, slots : Seq(Slot), ports : Seq(AllPorts)]
OBVIOUS

LEMMA NextPool == PoolInv /\ [PortsNext]_portsVars => PoolInv'
<1> SUFFICES ASSUME PoolInv, [PortsNext]_portsVars PROVE PoolInv'
  OBVIOUS
<1>0. PortsTypeOK /\ Partition /\ CallHolds /\ Once(free)
  BY DEF PoolInv, Partition, Once
<1>1. ASSUME NEW wanted \in Lists(Slot, MaxSlots), Acquire(wanted) PROVE PoolInv'
  <2>1. wanted \in Seq(Slot)
    BY SlotsAssumption DEF Lists
  <2>2. /\ op'.at = "acquire" /\ op'.ports = <<>> /\ Elements(<<>>) = {} /\ Once(<<>>)
        /\ UNCHANGED <<free, held, ahead>>
    BY <1>1 DEF Acquire, Elements, Once
  <2> QED
    BY <1>0, <1>1, <2>1, <2>2 DEF PoolInv, PortsTypeOK, Partition, CallHolds, Acquire, Elements
<1>2. CASE Allocate
  <2>1. /\ Head(free) \in InRange /\ Head(free) \in Elements(free)
        /\ free' \in Seq(InRange) /\ Once(free') /\ Elements(free') = Elements(free) \ {Head(free)}
    BY <1>0, <1>2, TailOnce DEF PortsTypeOK, Allocate
  <2>2. Head(free) \in InRange \ held
    BY <1>0, <2>1 DEF Partition
  <2>3. held' = held \cup {Head(free)}
    BY <1>2 DEF Allocate, Got
  <2>4. Partition'
    BY <1>0, <2>1, <2>3 DEF Partition, Once
  <2>5. CallHolds' /\ PortsTypeOK'
    BY <1>2, <2>1, <2>2, GotHolds DEF Allocate, PortsTypeOK
  <2> QED
    BY <2>4, <2>5 DEF PoolInv
<1>3. CASE Reserve
  <2> DEFINE p == Head(op.slots)
  <2>1. /\ p \in InRange \ held
        /\ free' \in Seq(InRange) /\ Once(free') /\ Elements(free') = Elements(free) \ {p}
    BY <1>0, <1>3, WithoutOnce DEF PortsTypeOK, Reserve
  <2>2. held' = held \cup {p}
    BY <1>3 DEF Reserve, Got
  <2>3. Partition'
    BY <1>0, <2>1, <2>2 DEF Partition, Once
  <2>4. CallHolds' /\ PortsTypeOK'
    BY <1>3, <2>1, GotHolds DEF Reserve, PortsTypeOK
  <2> QED
    BY <2>3, <2>4 DEF PoolInv
<1>4. CASE Refuse
  <2>1. /\ op' = [op EXCEPT !.at = "undo", !.slots = <<>>] /\ op.at = "acquire"
        /\ UNCHANGED <<free, held, ahead>>
    BY <1>4 DEF Refuse
  <2>2. op' \in [at : {"idle", "acquire", "undo", "release"}, slots : Seq(Slot), ports : Seq(AllPorts)]
    <3>1. <<>> \in Seq(Slot)
      OBVIOUS
    <3> QED
      BY <1>0, <2>1, <3>1, CallType DEF PortsTypeOK
  <2>3. op'.at = "undo" /\ op'.ports = op.ports
    BY <1>0, <2>1 DEF PortsTypeOK
  <2>4. CallHolds'
    BY <1>0, <2>1, <2>3 DEF CallHolds, Elements, Once
  <2> QED
    BY <1>0, <2>1, <2>2, <2>4 DEF PoolInv, PortsTypeOK, Partition, Elements
<1>5. CASE Acquired \/ Given
  <2>1. op' = NoOp /\ UNCHANGED <<free, held, ahead>>
    BY <1>5 DEF Acquired, Given
  <2>2. op' \in [at : {"idle", "acquire", "undo", "release"}, slots : Seq(Slot), ports : Seq(AllPorts)]
    BY <2>1 DEF NoOp
  <2>3. CallHolds'
    BY <2>1 DEF CallHolds, NoOp, Elements, Once
  <2>4. PortsTypeOK'
    BY <1>0, <2>1, <2>2 DEF PoolInv, PortsTypeOK
  <2>5. Partition'
    BY <1>0, <2>1 DEF PoolInv, Partition, Elements
  <2> QED
    BY <2>3, <2>4, <2>5 DEF PoolInv
<1>6. ASSUME NEW ports \in Lists(AllPorts, MaxSlots), Release(ports) PROVE PoolInv'
  <2>1. ports \in Seq(AllPorts)
    BY SlotsAssumption DEF Lists
  <2> QED
    BY <1>0, <1>6, <2>1 DEF Release, PoolInv, PortsTypeOK, Partition, CallHolds, Elements
<1>7. CASE GiveOne
  <2> DEFINE p == Head(op.ports)
  <2>1. p \in AllPorts /\ Tail(op.ports) \in Seq(AllPorts)
    BY <1>0, <1>7 DEF GiveOne, PortsTypeOK
  <2>2. held' = held \ {p} /\ PutBack(p) /\ op' = [op EXCEPT !.ports = Tail(@)]
    BY <1>7 DEF GiveOne
  <2>3. /\ free' \in Seq(InRange) /\ Once(free') /\ Elements(free') = InRange \ held'
        /\ ahead' \in [InRange -> SUBSET InRange]
    <3>1. CASE p \in held \cap InRange
      <4>1. p \notin Elements(free)
        BY <1>0, <3>1 DEF Partition
      <4>2. free' = Append(free, p) /\ ahead' = [ahead EXCEPT ![p] = Elements(free)]
        BY <2>2, <3>1 DEF PutBack
      <4>3. /\ free' \in Seq(InRange) /\ Once(free') /\ Elements(free') = Elements(free) \cup {p}
        BY <1>0, <3>1, <4>1, <4>2, AppendOnce DEF PortsTypeOK
      <4>4. Elements(free) \subseteq InRange
        BY <1>0 DEF Partition
      <4> QED
        BY <1>0, <2>2, <3>1, <4>2, <4>3, <4>4 DEF Partition, PortsTypeOK
    <3>2. CASE p \notin held \cap InRange
      BY <1>0, <2>2, <3>2 DEF PutBack, Partition, PortsTypeOK
    <3> QED
      BY <3>1, <3>2
  <2>4. PortsTypeOK'
    BY <1>0, <2>1, <2>2, <2>3 DEF PortsTypeOK
  <2>5. CallHolds'
    <3>1. CASE op.at = "undo"
      <4>1. op.ports # <<>> /\ op.ports \in Seq(AllPorts) /\ Once(op.ports)
        BY <1>0, <1>7, <3>1 DEF GiveOne, PortsTypeOK, CallHolds
      <4>2. Once(Tail(op.ports)) /\ Elements(Tail(op.ports)) = Elements(op.ports) \ {p}
        BY <4>1, TailOnce
      <4> QED
        BY <1>0, <2>2, <3>1, <4>2 DEF CallHolds, PortsTypeOK
    <3>2. CASE op.at = "release"
      BY <1>0, <2>2, <3>2 DEF CallHolds, PortsTypeOK
    <3> QED
      BY <1>7, <3>1, <3>2 DEF GiveOne
  <2> QED
    BY <2>3, <2>4, <2>5 DEF PoolInv, Partition, Once
<1>8. CASE UNCHANGED portsVars
  BY <1>0, <1>8 DEF portsVars, PoolInv, PortsTypeOK, Partition, CallHolds, Elements, Once
<1> QED
  BY <1>1, <1>2, <1>3, <1>4, <1>5, <1>6, <1>7, <1>8 DEF PortsNext

\* Every port of the range is in the queue exactly once or held, between the
\* turns of a loop as well as between calls, whatever is asked for, named
\* twice, released without being held or inherited from older servers.
THEOREM PortsPartitioned == PortsSpec => [](PortsTypeOK /\ Partition)
<1>1. PoolInv => PortsTypeOK /\ Partition
  BY DEF PoolInv
<1> QED
  BY InitPool, NextPool, <1>1, PTL DEF PortsSpec

-----------------------------------------------------------------------------
(* The allocator is a PortPool.  Its loops are hidden by leaving out of     *)
(* `used` what an unfinished set has; the last slot's ports come into use   *)
(* together, when acquire returns.                                          *)

LEMMA InitImplements == PortsInit => Pool!Init
BY DEF PortsInit, Pool!Init, Pending, Asked, NoOp

LEMMA NextImplements ==
  PoolInv /\ [PortsNext]_portsVars => [Pool!Ask \/ Pool!Grant \/ Pool!Refusal \/ Pool!Give]_(Pool!pool)
<1> SUFFICES ASSUME PoolInv, [PortsNext]_portsVars
             PROVE  \/ Pool!Ask \/ Pool!Grant \/ Pool!Refusal \/ Pool!Give
                    \/ UNCHANGED <<held \ Pending, Asked>>
  BY DEF Pool!pool
<1>0. PortsTypeOK /\ Partition /\ CallHolds
  BY DEF PoolInv
<1>1. Len(op.ports) \in Nat /\ Len(op.slots) \in Nat /\ op.ports \in Seq(AllPorts)
  BY <1>0 DEF PortsTypeOK
<1>2. ASSUME NEW wanted \in Lists(Slot, MaxSlots), Acquire(wanted) PROVE Pool!Ask
  <2>1. wanted \in Seq(Slot) /\ Len(wanted) \in Nat
    BY SlotsAssumption DEF Lists
  <2>2. /\ op.at = "idle" /\ op'.at = "acquire" /\ op'.slots = wanted /\ op'.ports = <<>>
        /\ held' = held
    BY <1>2 DEF Acquire
  <2>3. Elements(<<>>) = {} /\ Len(<<>>) = 0
    BY DEF Elements
  <2>4. Asked = 0 /\ Asked' = Len(wanted)
    BY <2>1, <2>2, <2>3 DEF Asked
  <2>5. Pending = {} /\ Pending' = {}
    BY <2>2, <2>3 DEF Pending, Elements
  <2> QED
    BY <2>1, <2>2, <2>4, <2>5 DEF Pool!Ask
<1>3. ASSUME NEW p, Got(p), op.at = "acquire", op.slots # <<>>, p \in InRange \ held
      PROVE  UNCHANGED <<held \ Pending, Asked>>
  <2>1. /\ op'.at = "acquire" /\ op'.slots = Tail(op.slots)
        /\ op'.ports = Append(op.ports, p) /\ held' = held \cup {p}
    BY <1>0, <1>3 DEF Got, PortsTypeOK
  <2>2. p \in AllPorts /\ p \notin Elements(op.ports) /\ Once(op.ports)
    BY <1>0, <1>3 DEF CallHolds, AllPorts
  <2>3. /\ Elements(Append(op.ports, p)) = Elements(op.ports) \cup {p}
        /\ Len(Append(op.ports, p)) = Len(op.ports) + 1
    BY <1>1, <2>2, AppendOnce
  <2>4. Len(Tail(op.slots)) = Len(op.slots) - 1
    BY <1>0, <1>3 DEF PortsTypeOK
  <2>5. Asked' = Asked
    <3>1. Asked = Len(op.slots) + Len(op.ports)
      BY <1>3 DEF Asked
    <3>2. Asked' = Len(Tail(op.slots)) + Len(Append(op.ports, p))
      BY <2>1 DEF Asked
    <3>3. Len(Tail(op.slots)) + Len(Append(op.ports, p)) = Len(op.slots) + Len(op.ports)
      <4>1. \A m, n \in Nat : (m - 1) + (n + 1) = m + n
        OBVIOUS
      <4> QED
        BY <1>1, <2>3, <2>4, <4>1, Zenon
    <3> QED
      BY <3>1, <3>2, <3>3
  <2>6. Pending = Elements(op.ports) /\ Pending' = Elements(op.ports) \cup {p}
    BY <1>3, <2>1, <2>3 DEF Pending, Elements
  <2> QED
    BY <1>3, <2>1, <2>2, <2>5, <2>6
<1>4. CASE Allocate
  <2>1. Head(free) \in Elements(free)
    BY <1>0, <1>4, TailOnce DEF Allocate, PortsTypeOK, Partition, Once
  <2> QED
    BY <1>0, <1>3, <1>4, <2>1 DEF Allocate, Partition
<1>5. CASE Reserve
  BY <1>3, <1>5 DEF Reserve
<1>6. CASE Refuse
  <2>1. /\ op.at = "acquire" /\ op'.at = "undo" /\ op'.ports = op.ports /\ held' = held
    BY <1>0, <1>6 DEF Refuse, PortsTypeOK
  <2> QED
    BY <2>1 DEF Pool!Refusal, Asked, Pending, Elements
<1>7. CASE Acquired
  <2>1. /\ op.at = "acquire" /\ op.slots = <<>> /\ op'.at = "idle" /\ held' = held
    BY <1>7 DEF Acquired, NoOp
  <2>2. /\ Asked = Len(op.ports) /\ Asked' = 0
        /\ Pending = Elements(op.ports) /\ Pending' = {}
    BY <1>1, <2>1 DEF Asked, Pending
  <2>3. Elements(op.ports) \subseteq held /\ held \subseteq AllPorts /\ Once(op.ports)
    BY <1>0, <2>1 DEF CallHolds, PortsTypeOK
  <2>4. held' \ Pending' = (held \ Pending) \cup Elements(op.ports)
    BY <2>1, <2>2, <2>3
  <2>5. \E f \in [1..Asked -> AllPorts \ (held \ Pending)] :
          /\ \A j, k \in 1..Asked : f[j] = f[k] => j = k
          /\ held' \ Pending' = (held \ Pending) \cup {f[k] : k \in 1..Asked}
    <3>1. op.ports \in [1..Asked -> AllPorts \ (held \ Pending)]
      BY <1>1, <2>2, <2>3 DEF Elements
    <3> WITNESS op.ports \in [1..Asked -> AllPorts \ (held \ Pending)]
    <3> QED
      BY <2>2, <2>3, <2>4 DEF Once, Elements
  <2> QED
    BY <2>2, <2>5 DEF Pool!Grant
<1>8. ASSUME NEW ports \in Lists(AllPorts, MaxSlots), Release(ports)
      PROVE  UNCHANGED <<held \ Pending, Asked>>
  BY <1>8 DEF Release, Asked, Pending
<1>9. CASE GiveOne
  <2> DEFINE p == Head(op.ports)
  <2>1. /\ held' = held \ {p} /\ op.ports # <<>> /\ op'.at = op.at
        /\ op'.ports = Tail(op.ports) /\ op.at \in {"undo", "release"}
    BY <1>0, <1>9 DEF GiveOne, PortsTypeOK
  <2>2. Asked = 0 /\ Asked' = 0
    BY <2>1 DEF Asked
  <2>3. CASE op.at = "undo"
    <3>1. p \in Elements(op.ports) /\ Elements(Tail(op.ports)) = Elements(op.ports) \ {p}
      BY <1>0, <1>1, <2>1, <2>3, TailOnce DEF CallHolds
    <3>2. Pending = Elements(op.ports) /\ Pending' = Elements(op.ports) \ {p}
      BY <2>1, <2>3, <3>1 DEF Pending, Elements
    <3> QED
      BY <2>1, <2>2, <3>1, <3>2
  <2>4. CASE op.at = "release"
    <3>1. Pending = {} /\ Pending' = {}
      BY <2>1, <2>4 DEF Pending
    <3>2. CASE p \in held
      BY <2>1, <2>2, <3>1, <3>2 DEF Pool!Give
    <3>3. CASE p \notin held
      BY <2>1, <2>2, <3>1, <3>3
    <3> QED
      BY <3>2, <3>3
  <2> QED
    BY <2>1, <2>3, <2>4
<1>10. CASE Given
  <2>1. /\ op.at \in {"undo", "release"} /\ op.ports = <<>> /\ op'.at = "idle" /\ held' = held
    BY <1>10 DEF Given, NoOp
  <2>2. Elements(op.ports) = {}
    BY <2>1 DEF Elements
  <2> QED
    BY <2>1, <2>2 DEF Asked, Pending
<1>11. CASE UNCHANGED portsVars
  BY <1>11 DEF portsVars, Asked, Pending, Elements
<1> QED
  BY <1>2, <1>4, <1>5, <1>6, <1>7, <1>8, <1>9, <1>10, <1>11 DEF PortsNext

\* acquire gives every channel of a game a port of its own or changes nothing
\* anybody else can see, and a release takes no port from anybody else.
THEOREM PoolImplemented == PortsSpec => PoolSpec
<1>1. PoolInv /\ [PortsNext]_portsVars => [Pool!Ask \/ Pool!Grant \/ Pool!Refusal \/ Pool!Give]_(Pool!pool)
  BY NextImplements
<1> QED
  BY InitPool, NextPool, InitImplements, <1>1, PTL DEF PortsSpec, PoolSpec, Pool!Spec

-----------------------------------------------------------------------------
(* A freed port rests.  What was free before a port is in front of it in    *)
(* the queue or has been handed out, and what is held is ahead of nothing.  *)

InOrder(s, before) == \A j, k \in 1..Len(s) : s[j] \in before[s[k]] => j < k

RestInv ==
  /\ \A p \in InRange : ahead[p] \cap held = {}
  /\ InOrder(free, ahead)

LEMMA TailOrder ==
  ASSUME NEW S, NEW s \in Seq(S), s # <<>>, NEW f, NEW g, InOrder(s, f),
         \A p \in Elements(s) : g[p] \subseteq f[p]
  PROVE  InOrder(Tail(s), g)
<1>1. Len(s) \in Nat \ {0} /\ Len(Tail(s)) = Len(s) - 1
  OBVIOUS
<1>2. \A k \in 1..(Len(s) - 1) : Tail(s)[k] = s[k + 1] /\ k + 1 \in 1..Len(s) /\ s[k + 1] \in Elements(s)
  BY <1>1 DEF Elements
<1> QED
  BY <1>1, <1>2 DEF InOrder

LEMMA WithoutOrder ==
  ASSUME NEW S, NEW s \in Seq(S), NEW p, NEW f, NEW g, InOrder(s, f),
         \A q \in Elements(s) : g[q] \subseteq f[q]
  PROVE  InOrder(Without(s, p), g)
<1>1. CASE p \notin Elements(s)
  <2>1. Without(s, p) = s
    BY <1>1 DEF Without
  <2>2. \A k \in 1..Len(s) : s[k] \in Elements(s)
    BY DEF Elements
  <2> QED
    BY <2>1, <2>2 DEF InOrder
<1>2. CASE p \in Elements(s)
  <2> DEFINE at == CHOOSE k \in 1..Len(s) : s[k] = p
             t  == [k \in 1..(Len(s) - 1) |-> IF k < at THEN s[k] ELSE s[k + 1]]
             from(k) == IF k < at THEN k ELSE k + 1
  <2>1. at \in 1..Len(s) /\ s[at] = p
    BY <1>2 DEF Elements
  <2>2. Without(s, p) = t
    BY <1>2 DEF Without
  <2> HIDE DEF at
  <2>3. Len(s) \in Nat /\ Len(s) - 1 \in Nat /\ \A k \in 1..Len(s) : s[k] \in S /\ s[k] \in Elements(s)
    BY <2>1 DEF Elements
  <2>4. t \in Seq(S) /\ Len(t) = Len(s) - 1
    BY <2>1, <2>3
  <2>5. \A k \in 1..Len(t) : t[k] = s[from(k)] /\ from(k) \in 1..Len(s)
    BY <2>1, <2>3, <2>4
  <2>6. \A j, k \in 1..Len(t) : from(j) < from(k) => j < k
    BY <2>1, <2>3, <2>4
  <2> HIDE DEF t, from
  <2>7. InOrder(t, g)
    <3> SUFFICES ASSUME NEW j \in 1..Len(t), NEW k \in 1..Len(t), t[j] \in g[t[k]] PROVE j < k
      BY DEF InOrder
    <3>1. s[from(j)] \in f[s[from(k)]]
      BY <2>3, <2>5
    <3> QED
      BY <2>5, <2>6, <3>1 DEF InOrder
  <2> QED
    BY <2>2, <2>7
<1> QED
  BY <1>1, <1>2

LEMMA AppendOrder ==
  ASSUME NEW S, NEW s \in Seq(S), NEW p \in S, p \notin Elements(s), NEW f, NEW g, InOrder(s, f),
         g[p] = Elements(s), \A q \in Elements(s) : g[q] = f[q] /\ p \notin f[q]
  PROVE  InOrder(Append(s, p), g)
<1> DEFINE t == Append(s, p)
<1>1. /\ Len(t) = Len(s) + 1 /\ Len(s) \in Nat /\ t[Len(s) + 1] = p
      /\ \A k \in 1..Len(s) : t[k] = s[k] /\ s[k] \in Elements(s)
  BY DEF Elements
<1> HIDE DEF t
<1>2. InOrder(t, g)
  <2> SUFFICES ASSUME NEW j \in 1..Len(t), NEW k \in 1..Len(t), t[j] \in g[t[k]] PROVE j < k
    BY DEF InOrder
  <2>1. CASE j \in 1..Len(s) /\ k \in 1..Len(s)
    BY <1>1, <2>1 DEF InOrder
  <2>2. CASE j \in 1..Len(s) /\ k = Len(s) + 1
    BY <1>1, <2>2
  <2>3. CASE j = Len(s) + 1
    BY <1>1, <2>3
  <2> QED
    BY <1>1, <2>1, <2>2, <2>3
<1> QED
  BY <1>2 DEF t

LEMMA RestInit == PortsInit => RestInv
<1> SUFFICES ASSUME PortsInit PROVE RestInv
  OBVIOUS
<1>1. \A p \in InRange : ahead[p] = {}
  BY DEF PortsInit
<1>2. PoolInv
  BY InitPool
<1>3. \A k \in 1..Len(free) : free[k] \in InRange
  BY <1>2 DEF PoolInv, PortsTypeOK
<1> QED
  BY <1>1, <1>3 DEF RestInv, InOrder

LEMMA RestNext == PoolInv /\ RestInv /\ [PortsNext]_portsVars => RestInv'
<1> SUFFICES ASSUME PoolInv, RestInv, [PortsNext]_portsVars PROVE RestInv'
  OBVIOUS
<1>1. /\ free \in Seq(InRange) /\ Elements(free) = InRange \ held /\ Once(free)
      /\ ahead \in [InRange -> SUBSET InRange] /\ InOrder(free, ahead)
      /\ \A p \in InRange : ahead[p] \cap held = {}
  BY DEF PoolInv, PortsTypeOK, Partition, Once, RestInv
<1>2. ASSUME UNCHANGED <<free, held, ahead>> PROVE RestInv'
  BY <1>2 DEF RestInv, InOrder
<1>3. ASSUME NEW p \in InRange, Handed(p)
      PROVE  /\ \A q \in InRange : ahead'[q] = ahead[q] \ {p}
             /\ \A q \in Elements(free) : ahead'[q] \subseteq ahead[q]
  BY <1>1, <1>3 DEF Handed
<1>4. CASE Allocate
  <2> DEFINE p == Head(free)
  <2>1. free # <<>> /\ free' = Tail(free) /\ held' = held \cup {p} /\ Handed(p)
    BY <1>4 DEF Allocate, Got
  <2>2. p \in InRange
    BY <1>1, <2>1
  <2> HIDE DEF p
  <2>3. /\ \A q \in InRange : ahead'[q] = ahead[q] \ {p}
        /\ \A q \in Elements(free) : ahead'[q] \subseteq ahead[q]
    BY <1>3, <2>1, <2>2
  <2>4. InOrder(free', ahead')
    BY <1>1, <2>1, <2>3, TailOrder
  <2>5. \A q \in InRange : ahead'[q] \cap held' = {}
    BY <1>1, <2>1, <2>3
  <2> QED
    BY <2>4, <2>5 DEF RestInv, InOrder
<1>5. CASE Reserve
  <2> DEFINE p == Head(op.slots)
  <2>1. p \in InRange /\ free' = Without(free, p) /\ held' = held \cup {p} /\ Handed(p)
    BY <1>5 DEF Reserve, Got
  <2> HIDE DEF p
  <2>2. /\ \A q \in InRange : ahead'[q] = ahead[q] \ {p}
        /\ \A q \in Elements(free) : ahead'[q] \subseteq ahead[q]
    BY <1>3, <2>1
  <2>3. InOrder(free', ahead')
    BY <1>1, <2>1, <2>2, WithoutOrder
  <2>4. \A q \in InRange : ahead'[q] \cap held' = {}
    BY <1>1, <2>1, <2>2
  <2> QED
    BY <2>3, <2>4 DEF RestInv, InOrder
<1>6. CASE GiveOne
  <2> DEFINE p == Head(op.ports)
  <2>1. held' = held \ {p} /\ PutBack(p)
    BY <1>6 DEF GiveOne
  <2> HIDE DEF p
  <2>2. CASE p \in held \cap InRange
    <3>1. free' = Append(free, p) /\ ahead' = [ahead EXCEPT ![p] = Elements(free)]
      BY <2>1, <2>2 DEF PutBack
    <3>2. p \notin Elements(free) /\ p \in InRange
      BY <1>1, <2>2
    <3>3. ahead'[p] = Elements(free) /\ \A q \in InRange \ {p} : ahead'[q] = ahead[q]
      BY <1>1, <3>1, <3>2
    <3>4. \A q \in Elements(free) : ahead'[q] = ahead[q] /\ p \notin ahead[q]
      BY <1>1, <2>2, <3>2, <3>3
    <3>5. InOrder(free', ahead')
      BY <1>1, <3>1, <3>2, <3>3, <3>4, AppendOrder
    <3>6. \A q \in InRange : ahead'[q] \cap held' = {}
      BY <1>1, <2>1, <3>3
    <3> QED
      BY <3>5, <3>6 DEF RestInv, InOrder
  <2>3. CASE p \notin held \cap InRange
    BY <1>1, <2>1, <2>3 DEF PutBack, RestInv, InOrder
  <2> QED
    BY <2>2, <2>3
<1> QED
  BY <1>2, <1>4, <1>5, <1>6 DEF PortsNext, portsVars, Acquire, Refuse, Acquired, Release, Given

\* ports.rs: a freed port "comes back only once nothing else is free": whatever
\* is acquired, refused half way or released, and in whatever order, who asks for
\* any port is handed none before all that were free when it was freed.
THEOREM FreedPortsRest == PortsSpec => Rested
<1> DEFINE RestStep == \A p \in InRange :
             (Allocate /\ p \in held' \ held) => ahead[p] \cap Elements(free) = {}
<1>1. PoolInv /\ RestInv /\ [PortsNext]_portsVars => [RestStep]_portsVars
  <2> SUFFICES ASSUME PoolInv, RestInv, NEW p \in InRange, Allocate, p \in held' \ held
               PROVE  ahead[p] \cap Elements(free) = {}
    OBVIOUS
  <2>1. free \in Seq(InRange) /\ free # <<>> /\ p = Head(free)
    BY DEF Allocate, Got, PoolInv, PortsTypeOK
  <2>2. p = free[1] /\ 1 \in 1..Len(free)
    BY <2>1
  <2> QED
    BY <2>2 DEF RestInv, InOrder, Elements
<1>2. PortsInit => PoolInv /\ RestInv
  BY InitPool, RestInit
<1>3. PoolInv /\ RestInv /\ [PortsNext]_portsVars => (PoolInv /\ RestInv)'
  BY NextPool, RestNext
<1> QED
  BY <1>1, <1>2, <1>3, PTL DEF PortsSpec, Rested

-----------------------------------------------------------------------------
(* Downloads.                                                              *)

\* A container is there at the steps that made it and have not removed it, and
\* runs or has run only when it was started.
BoxKnown(g) ==
  /\ box[g] # "none" => dl[g].at \in {"check", "start", "wait"}
  /\ box[g] \in {"running", "exited"} => dl[g].at = "wait"

\* From before the container is made until it is gone its name is known, so a
\* cancel that comes meanwhile removes it.
NameKnown(g) == dl[g].at \in {"create", "check", "start", "wait", "after"} => dl[g].named

\* Who cancels sets the flag first.  One who has been answered has found the
\* container not made yet, when the flag stops it, or has removed it.
AnswerKept(g) ==
  /\ stop[g] # "none" /\ dl[g].at # "off" => dl[g].flag
  /\ stop[g] = "answered" /\ dl[g].at = "start" => box[g] = "none"
  /\ stop[g] = "answered" => box[g] # "running"

\* Somebody told a download to stop before its outcome was judged: it sees it.
Obeyed(g) ==
  /\ dl[g].told => dl[g].flag
  /\ dl[g].at = "promote" => ~dl[g].told

\* What is staged is there only between the room check and the end.
Staging(g) == dl[g].staged => dl[g].at \in Watched

\* An attempt is begun only while one is left.
Attempts(g) ==
  /\ dl[g].at \in {"queue", "room", "copy"} => dl[g].attempt = 0
  /\ dl[g].at = "try" => dl[g].attempt < Tries

\* A download under way has the game's slot.
SlotKnown(g) == dl[g].at # "off" => slot[g] \in {"queued", "running"}

\* All that is said of one game.
GameInv(g) ==
  /\ BoxKnown(g) /\ NameKnown(g) /\ AnswerKept(g) /\ Obeyed(g) /\ Staging(g)
  /\ Attempts(g) /\ SlotKnown(g)

InstallsInv == InstallsTypeOK /\ \A g \in Game : GameInv(g)

-----------------------------------------------------------------------------
(* What a step does to a download: the fields the invariant speaks of.     *)
Effect(g, at, attempt, flag, name, staged, told) ==
  /\ dl' \in [Game -> Download]
  /\ dl'[g].at = at /\ dl'[g].attempt = attempt /\ dl'[g].flag = flag
  /\ dl'[g].named = name /\ dl'[g].staged = staged /\ dl'[g].told = told
  /\ \A h \in Game \ {g} : dl'[h] = dl[h]

LEMMA BecomesEffect ==
  ASSUME InstallsTypeOK, NEW g \in Game, NEW d \in Download, Becomes(g, d)
  PROVE  Effect(g, d.at, d.attempt, d.flag, d.named, d.staged, d.told)
BY DEF InstallsTypeOK, Becomes, Effect

LEMMA OffIsDownload == Off \in Download
BY InstallsAssumption DEF Off, Download, Stand, Op, Outcome

\* The words a step writes are of their type.
LEMMA Words ==
  /\ \A s \in {"off", "queue", "room", "end", "copy", "try", "create", "check", "start",
               "wait", "after", "promote"} : s \in Stand
  /\ \A o \in {"ok", "transient", "bad"} : o \in Outcome
BY DEF Stand, Watched, Outcome

LEMMA ToEffect ==
  ASSUME InstallsTypeOK, NEW g \in Game, NEW s \in Stand, To(g, s)
  PROVE  Effect(g, s, dl[g].attempt, dl[g].flag, dl[g].named, dl[g].staged, dl[g].told)
<1> DEFINE d == dl[g]
<1> DEFINE e == [d EXCEPT !.at = s]
<1>1. d \in Download
  BY DEF InstallsTypeOK
<1>2. /\ e \in Download /\ e.at = s /\ e.attempt = d.attempt
      /\ e.flag = d.flag /\ e.named = d.named
      /\ e.staged = d.staged /\ e.told = d.told
  BY <1>1, Zenon DEF Download
<1>3. Becomes(g, e)
  BY DEF To
<1> HIDE DEF e
<1> QED
  BY <1>2, <1>3, BecomesEffect

LEMMA FailsEffect ==
  ASSUME InstallsTypeOK, NEW g \in Game, Fails(g)
  PROVE  Effect(g, "end", dl[g].attempt, dl[g].flag, FALSE, FALSE, dl[g].told)
<1> DEFINE d == dl[g]
<1> DEFINE e == [d EXCEPT !.at = "end", !.staged = FALSE, !.named = FALSE]
<1>1. d \in Download
  BY DEF InstallsTypeOK
<1>2. "end" \in Stand
  BY <1>1, Words, InstallsAssumption
<1>3. /\ e \in Download /\ e.at = "end" /\ e.attempt = d.attempt
      /\ e.flag = d.flag /\ e.named = FALSE
      /\ e.staged = FALSE /\ e.told = d.told
  BY <1>1, <1>2, Zenon DEF Download
<1>4. Becomes(g, e)
  BY DEF Fails
<1> HIDE DEF e
<1> QED
  BY <1>3, <1>4, BecomesEffect

LEMMA OutcomesEffect ==
  ASSUME InstallsTypeOK, NEW g \in Game, NEW o \in Outcome, Outcomes(g, o)
  PROVE  Effect(g, "after", dl[g].attempt, dl[g].flag, dl[g].named, dl[g].staged, dl[g].told)
<1> DEFINE d == dl[g]
<1> DEFINE e == [d EXCEPT !.at = "after", !.out = o]
<1>1. d \in Download
  BY DEF InstallsTypeOK
<1>2. "after" \in Stand
  BY <1>1, Words, InstallsAssumption
<1>3. /\ e \in Download /\ e.at = "after" /\ e.attempt = d.attempt
      /\ e.flag = d.flag /\ e.named = d.named
      /\ e.staged = d.staged /\ e.told = d.told
  BY <1>1, <1>2, Zenon DEF Download
<1>4. Becomes(g, e)
  BY DEF Outcomes
<1> HIDE DEF e
<1> QED
  BY <1>3, <1>4, BecomesEffect

LEMMA OverEffect ==
  ASSUME InstallsTypeOK, NEW g \in Game, Over(g)
  PROVE  Effect(g, "off", 0, FALSE, FALSE, dl[g].staged, FALSE)
<1> DEFINE e == [Off EXCEPT !.staged = dl[g].staged]
<1>1. dl[g].staged \in BOOLEAN
  BY DEF InstallsTypeOK, Download
<1>2. /\ e \in Download /\ e.at = Off.at /\ e.attempt = Off.attempt /\ e.flag = Off.flag
      /\ e.named = Off.named /\ e.staged = dl[g].staged /\ e.told = Off.told
  BY <1>1, OffIsDownload, Zenon DEF Download
<1>3. Off.at = "off" /\ Off.attempt = 0 /\ ~Off.flag /\ ~Off.named /\ ~Off.told
  BY DEF Off
<1>4. Becomes(g, e)
  BY DEF Over
<1>5. e.flag = FALSE /\ e.named = FALSE /\ e.told = FALSE
  BY <1>2, <1>3
<1> HIDE DEF e
<1> QED
  BY <1>2, <1>3, <1>4, <1>5, BecomesEffect

\* The copy is there already.
LEMMA GoodEffect ==
  ASSUME InstallsTypeOK, NEW g \in Game, Becomes(g, [dl[g] EXCEPT !.at = "end", !.good = TRUE])
  PROVE  Effect(g, "end", dl[g].attempt, dl[g].flag, dl[g].named, dl[g].staged, dl[g].told)
<1> DEFINE d == dl[g]
<1> DEFINE e == [d EXCEPT !.at = "end", !.good = TRUE]
<1>1. d \in Download
  BY DEF InstallsTypeOK
<1>2. "end" \in Stand
  BY <1>1, Words, InstallsAssumption
<1>3. /\ e \in Download /\ e.at = "end" /\ e.attempt = d.attempt
      /\ e.flag = d.flag /\ e.named = d.named
      /\ e.staged = d.staged /\ e.told = d.told
  BY <1>1, <1>2, Zenon DEF Download
<1>4. Becomes(g, e)
  OBVIOUS
<1> HIDE DEF e
<1> QED
  BY <1>3, <1>4, BecomesEffect

LEMMA RoomEffect ==
  ASSUME InstallsTypeOK, NEW g \in Game, NEW s \in Stand, Becomes(g, [dl[g] EXCEPT !.staged = TRUE, !.at = s])
  PROVE  Effect(g, s, dl[g].attempt, dl[g].flag, dl[g].named, TRUE, dl[g].told)
<1> DEFINE d == dl[g]
<1> DEFINE e == [d EXCEPT !.staged = TRUE, !.at = s]
<1>1. d \in Download
  BY DEF InstallsTypeOK
<1>2. /\ e \in Download /\ e.at = s /\ e.attempt = d.attempt
      /\ e.flag = d.flag /\ e.named = d.named
      /\ e.staged = TRUE /\ e.told = d.told
  BY <1>1, Zenon DEF Download
<1>3. Becomes(g, e)
  OBVIOUS
<1> HIDE DEF e
<1> QED
  BY <1>2, <1>3, BecomesEffect

LEMMA AttemptEffect ==
  ASSUME InstallsTypeOK, NEW g \in Game, dl[g].attempt < Tries,
         Becomes(g, [dl[g] EXCEPT !.at = "create", !.named = TRUE, !.attempt = @ + 1])
  PROVE  Effect(g, "create", dl[g].attempt + 1, dl[g].flag, TRUE, dl[g].staged, dl[g].told)
<1> DEFINE d == dl[g]
<1> DEFINE e == [d EXCEPT !.at = "create", !.named = TRUE, !.attempt = d.attempt + 1]
<1>1. d \in Download
  BY DEF InstallsTypeOK
<1>2. "create" \in Stand /\ d.attempt + 1 \in 0 .. Tries
  BY <1>1, Words, InstallsAssumption DEF Download
<1>3. /\ e \in Download /\ e.at = "create" /\ e.attempt = d.attempt + 1
      /\ e.flag = d.flag /\ e.named = TRUE
      /\ e.staged = d.staged /\ e.told = d.told
  BY <1>1, <1>2, Zenon DEF Download
<1>4. Becomes(g, e)
  OBVIOUS
<1> HIDE DEF e
<1> QED
  BY <1>3, <1>4, BecomesEffect

LEMMA JudgedEffect ==
  ASSUME InstallsTypeOK, NEW g \in Game, NEW s \in Stand, Becomes(g, [dl[g] EXCEPT !.at = s, !.named = FALSE])
  PROVE  Effect(g, s, dl[g].attempt, dl[g].flag, FALSE, dl[g].staged, dl[g].told)
<1> DEFINE d == dl[g]
<1> DEFINE e == [d EXCEPT !.at = s, !.named = FALSE]
<1>1. d \in Download
  BY DEF InstallsTypeOK
<1>2. /\ e \in Download /\ e.at = s /\ e.attempt = d.attempt
      /\ e.flag = d.flag /\ e.named = FALSE
      /\ e.staged = d.staged /\ e.told = d.told
  BY <1>1, Zenon DEF Download
<1>3. Becomes(g, e)
  OBVIOUS
<1> HIDE DEF e
<1> QED
  BY <1>2, <1>3, BecomesEffect

LEMMA PromotesEffect ==
  ASSUME InstallsTypeOK, NEW g \in Game, Becomes(g, [dl[g] EXCEPT !.at = "end", !.staged = FALSE, !.good = TRUE])
  PROVE  Effect(g, "end", dl[g].attempt, dl[g].flag, dl[g].named, FALSE, dl[g].told)
<1> DEFINE d == dl[g]
<1> DEFINE e == [d EXCEPT !.at = "end", !.staged = FALSE, !.good = TRUE]
<1>1. d \in Download
  BY DEF InstallsTypeOK
<1>2. "end" \in Stand
  BY <1>1, Words, InstallsAssumption
<1>3. /\ e \in Download /\ e.at = "end" /\ e.attempt = d.attempt
      /\ e.flag = d.flag /\ e.named = d.named
      /\ e.staged = FALSE /\ e.told = d.told
  BY <1>1, <1>2, Zenon DEF Download
<1>4. Becomes(g, e)
  OBVIOUS
<1> HIDE DEF e
<1> QED
  BY <1>3, <1>4, BecomesEffect

LEMMA FlaggedEffect ==
  ASSUME InstallsTypeOK, NEW g \in Game, Flagged(g)
  PROVE  Effect(g, dl[g].at, dl[g].attempt, TRUE, dl[g].named, dl[g].staged,
                dl[g].told \/ dl[g].at \notin {"promote", "end"})
<1> DEFINE d == dl[g]
<1> DEFINE t == (dl[g].told \/ dl[g].at \notin {"promote", "end"})
<1> DEFINE e == [d EXCEPT !.flag = TRUE, !.told = t]
<1>1. d \in Download /\ t \in BOOLEAN
  BY DEF InstallsTypeOK
<1>2. Becomes(g, e)
  BY DEF Flagged
<1> HIDE DEF t
<1>3. /\ e \in Download /\ e.at = d.at /\ e.attempt = d.attempt
      /\ e.flag = TRUE /\ e.named = d.named
      /\ e.staged = d.staged /\ e.told = t
  BY <1>1, Zenon DEF Download
<1> HIDE DEF e
<1>4. Effect(g, d.at, d.attempt, TRUE, d.named, d.staged, t)
  BY <1>2, <1>3, BecomesEffect
<1> QED
  BY <1>4 DEF t

LEMMA BeginEffect ==
  ASSUME InstallsTypeOK, NEW g \in Game, NEW o \in Op, Becomes(g, [Off EXCEPT !.at = "queue", !.op = o])
  PROVE  Effect(g, "queue", 0, FALSE, FALSE, FALSE, FALSE)
<1> DEFINE e == [Off EXCEPT !.at = "queue", !.op = o]
<1>1. /\ e \in Download /\ e.at = "queue" /\ e.attempt = Off.attempt /\ e.flag = Off.flag
      /\ e.named = Off.named /\ e.staged = Off.staged /\ e.told = Off.told
  BY OffIsDownload, Words, Zenon DEF Download
<1>2. Off.attempt = 0 /\ ~Off.flag /\ ~Off.named /\ ~Off.staged /\ ~Off.told
  BY DEF Off
<1>3. e.flag = FALSE /\ e.named = FALSE /\ e.staged = FALSE /\ e.told = FALSE
  BY <1>1, <1>2
<1>4. Becomes(g, e)
  OBVIOUS
<1> HIDE DEF e
<1> QED
  BY <1>1, <1>2, <1>3, <1>4, BecomesEffect

-----------------------------------------------------------------------------
LEMMA InstallsInitInv == InstallsInit => InstallsInv
<1> SUFFICES ASSUME InstallsInit PROVE InstallsInv
  OBVIOUS
<1>1. 0 \in 0 .. MaxLow /\ 0 \in 0 .. MaxBegin
  BY InstallsAssumption
<1>2. InstallsTypeOK
  BY <1>1, OffIsDownload DEF InstallsInit, InstallsTypeOK
<1>3. \A g \in Game : GameInv(g)
  BY DEF InstallsInit, Off, GameInv, BoxKnown, NameKnown, AnswerKept, Obeyed, Staging, Attempts, SlotKnown
<1> QED
  BY <1>2, <1>3 DEF InstallsInv

\* A step of game g touches what is said of no other game.
LEMMA OneGame ==
  ASSUME InstallsInv, NEW g \in Game, InstallsTypeOK', GameInv(g)',
         \A h \in Game \ {g} : /\ dl'[h] = dl[h] /\ box'[h] = box[h] /\ stop'[h] = stop[h] /\ slot'[h] = slot[h]
  PROVE  InstallsInv'
<1>1. \A h \in Game \ {g} : GameInv(h)'
  BY DEF InstallsInv, GameInv, BoxKnown, NameKnown, AnswerKept, Obeyed, Staging, Attempts, SlotKnown
<1> QED
  BY <1>1 DEF InstallsInv

\* A step whose effect is known and that leaves the container and the cancel alone.
LEMMA StillStep ==
  ASSUME InstallsInv, NEW g \in Game, NEW at, NEW attempt, NEW flag, NEW name, NEW staged, NEW told,
         Effect(g, at, attempt, flag, name, staged, told), InstallsTypeOK', GameInv(g)',
         UNCHANGED <<box, stop>>, \A h \in Game \ {g} : slot'[h] = slot[h]
  PROVE  InstallsInv'
BY OneGame DEF Effect

\* A download that begins, waits, ends, or holds the slot.
LEMMA SlotKeepsInv ==
  ASSUME InstallsInv, NEW g \in Game,
         \/ \E o \in Op : BeginDownload(g, o)
         \/ TakesTurn(g) \/ Finishes(g) \/ Holds(g) \/ LetsGo(g)
  PROVE  InstallsInv'
<1> USE DEF InstallsInv
<1>1. ASSUME NEW o \in Op, BeginDownload(g, o) PROVE InstallsInv'
  <2>1. Effect(g, "queue", 0, FALSE, FALSE, FALSE, FALSE)
    BY <1>1, BeginEffect DEF BeginDownload
  <2>2. InstallsTypeOK'
    <3>1. dl' \in [Game -> Download]
      BY <2>1 DEF Effect
    <3>2. asked' \in 0 .. MaxBegin
      <4>1. asked \in 0 .. MaxBegin
        BY DEF InstallsTypeOK
      <4>2. asked < MaxBegin /\ asked' = asked + 1
        BY <1>1 DEF BeginDownload
      <4> QED
        BY <4>1, <4>2, InstallsAssumption
    <3>3. /\ slot' = [slot EXCEPT ![g] = "queued"] /\ stop' = [stop EXCEPT ![g] = "none"]
          /\ UNCHANGED <<turn, box, installed, disk>>
      BY <1>1 DEF BeginDownload
    <3> QED
      BY <3>1, <3>2, <3>3 DEF InstallsTypeOK
  <2>3. /\ stop'[g] = "none" /\ UNCHANGED box /\ slot'[g] = "queued"
        /\ \A h \in Game \ {g} : stop'[h] = stop[h] /\ slot'[h] = slot[h]
    BY <1>1 DEF BeginDownload, InstallsTypeOK
  <2>4. dl[g].at = "off"
    BY <1>1 DEF BeginDownload, Active, GameInv, SlotKnown
  <2>5. GameInv(g)'
    BY <2>1, <2>3, <2>4
    DEF Effect, GameInv, BoxKnown, NameKnown, AnswerKept, Obeyed, Staging, Attempts, SlotKnown
  <2> QED
    BY <2>1, <2>2, <2>3, <2>5, OneGame DEF Effect
<1>2. ASSUME Over(g), InstallsTypeOK', UNCHANGED <<box, stop>>, dl[g].at \in {"queue", "end"},
             \A h \in Game \ {g} : slot'[h] = slot[h]
      PROVE  InstallsInv'
  <2>1. Effect(g, "off", 0, FALSE, FALSE, dl[g].staged, FALSE)
    BY <1>2, OverEffect
  <2>2. GameInv(g)'
    BY <1>2, <2>1
    DEF Effect, GameInv, BoxKnown, NameKnown, AnswerKept, Obeyed, Staging, Attempts, SlotKnown, Watched
  <2> QED
    BY <1>2, <2>1, <2>2, StillStep
<1>3. CASE TakesTurn(g)
  <2>1. CASE dl[g].flag
    <3>1. /\ Over(g) /\ UNCHANGED <<box, stop>> /\ dl[g].at = "queue"
          /\ \A h \in Game \ {g} : slot'[h] = slot[h]
      BY <1>3, <2>1 DEF TakesTurn, InstallsTypeOK
    <3>2. InstallsTypeOK'
      BY <1>3, <2>1, <3>1, OverEffect DEF TakesTurn, InstallsTypeOK, Effect
    <3> QED
      BY <1>2, <3>1, <3>2
  <2>2. CASE ~dl[g].flag
    <3>1. /\ To(g, "room") /\ UNCHANGED <<box, stop>> /\ dl[g].at = "queue" /\ "room" \in Stand
          /\ slot'[g] = "running" /\ \A h \in Game \ {g} : slot'[h] = slot[h]
      BY <1>3, <2>2, Words DEF TakesTurn, InstallsTypeOK
    <3>2. Effect(g, "room", dl[g].attempt, dl[g].flag, dl[g].named, dl[g].staged, dl[g].told)
      BY <3>1, ToEffect
    <3>3. InstallsTypeOK'
      BY <1>3, <2>2, <3>2 DEF TakesTurn, InstallsTypeOK, Effect
    <3>4. GameInv(g)'
      BY <3>1, <3>2
      DEF Effect, GameInv, BoxKnown, NameKnown, AnswerKept, Obeyed, Staging, Attempts, SlotKnown, Watched
    <3> QED
      BY <3>1, <3>2, <3>3, <3>4, StillStep
  <2> QED
    BY <2>1, <2>2
<1>4. CASE Finishes(g)
  <2>1. /\ Over(g) /\ UNCHANGED <<box, stop>> /\ dl[g].at = "end"
        /\ \A h \in Game \ {g} : slot'[h] = slot[h]
    BY <1>4 DEF Finishes, InstallsTypeOK
  <2>2. InstallsTypeOK'
    BY <1>4, <2>1, OverEffect DEF Finishes, InstallsTypeOK, Effect
  <2> QED
    BY <1>2, <2>1, <2>2
<1>5. CASE Holds(g) \/ LetsGo(g)
  <2>1. InstallsTypeOK'
    BY <1>5 DEF Holds, LetsGo, InstallsTypeOK
  <2>2. UNCHANGED <<dl, box, stop>> /\ dl[g].at = "off" /\ \A h \in Game \ {g} : slot'[h] = slot[h]
    BY <1>5 DEF Holds, LetsGo, Active, InstallsTypeOK, GameInv, SlotKnown
  <2> QED
    BY <2>1, <2>2 DEF GameInv, BoxKnown, NameKnown, AnswerKept, Obeyed, Staging, Attempts, SlotKnown
<1> QED
  BY <1>1, <1>3, <1>4, <1>5

\* A step of the download itself, whose effect is known, keeps the invariant when
\* it keeps what is said of its own game.
LEMMA WorkStep ==
  ASSUME InstallsInv, NEW g \in Game, NEW at, NEW attempt, NEW flag, NEW name, NEW staged, NEW told,
         Effect(g, at, attempt, flag, name, staged, told), GameInv(g)', DownloadOnly,
         box' \in [Game -> {"none", "created", "running", "exited"}], installed' \subseteq Game,
         \A h \in Game \ {g} : box'[h] = box[h]
  PROVE  InstallsInv'
<1>1. InstallsTypeOK'
  BY DEF InstallsInv, InstallsTypeOK, Effect, DownloadOnly
<1>2. \A h \in Game \ {g} : /\ dl'[h] = dl[h] /\ box'[h] = box[h]
                            /\ stop'[h] = stop[h] /\ slot'[h] = slot[h]
  BY DEF Effect, DownloadOnly
<1> QED
  BY <1>1, <1>2, OneGame

\* The steps of a download that make and remove no container.
LEMMA WorkKeepsInv ==
  ASSUME InstallsInv, NEW g \in Game,
         \/ FindsRoom(g) \/ Copies(g) \/ BeginsAttempt(g) \/ JudgesOutcome(g) \/ Promotes(g)
  PROVE  InstallsInv'
<1> USE DEF InstallsInv
<1>1. /\ DownloadOnly /\ UNCHANGED box /\ dl[g].at \in Stand /\ dl[g].attempt \in 0 .. Tries
      /\ installed' \subseteq Game /\ stop' = stop /\ slot' = slot
      /\ box' \in [Game -> {"none", "created", "running", "exited"}]
  BY DEF FindsRoom, Copies, BeginsAttempt, JudgesOutcome, Promotes, DownloadOnly, InstallsTypeOK, Download
<1>2. ASSUME Fails(g), dl[g].at \in {"room", "copy", "try", "after"} PROVE InstallsInv'
  <2>1. Effect(g, "end", dl[g].attempt, dl[g].flag, FALSE, FALSE, dl[g].told)
    BY <1>2, FailsEffect
  <2>2. GameInv(g)'
    BY <1>1, <1>2, <2>1
    DEF Effect, GameInv, BoxKnown, NameKnown, AnswerKept, Obeyed, Staging, Attempts, SlotKnown
  <2> QED
    BY <1>1, <2>1, <2>2, WorkStep
<1>3. CASE FindsRoom(g)
  <2>1. dl[g].at = "room"
    BY <1>3 DEF FindsRoom
  <2>2. CASE Becomes(g, [dl[g] EXCEPT !.at = "end", !.good = TRUE])
    <3>1. Effect(g, "end", dl[g].attempt, dl[g].flag, dl[g].named, dl[g].staged, dl[g].told)
      BY <2>2, GoodEffect
    <3>2. GameInv(g)'
      BY <1>1, <2>1, <3>1
      DEF Effect, GameInv, BoxKnown, NameKnown, AnswerKept, Obeyed, Staging, Attempts, SlotKnown, Watched
    <3> QED
      BY <1>1, <3>1, <3>2, WorkStep
  <2>3. ASSUME NEW s \in {"try", "copy"}, Becomes(g, [dl[g] EXCEPT !.staged = TRUE, !.at = s])
        PROVE InstallsInv'
    <3>1. Effect(g, s, dl[g].attempt, dl[g].flag, dl[g].named, TRUE, dl[g].told)
      BY <2>3, RoomEffect, Words
    <3>2. GameInv(g)'
      BY <1>1, <2>1, <2>3, <3>1, InstallsAssumption
      DEF Effect, GameInv, BoxKnown, NameKnown, AnswerKept, Obeyed, Staging, Attempts, SlotKnown, Watched
    <3> QED
      BY <1>1, <3>1, <3>2, WorkStep
  <2> DEFINE s == IF dl[g].op = "install" THEN "try" ELSE "copy"
  <2>4. \/ Fails(g) \/ Becomes(g, [dl[g] EXCEPT !.at = "end", !.good = TRUE])
        \/ Becomes(g, [dl[g] EXCEPT !.staged = TRUE, !.at = s])
    BY <1>3 DEF FindsRoom
  <2>5. s \in {"try", "copy"}
    OBVIOUS
  <2> HIDE DEF s
  <2> QED
    BY <1>2, <2>1, <2>2, <2>3, <2>4, <2>5
<1>4. CASE Copies(g)
  <2>1. CASE Fails(g)
    BY <1>2, <1>4, <2>1 DEF Copies
  <2>2. ASSUME NEW s \in {"try", "promote"}, ~dl[g].flag, dl[g].at = "copy", To(g, s)
        PROVE InstallsInv'
    <3>1. Effect(g, s, dl[g].attempt, dl[g].flag, dl[g].named, dl[g].staged, dl[g].told)
      BY <2>2, ToEffect, Words
    <3>2. GameInv(g)'
      BY <1>1, <2>2, <3>1, InstallsAssumption
      DEF Effect, GameInv, BoxKnown, NameKnown, AnswerKept, Obeyed, Staging, Attempts, SlotKnown, Watched
    <3> QED
      BY <1>1, <3>1, <3>2, WorkStep
  <2> DEFINE s == IF dl[g].op = "fetch" THEN "promote" ELSE "try"
  <2>3. Fails(g) \/ (~dl[g].flag /\ dl[g].at = "copy" /\ To(g, s))
    BY <1>4 DEF Copies
  <2>4. s \in {"try", "promote"}
    OBVIOUS
  <2> HIDE DEF s
  <2> QED
    BY <2>1, <2>2, <2>3, <2>4
<1>5. CASE BeginsAttempt(g)
  <2>1. CASE dl[g].flag
    BY <1>2, <1>5, <2>1 DEF BeginsAttempt
  <2>2. CASE ~dl[g].flag
    <3>1. /\ dl[g].at = "try"
          /\ Becomes(g, [dl[g] EXCEPT !.at = "create", !.named = TRUE, !.attempt = @ + 1])
      BY <1>5, <2>2 DEF BeginsAttempt
    <3>2. dl[g].attempt < Tries
      BY <3>1 DEF GameInv, Attempts
    <3>3. Effect(g, "create", dl[g].attempt + 1, dl[g].flag, TRUE, dl[g].staged, dl[g].told)
      BY <3>1, <3>2, AttemptEffect
    <3>4. GameInv(g)'
      BY <1>1, <3>1, <3>3
      DEF Effect, GameInv, BoxKnown, NameKnown, AnswerKept, Obeyed, Staging, Attempts, SlotKnown, Watched
    <3> QED
      BY <1>1, <3>3, <3>4, WorkStep
  <2> QED
    BY <2>1, <2>2
<1>6. CASE JudgesOutcome(g)
  <2>1. dl[g].at = "after"
    BY <1>6 DEF JudgesOutcome
  <2>2. ASSUME NEW s \in {"try", "promote"}, ~dl[g].flag, s = "try" => dl[g].attempt < Tries,
               Becomes(g, [dl[g] EXCEPT !.at = s, !.named = FALSE])
        PROVE InstallsInv'
    <3>1. Effect(g, s, dl[g].attempt, dl[g].flag, FALSE, dl[g].staged, dl[g].told)
      BY <2>2, JudgedEffect, Words
    <3>2. GameInv(g)'
      BY <1>1, <2>1, <2>2, <3>1
      DEF Effect, GameInv, BoxKnown, NameKnown, AnswerKept, Obeyed, Staging, Attempts, SlotKnown, Watched
    <3> QED
      BY <1>1, <3>1, <3>2, WorkStep
  <2>3. \/ Fails(g)
        \/ ~dl[g].flag /\ Becomes(g, [dl[g] EXCEPT !.at = "promote", !.named = FALSE])
        \/ /\ ~dl[g].flag /\ dl[g].attempt < Tries
           /\ Becomes(g, [dl[g] EXCEPT !.at = "try", !.named = FALSE])
    BY <1>6 DEF JudgesOutcome
  <2> QED
    BY <1>2, <2>1, <2>2, <2>3
<1>7. CASE Promotes(g)
  <2>1. /\ dl[g].at = "promote"
        /\ Becomes(g, [dl[g] EXCEPT !.at = "end", !.staged = FALSE, !.good = TRUE])
    BY <1>7 DEF Promotes
  <2>2. Effect(g, "end", dl[g].attempt, dl[g].flag, dl[g].named, FALSE, dl[g].told)
    BY <2>1, PromotesEffect
  <2>3. GameInv(g)'
    BY <1>1, <2>1, <2>2
    DEF Effect, GameInv, BoxKnown, NameKnown, AnswerKept, Obeyed, Staging, Attempts, SlotKnown
  <2> QED
    BY <1>1, <2>2, <2>3, WorkStep
<1> QED
  BY <1>3, <1>4, <1>5, <1>6, <1>7

\* The steps of a download that make, start and remove its container.
LEMMA BoxKeepsInv ==
  ASSUME InstallsInv, NEW g \in Game,
         CreatesBox(g) \/ ChecksFlag(g) \/ StartsBox(g) \/ Awaits(g)
  PROVE  InstallsInv'
<1> USE DEF InstallsInv
<1>1. /\ DownloadOnly /\ installed' \subseteq Game /\ stop' = stop /\ slot' = slot
      /\ box' \in [Game -> {"none", "created", "running", "exited"}]
      /\ \A h \in Game \ {g} : box'[h] = box[h]
  BY DEF CreatesBox, ChecksFlag, StartsBox, Awaits, DownloadOnly, InstallsTypeOK
<1>2. dl[g].at \in {"create", "check", "start", "wait"}
  BY DEF CreatesBox, ChecksFlag, StartsBox, Awaits
<1>3. ASSUME NEW o \in Outcome, Outcomes(g, o), box'[g] = "none" PROVE InstallsInv'
  <2>1. Effect(g, "after", dl[g].attempt, dl[g].flag, dl[g].named, dl[g].staged, dl[g].told)
    BY <1>3, OutcomesEffect
  <2>2. GameInv(g)'
    BY <1>1, <1>2, <1>3, <2>1
    DEF Effect, GameInv, BoxKnown, NameKnown, AnswerKept, Obeyed, Staging, Attempts, SlotKnown, Watched
  <2> QED
    BY <1>1, <2>1, <2>2, WorkStep
<1>4. ASSUME NEW s \in {"check", "start", "wait"}, To(g, s),
             \/ s = "check" /\ box'[g] = "created"
             \/ s = "start" /\ box' = box /\ dl[g].at = "check" /\ ~dl[g].flag
             \/ s = "wait" /\ box[g] = "created" /\ box'[g] = "running" /\ dl[g].at = "start"
      PROVE InstallsInv'
  <2>1. Effect(g, s, dl[g].attempt, dl[g].flag, dl[g].named, dl[g].staged, dl[g].told)
    BY <1>4, ToEffect, Words
  <2>2. GameInv(g)'
    BY <1>1, <1>2, <1>4, <2>1
    DEF Effect, GameInv, BoxKnown, NameKnown, AnswerKept, Obeyed, Staging, Attempts, SlotKnown, Watched
  <2> QED
    BY <1>1, <2>1, <2>2, WorkStep
<1>5. CASE CreatesBox(g)
  <2>1. \/ Outcomes(g, "bad") /\ box' = box /\ dl[g].at = "create"
        \/ To(g, "check") /\ box'[g] = "created"
    BY <1>5 DEF CreatesBox, InstallsTypeOK
  <2>2. dl[g].at = "create" => box[g] = "none"
    BY DEF GameInv, BoxKnown
  <2> QED
    BY <1>3, <1>4, <2>1, <2>2, Words
<1>6. CASE ChecksFlag(g)
  <2>1. \/ Outcomes(g, "bad") /\ box'[g] = "none"
        \/ To(g, "start") /\ box' = box /\ dl[g].at = "check" /\ ~dl[g].flag
    BY <1>6 DEF ChecksFlag, InstallsTypeOK
  <2> QED
    BY <1>3, <1>4, <2>1, Words
<1>7. CASE StartsBox(g)
  <2>1. \/ Outcomes(g, "bad") /\ box' = box /\ dl[g].at = "start" /\ box[g] # "created"
        \/ To(g, "wait") /\ box[g] = "created" /\ box'[g] = "running" /\ dl[g].at = "start"
    BY <1>7 DEF StartsBox, InstallsTypeOK
  <2>2. dl[g].at = "start" => box[g] \in {"none", "created"}
    BY DEF GameInv, BoxKnown, InstallsTypeOK
  <2> QED
    BY <1>3, <1>4, <2>1, <2>2, Words
<1>8. CASE Awaits(g)
  <2>1. /\ \E o \in Outcome : Outcomes(g, o)
        /\ box'[g] = "none"
    BY <1>8, Words DEF Awaits, InstallsTypeOK
  <2> QED
    BY <1>3, <2>1
<1> QED
  BY <1>5, <1>6, <1>7, <1>8

\* The tool's end, the cancel, the removal it asks for and the watch of the disk.
LEMMA CancelKeepsInv ==
  ASSUME InstallsInv, NEW g \in Game,
         BoxExits(g) \/ Cancels(g) \/ CancelRemoves(g) \/ DiskStops(g)
  PROVE  InstallsInv'
<1> USE DEF InstallsInv
<1>1. CASE BoxExits(g) \/ CancelRemoves(g)
  <2>1. InstallsTypeOK'
    BY <1>1 DEF BoxExits, CancelRemoves, InstallsTypeOK
  <2>2. /\ dl' = dl /\ slot' = slot
        /\ \A h \in Game \ {g} : box'[h] = box[h] /\ stop'[h] = stop[h]
        /\ \/ box[g] = "running" /\ box'[g] = "exited" /\ stop'[g] = stop[g]
           \/ box'[g] = "none" /\ stop[g] = "remove" /\ stop'[g] = "answered"
    BY <1>1 DEF BoxExits, CancelRemoves, InstallsTypeOK
  <2>3. GameInv(g)'
    BY <2>2
    DEF GameInv, BoxKnown, NameKnown, AnswerKept, Obeyed, Staging, Attempts, SlotKnown
  <2> QED
    BY <2>1, <2>2, <2>3, OneGame
<1>2. CASE Cancels(g) \/ DiskStops(g)
  <2>1. Flagged(g) /\ slot' = slot
    BY <1>2 DEF Cancels, DiskStops
  <2> DEFINE t == dl[g].told \/ dl[g].at \notin {"promote", "end"}
  <2>2. Effect(g, dl[g].at, dl[g].attempt, TRUE, dl[g].named, dl[g].staged, t)
    BY <2>1, FlaggedEffect
  <2>3. InstallsTypeOK'
    <3>1. dl' \in [Game -> Download]
      BY <2>2 DEF Effect
    <3>2. CASE Cancels(g)
      BY <3>1, <3>2 DEF Cancels, InstallsTypeOK
    <3>3. CASE DiskStops(g)
      BY <3>1, <3>3 DEF DiskStops, InstallsTypeOK
    <3> QED
      BY <1>2, <3>2, <3>3
  <2>4. /\ \A h \in Game \ {g} : box'[h] = box[h] /\ stop'[h] = stop[h]
        /\ \/ box' = box /\ stop'[g] = IF dl[g].named THEN "remove" ELSE "answered"
           \/ stop' = stop /\ box'[g] = IF dl[g].named THEN "none" ELSE box[g]
    BY <1>2 DEF Cancels, DiskStops, InstallsTypeOK
  <2>5. dl[g].at = "promote" => (t <=> dl[g].told)
    OBVIOUS
  <2> HIDE DEF t
  <2>6. /\ dl'[g].at = dl[g].at /\ dl'[g].attempt = dl[g].attempt /\ dl'[g].flag = TRUE
        /\ dl'[g].named = dl[g].named /\ dl'[g].staged = dl[g].staged /\ dl'[g].told = t
        /\ \A h \in Game \ {g} : dl'[h] = dl[h]
    BY <2>2 DEF Effect
  <2>7. BoxKnown(g)' /\ NameKnown(g)' /\ Staging(g)' /\ Attempts(g)' /\ SlotKnown(g)'
    BY <2>1, <2>4, <2>6 DEF GameInv, BoxKnown, NameKnown, Staging, Attempts, SlotKnown
  <2>8. Obeyed(g)'
    BY <2>5, <2>6 DEF GameInv, Obeyed
  <2>9. AnswerKept(g)'
    BY <2>4, <2>6 DEF GameInv, BoxKnown, NameKnown, AnswerKept
  <2>10. GameInv(g)'
    BY <2>7, <2>8, <2>9 DEF GameInv
  <2> QED
    BY <2>1, <2>3, <2>4, <2>6, <2>10, OneGame
<1> QED
  BY <1>1, <1>2

LEMMA InstallsNextInv == InstallsInv /\ [InstallsNext]_installsVars => InstallsInv'
<1> SUFFICES ASSUME InstallsInv, [InstallsNext]_installsVars PROVE InstallsInv'
  OBVIOUS
<1>1. ASSUME NEW g \in Game,
             \/ DownloadStep(g) \/ BoxExits(g) \/ Holds(g) \/ LetsGo(g)
             \/ Cancels(g) \/ CancelRemoves(g) \/ DiskStops(g)
             \/ \E o \in Op : BeginDownload(g, o)
      PROVE InstallsInv'
  BY <1>1, SlotKeepsInv, WorkKeepsInv, BoxKeepsInv, CancelKeepsInv DEF DownloadStep
<1>2. ASSUME UNCHANGED <<slot, dl, box, stop>>, InstallsTypeOK' PROVE InstallsInv'
  BY <1>2
  DEF InstallsInv, GameInv, BoxKnown, NameKnown, AnswerKept, Obeyed, Staging, Attempts, SlotKnown
<1>3. CASE DiskTurns
  <2>1. disk' \in [low : BOOLEAN, times : 0 .. MaxLow]
    <3>1. disk.low \in BOOLEAN /\ disk.times \in 0 .. MaxLow
      BY DEF InstallsInv, InstallsTypeOK
    <3>2. (IF disk.low THEN disk.times ELSE disk.times + 1) \in 0 .. MaxLow
      BY <1>3, <3>1, InstallsAssumption DEF DiskTurns
    <3>3. (~disk.low) \in BOOLEAN
      OBVIOUS
    <3> QED
      BY <1>3, <3>2, <3>3, Zenon DEF DiskTurns
  <2> QED
    BY <1>2, <1>3, <2>1 DEF DiskTurns, InstallsInv, InstallsTypeOK
<1>4. CASE UNCHANGED installsVars
  BY <1>2, <1>4 DEF installsVars, InstallsInv, InstallsTypeOK
<1> QED
  BY <1>1, <1>3, <1>4 DEF InstallsNext

-----------------------------------------------------------------------------
(* The theorems.                                                           *)

\* The inductive invariant holds of every behaviour of the downloads.
THEOREM InstallsInvariant == InstallsSpec => []InstallsInv
BY InstallsInitInv, InstallsNextInv, PTL DEF InstallsSpec

\* Every variable keeps its type.
THEOREM InstallsTypes == InstallsSpec => []InstallsTypeOK
BY InstallsInvariant, PTL DEF InstallsInv

\* A cancel that has been answered has stopped the tool for good, at whatever
\* step of run_task it came.
THEOREM AnsweredCancelStops == InstallsSpec => []CancelStops
<1>1. InstallsInv => CancelStops
  BY DEF InstallsInv, GameInv, AnswerKept, CancelStops
<1> QED
  BY <1>1, InstallsInvariant, PTL

\* A download that is over leaves no staged files and no container.
THEOREM NoDebris == InstallsSpec => []NothingStaged
<1>1. InstallsInv => NothingStaged
  BY DEF InstallsInv, GameInv, BoxKnown, Staging, Watched, NothingStaged
<1> QED
  BY <1>1, InstallsInvariant, PTL

\* Both, as the run checks them: whatever way a download ends, cancelled or not,
\* no tool works on for it (docker.rs, run_task; install.rs, run_install).
THEOREM NoToolLingers == InstallsSpec => []NothingLingers
BY AnsweredCancelStops, NoDebris, PTL DEF NothingLingers

\* A download told to stop before its outcome was judged installs nothing.
THEOREM CancelledInstallsNothing == InstallsSpec => CancelHonoured
<1>1. InstallsInv /\ [InstallsNext]_installsVars
        => [\A g \in Game : g \notin installed /\ g \in installed' => ~dl[g].told]_installsVars
  <2> SUFFICES ASSUME InstallsInv, InstallsNext, NEW g \in Game, g \notin installed, g \in installed'
               PROVE ~dl[g].told
    BY DEF installsVars
  <2>1. Promotes(g)
    BY DEF InstallsNext, DownloadStep, DiskTurns, BeginDownload, TakesTurn, FindsRoom, Copies,
           BeginsAttempt, CreatesBox, ChecksFlag, StartsBox, Awaits, JudgesOutcome, Promotes,
           Finishes, BoxExits, Holds, LetsGo, Cancels, CancelRemoves, DiskStops, DownloadOnly
  <2> QED
    BY <2>1 DEF Promotes, InstallsInv, GameInv, Obeyed
<1> QED
  BY <1>1, InstallsInvariant, PTL DEF CancelHonoured, InstallsSpec

-----------------------------------------------------------------------------
(* The downloads are a DownloadQueue.  A game's slot says where its        *)
(* download stands, and the permit is with the one that runs.              *)
PermitKnown(g) ==
  /\ slot[g] = "queued" <=> dl[g].at = "queue"
  /\ slot[g] = "running" <=> dl[g].at \notin {"off", "queue"}
  /\ slot[g] = "running" <=> turn = g

\* What a step of game g does to its slot, the permit and what is installed.
Slots(g, s, t) == slot' = [slot EXCEPT ![g] = s] /\ turn' = t /\ dl'[g].at \in Stand
Stays == UNCHANGED <<slot, turn>>

Queues(g) ==
  \/ ~Active(g) /\ Slots(g, "queued", turn) /\ dl'[g].at = "queue" /\ UNCHANGED installed
  \/ dl[g].at = "queue" /\ Slots(g, "failed", turn) /\ dl'[g].at = "off" /\ UNCHANGED installed
  \/ /\ dl[g].at = "queue" /\ turn = NoGame /\ Slots(g, "running", g) /\ dl'[g].at = "room"
     /\ UNCHANGED installed
  \/ /\ dl[g].at = "end" /\ \E s \in {"done", "failed"} : Slots(g, s, NoGame)
     /\ dl'[g].at = "off" /\ UNCHANGED installed
  \/ ~Active(g) /\ Slots(g, "held", turn) /\ dl'[g].at = dl[g].at /\ UNCHANGED installed
  \/ /\ slot[g] = "held" /\ Slots(g, "idle", turn) /\ dl'[g].at = dl[g].at
     /\ installed' \in {installed, installed \ {g}}
  \/ /\ Stays /\ dl[g].at \notin {"off", "queue"} /\ dl'[g].at \notin {"off", "queue"}
     /\ installed' \in {installed, installed \cup {g}}
  \/ Stays /\ dl'[g].at = dl[g].at /\ UNCHANGED installed

OtherDownloads(g) == \A h \in Game \ {g} : dl'[h] = dl[h]

LEMMA SlotQueues ==
  ASSUME InstallsTypeOK, NEW g \in Game,
         \/ \E o \in Op : BeginDownload(g, o)
         \/ TakesTurn(g) \/ Finishes(g) \/ Holds(g) \/ LetsGo(g)
  PROVE  Queues(g) /\ OtherDownloads(g)
<1> USE DEF Queues, OtherDownloads, Slots
<1>1. dl \in [Game -> Download] /\ dl[g].at \in Stand
  BY DEF InstallsTypeOK, Download
<1>2. ASSUME NEW o \in Op, BeginDownload(g, o) PROVE Queues(g) /\ OtherDownloads(g)
  <2>1. Effect(g, "queue", 0, FALSE, FALSE, FALSE, FALSE)
    BY <1>2, BeginEffect DEF BeginDownload
  <2> QED
    BY <1>2, <2>1, Words DEF BeginDownload, Effect
<1>3. CASE TakesTurn(g) /\ dl[g].flag
  <2>1. Effect(g, "off", 0, FALSE, FALSE, dl[g].staged, FALSE)
    BY <1>3, OverEffect DEF TakesTurn
  <2> QED
    BY <1>3, <2>1, Words DEF TakesTurn, Effect
<1>4. CASE TakesTurn(g) /\ ~dl[g].flag
  <2>1. Effect(g, "room", dl[g].attempt, dl[g].flag, dl[g].named, dl[g].staged, dl[g].told)
    BY <1>4, ToEffect, Words DEF TakesTurn
  <2> QED
    BY <1>4, <2>1, Words DEF TakesTurn, Effect
<1>5. CASE Finishes(g)
  <2>1. Effect(g, "off", 0, FALSE, FALSE, dl[g].staged, FALSE)
    BY <1>5, OverEffect DEF Finishes
  <2> DEFINE s == IF dl[g].good THEN "done" ELSE "failed"
  <2>2. /\ dl[g].at = "end" /\ s \in {"done", "failed"} /\ slot' = [slot EXCEPT ![g] = s]
        /\ turn' = NoGame /\ UNCHANGED installed
    BY <1>5 DEF Finishes
  <2> HIDE DEF s
  <2> QED
    BY <2>1, <2>2, Words DEF Effect
<1>6. CASE Holds(g) \/ LetsGo(g)
  BY <1>1, <1>6 DEF Holds, LetsGo
<1> QED
  BY <1>2, <1>3, <1>4, <1>5, <1>6

\* A download at work stays at work until it is at its end.
LEMMA WorkQueues ==
  ASSUME InstallsInv, NEW g \in Game,
         \/ FindsRoom(g) \/ Copies(g) \/ BeginsAttempt(g) \/ JudgesOutcome(g) \/ Promotes(g)
         \/ CreatesBox(g) \/ ChecksFlag(g) \/ StartsBox(g) \/ Awaits(g)
  PROVE  Queues(g) /\ OtherDownloads(g)
<1> DEFINE Works == dl'[g].at \notin {"off", "queue"} /\ OtherDownloads(g)
<1> USE DEF InstallsInv
<1>1. /\ Stays /\ dl[g].at \notin {"off", "queue"} /\ installed' \in {installed, installed \cup {g}}
  BY DEF FindsRoom, Copies, BeginsAttempt, JudgesOutcome, Promotes, CreatesBox, ChecksFlag,
         StartsBox, Awaits, DownloadOnly, Stays
<1>2. ASSUME NEW s \in {"try", "promote", "check", "start", "wait"}, To(g, s) PROVE Works
  BY <1>2, ToEffect, Words DEF Effect, OtherDownloads
<1>3. ASSUME Fails(g) PROVE Works
  BY <1>3, FailsEffect DEF Effect, OtherDownloads
<1>4. ASSUME NEW o \in Outcome, Outcomes(g, o) PROVE Works
  BY <1>4, OutcomesEffect DEF Effect, OtherDownloads
<1>5. CASE FindsRoom(g)
  <2>1. ASSUME Becomes(g, [dl[g] EXCEPT !.at = "end", !.good = TRUE]) PROVE Works
    BY <2>1, GoodEffect DEF Effect, OtherDownloads
  <2>2. ASSUME NEW s \in {"try", "copy"}, Becomes(g, [dl[g] EXCEPT !.staged = TRUE, !.at = s])
        PROVE  Works
    BY <2>2, RoomEffect, Words DEF Effect, OtherDownloads
  <2> DEFINE s == IF dl[g].op = "install" THEN "try" ELSE "copy"
  <2>3. s \in {"try", "copy"}
    OBVIOUS
  <2>4. \/ Fails(g) \/ Becomes(g, [dl[g] EXCEPT !.at = "end", !.good = TRUE])
        \/ Becomes(g, [dl[g] EXCEPT !.staged = TRUE, !.at = s])
    BY <1>5 DEF FindsRoom
  <2> HIDE DEF s, Works
  <2>5. Works
    BY <1>3, <2>1, <2>2, <2>3, <2>4
  <2> QED
    BY <1>1, <2>5 DEF Works, Queues
<1>6. CASE Copies(g)
  <2> DEFINE s == IF dl[g].op = "fetch" THEN "promote" ELSE "try"
  <2>1. s \in {"try", "promote"} /\ (Fails(g) \/ To(g, s))
    BY <1>6 DEF Copies
  <2> HIDE DEF s, Works
  <2>2. Works
    BY <1>2, <1>3, <2>1
  <2> QED
    BY <1>1, <2>2 DEF Works, Queues
<1>7. CASE BeginsAttempt(g)
  <2>1. ASSUME ~dl[g].flag PROVE Works
    <3>1. /\ Becomes(g, [dl[g] EXCEPT !.at = "create", !.named = TRUE, !.attempt = @ + 1])
          /\ dl[g].attempt < Tries
      BY <1>7, <2>1 DEF BeginsAttempt, GameInv, Attempts
    <3> QED
      BY <3>1, AttemptEffect DEF Effect, OtherDownloads
  <2> HIDE DEF Works
  <2>2. Works
    BY <1>3, <1>7, <2>1 DEF BeginsAttempt
  <2> QED
    BY <1>1, <2>2 DEF Works, Queues
<1>8. CASE JudgesOutcome(g)
  <2>1. ASSUME NEW s \in {"try", "promote"}, Becomes(g, [dl[g] EXCEPT !.at = s, !.named = FALSE])
        PROVE  Works
    BY <2>1, JudgedEffect, Words DEF Effect, OtherDownloads
  <2>2. \/ Fails(g)
        \/ Becomes(g, [dl[g] EXCEPT !.at = "promote", !.named = FALSE])
        \/ Becomes(g, [dl[g] EXCEPT !.at = "try", !.named = FALSE])
    BY <1>8 DEF JudgesOutcome
  <2> HIDE DEF Works
  <2>3. Works
    BY <1>3, <2>1, <2>2
  <2> QED
    BY <1>1, <2>3 DEF Works, Queues
<1>9. CASE Promotes(g)
  <2>1. Works
    BY <1>9, PromotesEffect DEF Promotes, Effect, OtherDownloads
  <2> QED
    BY <1>1, <2>1 DEF Queues
<1>10. CASE CreatesBox(g) \/ ChecksFlag(g) \/ StartsBox(g) \/ Awaits(g)
  <2>1. \/ \E o \in Outcome : Outcomes(g, o)
        \/ To(g, "check") \/ To(g, "start") \/ To(g, "wait")
    BY <1>10, Words DEF CreatesBox, ChecksFlag, StartsBox, Awaits
  <2> HIDE DEF Works
  <2>2. Works
    BY <1>2, <1>4, <2>1
  <2> QED
    BY <1>1, <2>2 DEF Works, Queues
<1> QED
  BY <1>5, <1>6, <1>7, <1>8, <1>9, <1>10

LEMMA CancelQueues ==
  ASSUME InstallsTypeOK, NEW g \in Game,
         BoxExits(g) \/ Cancels(g) \/ CancelRemoves(g) \/ DiskStops(g)
  PROVE  Queues(g) /\ OtherDownloads(g)
<1>1. CASE Cancels(g) \/ DiskStops(g)
  <2>1. Flagged(g) /\ Stays /\ UNCHANGED installed
    BY <1>1 DEF Cancels, DiskStops, Stays
  <2> QED
    BY <2>1, FlaggedEffect DEF Effect, Queues, OtherDownloads
<1>2. CASE BoxExits(g) \/ CancelRemoves(g)
  BY <1>2 DEF BoxExits, CancelRemoves, Stays, Queues, OtherDownloads
<1> QED
  BY <1>1, <1>2

\* Every step is one of these, or of the disk.
LEMMA NextQueues ==
  ASSUME InstallsInv, [InstallsNext]_installsVars
  PROVE  \/ \E g \in Game : Queues(g) /\ OtherDownloads(g)
         \/ UNCHANGED <<slot, turn, dl, installed>>
BY SlotQueues, WorkQueues, CancelQueues
   DEF InstallsInv, InstallsNext, DownloadStep, DiskTurns, installsVars

LEMMA QueuesKeepsPermit ==
  ASSUME InstallsTypeOK, NEW g \in Game, Queues(g), OtherDownloads(g),
         \A h \in Game : PermitKnown(h)
  PROVE  \A h \in Game : PermitKnown(h)'
<1>1. slot \in [Game -> {"idle", "queued", "running", "held", "done", "failed"}]
      /\ dl[g].at \in Stand /\ NoGame \notin Game
  BY InstallsAssumption DEF InstallsTypeOK, Download
<1>2. PermitKnown(g)
  OBVIOUS
<1>3. PermitKnown(g)'
  BY <1>1, <1>2 DEF Queues, Slots, Stays, PermitKnown, Active
<1>4. ASSUME NEW h \in Game, h # g PROVE PermitKnown(h)'
  <2>1. PermitKnown(h) /\ slot'[h] = slot[h] /\ dl'[h] = dl[h]
    BY <1>1, <1>4 DEF Queues, Slots, Stays, OtherDownloads
  <2>2. turn' = h <=> turn = h
    BY <1>1, <1>2, <1>4 DEF Queues, Slots, Stays, PermitKnown
  <2> QED
    BY <2>1, <2>2 DEF PermitKnown
<1> QED
  BY <1>3, <1>4

\* A step of a game is a step of the queue, or one it does not see.
LEMMA QueuesImplements ==
  ASSUME InstallsTypeOK, NEW g \in Game, Queues(g), \A h \in Game : PermitKnown(h)
  PROVE  [\E h \in Game : Queue!QueueStep(h)]_(Queue!queueVars)
<1> DEFINE waiting == {h \in Game : slot[h] = "queued"}
<1>1. slot \in [Game -> {"idle", "queued", "running", "held", "done", "failed"}]
      /\ dl[g].at \in Stand /\ NoGame \notin Game /\ PermitKnown(g)
  BY InstallsAssumption DEF InstallsTypeOK, Download
<1>2. CASE ~Active(g) /\ Slots(g, "queued", turn) /\ UNCHANGED installed
  <2>1. waiting' = waiting \cup {g} /\ g \notin waiting /\ turn # g
    BY <1>1, <1>2 DEF Slots, Active, PermitKnown
  <2> QED
    BY <1>2, <2>1 DEF Slots, Queue!Join, Queue!InQueue, Queue!QueueStep
<1>3. CASE dl[g].at = "queue" /\ Slots(g, "failed", turn) /\ UNCHANGED installed
  <2>1. waiting' = waiting \ {g} /\ g \in waiting
    BY <1>1, <1>3 DEF Slots, PermitKnown
  <2> QED
    BY <1>3, <2>1 DEF Slots, Queue!Leave, Queue!QueueStep
<1>4. CASE dl[g].at = "queue" /\ turn = NoGame /\ Slots(g, "running", g) /\ UNCHANGED installed
  <2>1. waiting' = waiting \ {g} /\ g \in waiting
    BY <1>1, <1>4 DEF Slots, PermitKnown
  <2> QED
    BY <1>4, <2>1 DEF Slots, Queue!Turn, Queue!QueueStep
<1>5. CASE dl[g].at = "end" /\ (\E s \in {"done", "failed"} : Slots(g, s, NoGame)) /\ UNCHANGED installed
  <2>1. waiting' = waiting /\ turn = g
    BY <1>1, <1>5 DEF Slots, PermitKnown
  <2> QED
    BY <1>5, <2>1 DEF Slots, Queue!Finish, Queue!QueueStep
<1>6. CASE ~Active(g) /\ Slots(g, "held", turn) /\ UNCHANGED installed
  <2>1. waiting' = waiting
    BY <1>1, <1>6 DEF Slots, Active
  <2> QED
    BY <1>6, <2>1 DEF Slots, Queue!queueVars
<1>7. CASE slot[g] = "held" /\ Slots(g, "idle", turn) /\ installed' \in {installed, installed \ {g}}
  <2>1. waiting' = waiting /\ g \notin waiting /\ turn # g
    BY <1>1, <1>7 DEF Slots, PermitKnown
  <2> QED
    BY <1>7, <2>1 DEF Slots, Queue!Delete, Queue!InQueue, Queue!QueueStep, Queue!queueVars
<1>8. CASE Stays /\ dl[g].at \notin {"off", "queue"} /\ installed' \in {installed, installed \cup {g}}
  <2>1. turn = g
    BY <1>1, <1>8 DEF PermitKnown
  <2> QED
    BY <1>8, <2>1 DEF Stays, Queue!Install, Queue!QueueStep, Queue!queueVars
<1>9. CASE Stays /\ UNCHANGED installed
  BY <1>9 DEF Stays, Queue!queueVars
<1> QED
  BY <1>2, <1>3, <1>4, <1>5, <1>6, <1>7, <1>8, <1>9 DEF Queues

\* Installs.tasks and the one permit are a queue of downloads, however they are
\* cancelled, fail and are asked for again.
THEOREM DownloadsQueue == InstallsSpec => QueueKept
<1>1. InstallsInit => Queue!Init /\ \A g \in Game : PermitKnown(g)
  BY InstallsAssumption DEF InstallsInit, Off, Queue!Init, PermitKnown
<1>2. InstallsInv /\ (\A g \in Game : PermitKnown(g)) /\ [InstallsNext]_installsVars
        => /\ (\A g \in Game : PermitKnown(g))'
           /\ [\E g \in Game : Queue!QueueStep(g)]_(Queue!queueVars)
  <2> SUFFICES ASSUME InstallsInv, \A g \in Game : PermitKnown(g), [InstallsNext]_installsVars
               PROVE  /\ \A g \in Game : PermitKnown(g)'
                      /\ [\E g \in Game : Queue!QueueStep(g)]_(Queue!queueVars)
    OBVIOUS
  <2>1. CASE \E g \in Game : Queues(g) /\ OtherDownloads(g)
    BY <2>1, QueuesKeepsPermit, QueuesImplements DEF InstallsInv
  <2>2. CASE UNCHANGED <<slot, turn, dl, installed>>
    BY <2>2 DEF PermitKnown, Queue!queueVars
  <2> QED
    BY <2>1, <2>2, NextQueues
<1> QED
  BY <1>1, <1>2, InstallsInvariant, PTL DEF InstallsSpec, QueueKept, Queue!Spec

(***************************************************************************)
(* The parts together (MCParts).                                           *)
(***************************************************************************)
\* Composed, the crash watch, the port allocator, a room and the index's requests
\* each behave as they do alone: whichever part moves, the others stutter.
THEOREM EachPartRuns == PartsSpec => Spec /\ PortsSpec /\ LanRoomSpec /\ HostingSpec
<1>1. PartsInit => Init /\ PortsInit /\ LanRoomInit /\ HostingInit
  BY DEF PartsInit
<1>2. [PartsNext]_partsVars =>
        [Next]_vars /\ [PortsNext]_portsVars /\ [LanRoomNext]_roomVars /\ [HostingNext]_hostingVars
  <2> SUFFICES ASSUME [PartsNext]_partsVars
               PROVE  /\ [Next]_vars /\ [PortsNext]_portsVars
                      /\ [LanRoomNext]_roomVars /\ [HostingNext]_hostingVars
    OBVIOUS
  <2>1. CASE UNCHANGED partsVars
    BY <2>1 DEF partsVars
  <2>2. CASE PartsNext
    BY <2>2 DEF PartsNext
  <2> QED
    BY <2>1, <2>2
<1> QED
  BY <1>1, <1>2, PTL DEF PartsSpec, Spec, PortsSpec, LanRoomSpec, HostingSpec

\* What each part holds stays what its code declares (crash-watch memory, port
\* queue, room table, request counts), for every value of every constant.
THEOREM PartsTyped == PartsSpec => []PartsTypeOK
<1>1. TypeOK /\ (PortsTypeOK /\ Partition) /\ RoomTypeOK /\ HostingTypeOK => PartsTypeOK
  BY DEF PartsTypeOK
<1> QED
  BY <1>1, EachPartRuns, WatchTypeCorrect, PortsPartitioned, RoomTyped, HostingTyped, PTL

=============================================================================
