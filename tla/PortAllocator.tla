--------------------------- MODULE PortAllocator ----------------------------
(***************************************************************************)
(* ports.rs: the queue of a node's free host ports.  The agent keeps it    *)
(* behind one lock and a call never waits while it holds it, so one call   *)
(* runs at a time; its loops are modelled a slot and a port at a step, for *)
(* what they have done so far when they fail half way.                     *)
(***************************************************************************)
EXTENDS Naturals, Sequences, FiniteSets

CONSTANTS
  First, Last,    \* the node's port range (config.rs, PortRange)
  Outside,        \* ports outside it that older servers may still have
  Any,            \* a slot that takes whatever port is next
  MaxSlots        \* bound: channels of one game

ASSUME RangeAssumption == First \in Nat /\ Last \in Nat /\ First <= Last
ASSUME SlotsAssumption ==
  Outside \cap (First..Last) = {} /\ Any \notin Outside \cup (First..Last) /\ MaxSlots \in Nat

InRange  == First..Last
AllPorts == InRange \cup Outside
Slot     == AllPorts \cup {Any}

VARIABLES
  free,     \* PortAllocator.free, the front first
  held,     \* PortAllocator.held
  op,       \* the call in progress: what is left to do, and what it took
  ahead     \* ghost: the ports that were free when each port was freed and
            \* that nobody has been handed since

portsVars == <<free, held, op, ahead>>

Lists(S, n) == UNION {[1..k -> S] : k \in 0..n}
Elements(s) == {s[k] : k \in 1..Len(s)}

NoOp == [at |-> "idle", slots |-> <<>>, ports |-> <<>>]

PortsTypeOK ==
  /\ free \in Seq(InRange)
  /\ held \in SUBSET AllPorts
  /\ op \in [at : {"idle", "acquire", "undo", "release"}, slots : Seq(Slot), ports : Seq(AllPorts)]
  /\ ahead \in [InRange -> SUBSET InRange]

-----------------------------------------------------------------------------

\* VecDeque::retain(p != port) on a queue that has a port at most once.
Without(s, p) ==
  IF p \notin Elements(s) THEN s
  ELSE LET at == CHOOSE k \in 1..Len(s) : s[k] = p
       IN  [k \in 1..(Len(s) - 1) |-> IF k < at THEN s[k] ELSE s[k + 1]]

Handed(p) == ahead' = [q \in InRange |-> ahead[q] \ {p}]

-----------------------------------------------------------------------------
(* Acquire: every slot gets its port, or no slot does.                     *)

Acquire(req) ==
  /\ op.at = "idle"
  /\ op' = [at |-> "acquire", slots |-> req, ports |-> <<>>]
  /\ UNCHANGED <<free, held, ahead>>

Got(p) ==
  /\ held' = held \cup {p}
  /\ op' = [op EXCEPT !.slots = Tail(@), !.ports = Append(@, p)]
  /\ Handed(p)

\* allocate: the front of the queue.
Allocate ==
  /\ op.at = "acquire" /\ op.slots # <<>> /\ Head(op.slots) = Any
  /\ free # <<>>
  /\ free' = Tail(free)
  /\ Got(Head(free))

\* reserve: one port the request names.
Reserve ==
  /\ op.at = "acquire" /\ op.slots # <<>>
  /\ Head(op.slots) \in InRange \ held
  /\ free' = Without(free, Head(op.slots))
  /\ Got(Head(op.slots))

\* Mutant of Refuse: the error is returned before the set is given back.
RefuseKeeps ==
  /\ op.at = "acquire" /\ op.slots # <<>>
  /\ \/ Head(op.slots) = Any /\ free = <<>>
     \/ Head(op.slots) \in Outside \cup held
  /\ op' = NoOp
  /\ UNCHANGED <<free, held, ahead>>

\* The queue is empty, the port is out of range or somebody's: what the
\* earlier slots got goes back.
Refuse ==
  /\ op.at = "acquire" /\ op.slots # <<>>
  /\ \/ Head(op.slots) = Any /\ free = <<>>
     \/ Head(op.slots) \in Outside \cup held
  /\ op' = [op EXCEPT !.at = "undo", !.slots = <<>>]
  /\ UNCHANGED <<free, held, ahead>>

Acquired ==
  /\ op.at = "acquire" /\ op.slots = <<>>
  /\ op' = NoOp
  /\ UNCHANGED <<free, held, ahead>>

-----------------------------------------------------------------------------
(* Release: a server's ports, as its container lists them, held or not.    *)

Release(ports) ==
  /\ op.at = "idle"
  /\ op' = [at |-> "release", slots |-> <<>>, ports |-> ports]
  /\ UNCHANGED <<free, held, ahead>>

\* Mutant of PutBack: to the front of the queue.
PutBackFirst(p) ==
  IF p \in held \cap InRange
  THEN free' = <<p>> \o free /\ ahead' = [ahead EXCEPT ![p] = Elements(free)]
  ELSE UNCHANGED <<free, ahead>>

\* Mutant of PutBack: a port the range no longer has joins the queue.
PutBackOutside(p) ==
  IF p \in held
  THEN free' = Append(free, p) /\ ahead' = [ahead EXCEPT ![p] = Elements(free)]
  ELSE UNCHANGED <<free, ahead>>

\* To the back of the queue, if it was held and still is of the range.
PutBack(p) ==
  IF p \in held \cap InRange
  THEN free' = Append(free, p) /\ ahead' = [ahead EXCEPT ![p] = Elements(free)]
  ELSE UNCHANGED <<free, ahead>>

\* One turn of release_all, which undoes a refused set too.
GiveOne ==
  /\ op.at \in {"undo", "release"} /\ op.ports # <<>>
  /\ held' = held \ {Head(op.ports)}
  /\ PutBack(Head(op.ports))
  /\ op' = [op EXCEPT !.ports = Tail(@)]

Given ==
  /\ op.at \in {"undo", "release"} /\ op.ports = <<>>
  /\ op' = NoOp
  /\ UNCHANGED <<free, held, ahead>>

-----------------------------------------------------------------------------

\* PortAllocator::with_reserved: the range in order, without the ports of the
\* containers there are; theirs are held, those outside the range as well.
PortsInit ==
  /\ held \in SUBSET AllPorts
  /\ \E n \in 0..Cardinality(InRange) : free \in [1..n -> InRange \ held]
  /\ Elements(free) = InRange \ held
  /\ \A j, k \in 1..Len(free) : j < k => free[j] < free[k]
  /\ op = NoOp
  /\ ahead = [p \in InRange |-> {}]

PortsNext ==
  \/ \E req \in Lists(Slot, MaxSlots) : Acquire(req)
  \/ Allocate \/ Reserve \/ Refuse \/ Acquired
  \/ \E ports \in Lists(AllPorts, MaxSlots) : Release(ports)
  \/ GiveOne \/ Given

PortsSpec == PortsInit /\ [][PortsNext]_portsVars

-----------------------------------------------------------------------------
(* What has to hold.                                                       *)

\* A port of the range is in the queue once or somebody's, never both and
\* never lost: strays released, sets undone half way and the ports of servers
\* from before a restart included.
Partition ==
  /\ Elements(free) = InRange \ held
  /\ \A j, k \in 1..Len(free) : free[j] = free[k] => j = k

\* A freed port rests (ports.rs: "comes back only once nothing else is free"):
\* who asks for any port gets one only after every port that was free before
\* it has been handed out since, however many refused sets were put back.
Rested ==
  [][\A p \in InRange :
       (Allocate /\ p \in held' \ held) => ahead[p] \cap Elements(free) = {}]_portsVars

\* Seen from outside, a set is taken whole or not at all: ports of a set that
\* is not complete, or is being undone, are not in use yet.
Pending == IF op.at \in {"acquire", "undo"} THEN Elements(op.ports) ELSE {}

Asked   == IF op.at = "acquire" THEN Len(op.slots) + Len(op.ports) ELSE 0

Pool == INSTANCE PortPool WITH used <- held \ Pending, asked <- Asked
PoolSpec == Pool!Spec

=============================================================================
