------------------------------- MODULE Sweeps -------------------------------
(***************************************************************************)
(* The index's sweep: every minute it stops the servers nobody plays on    *)
(* and removes those stopped too long (platform-index, main.rs and         *)
(* hosting.rs, reap_idle and expire_stopped, under the policy of           *)
(* quota.rs).  Both act from a listing that grows old while they work:     *)
(* the owners start, stop and remove servers meanwhile, players come and   *)
(* go, and the operator may reload the policy.                             *)
(*                                                                         *)
(* A node is silent during an outage: a listing leaves its servers out and *)
(* a call to it fails.  One that answers lists as many of its servers as   *)
(* one link packet holds, and the index does not look at the mark of a     *)
(* reply that was cut.  Which are left out hangs on the order of Docker's  *)
(* own listing, and is open here.  Ages are counted in ticks, up to        *)
(* MaxAge, which is past every limit.                                      *)
(***************************************************************************)
EXTENDS Naturals, FiniteSets

CONSTANTS
  Servers,  \* bound: servers ever made
  Node,     \* the nodes of the hosting file
  RowsFit,  \* servers one reply of a node can list (encode_list_resp)
  Owner,    \* accounts
  Idle,     \* idle_timeout
  MinLife,  \* min_lifetime
  Expiry,   \* stopped_expiry
  MaxAge,   \* bound: ages count no further
  MaxOutage \* bound: outages

ASSUME SweepsAssumption ==
  /\ Servers \in Nat /\ RowsFit \in Nat /\ Idle \in Nat /\ MinLife \in Nat /\ Expiry \in Nat /\ MaxAge \in Nat
  /\ MaxAge > MinLife + Idle /\ MaxAge >= Expiry /\ MaxOutage \in Nat

VARIABLES
  srv,     \* the servers, as their nodes see them
  keep,    \* accounts the policy in force marks never_reap
  sweep,   \* the sweep: where it stands, what it is still to stop or remove
  touched, \* servers started, stopped, joined or left since the sweep's listing
  silent,  \* nodes that do not answer
  outages  \* outages so far

sweepsVars == <<srv, keep, sweep, touched, silent, outages>>
net == <<silent, outages>>

\* Ids are random; servers are numbered in the order of their ids, which is that
\* of every listing.
Server == 1 .. Servers

\* A game that cannot be asked, or did not answer, has an unknown number of
\* players: never zero.
Players == {"unknown", "none", "some"}
Age == 0 .. MaxAge
Absent(st, a, n) ==
  [st |-> st, acct |-> a, node |-> n, players |-> "unknown", age |-> 0, down |-> 0]

SweepsTypeOK ==
  /\ srv \in [Server -> [st : {"unmade", "running", "stopped", "gone"}, acct : Owner,
                     node : Node, players : Players, age : Age, down : Age]]
  /\ keep \subseteq Owner
  /\ sweep \in [at : {"rest", "stop", "list", "expire"}, rows : SUBSET Server]
  /\ touched \subseteq Server
  /\ silent \subseteq Node /\ outages \in 0 .. MaxOutage

SweepsInit ==
  /\ srv \in [Server -> {Absent("unmade", a, n) : a \in Owner, n \in Node}]
  /\ keep = {}
  /\ sweep = [at |-> "rest", rows |-> {}]
  /\ touched = {} /\ silent = {} /\ outages = 0

Answers == {i \in Server : srv[i].node \notin silent}
Standing == {i \in Server : srv[i].st \in {"running", "stopped"}}
On(n) == {i \in Standing : srv[i].node = n}

\* One reply holds all of the node's servers.
ListsAll(n) == Cardinality(On(n)) <= RowsFit

\* Server i goes, whoever removes it.
Removed(i) ==
  srv' = [srv EXCEPT ![i] = Absent("gone", srv[i].acct, srv[i].node)]

\* A server that was stopped stays stopped since when it was.
Stops(i) ==
  srv' = [srv EXCEPT ![i].st = "stopped", ![i].players = "unknown"]

(***************************************************************************)
(* The sweep.  It lists, stops one by one what to_reap picked, lists       *)
(* again and removes one by one what has expired.                          *)
(***************************************************************************)

\* Mutant of Reapable: a game nobody could ask is taken for empty.
ReapableUnasked(i) ==
  /\ srv[i].acct \notin keep /\ srv[i].players # "some"
  /\ srv[i].age >= MinLife /\ srv[i].age > MinLife + Idle

\* record_for and to_reap: an unknown number of players pins a server, and so
\* does never_reap; the age is the container's, started again or not.
Reapable(i) ==
  /\ srv[i].players # "unknown" /\ srv[i].acct \notin keep
  /\ srv[i].players # "some"
  /\ srv[i].age >= MinLife /\ srv[i].age > MinLife + Idle

\* stopped_expired, of a server the node says is stopped.
Expired(i) == srv[i].st = "stopped" /\ srv[i].acct \notin keep /\ srv[i].down >= Expiry

\* all_instances: of the servers there are, those on nodes that answer, and of
\* a node with too many for one reply as many as it holds.
Listings ==
  {L \in SUBSET (Standing \cap Answers) : \A n \in Node \ silent :
     IF ListsAll(n) THEN On(n) \subseteq L ELSE Cardinality(L \cap On(n)) = RowsFit}

SweepLists ==
  /\ sweep.at = "rest"
  /\ \E L \in Listings : sweep' = [at |-> "stop", rows |-> {i \in L : Reapable(i)}]
  /\ touched' = {}
  /\ UNCHANGED <<srv, keep, net>>

\* The rows are worked through in the order of the listing.
Turn(i) == i \in sweep.rows /\ \A j \in sweep.rows : i <= j

SweepStops(i) ==
  /\ sweep.at = "stop" /\ Turn(i) /\ i \in Standing \cap Answers
  /\ sweep' = [sweep EXCEPT !.rows = @ \ {i}]
  /\ Stops(i)
  /\ UNCHANGED <<keep, touched, net>>

\* Mutant of SweepSkips: the sweep asks the node again until it answers.
SweepSkipsNever(i) ==
  /\ Turn(i) /\ i \notin Standing \cap Answers
  /\ UNCHANGED <<srv, keep, sweep, touched, net>>

\* A node that does not answer, or has no such server, is logged and skipped.
SweepSkips(i) ==
  /\ Turn(i) /\ i \notin Standing \cap Answers
  /\ sweep' = [sweep EXCEPT !.rows = @ \ {i}]
  /\ UNCHANGED <<srv, keep, touched, net>>

SweepTurns ==
  /\ sweep.at = "stop" /\ sweep.rows = {}
  /\ sweep' = [sweep EXCEPT !.at = "list"]
  /\ UNCHANGED <<srv, keep, touched, net>>

SweepListsAgain ==
  /\ sweep.at = "list"
  /\ \E L \in Listings : sweep' = [at |-> "expire", rows |-> {i \in L : Expired(i)}]
  /\ touched' = {}
  /\ UNCHANGED <<srv, keep, net>>

SweepRemoves(i) ==
  /\ sweep.at = "expire" /\ Turn(i) /\ i \in Standing \cap Answers
  /\ sweep' = [sweep EXCEPT !.rows = @ \ {i}]
  /\ Removed(i)
  /\ UNCHANGED <<keep, touched, net>>

SweepRests ==
  /\ sweep.at = "expire" /\ sweep.rows = {}
  /\ sweep' = [sweep EXCEPT !.at = "rest"]
  /\ UNCHANGED <<srv, keep, touched, net>>

(***************************************************************************)
(* Everyone else.                                                          *)
(***************************************************************************)
Made(i) ==
  /\ srv[i].st = "unmade"
  /\ srv' = [srv EXCEPT ![i].st = "running"]
  /\ UNCHANGED <<keep, sweep, touched, net>>

\* The same container, so the age goes on.
StartsAgain(i) ==
  /\ srv[i].st = "stopped"
  /\ srv' = [srv EXCEPT ![i].st = "running", ![i].down = 0]
  /\ touched' = touched \cup {i}
  /\ UNCHANGED <<keep, sweep, net>>

\* By the owner, or by itself.
StopsAlone(i) ==
  /\ srv[i].st = "running" /\ Stops(i)
  /\ touched' = touched \cup {i}
  /\ UNCHANGED <<keep, sweep, net>>

OwnerDestroys(i) == i \in Standing /\ Removed(i) /\ UNCHANGED <<keep, sweep, touched, net>>

\* Players join and leave; a query is answered or not.
PlayersChange(i) ==
  /\ srv[i].st = "running"
  /\ \E p \in Players : srv' = [srv EXCEPT ![i].players = p]
  /\ touched' = touched \cup {i}
  /\ UNCHANGED <<keep, sweep, net>>

Older(n) == IF n < MaxAge THEN n + 1 ELSE n

Tick ==
  /\ srv' = [i \in Server |->
       IF i \notin Standing THEN srv[i]
       ELSE [srv[i] EXCEPT !.age = Older(@),
                           !.down = IF srv[i].st = "stopped" THEN Older(@) ELSE 0]]
  /\ UNCHANGED <<keep, sweep, touched, net>>

\* The operator's file is read again; a sweep goes on under the old one.
Reload(k) ==
  /\ keep' = k
  /\ UNCHANGED <<srv, sweep, touched, net>>

Outage(n) ==
  /\ outages < MaxOutage
  /\ outages' = outages + 1 /\ silent' = silent \cup {n}
  /\ UNCHANGED <<srv, keep, sweep, touched>>

Recovers(n) ==
  /\ n \in silent
  /\ silent' = silent \ {n}
  /\ UNCHANGED <<srv, keep, sweep, touched, outages>>

SweepStep ==
  \/ SweepLists \/ SweepListsAgain
  \/ \E i \in Server : SweepStops(i) \/ SweepSkips(i) \/ SweepRemoves(i)
  \/ SweepTurns \/ SweepRests

SweepsNext ==
  \/ SweepStep
  \/ \E i \in Server : Made(i) \/ StartsAgain(i) \/ StopsAlone(i) \/ OwnerDestroys(i) \/ PlayersChange(i)
  \/ \E n \in Node : Outage(n) \/ Recovers(n)
  \/ Tick
  \/ \E k \in SUBSET Owner : Reload(k)

\* Time passes, the sweep runs every minute, outages end.
SweepsFairness ==
  /\ WF_sweepsVars(Tick) /\ WF_sweepsVars(SweepStep)
  /\ \A n \in Node : WF_sweepsVars(Recovers(n))

SweepsSpec == SweepsInit /\ [][SweepsNext]_sweepsVars /\ SweepsFairness

(***************************************************************************)
(* Properties.                                                             *)
(***************************************************************************)

\* Players who stay are not thrown out: a server the sweep stops is known to be
\* empty, unless something happened to it after the listing the sweep works
\* from.  A game nobody can ask is never known to be empty.
ReapedWasEmpty ==
  [][\A i \in Server : sweep.at = "stop" /\ i \in sweep.rows \ sweep'.rows
                     /\ srv[i].st = "running" /\ srv'[i].st = "stopped"
                   => srv[i].players = "none" \/ i \in touched]_sweepsVars

\* A server the sweep removes has been down for as long as the operator allows,
\* unless somebody started it after the listing: that one is removed running.
RemovedWasDown ==
  [][\A i \in Server : sweep.at = "expire" /\ i \in sweep.rows \ sweep'.rows
                     /\ i \in Standing /\ i \notin Standing'
                   => srv[i].down >= Expiry \/ i \in touched]_sweepsVars

\* What the sweep spares, as its rules say: of what it stops and of what it removes.
SweepSpares == ReapedWasEmpty /\ RemovedWasDown

\* A server that stays up and known to be empty is stopped in the end, and one
\* that stays stopped is removed, unless its account is kept or its node has
\* more servers than one reply holds: no refusal, silence or reload puts it off
\* for ever.  On such a node the same server can be left out of every listing,
\* and then nothing sweeps it.
Sweepable(i) == srv[i].acct \notin keep /\ ListsAll(srv[i].node)

SweptInTheEnd ==
  \A i \in Server :
    /\ []<>~(srv[i].st = "running" /\ srv[i].players = "none" /\ Sweepable(i))
    /\ []<>~(srv[i].st = "stopped" /\ Sweepable(i))

=============================================================================
