---------------------------- MODULE HostingProofs ----------------------------
(***************************************************************************)
(* What holds of hosting for any number of nodes, servers and requests.    *)
(*                                                                         *)
(* Erasing: when a reply can list all there is on a node, an erase that    *)
(* reports done has left no server that stood when it was asked for.       *)
(* (With more servers than fit in a reply it does not hold: the assumption *)
(* on RowsFit is the whole difference.)  The servers of the account that   *)
(* were there before and still are stand on nodes not asked yet or are on  *)
(* the erase's list, and none comes back under an id an erase remembers.   *)
(*                                                                         *)
(* The limits: an account goes over them by less than there are requests   *)
(* at once.  A request is judged by what it has counted and what stands on *)
(* nodes it has not asked, or by the limit when that is less; in every     *)
(* group of requests under way there is one for which all that is held and *)
(* one more for each of the group is still within that and the number of   *)
(* requests.  Whoever creates next leaves the group, and the rest still    *)
(* has one.  A reply that leaves backups out has named as many as the cap  *)
(* (RepliesSuffice), so the request that counted it makes none.            *)
(*                                                                         *)
(* The types: the limits' argument needs only some of them, and all hold   *)
(* by themselves: what is heard is counted, what is asked next is a node.  *)
(***************************************************************************)
EXTENDS Hosting, Integers, FiniteSetTheorems, TLAPS

\* A request has the fields it began with.
IsRequest(r) ==
  r = [at |-> r.at, who |-> r.who, ask |-> r.ask, mine |-> r.mine, all |-> r.all,
       deaf |-> r.deaf, rows |-> r.rows, before |-> r.before, now |-> r.now]

\* What an erase knows of the servers it is to remove: all on the nodes it has
\* asked, and at the end all of them.
Covers(r) ==
  /\ r.at = "erase" =>
       /\ r.ask \in Node
       /\ \A i \in r.before \cap Owned(r.who) : on[i] < r.ask => i \in r.rows
  /\ r.at \in {"pick", "clear"} => r.before \cap Owned(r.who) \subseteq r.rows

EraseInv ==
  /\ on \in [Instance -> Node \cup {Nowhere}] /\ owner = [i \in Instance |-> owner[i]]
  /\ call = [t \in Caller |-> call[t]]
  /\ \A t \in Caller : IsRequest(call[t]) /\ Covers(call[t])
  /\ missed = {}

\* A server a request remembers stays where it is, and its owner's, or goes.
Remembered ==
  \A t \in Caller : \A i \in call[t].before \cap Instance :
    on'[i] \in {on[i], Nowhere} /\ (on'[i] # Nowhere => owner'[i] = owner[i])

OwnedNext(a) == {i \in Instance : on'[i] # Nowhere /\ owner'[i] = a}

\* What Covers says of a request after the step.
CoversNext(r) ==
  /\ r.at = "erase" =>
       /\ r.ask \in Node
       /\ \A i \in r.before \cap OwnedNext(r.who) : on'[i] < r.ask => i \in r.rows
  /\ r.at \in {"pick", "clear"} => r.before \cap OwnedNext(r.who) \subseteq r.rows

\* A reply that fits lists all there is.
LEMMA WholeReply ==
  ASSUME RowsFit >= Cardinality(Instance), NEW n, NEW S \in Replies(n)
  PROVE  S = Here(n)
<1>1. IsFiniteSet(Instance) /\ Here(n) \in SUBSET Instance /\ RowsFit \in Nat
  BY HostingAssumption DEF Here
<1>2. /\ IsFiniteSet(Here(n)) /\ Cardinality(Here(n)) <= Cardinality(Instance)
  BY <1>1, FS_Subset
<1>3. Cardinality(Instance) \in Nat /\ Cardinality(Here(n)) \in Nat
  BY <1>1, <1>2, FS_CardinalityType
<1>4. Min({RowsFit, Cardinality(Here(n))}) = Cardinality(Here(n))
  BY <1>1, <1>2, <1>3 DEF Min
<1>5. S \in SUBSET Here(n) /\ Cardinality(S) = Cardinality(Here(n))
  BY <1>4 DEF Replies
<1> QED
  BY <1>2, <1>5, FS_Subset

LEMMA EraseInitInv == HostingInit => EraseInv
<1> SUFFICES ASSUME HostingInit PROVE EraseInv
  OBVIOUS
<1>1. IsRequest(NoCall) /\ NoCall.at = "free"
  BY DEF NoCall, Request, IsRequest
<1> HIDE DEF NoCall
<1>2. \A t \in Caller : call[t] = NoCall
  BY DEF HostingInit
<1>3. \A t \in Caller : IsRequest(call[t]) /\ Covers(call[t])
  BY <1>1, <1>2 DEF Covers
<1> QED
  BY <1>3 DEF HostingInit, EraseInv

\* What is known of a request a step does not change stays true.
LEMMA ListsKept ==
  ASSUME EraseInv, Remembered, NEW t \in Caller
  PROVE  CoversNext(call[t])
<1>1. call[t].before \cap OwnedNext(call[t].who) \subseteq call[t].before \cap Owned(call[t].who)
  BY DEF Remembered, OwnedNext, Owned, HeldServers, EraseInv
<1>2. \A i \in call[t].before \cap OwnedNext(call[t].who) : on'[i] = on[i]
  BY DEF Remembered, OwnedNext
<1>3. Covers(call[t])
  BY DEF EraseInv
<1> QED
  BY <1>1, <1>2, <1>3 DEF Covers, CoversNext

\* A step of one request, and perhaps of the servers, keeps the invariant when
\* what becomes of the request lists what it has to.
LEMMA OneRequest ==
  ASSUME EraseInv, NEW t \in Caller, NEW r, call' = [call EXCEPT ![t] = r],
         IsRequest(r), CoversNext(r), Remembered, missed' = {},
         on' \in [Instance -> Node \cup {Nowhere}], owner' = [i \in Instance |-> owner'[i]]
  PROVE  EraseInv'
<1>1. \A s \in Caller : call'[s] = IF s = t THEN r ELSE call[s]
  BY DEF EraseInv
<1>2. call' = [s \in Caller |-> call'[s]]
  BY <1>1 DEF EraseInv
<1>3. \A s \in Caller : IsRequest(call'[s]) /\ CoversNext(call'[s])
  BY <1>1, ListsKept DEF EraseInv
<1>4. \A s \in Caller : Covers(call[s])'
  BY <1>3 DEF Covers, CoversNext, Owned, OwnedNext, HeldServers
<1>5. \A s \in Caller : IsRequest(call[s])'
  BY <1>3 DEF IsRequest
<1> QED
  BY <1>2, <1>4, <1>5 DEF EraseInv

\* A step of the servers alone.
LEMMA NoRequest ==
  ASSUME EraseInv, call' = call, Remembered, missed' = {},
         on' \in [Instance -> Node \cup {Nowhere}], owner' = [i \in Instance |-> owner'[i]]
  PROVE  EraseInv'
<1>1. \A s \in Caller : CoversNext(call[s])
  BY ListsKept
<1>2. \A s \in Caller : Covers(call[s])'
  BY <1>1 DEF Covers, CoversNext, Owned, OwnedNext, HeldServers
<1> QED
  BY <1>2 DEF EraseInv, IsRequest

\* Every request that is not an erase has nothing to list.
LEMMA OtherRequest ==
  ASSUME NEW r, r.at \notin {"erase", "pick", "clear"}
  PROVE  CoversNext(r)
BY DEF CoversNext

LEMMA RequestShape ==
  ASSUME NEW at, NEW a, NEW b
  PROVE  /\ IsRequest(Request(at, a)) /\ Request(at, a).at = at
         /\ IsRequest([Request(at, a) EXCEPT !.deaf = b])
         /\ [Request(at, a) EXCEPT !.deaf = b].at = at
         /\ IsRequest(NoCall) /\ NoCall.at = "free"
BY DEF Request, IsRequest, NoCall

\* The servers stand still.
LEMMA StillRemembers ==
  ASSUME EraseInv, Still
  PROVE  /\ Remembered /\ missed' = {}
         /\ on' \in [Instance -> Node \cup {Nowhere}] /\ owner' = [i \in Instance |-> owner'[i]]
BY DEF EraseInv, Still, Remembered

\* A request that is no erase, or that ends, with the servers standing still.
LEMMA OthersKeep ==
  ASSUME EraseInv, NEW t \in Caller, NEW r, Become(t, r), IsRequest(r), Still,
         r.at \notin {"erase", "pick", "clear"}
  PROVE  EraseInv'
BY OneRequest, OtherRequest, StillRemembers DEF Become

LEMMA AdmittedShape ==
  ASSUME NEW r
  PROVE  /\ IsRequest(Admitted(r)) /\ Admitted(r).at \in {"free", "create"}
         /\ IsRequest(AdmittedBackup(r)) /\ AdmittedBackup(r).at \in {"free", "make"}
<1> DEFINE c == [Request("create", r.who) EXCEPT !.deaf = r.deaf]
<1>1. IsRequest(c) /\ c.at = "create"
  BY RequestShape
<1>2. Admitted(r) = IF Admits(r) THEN c ELSE NoCall
  BY DEF Admitted
<1>3. IsRequest(Request("make", r.who)) /\ Request("make", r.who).at = "make"
  BY RequestShape
<1>4. IsRequest(NoCall) /\ NoCall.at = "free"
  BY RequestShape
<1> HIDE DEF c
<1>5. IsRequest(Admitted(r)) /\ Admitted(r).at \in {"free", "create"}
  BY <1>1, <1>2, <1>4
<1>6. IsRequest(AdmittedBackup(r)) /\ AdmittedBackup(r).at \in {"free", "make"}
  BY <1>3, <1>4 DEF AdmittedBackup
<1> QED
  BY <1>5, <1>6

\* What a request is but for its counts.
Like(e, at, who, ask, rows, before) ==
  /\ IsRequest(e) /\ e.at = at /\ e.who = who /\ e.ask = ask
  /\ e.rows = rows /\ e.before = before

\* A request with one of its fields changed.
LEMMA SetField ==
  ASSUME NEW r, IsRequest(r), NEW v
  PROVE  /\ Like([r EXCEPT !.at = v], v, r.who, r.ask, r.rows, r.before)
         /\ Like([r EXCEPT !.ask = v], r.at, r.who, v, r.rows, r.before)
         /\ Like([r EXCEPT !.rows = v], r.at, r.who, r.ask, v, r.before)
         /\ Like([r EXCEPT !.before = v], r.at, r.who, r.ask, r.rows, v)
         /\ Like([r EXCEPT !.mine = v], r.at, r.who, r.ask, r.rows, r.before)
         /\ Like([r EXCEPT !.all = v], r.at, r.who, r.ask, r.rows, r.before)
         /\ Like([r EXCEPT !.deaf = v], r.at, r.who, r.ask, r.rows, r.before)
         /\ Like([r EXCEPT !.now = v], r.at, r.who, r.ask, r.rows, r.before)
<1>1. Like([r EXCEPT !.at = v], v, r.who, r.ask, r.rows, r.before)
  BY DEF IsRequest, Like
<1>2. Like([r EXCEPT !.ask = v], r.at, r.who, v, r.rows, r.before)
  BY DEF IsRequest, Like
<1>3. Like([r EXCEPT !.rows = v], r.at, r.who, r.ask, v, r.before)
  BY DEF IsRequest, Like
<1>4. Like([r EXCEPT !.before = v], r.at, r.who, r.ask, r.rows, v)
  BY DEF IsRequest, Like
<1>5. Like([r EXCEPT !.mine = v], r.at, r.who, r.ask, r.rows, r.before)
  BY DEF IsRequest, Like
<1>6. Like([r EXCEPT !.all = v], r.at, r.who, r.ask, r.rows, r.before)
  BY DEF IsRequest, Like
<1>7. Like([r EXCEPT !.deaf = v], r.at, r.who, r.ask, r.rows, r.before)
  BY DEF IsRequest, Like
<1>8. Like([r EXCEPT !.now = v], r.at, r.who, r.ask, r.rows, r.before)
  BY DEF IsRequest, Like
<1> QED
  BY <1>1, <1>2, <1>3, <1>4, <1>5, <1>6, <1>7, <1>8

\* A node's listing counted.
LEMMA SetCounts ==
  ASSUME NEW r, IsRequest(r), NEW all, NEW deaf, NEW mine
  PROVE  Like([r EXCEPT !.all = all, !.deaf = deaf, !.mine = mine], r.at, r.who, r.ask, r.rows, r.before)
<1> DEFINE r1 == [r EXCEPT !.all = all]
<1>1. Like(r1, r.at, r.who, r.ask, r.rows, r.before)
  BY SetField, Zenon
<1>2. /\ IsRequest(r1) /\ r1.at = r.at /\ r1.who = r.who /\ r1.ask = r.ask /\ r1.rows = r.rows /\ r1.before = r.before
  BY <1>1, Zenon DEF Like
<1> HIDE DEF r1
<1> DEFINE r2 == [r1 EXCEPT !.deaf = deaf]
<1>3. Like(r2, r1.at, r1.who, r1.ask, r1.rows, r1.before)
  BY <1>2, SetField, Zenon
<1>4. Like(r2, r.at, r.who, r.ask, r.rows, r.before)
  BY <1>3, <1>2, Zenon
<1>5. /\ IsRequest(r2) /\ r2.at = r.at /\ r2.who = r.who /\ r2.ask = r.ask /\ r2.rows = r.rows /\ r2.before = r.before
  BY <1>4, Zenon DEF Like
<1> HIDE DEF r2
<1> DEFINE r3 == [r2 EXCEPT !.mine = mine]
<1>6. Like(r3, r2.at, r2.who, r2.ask, r2.rows, r2.before)
  BY <1>5, SetField, Zenon
<1>7. Like(r3, r.at, r.who, r.ask, r.rows, r.before)
  BY <1>6, <1>5, Zenon
<1> QED
  BY <1>7, Zenon DEF r1, r2

\* The last node's listing heard.
LEMMA SetHeard ==
  ASSUME NEW r, IsRequest(r), NEW at, NEW ask
  PROVE  Like([r EXCEPT !.at = at, !.ask = ask], at, r.who, ask, r.rows, r.before)
<1> DEFINE r1 == [r EXCEPT !.at = at]
<1>1. Like(r1, at, r.who, r.ask, r.rows, r.before)
  BY SetField, Zenon
<1>2. /\ IsRequest(r1) /\ r1.at = at /\ r1.who = r.who /\ r1.ask = r.ask /\ r1.rows = r.rows /\ r1.before = r.before
  BY <1>1, Zenon DEF Like
<1> HIDE DEF r1
<1> DEFINE r2 == [r1 EXCEPT !.ask = ask]
<1>3. Like(r2, r1.at, r1.who, ask, r1.rows, r1.before)
  BY <1>2, SetField, Zenon
<1>4. Like(r2, at, r.who, ask, r.rows, r.before)
  BY <1>3, <1>2, Zenon
<1> QED
  BY <1>4, Zenon DEF r1

\* The next server picked.
LEMMA SetPicked ==
  ASSUME NEW r, IsRequest(r), NEW at, NEW now, NEW mine
  PROVE  Like([r EXCEPT !.at = at, !.now = now, !.mine = mine], at, r.who, r.ask, r.rows, r.before)
<1> DEFINE r1 == [r EXCEPT !.at = at]
<1>1. Like(r1, at, r.who, r.ask, r.rows, r.before)
  BY SetField, Zenon
<1>2. /\ IsRequest(r1) /\ r1.at = at /\ r1.who = r.who /\ r1.ask = r.ask /\ r1.rows = r.rows /\ r1.before = r.before
  BY <1>1, Zenon DEF Like
<1> HIDE DEF r1
<1> DEFINE r2 == [r1 EXCEPT !.now = now]
<1>3. Like(r2, r1.at, r1.who, r1.ask, r1.rows, r1.before)
  BY <1>2, SetField, Zenon
<1>4. Like(r2, at, r.who, r.ask, r.rows, r.before)
  BY <1>3, <1>2, Zenon
<1>5. /\ IsRequest(r2) /\ r2.at = at /\ r2.who = r.who /\ r2.ask = r.ask /\ r2.rows = r.rows /\ r2.before = r.before
  BY <1>4, Zenon DEF Like
<1> HIDE DEF r2
<1> DEFINE r3 == [r2 EXCEPT !.mine = mine]
<1>6. Like(r3, r2.at, r2.who, r2.ask, r2.rows, r2.before)
  BY <1>5, SetField, Zenon
<1>7. Like(r3, at, r.who, r.ask, r.rows, r.before)
  BY <1>6, <1>5, Zenon
<1> QED
  BY <1>7, Zenon DEF r1, r2

\* A server removed.
LEMMA SetRemoved ==
  ASSUME NEW r, IsRequest(r), NEW at, NEW now, NEW rows
  PROVE  Like([r EXCEPT !.at = at, !.now = now, !.rows = rows], at, r.who, r.ask, rows, r.before)
<1> DEFINE r1 == [r EXCEPT !.at = at]
<1>1. Like(r1, at, r.who, r.ask, r.rows, r.before)
  BY SetField, Zenon
<1>2. /\ IsRequest(r1) /\ r1.at = at /\ r1.who = r.who /\ r1.ask = r.ask /\ r1.rows = r.rows /\ r1.before = r.before
  BY <1>1, Zenon DEF Like
<1> HIDE DEF r1
<1> DEFINE r2 == [r1 EXCEPT !.now = now]
<1>3. Like(r2, r1.at, r1.who, r1.ask, r1.rows, r1.before)
  BY <1>2, SetField, Zenon
<1>4. Like(r2, at, r.who, r.ask, r.rows, r.before)
  BY <1>3, <1>2, Zenon
<1>5. /\ IsRequest(r2) /\ r2.at = at /\ r2.who = r.who /\ r2.ask = r.ask /\ r2.rows = r.rows /\ r2.before = r.before
  BY <1>4, Zenon DEF Like
<1> HIDE DEF r2
<1> DEFINE r3 == [r2 EXCEPT !.rows = rows]
<1>6. Like(r3, r2.at, r2.who, r2.ask, rows, r2.before)
  BY <1>5, SetField, Zenon
<1>7. Like(r3, at, r.who, r.ask, rows, r.before)
  BY <1>6, <1>5, Zenon
<1> QED
  BY <1>7, Zenon DEF r1, r2

LEMMA DeployKeeps ==
  ASSUME EraseInv, NEW t \in Caller,
         \/ DeployAsks(t) \/ BackupAsks(t) \/ MakeBackup(t) \/ CallFails(t)
         \/ \E a \in Account : Deploy(t, a) \/ Backup(t, a)
  PROVE  EraseInv'
<1>1. IsRequest(call[t])
  BY DEF EraseInv
<1>2. CASE CallFails(t)
  BY <1>2, OthersKeep, RequestShape DEF CallFails
<1>3. ASSUME NEW a \in Account, Deploy(t, a) \/ Backup(t, a) PROVE EraseInv'
  BY <1>3, OthersKeep, RequestShape DEF Deploy, Backup
<1>4. CASE MakeBackup(t)
  <2>1. call' = [call EXCEPT ![t] = NoCall] /\ UNCHANGED <<on, owner, missed>>
    BY <1>4 DEF MakeBackup, Become
  <2>2. Remembered /\ missed' = {}
    BY <2>1 DEF EraseInv, Remembered
  <2> QED
    BY <2>1, <2>2, OneRequest, OtherRequest, RequestShape DEF EraseInv
<1>5. CASE DeployAsks(t)
  <2>1. call[t].at = "deploy" /\ Still
    BY <1>5 DEF DeployAsks
  <2>2. ASSUME NEW r, IsRequest(r), r.at = "deploy", Become(t, Step(Admitted, r)) PROVE EraseInv'
    <3>1. CASE r.ask < Nodes
      <4>1. Become(t, [r EXCEPT !.ask = r.ask + 1])
        BY <2>2, <3>1 DEF Step
      <4>2. Like([r EXCEPT !.ask = r.ask + 1], r.at, r.who, r.ask + 1, r.rows, r.before)
        <5> DEFINE n == r.ask + 1
        <5> HIDE DEF n
        <5> SUFFICES Like([r EXCEPT !.ask = n], r.at, r.who, n, r.rows, r.before)
          BY DEF n
        <5> QED
          BY <2>2, SetField, Zenon
      <4> DEFINE q == [r EXCEPT !.ask = r.ask + 1]
      <4> HIDE DEF q
      <4>3. IsRequest(q) /\ q.at = "deploy"
        BY <2>2, <4>2 DEF Like, q
      <4>4. Become(t, q)
        BY <4>1 DEF q
      <4> QED
        BY <2>1, <4>3, <4>4, OthersKeep
    <3>2. CASE ~(r.ask < Nodes)
      BY <2>1, <2>2, <3>2, OthersKeep, AdmittedShape DEF Step
    <3> QED
      BY <3>1, <3>2
  <2>3. CASE Become(t, Step(Admitted, [call[t] EXCEPT !.deaf = TRUE]))
    <3> DEFINE r == [call[t] EXCEPT !.deaf = TRUE]
    <3>1. Like(r, call[t].at, call[t].who, call[t].ask, call[t].rows, call[t].before)
      BY <1>1, SetField, Zenon
    <3> HIDE DEF r
    <3>2. IsRequest(r) /\ r.at = "deploy"
      BY <2>1, <3>1 DEF Like
    <3> QED
      BY <2>2, <2>3, <3>2 DEF r
  <2>4. ASSUME NEW a, NEW d, NEW m,
               Become(t, Step(Admitted, [call[t] EXCEPT !.all = a, !.deaf = d, !.mine = m]))
        PROVE  EraseInv'
    <3> DEFINE r == [call[t] EXCEPT !.all = a, !.deaf = d, !.mine = m]
    <3>1. Like(r, call[t].at, call[t].who, call[t].ask, call[t].rows, call[t].before)
      BY <1>1, SetCounts, Zenon
    <3> HIDE DEF r
    <3>2. IsRequest(r) /\ r.at = "deploy"
      BY <2>1, <3>1 DEF Like
    <3> QED
      BY <2>2, <2>4, <3>2 DEF r
  <2> QED
    BY <1>5, <2>3, <2>4 DEF DeployAsks
<1>6. CASE BackupAsks(t)
  <2>1. call[t].at = "backup" /\ Still
    BY <1>6 DEF BackupAsks
  <2>2. ASSUME NEW m, Become(t, Step(AdmittedBackup, [call[t] EXCEPT !.mine = m]))
        PROVE  EraseInv'
    <3> DEFINE r == [call[t] EXCEPT !.mine = m]
    <3>0. Like(r, call[t].at, call[t].who, call[t].ask, call[t].rows, call[t].before)
      BY <1>1, SetField, Zenon
    <3> HIDE DEF r
    <3>1. IsRequest(r) /\ r.at = "backup"
      BY <2>1, <3>0 DEF Like
    <3>2. Become(t, Step(AdmittedBackup, r))
      BY <2>2 DEF r
    <3>3. CASE r.ask < Nodes
      <4>1. Become(t, [r EXCEPT !.ask = r.ask + 1])
        BY <3>2, <3>3 DEF Step
      <4>2. Like([r EXCEPT !.ask = r.ask + 1], r.at, r.who, r.ask + 1, r.rows, r.before)
        <5> DEFINE n == r.ask + 1
        <5> HIDE DEF n
        <5> SUFFICES Like([r EXCEPT !.ask = n], r.at, r.who, n, r.rows, r.before)
          BY DEF n
        <5> QED
          BY <3>1, SetField, Zenon
      <4> DEFINE q == [r EXCEPT !.ask = r.ask + 1]
      <4> HIDE DEF q
      <4>3. IsRequest(q) /\ q.at = "backup"
        BY <3>1, <4>2 DEF Like, q
      <4>4. Become(t, q)
        BY <4>1 DEF q
      <4> QED
        BY <2>1, <4>3, <4>4, OthersKeep
    <3>4. CASE ~(r.ask < Nodes)
      BY <2>1, <3>2, <3>4, OthersKeep, AdmittedShape DEF Step
    <3> QED
      BY <3>3, <3>4
  <2>3. CASE Become(t, NoCall)
    BY <2>1, <2>3, OthersKeep, RequestShape
  <2> QED
    BY <1>6, <2>2, <2>3 DEF BackupAsks
<1> QED
  BY <1>2, <1>3, <1>4, <1>5, <1>6

\* A server made takes an id no request remembers.
LEMMA CreateKeeps ==
  ASSUME EraseInv, NEW t \in Caller, NEW n \in Node, Create(t, n)
  PROVE  EraseInv'
<1> DEFINE i == CHOOSE i \in Fresh : TRUE
<1>1. /\ i \in Fresh /\ on' = [on EXCEPT ![i] = n] /\ owner' = [owner EXCEPT ![i] = call[t].who]
      /\ call' = [call EXCEPT ![t] = NoCall] /\ missed' = missed
  BY DEF Create, Become
<1>2. i \in Instance /\ \A s \in Caller : i \notin call[s].before
  BY <1>1 DEF Fresh
<1> HIDE DEF i
<1>3. Remembered
  BY <1>1, <1>2 DEF Remembered, EraseInv
<1>4. on' \in [Instance -> Node \cup {Nowhere}] /\ owner' = [j \in Instance |-> owner'[j]]
  BY <1>1, <1>2 DEF EraseInv
<1>5. CoversNext(NoCall) /\ IsRequest(NoCall)
  BY OtherRequest, RequestShape
<1> QED
  BY <1>1, <1>3, <1>4, <1>5, OneRequest DEF EraseInv

\* A server or a backup removed, with or without a request.
LEMMA RemovalRemembers ==
  ASSUME EraseInv, NEW i \in Instance, Removal(i)
  PROVE  /\ Remembered /\ missed' = {} /\ on'[i] = Nowhere
         /\ on' \in [Instance -> Node \cup {Nowhere}] /\ owner' = [j \in Instance |-> owner'[j]]
         /\ \A j \in Instance \ {i} : on'[j] = on[j] /\ owner'[j] = owner[j]
BY DEF EraseInv, Removal, Remembered

LEMMA ServersKeep ==
  ASSUME EraseInv, NEW i \in Instance, DestroyServer(i) \/ DeleteBackup(i)
  PROVE  EraseInv'
<1>1. CASE DestroyServer(i)
  BY <1>1, RemovalRemembers, NoRequest DEF DestroyServer
<1>2. CASE DeleteBackup(i)
  BY <1>2, NoRequest DEF DeleteBackup, EraseInv, Remembered
<1> QED
  BY <1>1, <1>2

LEMMA StillOwned ==
  ASSUME Still, NEW a
  PROVE  OwnedNext(a) = Owned(a) /\ \A i \in Instance : on'[i] = on[i]
BY DEF Still, OwnedNext, Owned, HeldServers

\* An erase begins: nothing has been asked.
LEMMA EraseKeeps ==
  ASSUME EraseInv, NEW t \in Caller, NEW a \in Account, Erase(t, a)
  PROVE  EraseInv'
<1> DEFINE q == Request("erase", a)
<1> DEFINE r == [q EXCEPT !.before = Owned(a)]
<1>1. IsRequest(q) /\ q.at = "erase" /\ q.who = a /\ q.ask = 1 /\ q.rows = {}
  BY RequestShape DEF Request
<1>2. Become(t, r) /\ Still
  BY DEF Erase
<1> HIDE DEF q
<1>3. Like(r, q.at, q.who, q.ask, q.rows, Owned(a))
  BY <1>1, SetField, Zenon
<1> HIDE DEF r
<1>4. 1 \in Node /\ \A i \in Owned(a) : ~(on[i] < 1)
  BY HostingAssumption DEF Node, Owned, HeldServers, EraseInv, Nowhere
<1>5. CoversNext(r)
  BY <1>1, <1>2, <1>3, <1>4, StillOwned DEF Like, CoversNext, Owned, HeldServers
<1> QED
  BY <1>2, <1>3, <1>5, OneRequest, StillRemembers DEF Like, Become

\* A node answers an erase: it lists all it has.
LEMMA EraseAsksKeeps ==
  ASSUME RowsFit >= Cardinality(Instance), EraseInv, NEW t \in Caller, EraseAsks(t)
  PROVE  EraseInv'
<1> DEFINE c == call[t]
<1>1. IsRequest(c) /\ c.at = "erase" /\ Still /\ Covers(c)
  BY DEF EraseInv, EraseAsks
<1>2. c.ask \in Node /\ \A i \in c.before \cap Owned(c.who) : on[i] < c.ask => i \in c.rows
  BY <1>1 DEF Covers
<1>3. CASE Become(t, NoCall)
  BY <1>1, <1>3, OthersKeep, RequestShape
<1>4. ASSUME NEW S \in Replies(c.ask),
             Become(t, Step(Heard, [c EXCEPT !.rows = c.rows \cup (S \cap Owned(c.who))]))
      PROVE  EraseInv'
  <2> DEFINE W == c.rows \cup (S \cap Owned(c.who))
  <2> DEFINE e == [c EXCEPT !.rows = W]
  <2>1. S = Here(c.ask)
    BY <1>4, WholeReply
  <2>2. \A i \in c.before \cap Owned(c.who) : on[i] < c.ask + 1 => i \in W
    <3> SUFFICES ASSUME NEW i \in c.before \cap Owned(c.who), on[i] < c.ask + 1 PROVE i \in W
      OBVIOUS
    <3>1. on[i] \in Node /\ i \in Instance
      BY DEF Owned, HeldServers, EraseInv
    <3>2. on[i] < c.ask \/ on[i] = c.ask
      BY <1>2, <3>1, HostingAssumption DEF Node
    <3> QED
      BY <1>2, <2>1, <3>1, <3>2 DEF Here
  <2> HIDE DEF W
  <2>3. Like(e, c.at, c.who, c.ask, W, c.before)
    BY <1>1, SetField, Zenon
  <2>4. Become(t, Step(Heard, e))
    BY <1>4 DEF W
  <2> HIDE DEF e
  <2>5. IsRequest(e) /\ e.at = "erase" /\ e.who = c.who /\ e.ask = c.ask /\ e.rows = W
        /\ e.before = c.before
    BY <1>1, <2>3 DEF Like
  <2>6. OwnedNext(c.who) = Owned(c.who) /\ \A i \in Instance : on'[i] = on[i]
    BY <1>1, StillOwned
  <2> HIDE DEF c
  <2>7. CASE e.ask < Nodes
    <3> DEFINE f == [e EXCEPT !.ask = e.ask + 1]
    <3>1. Become(t, f)
      BY <2>4, <2>7 DEF Step
    <3>2. Like(f, e.at, e.who, e.ask + 1, e.rows, e.before)
      BY <2>5, SetField, Zenon
    <3> HIDE DEF f
    <3>3. c.ask + 1 \in Node
      BY <1>2, <2>5, <2>7, HostingAssumption DEF Node
    <3>4. CoversNext(f)
      BY <2>2, <2>5, <2>6, <3>2, <3>3 DEF Like, CoversNext, Owned, HeldServers
    <3> QED
      BY <1>1, <3>1, <3>2, <3>4, OneRequest, StillRemembers DEF Like, Become
  <2>8. CASE ~(e.ask < Nodes)
    <3> DEFINE f == [e EXCEPT !.at = "pick", !.ask = 1]
    <3>1. Become(t, f)
      BY <2>4, <2>8 DEF Step, Heard
    <3>2. Like(f, "pick", e.who, 1, e.rows, e.before)
      BY <2>5, SetHeard, Zenon
    <3> HIDE DEF f
    <3>3. \A i \in Owned(c.who) : on[i] < c.ask + 1
      BY <1>2, <2>5, <2>8, HostingAssumption DEF Node, Owned, HeldServers, EraseInv
    <3>4. CoversNext(f)
      BY <2>2, <2>5, <2>6, <3>2, <3>3 DEF Like, CoversNext
    <3> QED
      BY <1>1, <3>1, <3>2, <3>4, OneRequest, StillRemembers DEF Like, Become
  <2> QED
    BY <2>7, <2>8
<1> QED
  BY <1>3, <1>4 DEF EraseAsks

\* Server by server its list goes with what it lists.
LEMMA EraseGoesOn ==
  ASSUME EraseInv, NEW t \in Caller,
         \/ \E i \in Instance : ErasePicks(t, i)
         \/ EraseClears(t) \/ EraseRemoves(t) \/ EraseDone(t)
  PROVE  EraseInv'
<1> DEFINE c == call[t]
<1>1. IsRequest(c) /\ Covers(c)
  BY DEF EraseInv
<1>2. ASSUME NEW i \in Instance, ErasePicks(t, i) PROVE EraseInv'
  <2> DEFINE n == HeardBackups({i})
  <2> DEFINE f == [c EXCEPT !.at = "clear", !.now = i, !.mine = n]
  <2>1. Become(t, f) /\ Still /\ c.at = "pick"
    BY <1>2 DEF ErasePicks
  <2> HIDE DEF n
  <2>2. Like(f, "clear", c.who, c.ask, c.rows, c.before)
    BY <1>1, SetPicked, Zenon
  <2> HIDE DEF f
  <2>3. CoversNext(f)
    BY <1>1, <2>1, <2>2, StillOwned DEF Like, CoversNext, Covers
  <2> QED
    BY <2>1, <2>2, <2>3, OneRequest, StillRemembers DEF Like, Become
<1>3. CASE EraseClears(t)
  <2> DEFINE f == [c EXCEPT !.mine = c.mine - 1]
  <2>1. Become(t, f) /\ UNCHANGED <<on, owner, missed>> /\ c.at = "clear"
    BY <1>3 DEF EraseClears
  <2>2. Like(f, c.at, c.who, c.ask, c.rows, c.before)
    BY <1>1, SetField, Zenon
  <2>3. Remembered /\ missed' = {}
    BY <2>1 DEF EraseInv, Remembered
  <2> HIDE DEF f
  <2>4. CoversNext(f)
    BY <1>1, <2>1, <2>2 DEF Like, CoversNext, Covers, OwnedNext, Owned, HeldServers
  <2> QED
    BY <2>1, <2>2, <2>3, <2>4, OneRequest DEF Like, Become, EraseInv
<1>4. CASE EraseRemoves(t)
  <2> DEFINE i == c.now
  <2> DEFINE W == c.rows \ {i}
  <2> DEFINE f == [c EXCEPT !.at = "pick", !.now = NoInstance, !.rows = W]
  <2>1. Become(t, f) /\ Removal(i) /\ c.at = "clear" /\ i \in Instance
    BY <1>4 DEF EraseRemoves, HeldServers
  <2>2. Like(f, "pick", c.who, c.ask, W, c.before)
    BY <1>1, SetRemoved, Zenon
  <2> HIDE DEF f
  <2>3. CoversNext(f)
    <3>1. c.before \cap Owned(c.who) \subseteq c.rows
      BY <1>1, <2>1 DEF Covers
    <3>2. OwnedNext(c.who) \subseteq Owned(c.who) \ {i}
      BY <2>1, RemovalRemembers DEF OwnedNext, Owned, HeldServers
    <3> QED
      BY <2>2, <3>1, <3>2 DEF Like, CoversNext
  <2> QED
    BY <2>1, <2>2, <2>3, OneRequest, RemovalRemembers DEF Like, Become
<1>5. CASE EraseDone(t)
  <2>1. /\ Become(t, NoCall) /\ c.at = "pick" /\ c.rows = {} /\ UNCHANGED <<on, owner>>
        /\ missed' = missed \cup (c.before \cap Owned(c.who))
    BY <1>5 DEF EraseDone
  <2>2. missed' = {}
    BY <1>1, <2>1 DEF Covers, EraseInv
  <2>3. Remembered
    BY <2>1 DEF EraseInv, Remembered
  <2> QED
    BY <2>1, <2>2, <2>3, OneRequest, OtherRequest, RequestShape DEF Become, EraseInv
<1> QED
  BY <1>2, <1>3, <1>4, <1>5

LEMMA EraseNextInv ==
  ASSUME RowsFit >= Cardinality(Instance)
  PROVE  EraseInv /\ [HostingNext]_hostingVars => EraseInv'
<1> SUFFICES ASSUME EraseInv, [HostingNext]_hostingVars PROVE EraseInv'
  OBVIOUS
<1>1. CASE UNCHANGED hostingVars
  BY <1>1, NoRequest DEF hostingVars, EraseInv, Remembered
<1>2. CASE HostingNext
  BY <1>2, DeployKeeps, CreateKeeps, ServersKeep, EraseKeeps, EraseAsksKeeps, EraseGoesOn
  DEF HostingNext
<1> QED
  BY <1>1, <1>2

\* Where a reply can list all the servers there are, an erase that reports done
\* has left none that stood when it was asked for, whatever other requests do.
THEOREM EraseLeavesNone ==
  ASSUME RowsFit >= Cardinality(Instance)
  PROVE  HostingSpec => []EraseComplete
<1>1. EraseInv => EraseComplete
  BY DEF EraseInv, EraseComplete
<1>2. EraseInv /\ [HostingNext]_hostingVars => EraseInv'
  BY EraseNextInv
<1> QED
  BY <1>1, <1>2, EraseInitInv, PTL DEF HostingSpec

(***************************************************************************)
(* The limits.                                                             *)
(***************************************************************************)
\* Of every group of requests one still counts on enough: with N held, requests F
\* under way and g what each will be judged by.
Spared(F, g, N) ==
  \A T \in SUBSET F : T # {} => \E t \in T : N + Cardinality(T) <= g[t] + Cardinality(Caller)

LEMMA CallersCount ==
  ASSUME NEW T \in SUBSET Caller
  PROVE  IsFiniteSet(T) /\ Cardinality(T) \in Nat /\ Cardinality(T) <= Cardinality(Caller)
         /\ Cardinality(Caller) \in Nat
BY HostingAssumption, FS_Subset, FS_CardinalityType

\* Requests end, start with all there is ahead of them, or hear; some of what is
\* held goes, and perhaps out of what they count on.
LEMMA SparedShifts ==
  ASSUME NEW F \in SUBSET Caller, NEW G \in SUBSET Caller, NEW g \in [Caller -> Int], NEW h \in [Caller -> Int],
         NEW N \in Nat, NEW M \in Nat, NEW d \in Nat, N = M + d, Spared(F, g, N),
         \A t \in G : (t \in F /\ h[t] >= g[t] - d) \/ h[t] >= M
  PROVE  Spared(G, h, M)
<1> SUFFICES ASSUME NEW T \in SUBSET G, T # {}
             PROVE  \E t \in T : M + Cardinality(T) <= h[t] + Cardinality(Caller)
  BY DEF Spared
<1>1. Cardinality(T) \in Nat /\ Cardinality(T) <= Cardinality(Caller) /\ Cardinality(Caller) \in Nat
  BY CallersCount
<1>2. \A t \in T : t \in Caller /\ h[t] \in Int /\ g[t] \in Int
  OBVIOUS
<1>3. CASE \E t \in T : h[t] >= M
  BY <1>1, <1>2, <1>3
<1>4. CASE \A t \in T : t \in F /\ h[t] >= g[t] - d
  <2>1. PICK t \in T : N + Cardinality(T) <= g[t] + Cardinality(Caller)
    BY <1>4 DEF Spared
  <2>2. h[t] >= g[t] - d
    BY <1>4
  <2> QED
    BY <1>1, <1>2, <2>1, <2>2
<1> QED
  BY <1>3, <1>4

\* A request that was admitted makes one more.
LEMMA SparedMakes ==
  ASSUME NEW F \in SUBSET Caller, NEW G \in SUBSET Caller, NEW g \in [Caller -> Int], NEW h \in [Caller -> Int],
         NEW N \in Nat, NEW m \in Int, NEW t \in F, g[t] = m, G = F \ {t}, Spared(F, g, N),
         \A s \in G : h[s] >= g[s] /\ h[s] >= m
  PROVE  Spared(G, h, N + 1) /\ N + 1 <= m + Cardinality(Caller)
<1>1. N + 1 <= m + Cardinality(Caller)
  <2>1. {t} \in SUBSET F /\ {t} # {} /\ Cardinality({t}) = 1
    BY FS_Singleton
  <2> QED
    BY <2>1 DEF Spared
<1>2. Spared(G, h, N + 1)
  <2> SUFFICES ASSUME NEW T \in SUBSET G, T # {}
               PROVE  \E s \in T : N + 1 + Cardinality(T) <= h[s] + Cardinality(Caller)
    BY DEF Spared
  <2>1. IsFiniteSet(T) /\ Cardinality(T) \in Nat /\ Cardinality(Caller) \in Nat
    BY CallersCount
  <2>2. Cardinality(T \cup {t}) = Cardinality(T) + 1
    BY <2>1, FS_AddElement
  <2>3. PICK s \in T \cup {t} : N + Cardinality(T \cup {t}) <= g[s] + Cardinality(Caller)
    BY DEF Spared
  <2>4. \A k \in T \cup {t} : k \in Caller /\ h[k] \in Int /\ g[k] \in Int
    OBVIOUS
  <2>5. CASE s \in T
    <3>1. h[s] >= g[s]
      BY <2>5
    <3> QED
      BY <2>1, <2>2, <2>3, <2>4, <2>5, <3>1
  <2>6. CASE s = t
    <3>1. PICK k \in T : TRUE
      OBVIOUS
    <3>2. h[k] >= m
      OBVIOUS
    <3> QED
      BY <2>1, <2>2, <2>3, <2>4, <2>6, <3>2
  <2> QED
    BY <2>5, <2>6
<1> QED
  BY <1>1, <1>2

\* What a request under way has counted or will, where c is what it sums up to and
\* most the limit it is judged by.
Judged(listing, c, most) == IF listing /\ c >= most THEN c ELSE most - 1

Unasked(r, a) == {i \in Owned(a) : on[i] >= r.ask}
ServersDue(r, a) == r.mine + Cardinality(Unasked(r, a))
BackupsDue(r, a) == r.mine + BackupsOf(Unasked(r, a))

Deploys(r, a) == r.at \in {"deploy", "create"} /\ r.who = a /\ ~r.deaf
\* (A count that is at the cap already is refused, whatever follows.)
Saves(r, a) == r.who = a /\ (r.at = "make" \/ (r.at = "backup" /\ r.mine < BackupLimit))

Deploying(a) == {t \in Caller : Deploys(call[t], a)}
Saving(a) == {t \in Caller : Saves(call[t], a)}

ServersJudged(r, a) == Judged(r.at = "deploy", ServersDue(r, a), Limit)
BackupsJudged(r, a) == Judged(r.at = "backup", BackupsDue(r, a), BackupLimit)

ServersSpared(a) ==
  Spared(Deploying(a), [t \in Caller |-> ServersJudged(call[t], a)], Cardinality(Owned(a)))
BackupsSpared(a) ==
  Spared(Saving(a), [t \in Caller |-> BackupsJudged(call[t], a)], BackupsOf(Owned(a)))

\* The part of the types the argument rests on, and that no backup outlives its server.
QuotaTypes ==
  /\ on \in [Instance -> Node \cup {Nowhere}] /\ owner = [i \in Instance |-> owner[i]]
  /\ backups \in [Instance -> 0 .. MaxBackup] /\ extra \in BOOLEAN
  /\ \A i \in Instance : on[i] = Nowhere => backups[i] = 0
  /\ call = [t \in Caller |-> call[t]]
  /\ \A t \in Caller : IsRequest(call[t]) /\ call[t].ask \in Node /\ call[t].mine \in Nat

\* A reply lists all the servers of a node, and of one server's backups as many
\* as an account may have: one that was cut has then named enough to refuse.
RepliesSuffice == RowsFit >= Cardinality(Instance) /\ BackupsFit >= BackupLimit

QuotaInv ==
  /\ QuotaTypes
  /\ Overshoot /\ (~extra => \A a \in Account : ServersSpared(a))
  /\ RepliesSuffice => BackupCap /\ \A a \in Account : BackupsSpared(a)

\* Counts of servers and of backups.
LEMMA ServersCount ==
  ASSUME NEW S \in SUBSET Instance
  PROVE  IsFiniteSet(S) /\ Cardinality(S) \in Nat
BY HostingAssumption, FS_Subset, FS_CardinalityType

LEMMA BackupsCount ==
  ASSUME NEW S \in SUBSET Instance
  PROVE  IsFiniteSet(BackupsIn(S)) /\ BackupsOf(S) \in Nat
<1>1. IsFiniteSet(S) /\ IsFiniteSet(1 .. MaxBackup)
  BY ServersCount, HostingAssumption, FS_Interval
<1>2. IsFiniteSet(S \X (1 .. MaxBackup)) /\ BackupsIn(S) \in SUBSET (S \X (1 .. MaxBackup))
  BY <1>1, FS_Product DEF BackupsIn
<1>3. IsFiniteSet(BackupsIn(S))
  BY <1>2, FS_Subset
<1> QED
  BY <1>3, FS_CardinalityType DEF BackupsOf

LEMMA HeardCount ==
  ASSUME NEW S \in SUBSET Instance
  PROVE  IsFiniteSet(HeardIn(S)) /\ HeardBackups(S) \in Nat
<1>1. IsFiniteSet(BackupsIn(S)) /\ HeardIn(S) \in SUBSET BackupsIn(S)
  BY BackupsCount DEF HeardIn
<1> QED
  BY <1>1, FS_Subset, FS_CardinalityType DEF HeardBackups

\* What the replies list of some backups is all of them, or as many as one reply
\* can list at least.
LEMMA HeardAllOrFull ==
  ASSUME backups \in [Instance -> 0 .. MaxBackup], NEW S \in SUBSET Instance
  PROVE  HeardBackups(S) = BackupsOf(S) \/ HeardBackups(S) >= BackupsFit
<1>1. IsFiniteSet(HeardIn(S)) /\ HeardBackups(S) \in Nat
  BY HeardCount
<1>2. CASE HeardIn(S) = BackupsIn(S)
  BY <1>2 DEF HeardBackups, BackupsOf
<1>3. CASE HeardIn(S) # BackupsIn(S)
  <2>1. PICK b \in BackupsIn(S) : ~(b[2] <= BackupsFit)
    BY <1>3 DEF HeardIn
  <2> DEFINE T == {b[1]} \X (1 .. BackupsFit)
  <2>2. b[1] \in S /\ b[2] \in 1 .. MaxBackup /\ b[2] <= backups[b[1]]
    BY <2>1 DEF BackupsIn
  <2>3. BackupsFit \in Nat /\ MaxBackup \in Nat
    BY HostingAssumption
  <2>4. \A k \in 1 .. BackupsFit : k \in 1 .. MaxBackup /\ k <= b[2] /\ k <= BackupsFit
    BY <2>1, <2>2, <2>3
  <2>5. T \subseteq HeardIn(S)
    <3> SUFFICES ASSUME NEW k \in 1 .. BackupsFit PROVE <<b[1], k>> \in HeardIn(S)
      OBVIOUS
    <3>1. k <= backups[b[1]] /\ backups[b[1]] \in Nat
      BY <2>2, <2>3, <2>4
    <3> QED
      BY <2>2, <2>4, <3>1 DEF HeardIn, BackupsIn
  <2>6. Cardinality(T) = BackupsFit
    <3>1. IsFiniteSet({b[1]}) /\ Cardinality({b[1]}) = 1
      BY FS_Singleton
    <3>2. IsFiniteSet(1 .. BackupsFit) /\ Cardinality(1 .. BackupsFit) = BackupsFit
      BY <2>3, FS_Interval
    <3>3. Cardinality(T) = Cardinality({b[1]}) * Cardinality(1 .. BackupsFit)
      BY <3>1, <3>2, FS_Product
    <3> QED
      BY <2>3, <3>1, <3>2, <3>3
  <2> HIDE DEF T
  <2>7. Cardinality(T) <= HeardBackups(S)
    BY <1>1, <2>5, FS_Subset DEF HeardBackups
  <2> QED
    BY <1>1, <2>3, <2>6, <2>7
<1> QED
  BY <1>2, <1>3

LEMMA OwnedIn == \A a : Owned(a) \in SUBSET Instance
BY DEF Owned, HeldServers

LEMMA DueTypes ==
  ASSUME QuotaTypes, NEW t \in Caller, NEW a
  PROVE  /\ ServersDue(call[t], a) \in Nat /\ BackupsDue(call[t], a) \in Nat
         /\ ServersJudged(call[t], a) \in Int /\ BackupsJudged(call[t], a) \in Int
<1>1. Unasked(call[t], a) \in SUBSET Instance
  BY OwnedIn DEF Unasked
<1>2. Limit \in Nat /\ BackupLimit \in Nat
  BY HostingAssumption
<1>3. ServersDue(call[t], a) \in Nat /\ BackupsDue(call[t], a) \in Nat
  BY <1>1, ServersCount, BackupsCount DEF QuotaTypes, ServersDue, BackupsDue
<1> QED
  BY <1>2, <1>3 DEF ServersJudged, BackupsJudged, Judged

LEMMA SparedNext ==
  ASSUME NEW a
  PROVE  /\ ServersSpared(a)' <=>
              Spared(Deploying(a)', [t \in Caller |-> ServersJudged(call[t], a)'], Cardinality(Owned(a)'))
         /\ BackupsSpared(a)' <=>
              Spared(Saving(a)', [t \in Caller |-> BackupsJudged(call[t], a)'], BackupsOf(Owned(a))')
BY DEF ServersSpared, BackupsSpared

\* What a step does to an account's servers, as its requests see it: some d of them
\* go, out of what was counted or was not.
ServersLose(a, d) ==
  /\ Cardinality(Owned(a)) = Cardinality(Owned(a)') + d
  /\ \A t \in Caller : Deploys(call[t], a)' =>
       \/ Deploys(call[t], a) /\ ServersJudged(call[t], a)' >= ServersJudged(call[t], a) - d
       \/ ServersJudged(call[t], a)' >= Cardinality(Owned(a)')

BackupsLose(a, d) ==
  /\ BackupsOf(Owned(a)) = BackupsOf(Owned(a))' + d
  /\ \A t \in Caller : Saves(call[t], a)' =>
       \/ Saves(call[t], a) /\ BackupsJudged(call[t], a)' >= BackupsJudged(call[t], a) - d
       \/ BackupsJudged(call[t], a)' >= BackupsOf(Owned(a))'

LEMMA DueTypesNext ==
  ASSUME QuotaTypes', NEW t \in Caller, NEW a
  PROVE  /\ ServersJudged(call[t], a)' \in Int /\ BackupsJudged(call[t], a)' \in Int
         /\ Cardinality(Owned(a)') \in Nat /\ BackupsOf(Owned(a))' \in Nat
         /\ IsFiniteSet(Owned(a)')
<1>1. Unasked(call[t], a)' \in SUBSET Instance /\ Owned(a)' \in SUBSET Instance
  BY DEF Unasked, Owned, HeldServers
<1>2. Cardinality(Unasked(call[t], a)') \in Nat /\ Cardinality(Owned(a)') \in Nat /\ IsFiniteSet(Owned(a)')
  BY <1>1, ServersCount
<1>3. \A S \in SUBSET Instance : BackupsOf(S)' \in Nat
  <2> SUFFICES ASSUME NEW S \in SUBSET Instance PROVE BackupsOf(S)' \in Nat
    OBVIOUS
  <2>1. IsFiniteSet(S) /\ IsFiniteSet(1 .. MaxBackup)
    BY ServersCount, HostingAssumption, FS_Interval
  <2>2. IsFiniteSet(S \X (1 .. MaxBackup)) /\ BackupsIn(S)' \in SUBSET (S \X (1 .. MaxBackup))
    BY <2>1, FS_Product DEF BackupsIn
  <2>3. IsFiniteSet(BackupsIn(S)')
    BY <2>2, FS_Subset
  <2> QED
    BY <2>3, FS_CardinalityType DEF BackupsOf
<1>4. BackupsOf(Owned(a))' \in Nat /\ BackupsOf(Unasked(call[t], a))' \in Nat
  BY <1>1, <1>3 DEF BackupsOf, BackupsIn
<1>5. Limit \in Nat /\ BackupLimit \in Nat /\ call'[t].mine \in Nat
  BY HostingAssumption DEF QuotaTypes
<1>6. ServersJudged(call[t], a)' \in Int
  BY <1>2, <1>5 DEF ServersJudged, Judged, ServersDue
<1>7. BackupsJudged(call[t], a)' \in Int
  BY <1>4, <1>5 DEF BackupsJudged, Judged, BackupsDue
<1> QED
  BY <1>2, <1>4, <1>6, <1>7

LEMMA ServersLess ==
  ASSUME QuotaTypes, QuotaTypes', NEW a, NEW d \in Nat, ServersLose(a, d), ServersSpared(a)
  PROVE  ServersSpared(a)'
<1> DEFINE g == [t \in Caller |-> ServersJudged(call[t], a)]
           h == [t \in Caller |-> ServersJudged(call[t], a)']
           F == Deploying(a)
           G == Deploying(a)'
           N == Cardinality(Owned(a))
           M == Cardinality(Owned(a)')
<1>1. g \in [Caller -> Int] /\ h \in [Caller -> Int]
  BY DueTypes, DueTypesNext
<1>2. N \in Nat /\ M \in Nat
  BY OwnedIn, ServersCount, DueTypesNext, HostingAssumption
<1>3. F \in SUBSET Caller /\ G \in SUBSET Caller /\ N = M + d
  BY DEF Deploying, ServersLose
<1>4. \A t \in G : (t \in F /\ h[t] >= g[t] - d) \/ h[t] >= M
  BY DEF Deploying, ServersLose
<1>5. Spared(F, g, N)
  BY DEF ServersSpared
<1>6. Spared(G, h, M) => ServersSpared(a)'
  BY SparedNext
<1> HIDE DEF F, G, g, h, N, M
<1> QED
  BY <1>1, <1>2, <1>3, <1>4, <1>5, <1>6, SparedShifts

LEMMA BackupsLess ==
  ASSUME QuotaTypes, QuotaTypes', NEW a, NEW d \in Nat, BackupsLose(a, d), BackupsSpared(a)
  PROVE  BackupsSpared(a)'
<1> DEFINE g == [t \in Caller |-> BackupsJudged(call[t], a)]
           h == [t \in Caller |-> BackupsJudged(call[t], a)']
           F == Saving(a)
           G == Saving(a)'
           N == BackupsOf(Owned(a))
           M == BackupsOf(Owned(a))'
<1>1. g \in [Caller -> Int] /\ h \in [Caller -> Int]
  BY DueTypes, DueTypesNext
<1>2. N \in Nat /\ M \in Nat
  BY OwnedIn, BackupsCount, DueTypesNext, HostingAssumption
<1>3. F \in SUBSET Caller /\ G \in SUBSET Caller /\ N = M + d
  BY DEF Saving, BackupsLose
<1>4. \A t \in G : (t \in F /\ h[t] >= g[t] - d) \/ h[t] >= M
  BY DEF Saving, BackupsLose
<1>5. Spared(F, g, N)
  BY DEF BackupsSpared
<1>6. Spared(G, h, M) => BackupsSpared(a)'
  BY SparedNext
<1> HIDE DEF F, G, g, h, N, M
<1> QED
  BY <1>1, <1>2, <1>3, <1>4, <1>5, <1>6, SparedShifts

\* The limits follow from what is held being no more.
LEMMA ServersFall ==
  ASSUME QuotaInv, QuotaTypes', ~extra, NEW a \in Account, NEW d \in Nat, ServersLose(a, d)
  PROVE  ServersSpared(a)' /\ Cardinality(Owned(a)') <= Limit + Cardinality(Caller) - 1
<1>1. ServersSpared(a)'
  BY ServersLess DEF QuotaInv
<1>2. Cardinality(Owned(a)) = Cardinality(Owned(a)') + d
  BY DEF ServersLose
<1>3. Cardinality(Owned(a)) <= Limit + Cardinality(Caller) - 1
  BY DEF QuotaInv, Overshoot
<1>4. Cardinality(Owned(a)') \in Nat /\ Cardinality(Caller) \in Nat /\ Limit \in Nat
  BY HostingAssumption, CallersCount, DueTypesNext
<1> QED
  BY <1>1, <1>2, <1>3, <1>4

LEMMA BackupsFall ==
  ASSUME QuotaInv, QuotaTypes', RepliesSuffice, NEW a \in Account, NEW d \in Nat, BackupsLose(a, d)
  PROVE  BackupsSpared(a)' /\ BackupsOf(Owned(a))' <= BackupLimit + Cardinality(Caller) - 1
<1>1. BackupsSpared(a)'
  BY BackupsLess DEF QuotaInv
<1>2. BackupsOf(Owned(a)) = BackupsOf(Owned(a))' + d
  BY DEF BackupsLose
<1>3. BackupsOf(Owned(a)) <= BackupLimit + Cardinality(Caller) - 1
  BY DEF QuotaInv, BackupCap
<1>4. BackupsOf(Owned(a))' \in Nat /\ Cardinality(Caller) \in Nat /\ BackupLimit \in Nat
  BY HostingAssumption, CallersCount, DueTypesNext
<1> QED
  BY <1>1, <1>2, <1>3, <1>4

LEMMA Together ==
  ASSUME QuotaTypes',
         ASSUME ~extra', NEW a \in Account
         PROVE  ServersSpared(a)' /\ Cardinality(Owned(a)') <= Limit + Cardinality(Caller) - 1,
         ASSUME RepliesSuffice, NEW a \in Account
         PROVE  BackupsSpared(a)' /\ BackupsOf(Owned(a))' <= BackupLimit + Cardinality(Caller) - 1
  PROVE  QuotaInv'
<1>1. Overshoot' /\ (~extra' => \A a \in Account : ServersSpared(a)')
  BY DEF Overshoot
<1>2. RepliesSuffice => BackupCap' /\ \A a \in Account : BackupsSpared(a)'
  BY DEF BackupCap
<1> QED
  BY <1>1, <1>2 DEF QuotaInv

LEMMA CapsFall ==
  ASSUME QuotaInv, QuotaTypes', extra' = extra,
         \A a \in Account : ServersLose(a, 0),
         RepliesSuffice => \A a \in Account : BackupsLose(a, 0)
  PROVE  QuotaInv'
<1>1. ASSUME ~extra', NEW a \in Account
      PROVE  ServersSpared(a)' /\ Cardinality(Owned(a)') <= Limit + Cardinality(Caller) - 1
  BY <1>1, ServersFall
<1>2. ASSUME RepliesSuffice, NEW a \in Account
      PROVE  BackupsSpared(a)' /\ BackupsOf(Owned(a))' <= BackupLimit + Cardinality(Caller) - 1
  BY <1>2, BackupsFall
<1> QED
  BY <1>1, <1>2, Together

\* With the servers and backups as they are, what is owned and due is.
LEMMA SameDue ==
  ASSUME UNCHANGED <<on, owner, backups>>, NEW a, NEW t, call'[t] = call[t]
  PROVE  /\ ServersJudged(call[t], a)' = ServersJudged(call[t], a)
         /\ BackupsJudged(call[t], a)' = BackupsJudged(call[t], a)
         /\ Deploys(call[t], a)' = Deploys(call[t], a) /\ Saves(call[t], a)' = Saves(call[t], a)
BY DEF ServersJudged, BackupsJudged, ServersDue, BackupsDue, Unasked, Owned, HeldServers,
       BackupsOf, BackupsIn, Deploys, Saves

LEMMA SameOwned ==
  ASSUME UNCHANGED <<on, owner, backups>>, NEW a
  PROVE  Owned(a)' = Owned(a) /\ BackupsOf(Owned(a))' = BackupsOf(Owned(a))
BY DEF Owned, HeldServers, BackupsOf, BackupsIn

LEMMA DueOf ==
  ASSUME UNCHANGED <<on, owner, backups>>, NEW a, NEW t, NEW r, call'[t] = r
  PROVE  /\ ServersJudged(call[t], a)' = ServersJudged(r, a)
         /\ BackupsJudged(call[t], a)' = BackupsJudged(r, a)
         /\ Deploys(call[t], a)' = Deploys(r, a) /\ Saves(call[t], a)' = Saves(r, a)
BY DEF ServersJudged, BackupsJudged, ServersDue, BackupsDue, Unasked, Owned, HeldServers,
       BackupsOf, BackupsIn, Deploys, Saves

\* A request goes on, ends or begins.
LEMMA CallKeeps ==
  ASSUME QuotaInv, NEW t \in Caller, NEW r, call' = [call EXCEPT ![t] = r],
         UNCHANGED <<on, owner, backups, extra>>,
         IsRequest(r), r.ask \in Node, r.mine \in Nat,
         \A a \in Account : Deploys(r, a) =>
           \/ Deploys(call[t], a) /\ ServersJudged(r, a) >= ServersJudged(call[t], a)
           \/ ServersJudged(r, a) >= Cardinality(Owned(a)),
         RepliesSuffice => \A a \in Account : Saves(r, a) =>
           \/ Saves(call[t], a) /\ BackupsJudged(r, a) >= BackupsJudged(call[t], a)
           \/ BackupsJudged(r, a) >= BackupsOf(Owned(a))
  PROVE  QuotaInv'
<1>1. QuotaTypes
  BY DEF QuotaInv
<1>2. call'[t] = r /\ \A s \in Caller : s # t => call'[s] = call[s]
  BY <1>1 DEF QuotaTypes
<1>3. QuotaTypes'
  <2>1. call' = [s \in Caller |-> call'[s]]
    BY <1>1 DEF QuotaTypes
  <2>2. \A s \in Caller : IsRequest(call'[s]) /\ call'[s].ask \in Node /\ call'[s].mine \in Nat
    BY <1>1, <1>2 DEF QuotaTypes
  <2>3. \A s \in Caller : IsRequest(call[s])'
    BY <2>2 DEF IsRequest
  <2> QED
    BY <1>1, <2>1, <2>2, <2>3 DEF QuotaTypes
<1>4. \A a : Cardinality(Owned(a)) \in Nat /\ BackupsOf(Owned(a)) \in Nat
  BY OwnedIn, ServersCount, BackupsCount
<1>5. ASSUME NEW a \in Account PROVE ServersLose(a, 0)
  <2>1. Cardinality(Owned(a)) = Cardinality(Owned(a)') + 0 /\ Cardinality(Owned(a)') = Cardinality(Owned(a))
    BY <1>4, SameOwned
  <2>2. ASSUME NEW s \in Caller, Deploys(call[s], a)'
        PROVE  \/ Deploys(call[s], a) /\ ServersJudged(call[s], a)' >= ServersJudged(call[s], a) - 0
               \/ ServersJudged(call[s], a)' >= Cardinality(Owned(a)')
    <3>1. ServersJudged(call[s], a) \in Int
      BY <1>1, DueTypes
    <3>2. CASE s = t
      <4>1. Deploys(r, a) /\ ServersJudged(call[s], a)' = ServersJudged(r, a)
        BY <1>2, <2>2, <3>2, DueOf
      <4> QED
        BY <2>1, <3>1, <3>2, <4>1
    <3>3. CASE s # t
      <4>1. Deploys(call[s], a) /\ ServersJudged(call[s], a)' = ServersJudged(call[s], a)
        BY <1>2, <2>2, <3>3, SameDue
      <4> QED
        BY <3>1, <4>1
    <3> QED
      BY <3>2, <3>3
  <2> QED
    BY <2>1, <2>2 DEF ServersLose
<1>6. ASSUME RepliesSuffice, NEW a \in Account PROVE BackupsLose(a, 0)
  <2>1. BackupsOf(Owned(a)) = BackupsOf(Owned(a))' + 0 /\ BackupsOf(Owned(a))' = BackupsOf(Owned(a))
    BY <1>4, SameOwned
  <2>2. ASSUME NEW s \in Caller, Saves(call[s], a)'
        PROVE  \/ Saves(call[s], a) /\ BackupsJudged(call[s], a)' >= BackupsJudged(call[s], a) - 0
               \/ BackupsJudged(call[s], a)' >= BackupsOf(Owned(a))'
    <3>1. BackupsJudged(call[s], a) \in Int
      BY <1>1, DueTypes
    <3>2. CASE s = t
      <4>1. Saves(r, a) /\ BackupsJudged(call[s], a)' = BackupsJudged(r, a)
        BY <1>2, <2>2, <3>2, DueOf
      <4> QED
        BY <1>6, <2>1, <3>1, <3>2, <4>1
    <3>3. CASE s # t
      <4>1. Saves(call[s], a) /\ BackupsJudged(call[s], a)' = BackupsJudged(call[s], a)
        BY <1>2, <2>2, <3>3, SameDue
      <4> QED
        BY <3>1, <4>1
    <3> QED
      BY <3>2, <3>3
  <2> QED
    BY <2>1, <2>2 DEF BackupsLose
<1> QED
  BY <1>3, <1>5, <1>6, CapsFall

\* A request's fields that its counting depends on.
Is(e, at, who, ask, mine, deaf) ==
  /\ IsRequest(e) /\ e.at = at /\ e.who = who /\ e.ask = ask /\ e.mine = mine /\ e.deaf = deaf

LEMMA OneField ==
  ASSUME NEW r, IsRequest(r), NEW v
  PROVE  /\ Is([r EXCEPT !.at = v], v, r.who, r.ask, r.mine, r.deaf)
         /\ Is([r EXCEPT !.ask = v], r.at, r.who, v, r.mine, r.deaf)
         /\ Is([r EXCEPT !.mine = v], r.at, r.who, r.ask, v, r.deaf)
         /\ Is([r EXCEPT !.deaf = v], r.at, r.who, r.ask, r.mine, v)
         /\ Is([r EXCEPT !.all = v], r.at, r.who, r.ask, r.mine, r.deaf)
         /\ Is([r EXCEPT !.rows = v], r.at, r.who, r.ask, r.mine, r.deaf)
         /\ Is([r EXCEPT !.before = v], r.at, r.who, r.ask, r.mine, r.deaf)
         /\ Is([r EXCEPT !.now = v], r.at, r.who, r.ask, r.mine, r.deaf)
<1>1. Is([r EXCEPT !.at = v], v, r.who, r.ask, r.mine, r.deaf)
  BY DEF IsRequest, Is
<1>2. Is([r EXCEPT !.ask = v], r.at, r.who, v, r.mine, r.deaf)
  BY DEF IsRequest, Is
<1>3. Is([r EXCEPT !.mine = v], r.at, r.who, r.ask, v, r.deaf)
  BY DEF IsRequest, Is
<1>4. Is([r EXCEPT !.deaf = v], r.at, r.who, r.ask, r.mine, v)
  BY DEF IsRequest, Is
<1>5. Is([r EXCEPT !.all = v], r.at, r.who, r.ask, r.mine, r.deaf)
  BY DEF IsRequest, Is
<1>6. Is([r EXCEPT !.rows = v], r.at, r.who, r.ask, r.mine, r.deaf)
  BY DEF IsRequest, Is
<1>7. Is([r EXCEPT !.before = v], r.at, r.who, r.ask, r.mine, r.deaf)
  BY DEF IsRequest, Is
<1>8. Is([r EXCEPT !.now = v], r.at, r.who, r.ask, r.mine, r.deaf)
  BY DEF IsRequest, Is
<1> QED
  BY <1>1, <1>2, <1>3, <1>4, <1>5, <1>6, <1>7, <1>8

LEMMA CountedFields ==
  ASSUME NEW r, IsRequest(r), NEW x, NEW y, NEW z
  PROVE  Is([r EXCEPT !.all = x, !.deaf = y, !.mine = z], r.at, r.who, r.ask, z, y)
<1> DEFINE r1 == [r EXCEPT !.all = x]
<1>1. Is(r1, r.at, r.who, r.ask, r.mine, r.deaf)
  BY OneField, Zenon
<1>2. IsRequest(r1) /\ r1.at = r.at /\ r1.who = r.who /\ r1.ask = r.ask /\ r1.mine = r.mine /\ r1.deaf = r.deaf
  BY <1>1, Zenon DEF Is
<1> HIDE DEF r1
<1> DEFINE r2 == [r1 EXCEPT !.deaf = y]
<1>3. Is(r2, r1.at, r1.who, r1.ask, r1.mine, y)
  BY <1>2, OneField, Zenon
<1>4. IsRequest(r2) /\ r2.at = r.at /\ r2.who = r.who /\ r2.ask = r.ask /\ r2.mine = r.mine /\ r2.deaf = y
  BY <1>3, <1>2, Zenon DEF Is
<1> HIDE DEF r2
<1> DEFINE r3 == [r2 EXCEPT !.mine = z]
<1>5. Is(r3, r2.at, r2.who, r2.ask, z, r2.deaf)
  BY <1>4, OneField, Zenon
<1>6. IsRequest(r3) /\ r3.at = r.at /\ r3.who = r.who /\ r3.ask = r.ask /\ r3.mine = z /\ r3.deaf = y
  BY <1>5, <1>4, Zenon DEF Is
<1> HIDE DEF r3
<1> QED
  BY <1>6, Zenon DEF Is, r1, r2, r3

LEMMA HeardFields ==
  ASSUME NEW r, IsRequest(r), NEW x, NEW y
  PROVE  Is([r EXCEPT !.at = x, !.ask = y], x, r.who, y, r.mine, r.deaf)
<1> DEFINE r1 == [r EXCEPT !.at = x]
<1>1. Is(r1, x, r.who, r.ask, r.mine, r.deaf)
  BY OneField, Zenon
<1>2. IsRequest(r1) /\ r1.at = x /\ r1.who = r.who /\ r1.ask = r.ask /\ r1.mine = r.mine /\ r1.deaf = r.deaf
  BY <1>1, Zenon DEF Is
<1> HIDE DEF r1
<1> DEFINE r2 == [r1 EXCEPT !.ask = y]
<1>3. Is(r2, r1.at, r1.who, y, r1.mine, r1.deaf)
  BY <1>2, OneField, Zenon
<1>4. IsRequest(r2) /\ r2.at = x /\ r2.who = r.who /\ r2.ask = y /\ r2.mine = r.mine /\ r2.deaf = r.deaf
  BY <1>3, <1>2, Zenon DEF Is
<1> HIDE DEF r2
<1> QED
  BY <1>4, Zenon DEF Is, r1, r2

LEMMA PickedFields ==
  ASSUME NEW r, IsRequest(r), NEW x, NEW y, NEW z
  PROVE  Is([r EXCEPT !.at = x, !.now = y, !.mine = z], x, r.who, r.ask, z, r.deaf)
<1> DEFINE r1 == [r EXCEPT !.at = x]
<1>1. Is(r1, x, r.who, r.ask, r.mine, r.deaf)
  BY OneField, Zenon
<1>2. IsRequest(r1) /\ r1.at = x /\ r1.who = r.who /\ r1.ask = r.ask /\ r1.mine = r.mine /\ r1.deaf = r.deaf
  BY <1>1, Zenon DEF Is
<1> HIDE DEF r1
<1> DEFINE r2 == [r1 EXCEPT !.now = y]
<1>3. Is(r2, r1.at, r1.who, r1.ask, r1.mine, r1.deaf)
  BY <1>2, OneField, Zenon
<1>4. IsRequest(r2) /\ r2.at = x /\ r2.who = r.who /\ r2.ask = r.ask /\ r2.mine = r.mine /\ r2.deaf = r.deaf
  BY <1>3, <1>2, Zenon DEF Is
<1> HIDE DEF r2
<1> DEFINE r3 == [r2 EXCEPT !.mine = z]
<1>5. Is(r3, r2.at, r2.who, r2.ask, z, r2.deaf)
  BY <1>4, OneField, Zenon
<1>6. IsRequest(r3) /\ r3.at = x /\ r3.who = r.who /\ r3.ask = r.ask /\ r3.mine = z /\ r3.deaf = r.deaf
  BY <1>5, <1>4, Zenon DEF Is
<1> HIDE DEF r3
<1> QED
  BY <1>6, Zenon DEF Is, r1, r2, r3

LEMMA RemovedFields ==
  ASSUME NEW r, IsRequest(r), NEW x, NEW y, NEW z
  PROVE  Is([r EXCEPT !.at = x, !.now = y, !.rows = z], x, r.who, r.ask, r.mine, r.deaf)
<1> DEFINE r1 == [r EXCEPT !.at = x]
<1>1. Is(r1, x, r.who, r.ask, r.mine, r.deaf)
  BY OneField, Zenon
<1>2. IsRequest(r1) /\ r1.at = x /\ r1.who = r.who /\ r1.ask = r.ask /\ r1.mine = r.mine /\ r1.deaf = r.deaf
  BY <1>1, Zenon DEF Is
<1> HIDE DEF r1
<1> DEFINE r2 == [r1 EXCEPT !.now = y]
<1>3. Is(r2, r1.at, r1.who, r1.ask, r1.mine, r1.deaf)
  BY <1>2, OneField, Zenon
<1>4. IsRequest(r2) /\ r2.at = x /\ r2.who = r.who /\ r2.ask = r.ask /\ r2.mine = r.mine /\ r2.deaf = r.deaf
  BY <1>3, <1>2, Zenon DEF Is
<1> HIDE DEF r2
<1> DEFINE r3 == [r2 EXCEPT !.rows = z]
<1>5. Is(r3, r2.at, r2.who, r2.ask, r2.mine, r2.deaf)
  BY <1>4, OneField, Zenon
<1>6. IsRequest(r3) /\ r3.at = x /\ r3.who = r.who /\ r3.ask = r.ask /\ r3.mine = r.mine /\ r3.deaf = r.deaf
  BY <1>5, <1>4, Zenon DEF Is
<1> HIDE DEF r3
<1> QED
  BY <1>6, Zenon DEF Is, r1, r2, r3

\* A limit's judgement moves with what is counted.
LEMMA JudgedFalls ==
  ASSUME NEW listing \in BOOLEAN, NEW c \in Nat, NEW e \in Nat, NEW d \in Nat, NEW most \in Nat, e >= c - d
  PROVE  Judged(listing, e, most) >= Judged(listing, c, most) - d
BY DEF Judged

LEMMA JudgedHolds ==
  ASSUME NEW c \in Nat, NEW most \in Nat
  PROVE  /\ Judged(TRUE, c, most) >= c /\ \A l : Judged(l, c, most) >= most - 1
         /\ c < most => Judged(TRUE, c, most) = most - 1 /\ Judged(FALSE, c, most) = most - 1
BY DEF Judged

\* Every server that runs stands on a node yet to be asked.
LEMMA AllAhead ==
  ASSUME QuotaTypes, NEW r, r.ask = 1, NEW a
  PROVE  Unasked(r, a) = Owned(a)
BY HostingAssumption DEF Unasked, Owned, HeldServers, QuotaTypes, Nowhere, Node

LEMMA Begins ==
  ASSUME QuotaTypes, NEW r, r.ask = 1, r.mine = 0, NEW a
  PROVE  /\ r.at = "deploy" => ServersJudged(r, a) >= Cardinality(Owned(a))
         /\ r.at = "backup" => BackupsJudged(r, a) >= BackupsOf(Owned(a))
<1>1. Cardinality(Owned(a)) \in Nat /\ BackupsOf(Owned(a)) \in Nat
  BY OwnedIn, ServersCount, BackupsCount
<1>2. ServersDue(r, a) = Cardinality(Owned(a)) /\ BackupsDue(r, a) = BackupsOf(Owned(a))
  BY <1>1, AllAhead DEF ServersDue, BackupsDue
<1>3. Limit \in Nat /\ BackupLimit \in Nat
  BY HostingAssumption
<1> QED
  BY <1>1, <1>2, <1>3, JudgedHolds DEF ServersJudged, BackupsJudged

LEMMA RequestOf ==
  ASSUME NEW at, NEW a
  PROVE  Is(Request(at, a), at, a, 1, 0, FALSE) /\ Is(NoCall, "free", NoOne, 1, 0, FALSE)
BY DEF Request, IsRequest, NoCall, Is

LEMMA OneIsNode == 1 \in Node /\ 0 \in Nat
BY HostingAssumption DEF Node

\* A request that neither deploys nor makes a backup.
LEMMA OtherKeeps ==
  ASSUME QuotaInv, NEW t \in Caller, NEW r, call' = [call EXCEPT ![t] = r],
         UNCHANGED <<on, owner, backups, extra>>,
         IsRequest(r), r.ask \in Node, r.mine \in Nat,
         r.at \notin {"deploy", "create", "backup", "make"} \/ (r.at \in {"deploy", "create"} /\ r.deaf)
  PROVE  QuotaInv'
<1>1. \A a : ~Deploys(r, a) /\ ~Saves(r, a)
  BY DEF Deploys, Saves
<1> QED
  BY <1>1, CallKeeps

LEMMA EndKeeps ==
  ASSUME QuotaInv, NEW t \in Caller, Become(t, NoCall), UNCHANGED <<on, owner, backups, extra>>
  PROVE  QuotaInv'
<1>1. IsRequest(NoCall) /\ NoCall.at = "free" /\ NoCall.ask \in Node /\ NoCall.mine \in Nat
  BY RequestOf, OneIsNode DEF Is
<1> QED
  BY <1>1, OtherKeeps DEF Become

LEMMA BeginKeeps ==
  ASSUME QuotaInv, NEW t \in Caller, NEW a \in Account, Deploy(t, a) \/ Backup(t, a) \/ Erase(t, a)
  PROVE  QuotaInv'
<1>1. QuotaTypes
  BY DEF QuotaInv
<1>2. CASE Deploy(t, a)
  <2> DEFINE r == Request("deploy", a)
  <2>0. Is(r, "deploy", a, 1, 0, FALSE)
    BY RequestOf
  <2>1. IsRequest(r) /\ r.at = "deploy" /\ r.who = a /\ r.ask = 1 /\ r.mine = 0
    BY <2>0 DEF Is
  <2>2. call' = [call EXCEPT ![t] = r] /\ UNCHANGED <<on, owner, backups, extra>>
    BY <1>2 DEF Deploy, Become, Still
  <2> HIDE DEF r
  <2>3. \A b : ServersJudged(r, b) >= Cardinality(Owned(b)) /\ ~Saves(r, b)
    BY <1>1, <2>1, Begins DEF Saves
  <2> QED
    BY <2>1, <2>2, <2>3, OneIsNode, CallKeeps
<1>3. CASE Backup(t, a)
  <2> DEFINE r == Request("backup", a)
  <2>0. Is(r, "backup", a, 1, 0, FALSE)
    BY RequestOf
  <2>1. IsRequest(r) /\ r.at = "backup" /\ r.who = a /\ r.ask = 1 /\ r.mine = 0
    BY <2>0 DEF Is
  <2>2. call' = [call EXCEPT ![t] = r] /\ UNCHANGED <<on, owner, backups, extra>>
    BY <1>3 DEF Backup, Become, Still
  <2> HIDE DEF r
  <2>3. \A b : BackupsJudged(r, b) >= BackupsOf(Owned(b)) /\ ~Deploys(r, b)
    BY <1>1, <2>1, Begins DEF Deploys
  <2> QED
    BY <2>1, <2>2, <2>3, OneIsNode, CallKeeps
<1>4. CASE Erase(t, a)
  <2> DEFINE q == Request("erase", a)
  <2> DEFINE r == [q EXCEPT !.before = Owned(a)]
  <2>0. Is(q, "erase", a, 1, 0, FALSE)
    BY RequestOf
  <2>1. IsRequest(q) /\ q.at = "erase" /\ q.ask = 1 /\ q.mine = 0
    BY <2>0 DEF Is
  <2>2. call' = [call EXCEPT ![t] = r] /\ UNCHANGED <<on, owner, backups, extra>>
    BY <1>4 DEF Erase, Become, Still
  <2> HIDE DEF q
  <2>3. Is(r, q.at, q.who, q.ask, q.mine, q.deaf)
    BY <2>1, OneField, Zenon
  <2> HIDE DEF r
  <2>4. IsRequest(r) /\ r.at = "erase" /\ r.ask \in Node /\ r.mine \in Nat
    BY <2>1, <2>3, OneIsNode DEF Is
  <2> QED
    BY <2>2, <2>4, OtherKeeps
<1> QED
  BY <1>2, <1>3, <1>4

LEMMA DisjointCount ==
  ASSUME NEW S, NEW T, IsFiniteSet(S), IsFiniteSet(T), S \cap T = {}
  PROVE  Cardinality(S \cup T) = Cardinality(S) + Cardinality(T)
<1>1. Cardinality(S \cap T) = 0
  BY FS_EmptySet
<1>2. Cardinality(S) \in Nat /\ Cardinality(T) \in Nat
  BY FS_CardinalityType
<1>3. Cardinality(S \cup T) = Cardinality(S) + Cardinality(T) - Cardinality(S \cap T)
  BY FS_Union
<1> QED
  BY <1>1, <1>2, <1>3

\* A listing that leaves nothing out moves what it lists from due to counted.
LEMMA Listed ==
  ASSUME QuotaTypes, NEW n \in Node, NEW a, NEW q, NEW r, r.ask = n, q.ask = n + 1
  PROVE  /\ Cardinality(Unasked(r, a)) = Cardinality(Here(n) \cap Owned(a)) + Cardinality(Unasked(q, a))
         /\ BackupsOf(Unasked(r, a)) = BackupsOf(Here(n) \cap Owned(a)) + BackupsOf(Unasked(q, a))
<1> DEFINE S == Here(n) \cap Owned(a)
           R == Unasked(q, a)
<1>1. \A i \in Owned(a) : i \in Instance /\ on[i] \in Nat /\ on[i] <= Nodes
  BY HostingAssumption DEF Owned, HeldServers, QuotaTypes, Node, Nowhere
<1>2. n \in Nat /\ n <= Nodes /\ Nodes \in Nat
  BY HostingAssumption DEF Node
<1>3. \A i \in Owned(a) : on[i] >= n <=> (on[i] = n \/ on[i] >= n + 1)
  BY <1>1, <1>2
<1>4. Unasked(r, a) = S \cup R /\ S \cap R = {}
  BY <1>1, <1>2, <1>3 DEF Unasked, Here
<1>5. S \in SUBSET Instance /\ R \in SUBSET Instance
  BY <1>1 DEF Unasked
<1> HIDE DEF S, R
<1>6. IsFiniteSet(S) /\ IsFiniteSet(R) /\ IsFiniteSet(BackupsIn(S)) /\ IsFiniteSet(BackupsIn(R))
  BY <1>5, ServersCount, BackupsCount
<1>7. Cardinality(S \cup R) = Cardinality(S) + Cardinality(R)
  BY <1>4, <1>6, DisjointCount
<1>8. BackupsIn(S \cup R) = BackupsIn(S) \cup BackupsIn(R) /\ BackupsIn(S) \cap BackupsIn(R) = {}
  BY <1>4 DEF BackupsIn
<1>9. Cardinality(BackupsIn(S) \cup BackupsIn(R)) = Cardinality(BackupsIn(S)) + Cardinality(BackupsIn(R))
  BY <1>6, <1>8, DisjointCount
<1> QED
  BY <1>4, <1>7, <1>8, <1>9 DEF S, R, BackupsOf

\* What a request is judged by when a listing was counted.
LEMMA CountedOn ==
  ASSUME QuotaTypes, NEW t \in Caller, NEW q, NEW a, call[t].who = a, q.who = a,
         q.at = call[t].at, q.ask = call[t].ask + 1
  PROVE  LET S == Here(call[t].ask) \cap Owned(a) IN
         /\ q.mine = call[t].mine + Cardinality(S) => ServersJudged(q, a) = ServersJudged(call[t], a)
         /\ q.mine = call[t].mine + BackupsOf(S) => BackupsJudged(q, a) = BackupsJudged(call[t], a)
<1> DEFINE r == call[t]
           S == Here(r.ask) \cap Owned(a)
<1>1. r.ask \in Node /\ r.mine \in Nat
  BY DEF QuotaTypes
<1>2. S \in SUBSET Instance /\ Unasked(q, a) \in SUBSET Instance
  BY OwnedIn DEF Unasked
<1>3. /\ Cardinality(S) \in Nat /\ BackupsOf(S) \in Nat
      /\ Cardinality(Unasked(q, a)) \in Nat /\ BackupsOf(Unasked(q, a)) \in Nat
  BY <1>2, ServersCount, BackupsCount
<1>4. /\ Cardinality(Unasked(r, a)) = Cardinality(S) + Cardinality(Unasked(q, a))
      /\ BackupsOf(Unasked(r, a)) = BackupsOf(S) + BackupsOf(Unasked(q, a))
  BY <1>1, Listed
<1>5. r.at = q.at
  OBVIOUS
<1> HIDE DEF r, S
<1>6. q.mine = r.mine + Cardinality(S) => ServersDue(q, a) = ServersDue(r, a)
  BY <1>1, <1>3, <1>4 DEF ServersDue
<1>7. q.mine = r.mine + BackupsOf(S) => BackupsDue(q, a) = BackupsDue(r, a)
  BY <1>1, <1>3, <1>4 DEF BackupsDue
<1>8. /\ q.mine = r.mine + Cardinality(S) => ServersJudged(q, a) = ServersJudged(r, a)
      /\ q.mine = r.mine + BackupsOf(S) => BackupsJudged(q, a) = BackupsJudged(r, a)
  BY <1>5, <1>6, <1>7 DEF ServersJudged, BackupsJudged
<1> QED
  BY <1>8 DEF r, S

\* The count of the last node completes it.
LEMMA LastCount ==
  ASSUME QuotaTypes, NEW t \in Caller, NEW a, call[t].ask = Nodes
  PROVE  LET S == Here(Nodes) \cap Owned(a) IN
         /\ ServersDue(call[t], a) = call[t].mine + Cardinality(S)
         /\ BackupsDue(call[t], a) = call[t].mine + BackupsOf(S)
<1>1. Unasked(call[t], a) = Here(Nodes) \cap Owned(a)
  BY HostingAssumption DEF Unasked, Here, Owned, HeldServers, QuotaTypes, Node, Nowhere
<1> QED
  BY <1>1 DEF ServersDue, BackupsDue

\* The last node's listing of a deploy is judged, in the same step.
LEMMA AdmittedIs ==
  ASSUME NEW e, NEW m, IsRequest(e), e.mine = m
  PROVE  /\ IsRequest(Admitted(e)) /\ Admitted(e).ask = 1 /\ Admitted(e).mine = 0
         /\ \/ Admitted(e).at = "free"
            \/ Admitted(e).at = "create" /\ m < Limit /\ Admitted(e).who = e.who /\ Admitted(e).deaf = e.deaf
<1> DEFINE q == Request("create", e.who)
<1> DEFINE f == [q EXCEPT !.deaf = e.deaf]
<1>1. Admitted(e) = IF Admits(e) THEN f ELSE NoCall
  BY DEF Admitted
<1>2. Is(q, "create", e.who, 1, 0, FALSE) /\ Is(NoCall, "free", NoOne, 1, 0, FALSE)
  BY RequestOf
<1> HIDE DEF q
<1>3. IsRequest(q)
  BY <1>2 DEF Is
<1>4. Is(f, q.at, q.who, q.ask, q.mine, e.deaf)
  BY <1>3, OneField, Zenon
<1> HIDE DEF f
<1>5. CASE Admits(e)
  <2>1. Is(f, "create", e.who, 1, 0, e.deaf) /\ Admitted(e) = f
    BY <1>1, <1>2, <1>4, <1>5, Zenon DEF Is
  <2>2. m < Limit
    BY <1>5 DEF Admits
  <2> QED
    BY <2>1, <2>2, Zenon DEF Is
<1>6. CASE ~Admits(e)
  <2>1. Admitted(e) = NoCall
    BY <1>1, <1>6
  <2> QED
    BY <1>2, <2>1, Zenon DEF Is
<1> QED
  BY <1>5, <1>6

LEMMA AdmittedBackupIs ==
  ASSUME NEW e, NEW m, e.mine = m
  PROVE  LET f == AdmittedBackup(e) IN
         /\ IsRequest(f) /\ f.ask = 1 /\ f.mine = 0
         /\ f.at = "free" \/ (f.at = "make" /\ m < BackupLimit /\ f.who = e.who)
<1>1. Is(Request("make", e.who), "make", e.who, 1, 0, FALSE) /\ Is(NoCall, "free", NoOne, 1, 0, FALSE)
  BY RequestOf
<1>2. CASE m < BackupLimit
  <2>1. AdmittedBackup(e) = Request("make", e.who)
    BY <1>2 DEF AdmittedBackup
  <2> QED
    BY <1>1, <1>2, <2>1, Zenon DEF Is
<1>3. CASE ~(m < BackupLimit)
  <2>1. AdmittedBackup(e) = NoCall
    BY <1>3 DEF AdmittedBackup
  <2> QED
    BY <1>1, <2>1, Zenon DEF Is
<1> QED
  BY <1>2, <1>3

\* A deploy goes on to the next node or is judged.
LEMMA DeployGoes ==
  ASSUME QuotaInv, NEW t \in Caller, NEW e, IsRequest(e), e.at = "deploy", call[t].at = "deploy",
         e.who = call[t].who, e.ask = call[t].ask, e.mine \in Nat,
         Become(t, Step(Admitted, e)), Still,
         ~e.deaf => ~call[t].deaf
           /\ e.mine = call[t].mine + Cardinality(Here(call[t].ask) \cap Owned(call[t].who))
  PROVE  QuotaInv'
<1>1. QuotaTypes
  BY DEF QuotaInv
<1>2. UNCHANGED <<on, owner, backups, extra>>
  BY DEF Still
<1>3. call[t].ask \in Node /\ call[t].mine \in Nat /\ Limit \in Nat /\ Nodes \in Nat
  BY <1>1, HostingAssumption DEF QuotaTypes
<1>4. CASE e.ask < Nodes
  <2> DEFINE k == e.ask + 1
  <2> DEFINE f == [e EXCEPT !.ask = k]
  <2>1. call' = [call EXCEPT ![t] = f]
    BY <1>4 DEF Become, Step
  <2>2. k \in Node /\ k = call[t].ask + 1
    BY <1>3, <1>4 DEF Node
  <2> HIDE DEF k
  <2>3. Is(f, e.at, e.who, k, e.mine, e.deaf)
    BY OneField, Zenon
  <2> HIDE DEF f
  <2>4. IsRequest(f) /\ f.at = "deploy" /\ f.who = call[t].who /\ f.ask = k /\ f.mine = e.mine
    BY <2>3 DEF Is
  <2>5. f.deaf <=> e.deaf
    BY <2>3, Zenon DEF Is
  <2>6. \A a : ~Saves(f, a)
    BY <2>4 DEF Saves
  <2>7. ASSUME NEW a \in Account, Deploys(f, a)
        PROVE  Deploys(call[t], a) /\ ServersJudged(f, a) >= ServersJudged(call[t], a)
    <3>1. f.who = a /\ ~e.deaf
      BY <2>7, <2>5, Zenon DEF Deploys
    <3>2. ~call[t].deaf /\ f.mine = call[t].mine + Cardinality(Here(call[t].ask) \cap Owned(a)) /\ call[t].who = a
      BY <3>1, <2>4, Zenon
    <3>3. Deploys(call[t], a)
      BY <3>2 DEF Deploys
    <3>4. ServersJudged(f, a) = ServersJudged(call[t], a)
      BY <1>1, <2>2, <2>4, <3>1, <3>2, CountedOn
    <3>5. ServersJudged(call[t], a) \in Int
      BY <1>1, DueTypes
    <3> QED
      BY <3>3, <3>4, <3>5
  <2> QED
    BY <1>2, <2>1, <2>2, <2>4, <2>6, <2>7, CallKeeps
<1>5. CASE ~(e.ask < Nodes)
  <2> DEFINE f == Admitted(e)
  <2>1. call' = [call EXCEPT ![t] = f]
    BY <1>5 DEF Become, Step
  <2>2. /\ IsRequest(f) /\ f.ask = 1 /\ f.mine = 0
        /\ f.at = "free" \/ (f.at = "create" /\ e.mine < Limit /\ f.who = e.who /\ f.deaf = e.deaf)
    BY AdmittedIs, Zenon
  <2> HIDE DEF f
  <2>3. call[t].ask = Nodes
    BY <1>3, <1>5 DEF Node
  <2>4. \A a : ~Saves(f, a)
    BY <2>2 DEF Saves
  <2>5. ASSUME NEW a \in Account, Deploys(f, a)
        PROVE  Deploys(call[t], a) /\ ServersJudged(f, a) >= ServersJudged(call[t], a)
    <3>1. f.at = "create" /\ e.mine < Limit /\ f.who = e.who /\ f.deaf = e.deaf
      BY <2>2, <2>5 DEF Deploys
    <3>2. f.who = a /\ ~e.deaf
      BY <2>5, <3>1, Zenon DEF Deploys
    <3>3. call[t].who = a
      BY <3>1, <3>2
    <3>4. ~call[t].deaf /\ e.mine = call[t].mine + Cardinality(Here(call[t].ask) \cap Owned(a))
      BY <3>2, <3>3, Zenon
    <3>5. ServersDue(call[t], a) = e.mine
      BY <1>1, <2>3, <3>4, LastCount
    <3>6. ServersJudged(call[t], a) = Limit - 1
      BY <1>3, <3>1, <3>5, JudgedHolds DEF ServersJudged
    <3>7. ServersJudged(f, a) = Limit - 1
      BY <3>1 DEF ServersJudged, Judged
    <3>8. Deploys(call[t], a)
      BY <3>3, <3>4 DEF Deploys
    <3> QED
      BY <1>3, <3>6, <3>7, <3>8
  <2> QED
    BY <1>2, <2>1, <2>2, <2>4, <2>5, OneIsNode, CallKeeps
<1> QED
  BY <1>4, <1>5

LEMMA DeployAsksKeeps ==
  ASSUME QuotaInv, NEW t \in Caller, DeployAsks(t)
  PROVE  QuotaInv'
<1> DEFINE r == call[t]
<1>1. QuotaTypes
  BY DEF QuotaInv
<1>2. IsRequest(r) /\ r.mine \in Nat /\ r.at = "deploy" /\ Still
  BY <1>1 DEF QuotaTypes, DeployAsks
<1>3. CASE Become(t, Step(Admitted, [r EXCEPT !.deaf = TRUE]))
  <2> DEFINE e == [r EXCEPT !.deaf = TRUE]
  <2>1. Is(e, r.at, r.who, r.ask, r.mine, TRUE)
    BY <1>2, OneField, Zenon
  <2>2. Become(t, Step(Admitted, e))
    BY <1>3
  <2> HIDE DEF e
  <2>3. IsRequest(e) /\ e.at = "deploy" /\ e.who = r.who /\ e.ask = r.ask /\ e.mine \in Nat /\ e.deaf = TRUE
    BY <1>2, <2>1 DEF Is
  <2> QED
    BY <1>2, <2>2, <2>3, DeployGoes
<1>4. ASSUME NEW S \in Replies(r.ask), NEW all, NEW deaf, deaf = (r.deaf \/ S # Here(r.ask)),
             Become(t, Step(Admitted, [r EXCEPT !.all = all, !.deaf = deaf,
                                         !.mine = r.mine + Cardinality(S \cap Owned(r.who))]))
      PROVE  QuotaInv'
  <2> DEFINE m == r.mine + Cardinality(S \cap Owned(r.who))
  <2>1. m \in Nat
    <3>1. S \cap Owned(r.who) \in SUBSET Instance
      BY OwnedIn
    <3> QED
      BY <1>2, <3>1, ServersCount
  <2>2. ~deaf => ~r.deaf /\ m = r.mine + Cardinality(Here(r.ask) \cap Owned(r.who))
    BY <1>4, Zenon
  <2> HIDE DEF m
  <2> DEFINE e == [r EXCEPT !.all = all, !.deaf = deaf, !.mine = m]
  <2>3. Is(e, r.at, r.who, r.ask, m, deaf)
    BY <1>2, CountedFields, Zenon
  <2>4. Become(t, Step(Admitted, e))
    BY <1>4 DEF m
  <2> HIDE DEF e
  <2>5. IsRequest(e) /\ e.at = "deploy" /\ e.who = r.who /\ e.ask = r.ask /\ e.mine = m /\ e.deaf = deaf
    BY <1>2, <2>3, Zenon DEF Is
  <2>6. ~e.deaf => ~r.deaf /\ e.mine = r.mine + Cardinality(Here(r.ask) \cap Owned(r.who))
    BY <2>2, <2>5, Zenon
  <2> QED
    BY <1>2, <2>1, <2>4, <2>5, <2>6, DeployGoes
<1> QED
  BY <1>3, <1>4 DEF DeployAsks

\* A count of backups goes on to the next node or is judged.
LEMMA BackupGoes ==
  ASSUME QuotaInv, NEW t \in Caller, NEW e, IsRequest(e), e.at = "backup", call[t].at = "backup",
         e.who = call[t].who, e.ask = call[t].ask, e.mine \in Nat,
         Become(t, Step(AdmittedBackup, e)), Still,
         RepliesSuffice /\ e.mine < BackupLimit =>
           e.mine = call[t].mine + BackupsOf(Here(call[t].ask) \cap Owned(call[t].who))
  PROVE  QuotaInv'
<1>1. QuotaTypes
  BY DEF QuotaInv
<1>2. UNCHANGED <<on, owner, backups, extra>>
  BY DEF Still
<1>3. call[t].ask \in Node /\ call[t].mine \in Nat /\ BackupLimit \in Nat /\ Nodes \in Nat
  BY <1>1, HostingAssumption DEF QuotaTypes
<1>c. \A a : BackupsOf(Here(call[t].ask) \cap Owned(a)) \in Nat
  <2>1. \A a : Here(call[t].ask) \cap Owned(a) \in SUBSET Instance
    BY OwnedIn
  <2> QED
    BY <2>1, BackupsCount
<1>4. CASE e.ask < Nodes
  <2> DEFINE k == e.ask + 1
  <2> DEFINE f == [e EXCEPT !.ask = k]
  <2>1. call' = [call EXCEPT ![t] = f]
    BY <1>4 DEF Become, Step
  <2>2. k \in Node /\ k = call[t].ask + 1
    BY <1>3, <1>4 DEF Node
  <2> HIDE DEF k
  <2>3. Is(f, e.at, e.who, k, e.mine, e.deaf)
    BY OneField, Zenon
  <2> HIDE DEF f
  <2>4. IsRequest(f) /\ f.at = "backup" /\ f.who = call[t].who /\ f.ask = k /\ f.mine = e.mine
    BY <2>3 DEF Is
  <2>5. \A a : ~Deploys(f, a)
    BY <2>4 DEF Deploys
  <2>6. ASSUME RepliesSuffice, NEW a \in Account, Saves(f, a)
        PROVE  Saves(call[t], a) /\ BackupsJudged(f, a) >= BackupsJudged(call[t], a)
    <3>1. f.who = a /\ call[t].who = a /\ f.mine < BackupLimit
      BY <2>4, <2>6 DEF Saves
    <3>2. f.mine = call[t].mine + BackupsOf(Here(call[t].ask) \cap Owned(a))
      BY <2>4, <2>6, <3>1
    <3>3. BackupsJudged(f, a) = BackupsJudged(call[t], a)
      BY <1>1, <2>2, <2>4, <3>1, <3>2, CountedOn
    <3>4. BackupsJudged(call[t], a) \in Int
      BY <1>1, DueTypes
    <3>5. call[t].mine < BackupLimit
      BY <1>3, <1>c, <3>1, <3>2
    <3> QED
      BY <3>1, <3>3, <3>4, <3>5 DEF Saves
  <2> QED
    BY <1>2, <2>1, <2>2, <2>4, <2>5, <2>6, CallKeeps
<1>5. CASE ~(e.ask < Nodes)
  <2> DEFINE f == AdmittedBackup(e)
  <2>1. call' = [call EXCEPT ![t] = f]
    BY <1>5 DEF Become, Step
  <2>2. /\ IsRequest(f) /\ f.ask = 1 /\ f.mine = 0
        /\ f.at = "free" \/ (f.at = "make" /\ e.mine < BackupLimit /\ f.who = e.who)
    BY AdmittedBackupIs, Zenon
  <2> HIDE DEF f
  <2>3. call[t].ask = Nodes
    BY <1>3, <1>5 DEF Node
  <2>4. \A a : ~Deploys(f, a)
    BY <2>2 DEF Deploys
  <2>5. ASSUME RepliesSuffice, NEW a \in Account, Saves(f, a)
        PROVE  Saves(call[t], a) /\ BackupsJudged(f, a) >= BackupsJudged(call[t], a)
    <3>1. f.at = "make" /\ e.mine < BackupLimit /\ f.who = e.who /\ f.who = a /\ call[t].who = a
      BY <2>2, <2>5 DEF Saves
    <3>2. e.mine = call[t].mine + BackupsOf(Here(call[t].ask) \cap Owned(a))
      BY <2>5, <3>1
    <3>3. BackupsDue(call[t], a) = e.mine
      BY <1>1, <2>3, <3>2, LastCount
    <3>4. BackupsJudged(call[t], a) = BackupLimit - 1
      BY <1>3, <3>1, <3>3, JudgedHolds DEF BackupsJudged
    <3>5. BackupsJudged(f, a) = BackupLimit - 1
      BY <3>1 DEF BackupsJudged, Judged
    <3>6. call[t].mine < BackupLimit
      BY <1>3, <1>c, <3>1, <3>2
    <3> QED
      BY <1>3, <3>1, <3>4, <3>5, <3>6 DEF Saves
  <2> QED
    BY <1>2, <2>1, <2>2, <2>4, <2>5, OneIsNode, CallKeeps
<1> QED
  BY <1>4, <1>5

LEMMA BackupAsksKeeps ==
  ASSUME QuotaInv, NEW t \in Caller, BackupAsks(t)
  PROVE  QuotaInv'
<1> DEFINE r == call[t]
<1>1. QuotaTypes
  BY DEF QuotaInv
<1>2. IsRequest(r) /\ r.mine \in Nat /\ r.at = "backup" /\ Still
  BY <1>1 DEF QuotaTypes, BackupAsks
<1>3. CASE Become(t, NoCall)
  BY <1>2, <1>3, EndKeeps DEF Still
<1>4. ASSUME NEW S \in Replies(r.ask),
             Become(t, Step(AdmittedBackup, [r EXCEPT !.mine = r.mine + HeardBackups(S \cap Owned(r.who))]))
      PROVE  QuotaInv'
  <2> DEFINE m == r.mine + HeardBackups(S \cap Owned(r.who))
  <2>1. m \in Nat
    <3>1. S \cap Owned(r.who) \in SUBSET Instance
      BY OwnedIn
    <3> QED
      BY <1>2, <3>1, HeardCount
  <2>2. RepliesSuffice /\ m < BackupLimit => m = r.mine + BackupsOf(Here(r.ask) \cap Owned(r.who))
    <3> SUFFICES ASSUME RepliesSuffice, m < BackupLimit
                 PROVE  m = r.mine + BackupsOf(Here(r.ask) \cap Owned(r.who))
      OBVIOUS
    <3>1. S = Here(r.ask)
      BY <1>4, WholeReply DEF RepliesSuffice
    <3>2. S \cap Owned(r.who) \in SUBSET Instance
      BY OwnedIn
    <3>3. BackupLimit \in Nat /\ BackupsFit \in Nat /\ BackupsFit >= BackupLimit
      BY HostingAssumption DEF RepliesSuffice
    <3>4. HeardBackups(S \cap Owned(r.who)) = BackupsOf(S \cap Owned(r.who))
      BY <1>1, <1>2, <3>2, <3>3, HeardCount, HeardAllOrFull DEF QuotaTypes
    <3> QED
      BY <3>1, <3>4
  <2> HIDE DEF m
  <2> DEFINE e == [r EXCEPT !.mine = m]
  <2>3. Is(e, r.at, r.who, r.ask, m, r.deaf)
    BY <1>2, OneField, Zenon
  <2>4. Become(t, Step(AdmittedBackup, e))
    BY <1>4 DEF m
  <2> HIDE DEF e
  <2>5. IsRequest(e) /\ e.at = "backup" /\ e.who = r.who /\ e.ask = r.ask /\ e.mine = m
    BY <1>2, <2>3 DEF Is
  <2> QED
    BY <1>2, <2>1, <2>2, <2>4, <2>5, BackupGoes
<1> QED
  BY <1>3, <1>4 DEF BackupAsks

\* The steps of an erase that remove nothing.
LEMMA EraseStepKeeps ==
  ASSUME QuotaInv, NEW t \in Caller,
         EraseAsks(t) \/ EraseDone(t) \/ CallFails(t) \/ \E i \in Instance : ErasePicks(t, i)
  PROVE  QuotaInv'
<1> DEFINE r == call[t]
<1>1. QuotaTypes
  BY DEF QuotaInv
<1>2. IsRequest(r) /\ r.mine \in Nat /\ r.ask \in Node
  BY <1>1 DEF QuotaTypes
<1>3. CASE EraseDone(t)
  BY <1>3, EndKeeps DEF EraseDone
<1>4. CASE CallFails(t)
  BY <1>4, EndKeeps DEF CallFails, Still
<1>5. ASSUME NEW i \in Instance, ErasePicks(t, i) PROVE QuotaInv'
  <2> DEFINE n == HeardBackups({i})
  <2> DEFINE f == [r EXCEPT !.at = "clear", !.now = i, !.mine = n]
  <2>1. call' = [call EXCEPT ![t] = f] /\ UNCHANGED <<on, owner, backups, extra>>
    BY <1>5 DEF ErasePicks, Become, Still
  <2>3. n \in Nat
    BY HeardCount
  <2> HIDE DEF n
  <2>2. Is(f, "clear", r.who, r.ask, n, r.deaf)
    BY <1>2, PickedFields, Zenon
  <2> HIDE DEF f
  <2>4. IsRequest(f) /\ f.at = "clear" /\ f.ask \in Node /\ f.mine \in Nat
    BY <1>2, <2>2, <2>3 DEF Is
  <2> QED
    BY <2>1, <2>4, OtherKeeps
<1>6. CASE EraseAsks(t)
  <2>1. r.at = "erase" /\ UNCHANGED <<on, owner, backups, extra>>
    BY <1>6 DEF EraseAsks, Still
  <2>2. CASE Become(t, NoCall)
    BY <2>1, <2>2, EndKeeps
  <2>3. ASSUME NEW W, Become(t, Step(Heard, [r EXCEPT !.rows = W])) PROVE QuotaInv'
    <3> DEFINE e == [r EXCEPT !.rows = W]
    <3>1. Is(e, r.at, r.who, r.ask, r.mine, r.deaf)
      BY <1>2, OneField, Zenon
    <3>2. Become(t, Step(Heard, e))
      BY <2>3
    <3> HIDE DEF e
    <3>3. IsRequest(e) /\ e.at = "erase" /\ e.ask = r.ask /\ e.mine = r.mine
      BY <2>1, <3>1 DEF Is
    <3>4. CASE e.ask < Nodes
      <4> DEFINE k == e.ask + 1
      <4> DEFINE f == [e EXCEPT !.ask = k]
      <4>1. call' = [call EXCEPT ![t] = f]
        BY <3>2, <3>4 DEF Become, Step
      <4>2. k \in Node
        BY <1>2, <3>3, <3>4, HostingAssumption DEF Node
      <4> HIDE DEF k
      <4>3. Is(f, e.at, e.who, k, e.mine, e.deaf)
        BY <3>3, OneField, Zenon
      <4> HIDE DEF f
      <4>4. IsRequest(f) /\ f.at = "erase" /\ f.ask \in Node /\ f.mine \in Nat
        BY <1>2, <3>3, <4>2, <4>3 DEF Is
      <4> QED
        BY <2>1, <4>1, <4>4, OtherKeeps
    <3>5. CASE ~(e.ask < Nodes)
      <4> DEFINE f == [e EXCEPT !.at = "pick", !.ask = 1]
      <4>1. call' = [call EXCEPT ![t] = f]
        BY <3>2, <3>5 DEF Become, Step, Heard
      <4>2. Is(f, "pick", e.who, 1, e.mine, e.deaf)
        BY <3>3, HeardFields, Zenon
      <4> HIDE DEF f
      <4>3. IsRequest(f) /\ f.at = "pick" /\ f.ask \in Node /\ f.mine \in Nat
        BY <1>2, <3>3, <4>2, OneIsNode DEF Is
      <4> QED
        BY <2>1, <4>1, <4>3, OtherKeeps
    <3> QED
      BY <3>4, <3>5
  <2> QED
    BY <1>6, <2>2, <2>3 DEF EraseAsks
<1> QED
  BY <1>3, <1>4, <1>5, <1>6

\* Of a set some elements go: of a part of it no more than of the whole.
LEMMA LessOfAll ==
  ASSUME NEW S, NEW X, IsFiniteSet(S)
  PROVE  LET d == Cardinality(S \cap X) IN
         /\ d \in Nat /\ Cardinality(S) = Cardinality(S \ X) + d
         /\ \A U \in SUBSET S : Cardinality(U \ X) >= Cardinality(U) - d
<1>1. IsFiniteSet(S \cap X)
  BY FS_Subset
<1>2. Cardinality(S \cap X) \in Nat /\ Cardinality(S) \in Nat
  BY <1>1, FS_CardinalityType
<1>3. Cardinality(S \ X) = Cardinality(S) - Cardinality(S \cap X)
  BY FS_Difference
<1>4. ASSUME NEW U \in SUBSET S PROVE Cardinality(U \ X) >= Cardinality(U) - Cardinality(S \cap X)
  <2>1. IsFiniteSet(U)
    BY FS_Subset
  <2>2. IsFiniteSet(U \cap X) /\ U \cap X \in SUBSET (S \cap X)
    BY <2>1, FS_Subset
  <2>3. Cardinality(U \cap X) <= Cardinality(S \cap X)
    BY <1>1, <2>2, FS_Subset
  <2>4. Cardinality(U \ X) = Cardinality(U) - Cardinality(U \cap X)
    BY <2>1, FS_Difference
  <2>5. Cardinality(U) \in Nat /\ Cardinality(U \cap X) \in Nat
    BY <2>1, <2>2, FS_CardinalityType
  <2> QED
    BY <1>2, <2>3, <2>4, <2>5
<1> QED
  BY <1>2, <1>3, <1>4

\* No request begins or hears: what changes is the servers and backups.
OnlyEnd ==
  \A t \in Caller : call'[t] = call[t] \/ call'[t].at \notin {"deploy", "create", "backup", "make"}

LEMMA ServersTaken ==
  ASSUME QuotaInv, QuotaTypes', ~extra, OnlyEnd, NEW a \in Account, NEW X,
         Owned(a)' = Owned(a) \ X,
         \A t \in Caller : call'[t] = call[t] => Unasked(call[t], a)' = Unasked(call[t], a) \ X
  PROVE  ServersSpared(a)' /\ Cardinality(Owned(a)') <= Limit + Cardinality(Caller) - 1
<1>1. QuotaTypes
  BY DEF QuotaInv
<1>2. Owned(a) \in SUBSET Instance /\ IsFiniteSet(Owned(a))
  BY OwnedIn, ServersCount
<1> DEFINE d == Cardinality(Owned(a) \cap X)
<1>3. /\ d \in Nat /\ Cardinality(Owned(a)) = Cardinality(Owned(a) \ X) + d
      /\ \A U \in SUBSET Owned(a) : Cardinality(U \ X) >= Cardinality(U) - d
  BY <1>2, LessOfAll
<1> HIDE DEF d
<1>4. ASSUME NEW t \in Caller, Deploys(call[t], a)'
      PROVE  Deploys(call[t], a) /\ ServersJudged(call[t], a)' >= ServersJudged(call[t], a) - d
  <2>1. call'[t] = call[t]
    BY <1>4 DEF OnlyEnd, Deploys
  <2>2. Deploys(call[t], a)
    BY <1>4, <2>1 DEF Deploys
  <2>3. Unasked(call[t], a) \in SUBSET Owned(a) /\ Unasked(call[t], a)' = Unasked(call[t], a) \ X
    BY <2>1 DEF Unasked
  <2>4. Cardinality(Unasked(call[t], a)') >= Cardinality(Unasked(call[t], a)) - d
    BY <1>3, <2>3
  <2>5. /\ Cardinality(Unasked(call[t], a)) \in Nat /\ Cardinality(Unasked(call[t], a) \ X) \in Nat
        /\ call[t].mine \in Nat /\ Limit \in Nat
    <3>1. Unasked(call[t], a) \in SUBSET Instance /\ Unasked(call[t], a) \ X \in SUBSET Instance
      BY <1>2, <2>3
    <3> QED
      BY <1>1, <3>1, ServersCount, HostingAssumption DEF QuotaTypes
  <2> DEFINE c == call[t].mine + Cardinality(Unasked(call[t], a))
             e == call[t].mine + Cardinality(Unasked(call[t], a) \ X)
             l == call[t].at = "deploy"
  <2>6. c \in Nat /\ e \in Nat /\ e >= c - d /\ l \in BOOLEAN
    BY <1>3, <2>3, <2>4, <2>5
  <2>7. ServersJudged(call[t], a) = Judged(l, c, Limit)
    BY DEF ServersJudged, ServersDue
  <2>8. ServersJudged(call[t], a)' = Judged(l, e, Limit)
    BY <2>1, <2>3 DEF ServersJudged, ServersDue, Judged
  <2> HIDE DEF c, e, l
  <2>9. Judged(l, e, Limit) >= Judged(l, c, Limit) - d
    BY <1>3, <2>5, <2>6, JudgedFalls
  <2> QED
    BY <2>2, <2>7, <2>8, <2>9
<1>5. ServersLose(a, d)
  BY <1>3, <1>4 DEF ServersLose
<1> QED
  BY <1>3, <1>5, ServersFall

LEMMA BackupsTaken ==
  ASSUME QuotaInv, QuotaTypes', RepliesSuffice, OnlyEnd, NEW a \in Account, NEW X,
         BackupsIn(Owned(a))' = BackupsIn(Owned(a)) \ X,
         \A t \in Caller : call'[t] = call[t] =>
            BackupsIn(Unasked(call[t], a))' = BackupsIn(Unasked(call[t], a)) \ X
  PROVE  BackupsSpared(a)' /\ BackupsOf(Owned(a))' <= BackupLimit + Cardinality(Caller) - 1
<1>1. QuotaTypes
  BY DEF QuotaInv
<1>2. Owned(a) \in SUBSET Instance /\ IsFiniteSet(BackupsIn(Owned(a)))
  BY OwnedIn, BackupsCount
<1> DEFINE d == Cardinality(BackupsIn(Owned(a)) \cap X)
<1>3. /\ d \in Nat /\ Cardinality(BackupsIn(Owned(a))) = Cardinality(BackupsIn(Owned(a)) \ X) + d
      /\ \A U \in SUBSET BackupsIn(Owned(a)) : Cardinality(U \ X) >= Cardinality(U) - d
  BY <1>2, LessOfAll
<1> HIDE DEF d
<1>4. ASSUME NEW t \in Caller, Saves(call[t], a)'
      PROVE  Saves(call[t], a) /\ BackupsJudged(call[t], a)' >= BackupsJudged(call[t], a) - d
  <2>1. call'[t] = call[t]
    BY <1>4 DEF OnlyEnd, Saves
  <2>2. Saves(call[t], a)
    BY <1>4, <2>1 DEF Saves
  <2> DEFINE U == BackupsIn(Unasked(call[t], a))
  <2>3. U \in SUBSET BackupsIn(Owned(a)) /\ BackupsIn(Unasked(call[t], a))' = U \ X
    BY <2>1 DEF Unasked, BackupsIn
  <2>4. Cardinality(U \ X) >= Cardinality(U) - d
    BY <1>3, <2>3
  <2>5. /\ Cardinality(U) \in Nat /\ Cardinality(U \ X) \in Nat
        /\ call[t].mine \in Nat /\ BackupLimit \in Nat
    <3>1. IsFiniteSet(U) /\ IsFiniteSet(U \ X)
      BY <1>2, <2>3, FS_Subset, FS_Difference
    <3> QED
      BY <1>1, <3>1, FS_CardinalityType, HostingAssumption DEF QuotaTypes
  <2> DEFINE c == call[t].mine + Cardinality(U)
             e == call[t].mine + Cardinality(U \ X)
             l == call[t].at = "backup"
  <2>6. c \in Nat /\ e \in Nat /\ e >= c - d /\ l \in BOOLEAN
    BY <1>3, <2>4, <2>5
  <2>7. BackupsJudged(call[t], a) = Judged(l, c, BackupLimit)
    BY DEF BackupsJudged, BackupsDue, BackupsOf
  <2>8. BackupsJudged(call[t], a)' = Judged(l, e, BackupLimit)
    BY <2>1, <2>3 DEF BackupsJudged, BackupsDue, BackupsOf, Judged
  <2> HIDE DEF c, e, l
  <2>9. Judged(l, e, BackupLimit) >= Judged(l, c, BackupLimit) - d
    BY <1>3, <2>5, <2>6, JudgedFalls
  <2> QED
    BY <2>2, <2>7, <2>8, <2>9
<1>5. BackupsLose(a, d)
  BY <1>3, <1>4 DEF BackupsLose, BackupsOf
<1> QED
  BY <1>3, <1>5, BackupsFall

\* The requests stay requests.
CallsTyped ==
  /\ call = [t \in Caller |-> call[t]]
  /\ \A t \in Caller : IsRequest(call[t]) /\ call[t].ask \in Node /\ call[t].mine \in Nat

LEMMA OneEnds ==
  ASSUME QuotaInv, NEW t \in Caller, NEW r, call' = [call EXCEPT ![t] = r],
         IsRequest(r), r.ask \in Node, r.mine \in Nat, r.at \in {"free", "pick", "clear"}
  PROVE  OnlyEnd /\ CallsTyped'
<1>1. QuotaTypes
  BY DEF QuotaInv
<1>2. call'[t] = r /\ \A s \in Caller : s # t => call'[s] = call[s]
  BY <1>1 DEF QuotaTypes
<1>3. call' = [s \in Caller |-> call'[s]]
  BY <1>1 DEF QuotaTypes
<1>4. \A s \in Caller : IsRequest(call'[s]) /\ call'[s].ask \in Node /\ call'[s].mine \in Nat
  BY <1>1, <1>2 DEF QuotaTypes
<1>5. \A s \in Caller : IsRequest(call[s])'
  BY <1>4 DEF IsRequest
<1>6. OnlyEnd
  BY <1>2 DEF OnlyEnd
<1> QED
  BY <1>3, <1>4, <1>5, <1>6 DEF CallsTyped

LEMMA CallsStay ==
  ASSUME QuotaInv, call' = call
  PROVE  OnlyEnd /\ CallsTyped'
BY DEF OnlyEnd, CallsTyped, QuotaInv, QuotaTypes, IsRequest

\* A server goes, with its backups.
LEMMA RemovalKeeps ==
  ASSUME QuotaInv, NEW i \in Instance, Removal(i), OnlyEnd, CallsTyped'
  PROVE  QuotaInv'
<1>1. QuotaTypes
  BY DEF QuotaInv
<1>2. /\ on' = [on EXCEPT ![i] = Nowhere] /\ owner' = [owner EXCEPT ![i] = NoOne]
      /\ backups' = [backups EXCEPT ![i] = 0] /\ extra' = extra
  BY DEF Removal
<1>3. /\ on' \in [Instance -> Node \cup {Nowhere}] /\ owner' = [j \in Instance |-> owner'[j]]
      /\ backups' \in [Instance -> 0 .. MaxBackup]
      /\ \A j \in Instance : on'[j] = Nowhere => backups'[j] = 0
  <2>1. Nowhere \in Node \cup {Nowhere} /\ 0 \in 0 .. MaxBackup
    BY HostingAssumption
  <2>2. on' \in [Instance -> Node \cup {Nowhere}] /\ owner' = [j \in Instance |-> owner'[j]]
    BY <1>1, <1>2, <2>1 DEF QuotaTypes
  <2>3. backups' \in [Instance -> 0 .. MaxBackup]
    BY <1>1, <1>2, <2>1 DEF QuotaTypes
  <2>4. \A j \in Instance : on'[j] = Nowhere => backups'[j] = 0
    BY <1>1, <1>2 DEF QuotaTypes
  <2> QED
    BY <2>2, <2>3, <2>4
<1>4. QuotaTypes'
  BY <1>1, <1>2, <1>3 DEF QuotaTypes, CallsTyped
<1>5. /\ on'[i] = Nowhere /\ backups'[i] = 0
      /\ \A j \in Instance \ {i} : on'[j] = on[j] /\ owner'[j] = owner[j] /\ backups'[j] = backups[j]
  BY <1>1, <1>2 DEF QuotaTypes
<1>6. \A a : Owned(a)' = Owned(a) \ {i}
  BY <1>5 DEF Owned, HeldServers
<1>7. \A a : \A t \in Caller : call'[t] = call[t] => Unasked(call[t], a)' = Unasked(call[t], a) \ {i}
  BY <1>5, <1>6 DEF Unasked, Owned, HeldServers
<1> DEFINE X == BackupsIn({i})
<1>8. ASSUME NEW S \in SUBSET Instance
      PROVE  {b \in (S \ {i}) \X (1 .. MaxBackup) : b[2] <= backups'[b[1]]} = BackupsIn(S) \ X
  BY <1>5 DEF BackupsIn
<1> HIDE DEF X
<1>9. ASSUME NEW a
      PROVE  /\ BackupsIn(Owned(a))' = BackupsIn(Owned(a)) \ X
             /\ \A t \in Caller : call'[t] = call[t] =>
                  BackupsIn(Unasked(call[t], a))' = BackupsIn(Unasked(call[t], a)) \ X
  <2>1. Owned(a) \in SUBSET Instance
    BY OwnedIn
  <2>2. BackupsIn(Owned(a))' = BackupsIn(Owned(a)) \ X
    BY <1>6, <1>8, <2>1 DEF BackupsIn
  <2>3. ASSUME NEW t \in Caller, call'[t] = call[t]
        PROVE  BackupsIn(Unasked(call[t], a))' = BackupsIn(Unasked(call[t], a)) \ X
    <3>1. Unasked(call[t], a) \in SUBSET Instance /\ Unasked(call[t], a)' = Unasked(call[t], a) \ {i}
      BY <1>7, <2>1, <2>3 DEF Unasked
    <3> QED
      BY <1>8, <3>1 DEF BackupsIn
  <2> QED
    BY <2>2, <2>3
<1>10. ASSUME ~extra', NEW a \in Account
       PROVE  ServersSpared(a)' /\ Cardinality(Owned(a)') <= Limit + Cardinality(Caller) - 1
  BY <1>2, <1>4, <1>6, <1>7, <1>10, ServersTaken
<1>11. ASSUME RepliesSuffice, NEW a \in Account
       PROVE  BackupsSpared(a)' /\ BackupsOf(Owned(a))' <= BackupLimit + Cardinality(Caller) - 1
  BY <1>4, <1>9, <1>11, BackupsTaken
<1> QED
  BY <1>4, <1>10, <1>11, Together

\* The servers stay as they are.
LEMMA SameServers ==
  ASSUME UNCHANGED <<on, owner>>, NEW a
  PROVE  Owned(a)' = Owned(a) /\ \A t : call'[t] = call[t] => Unasked(call[t], a)' = Unasked(call[t], a)
BY DEF Unasked, Owned, HeldServers

\* A server has one backup less.
LEMMA DeletionKeeps ==
  ASSUME QuotaInv, NEW i, i \in Instance => backups[i] > 0, backups' = [backups EXCEPT ![i] = backups[i] - 1],
         UNCHANGED <<on, owner, extra>>, OnlyEnd, CallsTyped'
  PROVE  QuotaInv'
<1>1. QuotaTypes
  BY DEF QuotaInv
<1>2. \A j \in Instance : backups[j] \in Nat /\ backups[j] <= MaxBackup
  BY <1>1, HostingAssumption DEF QuotaTypes
<1>3. \A j \in Instance : backups'[j] = IF j = i THEN backups[j] - 1 ELSE backups[j]
  BY <1>1 DEF QuotaTypes
<1>4. backups' \in [Instance -> 0 .. MaxBackup] /\ \A j \in Instance : on'[j] = Nowhere => backups'[j] = 0
  <2>1. \A j \in Instance : backups'[j] \in 0 .. MaxBackup
    BY <1>2, <1>3, HostingAssumption
  <2>2. backups' = [j \in Instance |-> backups'[j]]
    BY <1>1 DEF QuotaTypes
  <2>3. \A j \in Instance : on'[j] = Nowhere => backups'[j] = 0
    BY <1>1, <1>3 DEF QuotaTypes
  <2> QED
    BY <2>1, <2>2, <2>3
<1>5. QuotaTypes'
  BY <1>1, <1>4 DEF QuotaTypes, CallsTyped
<1> DEFINE X == {<<i, backups[i]>>}
<1>6. ASSUME NEW S \in SUBSET Instance
      PROVE  {b \in S \X (1 .. MaxBackup) : b[2] <= backups'[b[1]]} = BackupsIn(S) \ X
  <2>1. ASSUME NEW b \in S \X (1 .. MaxBackup)
        PROVE  b[2] <= backups'[b[1]] <=> (b[2] <= backups[b[1]] /\ b # <<i, backups[i]>>)
    <3>1. b = <<b[1], b[2]>> /\ b[1] \in Instance /\ b[2] \in Nat
      BY HostingAssumption
    <3>2. b = <<i, backups[i]>> <=> (b[1] = i /\ b[2] = backups[i])
      BY <3>1
    <3> QED
      BY <1>2, <1>3, <3>1, <3>2
  <2> QED
    BY <2>1 DEF BackupsIn
<1> HIDE DEF X
<1>7. ASSUME NEW a
      PROVE  /\ BackupsIn(Owned(a))' = BackupsIn(Owned(a)) \ X
             /\ \A t \in Caller : call'[t] = call[t] =>
                  BackupsIn(Unasked(call[t], a))' = BackupsIn(Unasked(call[t], a)) \ X
  <2>1. Owned(a) \in SUBSET Instance /\ Owned(a)' = Owned(a)
    BY OwnedIn, SameServers
  <2>2. BackupsIn(Owned(a))' = BackupsIn(Owned(a)) \ X
    BY <1>6, <2>1 DEF BackupsIn
  <2>3. ASSUME NEW t \in Caller, call'[t] = call[t]
        PROVE  BackupsIn(Unasked(call[t], a))' = BackupsIn(Unasked(call[t], a)) \ X
    <3>1. Unasked(call[t], a) \in SUBSET Instance /\ Unasked(call[t], a)' = Unasked(call[t], a)
      BY <2>1, <2>3, SameServers DEF Unasked
    <3> QED
      BY <1>6, <3>1 DEF BackupsIn
  <2> QED
    BY <2>2, <2>3
<1>8. ASSUME ~extra', NEW a \in Account
      PROVE  ServersSpared(a)' /\ Cardinality(Owned(a)') <= Limit + Cardinality(Caller) - 1
  <2>1. Owned(a)' = Owned(a) \ {}
    BY SameServers
  <2>2. \A t \in Caller : call'[t] = call[t] => Unasked(call[t], a)' = Unasked(call[t], a) \ {}
    BY SameServers
  <2> QED
    BY <1>5, <1>8, <2>1, <2>2, ServersTaken
<1>9. ASSUME RepliesSuffice, NEW a \in Account
      PROVE  BackupsSpared(a)' /\ BackupsOf(Owned(a))' <= BackupLimit + Cardinality(Caller) - 1
  BY <1>5, <1>7, <1>9, BackupsTaken
<1> QED
  BY <1>5, <1>8, <1>9, Together

LEMMA RemovesKeep ==
  ASSUME QuotaInv,
         \/ \E t \in Caller : EraseClears(t) \/ EraseRemoves(t)
         \/ \E i \in Instance : DestroyServer(i) \/ DeleteBackup(i)
  PROVE  QuotaInv'
<1>1. QuotaTypes
  BY DEF QuotaInv
<1>2. ASSUME NEW t \in Caller, EraseClears(t) PROVE QuotaInv'
  <2> DEFINE r == call[t]
             f == [r EXCEPT !.mine = r.mine - 1]
  <2>1. /\ IsRequest(r) /\ r.mine \in Nat /\ r.ask \in Node /\ r.at = "clear" /\ r.mine > 0
        /\ call' = [call EXCEPT ![t] = f]
    BY <1>1, <1>2 DEF EraseClears, QuotaTypes, Become
  <2> DEFINE m == r.mine - 1
  <2>2. m \in Nat
    BY <2>1
  <2>3. f = [r EXCEPT !.mine = m]
    OBVIOUS
  <2> HIDE DEF m, f
  <2>4. Is(f, r.at, r.who, r.ask, m, r.deaf)
    BY <2>1, <2>3, OneField, Zenon
  <2>5. IsRequest(f) /\ f.ask \in Node /\ f.mine \in Nat /\ f.at = "clear"
    BY <2>1, <2>2, <2>4 DEF Is
  <2>6. OnlyEnd /\ CallsTyped'
    BY <2>1, <2>5, OneEnds
  <2> QED
    BY <1>2, <2>6, DeletionKeeps DEF EraseClears
<1>3. ASSUME NEW t \in Caller, EraseRemoves(t) PROVE QuotaInv'
  <2> DEFINE r == call[t]
             i == r.now
             W == r.rows \ {i}
             f == [r EXCEPT !.at = "pick", !.now = NoInstance, !.rows = W]
  <2>1. /\ IsRequest(r) /\ r.mine \in Nat /\ r.ask \in Node /\ call' = [call EXCEPT ![t] = f]
        /\ i \in Instance /\ Removal(i)
    BY <1>1, <1>3 DEF EraseRemoves, QuotaTypes, Become, HeldServers
  <2>2. Is(f, "pick", r.who, r.ask, r.mine, r.deaf)
    BY <2>1, RemovedFields, Zenon
  <2> HIDE DEF f
  <2>3. IsRequest(f) /\ f.ask \in Node /\ f.mine \in Nat /\ f.at = "pick"
    BY <2>1, <2>2 DEF Is
  <2>4. OnlyEnd /\ CallsTyped'
    BY <2>1, <2>3, OneEnds
  <2> QED
    BY <2>1, <2>4, RemovalKeeps
<1>4. ASSUME NEW i \in Instance, DestroyServer(i) PROVE QuotaInv'
  BY <1>4, CallsStay, RemovalKeeps DEF DestroyServer
<1>5. ASSUME NEW i \in Instance, DeleteBackup(i) PROVE QuotaInv'
  BY <1>5, CallsStay, DeletionKeeps DEF DeleteBackup
<1> QED
  BY <1>2, <1>3, <1>4, <1>5

\* A server made: the request that made it was judged below the limit.
LEMMA CreateServersSpared ==
  ASSUME QuotaInv, QuotaTypes', ~extra, NEW t \in Caller, NEW a \in Account, NEW i,
         call[t].at = "create", call[t].who = a, ~call[t].deaf,
         call'[t].at = "free", \A s \in Caller : s # t => call'[s] = call[s],
         i \in Instance, i \notin Owned(a), Owned(a)' = Owned(a) \cup {i},
         \A s \in Caller : s # t => Unasked(call[s], a) \subseteq Unasked(call[s], a)'
  PROVE  ServersSpared(a)' /\ Cardinality(Owned(a)') <= Limit + Cardinality(Caller) - 1
<1>1. QuotaTypes
  BY DEF QuotaInv
<1> DEFINE g == [s \in Caller |-> ServersJudged(call[s], a)]
           h == [s \in Caller |-> ServersJudged(call[s], a)']
           F == Deploying(a)
           G == Deploying(a)'
           N == Cardinality(Owned(a))
           m == Limit - 1
<1>2. g \in [Caller -> Int] /\ h \in [Caller -> Int] /\ m \in Int /\ Limit \in Nat
  BY <1>1, DueTypes, DueTypesNext, HostingAssumption
<1>3. IsFiniteSet(Owned(a)) /\ N \in Nat /\ Cardinality(Owned(a)') = N + 1
  BY OwnedIn, ServersCount, FS_AddElement
<1>4. t \in F /\ g[t] = m
  BY DEF Deploying, Deploys, ServersJudged, Judged
<1>5. G = F \ {t} /\ F \in SUBSET Caller /\ G \in SUBSET Caller
  <2>1. \A s \in Caller : Deploys(call[s], a)' <=> (Deploys(call[s], a) /\ s # t)
    BY DEF Deploys
  <2> QED
    BY <2>1 DEF Deploying
<1>6. Spared(F, g, N)
  BY DEF QuotaInv, ServersSpared
<1>7. \A s \in G : h[s] >= g[s] /\ h[s] >= m
  <2> SUFFICES ASSUME NEW s \in G PROVE h[s] >= g[s] /\ h[s] >= m
    OBVIOUS
  <2>1. s \in Caller /\ s # t /\ call'[s] = call[s]
    BY <1>5
  <2>2. Unasked(call[s], a) \in SUBSET Instance /\ Unasked(call[s], a)' \in SUBSET Instance
    BY DEF Unasked, Owned, HeldServers
  <2>3. Cardinality(Unasked(call[s], a)') >= Cardinality(Unasked(call[s], a))
        /\ Cardinality(Unasked(call[s], a)') \in Nat /\ Cardinality(Unasked(call[s], a)) \in Nat
    BY <2>1, <2>2, ServersCount, FS_Subset
  <2> DEFINE c == call[s].mine + Cardinality(Unasked(call[s], a))
             e == call[s].mine + Cardinality(Unasked(call[s], a)')
             l == call[s].at = "deploy"
  <2>4. c \in Nat /\ e \in Nat /\ e >= c - 0 /\ l \in BOOLEAN
    BY <1>1, <2>1, <2>3 DEF QuotaTypes
  <2>5. g[s] = Judged(l, c, Limit)
    BY <2>1 DEF ServersJudged, ServersDue
  <2>6. h[s] = Judged(l, e, Limit)
    BY <2>1 DEF ServersJudged, ServersDue, Judged
  <2> HIDE DEF c, e, l
  <2>7. Judged(l, e, Limit) >= Judged(l, c, Limit) - 0 /\ Judged(l, e, Limit) >= Limit - 1
    BY <1>2, <2>4, JudgedFalls, JudgedHolds
  <2> HIDE DEF g, h
  <2> QED
    BY <1>2, <2>1, <2>5, <2>6, <2>7
<1>8. Spared(G, h, N + 1) => ServersSpared(a)'
  BY <1>3, SparedNext
<1>9. Limit \in Nat /\ Cardinality(Caller) \in Nat
  BY HostingAssumption, CallersCount
<1> HIDE DEF F, G, g, h, N, m
<1>10. Spared(G, h, N + 1) /\ N + 1 <= m + Cardinality(Caller)
  BY <1>2, <1>3, <1>4, <1>5, <1>6, <1>7, SparedMakes
<1> QED
  BY <1>3, <1>8, <1>9, <1>10 DEF m

\* A backup made: the same of the cap on backups.
BackupMade(t, a, b) ==
  /\ call[t].at = "make" /\ call[t].who = a
  /\ call'[t].at = "free" /\ \A s \in Caller : s # t => call'[s] = call[s]
  /\ b \notin BackupsIn(Owned(a)) /\ BackupsIn(Owned(a))' = BackupsIn(Owned(a)) \cup {b}
  /\ \A s \in Caller : s # t => BackupsIn(Unasked(call[s], a)) \subseteq BackupsIn(Unasked(call[s], a))'

LEMMA MakeBackupsSpared ==
  ASSUME QuotaInv, QuotaTypes', RepliesSuffice, NEW t \in Caller, NEW a \in Account, NEW b, BackupMade(t, a, b)
  PROVE  BackupsSpared(a)' /\ BackupsOf(Owned(a))' <= BackupLimit + Cardinality(Caller) - 1
<1>1. QuotaTypes
  BY DEF QuotaInv
<1> DEFINE g == [s \in Caller |-> BackupsJudged(call[s], a)]
           h == [s \in Caller |-> BackupsJudged(call[s], a)']
           F == Saving(a)
           G == Saving(a)'
           N == BackupsOf(Owned(a))
           m == BackupLimit - 1
<1>2. g \in [Caller -> Int] /\ h \in [Caller -> Int] /\ m \in Int /\ BackupLimit \in Nat
  BY <1>1, DueTypes, DueTypesNext, HostingAssumption
<1>3. N \in Nat /\ BackupsOf(Owned(a))' = N + 1 /\ IsFiniteSet(BackupsIn(Owned(a))')
  <2>1. IsFiniteSet(BackupsIn(Owned(a))) /\ N \in Nat
    BY OwnedIn, BackupsCount
  <2>2. /\ Cardinality(BackupsIn(Owned(a)) \cup {b}) = Cardinality(BackupsIn(Owned(a))) + 1
        /\ IsFiniteSet(BackupsIn(Owned(a)) \cup {b})
    BY <2>1, FS_AddElement DEF BackupMade
  <2> QED
    BY <2>1, <2>2 DEF BackupsOf, BackupMade
<1>4. t \in F /\ g[t] = m
  BY DEF Saving, Saves, BackupsJudged, Judged, BackupMade
<1>5. G = F \ {t} /\ F \in SUBSET Caller /\ G \in SUBSET Caller
  <2>1. \A s \in Caller : Saves(call[s], a)' <=> (Saves(call[s], a) /\ s # t)
    BY DEF Saves, BackupMade
  <2> QED
    BY <2>1 DEF Saving
<1>6. Spared(F, g, N)
  BY DEF QuotaInv, BackupsSpared
<1>7. \A s \in G : h[s] >= g[s] /\ h[s] >= m
  <2> SUFFICES ASSUME NEW s \in G PROVE h[s] >= g[s] /\ h[s] >= m
    OBVIOUS
  <2>1. s \in Caller /\ s # t /\ call'[s] = call[s]
    BY <1>5 DEF BackupMade
  <2> DEFINE U == BackupsIn(Unasked(call[s], a))
             V == BackupsIn(Unasked(call[s], a))'
  <2>2. U \subseteq V /\ V \subseteq BackupsIn(Owned(a))'
    BY <2>1 DEF Unasked, BackupsIn, BackupMade
  <2> HIDE DEF U, V
  <2>3. IsFiniteSet(V) /\ IsFiniteSet(U)
    BY <1>3, <2>2, FS_Subset
  <2>4. Cardinality(V) >= Cardinality(U) /\ Cardinality(V) \in Nat /\ Cardinality(U) \in Nat
    BY <2>2, <2>3, FS_Subset, FS_CardinalityType
  <2> DEFINE c == call[s].mine + Cardinality(U)
             e == call[s].mine + Cardinality(V)
             l == call[s].at = "backup"
  <2>5. c \in Nat /\ e \in Nat /\ e >= c - 0 /\ l \in BOOLEAN
    BY <1>1, <2>1, <2>4 DEF QuotaTypes
  <2>6. g[s] = Judged(l, c, BackupLimit)
    BY <2>1 DEF BackupsJudged, BackupsDue, BackupsOf, U
  <2>7. h[s] = Judged(l, e, BackupLimit)
    BY <2>1 DEF BackupsJudged, BackupsDue, BackupsOf, Judged, V
  <2> HIDE DEF c, e, l
  <2>8. Judged(l, e, BackupLimit) >= Judged(l, c, BackupLimit) - 0 /\ Judged(l, e, BackupLimit) >= BackupLimit - 1
    BY <1>2, <2>5, JudgedFalls, JudgedHolds
  <2> HIDE DEF g, h
  <2> QED
    BY <1>2, <2>1, <2>6, <2>7, <2>8
<1>8. Spared(G, h, N + 1) => BackupsSpared(a)'
  BY <1>3, SparedNext
<1>9. BackupLimit \in Nat /\ Cardinality(Caller) \in Nat
  BY HostingAssumption, CallersCount
<1>10. N \in Nat
  BY <1>3
<1> HIDE DEF F, G, g, h, N, m
<1>11. Spared(G, h, N + 1) /\ N + 1 <= m + Cardinality(Caller)
  BY <1>2, <1>4, <1>5, <1>6, <1>7, <1>10, SparedMakes
<1> QED
  BY <1>3, <1>8, <1>9, <1>11 DEF m

LEMMA MakesKeep ==
  ASSUME QuotaInv, NEW t \in Caller, MakeBackup(t)
  PROVE  QuotaInv'
<1>1. QuotaTypes
  BY DEF QuotaInv
<1> DEFINE c == call[t].who
<1>2. PICK i \in Owned(c) : backups[i] < MaxBackup /\ backups' = [backups EXCEPT ![i] = backups[i] + 1]
  BY DEF MakeBackup
<1>3. /\ call' = [call EXCEPT ![t] = NoCall] /\ UNCHANGED <<on, owner, extra>> /\ call[t].at = "make"
  BY DEF MakeBackup, Become
<1>4. i \in Instance /\ on[i] # Nowhere /\ owner[i] = c
  BY DEF Owned, HeldServers
<1>5. OnlyEnd /\ CallsTyped' /\ call'[t].at = "free" /\ \A s \in Caller : s # t => call'[s] = call[s]
  <2>1. IsRequest(NoCall) /\ NoCall.at = "free" /\ NoCall.ask \in Node /\ NoCall.mine \in Nat
    BY RequestOf, OneIsNode DEF Is
  <2>2. call'[t] = NoCall /\ \A s \in Caller : s # t => call'[s] = call[s]
    BY <1>1, <1>3 DEF QuotaTypes
  <2> QED
    BY <1>3, <2>1, <2>2, OneEnds
<1>6. \A j \in Instance : backups[j] \in Nat /\ backups[j] <= MaxBackup
  BY <1>1, HostingAssumption DEF QuotaTypes
<1>7. \A j \in Instance : backups'[j] = IF j = i THEN backups[j] + 1 ELSE backups[j]
  BY <1>1, <1>2 DEF QuotaTypes
<1>8. QuotaTypes'
  <2>1. \A j \in Instance : backups'[j] \in 0 .. MaxBackup
    BY <1>2, <1>4, <1>6, <1>7, HostingAssumption
  <2>2. backups' = [j \in Instance |-> backups'[j]]
    BY <1>1, <1>2 DEF QuotaTypes
  <2>3. \A j \in Instance : on'[j] = Nowhere => backups'[j] = 0
    BY <1>1, <1>3, <1>4, <1>7 DEF QuotaTypes
  <2> QED
    BY <1>1, <1>3, <1>5, <2>1, <2>2, <2>3 DEF QuotaTypes, CallsTyped
<1> DEFINE k == <<i, backups[i] + 1>>
<1>9. ASSUME NEW S \in SUBSET Instance
      PROVE  /\ {b \in S \X (1 .. MaxBackup) : b[2] <= backups'[b[1]]} =
                  IF i \in S THEN BackupsIn(S) \cup {k} ELSE BackupsIn(S)
             /\ k \notin BackupsIn(S)
  <2>1. ASSUME NEW b \in S \X (1 .. MaxBackup)
        PROVE  b[2] <= backups'[b[1]] <=> (b[2] <= backups[b[1]] \/ b = k)
    <3>1. b = <<b[1], b[2]>> /\ b[1] \in Instance /\ b[2] \in Nat
      BY HostingAssumption
    <3>2. b = k <=> (b[1] = i /\ b[2] = backups[i] + 1)
      BY <3>1
    <3> QED
      BY <1>6, <1>7, <3>1, <3>2
  <2>2. k \notin BackupsIn(S)
    BY <1>4, <1>6 DEF BackupsIn
  <2>3. k \in S \X (1 .. MaxBackup) <=> i \in S
    BY <1>2, <1>4, <1>6, HostingAssumption
  <2> HIDE DEF k
  <2> QED
    BY <2>1, <2>2, <2>3 DEF BackupsIn
<1> HIDE DEF k
<1>10. \A a : Owned(a) \in SUBSET Instance /\ Owned(a)' = Owned(a)
  BY <1>3, OwnedIn, SameServers
<1>11. \A a : \A s \in Caller : s # t => Unasked(call[s], a) \in SUBSET Owned(a) /\ Unasked(call[s], a)' = Unasked(call[s], a)
  BY <1>3, <1>5, SameServers DEF Unasked
<1>12. ASSUME NEW a
       PROVE  BackupsIn(Owned(a))' = IF i \in Owned(a) THEN BackupsIn(Owned(a)) \cup {k} ELSE BackupsIn(Owned(a))
  BY <1>9, <1>10 DEF BackupsIn
<1>13. ASSUME NEW a, NEW s \in Caller, s # t
       PROVE  BackupsIn(Unasked(call[s], a))' = IF i \in Unasked(call[s], a) THEN BackupsIn(Unasked(call[s], a)) \cup {k} ELSE BackupsIn(Unasked(call[s], a))
  <2>1. Unasked(call[s], a) \in SUBSET Instance /\ Unasked(call[s], a)' = Unasked(call[s], a)
    BY <1>10, <1>11, <1>13
  <2> QED
    BY <1>9, <2>1 DEF BackupsIn
<1>14. ASSUME ~extra', NEW a \in Account
       PROVE  ServersSpared(a)' /\ Cardinality(Owned(a)') <= Limit + Cardinality(Caller) - 1
  <2>1. Owned(a)' = Owned(a) \ {}
    BY <1>10
  <2>2. \A s \in Caller : call'[s] = call[s] => Unasked(call[s], a)' = Unasked(call[s], a) \ {}
    BY <1>3, SameServers
  <2> QED
    BY <1>3, <1>5, <1>8, <1>14, <2>1, <2>2, ServersTaken
<1>15. ASSUME RepliesSuffice, NEW a \in Account
       PROVE  BackupsSpared(a)' /\ BackupsOf(Owned(a))' <= BackupLimit + Cardinality(Caller) - 1
  <2>1. CASE a = c
    <3>1. BackupsIn(Owned(a))' = BackupsIn(Owned(a)) \cup {k} /\ k \notin BackupsIn(Owned(a))
      BY <1>9, <1>10, <1>12, <2>1
    <3>2. \A s \in Caller : s # t => BackupsIn(Unasked(call[s], a)) \subseteq BackupsIn(Unasked(call[s], a))'
      BY <1>13
    <3> QED
      BY <1>3, <1>5, <1>8, <1>15, <2>1, <3>1, <3>2, MakeBackupsSpared DEF BackupMade
  <2>2. CASE a # c
    <3>1. i \notin Owned(a)
      BY <1>4, <2>2 DEF Owned
    <3>2. BackupsIn(Owned(a))' = BackupsIn(Owned(a)) \ {}
      BY <1>12, <3>1
    <3>3. \A s \in Caller : call'[s] = call[s] => BackupsIn(Unasked(call[s], a))' = BackupsIn(Unasked(call[s], a)) \ {}
      <4> SUFFICES ASSUME NEW s \in Caller, call'[s] = call[s]
                   PROVE  BackupsIn(Unasked(call[s], a))' = BackupsIn(Unasked(call[s], a))
        OBVIOUS
      <4>1. s # t
        BY <1>3, <1>5
      <4>2. i \notin Unasked(call[s], a)
        BY <1>11, <3>1, <4>1
      <4> QED
        BY <1>13, <4>1, <4>2
    <3> QED
      BY <1>5, <1>8, <1>15, <3>2, <3>3, BackupsTaken
  <2> QED
    BY <2>1, <2>2
<1> QED
  BY <1>8, <1>14, <1>15, Together

LEMMA CreateQuota ==
  ASSUME QuotaInv, NEW t \in Caller, NEW n \in Node, Create(t, n)
  PROVE  QuotaInv'
<1>1. QuotaTypes
  BY DEF QuotaInv
<1> DEFINE i == CHOOSE i \in Fresh : TRUE
           c == call[t].who
<1>2. /\ i \in Fresh /\ on' = [on EXCEPT ![i] = n] /\ owner' = [owner EXCEPT ![i] = c]
      /\ call' = [call EXCEPT ![t] = NoCall] /\ backups' = backups /\ call[t].at = "create"
      /\ extra' = (extra \/ call[t].deaf)
  BY DEF Create, Become
<1>3. i \in Instance /\ on[i] = Nowhere
  BY <1>2 DEF Fresh, HeldServers
<1> HIDE DEF i
<1>4. OnlyEnd /\ CallsTyped' /\ call'[t].at = "free" /\ \A s \in Caller : s # t => call'[s] = call[s]
  <2>1. IsRequest(NoCall) /\ NoCall.at = "free" /\ NoCall.ask \in Node /\ NoCall.mine \in Nat
    BY RequestOf, OneIsNode DEF Is
  <2>2. call'[t] = NoCall /\ \A s \in Caller : s # t => call'[s] = call[s]
    BY <1>1, <1>2 DEF QuotaTypes
  <2> QED
    BY <1>2, <2>1, <2>2, OneEnds
<1>5. n # Nowhere
  BY HostingAssumption DEF Node, Nowhere
<1>6. /\ on'[i] = n /\ owner'[i] = c /\ backups[i] = 0
      /\ \A j \in Instance \ {i} : on'[j] = on[j] /\ owner'[j] = owner[j]
  BY <1>1, <1>2, <1>3 DEF QuotaTypes
<1>7. QuotaTypes'
  <2>1. on' \in [Instance -> Node \cup {Nowhere}] /\ owner' = [j \in Instance |-> owner'[j]]
    BY <1>1, <1>2 DEF QuotaTypes
  <2>2. \A j \in Instance : on'[j] = Nowhere => backups'[j] = 0
    BY <1>1, <1>2, <1>5, <1>6 DEF QuotaTypes
  <2>3. extra' \in BOOLEAN
    BY <1>2, Zenon
  <2> QED
    BY <1>1, <1>2, <1>4, <2>1, <2>2, <2>3 DEF QuotaTypes, CallsTyped
<1>8. \A a : Owned(a) \in SUBSET Instance /\ i \notin Owned(a)
             /\ Owned(a)' = IF a = c THEN Owned(a) \cup {i} ELSE Owned(a)
  BY <1>3, <1>5, <1>6 DEF Owned, HeldServers
<1>9. \A a : \A s \in Caller : s # t =>
        /\ Unasked(call[s], a) \in SUBSET Instance
        /\ Unasked(call[s], a) \subseteq Unasked(call[s], a)'
        /\ Unasked(call[s], a)' \subseteq Unasked(call[s], a) \cup {i}
        /\ a # c => Unasked(call[s], a)' = Unasked(call[s], a)
  BY <1>3, <1>4, <1>6, <1>8 DEF Unasked
<1>10. \A S : BackupsIn(S)' = BackupsIn(S)
  BY <1>2 DEF BackupsIn
<1>11. \A S \in SUBSET Instance : BackupsIn(S \cup {i}) = BackupsIn(S)
  BY <1>6 DEF BackupsIn
<1>12. \A S \in SUBSET Instance : \A T : S \subseteq T /\ T \subseteq S \cup {i} => BackupsIn(T) = BackupsIn(S)
  <2> SUFFICES ASSUME NEW S \in SUBSET Instance, NEW T, S \subseteq T, T \subseteq S \cup {i}
               PROVE  BackupsIn(T) = BackupsIn(S)
    OBVIOUS
  <2>1. T = S \/ T = S \cup {i}
    OBVIOUS
  <2> QED
    BY <1>11, <2>1
<1>13. ASSUME NEW a
       PROVE  /\ BackupsIn(Owned(a))' = BackupsIn(Owned(a))
              /\ \A s \in Caller : s # t => BackupsIn(Unasked(call[s], a))' = BackupsIn(Unasked(call[s], a))
  <2>1. BackupsIn(Owned(a))' = BackupsIn(Owned(a)')
    BY <1>2 DEF BackupsIn
  <2>2. \A s \in Caller : BackupsIn(Unasked(call[s], a))' = BackupsIn(Unasked(call[s], a)')
    BY <1>2 DEF BackupsIn
  <2> QED
    BY <1>8, <1>9, <1>12, <2>1, <2>2
<1>14. ASSUME RepliesSuffice, NEW a \in Account
       PROVE  BackupsSpared(a)' /\ BackupsOf(Owned(a))' <= BackupLimit + Cardinality(Caller) - 1
  <2>1. BackupsIn(Owned(a))' = BackupsIn(Owned(a)) \ {}
    BY <1>13
  <2>2. \A s \in Caller : call'[s] = call[s] => s # t
    BY <1>2, <1>4
  <2>3. \A s \in Caller : call'[s] = call[s] => BackupsIn(Unasked(call[s], a))' = BackupsIn(Unasked(call[s], a)) \ {}
    BY <1>13, <2>2
  <2> QED
    BY <1>4, <1>7, <1>14, <2>1, <2>3, BackupsTaken
<1>15. ASSUME ~extra', NEW a \in Account
       PROVE  ServersSpared(a)' /\ Cardinality(Owned(a)') <= Limit + Cardinality(Caller) - 1
  <2>1. ~extra /\ ~call[t].deaf
    BY <1>2, <1>15, Zenon
  <2>2. CASE a = c
    <3>1. Owned(a)' = Owned(a) \cup {i} /\ i \notin Owned(a)
      BY <1>8, <2>2
    <3>2. \A s \in Caller : s # t => Unasked(call[s], a) \subseteq Unasked(call[s], a)'
      BY <1>9
    <3> QED
      BY <1>2, <1>3, <1>4, <1>7, <2>1, <2>2, <3>1, <3>2, CreateServersSpared
  <2>3. CASE a # c
    <3>1. Owned(a)' = Owned(a) \ {}
      BY <1>8, <2>3
    <3>2. \A s \in Caller : call'[s] = call[s] => s # t
      BY <1>2, <1>4
    <3>3. \A s \in Caller : call'[s] = call[s] => Unasked(call[s], a)' = Unasked(call[s], a) \ {}
      BY <1>9, <2>3, <3>2
    <3> QED
      BY <1>4, <1>7, <2>1, <3>1, <3>3, ServersTaken
  <2> QED
    BY <2>2, <2>3
<1> QED
  BY <1>7, <1>14, <1>15, Together

LEMMA QuotaInitInv == HostingInit => QuotaInv
<1> SUFFICES ASSUME HostingInit PROVE QuotaInv
  OBVIOUS
<1>1. Is(NoCall, "free", NoOne, 1, 0, FALSE)
  BY RequestOf
<1>2. \A t \in Caller : call[t] = NoCall
  BY DEF HostingInit
<1>3. \A t \in Caller : IsRequest(call[t]) /\ call[t].at = "free" /\ call[t].ask \in Node /\ call[t].mine \in Nat
  BY <1>1, <1>2, OneIsNode DEF Is
<1>4. \A i \in Instance : on[i] = Nowhere /\ backups[i] = 0
  BY DEF HostingInit
<1>5. QuotaTypes
  <2>1. 0 \in 0 .. MaxBackup
    BY HostingAssumption
  <2>2. on \in [Instance -> Node \cup {Nowhere}] /\ backups \in [Instance -> 0 .. MaxBackup]
    BY <2>1 DEF HostingInit
  <2> QED
    BY <1>3, <1>4, <2>2 DEF HostingInit, QuotaTypes
<1>6. \A a : Owned(a) = {} /\ BackupsIn(Owned(a)) = {} /\ Deploying(a) = {} /\ Saving(a) = {}
  BY <1>3, <1>4 DEF Owned, HeldServers, BackupsIn, Deploying, Saving, Deploys, Saves
<1>7. \A a : Cardinality(Owned(a)) = 0 /\ BackupsOf(Owned(a)) = 0
  BY <1>6, FS_EmptySet DEF BackupsOf
<1>8. Limit \in Nat /\ BackupLimit \in Nat /\ Cardinality(Caller) \in Nat /\ Cardinality(Caller) # 0
  BY HostingAssumption, CallersCount, FS_EmptySet
<1>9. Overshoot /\ BackupCap
  BY <1>7, <1>8 DEF Overshoot, BackupCap
<1>10. \A a : ServersSpared(a) /\ BackupsSpared(a)
  BY <1>6 DEF ServersSpared, BackupsSpared, Spared
<1> QED
  BY <1>5, <1>9, <1>10 DEF QuotaInv

LEMMA QuotaNextInv == QuotaInv /\ [HostingNext]_hostingVars => QuotaInv'
<1> SUFFICES ASSUME QuotaInv, [HostingNext]_hostingVars PROVE QuotaInv'
  OBVIOUS
<1>1. CASE UNCHANGED hostingVars
  <2>1. QuotaTypes' /\ OnlyEnd
    BY <1>1 DEF hostingVars, QuotaInv, QuotaTypes, IsRequest, OnlyEnd
  <2>2. \A a : Owned(a)' = Owned(a) \ {} /\ BackupsIn(Owned(a))' = BackupsIn(Owned(a)) \ {}
    BY <1>1 DEF hostingVars, Owned, HeldServers, BackupsIn
  <2>3. \A a : \A t \in Caller : /\ Unasked(call[t], a)' = Unasked(call[t], a) \ {}
                                 /\ BackupsIn(Unasked(call[t], a))' = BackupsIn(Unasked(call[t], a)) \ {}
    BY <1>1 DEF hostingVars, Unasked, Owned, HeldServers, BackupsIn
  <2>4. ASSUME ~extra', NEW a \in Account
        PROVE  ServersSpared(a)' /\ Cardinality(Owned(a)') <= Limit + Cardinality(Caller) - 1
    BY <1>1, <2>1, <2>2, <2>3, <2>4, ServersTaken DEF hostingVars
  <2>5. ASSUME RepliesSuffice, NEW a \in Account
        PROVE  BackupsSpared(a)' /\ BackupsOf(Owned(a))' <= BackupLimit + Cardinality(Caller) - 1
    BY <2>1, <2>2, <2>3, <2>5, BackupsTaken
  <2> QED
    BY <2>1, <2>4, <2>5, Together
<1>2. CASE HostingNext
  BY <1>2, DeployAsksKeeps, BackupAsksKeeps, MakesKeep, EraseStepKeeps, RemovesKeep, BeginKeeps, CreateQuota
  DEF HostingNext
<1> QED
  BY <1>1, <1>2

\* However the requests of an account interleave with each other, with removals
\* and with nodes that say nothing: it holds no more servers than its limit and
\* one for each request beside the first (deploy's count, admit and create take
\* no lock), until one is made on a count that left servers out.
THEOREM OvershootBounded == HostingSpec => []Overshoot
<1>1. QuotaInv => Overshoot
  BY DEF QuotaInv
<1> QED
  BY <1>1, QuotaInitInv, QuotaNextInv, PTL DEF HostingSpec

\* And with replies that list all the servers of a node, and of one server's
\* backups as many as the cap at least, no more backups than the cap and one for
\* each request beside the first, silent nodes or not, replies cut or not.
THEOREM LimitsBounded == RepliesSuffice => (HostingSpec => []LimitsOvershoot)
<1> SUFFICES ASSUME RepliesSuffice PROVE HostingSpec => []LimitsOvershoot
  OBVIOUS
<1>1. QuotaInv => LimitsOvershoot
  BY DEF QuotaInv, LimitsOvershoot
<1> QED
  BY <1>1, QuotaInitInv, QuotaNextInv, PTL DEF HostingSpec

(***************************************************************************)
(* The types.                                                              *)
(***************************************************************************)
Stage == {"free", "deploy", "create", "backup", "make", "erase", "pick", "clear"}
Calls ==
  [at : Stage, who : Account, ask : Node, mine : Nat, all : Nat, deaf : BOOLEAN,
   rows : SUBSET Instance, before : SUBSET Instance, now : Instance]

LEMMA ChosenTypes == NoOne \in Account /\ NoInstance \in Instance
BY HostingAssumption DEF NoOne, NoInstance

LEMMA RequestTyped ==
  ASSUME NEW at \in Stage, NEW a \in Account
  PROVE  Request(at, a) \in Calls /\ NoCall \in Calls
<1>1. 1 \in Node
  BY OneIsNode
<1>2. ASSUME NEW e \in Stage, NEW b \in Account PROVE Request(e, b) \in Calls
  BY <1>1, ChosenTypes DEF Request, Calls
<1>3. NoCall \in Calls
  BY <1>2, ChosenTypes DEF NoCall, Stage
<1> QED
  BY <1>2, <1>3

LEMMA FieldsTyped ==
  ASSUME NEW r \in Calls
  PROVE  /\ \A v \in Stage : [r EXCEPT !.at = v] \in Calls
         /\ \A v \in Node : [r EXCEPT !.ask = v] \in Calls
         /\ \A v \in Nat : [r EXCEPT !.mine = v] \in Calls /\ [r EXCEPT !.all = v] \in Calls
         /\ \A v \in BOOLEAN : [r EXCEPT !.deaf = v] \in Calls
         /\ \A v \in SUBSET Instance : [r EXCEPT !.rows = v] \in Calls /\ [r EXCEPT !.before = v] \in Calls
         /\ \A v \in Instance : [r EXCEPT !.now = v] \in Calls
BY DEF Calls

LEMMA CountedTyped ==
  ASSUME NEW r \in Calls, NEW all \in Nat, NEW deaf \in BOOLEAN, NEW mine \in Nat
  PROVE  [r EXCEPT !.all = all, !.deaf = deaf, !.mine = mine] \in Calls
BY DEF Calls

LEMMA CallTyped ==
  ASSUME HostingTypeOK, NEW t \in Caller
  PROVE  call[t] \in Calls
BY DEF HostingTypeOK, Calls, Stage

\* A step that gives one request a value of its type and leaves the servers alone.
LEMMA BecomesTyped ==
  ASSUME HostingTypeOK, NEW t \in Caller, NEW r \in Calls, Become(t, r)
  PROVE  call' \in [Caller -> Calls]
BY DEF HostingTypeOK, Become, Calls, Stage

LEMMA StillTyped ==
  ASSUME HostingTypeOK, Still, call' \in [Caller -> Calls]
  PROVE  HostingTypeOK'
BY DEF HostingTypeOK, Still, Calls, Stage

\* What deploys and backups are judged to is a request of its type.
LEMMA AdmittedTyped ==
  ASSUME NEW r \in Calls
  PROVE  Admitted(r) \in Calls /\ AdmittedBackup(r) \in Calls
<1>1. "create" \in Stage /\ "make" \in Stage /\ r.who \in Account /\ r.deaf \in BOOLEAN
  BY DEF Stage, Calls
<1>2. NoCall \in Calls /\ Request("create", r.who) \in Calls /\ Request("make", r.who) \in Calls
  BY <1>1, RequestTyped
<1>3. [Request("create", r.who) EXCEPT !.deaf = r.deaf] \in Calls
  BY <1>1, <1>2, FieldsTyped
<1> QED
  BY <1>2, <1>3 DEF Admitted, AdmittedBackup

LEMMA HeardTyped ==
  ASSUME NEW r \in Calls
  PROVE  Heard(r) \in Calls
<1>1. 1 \in Node /\ "pick" \in Stage
  BY OneIsNode DEF Stage
<1> QED
  BY <1>1 DEF Heard, Calls

\* The next node to ask is a node.
LEMMA NextNode ==
  ASSUME NEW r \in Calls, r.ask < Nodes
  PROVE  [r EXCEPT !.ask = @ + 1] \in Calls
<1>1. r.ask + 1 \in Node
  BY HostingAssumption DEF Calls, Node
<1> QED
  BY <1>1 DEF Calls

LEMMA StepsTyped ==
  ASSUME NEW r \in Calls
  PROVE  Step(Admitted, r) \in Calls /\ Step(AdmittedBackup, r) \in Calls /\ Step(Heard, r) \in Calls
BY AdmittedTyped, HeardTyped, NextNode DEF Step

LEMMA DeployAsksTyped ==
  ASSUME HostingTypeOK, NEW t \in Caller, DeployAsks(t)
  PROVE  HostingTypeOK'
<1> DEFINE r == call[t]
<1>1. r \in Calls /\ Still
  BY CallTyped DEF DeployAsks
<1>2. CASE Become(t, Step(Admitted, [r EXCEPT !.deaf = TRUE]))
  <2>1. [r EXCEPT !.deaf = TRUE] \in Calls
    BY <1>1, FieldsTyped
  <2> QED
    <3> DEFINE q == [r EXCEPT !.deaf = TRUE]
    <3>1. q \in Calls /\ Become(t, Step(Admitted, q))
      BY <1>2, <2>1
    <3> HIDE DEF q
    <3>2. call' \in [Caller -> Calls]
      BY <3>1, StepsTyped, BecomesTyped
    <3> QED
      BY <1>1, <3>2, StillTyped
<1>3. ASSUME NEW S \in Replies(r.ask),
             Become(t, Step(Admitted, [r EXCEPT
               !.all = @ + Cardinality(S), !.deaf = @ \/ S # Here(r.ask),
               !.mine = @ + Cardinality(S \cap Owned(r.who))]))
      PROVE  HostingTypeOK'
  <2>1. S \in SUBSET Instance /\ S \cap Owned(r.who) \in SUBSET Instance
    BY <1>3 DEF Replies, Here
  <2>2. Cardinality(S) \in Nat /\ Cardinality(S \cap Owned(r.who)) \in Nat
    BY <2>1, ServersCount
  <2>3. [r EXCEPT !.all = @ + Cardinality(S), !.deaf = @ \/ S # Here(r.ask),
                  !.mine = @ + Cardinality(S \cap Owned(r.who))] \in Calls
    <3>1. /\ r.all + Cardinality(S) \in Nat /\ (r.deaf \/ S # Here(r.ask)) \in BOOLEAN
          /\ r.mine + Cardinality(S \cap Owned(r.who)) \in Nat
      BY <1>1, <2>2 DEF Calls
    <3> QED
      BY <1>1, <3>1, CountedTyped, Zenon
  <2> QED
    <3> DEFINE q == [r EXCEPT !.all = @ + Cardinality(S), !.deaf = @ \/ S # Here(r.ask),
                              !.mine = @ + Cardinality(S \cap Owned(r.who))]
    <3>1. q \in Calls
      BY <2>3
    <3>2. Become(t, Step(Admitted, q))
      BY <1>3, Zenon
    <3> HIDE DEF q
    <3>3. call' \in [Caller -> Calls]
      BY <3>1, <3>2, StepsTyped, BecomesTyped
    <3> QED
      BY <1>1, <3>3, StillTyped
<1> QED
  BY <1>2, <1>3 DEF DeployAsks

LEMMA BackupAsksTyped ==
  ASSUME HostingTypeOK, NEW t \in Caller, BackupAsks(t)
  PROVE  HostingTypeOK'
<1> DEFINE r == call[t]
<1>1. r \in Calls /\ Still /\ NoCall \in Calls
  BY CallTyped, RequestTyped, ChosenTypes DEF BackupAsks, Stage
<1>2. CASE Become(t, NoCall)
  BY <1>1, <1>2, BecomesTyped, StillTyped
<1>3. ASSUME NEW S \in Replies(r.ask),
             Become(t, Step(AdmittedBackup, [r EXCEPT !.mine = @ + HeardBackups(S \cap Owned(r.who))]))
      PROVE  HostingTypeOK'
  <2>1. S \cap Owned(r.who) \in SUBSET Instance
    BY <1>3 DEF Replies, Here
  <2>2. HeardBackups(S \cap Owned(r.who)) \in Nat
    BY <2>1, HeardCount
  <2>3. [r EXCEPT !.mine = @ + HeardBackups(S \cap Owned(r.who))] \in Calls
    BY <1>1, <2>2 DEF Calls
  <2> QED
    <3> DEFINE q == [r EXCEPT !.mine = @ + HeardBackups(S \cap Owned(r.who))]
    <3>1. q \in Calls /\ Become(t, Step(AdmittedBackup, q))
      BY <1>3, <2>3
    <3> HIDE DEF q
    <3>2. call' \in [Caller -> Calls]
      BY <3>1, StepsTyped, BecomesTyped
    <3> QED
      BY <1>1, <3>2, StillTyped
<1> QED
  BY <1>2, <1>3 DEF BackupAsks

LEMMA EraseAsksTyped ==
  ASSUME HostingTypeOK, NEW t \in Caller, EraseAsks(t)
  PROVE  HostingTypeOK'
<1> DEFINE r == call[t]
<1>1. r \in Calls /\ Still /\ NoCall \in Calls
  BY CallTyped, RequestTyped, ChosenTypes DEF EraseAsks, Stage
<1>2. CASE Become(t, NoCall)
  BY <1>1, <1>2, BecomesTyped, StillTyped
<1>3. ASSUME NEW S \in Replies(r.ask),
             Become(t, Step(Heard, [r EXCEPT !.rows = @ \cup (S \cap Owned(r.who))]))
      PROVE  HostingTypeOK'
  <2>1. r.rows \cup (S \cap Owned(r.who)) \in SUBSET Instance
    BY <1>1, <1>3 DEF Replies, Here, Calls
  <2> DEFINE q == [r EXCEPT !.rows = @ \cup (S \cap Owned(r.who))]
  <2>2. q \in Calls
    BY <1>1, <2>1 DEF Calls
  <2>3. Become(t, Step(Heard, q))
    BY <1>3
  <2> HIDE DEF q
  <2>4. call' \in [Caller -> Calls]
    BY <2>2, <2>3, StepsTyped, BecomesTyped
  <2> QED
    BY <1>1, <2>4, StillTyped
<1> QED
  BY <1>2, <1>3 DEF EraseAsks

\* A request begins, or ends with the servers left alone.
LEMMA BeginsTyped ==
  ASSUME HostingTypeOK, NEW t \in Caller, NEW a \in Account,
         Deploy(t, a) \/ Backup(t, a) \/ Erase(t, a) \/ CallFails(t)
  PROVE  HostingTypeOK'
<1>1. /\ Request("deploy", a) \in Calls /\ Request("backup", a) \in Calls
      /\ Request("erase", a) \in Calls /\ NoCall \in Calls
  BY RequestTyped DEF Stage
<1>2. [Request("erase", a) EXCEPT !.before = Owned(a)] \in Calls
  BY <1>1, OwnedIn, FieldsTyped
<1>3. CASE Deploy(t, a)
  BY <1>1, <1>3, BecomesTyped, StillTyped DEF Deploy
<1>4. CASE Backup(t, a)
  BY <1>1, <1>4, BecomesTyped, StillTyped DEF Backup
<1>5. CASE Erase(t, a)
  BY <1>2, <1>5, BecomesTyped, StillTyped DEF Erase
<1>6. CASE CallFails(t)
  BY <1>1, <1>6, BecomesTyped, StillTyped DEF CallFails
<1> QED
  BY <1>3, <1>4, <1>5, <1>6

\* A server and its backups.
ServersTyped ==
  /\ on \in [Instance -> Node \cup {Nowhere}] /\ owner \in [Instance -> Account]
  /\ backups \in [Instance -> 0 .. MaxBackup] /\ extra \in BOOLEAN /\ missed \subseteq Instance

LEMMA TypedAgain ==
  ASSUME ServersTyped', call' \in [Caller -> Calls]
  PROVE  HostingTypeOK'
BY DEF ServersTyped, HostingTypeOK, Calls, Stage

LEMMA FewerBackups ==
  ASSUME HostingTypeOK, NEW i \in Instance, backups[i] > 0
  PROVE  [backups EXCEPT ![i] = @ - 1] \in [Instance -> 0 .. MaxBackup]
BY HostingAssumption DEF HostingTypeOK

LEMMA RemovalTyped ==
  ASSUME HostingTypeOK, NEW i \in Instance, Removal(i)
  PROVE  ServersTyped'
<1>1. 0 \in 0 .. MaxBackup /\ NoOne \in Account
  BY HostingAssumption, ChosenTypes
<1> QED
  BY <1>1 DEF HostingTypeOK, Removal, ServersTyped

LEMMA CreateTyped ==
  ASSUME HostingTypeOK, NEW t \in Caller, NEW n \in Node, Create(t, n)
  PROVE  HostingTypeOK'
<1>1. NoCall \in Calls /\ call[t] \in Calls
  BY CallTyped, RequestTyped, ChosenTypes DEF Stage
<1>2. call[t].who \in Account /\ call[t].deaf \in BOOLEAN
  BY <1>1 DEF Calls
<1>3. PICK i \in Instance : /\ on' = [on EXCEPT ![i] = n]
                            /\ owner' = [owner EXCEPT ![i] = call[t].who]
                            /\ extra' = (extra \/ call[t].deaf)
  BY DEF Create, Fresh
<1>4. ServersTyped'
  <2>1. on' \in [Instance -> Node \cup {Nowhere}] /\ owner' \in [Instance -> Account]
    BY <1>2, <1>3 DEF HostingTypeOK
  <2>2. extra' \in BOOLEAN
    BY <1>3, Zenon
  <2> QED
    BY <2>1, <2>2 DEF Create, HostingTypeOK, ServersTyped
<1>5. call' \in [Caller -> Calls]
  BY <1>1, BecomesTyped DEF Create
<1> QED
  BY <1>4, <1>5, TypedAgain

LEMMA MakeBackupTyped ==
  ASSUME HostingTypeOK, NEW t \in Caller, MakeBackup(t)
  PROVE  HostingTypeOK'
<1>1. NoCall \in Calls
  BY RequestTyped, ChosenTypes DEF Stage
<1>2. PICK i \in Instance : backups[i] < MaxBackup /\ backups' = [backups EXCEPT ![i] = @ + 1]
  BY OwnedIn DEF MakeBackup
<1>3. backups' \in [Instance -> 0 .. MaxBackup]
  BY <1>2, HostingAssumption DEF HostingTypeOK
<1>4. ServersTyped'
  BY <1>3 DEF MakeBackup, HostingTypeOK, ServersTyped
<1>5. call' \in [Caller -> Calls]
  BY <1>1, BecomesTyped DEF MakeBackup
<1> QED
  BY <1>4, <1>5, TypedAgain

LEMMA ErasePicksTyped ==
  ASSUME HostingTypeOK, NEW t \in Caller, NEW i \in Instance, ErasePicks(t, i)
  PROVE  HostingTypeOK'
<1>1. call[t] \in Calls /\ HeardBackups({i}) \in Nat
  BY CallTyped, HeardCount
<1>2. [call[t] EXCEPT !.at = "clear", !.now = i, !.mine = HeardBackups({i})] \in Calls
  BY <1>1 DEF Calls, Stage
<1> QED
  BY <1>2, BecomesTyped, StillTyped DEF ErasePicks

LEMMA EraseClearsTyped ==
  ASSUME HostingTypeOK, NEW t \in Caller, EraseClears(t)
  PROVE  HostingTypeOK'
<1> DEFINE i == call[t].now
<1>1. call[t] \in Calls /\ i \in Instance /\ backups[i] > 0 /\ call[t].mine > 0
  BY CallTyped DEF EraseClears, Calls
<1>2. [call[t] EXCEPT !.mine = @ - 1] \in Calls
  BY <1>1 DEF Calls
<1>3. backups' \in [Instance -> 0 .. MaxBackup]
  BY <1>1, FewerBackups DEF EraseClears
<1>4. ServersTyped'
  BY <1>3 DEF EraseClears, HostingTypeOK, ServersTyped
<1>5. call' \in [Caller -> Calls]
  BY <1>2, BecomesTyped DEF EraseClears
<1> QED
  BY <1>4, <1>5, TypedAgain

LEMMA EraseRemovesTyped ==
  ASSUME HostingTypeOK, NEW t \in Caller, EraseRemoves(t)
  PROVE  HostingTypeOK'
<1> DEFINE i == call[t].now
<1>1. call[t] \in Calls /\ i \in Instance /\ NoInstance \in Instance /\ Removal(i)
  BY CallTyped, ChosenTypes DEF EraseRemoves, Calls
<1>2. [call[t] EXCEPT !.at = "pick", !.now = NoInstance, !.rows = @ \ {i}] \in Calls
  BY <1>1 DEF Calls, Stage
<1>3. call' \in [Caller -> Calls]
  BY <1>2, BecomesTyped DEF EraseRemoves
<1> QED
  BY <1>1, <1>3, RemovalTyped, TypedAgain

LEMMA EraseDoneTyped ==
  ASSUME HostingTypeOK, NEW t \in Caller, EraseDone(t)
  PROVE  HostingTypeOK'
<1>1. NoCall \in Calls
  BY RequestTyped, ChosenTypes DEF Stage
<1>2. missed' \subseteq Instance
  BY OwnedIn DEF EraseDone, HostingTypeOK
<1>3. ServersTyped'
  BY <1>2 DEF EraseDone, HostingTypeOK, ServersTyped
<1>4. call' \in [Caller -> Calls]
  BY <1>1, BecomesTyped DEF EraseDone
<1> QED
  BY <1>3, <1>4, TypedAgain

LEMMA OwnerTyped ==
  ASSUME HostingTypeOK, NEW i \in Instance, DestroyServer(i) \/ DeleteBackup(i)
  PROVE  HostingTypeOK'
<1>1. ServersTyped'
  <2>1. CASE DestroyServer(i)
    BY <2>1, RemovalTyped DEF DestroyServer
  <2>2. CASE DeleteBackup(i)
    BY <2>2, FewerBackups DEF DeleteBackup, HostingTypeOK, ServersTyped
  <2> QED
    BY <2>1, <2>2
<1>2. call' \in [Caller -> Calls]
  BY DEF DestroyServer, DeleteBackup, HostingTypeOK, Calls, Stage
<1> QED
  BY <1>1, <1>2, TypedAgain

LEMMA HostingTypesInit == HostingInit => HostingTypeOK
<1> SUFFICES ASSUME HostingInit PROVE HostingTypeOK
  OBVIOUS
<1>1. NoCall \in Calls /\ NoOne \in Account /\ 0 \in 0 .. MaxBackup
  BY RequestTyped, ChosenTypes, HostingAssumption DEF Stage
<1> QED
  BY <1>1 DEF HostingInit, HostingTypeOK, Calls, Stage

LEMMA HostingTypesNext == HostingTypeOK /\ [HostingNext]_hostingVars => HostingTypeOK'
<1> SUFFICES ASSUME HostingTypeOK, [HostingNext]_hostingVars PROVE HostingTypeOK'
  OBVIOUS
<1>1. CASE UNCHANGED hostingVars
  BY <1>1 DEF hostingVars, HostingTypeOK
<1>2. ASSUME NEW t \in Caller, CallFails(t) PROVE HostingTypeOK'
  BY <1>2, ChosenTypes, BeginsTyped
<1>3. CASE HostingNext
  BY <1>2, <1>3, DeployAsksTyped, BackupAsksTyped, EraseAsksTyped, MakeBackupTyped, EraseClearsTyped,
     EraseRemovesTyped, EraseDoneTyped, BeginsTyped, CreateTyped, ErasePicksTyped, OwnerTyped
  DEF HostingNext
<1> QED
  BY <1>1, <1>3

\* Whatever requests are served together and whatever they hear, every field of
\* hosting.rs's requests stays in range: counts are counts, the node asked next is
\* one of the hosting file's, and no backup is counted that cannot be.
THEOREM HostingTyped == HostingSpec => []HostingTypeOK
BY HostingTypesInit, HostingTypesNext, PTL DEF HostingSpec

=============================================================================
