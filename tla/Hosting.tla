------------------------------ MODULE Hosting ------------------------------
(***************************************************************************)
(* What an account may hold on the nodes of an index (platform-index,      *)
(* hosting.rs and quota.rs): deploying a server under the account's and    *)
(* the index's limit, making a backup under the account's cap, and erasing *)
(* all an account holds.                                                   *)
(* The index writes none of it down: each request asks the                 *)
(* nodes one after the other and acts on what they said, while other       *)
(* requests do the same, and a node may be silent to any one question.     *)
(* A reply that is lost after the node did the work is a request that did  *)
(* its work: the index keeps nothing that could tell the two apart.        *)
(*                                                                         *)
(* A node's reply is one link packet: of a node with more servers than fit *)
(* it lists some, of a server with more backups than fit the newest, and   *)
(* marks the reply as cut.  The index does not look at that mark.          *)
(***************************************************************************)
EXTENDS Naturals, FiniteSets, FiniteSetsExt

CONSTANTS
  Nodes,       \* how many nodes the hosting file lists
  Instance,          \* server ids (bounds the servers there can be at once)
  Account,     \* accounts
  Caller,        \* requests served at once
  Eraser,      \* bound: those of them that may ask for an erase
  Limit,       \* max_instances_for, of every account
  Total,       \* max_total_instances
  BackupLimit, \* max_backups_for, of every account
  RowsFit,     \* servers one reply of a node can list (encode_list_resp)
  BackupsFit,  \* backups one reply of a node can list (encode_backups_resp)
  MaxBackup    \* bound: backups of one server

ASSUME HostingAssumption ==
  /\ Limit \in Nat /\ Total \in Nat /\ BackupLimit \in Nat /\ MaxBackup \in Nat
  /\ IsFiniteSet(Instance) /\ Instance # {} /\ Account # {}
  /\ IsFiniteSet(Caller) /\ Caller # {}
  /\ Nodes \in Nat \ {0} /\ RowsFit \in Nat /\ BackupsFit \in Nat \ {0}

VARIABLES
  on,      \* where each server is
  owner,   \* the account each server was made for (its container's label)
  backups, \* how many backups each server has
  call,    \* each request: where it stands and what it has heard
  extra,   \* whether a server was made on a count that left some servers out
  missed   \* servers that stood before an erase began and when it reported done

hostingVars == <<on, owner, backups, call, extra, missed>>

\* Nodes are asked in the order of the hosting file.
Node == 1 .. Nodes
Nowhere == 0

NoOne == CHOOSE a \in Account : TRUE
NoInstance == CHOOSE i \in Instance : TRUE
Request(at, a) ==
  [at |-> at, who |-> a, ask |-> 1, mine |-> 0, all |-> 0, deaf |-> FALSE,
   rows |-> {}, before |-> {}, now |-> NoInstance]
NoCall == Request("free", NoOne)

HostingTypeOK ==
  /\ on \in [Instance -> Node \cup {Nowhere}]
  /\ owner \in [Instance -> Account]
  /\ backups \in [Instance -> 0 .. MaxBackup]
  /\ call \in [Caller ->
       [at : {"free", "deploy", "create", "backup", "make", "erase", "pick", "clear"},
        who : Account, ask : Node, mine : Nat, all : Nat, deaf : BOOLEAN,
        rows : SUBSET Instance, before : SUBSET Instance, now : Instance]]
  /\ extra \in BOOLEAN /\ missed \subseteq Instance

HostingInit ==
  /\ on = [i \in Instance |-> Nowhere]
  /\ owner = [i \in Instance |-> NoOne]
  /\ backups = [i \in Instance |-> 0]
  /\ call = [t \in Caller |-> NoCall]
  /\ extra = FALSE /\ missed = {}

Here(n) == {i \in Instance : on[i] = n}
HeldServers == {i \in Instance : on[i] # Nowhere}
Owned(a) == {i \in HeldServers : owner[i] = a}

\* list_detailed, encode_list_resp: what a node's reply lists.
Replies(n) ==
  {S \in SUBSET Here(n) : Cardinality(S) = Min({RowsFit, Cardinality(Here(n))})}

\* The backups of some servers, each its server's first, second, ...
BackupsIn(S) == {b \in S \X (1 .. MaxBackup) : b[2] <= backups[b[1]]}
BackupsOf(S) == Cardinality(BackupsIn(S))

\* What the replies list of them: each server's, as many as fit.
HeardIn(S) == {b \in BackupsIn(S) : b[2] <= BackupsFit}
HeardBackups(S) == Cardinality(HeardIn(S))

Become(t, r) == call' = [call EXCEPT ![t] = r]

\* Nodes are asked one after the other, and the last one's answer is followed by
\* what the request makes of it.
Step(done(_), r) == IF r.ask < Nodes THEN [r EXCEPT !.ask = @ + 1] ELSE done(r)

\* The server goes, and its backups are no longer counted.
Removal(i) ==
  /\ on' = [on EXCEPT ![i] = Nowhere]
  /\ owner' = [owner EXCEPT ![i] = NoOne]
  /\ backups' = [backups EXCEPT ![i] = 0]
  /\ missed' = missed \ {i} /\ UNCHANGED extra

Still == UNCHANGED <<on, owner, backups, extra, missed>>

(***************************************************************************)
(* deploy: all_instances, admit, pick_node, create.                        *)
(***************************************************************************)
Deploy(t, a) ==
  /\ call[t].at = "free"
  /\ Become(t, Request("deploy", a)) /\ Still

\* Mutant of Admits: "more than the limit" for "at the limit".
AdmitsOneMore(r) == r.mine <= Limit /\ r.all < Total

\* admit: the limits of the account and of the index.
Admits(r) == r.mine < Limit /\ r.all < Total
Admitted(r) == IF Admits(r) THEN [Request("create", r.who) EXCEPT !.deaf = r.deaf] ELSE NoCall

\* One node's listing; all_instances leaves a silent node out.  After the last
\* node's the count is judged, in the same step.
DeployAsks(t) ==
  LET r == call[t] IN
  /\ r.at = "deploy"
  /\ \/ Become(t, Step(Admitted, [r EXCEPT !.deaf = TRUE]))
     \/ \E S \in Replies(r.ask) :
          Become(t, Step(Admitted, [r EXCEPT
            !.all = @ + Cardinality(S), !.deaf = @ \/ S # Here(r.ask),
            !.mine = @ + Cardinality(S \cap Owned(r.who))]))
  /\ Still

\* Ids are random: none is used twice while a request remembers it, and one
\* unused id is as good as another.
Fresh == Instance \ (HeldServers \cup UNION {call[t].before : t \in Caller})

\* The node picked makes it, or refuses.
Create(t, n) ==
  /\ call[t].at = "create" /\ Fresh # {}
  /\ LET i == CHOOSE i \in Fresh : TRUE IN
     /\ on' = [on EXCEPT ![i] = n]
     /\ owner' = [owner EXCEPT ![i] = call[t].who]
     /\ extra' = (extra \/ call[t].deaf)
  /\ Become(t, NoCall) /\ UNCHANGED <<backups, missed>>

(***************************************************************************)
(* backup_create: backups_held, admit_backup, then the node makes it.      *)
(***************************************************************************)
Backup(t, a) ==
  /\ call[t].at = "free" /\ Owned(a) # {}
  /\ Become(t, Request("backup", a)) /\ Still

AdmittedBackup(r) == IF r.mine < BackupLimit THEN Request("make", r.who) ELSE NoCall

\* Mutant of BackupAsks: a silent node counts for nothing.
BackupAsksDeaf(t) ==
  LET r == call[t] IN
  /\ r.at = "backup" /\ Still
  /\ \/ Become(t, Step(AdmittedBackup, r))
     \/ \E S \in Replies(r.ask) :
          Become(t, Step(AdmittedBackup, [r EXCEPT !.mine = @ + HeardBackups(S \cap Owned(r.who))]))

\* A silent node makes the count unknown, and the request fails.  What a reply
\* leaves out is not counted.
BackupAsks(t) ==
  LET r == call[t] IN
  /\ r.at = "backup"
  /\ \/ Become(t, NoCall)
     \/ \E S \in Replies(r.ask) :
          Become(t, Step(AdmittedBackup, [r EXCEPT !.mine = @ + HeardBackups(S \cap Owned(r.who))]))
  /\ Still

MakeBackup(t) ==
  /\ call[t].at = "make"
  /\ \E i \in Owned(call[t].who) :
       /\ backups[i] < MaxBackup
       /\ backups' = [backups EXCEPT ![i] = @ + 1]
  /\ Become(t, NoCall) /\ UNCHANGED <<on, owner, extra, missed>>

(***************************************************************************)
(* erase_account: owned_everywhere, then server by server its backups and  *)
(* itself.                                                                 *)
(***************************************************************************)
Erase(t, a) ==
  /\ call[t].at = "free" /\ t \in Eraser
  /\ Become(t, [Request("erase", a) EXCEPT !.before = Owned(a)]) /\ Still

Heard(r) == [r EXCEPT !.at = "pick", !.ask = 1]

\* Mutant of EraseAsks: a silent node is skipped.
EraseAsksDeaf(t) ==
  LET r == call[t] IN
  /\ r.at = "erase" /\ Still
  /\ \/ Become(t, Step(Heard, r))
     \/ \E S \in Replies(r.ask) :
          Become(t, Step(Heard, [r EXCEPT !.rows = @ \cup (S \cap Owned(r.who))]))

\* A silent node fails the whole call.
EraseAsks(t) ==
  LET r == call[t] IN
  /\ r.at = "erase"
  /\ \/ Become(t, NoCall)
     \/ \E S \in Replies(r.ask) :
          Become(t, Step(Heard, [r EXCEPT !.rows = @ \cup (S \cap Owned(r.who))]))
  /\ Still

\* The next server's backups are listed, as many as a reply holds ...
ErasePicks(t, i) ==
  /\ call[t].at = "pick" /\ i \in call[t].rows \cap HeldServers
  /\ Become(t, [call[t] EXCEPT !.at = "clear", !.now = i, !.mine = HeardBackups({i})]) /\ Still

\* ... and deleted one by one ...
EraseClears(t) ==
  LET i == call[t].now IN
  /\ call[t].at = "clear" /\ call[t].mine > 0 /\ backups[i] > 0
  /\ backups' = [backups EXCEPT ![i] = @ - 1]
  /\ Become(t, [call[t] EXCEPT !.mine = @ - 1]) /\ UNCHANGED <<on, owner, extra, missed>>

\* ... and then the server is removed.
EraseRemoves(t) ==
  LET i == call[t].now IN
  /\ call[t].at = "clear" /\ call[t].mine = 0 /\ i \in HeldServers
  /\ Removal(i)
  /\ Become(t, [call[t] EXCEPT !.at = "pick", !.now = NoInstance, !.rows = @ \ {i}])

\* The account is told that it is done.
EraseDone(t) ==
  /\ call[t].at = "pick" /\ call[t].rows = {}
  /\ missed' = missed \cup (call[t].before \cap Owned(call[t].who))
  /\ Become(t, NoCall) /\ UNCHANGED <<on, owner, backups, extra>>

(***************************************************************************)
(* The rest: the node refuses or the caller hangs up; the owner removes a  *)
(* server or a backup.                                                     *)
(***************************************************************************)
CallFails(t) == call[t].at # "free" /\ Become(t, NoCall) /\ Still

DestroyServer(i) == i \in HeldServers /\ Removal(i) /\ UNCHANGED call

DeleteBackup(i) ==
  /\ i \in HeldServers /\ backups[i] > 0
  /\ backups' = [backups EXCEPT ![i] = @ - 1]
  /\ UNCHANGED <<on, owner, call, extra, missed>>

HostingNext ==
  \/ \E t \in Caller :
       \/ DeployAsks(t) \/ BackupAsks(t) \/ MakeBackup(t) \/ CallFails(t)
       \/ EraseAsks(t) \/ EraseClears(t) \/ EraseRemoves(t) \/ EraseDone(t)
       \/ \E a \in Account : Deploy(t, a) \/ Backup(t, a) \/ Erase(t, a)
       \/ \E n \in Node : Create(t, n)
       \/ \E i \in Instance : ErasePicks(t, i)
  \/ \E i \in Instance : DestroyServer(i) \/ DeleteBackup(i)

HostingSpec == HostingInit /\ [][HostingNext]_hostingVars

(***************************************************************************)
(* Properties.                                                             *)
(***************************************************************************)

\* Admission counts and then creates, with no lock around the two: requests
\* that run together may go over an account's limit, but by no more than one
\* server for each request beside the first, until a server is made on a count
\* that left servers out (a silent node, or a reply that was cut): of those an
\* account can collect any number.
Overshoot ==
  ~extra => \A a \in Account : Cardinality(Owned(a)) <= Limit + Cardinality(Caller) - 1

\* The cap on backups holds in the same way with silent nodes too, silence being
\* no room, as long as no node has more servers than its reply can list and the
\* cap is not above what a reply can list of one server's backups: then a reply
\* that was cut has named enough to refuse.  Past either an account's backups
\* are not counted, and it can have any number.
BackupCap ==
  \A a \in Account : BackupsOf(Owned(a)) <= BackupLimit + Cardinality(Caller) - 1

\* Both limits, as far as the code can hold them.
LimitsOvershoot == Overshoot /\ BackupCap

\* An erase that reports done has left no server that stood when it was asked for.
EraseComplete == missed = {}

=============================================================================
