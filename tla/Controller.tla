----------------------------- MODULE Controller -----------------------------
(***************************************************************************)
(* A node's page that places servers through an index (platform-agent,     *)
(* controller.rs, accounts.rs, api.rs; the index's logins in               *)
(* platform-auth).  An account of the page acts at the index as an         *)
(* identity of its own, made of the node's key, its name and a salt that   *)
(* is new whenever a name is taken.  The node keeps, by name, the session  *)
(* it has at the index and the last list of servers; both are read and     *)
(* written by requests that run side by side, each across several awaits.  *)
(*                                                                         *)
(* An index may do what it began though the node no longer waits for it.   *)
(* Requests time out, pages hang up, sessions end, either side restarts.   *)
(*                                                                         *)
(* Left out: admins, who act as the node, an identity that is never        *)
(* removed; reads that are not kept; who may do what; a worker that is     *)
(* silent when the index lists its servers, which the list then lacks.  A  *)
(* list that is no longer fresh is no list.  The index's challenges are    *)
(* answered at once, and its ceiling on everyone's sessions is not met.    *)
(***************************************************************************)
EXTENDS Naturals, FiniteSets

CONSTANTS
  Name,         \* names accounts with the user role may take
  Slot,         \* requests of the page that may be under way at once
  MaxLives,     \* bound: how often a name is taken
  MaxSession,   \* bound: sessions ever opened at the index
  MaxServer,    \* bound: servers ever deployed
  OwnSessions,  \* MAX_SESSIONS_PER_IDENTITY
  MaxUpset,     \* bound: what goes wrong
  Overlap       \* whether an account is removed while its requests are under way

ASSUME ControllerAssumption ==
  /\ {MaxSession, MaxServer, MaxUpset} \subseteq Nat
  /\ {MaxLives, OwnSessions} \subseteq Nat \ {0} /\ Overlap \in BOOLEAN

Identity == Name \X (1 .. MaxLives)
ServerNo == 1 .. MaxServer
NoSession == 0

VARIABLES
  life,     \* accounts: which life of its name an account is, 0 where there is none
  lives,    \* how often each name was taken
  tokens,   \* Controller.tokens, by name
  lists,    \* Controller.lists, by name: the list it has, if it has one
  lock,     \* who holds the lock of Controller.lists
  req,      \* the page's requests
  work,     \* what the index is doing
  sessions, \* Authenticator.sessions
  opened,   \* how many there have been; a later one has a greater token
  servers,  \* the index's servers
  made,     \* how many there have been
  told,     \* what pages were answered: servers made and removed
  upsets    \* how much went wrong so far

nodeVars == <<life, lives, tokens, lists, lock, req, told>>
indexVars == <<work, sessions, opened, servers, made>>
controllerVars == <<nodeVars, indexVars, upsets>>

NoRequest == [at |-> "idle", kind |-> "list", as |-> <<>>, srv |-> 0, token |-> NoSession,
              again |-> FALSE, answer |-> "none", rows |-> {}, seen |-> {}]
Fact == [srv : ServerNo, as : Identity, how : {"made", "gone"}]
PageRequest ==
  [at : {"idle", "waits", "drops", "token", "login", "keeps", "asks", "hears", "refused",
         "clears", "forgets", "unlists", "removes", "done"},
   kind : {"list", "deploy", "remove", "erase"}, as : Identity \cup {<<>>}, srv : ServerNo \cup {0},
   token : 0 .. MaxSession, again : BOOLEAN, answer : {"none", "ok", "refused", "failed"},
   rows : SUBSET ServerNo, seen : SUBSET Fact]

ControllerTypeOK ==
  /\ life \in [Name -> 0 .. MaxLives] /\ lives \in [Name -> 0 .. MaxLives]
  /\ tokens \in [Name -> 0 .. MaxSession]
  /\ lists \in [Name -> SUBSET SUBSET ServerNo] /\ \A n \in Name : Cardinality(lists[n]) <= 1
  /\ lock \subseteq Slot /\ Cardinality(lock) <= 1
  /\ req \in [Slot -> PageRequest]
  /\ work \subseteq [slot : Slot, kind : {"list", "deploy", "remove", "erase"}, as : Identity,
                     id : Identity, srv : ServerNo \cup {0}, rows : SUBSET ServerNo,
                     half : BOOLEAN, heard : BOOLEAN]
  /\ sessions \subseteq [token : 1 .. MaxSession, id : Identity] /\ opened \in 0 .. MaxSession
  /\ \A id \in Identity : Cardinality({x \in sessions : x.id = id}) <= OwnSessions
  /\ servers \subseteq [srv : ServerNo, owner : Identity] /\ made \in 0 .. MaxServer
  /\ told \subseteq Fact /\ upsets \in 0 .. MaxUpset

ControllerInit ==
  /\ life = [n \in Name |-> 1] /\ lives = life
  /\ tokens = [n \in Name |-> NoSession] /\ lists = [n \in Name |-> {}] /\ lock = {}
  /\ req = [r \in Slot |-> NoRequest] /\ work = {}
  /\ sessions = {} /\ opened = 0 /\ servers = {} /\ made = 0
  /\ told = {} /\ upsets = 0

-----------------------------------------------------------------------------
(* What a request is at.                                                   *)

Upset == upsets < MaxUpset /\ upsets' = upsets + 1

NameOf(r) == req[r].as[1]
Under(n) == {r \in Slot : req[r].at # "idle" /\ NameOf(r) = n}
OwnedBy(id) == {x.srv : x \in {y \in servers : y.owner = id}}

At(r, s) == [req EXCEPT ![r].at = s]
To(r, s) == req[r].at # "idle" /\ req' = At(r, s)
Answers(r, s, a) == [req EXCEPT ![r].at = s, ![r].answer = a]

\* Mutant of AfterChange: a change drops the list only before it is made.
AtOnce(r) == "done"

\* After a change, whatever its reply, the list is dropped again.
AfterChange(r) == "clears"

\* A reply, or none, has come back to the request.  Only a list is kept, and
\* what was erased at the index is forgotten here.
Replied(r, a, rows) ==
  CASE req[r].kind = "list" ->
         /\ req' = [Answers(r, "done", a) EXCEPT ![r].rows = rows]
         /\ lists' = [lists EXCEPT ![NameOf(r)] = IF a = "ok" THEN {rows} ELSE {}]
         /\ lock' = {}
    [] req[r].kind = "erase" ->
         req' = Answers(r, IF a = "ok" THEN "forgets" ELSE "done", a) /\ UNCHANGED <<lists, lock>>
    [] OTHER -> req' = Answers(r, AfterChange(r), a) /\ UNCHANGED <<lists, lock>>

-----------------------------------------------------------------------------
(* The page's requests.                                                    *)

\* create_with_role: a name that is free, with a salt of its own.
TakesName(n) ==
  /\ life[n] = 0 /\ lives[n] < MaxLives
  /\ lives' = [lives EXCEPT ![n] = @ + 1] /\ life' = [life EXCEPT ![n] = lives'[n]]
  /\ UNCHANGED <<tokens, lists, lock, req, told, indexVars, upsets>>

Starts(r, n, s, k, x) ==
  /\ req[r].at = "idle" /\ life[n] # 0
  /\ req' = [req EXCEPT ![r] = [NoRequest EXCEPT
               !.at = s, !.kind = k, !.as = <<n, life[n]>>, !.srv = x,
               !.seen = {f \in told : k = "list" /\ f.as = <<n, life[n]>>}]]
  /\ UNCHANGED <<life, lives, tokens, lists, lock, told, indexVars, upsets>>

\* controller_proxy, acting_for: as the account is now.
PageAsks(r, n) ==
  /\ Overlap \/ (\A q \in Under(n) : req[q].kind # "erase")
  /\ \/ Starts(r, n, "waits", "list", 0)
     \/ Starts(r, n, "drops", "deploy", 0)
     \/ \E x \in OwnedBy(<<n, life[n]>>) : Starts(r, n, "drops", "remove", x)

\* remove_account, which erases at the index before it removes.
Erases(r, n) ==
  /\ Overlap \/ (Under(n) = {} /\ \A j \in work : j.as[1] # n)
  /\ Starts(r, n, "token", "erase", 0)

\* forward_as of a list: the one kept, while it is fresh, or a new one, with
\* the lock held until it is there.
ListsOrAsks(r) ==
  /\ req[r].at = "waits" /\ lock = {}
  /\ \/ /\ \E rows \in lists[NameOf(r)] :
             req' = [req EXCEPT ![r].at = "done", ![r].answer = "ok", ![r].rows = rows]
        /\ UNCHANGED lock
     \/ lists[NameOf(r)] = {} /\ To(r, "token") /\ lock' = {r}
  /\ UNCHANGED <<life, lives, tokens, lists, told, indexVars, upsets>>

\* forward_as of a change, before and after it is made.
DropsList(r) ==
  /\ req[r].at \in {"drops", "clears"} /\ lock = {}
  /\ lists' = [lists EXCEPT ![NameOf(r)] = {}]
  /\ To(r, IF req[r].at = "drops" THEN "token" ELSE "done")
  /\ UNCHANGED <<life, lives, tokens, lock, told, indexVars, upsets>>

TokenOrLogin(r) ==
  /\ req[r].at = "token"
  /\ req' = LET t == tokens[NameOf(r)] IN
            [req EXCEPT ![r].at = IF t = NoSession THEN "login" ELSE "asks", ![r].token = t]
  /\ UNCHANGED <<life, lives, tokens, lists, lock, told, indexVars, upsets>>

OldestOf(S) == {x \in S : \A y \in S : x.token <= y.token}

\* login, and at the index verify: one past what an identity may hold ends its
\* oldest.
Login(r) ==
  LET own == {x \in sessions : x.id = req[r].as} IN
  /\ req[r].at = "login" /\ opened < MaxSession
  /\ opened' = opened + 1
  /\ sessions' = (sessions \ IF Cardinality(own) >= OwnSessions THEN OldestOf(own) ELSE {})
                   \cup {[token |-> opened', id |-> req[r].as]}
  /\ req' = [req EXCEPT ![r].at = "keeps", ![r].token = opened']
  /\ UNCHANGED <<life, lives, tokens, lists, lock, told, work, servers, made, upsets>>

\* The index is not reached, or is busy.
LoginFails(r) ==
  /\ Upset /\ req[r].at = "login" /\ Replied(r, "failed", {})
  /\ UNCHANGED <<life, lives, tokens, told, indexVars>>

KeepsToken(r) ==
  /\ req[r].at = "keeps" /\ To(r, "asks")
  /\ tokens' = [tokens EXCEPT ![NameOf(r)] = req[r].token]
  /\ UNCHANGED <<life, lives, lists, lock, told, indexVars, upsets>>

\* send.  The index knows the caller by its session alone.
Sends(r) ==
  /\ req[r].at = "asks"
  /\ LET known == {x \in sessions : x.token = req[r].token} IN
     /\ To(r, IF known = {} THEN "refused" ELSE "hears")
     /\ work' = work \cup {[slot |-> r, kind |-> req[r].kind, as |-> req[r].as, id |-> x.id,
                            srv |-> req[r].srv, rows |-> {}, half |-> FALSE, heard |-> TRUE] : x \in known}
  /\ UNCHANGED <<life, lives, tokens, lists, lock, told, sessions, opened, servers, made, upsets>>

\* Mutant of HearsRefusal: the refused session is kept, and so is tried again.
HearsRefusalKeeping(r) ==
  /\ req[r].at = "refused"
  /\ IF req[r].again THEN Replied(r, "refused", {}) ELSE
       /\ req' = [req EXCEPT ![r].at = "token", ![r].again = TRUE] /\ UNCHANGED <<lists, lock>>
  /\ UNCHANGED <<tokens, life, lives, told, indexVars, upsets>>

\* forward_now: once more after a fresh login, and no more.
HearsRefusal(r) ==
  /\ req[r].at = "refused"
  /\ IF req[r].again THEN Replied(r, "refused", {}) /\ UNCHANGED tokens
     ELSE /\ tokens' = [tokens EXCEPT ![NameOf(r)] = NoSession]
          /\ req' = [req EXCEPT ![r].at = "login", ![r].again = TRUE]
          /\ UNCHANGED <<lists, lock>>
  /\ UNCHANGED <<life, lives, told, indexVars, upsets>>

\* forget, and then the account's removal by its name.
Forgets(r) ==
  /\ req[r].at = "forgets" /\ To(r, "unlists")
  /\ tokens' = [tokens EXCEPT ![NameOf(r)] = NoSession]
  /\ UNCHANGED <<life, lives, lists, lock, told, indexVars, upsets>>

ForgetsList(r) ==
  /\ req[r].at = "unlists" /\ lock = {} /\ To(r, "removes")
  /\ lists' = [lists EXCEPT ![NameOf(r)] = {}]
  /\ UNCHANGED <<life, lives, tokens, lock, told, indexVars, upsets>>

RemovesAccount(r) ==
  /\ req[r].at = "removes" /\ To(r, "done")
  /\ life' = [life EXCEPT ![NameOf(r)] = 0]
  /\ UNCHANGED <<lives, tokens, lists, lock, told, indexVars, upsets>>

\* The page has the answer.
Answered(r) ==
  /\ req[r].at = "done"
  /\ told' = told \cup {f \in Fact : /\ req[r].answer = "ok" /\ f.as = req[r].as /\ f.srv = req[r].srv
                                     /\ \/ req[r].kind = "deploy" /\ f.how = "made"
                                        \/ req[r].kind = "remove" /\ f.how = "gone"}
  /\ req' = [req EXCEPT ![r] = NoRequest]
  /\ UNCHANGED <<life, lives, tokens, lists, lock, indexVars, upsets>>

-----------------------------------------------------------------------------
(* The index.                                                              *)

\* A piece of work ends, and whoever still waits hears how.
Finishes(j, a, rows) ==
  /\ work' = work \ {j}
  /\ IF j.heard THEN Replied(j.slot, a, rows) ELSE UNCHANGED <<req, lists, lock>>

\* What the index lists is on its way for a while.
DoesList(j) ==
  /\ j.kind = "list"
  /\ \/ /\ ~j.half
        /\ work' = (work \ {j}) \cup {[j EXCEPT !.half = TRUE, !.rows = OwnedBy(j.id)]}
        /\ UNCHANGED <<req, lists, lock>>
     \/ j.half /\ Finishes(j, "ok", j.rows)
  /\ UNCHANGED <<life, lives, tokens, told, sessions, opened, servers, made, upsets>>

DoesDeploy(j) ==
  /\ j.kind = "deploy" /\ made < MaxServer /\ made' = made + 1
  /\ servers' = servers \cup {[srv |-> made', owner |-> j.id]}
  /\ work' = work \ {j}
  /\ req' = IF j.heard THEN [Answers(j.slot, AfterChange(j.slot), "ok") EXCEPT ![j.slot].srv = made'] ELSE req
  /\ UNCHANGED <<life, lives, tokens, lists, lock, told, sessions, opened, upsets>>

DoesRemove(j) ==
  /\ j.kind = "remove" /\ servers' = servers \ {[srv |-> j.srv, owner |-> j.id]}
  /\ Finishes(j, IF j.srv \in OwnedBy(j.id) THEN "ok" ELSE "failed", {})
  /\ UNCHANGED <<life, lives, tokens, told, sessions, opened, made, upsets>>

\* erase_me: the servers, then the sessions.
DoesErase(j) ==
  /\ j.kind = "erase"
  /\ \/ /\ ~j.half /\ servers' = {x \in servers : x.owner # j.id}
        /\ work' = (work \ {j}) \cup {[j EXCEPT !.half = TRUE]}
        /\ UNCHANGED <<req, lists, lock, sessions>>
     \/ /\ j.half /\ sessions' = {x \in sessions : x.id # j.id}
        /\ Finishes(j, "ok", {}) /\ UNCHANGED servers
  /\ UNCHANGED <<life, lives, tokens, told, opened, made, upsets>>

\* The index cannot do it: a limit, a silent worker.  Of an erase it may have
\* done some.
DoesNot(j) ==
  /\ ~j.half /\ Finishes(j, "failed", {})
  /\ \E gone \in SUBSET {x \in servers : j.kind = "erase" /\ x.owner = j.id} :
       servers' = servers \ gone
  /\ UNCHANGED <<life, lives, tokens, told, sessions, opened, made, upsets>>

-----------------------------------------------------------------------------
(* What goes wrong, and what time does.                                    *)

\* LIST_FRESH has passed.
ListAges(n) ==
  /\ lists[n] # {} /\ lists' = [lists EXCEPT ![n] = {}]
  /\ UNCHANGED <<life, lives, tokens, lock, req, told, indexVars, upsets>>

Unheard(r) ==
  work' = {IF j.slot = r THEN [j EXCEPT !.heard = FALSE] ELSE j : j \in work}

\* The client's timeout, or the reply is lost.
GivesUp(r) ==
  /\ Upset /\ req[r].at = "hears" /\ Unheard(r) /\ Replied(r, "failed", {})
  /\ UNCHANGED <<life, lives, tokens, told, sessions, opened, servers, made>>

\* The page hangs up: the handler is dropped where it waits.
PageHangsUp(r) ==
  /\ Upset /\ req[r].at \notin {"idle", "done", "removes"} /\ Unheard(r)
  /\ req' = [req EXCEPT ![r] = NoRequest] /\ lock' = lock \ {r}
  /\ UNCHANGED <<life, lives, tokens, lists, told, sessions, opened, servers, made>>

\* DEFAULT_SESSION_TTL, or the index restarts.
SessionsEnd ==
  /\ Upset
  /\ \/ \E x \in sessions : sessions' = sessions \ {x}
     \/ work = {} /\ sessions # {} /\ sessions' = {}
  /\ UNCHANGED <<nodeVars, work, opened, servers, made>>

\* The node's agent restarts: its accounts are in a file, the rest is gone.
NodeRestarts ==
  /\ Upset
  /\ tokens' = [n \in Name |-> NoSession] /\ lists' = [n \in Name |-> {}] /\ lock' = {}
  /\ req' = [r \in Slot |-> NoRequest] /\ work' = {[j EXCEPT !.heard = FALSE] : j \in work}
  /\ UNCHANGED <<life, lives, told, sessions, opened, servers, made>>

-----------------------------------------------------------------------------

PageStep(r) ==
  \/ \E n \in Name : PageAsks(r, n) \/ Erases(r, n)
  \/ ListsOrAsks(r) \/ DropsList(r) \/ TokenOrLogin(r) \/ Login(r) \/ KeepsToken(r)
  \/ Sends(r) \/ HearsRefusal(r) \/ Forgets(r) \/ ForgetsList(r) \/ RemovesAccount(r) \/ Answered(r)
  \/ LoginFails(r) \/ GivesUp(r) \/ PageHangsUp(r)

IndexStep(j) == DoesList(j) \/ DoesDeploy(j) \/ DoesRemove(j) \/ DoesErase(j) \/ DoesNot(j)

ControllerNext ==
  \/ \E r \in Slot : PageStep(r)
  \/ \E j \in work : IndexStep(j)
  \/ \E n \in Name : TakesName(n) \/ ListAges(n)
  \/ SessionsEnd \/ NodeRestarts

ControllerSpec == ControllerInit /\ [][ControllerNext]_controllerVars

-----------------------------------------------------------------------------
(* What has to hold.                                                       *)

\* "The list a page sees next includes the change" (forward_as): whoever asks
\* for a list after a deploy or a removal was answered is shown it, whichever
\* request fetched the list and however many share it.
NextListHasChange ==
  \A r \in Slot : req[r].at = "done" /\ req[r].kind = "list" /\ req[r].answer = "ok" =>
    \A f \in req[r].seen :
      IF f.how = "gone" THEN f.srv \notin req[r].rows
      ELSE f.srv \in req[r].rows \/ f.srv \notin OwnedBy(f.as)

\* A session that ended is no refusal for the page: it is "retried once after a
\* fresh login" (forward_now), and that login stands until the retry.  So while
\* one thing goes wrong: only as many later logins of the account as it may hold
\* sessions can end it before.
NotRefused ==
  ~Overlap /\ Cardinality(Slot) <= OwnSessions /\ upsets <= 1 =>
    \A r \in Slot : req[r].answer = "refused" => opened >= req[r].token + OwnSessions

\* A removed account leaves no server behind: "its servers are never left
\* running with nobody able to reach them" (remove_account, api.rs).  So when
\* nothing of the account's was under way (Overlap).
NoneLeftRunning == \A x \in servers : life[x.owner[1]] = x.owner[2]

\* An account acts at the index as itself, not as one that had its name before
\* (accounts.rs, key_salt).
ActsAsItself == \A j \in work : j.id = j.as

=============================================================================
