--------------------------- MODULE ControllerProofs ---------------------------
(***************************************************************************)
(* Theorems about Controller: what a node's page is shown and refused, for *)
(* any accounts, requests and sessions.                                    *)
(*                                                                         *)
(* A step is first said field by field, without the EXCEPTs of the         *)
(* specification (Goes, Begins, Ends, Deafened), so that each later proof  *)
(* looks at one field.  PageInv is the invariant.  Its first half holds    *)
(* of every behaviour: where a request of a kind can be (PathInv), who has *)
(* the lists' lock (LockInv), what a request hears of (HearsInv), whose a  *)
(* session's token is (SessionsInv), and that no number is given twice     *)
(* (ServersInv).  The second holds while no account is removed under its   *)
(* requests: a life of a name ends when nothing of it is under way         *)
(* (LifeInv), so a session and a piece of work are of the identity they    *)
(* are for (SelfInv), a list that is kept or under way has every change    *)
(* that was answered (ListsInv), and a server has an owner (OwnersInv).    *)
(*                                                                         *)
(* That a request is not refused needs an invariant of its own, RetryInv,  *)
(* about what sessions may yet end.                                        *)
(***************************************************************************)
EXTENDS Controller, FiniteSetTheorems, TLAPS

\* What the index is doing for a request.
Job == [slot : Slot, kind : {"list", "deploy", "remove", "erase"}, as : Identity,
        id : Identity, srv : ServerNo \cup {0}, rows : SUBSET ServerNo,
        half : BOOLEAN, heard : BOOLEAN]

\* ControllerTypeOK without what it counts.
PageTypes ==
  /\ life \in [Name -> 0 .. MaxLives] /\ lives \in [Name -> 0 .. MaxLives]
  /\ tokens \in [Name -> 0 .. MaxSession]
  /\ lists \in [Name -> SUBSET SUBSET ServerNo] /\ lock \in SUBSET Slot
  /\ req \in [Slot -> PageRequest]
  /\ work \subseteq Job
  /\ sessions \subseteq [token : 1 .. MaxSession, id : Identity] /\ opened \in 0 .. MaxSession
  /\ servers \subseteq [srv : ServerNo, owner : Identity] /\ made \in 0 .. MaxServer
  /\ told \subseteq Fact

\* Where a request is on its way to the index and back.
Asking == {"token", "login", "keeps", "asks", "hears", "refused"}
\* The identity of the account that has the name.
Now(n) == <<n, life[n]>>

\* Where a request of a kind can be, and what is known of it there.
PathOf(q) ==
  /\ q.at = "idle" \/ q.as \in Identity
  /\ q.kind = "list" => q.at \in Asking \cup {"idle", "waits", "done"}
  /\ q.kind \in {"deploy", "remove"} => q.at \in Asking \cup {"drops", "clears", "done"}
  /\ q.kind = "erase" => q.at \in Asking \cup {"forgets", "unlists", "removes", "done"}
  /\ q.at = "idle" => q.kind = "list"
  /\ q.at \in Asking \cup {"waits", "drops", "idle"} => q.answer = "none"
PathInv == \A r \in Slot : PathOf(req[r])

\* A request that asks for a list has the lock.
LockInv == \A r \in Slot : req[r].kind = "list" /\ req[r].at \in Asking => lock = {r}

\* What a request hears of is its own, and one thing.
HearsInv ==
  /\ \A j \in work : j.heard =>
       /\ req[j.slot].at = "hears" /\ req[j.slot].kind = j.kind
       /\ req[j.slot].as = j.as /\ req[j.slot].srv = j.srv
  /\ \A j, k \in work : j.heard /\ k.heard /\ j.slot = k.slot => j = k

\* A session's token is its own.
SessionsInv ==
  /\ \A x, y \in sessions : x.token = y.token => x = y
  /\ \A x \in sessions : x.token <= opened

\* A life of a name ends when nothing is under way but its removal.
Current(r) == req[r].at # "idle" /\ ~(req[r].kind = "erase" /\ req[r].at = "done")
Ending(r) == req[r].kind = "erase" /\ req[r].at # "done"
LifeInv ==
  /\ \A r \in Slot : Current(r) => req[r].as = Now(NameOf(r)) /\ life[NameOf(r)] # 0
  /\ \A r, q \in Slot : req[r].kind = "erase" /\ req[q].at # "idle" /\ NameOf(q) = NameOf(r) => q = r
  /\ \A j \in work : j.as = Now(j.as[1]) /\ life[j.as[1]] # 0
  /\ \A r \in Slot, j \in work : Ending(r) /\ j.as[1] = NameOf(r) =>
       req[r].at = "hears" /\ j.heard /\ j.slot = r
  /\ \A r \in Slot : req[r].kind = "erase" /\ req[r].at \in {"unlists", "removes"} => tokens[NameOf(r)] = NoSession
  /\ \A r \in Slot : req[r].kind = "erase" /\ req[r].at = "removes" => lists[NameOf(r)] = {}
  /\ \A n \in Name : life[n] = 0 => tokens[n] = NoSession /\ lists[n] = {}

\* A session is of the identity that it is kept or used for.
SelfInv ==
  /\ \A x \in sessions : x.token <= opened
  /\ \A n \in Name : tokens[n] <= opened
  /\ \A r \in Slot : req[r].token <= opened
  /\ \A n \in Name, x \in sessions : x.token = tokens[n] => x.id = Now(n)
  /\ \A r \in Slot, x \in sessions : req[r].at \in {"keeps", "asks"} /\ x.token = req[r].token => x.id = req[r].as
  /\ \A j \in work : j.id = j.as

\* What a request will have been told; what has been, or has to be shown all the same;
\* and a list that shows it.
Earned(r) ==
  {f \in Fact : /\ req[r].answer = "ok" /\ f.as = req[r].as /\ f.srv = req[r].srv
                /\ \/ req[r].kind = "deploy" /\ f.how = "made"
                   \/ req[r].kind = "remove" /\ f.how = "gone"}
Settled(f) == f \in told \/ \E r \in Slot : req[r].at = "done" /\ f \in Earned(r)
Has(rows, f) == IF f.how = "gone" THEN f.srv \notin rows
                ELSE f.srv \in rows \/ f.srv \notin OwnedBy(f.as)

\* A server has one number, one owner and is not made again.
ServersInv ==
  /\ \A x, y \in servers : x.srv = y.srv => x = y
  /\ \A x \in servers : x.srv <= made
  /\ \A f \in Fact : f \in told \/ (\E r \in Slot : f \in Earned(r)) =>
       /\ f.srv <= made
       /\ f.how = "gone" => \A x \in servers : x.srv # f.srv

\* What was answered is in every list that is kept, and in the lists under way.
ListsInv ==
  /\ \A f \in Fact : Settled(f) =>
      /\ \A n \in Name : f.as = Now(n) => \A rows \in lists[n] : Has(rows, f)
      /\ \A j \in work : j.kind = "list" /\ j.half /\ j.heard /\ j.as = f.as => Has(j.rows, f)
  /\ \A r \in Slot : \A f \in req[r].seen : f \in told /\ f.as = req[r].as

-----------------------------------------------------------------------------
\* A request is at one of these.
Places == {"idle", "waits", "drops", "token", "login", "keeps", "asks", "hears", "refused",
           "clears", "forgets", "unlists", "removes", "done"}

\* Request r is at s next, with this server, session, answer and list; what it
\* asks, for whom and what it has to be shown stay, and so do the others.
Goes(r, s, x, t, a, w) ==
  /\ req' \in [Slot -> PageRequest] /\ \A q \in Slot : q # r => req'[q] = req[q]
  /\ req'[r].at = s /\ req'[r].kind = req[r].kind /\ req'[r].as = req[r].as
  /\ req'[r].seen = req[r].seen
  /\ req'[r].srv = x /\ req'[r].token = t /\ req'[r].answer = a /\ req'[r].rows = w

\* One field of a request changes: the others stay, and it is a request.
LEMMA FieldAt ==
  ASSUME NEW q \in PageRequest, NEW s \in Places, NEW e, e = [q EXCEPT !.at = s]
  PROVE  /\ e \in PageRequest /\ e.at = s /\ e.kind = q.kind /\ e.as = q.as /\ e.seen = q.seen
         /\ e.srv = q.srv /\ e.token = q.token /\ e.answer = q.answer /\ e.rows = q.rows
BY DEF PageRequest, Places

LEMMA FieldAnswer ==
  ASSUME NEW q \in PageRequest, NEW a \in {"none", "ok", "refused", "failed"}, NEW e, e = [q EXCEPT !.answer = a]
  PROVE  /\ e \in PageRequest /\ e.at = q.at /\ e.kind = q.kind /\ e.as = q.as /\ e.seen = q.seen
         /\ e.srv = q.srv /\ e.token = q.token /\ e.answer = a /\ e.rows = q.rows
BY DEF PageRequest, Places

LEMMA FieldRows ==
  ASSUME NEW q \in PageRequest, NEW w \in SUBSET ServerNo, NEW e, e = [q EXCEPT !.rows = w]
  PROVE  /\ e \in PageRequest /\ e.at = q.at /\ e.kind = q.kind /\ e.as = q.as /\ e.seen = q.seen
         /\ e.srv = q.srv /\ e.token = q.token /\ e.answer = q.answer /\ e.rows = w
BY DEF PageRequest, Places

LEMMA FieldSrv ==
  ASSUME NEW q \in PageRequest, NEW x \in ServerNo, NEW e, e = [q EXCEPT !.srv = x]
  PROVE  /\ e \in PageRequest /\ e.at = q.at /\ e.kind = q.kind /\ e.as = q.as /\ e.seen = q.seen
         /\ e.srv = x /\ e.token = q.token /\ e.answer = q.answer /\ e.rows = q.rows
BY DEF PageRequest, Places

LEMMA FieldToken ==
  ASSUME NEW q \in PageRequest, NEW t \in 0 .. MaxSession, NEW e, e = [q EXCEPT !.token = t]
  PROVE  /\ e \in PageRequest /\ e.at = q.at /\ e.kind = q.kind /\ e.as = q.as /\ e.seen = q.seen
         /\ e.srv = q.srv /\ e.token = t /\ e.answer = q.answer /\ e.rows = q.rows
BY DEF PageRequest, Places

LEMMA FieldAgain ==
  ASSUME NEW q \in PageRequest, NEW e, e = [q EXCEPT !.again = TRUE]
  PROVE  /\ e \in PageRequest /\ e.at = q.at /\ e.kind = q.kind /\ e.as = q.as /\ e.seen = q.seen
         /\ e.srv = q.srv /\ e.token = q.token /\ e.answer = q.answer /\ e.rows = q.rows
BY DEF PageRequest, Places

\* The steps of the specification, field by field.
LEMMA GoesAt ==
  ASSUME PageTypes, NEW r \in Slot, NEW s \in Places,
         req' = At(r, s)
  PROVE  Goes(r, s, req[r].srv, req[r].token, req[r].answer, req[r].rows)
<1> DEFINE g == [req EXCEPT ![r].at = s]
<1>1. req \in [Slot -> PageRequest] /\ req[r] \in PageRequest
  BY DEF PageTypes
<1>2. req' = g
  BY DEF At
<1>3. /\ g \in [Slot -> PageRequest] /\ g[r] = [req[r] EXCEPT !.at = s]
      /\ \A q \in Slot : q # r => g[q] = req[q]
  <2>1. [req[r] EXCEPT !.at = s] \in PageRequest
    BY <1>1, FieldAt
  <2> QED
    BY <1>1, <2>1
<1> HIDE DEF g
<1>4. /\ g[r] \in PageRequest /\ g[r].at = s /\ g[r].kind = req[r].kind /\ g[r].as = req[r].as /\ g[r].seen = req[r].seen
      /\ g[r].srv = req[r].srv /\ g[r].token = req[r].token /\ g[r].answer = req[r].answer /\ g[r].rows = req[r].rows
      /\ \A q \in Slot : q # r => g[q] = req[q]
  BY <1>1, <1>3, FieldAt
<1> QED
  BY <1>2, <1>3, <1>4 DEF Goes

LEMMA GoesAnswered ==
  ASSUME PageTypes, NEW r \in Slot, NEW s \in Places, NEW a \in {"none", "ok", "refused", "failed"},
         req' = Answers(r, s, a)
  PROVE  Goes(r, s, req[r].srv, req[r].token, a, req[r].rows)
<1> DEFINE g == [req EXCEPT ![r].at = s]
           h == [g EXCEPT ![r].answer = a]
<1>1. req \in [Slot -> PageRequest] /\ req[r] \in PageRequest
  BY DEF PageTypes
<1>2. req' = h
  BY DEF Answers
<1>3. /\ g \in [Slot -> PageRequest] /\ g[r] = [req[r] EXCEPT !.at = s]
      /\ \A q \in Slot : q # r => g[q] = req[q]
  <2>1. [req[r] EXCEPT !.at = s] \in PageRequest
    BY <1>1, FieldAt
  <2> QED
    BY <1>1, <2>1
<1> HIDE DEF g
<1>4. /\ g[r] \in PageRequest /\ g[r].at = s /\ g[r].kind = req[r].kind /\ g[r].as = req[r].as /\ g[r].seen = req[r].seen
      /\ g[r].srv = req[r].srv /\ g[r].token = req[r].token /\ g[r].answer = req[r].answer /\ g[r].rows = req[r].rows
      /\ \A q \in Slot : q # r => g[q] = req[q]
  BY <1>1, <1>3, FieldAt
<1>5. /\ h \in [Slot -> PageRequest] /\ h[r] = [g[r] EXCEPT !.answer = a]
      /\ \A q \in Slot : q # r => h[q] = g[q]
  <2>1. [g[r] EXCEPT !.answer = a] \in PageRequest
    BY <1>3, <1>4, FieldAnswer
  <2> QED
    BY <1>3, <1>4, <2>1
<1> HIDE DEF h
<1>6. /\ h[r] \in PageRequest /\ h[r].at = s /\ h[r].kind = req[r].kind /\ h[r].as = req[r].as /\ h[r].seen = req[r].seen
      /\ h[r].srv = req[r].srv /\ h[r].token = req[r].token /\ h[r].answer = a /\ h[r].rows = req[r].rows
      /\ \A q \in Slot : q # r => h[q] = req[q]
  BY <1>3, <1>4, <1>5, FieldAnswer
<1> QED
  BY <1>2, <1>5, <1>6 DEF Goes

LEMMA GoesListed ==
  ASSUME PageTypes, NEW r \in Slot, NEW s \in Places, NEW a \in {"none", "ok", "refused", "failed"},
         NEW w \in SUBSET ServerNo,
         req' = [Answers(r, s, a) EXCEPT ![r].rows = w]
  PROVE  Goes(r, s, req[r].srv, req[r].token, a, w)
<1> DEFINE g == [req EXCEPT ![r].at = s]
           h == [g EXCEPT ![r].answer = a]
           k == [h EXCEPT ![r].rows = w]
<1>1. req \in [Slot -> PageRequest] /\ req[r] \in PageRequest
  BY DEF PageTypes
<1>2. req' = k
  BY DEF Answers
<1>3. /\ g \in [Slot -> PageRequest] /\ g[r] = [req[r] EXCEPT !.at = s]
      /\ \A q \in Slot : q # r => g[q] = req[q]
  <2>1. [req[r] EXCEPT !.at = s] \in PageRequest
    BY <1>1, FieldAt
  <2> QED
    BY <1>1, <2>1
<1> HIDE DEF g
<1>4. /\ g[r] \in PageRequest /\ g[r].at = s /\ g[r].kind = req[r].kind /\ g[r].as = req[r].as /\ g[r].seen = req[r].seen
      /\ g[r].srv = req[r].srv /\ g[r].token = req[r].token /\ g[r].answer = req[r].answer /\ g[r].rows = req[r].rows
      /\ \A q \in Slot : q # r => g[q] = req[q]
  BY <1>1, <1>3, FieldAt
<1>5. /\ h \in [Slot -> PageRequest] /\ h[r] = [g[r] EXCEPT !.answer = a]
      /\ \A q \in Slot : q # r => h[q] = g[q]
  <2>1. [g[r] EXCEPT !.answer = a] \in PageRequest
    BY <1>3, <1>4, FieldAnswer
  <2> QED
    BY <1>3, <1>4, <2>1
<1> HIDE DEF h
<1>6. /\ h[r] \in PageRequest /\ h[r].at = s /\ h[r].kind = req[r].kind /\ h[r].as = req[r].as /\ h[r].seen = req[r].seen
      /\ h[r].srv = req[r].srv /\ h[r].token = req[r].token /\ h[r].answer = a /\ h[r].rows = req[r].rows
      /\ \A q \in Slot : q # r => h[q] = req[q]
  BY <1>3, <1>4, <1>5, FieldAnswer
<1>7. /\ k \in [Slot -> PageRequest] /\ k[r] = [h[r] EXCEPT !.rows = w]
      /\ \A q \in Slot : q # r => k[q] = h[q]
  <2>1. [h[r] EXCEPT !.rows = w] \in PageRequest
    BY <1>5, <1>6, FieldRows
  <2> QED
    BY <1>5, <1>6, <2>1
<1> HIDE DEF k
<1>8. /\ k[r] \in PageRequest /\ k[r].at = s /\ k[r].kind = req[r].kind /\ k[r].as = req[r].as /\ k[r].seen = req[r].seen
      /\ k[r].srv = req[r].srv /\ k[r].token = req[r].token /\ k[r].answer = a /\ k[r].rows = w
      /\ \A q \in Slot : q # r => k[q] = req[q]
  BY <1>5, <1>6, <1>7, FieldRows
<1> QED
  BY <1>2, <1>7, <1>8 DEF Goes

LEMMA GoesMade ==
  ASSUME PageTypes, NEW r \in Slot, NEW s \in Places, NEW a \in {"none", "ok", "refused", "failed"},
         NEW x \in ServerNo,
         req' = [Answers(r, s, a) EXCEPT ![r].srv = x]
  PROVE  Goes(r, s, x, req[r].token, a, req[r].rows)
<1> DEFINE g == [req EXCEPT ![r].at = s]
           h == [g EXCEPT ![r].answer = a]
           k == [h EXCEPT ![r].srv = x]
<1>1. req \in [Slot -> PageRequest] /\ req[r] \in PageRequest
  BY DEF PageTypes
<1>2. req' = k
  BY DEF Answers
<1>3. /\ g \in [Slot -> PageRequest] /\ g[r] = [req[r] EXCEPT !.at = s]
      /\ \A q \in Slot : q # r => g[q] = req[q]
  <2>1. [req[r] EXCEPT !.at = s] \in PageRequest
    BY <1>1, FieldAt
  <2> QED
    BY <1>1, <2>1
<1> HIDE DEF g
<1>4. /\ g[r] \in PageRequest /\ g[r].at = s /\ g[r].kind = req[r].kind /\ g[r].as = req[r].as /\ g[r].seen = req[r].seen
      /\ g[r].srv = req[r].srv /\ g[r].token = req[r].token /\ g[r].answer = req[r].answer /\ g[r].rows = req[r].rows
      /\ \A q \in Slot : q # r => g[q] = req[q]
  BY <1>1, <1>3, FieldAt
<1>5. /\ h \in [Slot -> PageRequest] /\ h[r] = [g[r] EXCEPT !.answer = a]
      /\ \A q \in Slot : q # r => h[q] = g[q]
  <2>1. [g[r] EXCEPT !.answer = a] \in PageRequest
    BY <1>3, <1>4, FieldAnswer
  <2> QED
    BY <1>3, <1>4, <2>1
<1> HIDE DEF h
<1>6. /\ h[r] \in PageRequest /\ h[r].at = s /\ h[r].kind = req[r].kind /\ h[r].as = req[r].as /\ h[r].seen = req[r].seen
      /\ h[r].srv = req[r].srv /\ h[r].token = req[r].token /\ h[r].answer = a /\ h[r].rows = req[r].rows
      /\ \A q \in Slot : q # r => h[q] = req[q]
  BY <1>3, <1>4, <1>5, FieldAnswer
<1>7. /\ k \in [Slot -> PageRequest] /\ k[r] = [h[r] EXCEPT !.srv = x]
      /\ \A q \in Slot : q # r => k[q] = h[q]
  <2>1. [h[r] EXCEPT !.srv = x] \in PageRequest
    BY <1>5, <1>6, FieldSrv
  <2> QED
    BY <1>5, <1>6, <2>1
<1> HIDE DEF k
<1>8. /\ k[r] \in PageRequest /\ k[r].at = s /\ k[r].kind = req[r].kind /\ k[r].as = req[r].as /\ k[r].seen = req[r].seen
      /\ k[r].srv = x /\ k[r].token = req[r].token /\ k[r].answer = a /\ k[r].rows = req[r].rows
      /\ \A q \in Slot : q # r => k[q] = req[q]
  BY <1>5, <1>6, <1>7, FieldSrv
<1> QED
  BY <1>2, <1>7, <1>8 DEF Goes

LEMMA GoesWithToken ==
  ASSUME PageTypes, NEW r \in Slot, NEW s \in Places, NEW t \in 0 .. MaxSession,
         req' = [req EXCEPT ![r].at = s, ![r].token = t]
  PROVE  Goes(r, s, req[r].srv, t, req[r].answer, req[r].rows)
<1> DEFINE g == [req EXCEPT ![r].at = s]
           h == [g EXCEPT ![r].token = t]
<1>1. req \in [Slot -> PageRequest] /\ req[r] \in PageRequest
  BY DEF PageTypes
<1>2. req' = h
  OBVIOUS
<1>3. /\ g \in [Slot -> PageRequest] /\ g[r] = [req[r] EXCEPT !.at = s]
      /\ \A q \in Slot : q # r => g[q] = req[q]
  <2>1. [req[r] EXCEPT !.at = s] \in PageRequest
    BY <1>1, FieldAt
  <2> QED
    BY <1>1, <2>1
<1> HIDE DEF g
<1>4. /\ g[r] \in PageRequest /\ g[r].at = s /\ g[r].kind = req[r].kind /\ g[r].as = req[r].as /\ g[r].seen = req[r].seen
      /\ g[r].srv = req[r].srv /\ g[r].token = req[r].token /\ g[r].answer = req[r].answer /\ g[r].rows = req[r].rows
      /\ \A q \in Slot : q # r => g[q] = req[q]
  BY <1>1, <1>3, FieldAt
<1>5. /\ h \in [Slot -> PageRequest] /\ h[r] = [g[r] EXCEPT !.token = t]
      /\ \A q \in Slot : q # r => h[q] = g[q]
  <2>1. [g[r] EXCEPT !.token = t] \in PageRequest
    BY <1>3, <1>4, FieldToken
  <2> QED
    BY <1>3, <1>4, <2>1
<1> HIDE DEF h
<1>6. /\ h[r] \in PageRequest /\ h[r].at = s /\ h[r].kind = req[r].kind /\ h[r].as = req[r].as /\ h[r].seen = req[r].seen
      /\ h[r].srv = req[r].srv /\ h[r].token = t /\ h[r].answer = req[r].answer /\ h[r].rows = req[r].rows
      /\ \A q \in Slot : q # r => h[q] = req[q]
  BY <1>3, <1>4, <1>5, FieldToken
<1> QED
  BY <1>2, <1>5, <1>6 DEF Goes

LEMMA GoesAgain ==
  ASSUME PageTypes, NEW r \in Slot, NEW s \in Places,
         req' = [req EXCEPT ![r].at = s, ![r].again = TRUE]
  PROVE  Goes(r, s, req[r].srv, req[r].token, req[r].answer, req[r].rows)
<1> DEFINE g == [req EXCEPT ![r].at = s]
           h == [g EXCEPT ![r].again = TRUE]
<1>1. req \in [Slot -> PageRequest] /\ req[r] \in PageRequest
  BY DEF PageTypes
<1>2. req' = h
  OBVIOUS
<1>3. /\ g \in [Slot -> PageRequest] /\ g[r] = [req[r] EXCEPT !.at = s]
      /\ \A q \in Slot : q # r => g[q] = req[q]
  <2>1. [req[r] EXCEPT !.at = s] \in PageRequest
    BY <1>1, FieldAt
  <2> QED
    BY <1>1, <2>1
<1> HIDE DEF g
<1>4. /\ g[r] \in PageRequest /\ g[r].at = s /\ g[r].kind = req[r].kind /\ g[r].as = req[r].as /\ g[r].seen = req[r].seen
      /\ g[r].srv = req[r].srv /\ g[r].token = req[r].token /\ g[r].answer = req[r].answer /\ g[r].rows = req[r].rows
      /\ \A q \in Slot : q # r => g[q] = req[q]
  BY <1>1, <1>3, FieldAt
<1>5. /\ h \in [Slot -> PageRequest] /\ h[r] = [g[r] EXCEPT !.again = TRUE]
      /\ \A q \in Slot : q # r => h[q] = g[q]
  <2>1. [g[r] EXCEPT !.again = TRUE] \in PageRequest
    BY <1>3, <1>4, FieldAgain
  <2> QED
    BY <1>3, <1>4, <2>1
<1> HIDE DEF h
<1>6. /\ h[r] \in PageRequest /\ h[r].at = s /\ h[r].kind = req[r].kind /\ h[r].as = req[r].as /\ h[r].seen = req[r].seen
      /\ h[r].srv = req[r].srv /\ h[r].token = req[r].token /\ h[r].answer = req[r].answer /\ h[r].rows = req[r].rows
      /\ \A q \in Slot : q # r => h[q] = req[q]
  BY <1>3, <1>4, <1>5, FieldAgain
<1> QED
  BY <1>2, <1>5, <1>6 DEF Goes

\* What becomes of a request that a reply has come back to.
LEMMA GoesReplied ==
  ASSUME PageTypes, NEW r \in Slot, NEW a \in {"ok", "refused", "failed"}, NEW w \in SUBSET ServerNo,
         Replied(r, a, w)
  PROVE  /\ req[r].kind = "list" =>
              /\ Goes(r, "done", req[r].srv, req[r].token, a, w) /\ lock' = {}
              /\ lists' = [lists EXCEPT ![NameOf(r)] = IF a = "ok" THEN {w} ELSE {}]
         /\ req[r].kind = "erase" =>
              /\ Goes(r, IF a = "ok" THEN "forgets" ELSE "done", req[r].srv, req[r].token, a, req[r].rows)
              /\ UNCHANGED <<lists, lock>>
         /\ req[r].kind \in {"deploy", "remove"} =>
              /\ Goes(r, "clears", req[r].srv, req[r].token, a, req[r].rows) /\ UNCHANGED <<lists, lock>>
         /\ req[r].kind \in {"list", "deploy", "remove", "erase"}
<1>1. req[r].kind \in {"list", "deploy", "remove", "erase"}
  BY DEF PageTypes, PageRequest
<1>2. CASE req[r].kind = "list"
  <2>1. /\ req' = [Answers(r, "done", a) EXCEPT ![r].rows = w] /\ lock' = {}
        /\ lists' = [lists EXCEPT ![NameOf(r)] = IF a = "ok" THEN {w} ELSE {}]
    BY <1>2 DEF Replied
  <2>2. Goes(r, "done", req[r].srv, req[r].token, a, w)
    BY <2>1, GoesListed DEF Places
  <2> QED
    BY <1>2, <2>1, <2>2
<1>3. CASE req[r].kind = "erase"
  <2> DEFINE s == IF a = "ok" THEN "forgets" ELSE "done"
  <2>1. req' = Answers(r, s, a) /\ UNCHANGED <<lists, lock>>
    BY <1>3 DEF Replied
  <2>2. s \in Places
    BY DEF Places
  <2> HIDE DEF s
  <2>3. Goes(r, s, req[r].srv, req[r].token, a, req[r].rows)
    BY <2>1, <2>2, GoesAnswered
  <2> QED
    BY <1>3, <2>1, <2>3 DEF s
<1>4. CASE req[r].kind \in {"deploy", "remove"}
  <2>1. req' = Answers(r, "clears", a) /\ UNCHANGED <<lists, lock>>
    BY <1>4 DEF Replied, AfterChange
  <2>2. Goes(r, "clears", req[r].srv, req[r].token, a, req[r].rows)
    BY <2>1, GoesAnswered DEF Places
  <2> QED
    BY <1>4, <2>1, <2>2
<1> QED
  BY <1>1, <1>2, <1>3, <1>4

\* A request that begins.
Begins(r, n, s, k, x) ==
  /\ req' \in [Slot -> PageRequest] /\ \A q \in Slot : q # r => req'[q] = req[q]
  /\ req'[r].at = s /\ req'[r].kind = k /\ req'[r].as = Now(n) /\ req'[r].srv = x
  /\ req'[r].token = NoSession /\ req'[r].answer = "none" /\ req'[r].rows = {} /\ ~req'[r].again
  /\ req'[r].seen = {f \in told : k = "list" /\ f.as = Now(n)}
  /\ Now(n) \in Identity /\ Now(n)[1] = n /\ life[n] # 0 /\ req[r].at = "idle"

\* A request that starts begins there.
LEMMA StartsBegins ==
  ASSUME PageTypes, NEW r \in Slot, NEW n \in Name, NEW s \in Places,
         NEW k \in {"list", "deploy", "remove", "erase"}, NEW x \in ServerNo \cup {0}, Starts(r, n, s, k, x)
  PROVE  Begins(r, n, s, k, x)
<1> DEFINE S == {f \in told : k = "list" /\ f.as = <<n, life[n]>>}
           me == <<n, life[n]>>
           e == [NoRequest EXCEPT !.at = s, !.kind = k, !.as = me, !.srv = x, !.seen = S]
<1>1. life[n] \in 1 .. MaxLives /\ Now(n) \in Identity /\ Now(n)[1] = n
  BY ControllerAssumption DEF PageTypes, Starts, Identity, Now
<1>2. S \subseteq Fact /\ S = {f \in told : k = "list" /\ f.as = Now(n)} /\ me = Now(n)
  BY DEF PageTypes, Now
<1>3. req' = [req EXCEPT ![r] = e] /\ life[n] # 0 /\ req[r].at = "idle"
  BY DEF Starts
<1> HIDE DEF S, me
<1>0. e = [NoRequest EXCEPT !.at = s, !.kind = k, !.as = me, !.srv = x, !.seen = S]
  OBVIOUS
<1> HIDE DEF e
<1>4. /\ e = [at |-> e.at, kind |-> e.kind, as |-> e.as, srv |-> e.srv, token |-> e.token,
               again |-> e.again, answer |-> e.answer, rows |-> e.rows, seen |-> e.seen]
      /\ e.at = s /\ e.kind = k /\ e.as = me /\ e.srv = x /\ e.token = NoSession
      /\ e.again = FALSE /\ e.answer = "none" /\ e.rows = {} /\ e.seen = S
  BY <1>0 DEF NoRequest
<1>5. 0 \in 0 .. MaxSession
  BY ControllerAssumption
<1>6. e \in PageRequest
  BY <1>1, <1>2, <1>4, <1>5 DEF PageRequest, Places, NoSession
<1>8. req' \in [Slot -> PageRequest] /\ req'[r] = e /\ \A q \in Slot : q # r => req'[q] = req[q]
  BY <1>3, <1>6 DEF PageTypes
<1> QED
  BY <1>1, <1>2, <1>3, <1>4, <1>8 DEF Begins

\* A request that is over: the others stay.
Ends(r) ==
  /\ req' \in [Slot -> PageRequest] /\ req'[r] = NoRequest
  /\ \A q \in Slot : q # r => req'[q] = req[q]

\* What is known of no request.
LEMMA NoneUnderWay ==
  /\ NoRequest \in PageRequest /\ NoRequest.at = "idle" /\ NoRequest.kind = "list"
  /\ NoRequest.token = NoSession /\ NoRequest.answer = "none" /\ NoRequest.seen = {}
<1>1. 0 \in 0 .. MaxSession
  BY ControllerAssumption
<1> QED
  BY <1>1 DEF NoRequest, PageRequest, NoSession

\* A request that is reset is over.
LEMMA EndsThere ==
  ASSUME PageTypes, NEW r \in Slot, req' = [req EXCEPT ![r] = NoRequest]
  PROVE  Ends(r)
BY NoneUnderWay DEF PageTypes, Ends

\* What is left of the index's work for those who no longer hear of it: what
\* is still heard is unchanged.
Deafened(S) ==
  \A k \in work' : \E j \in work :
    /\ k.slot = j.slot /\ k.kind = j.kind /\ k.as = j.as /\ k.id = j.id /\ k.srv = j.srv
    /\ k.rows = j.rows /\ k.half = j.half /\ k \in Job
    /\ (k.heard => j.slot \notin S) /\ (j.slot \notin S => k = j)

\* Who hangs up no longer hears of its work; nobody does after a restart.
LEMMA UnheardDeafens ==
  ASSUME PageTypes, NEW r \in Slot, Unheard(r)
  PROVE  Deafened({r})
<1>1. \A j \in work : LET k == [j EXCEPT !.heard = FALSE] IN
        /\ k.slot = j.slot /\ k.kind = j.kind /\ k.as = j.as /\ k.id = j.id /\ k.srv = j.srv
        /\ k.rows = j.rows /\ k.half = j.half /\ k \in Job /\ ~k.heard
  BY DEF PageTypes, Job
<1>2. \A k \in work' : \E j \in work : k = IF j.slot = r THEN [j EXCEPT !.heard = FALSE] ELSE j
  BY DEF Unheard
<1>4. work \subseteq Job
  BY DEF PageTypes
<1>5. ASSUME NEW k \in work'
      PROVE  \E j \in work :
               /\ k.slot = j.slot /\ k.kind = j.kind /\ k.as = j.as /\ k.id = j.id /\ k.srv = j.srv
               /\ k.rows = j.rows /\ k.half = j.half /\ k \in Job
               /\ (k.heard => j.slot \notin {r}) /\ (j.slot \notin {r} => k = j)
  <2>1. PICK j \in work : k = IF j.slot = r THEN [j EXCEPT !.heard = FALSE] ELSE j
    BY <1>2
  <2>2. CASE j.slot = r
    <3>1. k = [j EXCEPT !.heard = FALSE]
      BY <2>1, <2>2
    <3> QED
      BY <1>1, <2>2, <3>1
  <2>3. CASE j.slot # r
    BY <1>4, <2>1, <2>3
  <2> QED
    BY <2>2, <2>3
<1> QED
  BY <1>5 DEF Deafened

LEMMA RestartDeafens ==
  ASSUME PageTypes, work' = {[j EXCEPT !.heard = FALSE] : j \in work}
  PROVE  Deafened(Slot)
<1>1. \A j \in work : LET k == [j EXCEPT !.heard = FALSE] IN
        /\ k.slot = j.slot /\ k.kind = j.kind /\ k.as = j.as /\ k.id = j.id /\ k.srv = j.srv
        /\ k.rows = j.rows /\ k.half = j.half /\ k \in Job /\ ~k.heard
  BY DEF PageTypes, Job
<1>2. \A k \in work' : \E j \in work : k = [j EXCEPT !.heard = FALSE]
  OBVIOUS
<1>3. \A j \in work : j.slot \in Slot
  BY DEF PageTypes, Job
<1>4. ASSUME NEW k \in work'
      PROVE  \E j \in work :
               /\ k.slot = j.slot /\ k.kind = j.kind /\ k.as = j.as /\ k.id = j.id /\ k.srv = j.srv
               /\ k.rows = j.rows /\ k.half = j.half /\ k \in Job
               /\ (k.heard => j.slot \notin Slot) /\ (j.slot \notin Slot => k = j)
  <2>1. PICK j \in work : k = [j EXCEPT !.heard = FALSE]
    BY <1>2
  <2> QED
    BY <1>1, <1>3, <2>1
<1> QED
  BY <1>4 DEF Deafened

\* A list or an erase the index is half through.
LEMMA HalfThrough ==
  ASSUME PageTypes, NEW j \in work
  PROVE  /\ j \in Job
         /\ \A w \in SUBSET ServerNo : LET k == [j EXCEPT !.half = TRUE, !.rows = w] IN
              /\ k \in Job /\ k.slot = j.slot /\ k.kind = j.kind /\ k.as = j.as /\ k.id = j.id
              /\ k.srv = j.srv /\ k.rows = w /\ k.half /\ k.heard = j.heard
         /\ LET k == [j EXCEPT !.half = TRUE] IN
              /\ k \in Job /\ k.slot = j.slot /\ k.kind = j.kind /\ k.as = j.as /\ k.id = j.id
              /\ k.srv = j.srv /\ k.rows = j.rows /\ k.half /\ k.heard = j.heard
<1>1. j \in Job
  BY DEF PageTypes
<1> QED
  BY <1>1 DEF Job

\* What a request is refused or sent with.
LEMMA SendsWork ==
  ASSUME PageTypes, PathInv, NEW r \in Slot, Sends(r)
  PROVE  /\ \A j \in work : j \in work'
         /\ \A j \in work' : j \in work \/
              /\ j \in Job /\ j.slot = r /\ j.kind = req[r].kind /\ j.as = req[r].as /\ j.srv = req[r].srv
              /\ ~j.half /\ j.heard /\ \E x \in sessions : x.token = req[r].token /\ x.id = j.id
         /\ \A j, k \in work' \ work : j.id = k.id => j = k
<1> DEFINE known == {x \in sessions : x.token = req[r].token}
           J(x) == [slot |-> r, kind |-> req[r].kind, as |-> req[r].as, id |-> x.id,
                    srv |-> req[r].srv, rows |-> {}, half |-> FALSE, heard |-> TRUE]
<1>1. work' = work \cup {J(x) : x \in known}
  BY DEF Sends
<1>2. req[r] \in PageRequest /\ req[r].as \in Identity
  BY DEF PageTypes, PathInv, PathOf, Sends
<1>3. \A x \in known : x \in sessions /\ x.token = req[r].token /\ x.id \in Identity
  BY DEF PageTypes
<1>4. req[r].kind \in {"list", "deploy", "remove", "erase"} /\ req[r].srv \in ServerNo \cup {0}
  BY <1>2 DEF PageRequest
<1>5. \A x \in known : LET j == J(x) IN
        /\ j \in Job /\ j.slot = r /\ j.kind = req[r].kind /\ j.as = req[r].as /\ j.srv = req[r].srv
        /\ ~j.half /\ j.heard /\ x.id = j.id
  BY <1>2, <1>3, <1>4 DEF Job
<1> HIDE DEF J
<1>6. \A j \in work' : j \in work \/ \E x \in known : j = J(x)
  BY <1>1
<1> HIDE DEF known
<1>7. \A j \in work' : j \in work \/
              /\ j \in Job /\ j.slot = r /\ j.kind = req[r].kind /\ j.as = req[r].as /\ j.srv = req[r].srv
              /\ ~j.half /\ j.heard /\ \E x \in sessions : x.token = req[r].token /\ x.id = j.id
  BY <1>3, <1>5, <1>6
<1>8. \A j, k \in work' \ work : j.id = k.id => j = k
  <2>1. \A x, y : x.id = y.id => J(x) = J(y)
    BY DEF J
  <2> QED
    BY <1>5, <1>6, <2>1
<1> QED
  BY <1>1, <1>7, <1>8

\* PageTypes, with the paths, the lock and what is heard, at the start.
LEMMA PageTypesInit == ControllerInit => PageTypes /\ PathInv /\ LockInv /\ HearsInv
<1> SUFFICES ASSUME ControllerInit PROVE PageTypes /\ PathInv /\ LockInv /\ HearsInv
  OBVIOUS
<1>1. MaxLives \in Nat \ {0} /\ MaxSession \in Nat /\ MaxServer \in Nat
  BY ControllerAssumption
<1>2. req \in [Slot -> PageRequest] /\ \A r \in Slot : req[r] = NoRequest
  BY NoneUnderWay DEF ControllerInit
<1>3. PathInv /\ LockInv /\ HearsInv
  BY <1>2, NoneUnderWay DEF PathInv, LockInv, HearsInv, PathOf, Asking, ControllerInit
<1>4. 1 \in 0 .. MaxLives
  BY <1>1
<1>5. /\ life \in [Name -> 0 .. MaxLives] /\ lives \in [Name -> 0 .. MaxLives]
      /\ tokens \in [Name -> 0 .. MaxSession] /\ lists \in [Name -> SUBSET SUBSET ServerNo]
  BY <1>1, <1>4 DEF ControllerInit, NoSession
<1> QED
  BY <1>1, <1>2, <1>3, <1>5 DEF ControllerInit, PageTypes

\* Every step keeps the types.
LEMMA PageTypesStep ==
  ASSUME PageTypes, PathInv, [ControllerNext]_controllerVars
  PROVE  PageTypes'
<1> USE DEF NoSession
<1>0. /\ MaxLives \in Nat /\ MaxSession \in Nat /\ MaxServer \in Nat /\ 0 \in 0 .. MaxSession
      /\ 0 \in 0 .. MaxLives
  BY ControllerAssumption
<1>r. \A r \in Slot : /\ req[r] \in PageRequest /\ req[r].kind \in {"list", "deploy", "remove", "erase"}
                      /\ req[r].token \in 0 .. MaxSession /\ req[r].rows \in SUBSET ServerNo
  BY DEF PageTypes, PageRequest
<1>l. \A n, S : S \in SUBSET SUBSET ServerNo => [lists EXCEPT ![n] = S] \in [Name -> SUBSET SUBSET ServerNo]
  BY DEF PageTypes
<1>t. \A n, t : t \in 0 .. MaxSession => [tokens EXCEPT ![n] = t] \in [Name -> 0 .. MaxSession]
  BY DEF PageTypes
<1>w. \A j \in work : j \in Job /\ j.slot \in Slot /\ j.id \in Identity
  BY DEF PageTypes, Job
<1>re. \A r \in Slot, a \in {"ok", "refused", "failed"}, w \in SUBSET ServerNo : Replied(r, a, w) =>
        req' \in [Slot -> PageRequest] /\ lists' \in [Name -> SUBSET SUBSET ServerNo] /\ lock' \in SUBSET Slot
  <2> SUFFICES ASSUME NEW r \in Slot, NEW a \in {"ok", "refused", "failed"}, NEW w \in SUBSET ServerNo,
                      Replied(r, a, w)
               PROVE  req' \in [Slot -> PageRequest] /\ lists' \in [Name -> SUBSET SUBSET ServerNo]
                        /\ lock' \in SUBSET Slot
    OBVIOUS
  <2>1. req' \in [Slot -> PageRequest] /\ (lock' = {} \/ lock' = lock)
        /\ (lists' = lists \/ lists' = [lists EXCEPT ![NameOf(r)] = IF a = "ok" THEN {w} ELSE {}])
    BY GoesReplied DEF Goes
  <2> QED
    BY <2>1, <1>l DEF PageTypes
<1>1. CASE UNCHANGED controllerVars
  BY <1>1 DEF controllerVars, nodeVars, indexVars, PageTypes
<1>2. ASSUME NEW r \in Slot, NEW n \in Name, PageAsks(r, n) \/ Erases(r, n) PROVE PageTypes'
  <2>1. PICK s \in Places, k \in {"list", "deploy", "remove", "erase"}, x \in ServerNo \cup {0} : Starts(r, n, s, k, x)
    <3>1. \A x \in OwnedBy(<<n, life[n]>>) : x \in ServerNo
      BY DEF OwnedBy, PageTypes
    <3> QED
      BY <1>2, <3>1 DEF PageAsks, Erases, Places
  <2>2. req' \in [Slot -> PageRequest]
    BY <2>1, StartsBegins DEF Begins
  <2> QED
    BY <2>1, <2>2 DEF Starts, PageTypes, indexVars
<1>3. ASSUME NEW r \in Slot, ListsOrAsks(r) PROVE PageTypes'
  <2>1. CASE \E rows \in lists[NameOf(r)] :
               req' = [req EXCEPT ![r].at = "done", ![r].answer = "ok", ![r].rows = rows]
    <3>1. NameOf(r) \in Name
      BY <1>3, <1>r DEF PathInv, PathOf, ListsOrAsks, Identity, NameOf
    <3>2. PICK w \in SUBSET ServerNo : req' = [Answers(r, "done", "ok") EXCEPT ![r].rows = w]
      BY <2>1, <3>1 DEF PageTypes, Answers
    <3>3. req' \in [Slot -> PageRequest]
      BY <3>2, GoesListed DEF Places, Goes
    <3> QED
      BY <1>3, <3>3 DEF ListsOrAsks, PageTypes, indexVars
  <2>2. CASE req' = At(r, "token") /\ lock' = {r}
    BY <1>3, <2>2, GoesAt DEF Places, Goes, ListsOrAsks, PageTypes, indexVars
  <2> QED
    BY <1>3, <2>1, <2>2 DEF ListsOrAsks, To
<1>4. ASSUME NEW r \in Slot, DropsList(r) PROVE PageTypes'
  <2>1. req' \in [Slot -> PageRequest]
    BY <1>4, GoesAt DEF Places, Goes, DropsList, To
  <2> QED
    BY <1>4, <2>1, <1>l DEF DropsList, PageTypes, indexVars
<1>5. ASSUME NEW r \in Slot, TokenOrLogin(r) PROVE PageTypes'
  <2>1. NameOf(r) \in Name
    BY <1>5, <1>r DEF PathInv, PathOf, TokenOrLogin, Identity, NameOf
  <2>2. req' \in [Slot -> PageRequest]
    <3>1. PICK s \in {"login", "asks"} : req' = [req EXCEPT ![r].at = s, ![r].token = tokens[NameOf(r)]]
      BY <1>5 DEF TokenOrLogin
    <3>2. s \in Places /\ tokens[NameOf(r)] \in 0 .. MaxSession
      BY <2>1 DEF PageTypes, Places
    <3> QED
      BY <3>1, <3>2, GoesWithToken DEF Goes
  <2> QED
    BY <1>5, <2>2 DEF TokenOrLogin, PageTypes, indexVars
<1>6. ASSUME NEW r \in Slot, Login(r) PROVE PageTypes'
  <2>0. opened \in 0 .. MaxSession /\ opened < MaxSession /\ opened' = opened + 1
    BY <1>6 DEF Login, PageTypes
  <2>1. opened' \in 1 .. MaxSession /\ opened' \in 0 .. MaxSession /\ req[r].as \in Identity
    <3>1. req[r].as \in Identity
      BY <1>6 DEF Login, PathInv, PathOf
    <3> QED
      BY <2>0, <3>1, <1>0
  <2>2. req' \in [Slot -> PageRequest]
    BY <1>6, <2>1, GoesWithToken DEF Places, Goes, Login
  <2>3. [token |-> opened', id |-> req[r].as] \in [token : 1 .. MaxSession, id : Identity]
    BY <2>1
  <2>4. sessions' \subseteq sessions \cup {[token |-> opened', id |-> req[r].as]}
    BY <1>6 DEF Login
  <2> QED
    BY <1>6, <2>1, <2>2, <2>3, <2>4 DEF Login, PageTypes
<1>7. ASSUME NEW r \in Slot, KeepsToken(r) PROVE PageTypes'
  <2>1. req' \in [Slot -> PageRequest]
    BY <1>7, GoesAt DEF Places, Goes, KeepsToken, To
  <2> QED
    BY <1>7, <2>1, <1>t, <1>r DEF KeepsToken, PageTypes, indexVars
<1>8. ASSUME NEW r \in Slot, Sends(r) PROVE PageTypes'
  <2>1. req' \in [Slot -> PageRequest]
    BY <1>8, GoesAt DEF Places, Goes, Sends, To
  <2>2. work' \subseteq Job
    BY <1>8, <1>w, SendsWork
  <2> QED
    BY <1>8, <2>1, <2>2 DEF Sends, PageTypes
<1>9. ASSUME NEW r \in Slot, HearsRefusal(r) PROVE PageTypes'
  <2>1. CASE Replied(r, "refused", {}) /\ UNCHANGED tokens
    BY <1>9, <2>1, <1>re DEF HearsRefusal, PageTypes, indexVars
  <2>2. CASE tokens' = [tokens EXCEPT ![NameOf(r)] = NoSession]
               /\ req' = [req EXCEPT ![r].at = "login", ![r].again = TRUE] /\ UNCHANGED <<lists, lock>>
    <3>1. req' \in [Slot -> PageRequest]
      BY <2>2, GoesAgain DEF Places, Goes
    <3> QED
      BY <1>9, <2>2, <3>1, <1>t, <1>0 DEF HearsRefusal, PageTypes, indexVars
  <2> QED
    BY <1>9, <2>1, <2>2 DEF HearsRefusal
<1>10. ASSUME NEW r \in Slot, Forgets(r) PROVE PageTypes'
  <2>1. req' \in [Slot -> PageRequest]
    BY <1>10, GoesAt DEF Places, Goes, Forgets, To
  <2> QED
    BY <1>10, <2>1, <1>t, <1>0 DEF Forgets, PageTypes, indexVars
<1>11. ASSUME NEW r \in Slot, ForgetsList(r) PROVE PageTypes'
  <2>1. req' \in [Slot -> PageRequest]
    BY <1>11, GoesAt DEF Places, Goes, ForgetsList, To
  <2> QED
    BY <1>11, <2>1, <1>l DEF ForgetsList, PageTypes, indexVars
<1>12. ASSUME NEW r \in Slot, RemovesAccount(r) PROVE PageTypes'
  <2>1. req' \in [Slot -> PageRequest]
    BY <1>12, GoesAt DEF Places, Goes, RemovesAccount, To
  <2>2. life' \in [Name -> 0 .. MaxLives]
    BY <1>12, <1>0 DEF RemovesAccount, PageTypes
  <2> QED
    BY <1>12, <2>1, <2>2 DEF RemovesAccount, PageTypes, indexVars
<1>13. ASSUME NEW r \in Slot, Answered(r) PROVE PageTypes'
  <2>1. req' \in [Slot -> PageRequest]
    BY <1>13, EndsThere DEF Ends, Answered
  <2> QED
    BY <1>13, <2>1 DEF Answered, PageTypes, indexVars
<1>14. ASSUME NEW r \in Slot, LoginFails(r) PROVE PageTypes'
  BY <1>14, <1>re DEF LoginFails, PageTypes, indexVars
<1>15. ASSUME NEW r \in Slot, GivesUp(r) PROVE PageTypes'
  <2>1. work' \subseteq Job
    BY <1>15, UnheardDeafens DEF Deafened, GivesUp
  <2> QED
    BY <1>15, <1>re, <2>1 DEF GivesUp, PageTypes
<1>16. ASSUME NEW r \in Slot, PageHangsUp(r) PROVE PageTypes'
  <2>1. work' \subseteq Job /\ req' \in [Slot -> PageRequest]
    BY <1>16, UnheardDeafens, EndsThere DEF Deafened, PageHangsUp, Ends
  <2> QED
    BY <1>16, <2>1 DEF PageHangsUp, PageTypes
<1>17. ASSUME NEW j \in work, DoesList(j) PROVE PageTypes'
  <2>1. CASE ~j.half /\ work' = (work \ {j}) \cup {[j EXCEPT !.half = TRUE, !.rows = OwnedBy(j.id)]}
               /\ UNCHANGED <<req, lists, lock>>
    <3>1. OwnedBy(j.id) \in SUBSET ServerNo
      BY DEF OwnedBy, PageTypes
    <3>2. [j EXCEPT !.half = TRUE, !.rows = OwnedBy(j.id)] \in Job
      BY <3>1, HalfThrough
    <3> QED
      BY <1>17, <2>1, <3>2 DEF DoesList, PageTypes
  <2>2. CASE Finishes(j, "ok", j.rows)
    <3>1. j.rows \in SUBSET ServerNo
      BY <1>w DEF Job
    <3> QED
      BY <1>17, <2>2, <3>1, <1>re, <1>w DEF DoesList, PageTypes, Finishes
  <2> QED
    BY <1>17, <2>1, <2>2 DEF DoesList
<1>18. ASSUME NEW j \in work, DoesDeploy(j) PROVE PageTypes'
  <2>1. made' \in 1 .. MaxServer /\ made' \in ServerNo /\ j.slot \in Slot /\ j.id \in Identity
    BY <1>18, <1>w, <1>0 DEF DoesDeploy, PageTypes, ServerNo
  <2>2. req' \in [Slot -> PageRequest]
    <3>1. CASE req' = req
      BY <3>1 DEF PageTypes
    <3>2. CASE req' = [Answers(j.slot, AfterChange(j.slot), "ok") EXCEPT ![j.slot].srv = made']
      <4>1. AfterChange(j.slot) \in Places
        BY DEF AfterChange, Places
      <4> QED
        BY <2>1, <3>2, <4>1, GoesMade DEF Goes
    <3> QED
      BY <1>18, <3>1, <3>2 DEF DoesDeploy
  <2>3. [srv |-> made', owner |-> j.id] \in [srv : ServerNo, owner : Identity]
    BY <2>1
  <2> QED
    BY <1>18, <2>1, <2>2, <2>3 DEF DoesDeploy, PageTypes
<1>19. ASSUME NEW j \in work, DoesRemove(j) PROVE PageTypes'
  BY <1>19, <1>re, <1>w DEF DoesRemove, PageTypes, Finishes
<1>20. ASSUME NEW j \in work, DoesErase(j) PROVE PageTypes'
  <2>1. CASE ~j.half /\ work' = (work \ {j}) \cup {[j EXCEPT !.half = TRUE]}
    <3>1. UNCHANGED <<req, lists, lock, life, lives, tokens, told, sessions, opened, made>>
      BY <1>20, <2>1 DEF DoesErase
    <3>2. servers' = {x \in servers : x.owner # j.id}
      BY <1>20, <2>1 DEF DoesErase
    <3>3. work' \subseteq Job
      BY <2>1, HalfThrough DEF PageTypes
    <3> QED
      BY <3>1, <3>2, <3>3 DEF PageTypes
  <2>2. CASE Finishes(j, "ok", {})
    BY <1>20, <2>2, <1>re, <1>w DEF DoesErase, PageTypes, Finishes
  <2> QED
    BY <1>20, <2>1, <2>2 DEF DoesErase
<1>21. ASSUME NEW j \in work, DoesNot(j) PROVE PageTypes'
  BY <1>21, <1>re, <1>w DEF DoesNot, PageTypes, Finishes
<1>22. ASSUME NEW n \in Name, TakesName(n) PROVE PageTypes'
  <2>1. lives[n] + 1 \in 0 .. MaxLives /\ lives' = [lives EXCEPT ![n] = lives[n] + 1]
    BY <1>22, <1>0 DEF TakesName, PageTypes
  <2>2. lives' \in [Name -> 0 .. MaxLives] /\ lives'[n] \in 0 .. MaxLives
    BY <2>1 DEF PageTypes
  <2>3. life' \in [Name -> 0 .. MaxLives]
    BY <1>22, <2>2 DEF TakesName, PageTypes
  <2> QED
    BY <1>22, <2>2, <2>3 DEF TakesName, PageTypes, indexVars
<1>23. ASSUME NEW n \in Name, ListAges(n) PROVE PageTypes'
  BY <1>23, <1>l DEF ListAges, PageTypes, indexVars
<1>24. CASE SessionsEnd
  <2>1. sessions' \subseteq sessions
    BY <1>24 DEF SessionsEnd
  <2> QED
    BY <1>24, <2>1 DEF SessionsEnd, nodeVars, PageTypes
<1>25. CASE NodeRestarts
  <2>1. work' \subseteq Job
    BY <1>25, RestartDeafens DEF Deafened, NodeRestarts
  <2> QED
    BY <1>25, <2>1, NoneUnderWay, <1>0 DEF NodeRestarts, PageTypes
<1> QED
  BY <1>1, <1>2, <1>3, <1>4, <1>5, <1>6, <1>7, <1>8, <1>9, <1>10, <1>11, <1>12, <1>13, <1>14, <1>15, <1>16,
     <1>17, <1>18, <1>19, <1>20, <1>21, <1>22, <1>23, <1>24, <1>25 DEF ControllerNext, PageStep, IndexStep

\* The paths, the lock and what is heard, where requests do nothing.
LEMMA PathsKept ==
  ASSUME PageTypes, PathInv, LockInv, HearsInv, NEW r \in Slot,
         \A q \in Slot : q # r => req'[q] = req[q], PathOf(req'[r]),
         \A k \in work' : k.heard => k \in work /\ k.slot # r,
         \A q \in Slot : q # r /\ lock = {q} => lock' = {q},
         req'[r].kind = "list" /\ req'[r].at \in Asking => lock' = {r}
  PROVE  PathInv' /\ LockInv' /\ HearsInv'
<1>1. PathInv'
  BY DEF PathInv
<1>2. LockInv'
  BY DEF LockInv
<1>3. \A k \in work' : k.heard => k.slot \in Slot
  BY DEF PageTypes, Job
<1>4. HearsInv'
  BY <1>3 DEF HearsInv
<1> QED
  BY <1>1, <1>2, <1>4

\* A reply is to a request that asks.
LEMMA PathsReplied ==
  ASSUME PageTypes, PathInv, LockInv, HearsInv, NEW r \in Slot, req[r].at \in Asking,
         NEW a \in {"ok", "refused", "failed"}, NEW w \in SUBSET ServerNo, Replied(r, a, w),
         \A k \in work' : k.heard => k \in work /\ k.slot # r
  PROVE  PathInv' /\ LockInv' /\ HearsInv'
<1>1. /\ \A q \in Slot : q # r => req'[q] = req[q]
      /\ req'[r].kind = req[r].kind /\ req'[r].as = req[r].as
      /\ req[r].kind = "list" => req'[r].at = "done" /\ lock' = {}
      /\ req[r].kind = "erase" => req'[r].at \in {"forgets", "done"} /\ lock' = lock
      /\ req[r].kind \in {"deploy", "remove"} => req'[r].at = "clears" /\ lock' = lock
      /\ req[r].kind \in {"list", "deploy", "remove", "erase"}
  BY GoesReplied DEF Goes
<1>2. PathOf(req[r])
  BY DEF PathInv
<1>3. PathOf(req'[r])
  BY <1>1, <1>2 DEF PathOf, Asking
<1>4. req[r].kind = "list" => lock = {r}
  BY DEF LockInv
<1>5. \A q \in Slot : q # r /\ lock = {q} => lock' = {q}
  BY <1>1, <1>4
<1>6. ~(req'[r].kind = "list" /\ req'[r].at \in Asking)
  BY <1>1 DEF Asking
<1> QED
  BY <1>1, <1>3, <1>5, <1>6, PathsKept

\* A request that moves on by itself, and has not the lock to take or leave.
LEMMA PathsGo ==
  ASSUME PageTypes, PathInv, LockInv, HearsInv, NEW r \in Slot, NEW s \in Places, NEW x, NEW t, NEW a, NEW w,
         Goes(r, s, x, t, a, w), req[r].at # "hears", work' = work, lock' = lock,
         req[r].kind = "list" /\ s \in Asking => req[r].at \in Asking,
         PathOf(req'[r])
  PROVE  PathInv' /\ LockInv' /\ HearsInv'
<1>1. \A k \in work' : k.heard => k \in work /\ k.slot # r
  BY DEF HearsInv
<1>2. \A q \in Slot : q # r => req'[q] = req[q]
  BY DEF Goes
<1>3. req'[r].kind = "list" /\ req'[r].at \in Asking => lock' = {r}
  BY DEF Goes, LockInv
<1> QED
  BY <1>1, <1>2, <1>3, PathsKept

\* The index ends a piece of work.
LEMMA PathsFinished ==
  ASSUME PageTypes, PathInv, LockInv, HearsInv, NEW j \in work,
         NEW a \in {"ok", "failed"}, NEW w \in SUBSET ServerNo, Finishes(j, a, w)
  PROVE  PathInv' /\ LockInv' /\ HearsInv'
<1>1. j \in Job /\ j.slot \in Slot /\ work' = work \ {j}
  BY DEF PageTypes, Finishes, Job
<1>2. CASE j.heard
  <2>1. Replied(j.slot, a, w) /\ req[j.slot].at \in Asking
    BY <1>2 DEF Finishes, HearsInv, Asking
  <2>2. \A k \in work' : k.heard => k \in work /\ k.slot # j.slot
    BY <1>1, <1>2 DEF HearsInv
  <2> QED
    BY <1>1, <2>1, <2>2, PathsReplied
<1>3. CASE ~j.heard
  BY <1>1, <1>3 DEF Finishes, PathInv, LockInv, HearsInv
<1> QED
  BY <1>2, <1>3

\* The index is half through with it.
LEMMA PathsHalf ==
  ASSUME PathInv, LockInv, HearsInv, NEW j \in work, NEW k,
         k.slot = j.slot, k.kind = j.kind, k.as = j.as, k.srv = j.srv, k.heard = j.heard,
         work' = (work \ {j}) \cup {k}, UNCHANGED <<req, lists, lock>>
  PROVE  PathInv' /\ LockInv' /\ HearsInv'
<1>1. PathInv' /\ LockInv'
  BY DEF PathInv, LockInv
<1>2. HearsInv'
  BY DEF HearsInv
<1> QED
  BY <1>1, <1>2

\* Every step keeps the paths, the lock and what is heard.
LEMMA PathsStep ==
  ASSUME PageTypes, PathInv, LockInv, HearsInv, SessionsInv, [ControllerNext]_controllerVars
  PROVE  PathInv' /\ LockInv' /\ HearsInv'
<1> DEFINE Fine == PathInv' /\ LockInv' /\ HearsInv'
<1>p. \A r \in Slot : PathOf(req[r]) /\ req[r].kind \in {"list", "deploy", "remove", "erase"}
  BY DEF PathInv, PageTypes, PageRequest
<1>w. \A j \in work : j \in Job /\ j.slot \in Slot
  BY DEF PageTypes, Job
<1>1. CASE UNCHANGED controllerVars
  BY <1>1 DEF controllerVars, nodeVars, indexVars, PathInv, LockInv, HearsInv
<1>2. ASSUME NEW r \in Slot, NEW n \in Name, PageAsks(r, n) \/ Erases(r, n) PROVE Fine
  <2>1. PICK s \in {"waits", "drops", "token"}, k \in {"list", "deploy", "remove", "erase"}, x \in ServerNo \cup {0} :
          /\ Starts(r, n, s, k, x)
          /\ \/ k = "list" /\ s = "waits"
             \/ k \in {"deploy", "remove"} /\ s = "drops"
             \/ k = "erase" /\ s = "token"
    <3>1. \A x \in OwnedBy(<<n, life[n]>>) : x \in ServerNo
      BY DEF OwnedBy, PageTypes
    <3>2. CASE Erases(r, n)
      BY <3>2 DEF Erases
    <3>3. CASE PageAsks(r, n)
      BY <3>1, <3>3 DEF PageAsks
    <3> QED
      BY <1>2, <3>2, <3>3
  <2>2. Begins(r, n, s, k, x)
    BY <2>1, StartsBegins DEF Places
  <2>3. PathOf(req'[r])
    BY <2>1, <2>2 DEF Begins, PathOf, Asking
  <2>4. work' = work /\ lock' = lock
    BY <2>1 DEF Starts, indexVars
  <2>5. \A k1 \in work' : k1.heard => k1 \in work /\ k1.slot # r
    BY <2>2, <2>4 DEF HearsInv, Begins
  <2>6. ~(req'[r].kind = "list" /\ req'[r].at \in Asking)
    BY <2>1, <2>2 DEF Begins, Asking
  <2>7. \A q \in Slot : q # r => req'[q] = req[q]
    BY <2>2 DEF Begins
  <2> QED
    BY <2>3, <2>4, <2>5, <2>6, <2>7, PathsKept
<1>3. ASSUME NEW r \in Slot, ListsOrAsks(r) PROVE Fine
  <2>0. work' = work /\ req[r].at = "waits" /\ lock = {} /\ req[r].kind = "list"
    BY <1>3, <1>p DEF ListsOrAsks, indexVars, PathOf, Asking
  <2>1. CASE lock' = lock /\ \E rows \in lists[NameOf(r)] :
               req' = [req EXCEPT ![r].at = "done", ![r].answer = "ok", ![r].rows = rows]
    <3>1. NameOf(r) \in Name
      BY <2>0, <1>p DEF PathOf, Identity, NameOf
    <3>2. PICK w \in SUBSET ServerNo : req' = [Answers(r, "done", "ok") EXCEPT ![r].rows = w]
      BY <2>1, <3>1 DEF PageTypes, Answers
    <3>3. Goes(r, "done", req[r].srv, req[r].token, "ok", w)
      BY <3>2, GoesListed DEF Places
    <3>4. PathOf(req'[r])
      BY <3>3, <2>0, <1>p DEF Goes, PathOf, Asking
    <3> QED
      BY <2>0, <2>1, <3>3, <3>4, PathsGo DEF Places, Asking
  <2>2. CASE req' = At(r, "token") /\ lock' = {r}
    <3>1. Goes(r, "token", req[r].srv, req[r].token, req[r].answer, req[r].rows)
      BY <2>2, GoesAt DEF Places
    <3>2. PathOf(req'[r])
      BY <3>1, <2>0, <1>p DEF Goes, PathOf, Asking
    <3>3. \A k \in work' : k.heard => k \in work /\ k.slot # r
      BY <2>0 DEF HearsInv
    <3>4. \A q \in Slot : q # r => req'[q] = req[q]
      BY <3>1 DEF Goes
    <3>5. \A q \in Slot : q # r /\ lock = {q} => lock' = {q}
      BY <2>0
    <3> QED
      BY <2>2, <3>2, <3>3, <3>4, <3>5, PathsKept
  <2> QED
    BY <1>3, <2>1, <2>2 DEF ListsOrAsks, To
<1>4. ASSUME NEW r \in Slot, DropsList(r) PROVE Fine
  <2> DEFINE s == IF req[r].at = "drops" THEN "token" ELSE "done"
  <2>1. req' = At(r, s) /\ work' = work /\ lock' = lock /\ req[r].at \in {"drops", "clears"}
    BY <1>4 DEF DropsList, To, indexVars
  <2>2. Goes(r, s, req[r].srv, req[r].token, req[r].answer, req[r].rows)
    BY <2>1, GoesAt DEF Places
  <2>3. req[r].kind \in {"deploy", "remove"}
    BY <2>1, <1>p DEF PathOf, Asking
  <2>4. PathOf(req'[r])
    BY <2>1, <2>2, <2>3, <1>p DEF PathOf, Asking, Goes
  <2>5. s \in Places
    BY DEF Places
  <2> HIDE DEF s
  <2> QED
    BY <2>1, <2>2, <2>3, <2>4, <2>5, PathsGo
<1>5. ASSUME NEW r \in Slot, TokenOrLogin(r) PROVE Fine
  <2> DEFINE t == tokens[NameOf(r)]
             s == IF t = NoSession THEN "login" ELSE "asks"
  <2>1. req' = [req EXCEPT ![r].at = s, ![r].token = t] /\ work' = work /\ lock' = lock /\ req[r].at = "token"
    BY <1>5 DEF TokenOrLogin, indexVars
  <2>2. s \in {"login", "asks"} /\ s \in Places
    BY DEF Places
  <2>3. t \in 0 .. MaxSession
    BY <2>1, <1>p DEF PageTypes, PathOf, NameOf, Identity
  <2> HIDE DEF s, t
  <2>4. Goes(r, s, req[r].srv, t, req[r].answer, req[r].rows)
    BY <2>1, <2>2, <2>3, GoesWithToken
  <2>5. PathOf(req'[r])
    BY <2>1, <2>2, <2>4, <1>p DEF PathOf, Asking, Goes
  <2> QED
    BY <2>1, <2>2, <2>4, <2>5, PathsGo DEF Asking
<1>6. ASSUME NEW r \in Slot, Login(r) PROVE Fine
  <2>1. opened' \in 0 .. MaxSession
    BY <1>6, ControllerAssumption DEF Login, PageTypes
  <2>2. Goes(r, "keeps", req[r].srv, opened', req[r].answer, req[r].rows)
    BY <1>6, <2>1, GoesWithToken DEF Login, Places
  <2>3. PathOf(req'[r])
    BY <1>6, <2>2, <1>p DEF PathOf, Asking, Goes, Login
  <2> QED
    BY <1>6, <2>2, <2>3, PathsGo DEF Asking, Places, Login
<1>7. ASSUME NEW r \in Slot, KeepsToken(r) PROVE Fine
  <2>1. Goes(r, "asks", req[r].srv, req[r].token, req[r].answer, req[r].rows)
    BY <1>7, GoesAt DEF KeepsToken, To, Places
  <2>2. PathOf(req'[r])
    BY <1>7, <2>1, <1>p DEF PathOf, Asking, Goes, KeepsToken
  <2> QED
    BY <1>7, <2>1, <2>2, PathsGo DEF Asking, Places, KeepsToken, indexVars
<1>8. ASSUME NEW r \in Slot, Sends(r) PROVE Fine
  <2> DEFINE s == IF {x \in sessions : x.token = req[r].token} = {} THEN "refused" ELSE "hears"
  <2>0. s \in {"refused", "hears"} /\ s \in Places
    BY DEF Places
  <2>1. req' = At(r, s) /\ req[r].at = "asks" /\ lock' = lock
    BY <1>8 DEF Sends, To
  <2>2. Goes(r, s, req[r].srv, req[r].token, req[r].answer, req[r].rows)
    BY <2>0, <2>1, GoesAt
  <2>3. PathOf(req'[r])
    BY <2>0, <2>1, <2>2, <1>p DEF PathOf, Asking, Goes
  <2>4. PathInv'
    BY <2>2, <2>3 DEF PathInv, Goes
  <2>5. LockInv'
    BY <2>0, <2>1, <2>2 DEF LockInv, Goes, Asking
  <2>6. \A j \in work : j.heard => j.slot # r
    BY <2>1 DEF HearsInv
  <2>7. \A j \in work' \ work : /\ j.slot = r /\ j.kind = req[r].kind /\ j.as = req[r].as /\ j.srv = req[r].srv
                                /\ s = "hears" /\ \E x \in sessions : x.token = req[r].token /\ x.id = j.id
    BY <1>8, SendsWork
  <2>8. \A j, k \in work' \ work : j = k
    BY <1>8, <2>7, SendsWork DEF SessionsInv
  <2>9. \A j \in work' : j.heard => /\ req'[j.slot].at = "hears" /\ req'[j.slot].kind = j.kind
                                    /\ req'[j.slot].as = j.as /\ req'[j.slot].srv = j.srv
    <3>1. \A j \in work : j.heard => req'[j.slot] = req[j.slot]
      BY <2>2, <2>6, <1>w DEF Goes
    <3>2. \A j \in work' \ work : /\ req'[j.slot].at = "hears" /\ req'[j.slot].kind = j.kind
                                  /\ req'[j.slot].as = j.as /\ req'[j.slot].srv = j.srv
      BY <2>2, <2>7 DEF Goes
    <3> QED
      BY <3>1, <3>2 DEF HearsInv
  <2>10. HearsInv'
    BY <2>6, <2>7, <2>8, <2>9 DEF HearsInv
  <2> QED
    BY <2>4, <2>5, <2>10
<1>9. ASSUME NEW r \in Slot, HearsRefusal(r) PROVE Fine
  <2>0. work' = work /\ req[r].at = "refused" /\ \A k \in work' : k.heard => k \in work /\ k.slot # r
    BY <1>9 DEF HearsRefusal, indexVars, HearsInv
  <2>1. CASE Replied(r, "refused", {}) /\ UNCHANGED tokens
    BY <2>0, <2>1, PathsReplied DEF Asking
  <2>2. CASE req' = [req EXCEPT ![r].at = "login", ![r].again = TRUE] /\ UNCHANGED <<lists, lock>>
    <3>1. Goes(r, "login", req[r].srv, req[r].token, req[r].answer, req[r].rows)
      BY <2>2, GoesAgain DEF Places
    <3>2. PathOf(req'[r])
      BY <2>0, <3>1, <1>p DEF PathOf, Asking, Goes
    <3> QED
      BY <2>0, <2>2, <3>1, <3>2, PathsGo DEF Asking, Places
  <2> QED
    BY <1>9, <2>1, <2>2 DEF HearsRefusal
<1>10. ASSUME NEW r \in Slot, Forgets(r) \/ ForgetsList(r) \/ RemovesAccount(r) PROVE Fine
  <2>1. PICK s \in {"unlists", "removes", "done"} :
          req' = At(r, s) /\ req[r].at \in {"forgets", "unlists", "removes"} /\ work' = work /\ lock' = lock
    BY <1>10 DEF Forgets, ForgetsList, RemovesAccount, To, indexVars
  <2>2. s \in Places
    BY DEF Places
  <2>3. Goes(r, s, req[r].srv, req[r].token, req[r].answer, req[r].rows)
    BY <2>1, <2>2, GoesAt
  <2>4. req[r].kind = "erase"
    BY <2>1, <1>p DEF PathOf, Asking
  <2>5. PathOf(req'[r])
    BY <2>1, <2>3, <2>4, <1>p DEF PathOf, Asking, Goes
  <2> QED
    BY <2>1, <2>2, <2>3, <2>4, <2>5, PathsGo
<1>13. ASSUME NEW r \in Slot, Answered(r) \/ PageHangsUp(r) PROVE Fine
  <2>1. Ends(r) /\ (lock' = lock \/ lock' = lock \ {r})
    BY <1>13, EndsThere DEF Answered, PageHangsUp
  <2>2. PathOf(req'[r]) /\ ~(req'[r].at \in Asking)
    BY <2>1, NoneUnderWay DEF Ends, PathOf, Asking
  <2>3. \A k \in work' : k.heard => k \in work /\ k.slot # r
    BY <1>13, UnheardDeafens DEF Deafened, Answered, PageHangsUp, HearsInv, indexVars
  <2>4. \A q \in Slot : q # r => req'[q] = req[q]
    BY <2>1 DEF Ends
  <2>5. \A q \in Slot : q # r /\ lock = {q} => lock' = {q}
    BY <2>1
  <2> QED
    BY <2>2, <2>3, <2>4, <2>5, PathsKept
<1>14. ASSUME NEW r \in Slot, LoginFails(r) PROVE Fine
  <2>1. work' = work /\ req[r].at = "login" /\ \A k \in work' : k.heard => k \in work /\ k.slot # r
    BY <1>14 DEF LoginFails, indexVars, HearsInv
  <2> QED
    BY <1>14, <2>1, PathsReplied DEF Asking, LoginFails
<1>15. ASSUME NEW r \in Slot, GivesUp(r) PROVE Fine
  <2>1. \A k \in work' : k.heard => k \in work /\ k.slot # r
    BY <1>15, UnheardDeafens DEF Deafened, GivesUp
  <2> QED
    BY <1>15, <2>1, PathsReplied DEF Asking, GivesUp
<1>17. ASSUME NEW j \in work, DoesList(j) PROVE Fine
  <2>1. CASE ~j.half /\ work' = (work \ {j}) \cup {[j EXCEPT !.half = TRUE, !.rows = OwnedBy(j.id)]}
               /\ UNCHANGED <<req, lists, lock>>
    <3>1. OwnedBy(j.id) \in SUBSET ServerNo
      BY DEF OwnedBy, PageTypes
    <3> QED
      BY <2>1, <3>1, HalfThrough, PathsHalf
  <2>2. CASE Finishes(j, "ok", j.rows)
    BY <2>2, <1>w, PathsFinished DEF Job
  <2> QED
    BY <1>17, <2>1, <2>2 DEF DoesList
<1>18. ASSUME NEW j \in work, DoesDeploy(j) PROVE Fine
  <2>0. work' = work \ {j} /\ lock' = lock
    BY <1>18 DEF DoesDeploy
  <2>1. CASE ~j.heard
    BY <1>18, <2>0, <2>1 DEF DoesDeploy, PathInv, LockInv, HearsInv
  <2>2. CASE j.heard
    <3>1. made' \in ServerNo
      BY <1>18, ControllerAssumption DEF DoesDeploy, PageTypes, ServerNo
    <3>2. Goes(j.slot, "clears", made', req[j.slot].token, "ok", req[j.slot].rows)
      BY <1>18, <1>w, <2>2, <3>1, GoesMade DEF DoesDeploy, Places, AfterChange
    <3>3. req[j.slot].kind = "deploy"
      BY <1>18, <2>2 DEF DoesDeploy, HearsInv
    <3>4. PathOf(req'[j.slot])
      BY <1>w, <1>p, <3>2, <3>3, <2>2 DEF Goes, PathOf, Asking, HearsInv
    <3>5. \A k \in work' : k.heard => k \in work /\ k.slot # j.slot
      BY <2>0, <2>2 DEF HearsInv
    <3>6. \A q \in Slot : q # j.slot => req'[q] = req[q]
      BY <3>2 DEF Goes
    <3>7. ~(req'[j.slot].kind = "list" /\ req'[j.slot].at \in Asking)
      BY <3>2, <3>3 DEF Goes
    <3> QED
      BY <1>w, <2>0, <3>4, <3>5, <3>6, <3>7, PathsKept
  <2> QED
    BY <2>1, <2>2
<1>19. ASSUME NEW j \in work, DoesRemove(j) PROVE Fine
  BY <1>19, PathsFinished DEF DoesRemove
<1>20. ASSUME NEW j \in work, DoesErase(j) PROVE Fine
  <2>1. CASE ~j.half /\ work' = (work \ {j}) \cup {[j EXCEPT !.half = TRUE]} /\ UNCHANGED <<req, lists, lock>>
    BY <2>1, HalfThrough, PathsHalf
  <2>2. CASE Finishes(j, "ok", {})
    BY <2>2, PathsFinished
  <2> QED
    BY <1>20, <2>1, <2>2 DEF DoesErase
<1>21. ASSUME NEW j \in work, DoesNot(j) PROVE Fine
  BY <1>21, PathsFinished DEF DoesNot
<1>22. ASSUME NEW n \in Name, TakesName(n) \/ ListAges(n) PROVE Fine
  BY <1>22 DEF TakesName, ListAges, indexVars, PathInv, LockInv, HearsInv
<1>24. CASE SessionsEnd
  BY <1>24 DEF SessionsEnd, nodeVars, PathInv, LockInv, HearsInv
<1>25. CASE NodeRestarts
  <2>1. \A k \in work' : ~k.heard
    BY <1>25, RestartDeafens, <1>w DEF Deafened, NodeRestarts
  <2>2. \A r \in Slot : req'[r] = NoRequest
    BY <1>25 DEF NodeRestarts
  <2> QED
    BY <2>1, <2>2, NoneUnderWay DEF PathInv, LockInv, HearsInv, PathOf, Asking
<1> QED
  BY <1>1, <1>2, <1>3, <1>4, <1>5, <1>6, <1>7, <1>8, <1>9, <1>10, <1>13, <1>14, <1>15,
     <1>17, <1>18, <1>19, <1>20, <1>21, <1>22, <1>24, <1>25 DEF ControllerNext, PageStep, IndexStep

\* Every step keeps a session's token its own.
LEMMA SessionsStep ==
  ASSUME PageTypes, SessionsInv, [ControllerNext]_controllerVars
  PROVE  SessionsInv'
<1>1. opened \in Nat /\ \A x \in sessions : x.token \in Nat
  BY ControllerAssumption DEF PageTypes
<1>2. CASE sessions' \subseteq sessions /\ opened' = opened
  BY <1>2 DEF SessionsInv
<1>3. ASSUME NEW r \in Slot, Login(r) PROVE SessionsInv'
  <2> DEFINE e == [token |-> opened', id |-> req[r].as]
  <2>1. opened' = opened + 1 /\ sessions' \subseteq sessions \cup {e} /\ e.token = opened + 1
    BY <1>3 DEF Login
  <2> HIDE DEF e
  <2>2. \A x \in sessions : x.token # e.token /\ x.token <= opened + 1
    BY <1>1, <2>1 DEF SessionsInv
  <2> QED
    BY <1>1, <2>1, <2>2 DEF SessionsInv
<1>4. ASSUME NEW j \in work, IndexStep(j) PROVE sessions' \subseteq sessions /\ opened' = opened
  BY <1>4 DEF IndexStep, DoesList, DoesDeploy, DoesRemove, DoesErase, DoesNot
<1>5. ASSUME NEW r \in Slot, PageStep(r), ~Login(r) PROVE sessions' = sessions /\ opened' = opened
  BY <1>5 DEF PageStep, PageAsks, Starts, Erases, ListsOrAsks, DropsList, TokenOrLogin, KeepsToken, Sends,
     HearsRefusal, Forgets, ForgetsList, RemovesAccount, Answered, LoginFails, GivesUp, PageHangsUp, indexVars
<1>6. CASE SessionsEnd \/ NodeRestarts \/ (\E n \in Name : TakesName(n) \/ ListAges(n)) \/ UNCHANGED controllerVars
  <2>1. sessions' \subseteq sessions /\ opened' = opened
    BY <1>6 DEF SessionsEnd, NodeRestarts, TakesName, ListAges, indexVars, controllerVars
  <2> QED
    BY <2>1, <1>2
<1> QED
  BY <1>2, <1>3, <1>4, <1>5, <1>6 DEF ControllerNext

\* A step of request r, which is not an erase that is over: what the lives of
\* names ask of it.
LifeKeeps(r) ==
  /\ Current(r) /\ UNCHANGED life
  /\ \A q \in Slot : q # r => req'[q] = req[q]
  /\ req'[r].kind = req[r].kind /\ req'[r].as = req[r].as
  /\ \A k \in work' : k.as = req[r].as \/ \E j \in work : j.as = k.as
  /\ \A k \in work' : k.as[1] # NameOf(r) =>
       \E j \in work : j.as = k.as /\ j.slot = k.slot /\ (j.heard => k.heard)
  /\ req[r].kind = "erase" /\ req'[r].at # "done" =>
       \A k \in work' : k.as[1] = NameOf(r) => req'[r].at = "hears" /\ k.heard /\ k.slot = r
  /\ \A n \in Name : n # NameOf(r) => tokens'[n] = tokens[n] /\ lists'[n] = lists[n]
  /\ req[r].kind = "erase" /\ req'[r].at \in {"unlists", "removes"} => tokens'[NameOf(r)] = NoSession
  /\ req[r].kind = "erase" /\ req'[r].at = "removes" => lists'[NameOf(r)] = {}

\* LifeInv where a request goes on.
LEMMA LifeGo ==
  ASSUME PageTypes, PathInv, HearsInv, LifeInv, NEW r \in Slot, LifeKeeps(r)
  PROVE  LifeInv'
<1>0. /\ \A q \in Slot : q # r => req'[q] = req[q]
      /\ req'[r].kind = req[r].kind /\ req'[r].as = req[r].as /\ UNCHANGED life
  BY DEF LifeKeeps
<1>1. req[r].as = Now(NameOf(r)) /\ life[NameOf(r)] # 0 /\ req[r].at # "idle"
  BY DEF LifeInv, LifeKeeps, Current
<1>2. \A q \in Slot : q # r /\ req[q].kind = "erase" => NameOf(q) # NameOf(r)
  BY <1>1 DEF LifeInv
<1>3. \A q \in Slot : NameOf(q)' = NameOf(q)
  BY <1>0 DEF NameOf
<1>4. \A q \in Slot : Current(q)' => req'[q].as = Now(NameOf(q)) /\ life[NameOf(q)] # 0
  BY <1>0, <1>1 DEF Current, LifeInv
<1>5. \A q, p \in Slot : req'[q].kind = "erase" /\ req'[p].at # "idle" /\ NameOf(p) = NameOf(q) => p = q
  BY <1>0, <1>1 DEF LifeInv
<1>6. \A k \in work' : k.as = Now(k.as[1]) /\ life[k.as[1]] # 0
  <2>1. \A j \in work : j.as = Now(j.as[1]) /\ life[j.as[1]] # 0
    BY DEF LifeInv
  <2>2. req[r].as = Now(req[r].as[1]) /\ life[req[r].as[1]] # 0
    BY <1>1 DEF NameOf
  <2> QED
    BY <2>1, <2>2 DEF LifeKeeps
<1>7. ASSUME NEW q \in Slot, NEW k \in work', req'[q].kind = "erase", req'[q].at # "done", k.as[1] = NameOf(q)
      PROVE  req'[q].at = "hears" /\ k.heard /\ k.slot = q
  <2>1. CASE q = r
    BY <1>0, <1>7, <2>1 DEF LifeKeeps
  <2>2. CASE q # r
    <3>1. req'[q] = req[q] /\ NameOf(q) # NameOf(r)
      BY <1>0, <1>2, <1>7, <2>2
    <3>2. PICK j \in work : j.as = k.as /\ j.slot = k.slot /\ (j.heard => k.heard)
      BY <1>7, <3>1 DEF LifeKeeps
    <3> QED
      BY <1>7, <3>1, <3>2 DEF LifeInv, Ending
  <2> QED
    BY <2>1, <2>2
<1>n. \A q \in Slot : req[q].at # "idle" => NameOf(q) \in Name
  BY DEF PathInv, PathOf, NameOf, Identity
<1>8. ASSUME NEW q \in Slot, req'[q].kind = "erase", req'[q].at \in {"unlists", "removes"}
      PROVE  /\ tokens'[NameOf(q)] = NoSession
             /\ req'[q].at = "removes" => lists'[NameOf(q)] = {}
  <2>1. CASE q = r
    BY <1>0, <1>8, <2>1 DEF LifeKeeps
  <2>2. CASE q # r
    <3>1. req'[q] = req[q] /\ NameOf(q) # NameOf(r) /\ NameOf(q) \in Name
      BY <1>0, <1>2, <1>8, <1>n, <2>2
    <3>2. tokens'[NameOf(q)] = tokens[NameOf(q)] /\ lists'[NameOf(q)] = lists[NameOf(q)]
      BY <3>1 DEF LifeKeeps
    <3> QED
      BY <1>8, <3>1, <3>2 DEF LifeInv
  <2> QED
    BY <2>1, <2>2
<1>9. \A n \in Name : life[n] = 0 => tokens'[n] = NoSession /\ lists'[n] = {}
  <2>1. ASSUME NEW n \in Name, life[n] = 0 PROVE tokens'[n] = NoSession /\ lists'[n] = {}
    <3>1. n # NameOf(r)
      BY <1>1, <2>1
    <3> QED
      BY <2>1, <3>1 DEF LifeKeeps, LifeInv
  <2> QED
    BY <2>1
<1>10. \A n : Now(n)' = Now(n)
  BY <1>0 DEF Now
<1> QED
  BY <1>0, <1>3, <1>4, <1>5, <1>6, <1>7, <1>8, <1>9, <1>10 DEF LifeInv, Ending

\* A step in which no request moves, and no life begins or ends.
LEMMA LifeStays ==
  ASSUME LifeInv, UNCHANGED <<req, life>>,
         \A k \in work' : \E j \in work : j.as = k.as /\ j.slot = k.slot /\ (j.heard => k.heard),
         \A n : tokens'[n] = tokens[n], \A n \in Name : lists'[n] \in {lists[n], {}},
         \A r \in Slot : req[r].at # "idle" => NameOf(r) \in Name
  PROVE  LifeInv'
<1>1. \A r \in Slot : NameOf(r)' = NameOf(r) /\ (Current(r)' <=> Current(r)) /\ (Ending(r)' <=> Ending(r))
  BY DEF NameOf, Current, Ending
<1>2. \A n : Now(n)' = Now(n)
  BY DEF Now
<1>3. \A r \in Slot, k \in work' : Ending(r) /\ k.as[1] = NameOf(r) =>
        req[r].at = "hears" /\ k.heard /\ k.slot = r
  BY DEF LifeInv
<1>4. \A k \in work' : k.as = Now(k.as[1]) /\ life[k.as[1]] # 0
  BY DEF LifeInv
<1>5. /\ \A r \in Slot : Current(r) => req[r].as = Now(NameOf(r)) /\ life[NameOf(r)] # 0
      /\ \A r, q \in Slot : req[r].kind = "erase" /\ req[q].at # "idle" /\ NameOf(q) = NameOf(r) => q = r
  BY DEF LifeInv
<1>6. \A r \in Slot : req[r].kind = "erase" /\ req[r].at \in {"unlists", "removes"} => tokens'[NameOf(r)] = NoSession
  BY DEF LifeInv
<1>7. \A r \in Slot : req[r].kind = "erase" /\ req[r].at = "removes" => lists'[NameOf(r)] = {}
  BY DEF LifeInv
<1>8. \A n \in Name : life[n] = 0 => tokens'[n] = NoSession /\ lists'[n] = {}
  BY DEF LifeInv
<1> QED
  BY <1>1, <1>2, <1>3, <1>4, <1>5, <1>6, <1>7, <1>8 DEF LifeInv

\* A step in which a request is over, and what the index does for it unheard.
LEMMA LifeEnds ==
  ASSUME PageTypes, PathInv, HearsInv, LifeInv, NEW r \in Slot, Ends(r), Deafened({r}), UNCHANGED <<life, tokens, lists>>
  PROVE  LifeInv'
<1>1. /\ req'[r].at = "idle" /\ req'[r].kind = "list" /\ \A q \in Slot : q # r => req'[q] = req[q]
  BY NoneUnderWay DEF Ends
<1>2. \A q \in Slot : q # r => NameOf(q)' = NameOf(q) /\ (Current(q)' <=> Current(q)) /\ (Ending(q)' <=> Ending(q))
  BY <1>1 DEF NameOf, Current, Ending
<1>3. ~Current(r)' /\ ~Ending(r)'
  BY <1>1 DEF Current, Ending
<1>4. \A n : Now(n)' = Now(n)
  BY DEF Now
<1>5. \A k \in work' : k.as = Now(k.as[1]) /\ life[k.as[1]] # 0
  BY DEF Deafened, LifeInv
<1>6. ASSUME NEW q \in Slot, NEW k \in work', q # r, Ending(q), k.as[1] = NameOf(q)
      PROVE  req[q].at = "hears" /\ k.heard /\ k.slot = q
  <2>1. PICK j \in work : j.as = k.as /\ j.slot = k.slot /\ (j.slot # r => k = j)
    BY DEF Deafened
  <2>2. req[q].at = "hears" /\ j.heard /\ j.slot = q
    BY <1>6, <2>1 DEF LifeInv
  <2> QED
    BY <1>6, <2>1, <2>2
<1> QED
  BY <1>1, <1>2, <1>3, <1>4, <1>5, <1>6 DEF LifeInv

\* What LifeKeeps asks when the index's work is as it was, or less of it is heard.
LEMMA LifeMoves ==
  ASSUME PageTypes, PathInv, HearsInv, LifeInv, NEW r \in Slot, NEW s, NEW x, NEW t, NEW a, NEW w,
         Goes(r, s, x, t, a, w), Current(r), UNCHANGED life,
         work' = work \/ Deafened({r}),
         req[r].kind = "erase" /\ s # "done" => req[r].at # "hears",
         \A n \in Name : n # NameOf(r) => tokens'[n] = tokens[n] /\ lists'[n] = lists[n],
         req[r].kind = "erase" /\ s \in {"unlists", "removes"} => tokens'[NameOf(r)] = NoSession,
         req[r].kind = "erase" /\ s = "removes" => lists'[NameOf(r)] = {}
  PROVE  LifeInv'
<1>1. \A q \in Slot : q # r => req'[q] = req[q]
  BY DEF Goes
<1>2. req'[r].kind = req[r].kind /\ req'[r].as = req[r].as /\ req'[r].at = s
  BY DEF Goes
<1>3. \A k \in work' : \E j \in work : j.as = k.as /\ j.slot = k.slot /\ (j.slot # r => k = j)
  BY DEF Deafened
<1>4. \A j \in work : j.heard /\ j.slot = r => j.as[1] = NameOf(r)
  BY DEF HearsInv, NameOf
<1>5. ASSUME NEW k \in work', k.as[1] # NameOf(r)
      PROVE  \E j \in work : j.as = k.as /\ j.slot = k.slot /\ (j.heard => k.heard)
  <2>1. PICK j \in work : j.as = k.as /\ j.slot = k.slot /\ (work' = work => j = k) /\ (j.slot # r => k = j)
                            /\ (work' # work => ~k.heard \/ j.slot # r)
    BY <1>3 DEF Deafened
  <2> QED
    BY <1>4, <1>5, <2>1
<1>6. ASSUME req[r].kind = "erase", s # "done", NEW k \in work', k.as[1] = NameOf(r) PROVE FALSE
  <2>1. PICK j \in work : j.as = k.as
    BY <1>3
  <2> QED
    BY <1>6, <2>1 DEF LifeInv, Ending, Current
<1>7. \A k \in work' : k.as = req[r].as \/ \E j \in work : j.as = k.as
  BY <1>3
<1>8. LifeKeeps(r)
  BY <1>1, <1>2, <1>5, <1>6, <1>7 DEF LifeKeeps
<1> QED
  BY <1>8, LifeGo

\* A reply to a request, which the index no longer works for.
LEMMA LifeReplied ==
  ASSUME PageTypes, PathInv, HearsInv, LifeInv, NEW r \in Slot, req[r].at \in Asking,
         NEW a \in {"ok", "refused", "failed"}, NEW w \in SUBSET ServerNo, Replied(r, a, w),
         UNCHANGED <<life, tokens>>,
         \A k \in work' : k.heard => k.slot # r,
         \A k \in work' : \E j \in work : j.as = k.as /\ j.slot = k.slot /\ (j.slot # r => k = j),
         req[r].kind = "erase" /\ a = "ok" => \A k \in work' : k.as[1] # NameOf(r)
  PROVE  LifeInv'
<1>1. /\ \A q \in Slot : q # r => req'[q] = req[q]
      /\ req'[r].kind = req[r].kind /\ req'[r].as = req[r].as
      /\ req[r].kind = "list" => req'[r].at = "done"
      /\ req[r].kind = "erase" => req'[r].at = IF a = "ok" THEN "forgets" ELSE "done"
      /\ req[r].kind \in {"deploy", "remove"} => req'[r].at = "clears"
      /\ req[r].kind \in {"list", "deploy", "remove", "erase"}
      /\ \/ lists' = lists
         \/ lists' = [lists EXCEPT ![NameOf(r)] = IF a = "ok" THEN {w} ELSE {}]
  BY GoesReplied DEF Goes
<1>2. \A n \in Name : n # NameOf(r) => tokens'[n] = tokens[n] /\ lists'[n] = lists[n]
  BY <1>1 DEF PageTypes
<1>3. \A j \in work : j.heard /\ j.slot = r => j.as[1] = NameOf(r)
  BY DEF HearsInv, NameOf
<1>4. \A k \in work' : k.as[1] # NameOf(r) =>
        \E j \in work : j.as = k.as /\ j.slot = k.slot /\ (j.heard => k.heard)
  BY <1>3
<1>5. Current(r)
  BY DEF Current, Asking
<1>6. \A k \in work' : k.as = req[r].as \/ \E j \in work : j.as = k.as
  OBVIOUS
<1>7. LifeKeeps(r)
  BY <1>1, <1>2, <1>4, <1>5, <1>6 DEF LifeKeeps
<1> QED
  BY <1>7, LifeGo

\* LifeInv where a piece of work ends.
LEMMA LifeFinished ==
  ASSUME PageTypes, PathInv, HearsInv, LifeInv, NEW j \in work,
         NEW a \in {"ok", "failed"}, NEW w \in SUBSET ServerNo, Finishes(j, a, w),
         UNCHANGED <<life, tokens>>
  PROVE  LifeInv'
<1>1. j \in Job /\ j.slot \in Slot /\ work' = work \ {j}
  BY DEF PageTypes, Finishes, Job
<1>2. CASE j.heard
  <2>1. Replied(j.slot, a, w) /\ req[j.slot].at \in Asking /\ req[j.slot].kind = j.kind
    BY <1>2 DEF Finishes, HearsInv, Asking
  <2>2. \A k \in work' : k \in work /\ (k.heard => k.slot # j.slot)
    BY <1>1, <1>2 DEF HearsInv
  <2>3. \A k \in work' : \E i \in work : i.as = k.as /\ i.slot = k.slot /\ (i.slot # j.slot => k = i)
    BY <2>2
  <2>4. req[j.slot].kind = "erase" => \A k \in work' : k.as[1] # NameOf(j.slot)
    BY <1>1, <2>1, <2>2 DEF LifeInv, Ending, Asking
  <2> QED
    BY <1>1, <2>1, <2>2, <2>3, <2>4, LifeReplied
<1>3. CASE ~j.heard
  <2>1. UNCHANGED <<req, lists, lock>>
    BY <1>3 DEF Finishes
  <2>2. \A r \in Slot : req[r].at # "idle" => NameOf(r) \in Name
    BY DEF PathInv, PathOf, NameOf, Identity
  <2> QED
    BY <1>1, <2>1, <2>2, LifeStays
<1> QED
  BY <1>2, <1>3

\* A request that begins, unless an account is removed while others are under way.
LEMMA LifeBegins ==
  ASSUME PageTypes, PathInv, LifeInv, ~Overlap, NEW r \in Slot, NEW n \in Name, PageAsks(r, n) \/ Erases(r, n)
  PROVE  LifeInv'
<1>1. PICK s \in {"waits", "drops", "token"}, k \in {"list", "deploy", "remove", "erase"}, x \in ServerNo \cup {0} :
        /\ Starts(r, n, s, k, x)
        /\ k # "erase" => \A q \in Under(n) : req[q].kind # "erase"
        /\ k = "erase" => s = "token" /\ Under(n) = {} /\ \A j \in work : j.as[1] # n
  <2>1. \A x \in OwnedBy(<<n, life[n]>>) : x \in ServerNo
    BY DEF OwnedBy, PageTypes
  <2>2. CASE Erases(r, n)
    BY <2>2 DEF Erases
  <2>3. CASE PageAsks(r, n)
    BY <2>1, <2>3 DEF PageAsks
  <2> QED
    BY <2>2, <2>3
<1>2. Begins(r, n, s, k, x) /\ UNCHANGED <<life, tokens, lists, work>>
  <2>1. s \in Places
    BY DEF Places
  <2>2. Begins(r, n, s, k, x)
    BY <1>1, <2>1, StartsBegins
  <2> QED
    BY <1>1, <2>2 DEF Starts, indexVars
<1>3. /\ \A q \in Slot : q # r => req'[q] = req[q]
      /\ req'[r].at = s /\ req'[r].kind = k /\ req'[r].as = Now(n) /\ life[n] # 0 /\ req[r].at = "idle"
      /\ Now(n)[1] = n
  BY <1>2 DEF Begins
<1>4. /\ \A q \in Slot : q # r => NameOf(q)' = NameOf(q) /\ (Current(q)' <=> Current(q)) /\ (Ending(q)' <=> Ending(q))
      /\ NameOf(r)' = n
  BY <1>3 DEF NameOf, Current, Ending
<1>5. \A m : Now(m)' = Now(m)
  BY <1>2 DEF Now
<1>6. /\ \A q \in Slot : req[q].at # "idle" /\ NameOf(q) = n => q \in Under(n)
      /\ \A q \in Slot : req[q].kind = "erase" => req[q].at # "idle"
  BY DEF Under, PathInv, PathOf
<1>7. \A p, q \in Slot : req'[p].kind = "erase" /\ req'[q].at # "idle" /\ NameOf(q)' = NameOf(p)' => q = p
  <2> SUFFICES ASSUME NEW p \in Slot, NEW q \in Slot, req'[p].kind = "erase", req'[q].at # "idle",
                      NameOf(q)' = NameOf(p)', q # p
               PROVE  FALSE
    OBVIOUS
  <2>1. CASE p = r
    BY <1>1, <1>3, <1>4, <1>6, <2>1
  <2>2. CASE q = r
    BY <1>1, <1>3, <1>4, <1>6, <2>2
  <2>3. CASE p # r /\ q # r
    BY <1>3, <1>4, <2>3 DEF LifeInv
  <2> QED
    BY <2>1, <2>2, <2>3
<1>8. \A q \in Slot, j \in work : Ending(q)' /\ j.as[1] = NameOf(q)' => req'[q].at = "hears" /\ j.heard /\ j.slot = q
  BY <1>1, <1>3, <1>4 DEF LifeInv, Ending
<1>9. \A q \in Slot : Current(q)' => req'[q].as = Now(NameOf(q)') /\ life[NameOf(q)'] # 0
  BY <1>3, <1>4 DEF LifeInv
<1>10. \A q \in Slot : req'[q].kind = "erase" /\ req'[q].at \in {"unlists", "removes"} => tokens[NameOf(q)'] = NoSession
  BY <1>1, <1>3, <1>4 DEF LifeInv
<1>11. \A q \in Slot : req'[q].kind = "erase" /\ req'[q].at = "removes" => lists[NameOf(q)'] = {}
  BY <1>1, <1>3, <1>4 DEF LifeInv
<1>12. /\ \A j \in work : j.as = Now(j.as[1]) /\ life[j.as[1]] # 0
       /\ \A m \in Name : life[m] = 0 => tokens[m] = NoSession /\ lists[m] = {}
  BY DEF LifeInv
<1> QED
  BY <1>2, <1>5, <1>7, <1>8, <1>9, <1>10, <1>11, <1>12 DEF LifeInv

\* Every step keeps LifeInv, while nothing overlaps.
LEMMA LifeStep ==
  ASSUME PageTypes, PathInv, LockInv, HearsInv, LifeInv, ~Overlap, [ControllerNext]_controllerVars
  PROVE  LifeInv'
<1> USE DEF NoSession
<1>p. \A r \in Slot : PathOf(req[r]) /\ req[r].kind \in {"list", "deploy", "remove", "erase"}
  BY DEF PathInv, PageTypes, PageRequest
<1>n. \A r \in Slot : req[r].at # "idle" => NameOf(r) \in Name
  BY DEF PathInv, PathOf, NameOf, Identity
<1>w. \A j \in work : j \in Job /\ j.slot \in Slot
  BY DEF PageTypes, Job
<1>t. \A n, m, t : m \in Name /\ m # n => [tokens EXCEPT ![n] = t][m] = tokens[m]
  BY DEF PageTypes
<1>l. \A n, m, t : m \in Name /\ m # n => [lists EXCEPT ![n] = t][m] = lists[m]
  BY DEF PageTypes
<1>e. \A n \in Name : \A t : [tokens EXCEPT ![n] = t][n] = t /\ [lists EXCEPT ![n] = t][n] = t
  BY DEF PageTypes
<1>h. ASSUME NEW r \in Slot, req[r].at # "hears"
      PROVE  \A k \in work : k.heard => k.slot # r
  BY <1>h DEF HearsInv
<1>1. CASE UNCHANGED controllerVars
  <2>1. UNCHANGED <<life, tokens, lists, req, work>>
    BY <1>1 DEF controllerVars, nodeVars, indexVars
  <2> QED
    BY <2>1, <1>n, LifeStays
<1>2. ASSUME NEW r \in Slot, NEW n \in Name, PageAsks(r, n) \/ Erases(r, n) PROVE LifeInv'
  BY <1>2, LifeBegins
<1>3. ASSUME NEW r \in Slot, ListsOrAsks(r) PROVE LifeInv'
  <2>0. work' = work /\ req[r].at = "waits" /\ UNCHANGED <<life, tokens, lists>>
    BY <1>3 DEF ListsOrAsks, indexVars
  <2>1. Current(r) /\ req[r].kind = "list"
    BY <2>0, <1>p DEF Current, PathOf, Asking
  <2>2. CASE \E rows \in lists[NameOf(r)] :
               req' = [req EXCEPT ![r].at = "done", ![r].answer = "ok", ![r].rows = rows]
    <3>1. NameOf(r) \in Name
      BY <2>0, <1>n
    <3>2. PICK w \in SUBSET ServerNo : req' = [Answers(r, "done", "ok") EXCEPT ![r].rows = w]
      BY <2>2, <3>1 DEF PageTypes, Answers
    <3>3. Goes(r, "done", req[r].srv, req[r].token, "ok", w)
      BY <3>2, GoesListed DEF Places
    <3> QED
      BY <2>0, <2>1, <3>3, LifeMoves
  <2>3. CASE req' = At(r, "token")
    <3>1. Goes(r, "token", req[r].srv, req[r].token, req[r].answer, req[r].rows)
      BY <2>3, GoesAt DEF Places
    <3> QED
      BY <2>0, <2>1, <3>1, LifeMoves
  <2> QED
    BY <1>3, <2>2, <2>3 DEF ListsOrAsks, To
<1>4. ASSUME NEW r \in Slot, DropsList(r) PROVE LifeInv'
  <2> DEFINE s == IF req[r].at = "drops" THEN "token" ELSE "done"
  <2>1. /\ req' = At(r, s) /\ work' = work /\ req[r].at \in {"drops", "clears"}
        /\ UNCHANGED <<life, tokens>> /\ lists' = [lists EXCEPT ![NameOf(r)] = {}]
    BY <1>4 DEF DropsList, To, indexVars
  <2>2. Goes(r, s, req[r].srv, req[r].token, req[r].answer, req[r].rows)
    BY <2>1, GoesAt DEF Places
  <2>3. Current(r) /\ req[r].kind # "erase"
    BY <2>1, <1>p DEF PathOf, Asking, Current
  <2>4. \A n \in Name : n # NameOf(r) => tokens'[n] = tokens[n] /\ lists'[n] = lists[n]
    BY <2>1, <1>l
  <2> HIDE DEF s
  <2> QED
    BY <2>1, <2>2, <2>3, <2>4, LifeMoves
<1>5. ASSUME NEW r \in Slot, TokenOrLogin(r) PROVE LifeInv'
  <2> DEFINE t == tokens[NameOf(r)]
             s == IF t = NoSession THEN "login" ELSE "asks"
  <2>1. /\ req' = [req EXCEPT ![r].at = s, ![r].token = t] /\ work' = work /\ req[r].at = "token"
        /\ UNCHANGED <<life, tokens, lists>>
    BY <1>5 DEF TokenOrLogin, indexVars
  <2>2. s \in {"login", "asks"} /\ s \in Places
    BY DEF Places
  <2>3. t \in 0 .. MaxSession /\ Current(r)
    BY <2>1, <1>n DEF PageTypes, Current
  <2> HIDE DEF s, t
  <2>4. Goes(r, s, req[r].srv, t, req[r].answer, req[r].rows)
    BY <2>1, <2>2, <2>3, GoesWithToken
  <2> QED
    BY <2>1, <2>2, <2>3, <2>4, LifeMoves
<1>6. ASSUME NEW r \in Slot, Login(r) PROVE LifeInv'
  <2>1. opened' \in 0 .. MaxSession
    BY <1>6, ControllerAssumption DEF Login, PageTypes
  <2>2. Goes(r, "keeps", req[r].srv, opened', req[r].answer, req[r].rows)
    BY <1>6, <2>1, GoesWithToken DEF Login, Places
  <2>3. work' = work /\ UNCHANGED <<life, tokens, lists>> /\ Current(r) /\ req[r].at = "login"
    BY <1>6 DEF Login, Current
  <2> QED
    BY <2>2, <2>3, LifeMoves
<1>7. ASSUME NEW r \in Slot, KeepsToken(r) PROVE LifeInv'
  <2>1. Goes(r, "asks", req[r].srv, req[r].token, req[r].answer, req[r].rows)
    BY <1>7, GoesAt DEF KeepsToken, To, Places
  <2>2. /\ work' = work /\ UNCHANGED <<life, lists>> /\ Current(r) /\ req[r].at = "keeps"
        /\ tokens' = [tokens EXCEPT ![NameOf(r)] = req[r].token]
    BY <1>7 DEF KeepsToken, Current, indexVars
  <2>3. \A n \in Name : n # NameOf(r) => tokens'[n] = tokens[n] /\ lists'[n] = lists[n]
    BY <2>2, <1>t
  <2> QED
    BY <2>1, <2>2, <2>3, LifeMoves
<1>8. ASSUME NEW r \in Slot, Sends(r) PROVE LifeInv'
  <2> DEFINE s == IF {x \in sessions : x.token = req[r].token} = {} THEN "refused" ELSE "hears"
  <2>0. s \in {"refused", "hears"} /\ s \in Places
    BY DEF Places
  <2>1. req' = At(r, s) /\ req[r].at = "asks" /\ UNCHANGED <<life, tokens, lists>>
    BY <1>8 DEF Sends, To
  <2>2. Goes(r, s, req[r].srv, req[r].token, req[r].answer, req[r].rows)
    BY <2>0, <2>1, GoesAt
  <2>3. Current(r)
    BY <2>1 DEF Current
  <2>4. \A k \in work' : k \in work \/
          (k.slot = r /\ k.heard /\ k.as = req[r].as /\ s = "hears")
    BY <1>8, SendsWork
  <2>5. \A k \in work' : k.as[1] # NameOf(r) => k \in work
    BY <2>4 DEF NameOf
  <2>6. ASSUME req[r].kind = "erase", NEW k \in work', k.as[1] = NameOf(r)
        PROVE  s = "hears" /\ k.heard /\ k.slot = r
    <3>1. k \notin work
      BY <2>1, <2>6 DEF LifeInv, Ending
    <3> QED
      BY <2>4, <3>1
  <2>7. req'[r].at = s /\ req'[r].kind = req[r].kind /\ req'[r].as = req[r].as /\ \A q \in Slot : q # r => req'[q] = req[q]
    BY <2>2 DEF Goes
  <2>8. \A k \in work' : k.as = req[r].as \/ \E j \in work : j.as = k.as
    BY <2>4
  <2> HIDE DEF s
  <2>9. LifeKeeps(r)
    BY <2>0, <2>1, <2>3, <2>5, <2>6, <2>7, <2>8 DEF LifeKeeps
  <2> QED
    BY <2>9, LifeGo
<1>9. ASSUME NEW r \in Slot, HearsRefusal(r) PROVE LifeInv'
  <2>0. work' = work /\ req[r].at = "refused" /\ UNCHANGED life /\ Current(r)
    BY <1>9 DEF HearsRefusal, indexVars, Current
  <2>1. CASE Replied(r, "refused", {}) /\ UNCHANGED tokens
    BY <2>0, <2>1, <1>h, LifeReplied DEF Asking
  <2>2. CASE tokens' = [tokens EXCEPT ![NameOf(r)] = NoSession]
               /\ req' = [req EXCEPT ![r].at = "login", ![r].again = TRUE] /\ UNCHANGED <<lists, lock>>
    <3>1. Goes(r, "login", req[r].srv, req[r].token, req[r].answer, req[r].rows)
      BY <2>2, GoesAgain DEF Places
    <3>2. \A n \in Name : n # NameOf(r) => tokens'[n] = tokens[n] /\ lists'[n] = lists[n]
      BY <2>2, <1>t
    <3> QED
      BY <2>0, <3>1, <3>2, LifeMoves
  <2> QED
    BY <1>9, <2>1, <2>2 DEF HearsRefusal
<1>10. ASSUME NEW r \in Slot, Forgets(r) PROVE LifeInv'
  <2>1. Goes(r, "unlists", req[r].srv, req[r].token, req[r].answer, req[r].rows)
    BY <1>10, GoesAt DEF Forgets, To, Places
  <2>2. /\ work' = work /\ UNCHANGED <<life, lists>> /\ Current(r) /\ req[r].at = "forgets"
        /\ tokens' = [tokens EXCEPT ![NameOf(r)] = NoSession]
    BY <1>10 DEF Forgets, Current, indexVars
  <2>3. \A n \in Name : n # NameOf(r) => tokens'[n] = tokens[n] /\ lists'[n] = lists[n]
    BY <2>2, <1>t
  <2>4. tokens'[NameOf(r)] = NoSession
    BY <2>2, <1>n, <1>e
  <2> QED
    BY <2>1, <2>2, <2>3, <2>4, LifeMoves
<1>11. ASSUME NEW r \in Slot, ForgetsList(r) PROVE LifeInv'
  <2>1. Goes(r, "removes", req[r].srv, req[r].token, req[r].answer, req[r].rows)
    BY <1>11, GoesAt DEF ForgetsList, To, Places
  <2>2. /\ work' = work /\ UNCHANGED <<life, tokens>> /\ Current(r) /\ req[r].at = "unlists"
        /\ lists' = [lists EXCEPT ![NameOf(r)] = {}]
    BY <1>11 DEF ForgetsList, Current, indexVars
  <2>3. \A n \in Name : n # NameOf(r) => tokens'[n] = tokens[n] /\ lists'[n] = lists[n]
    BY <2>2, <1>l
  <2>4. lists'[NameOf(r)] = {}
    BY <2>2, <1>n, <1>e
  <2>5. req[r].kind = "erase" => tokens'[NameOf(r)] = NoSession
    BY <2>2 DEF LifeInv
  <2> QED
    BY <2>1, <2>2, <2>3, <2>4, <2>5, LifeMoves
<1>12. ASSUME NEW r \in Slot, RemovesAccount(r) PROVE LifeInv'
  <2> DEFINE n == NameOf(r)
  <2>1. Goes(r, "done", req[r].srv, req[r].token, req[r].answer, req[r].rows)
    BY <1>12, GoesAt DEF RemovesAccount, To, Places
  <2>2. /\ work' = work /\ UNCHANGED <<tokens, lists>> /\ req[r].at = "removes"
        /\ life' = [life EXCEPT ![n] = 0]
    BY <1>12 DEF RemovesAccount, indexVars
  <2>3. /\ req[r].kind = "erase" /\ n \in Name /\ tokens[n] = NoSession /\ lists[n] = {}
        /\ \A j \in work : j.as[1] # n
    BY <2>2, <1>p, <1>n DEF LifeInv, PathOf, Asking, Ending
  <2>4. \A q \in Slot : q # r /\ req[q].at # "idle" => NameOf(q) # n
    BY <2>3 DEF LifeInv
  <2>5. \A m : m # n => life'[m] = life[m] /\ Now(m)' = Now(m)
    BY <2>2, <2>3 DEF PageTypes, Now
  <2>6. /\ \A q \in Slot : q # r => req'[q] = req[q]
        /\ req'[r].at = "done" /\ req'[r].kind = "erase" /\ NameOf(r)' = n
    BY <2>1, <2>3 DEF Goes, NameOf
  <2>7. /\ \A q \in Slot : NameOf(q)' = NameOf(q) /\ (q # r => (Current(q)' <=> Current(q)) /\ (Ending(q)' <=> Ending(q)))
        /\ ~Current(r)' /\ ~Ending(r)'
    BY <2>6 DEF NameOf, Current, Ending
  <2> HIDE DEF n
  <2>8. \A q \in Slot : Current(q)' => req'[q].as = Now(NameOf(q))' /\ life'[NameOf(q)] # 0
    BY <2>4, <2>5, <2>6, <2>7 DEF LifeInv, Current
  <2>9. \A q, p \in Slot : req'[q].kind = "erase" /\ req'[p].at # "idle" /\ NameOf(p) = NameOf(q) => p = q
    BY <2>2, <2>3, <2>6 DEF LifeInv
  <2>10. \A j \in work : j.as = Now(j.as[1])' /\ life'[j.as[1]] # 0
    BY <2>3, <2>5 DEF LifeInv
  <2>11. \A q \in Slot, j \in work : Ending(q)' /\ j.as[1] = NameOf(q) => req'[q].at = "hears" /\ j.heard /\ j.slot = q
    BY <2>6, <2>7 DEF LifeInv
  <2>12. \A q \in Slot : req'[q].kind = "erase" /\ req'[q].at \in {"unlists", "removes"} => tokens[NameOf(q)] = NoSession
    BY <2>6 DEF LifeInv
  <2>13. \A q \in Slot : req'[q].kind = "erase" /\ req'[q].at = "removes" => lists[NameOf(q)] = {}
    BY <2>6 DEF LifeInv
  <2>14. \A m \in Name : life'[m] = 0 => tokens[m] = NoSession /\ lists[m] = {}
    BY <2>3, <2>5 DEF LifeInv
  <2>15. \A q \in Slot : Now(NameOf(q)') = Now(NameOf(q))
    BY <2>7
  <2> QED
    BY <2>2, <2>7, <2>8, <2>9, <2>10, <2>11, <2>12, <2>13, <2>14 DEF LifeInv, Now
<1>13. ASSUME NEW r \in Slot, Answered(r) \/ PageHangsUp(r) PROVE LifeInv'
  <2>1. Ends(r) /\ UNCHANGED <<life, tokens, lists>>
    BY <1>13, EndsThere DEF Answered, PageHangsUp
  <2>2. CASE Answered(r)
    <3>1. work' = work /\ req[r].at = "done"
      BY <2>2 DEF Answered, indexVars
    <3>2. \A k \in work' : k.heard => k.slot # r
      BY <3>1, <1>h
    <3>3. Deafened({r})
      BY <3>1, <3>2, <1>w DEF Deafened
    <3> QED
      BY <2>1, <3>3, LifeEnds
  <2>3. CASE PageHangsUp(r)
    BY <2>1, <2>3, UnheardDeafens, LifeEnds DEF PageHangsUp
  <2> QED
    BY <1>13, <2>2, <2>3
<1>14. ASSUME NEW r \in Slot, LoginFails(r) PROVE LifeInv'
  <2>1. work' = work /\ req[r].at = "login" /\ UNCHANGED <<life, tokens>> /\ Replied(r, "failed", {})
    BY <1>14 DEF LoginFails, indexVars
  <2> QED
    BY <2>1, <1>h, LifeReplied DEF Asking
<1>15. ASSUME NEW r \in Slot, GivesUp(r) PROVE LifeInv'
  <2>1. /\ Deafened({r}) /\ req[r].at = "hears" /\ UNCHANGED <<life, tokens>> /\ Replied(r, "failed", {})
    BY <1>15, UnheardDeafens DEF GivesUp
  <2>2. \A k \in work' : k.heard => k.slot # r
    BY <2>1 DEF Deafened
  <2>3. \A k \in work' : \E j \in work : j.as = k.as /\ j.slot = k.slot /\ (j.slot # r => k = j)
    BY <2>1 DEF Deafened
  <2> QED
    BY <2>1, <2>2, <2>3, LifeReplied DEF Asking
<1>17. ASSUME NEW j \in work, DoesList(j) PROVE LifeInv'
  <2>1. CASE ~j.half /\ work' = (work \ {j}) \cup {[j EXCEPT !.half = TRUE, !.rows = OwnedBy(j.id)]}
               /\ UNCHANGED <<req, lists, lock>>
    <3>1. OwnedBy(j.id) \in SUBSET ServerNo
      BY DEF OwnedBy, PageTypes
    <3> DEFINE c == [j EXCEPT !.half = TRUE, !.rows = OwnedBy(j.id)]
    <3>3. c.as = j.as /\ c.slot = j.slot /\ c.heard = j.heard
      BY <3>1, HalfThrough
    <3> HIDE DEF c
    <3>2. \A k \in work' : \E i \in work : i.as = k.as /\ i.slot = k.slot /\ (i.heard => k.heard)
      <4>1. \A k \in work' : k \in work \/ k = c
        BY <2>1 DEF c
      <4> QED
        BY <3>3, <4>1
    <3> QED
      BY <1>17, <2>1, <3>2, <1>n, LifeStays DEF DoesList
  <2>2. CASE Finishes(j, "ok", j.rows)
    BY <1>17, <2>2, <1>w, LifeFinished DEF Job, DoesList
  <2> QED
    BY <1>17, <2>1, <2>2 DEF DoesList
<1>18. ASSUME NEW j \in work, DoesDeploy(j) PROVE LifeInv'
  <2>0. work' = work \ {j} /\ UNCHANGED <<life, tokens, lists>>
    BY <1>18 DEF DoesDeploy
  <2>1. CASE ~j.heard
    <3>1. req' = req /\ \A k \in work' : \E i \in work : i.as = k.as /\ i.slot = k.slot /\ (i.heard => k.heard)
      BY <1>18, <2>0, <2>1 DEF DoesDeploy
    <3> QED
      BY <2>0, <3>1, <1>n, LifeStays
  <2>2. CASE j.heard
    <3>1. made' \in ServerNo
      BY <1>18, ControllerAssumption DEF DoesDeploy, PageTypes, ServerNo
    <3>2. Goes(j.slot, "clears", made', req[j.slot].token, "ok", req[j.slot].rows)
      BY <1>18, <1>w, <2>2, <3>1, GoesMade DEF DoesDeploy, Places, AfterChange
    <3>3. req[j.slot].kind = "deploy" /\ req[j.slot].at = "hears" /\ req[j.slot].as = j.as
      BY <1>18, <2>2 DEF DoesDeploy, HearsInv
    <3>4. /\ \A q \in Slot : q # j.slot => req'[q] = req[q]
          /\ req'[j.slot].kind = "deploy" /\ req'[j.slot].as = req[j.slot].as /\ Current(j.slot)
      BY <3>2, <3>3 DEF Goes, Current
    <3>5. \A k \in work' : k \in work
      BY <2>0
    <3>6. LifeKeeps(j.slot)
      BY <2>0, <3>3, <3>4, <3>5 DEF LifeKeeps
    <3> QED
      BY <1>w, <3>6, LifeGo
  <2> QED
    BY <2>1, <2>2
<1>19. ASSUME NEW j \in work, DoesRemove(j) PROVE LifeInv'
  BY <1>19, LifeFinished DEF DoesRemove
<1>20. ASSUME NEW j \in work, DoesErase(j) PROVE LifeInv'
  <2>1. CASE ~j.half /\ work' = (work \ {j}) \cup {[j EXCEPT !.half = TRUE]} /\ UNCHANGED <<req, lists, lock>>
    <3> DEFINE c == [j EXCEPT !.half = TRUE]
    <3>1. c.as = j.as /\ c.slot = j.slot /\ c.heard = j.heard
      BY HalfThrough
    <3> HIDE DEF c
    <3>2. \A k \in work' : \E i \in work : i.as = k.as /\ i.slot = k.slot /\ (i.heard => k.heard)
      <4>1. \A k \in work' : k \in work \/ k = c
        BY <2>1 DEF c
      <4> QED
        BY <3>1, <4>1
    <3> QED
      BY <1>20, <2>1, <3>2, <1>n, LifeStays DEF DoesErase
  <2>2. CASE Finishes(j, "ok", {})
    BY <1>20, <2>2, LifeFinished DEF DoesErase
  <2> QED
    BY <1>20, <2>1, <2>2 DEF DoesErase
<1>21. ASSUME NEW j \in work, DoesNot(j) PROVE LifeInv'
  BY <1>21, LifeFinished DEF DoesNot
<1>22. ASSUME NEW n \in Name, TakesName(n) PROVE LifeInv'
  <2>1. /\ UNCHANGED <<tokens, lists, req, work>> /\ life[n] = 0 /\ life' = [life EXCEPT ![n] = lives'[n]]
        /\ lives' = [lives EXCEPT ![n] = @ + 1]
    BY <1>22 DEF TakesName, indexVars
  <2>2. \A m : m # n => life'[m] = life[m] /\ Now(m)' = Now(m)
    BY <2>1 DEF PageTypes, Now
  <2>3. lives[n] \in Nat /\ lives'[n] = lives[n] + 1 /\ life'[n] = lives'[n]
    BY <2>1, ControllerAssumption DEF PageTypes
  <2>4. life'[n] # 0
    BY <2>3
  <2>5. \A q \in Slot : Current(q) => NameOf(q) # n
    BY <2>1 DEF LifeInv
  <2>6. \A j \in work : j.as[1] # n
    BY <2>1 DEF LifeInv
  <2>7. \A q \in Slot : NameOf(q)' = NameOf(q) /\ (Current(q)' <=> Current(q)) /\ (Ending(q)' <=> Ending(q))
    BY <2>1 DEF NameOf, Current, Ending
  <2>8. \A q \in Slot : Current(q) => req[q].as = <<NameOf(q), life'[NameOf(q)]>> /\ life'[NameOf(q)] # 0
    <3>1. \A q \in Slot : Current(q) => req[q].as = <<NameOf(q), life[NameOf(q)]>> /\ life[NameOf(q)] # 0
      BY DEF LifeInv, Now
    <3> QED
      BY <2>2, <2>5, <3>1
  <2>9. \A j \in work : j.as = Now(j.as[1])' /\ life'[j.as[1]] # 0
    BY <2>2, <2>6 DEF LifeInv
  <2>10. \A m \in Name : life'[m] = 0 => tokens[m] = NoSession /\ lists[m] = {}
    BY <2>2, <2>4 DEF LifeInv
  <2> QED
    BY <2>1, <2>7, <2>8, <2>9, <2>10 DEF LifeInv, Now
<1>23. ASSUME NEW n \in Name, ListAges(n) PROVE LifeInv'
  <2>1. UNCHANGED <<req, life, work, tokens>> /\ \A m \in Name : lists'[m] \in {lists[m], {}}
    BY <1>23, <1>l, <1>e DEF ListAges, indexVars
  <2> QED
    BY <2>1, <1>n, LifeStays
<1>24. CASE SessionsEnd
  <2>1. UNCHANGED <<life, tokens, lists, req, work>>
    BY <1>24 DEF SessionsEnd, nodeVars
  <2> QED
    BY <2>1, <1>n, LifeStays
<1>25. CASE NodeRestarts
  <2>1. \A r \in Slot : req'[r] = NoRequest
    BY <1>25 DEF NodeRestarts
  <2>2. \A r \in Slot : req'[r].at = "idle" /\ req'[r].kind = "list"
    BY <2>1, NoneUnderWay
  <2>3. \A n \in Name : tokens'[n] = NoSession /\ lists'[n] = {}
    BY <1>25 DEF NodeRestarts
  <2>4. \A k \in work' : k.as = Now(k.as[1]) /\ life[k.as[1]] # 0
    BY <1>25, RestartDeafens DEF Deafened, NodeRestarts, LifeInv
  <2>5. life' = life /\ \A n : Now(n)' = Now(n)
    BY <1>25 DEF NodeRestarts, Now
  <2> QED
    BY <2>2, <2>3, <2>4, <2>5 DEF LifeInv, Current, Ending
<1> QED
  BY <1>1, <1>2, <1>3, <1>4, <1>5, <1>6, <1>7, <1>8, <1>9, <1>10, <1>11, <1>12, <1>13, <1>14, <1>15,
     <1>17, <1>18, <1>19, <1>20, <1>21, <1>22, <1>23, <1>24, <1>25 DEF ControllerNext, PageStep, IndexStep

\* What a step that opens no session owes.
LEMMA SelfKept ==
  ASSUME PageTypes, SelfInv, sessions' \subseteq sessions, UNCHANGED opened,
         \A q \in Slot : req'[q].token <= opened,
         \A q \in Slot : req'[q].at \in {"keeps", "asks"} =>
           \/ req'[q] = req[q]
           \/ \A x \in sessions : x.token = req'[q].token => x.id = req'[q].as,
         \A n \in Name :
           \/ tokens'[n] = NoSession
           \/ Now(n)' = Now(n) /\ tokens'[n] = tokens[n]
           \/ Now(n)' = Now(n) /\ \E q \in Slot : req[q].at = "keeps" /\ tokens'[n] = req[q].token /\ req[q].as = Now(n),
         \A k \in work' : \/ k.id = k.as
                          \/ \E j \in work : k.id = j.id /\ k.as = j.as
  PROVE  SelfInv'
<1>1. \A x \in sessions : x.token \in Nat /\ x.token # NoSession
  BY ControllerAssumption DEF PageTypes, NoSession
<1>2. \A x \in sessions' : x \in sessions /\ x.token <= opened
  BY DEF SelfInv
<1>3. 0 <= opened
  BY ControllerAssumption DEF PageTypes
<1>4. \A n \in Name : tokens'[n] <= opened
  BY <1>3 DEF SelfInv, NoSession
<1>5. \A n \in Name, x \in sessions' : x.token = tokens'[n] => x.id = Now(n)'
  BY <1>1, <1>2 DEF SelfInv
<1>6. \A q \in Slot, x \in sessions' : req'[q].at \in {"keeps", "asks"} /\ x.token = req'[q].token => x.id = req'[q].as
  BY <1>2 DEF SelfInv
<1>7. \A k \in work' : k.id = k.as
  BY DEF SelfInv
<1> QED
  BY <1>2, <1>4, <1>5, <1>6, <1>7 DEF SelfInv

\* A step of a request that keeps its session for what it is, and takes up none.
LEMMA SelfGo ==
  ASSUME PageTypes, SelfInv, NEW r \in Slot, \A q \in Slot : q # r => req'[q] = req[q],
         req'[r].token = req[r].token \/ req'[r].token = NoSession,
         req'[r].at \notin {"keeps", "asks"}, UNCHANGED <<life, opened>>, sessions' \subseteq sessions,
         \A n \in Name : tokens'[n] \in {tokens[n], NoSession},
         \A k \in work' : \E j \in work : k.id = j.id /\ k.as = j.as
  PROVE  SelfInv'
<1>1. 0 <= opened
  BY ControllerAssumption DEF PageTypes
<1>2. \A q \in Slot : req'[q].token <= opened
  BY <1>1 DEF SelfInv, NoSession
<1>3. \A n : Now(n)' = Now(n)
  BY DEF Now
<1> QED
  BY <1>2, <1>3, SelfKept

\* SelfInv where a reply comes back.
LEMMA SelfReplied ==
  ASSUME PageTypes, SelfInv, NEW r \in Slot, NEW a \in {"ok", "refused", "failed"}, NEW w \in SUBSET ServerNo,
         Replied(r, a, w), UNCHANGED <<life, opened, tokens>>, sessions' \subseteq sessions,
         \A k \in work' : \E j \in work : k.id = j.id /\ k.as = j.as
  PROVE  SelfInv'
<1>1. /\ \A q \in Slot : q # r => req'[q] = req[q]
      /\ req'[r].token = req[r].token
      /\ req[r].kind = "list" => req'[r].at = "done"
      /\ req[r].kind = "erase" => req'[r].at = IF a = "ok" THEN "forgets" ELSE "done"
      /\ req[r].kind \in {"deploy", "remove"} => req'[r].at = "clears"
      /\ req[r].kind \in {"list", "deploy", "remove", "erase"}
  BY GoesReplied DEF Goes
<1>2. req'[r].at \notin {"keeps", "asks"}
  BY <1>1
<1> QED
  BY <1>1, <1>2, SelfGo

\* SelfInv where a piece of work ends.
LEMMA SelfFinished ==
  ASSUME PageTypes, SelfInv, NEW j \in work,
         NEW a \in {"ok", "failed"}, NEW w \in SUBSET ServerNo, Finishes(j, a, w),
         UNCHANGED <<life, opened, tokens>>, sessions' \subseteq sessions
  PROVE  SelfInv'
<1>1. j.slot \in Slot /\ \A k \in work' : k \in work
  BY DEF PageTypes, Job, Finishes
<1>2. CASE j.heard
  <2>1. Replied(j.slot, a, w)
    BY <1>2 DEF Finishes
  <2> QED
    BY <1>1, <2>1, SelfReplied
<1>3. CASE ~j.heard
  <2>1. req' = req
    BY <1>3 DEF Finishes
  <2>2. \A n : Now(n)' = Now(n)
    BY DEF Now
  <2>3. \A q \in Slot : req'[q].token <= opened
    BY <2>1 DEF SelfInv
  <2> QED
    BY <1>1, <2>1, <2>2, <2>3, SelfKept
<1> QED
  BY <1>2, <1>3

\* Every step keeps SelfInv.
LEMMA SelfStep ==
  ASSUME PageTypes, PathInv, LifeInv, SelfInv, [ControllerNext]_controllerVars
  PROVE  SelfInv'
<1> USE DEF NoSession
<1>n. \A r \in Slot : req[r].at # "idle" => NameOf(r) \in Name
  BY DEF PathInv, PathOf, NameOf, Identity
<1>w. \A j \in work : j \in Job /\ j.slot \in Slot
  BY DEF PageTypes, Job
<1>t. \A n, m, t : m \in Name => [tokens EXCEPT ![n] = t][m] = IF m = n THEN t ELSE tokens[m]
  BY DEF PageTypes
<1>s. \A q \in Slot : req[q].token <= opened
  BY DEF SelfInv
<1>1. ASSUME UNCHANGED <<req, opened, tokens, life>>, sessions' \subseteq sessions,
             \A k \in work' : \E j \in work : k.id = j.id /\ k.as = j.as
      PROVE  SelfInv'
  <2>1. \A n : Now(n)' = Now(n)
    BY <1>1 DEF Now
  <2>2. \A q \in Slot : req'[q].token <= opened
    BY <1>1, <1>s
  <2> QED
    BY <1>1, <2>1, <2>2, SelfKept
<1>2. ASSUME NEW r \in Slot, NEW n \in Name, PageAsks(r, n) \/ Erases(r, n) PROVE SelfInv'
  <2>1. PICK s \in {"waits", "drops", "token"}, k \in {"list", "deploy", "remove", "erase"}, x \in ServerNo \cup {0} :
          Starts(r, n, s, k, x)
    <3>1. \A x \in OwnedBy(<<n, life[n]>>) : x \in ServerNo
      BY DEF OwnedBy, PageTypes
    <3>2. CASE Erases(r, n)
      BY <3>2 DEF Erases
    <3>3. CASE PageAsks(r, n)
      BY <3>1, <3>3 DEF PageAsks
    <3> QED
      BY <1>2, <3>2, <3>3
  <2>2. Begins(r, n, s, k, x) /\ UNCHANGED <<life, tokens, work, sessions, opened>>
    BY <2>1, StartsBegins DEF Places, Starts, indexVars
  <2>3. \A q \in Slot : q # r => req'[q] = req[q]
    BY <2>2 DEF Begins
  <2>4. req'[r].at = s /\ req'[r].token = NoSession
    BY <2>2 DEF Begins
  <2> QED
    BY <2>2, <2>3, <2>4, SelfGo
<1>3. ASSUME NEW r \in Slot, ListsOrAsks(r) PROVE SelfInv'
  <2>0. req[r].at = "waits" /\ UNCHANGED <<life, tokens, work, sessions, opened>>
    BY <1>3 DEF ListsOrAsks, indexVars
  <2>1. CASE \E rows \in lists[NameOf(r)] :
               req' = [req EXCEPT ![r].at = "done", ![r].answer = "ok", ![r].rows = rows]
    <3>1. NameOf(r) \in Name
      BY <2>0, <1>n
    <3>2. PICK w \in SUBSET ServerNo : req' = [Answers(r, "done", "ok") EXCEPT ![r].rows = w]
      BY <2>1, <3>1 DEF PageTypes, Answers
    <3>3. Goes(r, "done", req[r].srv, req[r].token, "ok", w)
      BY <3>2, GoesListed DEF Places
    <3> QED
      BY <2>0, <3>3, SelfGo DEF Goes
  <2>2. CASE req' = At(r, "token")
    <3>1. Goes(r, "token", req[r].srv, req[r].token, req[r].answer, req[r].rows)
      BY <2>2, GoesAt DEF Places
    <3> QED
      BY <2>0, <3>1, SelfGo DEF Goes
  <2> QED
    BY <1>3, <2>1, <2>2 DEF ListsOrAsks, To
<1>4. ASSUME NEW r \in Slot, DropsList(r) \/ Forgets(r) \/ ForgetsList(r) PROVE SelfInv'
  <2>1. PICK s \in {"token", "done", "unlists", "removes"} :
          /\ req' = At(r, s) /\ UNCHANGED <<life, work, sessions, opened>>
          /\ \A n \in Name : tokens'[n] \in {tokens[n], NoSession}
    <3>1. CASE DropsList(r)
      <4>1. req' = At(r, IF req[r].at = "drops" THEN "token" ELSE "done") /\ UNCHANGED <<life, work, sessions, opened, tokens>>
        BY <3>1 DEF DropsList, To, indexVars
      <4> QED
        BY <4>1
    <3>2. CASE Forgets(r)
      <4>1. /\ req' = At(r, "unlists") /\ UNCHANGED <<life, work, sessions, opened>>
            /\ tokens' = [tokens EXCEPT ![NameOf(r)] = NoSession]
        BY <3>2 DEF Forgets, To, indexVars
      <4>2. \A n \in Name : tokens'[n] \in {tokens[n], NoSession}
        BY <4>1 DEF PageTypes
      <4> QED
        BY <4>1, <4>2
    <3>3. CASE ForgetsList(r)
      <4>1. req' = At(r, "removes") /\ UNCHANGED <<life, work, sessions, opened, tokens>>
        BY <3>3 DEF ForgetsList, To, indexVars
      <4> QED
        BY <4>1
    <3> QED
      BY <1>4, <3>1, <3>2, <3>3
  <2>2. Goes(r, s, req[r].srv, req[r].token, req[r].answer, req[r].rows)
    BY <2>1, GoesAt DEF Places
  <2> QED
    BY <2>1, <2>2, SelfGo DEF Goes
<1>5. ASSUME NEW r \in Slot, TokenOrLogin(r) PROVE SelfInv'
  <2> DEFINE t == tokens[NameOf(r)]
             s == IF t = NoSession THEN "login" ELSE "asks"
  <2>1. /\ req' = [req EXCEPT ![r].at = s, ![r].token = t] /\ req[r].at = "token"
        /\ UNCHANGED <<life, tokens, sessions, opened, work>>
    BY <1>5 DEF TokenOrLogin, indexVars
  <2>2. s \in {"login", "asks"} /\ s \in Places
    BY DEF Places
  <2>3. t \in 0 .. MaxSession /\ t <= opened /\ Current(r)
    BY <2>1, <1>n DEF PageTypes, Current, SelfInv
  <2>4. \A x \in sessions : x.token = t => x.id = req[r].as
    BY <2>1, <2>3, <1>n DEF SelfInv, LifeInv, Current
  <2> HIDE DEF s, t
  <2>5. Goes(r, s, req[r].srv, t, req[r].answer, req[r].rows)
    BY <2>1, <2>2, <2>3, GoesWithToken
  <2>6. \A q \in Slot : req'[q].token <= opened
    BY <2>3, <2>5, <1>s DEF Goes
  <2>7. \A q \in Slot : req'[q] = req[q] \/ \A x \in sessions : x.token = req'[q].token => x.id = req'[q].as
    BY <2>4, <2>5 DEF Goes
  <2>8. \A n : Now(n)' = Now(n)
    BY <2>1 DEF Now
  <2> QED
    BY <2>1, <2>6, <2>7, <2>8, SelfKept
<1>6. ASSUME NEW r \in Slot, Login(r) PROVE SelfInv'
  <2> DEFINE e == [token |-> opened', id |-> req[r].as]
  <2>1. opened \in Nat /\ opened' = opened + 1 /\ opened' \in 0 .. MaxSession /\ opened < MaxSession
    BY <1>6, ControllerAssumption DEF Login, PageTypes
  <2>2. Goes(r, "keeps", req[r].srv, opened', req[r].answer, req[r].rows)
    BY <1>6, <2>1, GoesWithToken DEF Login, Places
  <2>3. work' = work /\ UNCHANGED <<life, tokens>> /\ sessions' \subseteq sessions \cup {e}
        /\ e.token = opened' /\ e.id = req[r].as
    BY <1>6 DEF Login
  <2> HIDE DEF e
  <2>4. /\ \A x \in sessions : x.token \in Nat
        /\ \A n \in Name : tokens[n] \in Nat
        /\ \A q \in Slot : req[q].token \in Nat
    BY ControllerAssumption DEF PageTypes, PageRequest
  <2>5. /\ \A x \in sessions : x.token <= opened' /\ x.token # opened'
        /\ \A n \in Name : tokens[n] <= opened' /\ tokens[n] # opened'
        /\ \A q \in Slot : req[q].token <= opened' /\ req[q].token # opened'
    BY <2>1, <2>4 DEF SelfInv
  <2>6. \A q \in Slot : req'[q].token <= opened'
    BY <2>1, <2>2, <2>5 DEF Goes
  <2>7. \A x \in sessions' : (x \in sessions \/ x = e) /\ x.token <= opened'
    BY <2>1, <2>3, <2>5
  <2>8. \A n \in Name, x \in sessions' : x.token = tokens[n] => x.id = Now(n)
    BY <2>3, <2>5, <2>7 DEF SelfInv
  <2>9. \A q \in Slot, x \in sessions' : req'[q].at \in {"keeps", "asks"} /\ x.token = req'[q].token => x.id = req'[q].as
    <3>1. \A q \in Slot, x \in sessions' : q # r /\ req[q].at \in {"keeps", "asks"} /\ x.token = req[q].token => x.id = req[q].as
      BY <2>3, <2>5, <2>7 DEF SelfInv
    <3>2. \A x \in sessions' : x.token = opened' => x.id = req[r].as
      BY <2>3, <2>5, <2>7
    <3> QED
      BY <2>2, <3>1, <3>2 DEF Goes
  <2>10. \A n : Now(n)' = Now(n)
    BY <2>3 DEF Now
  <2>11. \A j \in work' : j.id = j.as
    BY <2>3 DEF SelfInv
  <2> QED
    BY <2>3, <2>5, <2>6, <2>7, <2>8, <2>9, <2>10, <2>11 DEF SelfInv
<1>7. ASSUME NEW r \in Slot, KeepsToken(r) PROVE SelfInv'
  <2>1. Goes(r, "asks", req[r].srv, req[r].token, req[r].answer, req[r].rows)
    BY <1>7, GoesAt DEF KeepsToken, To, Places
  <2>2. /\ work' = work /\ UNCHANGED <<life, opened, sessions>> /\ Current(r) /\ req[r].at = "keeps"
        /\ tokens' = [tokens EXCEPT ![NameOf(r)] = req[r].token]
    BY <1>7 DEF KeepsToken, Current, indexVars
  <2>3. \A n \in Name : tokens'[n] = IF n = NameOf(r) THEN req[r].token ELSE tokens[n]
    BY <2>2 DEF PageTypes
  <2>4. req[r].as = Now(NameOf(r))
    BY <2>2 DEF LifeInv
  <2>5. \A x \in sessions : x.token = req[r].token => x.id = req[r].as
    BY <2>2 DEF SelfInv
  <2>6. \A q \in Slot : req'[q].token <= opened
    BY <2>1, <1>s DEF Goes
  <2>7. \A q \in Slot : req'[q] = req[q] \/ \A x \in sessions : x.token = req'[q].token => x.id = req'[q].as
    BY <2>1, <2>5 DEF Goes
  <2>8. \A n : Now(n)' = Now(n)
    BY <2>2 DEF Now
  <2> QED
    BY <2>2, <2>3, <2>4, <2>6, <2>7, <2>8, SelfKept
<1>8. ASSUME NEW r \in Slot, Sends(r) PROVE SelfInv'
  <2> DEFINE s == IF {x \in sessions : x.token = req[r].token} = {} THEN "refused" ELSE "hears"
  <2>0. s \in {"refused", "hears"} /\ s \in Places
    BY DEF Places
  <2>1. req' = At(r, s) /\ req[r].at = "asks" /\ UNCHANGED <<life, tokens, opened, sessions>>
    BY <1>8 DEF Sends, To
  <2>2. Goes(r, s, req[r].srv, req[r].token, req[r].answer, req[r].rows)
    BY <2>0, <2>1, GoesAt
  <2>3. \A k \in work' : k.id = k.as \/ \E j \in work : k.id = j.id /\ k.as = j.as
    BY <1>8, <2>1, SendsWork DEF SelfInv
  <2>4. \A q \in Slot : req'[q].token <= opened
    BY <2>2, <1>s DEF Goes
  <2>5. \A q \in Slot : req'[q].at \in {"keeps", "asks"} => req'[q] = req[q]
    BY <2>0, <2>2 DEF Goes
  <2>6. \A n : Now(n)' = Now(n)
    BY <2>1 DEF Now
  <2> QED
    BY <2>1, <2>3, <2>4, <2>5, <2>6, SelfKept
<1>9. ASSUME NEW r \in Slot, HearsRefusal(r) PROVE SelfInv'
  <2>0. UNCHANGED <<life, opened, sessions, work>>
    BY <1>9 DEF HearsRefusal, indexVars
  <2>1. CASE Replied(r, "refused", {}) /\ UNCHANGED tokens
    BY <2>0, <2>1, SelfReplied
  <2>2. CASE tokens' = [tokens EXCEPT ![NameOf(r)] = NoSession]
               /\ req' = [req EXCEPT ![r].at = "login", ![r].again = TRUE] /\ UNCHANGED <<lists, lock>>
    <3>1. Goes(r, "login", req[r].srv, req[r].token, req[r].answer, req[r].rows)
      BY <2>2, GoesAgain DEF Places
    <3>2. \A n \in Name : tokens'[n] \in {tokens[n], NoSession}
      BY <2>2, <1>t
    <3> QED
      BY <2>0, <3>1, <3>2, SelfGo DEF Goes
  <2> QED
    BY <1>9, <2>1, <2>2 DEF HearsRefusal
<1>12. ASSUME NEW r \in Slot, RemovesAccount(r) PROVE SelfInv'
  <2>1. Goes(r, "done", req[r].srv, req[r].token, req[r].answer, req[r].rows)
    BY <1>12, GoesAt DEF RemovesAccount, To, Places
  <2>2. /\ UNCHANGED <<tokens, sessions, opened, work>> /\ req[r].at = "removes"
        /\ life' = [life EXCEPT ![NameOf(r)] = 0]
    BY <1>12 DEF RemovesAccount, indexVars
  <2>3. req[r].kind = "erase"
    BY <2>2 DEF PathInv, PathOf, Asking, PageTypes, PageRequest
  <2>4. tokens[NameOf(r)] = NoSession
    BY <2>2, <2>3 DEF LifeInv
  <2>5. \A n \in Name : n # NameOf(r) => Now(n)' = Now(n)
    BY <2>2 DEF PageTypes, Now
  <2>6. \A n \in Name : tokens'[n] = NoSession \/ (Now(n)' = Now(n) /\ tokens'[n] = tokens[n])
    BY <2>2, <2>4, <2>5
  <2>7. \A q \in Slot : req'[q].token <= opened
    BY <2>1, <1>s DEF Goes
  <2>8. \A q \in Slot : req'[q].at \in {"keeps", "asks"} => req'[q] = req[q]
    BY <2>1 DEF Goes
  <2> QED
    BY <2>2, <2>6, <2>7, <2>8, SelfKept
<1>13. ASSUME NEW r \in Slot, Answered(r) \/ PageHangsUp(r) PROVE SelfInv'
  <2>1. Ends(r) /\ UNCHANGED <<life, tokens, sessions, opened>>
    BY <1>13, EndsThere DEF Answered, PageHangsUp, indexVars
  <2>2. \A k \in work' : \E j \in work : k.id = j.id /\ k.as = j.as
    BY <1>13, UnheardDeafens DEF Deafened, Answered, PageHangsUp, indexVars
  <2>3. req'[r].token = NoSession /\ req'[r].at = "idle" /\ \A q \in Slot : q # r => req'[q] = req[q]
    BY <2>1, NoneUnderWay DEF Ends
  <2> QED
    BY <2>1, <2>2, <2>3, SelfGo
<1>14. ASSUME NEW r \in Slot, LoginFails(r) PROVE SelfInv'
  <2>1. UNCHANGED <<life, tokens, sessions, opened, work>> /\ Replied(r, "failed", {})
    BY <1>14 DEF LoginFails, indexVars
  <2> QED
    BY <2>1, SelfReplied
<1>15. ASSUME NEW r \in Slot, GivesUp(r) PROVE SelfInv'
  <2>1. \A k \in work' : \E j \in work : k.id = j.id /\ k.as = j.as
    BY <1>15, UnheardDeafens DEF Deafened, GivesUp
  <2>2. UNCHANGED <<life, tokens, sessions, opened>> /\ Replied(r, "failed", {})
    BY <1>15 DEF GivesUp
  <2> QED
    BY <2>1, <2>2, SelfReplied
<1>17. ASSUME NEW j \in work, DoesList(j) PROVE SelfInv'
  <2>0. UNCHANGED <<life, tokens, opened, sessions>>
    BY <1>17 DEF DoesList
  <2>1. CASE ~j.half /\ work' = (work \ {j}) \cup {[j EXCEPT !.half = TRUE, !.rows = OwnedBy(j.id)]}
               /\ UNCHANGED <<req, lists, lock>>
    <3> DEFINE c == [j EXCEPT !.half = TRUE, !.rows = OwnedBy(j.id)]
    <3>1. OwnedBy(j.id) \in SUBSET ServerNo
      BY DEF OwnedBy, PageTypes
    <3>2. c.as = j.as /\ c.id = j.id
      BY <3>1, HalfThrough
    <3>3. \A k \in work' : k \in work \/ k = c
      BY <2>1
    <3> HIDE DEF c
    <3> QED
      BY <1>1, <2>0, <2>1, <3>2, <3>3
  <2>2. CASE Finishes(j, "ok", j.rows)
    BY <2>0, <2>2, <1>w, SelfFinished DEF Job
  <2> QED
    BY <1>17, <2>1, <2>2 DEF DoesList
<1>18. ASSUME NEW j \in work, DoesDeploy(j) PROVE SelfInv'
  <2>0. UNCHANGED <<life, tokens, opened, sessions>> /\ \A k \in work' : k \in work
    BY <1>18 DEF DoesDeploy
  <2>1. CASE ~j.heard
    BY <1>1, <1>18, <2>0, <2>1 DEF DoesDeploy
  <2>2. CASE j.heard
    <3>1. made' \in ServerNo
      BY <1>18, ControllerAssumption DEF DoesDeploy, PageTypes, ServerNo
    <3>2. Goes(j.slot, "clears", made', req[j.slot].token, "ok", req[j.slot].rows)
      BY <1>18, <1>w, <2>2, <3>1, GoesMade DEF DoesDeploy, Places, AfterChange
    <3> QED
      BY <1>w, <2>0, <3>2, SelfGo DEF Goes
  <2> QED
    BY <2>1, <2>2
<1>19. ASSUME NEW j \in work, DoesRemove(j) PROVE SelfInv'
  BY <1>19, SelfFinished DEF DoesRemove
<1>20. ASSUME NEW j \in work, DoesErase(j) PROVE SelfInv'
  <2>0. UNCHANGED <<life, tokens, opened>> /\ sessions' \subseteq sessions
    BY <1>20 DEF DoesErase
  <2>1. CASE ~j.half /\ work' = (work \ {j}) \cup {[j EXCEPT !.half = TRUE]} /\ UNCHANGED <<req, lists, lock>>
    <3> DEFINE c == [j EXCEPT !.half = TRUE]
    <3>2. c.as = j.as /\ c.id = j.id
      BY HalfThrough
    <3>3. \A k \in work' : k \in work \/ k = c
      BY <2>1
    <3> HIDE DEF c
    <3> QED
      BY <1>1, <2>0, <2>1, <3>2, <3>3
  <2>2. CASE Finishes(j, "ok", {})
    BY <2>0, <2>2, SelfFinished
  <2> QED
    BY <1>20, <2>1, <2>2 DEF DoesErase
<1>21. ASSUME NEW j \in work, DoesNot(j) PROVE SelfInv'
  BY <1>21, SelfFinished DEF DoesNot
<1>22. ASSUME NEW n \in Name, TakesName(n) PROVE SelfInv'
  <2>1. UNCHANGED <<tokens, sessions, opened, req, work>> /\ life[n] = 0 /\ life' = [life EXCEPT ![n] = lives'[n]]
    BY <1>22 DEF TakesName, indexVars
  <2>2. \A m : m # n => Now(m)' = Now(m)
    BY <2>1 DEF PageTypes, Now
  <2>3. tokens[n] = NoSession
    BY <2>1 DEF LifeInv
  <2>4. \A m \in Name : tokens'[m] = NoSession \/ (Now(m)' = Now(m) /\ tokens'[m] = tokens[m])
    BY <2>1, <2>2, <2>3
  <2>5. \A q \in Slot : req'[q].token <= opened
    BY <2>1, <1>s
  <2> QED
    BY <2>1, <2>4, <2>5, SelfKept
<1>24. CASE SessionsEnd \/ (\E n \in Name : ListAges(n)) \/ UNCHANGED controllerVars
  <2>1. UNCHANGED <<req, opened, tokens, life, work>> /\ sessions' \subseteq sessions
    BY <1>24 DEF SessionsEnd, ListAges, nodeVars, indexVars, controllerVars
  <2> QED
    BY <2>1, <1>1
<1>25. CASE NodeRestarts
  <2>1. \A r \in Slot : req'[r] = NoRequest
    BY <1>25 DEF NodeRestarts
  <2>2. UNCHANGED <<opened, sessions>> /\ \A n \in Name : tokens'[n] = NoSession
    BY <1>25 DEF NodeRestarts
  <2>3. \A k \in work' : \E j \in work : k.id = j.id /\ k.as = j.as
    BY <1>25, RestartDeafens DEF Deafened, NodeRestarts
  <2>4. 0 <= opened
    BY ControllerAssumption DEF PageTypes
  <2>5. \A q \in Slot : req'[q].token <= opened /\ req'[q].at \notin {"keeps", "asks"}
    BY <2>1, <2>4, NoneUnderWay
  <2> QED
    BY <2>2, <2>3, <2>5, SelfKept
<1> QED
  BY <1>2, <1>3, <1>4, <1>5, <1>6, <1>7, <1>8, <1>9, <1>12, <1>13, <1>14, <1>15,
     <1>17, <1>18, <1>19, <1>20, <1>21, <1>22, <1>24, <1>25 DEF ControllerNext, PageStep, IndexStep

\* What a request earned, as it moves on.
LEMMA EarnedGoes ==
  ASSUME NEW r \in Slot, NEW s, NEW x, NEW t, NEW a, NEW w, Goes(r, s, x, t, a, w)
  PROVE  /\ \A q \in Slot : q # r => Earned(q)' = Earned(q)
         /\ a # "ok" \/ req[r].kind \in {"list", "erase"} => Earned(r)' = {}
         /\ a = req[r].answer /\ x = req[r].srv => Earned(r)' = Earned(r)
         /\ \A f \in Earned(r)' : /\ f \in Fact /\ f.srv = x /\ f.as = req[r].as
                                  /\ req[r].kind = "deploy" => f.how = "made"
                                  /\ req[r].kind = "remove" => f.how = "gone"
<1>1. \A q \in Slot : q # r => Earned(q)' = Earned(q)
  BY DEF Goes, Earned
<1>2. a # "ok" \/ req[r].kind \in {"list", "erase"} => Earned(r)' = {}
  BY DEF Goes, Earned
<1>3. a = req[r].answer /\ x = req[r].srv => Earned(r)' = Earned(r)
  BY DEF Goes, Earned
<1>4. \A f \in Earned(r)' : /\ f \in Fact /\ f.srv = x /\ f.as = req[r].as
                            /\ req[r].kind = "deploy" => f.how = "made"
                            /\ req[r].kind = "remove" => f.how = "gone"
  BY DEF Goes, Earned
<1> QED
  BY <1>1, <1>2, <1>3, <1>4

\* A request without an answer has earned nothing.
LEMMA EarnedNone ==
  \A r \in Slot : req[r].answer # "ok" => Earned(r) = {}
BY DEF Earned

LEMMA EarnedNoneNext ==
  \A r \in Slot : req'[r].answer # "ok" => Earned(r)' = {}
BY DEF Earned

\* No server comes, and nothing is earned but what holds.
LEMMA ServersKept ==
  ASSUME ServersInv, servers' \subseteq servers, UNCHANGED made,
         \A f \in Fact : f \in told' \/ (\E r \in Slot : f \in Earned(r)') =>
           \/ f \in told \/ (\E r \in Slot : f \in Earned(r))
           \/ f.srv <= made /\ (f.how = "gone" => \A x \in servers' : x.srv # f.srv)
  PROVE  ServersInv'
<1>1. \A x, y \in servers' : x.srv = y.srv => x = y
  BY DEF ServersInv
<1>2. \A x \in servers' : x.srv <= made
  BY DEF ServersInv
<1>3. \A f \in Fact : f \in told' \/ (\E r \in Slot : f \in Earned(r)') =>
         f.srv <= made /\ (f.how = "gone" => \A x \in servers' : x.srv # f.srv)
  BY DEF ServersInv
<1> QED
  BY <1>1, <1>2, <1>3 DEF ServersInv

\* ServersInv where a reply comes back.
LEMMA ServersReplied ==
  ASSUME PageTypes, ServersInv, NEW r \in Slot, NEW a \in {"ok", "refused", "failed"}, NEW w \in SUBSET ServerNo,
         Replied(r, a, w), servers' \subseteq servers, UNCHANGED <<made, told>>,
         a = "ok" => \/ req[r].kind \in {"list", "erase"}
                     \/ req[r].kind = "remove" /\ req[r].srv <= made /\ \A x \in servers' : x.srv # req[r].srv
  PROVE  ServersInv'
<1>1. PICK s, y : Goes(r, s, req[r].srv, req[r].token, a, y)
  BY GoesReplied
<1>2. \A q \in Slot : q # r => Earned(q)' = Earned(q)
  BY <1>1, EarnedGoes
<1>3. \A f \in Earned(r)' : f.srv <= made /\ (f.how = "gone" => \A x \in servers' : x.srv # f.srv)
  BY <1>1, EarnedGoes
<1> QED
  BY <1>2, <1>3, ServersKept

\* ServersInv where a piece of work ends.
LEMMA ServersFinished ==
  ASSUME PageTypes, HearsInv, ServersInv, NEW j \in work, NEW a \in {"ok", "failed"}, NEW w \in SUBSET ServerNo,
         Finishes(j, a, w), servers' \subseteq servers, UNCHANGED <<made, told>>,
         a = "ok" => \/ j.kind \in {"list", "erase"}
                     \/ j.kind = "remove" /\ j.srv <= made /\ \A x \in servers' : x.srv # j.srv
  PROVE  ServersInv'
<1>1. j.slot \in Slot
  BY DEF PageTypes, Job
<1>2. CASE j.heard
  <2>1. Replied(j.slot, a, w) /\ req[j.slot].kind = j.kind /\ req[j.slot].srv = j.srv
    BY <1>2 DEF Finishes, HearsInv
  <2> QED
    BY <1>1, <2>1, ServersReplied
<1>3. CASE ~j.heard
  <2>1. \A r \in Slot : Earned(r)' = Earned(r)
    BY <1>3 DEF Finishes, Earned
  <2> QED
    BY <2>1, ServersKept
<1> QED
  BY <1>2, <1>3

\* Every step keeps ServersInv.
LEMMA ServersStep ==
  ASSUME PageTypes, PathInv, HearsInv, ServersInv, [ControllerNext]_controllerVars
  PROVE  ServersInv'
<1>n. \A r \in Slot : req[r].at # "idle" => NameOf(r) \in Name
  BY DEF PathInv, PathOf, NameOf, Identity
<1>w. \A j \in work : j \in Job /\ j.slot \in Slot
  BY DEF PageTypes, Job
<1>1. ASSUME UNCHANGED <<req, servers, made, told>> PROVE ServersInv'
  <2>1. \A r \in Slot : Earned(r)' = Earned(r)
    BY <1>1 DEF Earned
  <2> QED
    BY <1>1, <2>1, ServersKept
<1>g. ASSUME UNCHANGED <<servers, made, told>>, NEW r \in Slot, NEW s, NEW t, NEW w,
             Goes(r, s, req[r].srv, t, req[r].answer, w)
      PROVE  ServersInv'
  <2>1. \A q \in Slot : Earned(q)' = Earned(q)
    BY <1>g, EarnedGoes
  <2> QED
    BY <1>g, <2>1, ServersKept
<1>2. ASSUME NEW r \in Slot, NEW n \in Name, PageAsks(r, n) \/ Erases(r, n) PROVE ServersInv'
  <2>1. PICK s \in {"waits", "drops", "token"}, k \in {"list", "deploy", "remove", "erase"}, x \in ServerNo \cup {0} :
          Starts(r, n, s, k, x)
    <3>1. \A x \in OwnedBy(<<n, life[n]>>) : x \in ServerNo
      BY DEF OwnedBy, PageTypes
    <3>2. CASE Erases(r, n)
      BY <3>2 DEF Erases
    <3>3. CASE PageAsks(r, n)
      BY <3>1, <3>3 DEF PageAsks
    <3> QED
      BY <1>2, <3>2, <3>3
  <2>2. Begins(r, n, s, k, x) /\ UNCHANGED <<servers, made, told>>
    BY <2>1, StartsBegins DEF Places, Starts, indexVars
  <2>3. \A q \in Slot : q # r => Earned(q)' = Earned(q)
    BY <2>2 DEF Begins, Earned
  <2>4. Earned(r)' = {}
    BY <2>2, EarnedNoneNext DEF Begins
  <2> QED
    BY <2>2, <2>3, <2>4, ServersKept
<1>3. ASSUME NEW r \in Slot, ListsOrAsks(r) PROVE ServersInv'
  <2>0. req[r].at = "waits" /\ UNCHANGED <<servers, made, told>>
    BY <1>3 DEF ListsOrAsks, indexVars
  <2>1. CASE \E rows \in lists[NameOf(r)] :
               req' = [req EXCEPT ![r].at = "done", ![r].answer = "ok", ![r].rows = rows]
    <3>1. NameOf(r) \in Name
      BY <2>0, <1>n
    <3>2. PICK w \in SUBSET ServerNo : req' = [Answers(r, "done", "ok") EXCEPT ![r].rows = w]
      BY <2>1, <3>1 DEF PageTypes, Answers
    <3>3. Goes(r, "done", req[r].srv, req[r].token, "ok", w)
      BY <3>2, GoesListed DEF Places
    <3>4. req[r].kind = "list"
      BY <2>0 DEF PathInv, PathOf, Asking, PageTypes, PageRequest
    <3>5. Earned(r)' = {} /\ \A q \in Slot : q # r => Earned(q)' = Earned(q)
      BY <3>3, <3>4, EarnedGoes
    <3> QED
      BY <2>0, <3>5, ServersKept
  <2>2. CASE req' = At(r, "token")
    <3>1. Goes(r, "token", req[r].srv, req[r].token, req[r].answer, req[r].rows)
      BY <2>2, GoesAt DEF Places
    <3> QED
      BY <2>0, <3>1, <1>g
  <2> QED
    BY <1>3, <2>1, <2>2 DEF ListsOrAsks, To
<1>4. ASSUME NEW r \in Slot, NEW s \in Places, req' = At(r, s), UNCHANGED <<servers, made, told>> PROVE ServersInv'
  <2>1. Goes(r, s, req[r].srv, req[r].token, req[r].answer, req[r].rows)
    BY <1>4, GoesAt
  <2> QED
    BY <1>4, <2>1, <1>g
<1>5. ASSUME NEW r \in Slot, DropsList(r) \/ KeepsToken(r) \/ Sends(r) \/ Forgets(r) \/ ForgetsList(r) \/ RemovesAccount(r)
      PROVE  ServersInv'
  <2>1. UNCHANGED <<servers, made, told>>
    BY <1>5 DEF DropsList, KeepsToken, Sends, Forgets, ForgetsList, RemovesAccount, indexVars
  <2>2. PICK s : s \in Places /\ req' = At(r, s)
    BY <1>5 DEF DropsList, KeepsToken, Sends, Forgets, ForgetsList, RemovesAccount, To, Places
  <2> QED
    BY <2>1, <2>2, <1>4
<1>6. ASSUME NEW r \in Slot, TokenOrLogin(r) PROVE ServersInv'
  <2> DEFINE t == tokens[NameOf(r)]
             s == IF t = NoSession THEN "login" ELSE "asks"
  <2>1. /\ req' = [req EXCEPT ![r].at = s, ![r].token = t] /\ req[r].at = "token"
        /\ UNCHANGED <<servers, made, told>>
    BY <1>6 DEF TokenOrLogin, indexVars
  <2>2. s \in Places
    BY DEF Places
  <2>3. t \in 0 .. MaxSession
    BY <2>1, <1>n DEF PageTypes
  <2> HIDE DEF s, t
  <2>4. Goes(r, s, req[r].srv, t, req[r].answer, req[r].rows)
    BY <2>1, <2>2, <2>3, GoesWithToken
  <2> QED
    BY <2>1, <2>4, <1>g
<1>7. ASSUME NEW r \in Slot, Login(r) PROVE ServersInv'
  <2>1. opened' \in 0 .. MaxSession
    BY <1>7, ControllerAssumption DEF Login, PageTypes
  <2>2. Goes(r, "keeps", req[r].srv, opened', req[r].answer, req[r].rows)
    BY <1>7, <2>1, GoesWithToken DEF Login, Places
  <2>3. UNCHANGED <<servers, made, told>>
    BY <1>7 DEF Login
  <2> QED
    BY <2>2, <2>3, <1>g
<1>9. ASSUME NEW r \in Slot, HearsRefusal(r) PROVE ServersInv'
  <2>0. UNCHANGED <<servers, made, told>>
    BY <1>9 DEF HearsRefusal, indexVars
  <2>1. CASE Replied(r, "refused", {})
    BY <2>0, <2>1, ServersReplied
  <2>2. CASE req' = [req EXCEPT ![r].at = "login", ![r].again = TRUE]
    <3>1. Goes(r, "login", req[r].srv, req[r].token, req[r].answer, req[r].rows)
      BY <2>2, GoesAgain DEF Places
    <3> QED
      BY <2>0, <3>1, <1>g
  <2> QED
    BY <1>9, <2>1, <2>2 DEF HearsRefusal
<1>13. ASSUME NEW r \in Slot, Answered(r) \/ PageHangsUp(r) PROVE ServersInv'
  <2>1. Ends(r) /\ UNCHANGED <<servers, made>>
    BY <1>13, EndsThere DEF Answered, PageHangsUp, indexVars
  <2>2. told' \subseteq told \cup Earned(r)
    BY <1>13 DEF Answered, PageHangsUp, Earned
  <2>3. Earned(r)' = {}
    BY <2>1, NoneUnderWay, EarnedNoneNext DEF Ends
  <2>4. \A q \in Slot : q # r => Earned(q)' = Earned(q)
    BY <2>1 DEF Ends, Earned
  <2> QED
    BY <2>1, <2>2, <2>3, <2>4, ServersKept
<1>14. ASSUME NEW r \in Slot, LoginFails(r) \/ GivesUp(r) PROVE ServersInv'
  <2>1. UNCHANGED <<servers, made, told>> /\ Replied(r, "failed", {})
    BY <1>14 DEF LoginFails, GivesUp, indexVars
  <2> QED
    BY <2>1, ServersReplied
<1>17. ASSUME NEW j \in work, DoesList(j) PROVE ServersInv'
  <2>0. UNCHANGED <<servers, made, told>>
    BY <1>17 DEF DoesList
  <2>1. CASE UNCHANGED <<req, lists, lock>>
    BY <2>0, <2>1, <1>1
  <2>2. CASE Finishes(j, "ok", j.rows)
    BY <1>17, <2>0, <2>2, <1>w, ServersFinished DEF Job, DoesList
  <2> QED
    BY <1>17, <2>1, <2>2 DEF DoesList
<1>18. ASSUME NEW j \in work, DoesDeploy(j) PROVE ServersInv'
  <2> DEFINE e == [srv |-> made', owner |-> j.id]
  <2>0. made \in Nat /\ \A x \in servers : x.srv \in Nat
    BY ControllerAssumption DEF PageTypes, ServerNo
  <2>1. /\ made' = made + 1 /\ servers' = servers \cup {e} /\ e.srv = made + 1 /\ told' = told
    BY <1>18 DEF DoesDeploy
  <2> HIDE DEF e
  <2>2. made' \in ServerNo
    BY <1>18, ControllerAssumption DEF DoesDeploy, PageTypes, ServerNo
  <2>3. \A x \in servers : x.srv <= made' /\ x.srv # made'
    BY <2>0, <2>1 DEF ServersInv
  <2>4. \A x, y \in servers' : x.srv = y.srv => x = y
    BY <2>1, <2>3 DEF ServersInv
  <2>5. \A x \in servers' : x.srv <= made'
    BY <2>0, <2>1, <2>3
  <2>6. \A f \in Fact : f \in told \/ (\E r \in Slot : f \in Earned(r)) =>
          f.srv <= made' /\ (f.how = "gone" => \A x \in servers' : x.srv # f.srv)
    <3> SUFFICES ASSUME NEW f \in Fact, f \in told \/ (\E r \in Slot : f \in Earned(r))
                 PROVE  f.srv <= made' /\ (f.how = "gone" => \A x \in servers' : x.srv # f.srv)
      OBVIOUS
    <3>1. f.srv \in Nat
      BY DEF Fact, ServerNo
    <3>2. f.srv <= made /\ (f.how = "gone" => \A x \in servers : x.srv # f.srv)
      BY DEF ServersInv
    <3>3. f.srv # made + 1 /\ f.srv <= made + 1
      BY <2>0, <3>1, <3>2
    <3> QED
      BY <2>1, <3>2, <3>3
  <2>7. \A f \in Fact : (\E r \in Slot : f \in Earned(r)') =>
          \/ \E r \in Slot : f \in Earned(r)
          \/ f.srv = made' /\ f.how = "made"
    <3>1. CASE ~j.heard
      <4>1. \A r \in Slot : Earned(r)' = Earned(r)
        BY <1>18, <3>1 DEF DoesDeploy, Earned
      <4> QED
        BY <4>1
    <3>2. CASE j.heard
      <4>1. Goes(j.slot, "clears", made', req[j.slot].token, "ok", req[j.slot].rows)
        BY <1>18, <1>w, <2>2, <3>2, GoesMade DEF DoesDeploy, Places, AfterChange
      <4>2. req[j.slot].kind = "deploy"
        BY <1>18, <3>2 DEF DoesDeploy, HearsInv
      <4>3. \A f \in Earned(j.slot)' : f.srv = made' /\ f.how = "made"
        BY <1>w, <4>1, <4>2, EarnedGoes
      <4>4. \A q \in Slot : q # j.slot => Earned(q)' = Earned(q)
        BY <1>w, <4>1, EarnedGoes
      <4> QED
        BY <4>3, <4>4
    <3> QED
      BY <3>1, <3>2
  <2>8. \A f \in Fact : f \in told' \/ (\E r \in Slot : f \in Earned(r)') =>
          f.srv <= made' /\ (f.how = "gone" => \A x \in servers' : x.srv # f.srv)
    BY <2>0, <2>1, <2>6, <2>7
  <2> QED
    BY <2>4, <2>5, <2>8 DEF ServersInv
<1>19. ASSUME NEW j \in work, DoesRemove(j) PROVE ServersInv'
  <2> DEFINE e == [srv |-> j.srv, owner |-> j.id]
             a == IF j.srv \in OwnedBy(j.id) THEN "ok" ELSE "failed"
  <2>1. servers' = servers \ {e} /\ Finishes(j, a, {}) /\ UNCHANGED <<made, told>> /\ j.kind = "remove"
    BY <1>19 DEF DoesRemove
  <2>2. ASSUME a = "ok" PROVE j.srv <= made /\ \A x \in servers' : x.srv # j.srv
    <3>1. PICK x \in servers : x.srv = j.srv /\ x.owner = j.id
      BY <2>2 DEF OwnedBy
    <3>2. x = e
      BY <3>1 DEF PageTypes
    <3> QED
      BY <2>1, <3>1, <3>2 DEF ServersInv
  <2>3. a \in {"ok", "failed"} /\ servers' \subseteq servers
    BY <2>1
  <2> HIDE DEF a, e
  <2> QED
    BY <2>1, <2>2, <2>3, ServersFinished
<1>20. ASSUME NEW j \in work, DoesErase(j) PROVE ServersInv'
  <2>0. UNCHANGED <<made, told>> /\ servers' \subseteq servers /\ j.kind = "erase"
    BY <1>20 DEF DoesErase
  <2>1. CASE UNCHANGED <<req, lists, lock>>
    <3>1. \A r \in Slot : Earned(r)' = Earned(r)
      BY <2>1 DEF Earned
    <3> QED
      BY <2>0, <3>1, ServersKept
  <2>2. CASE Finishes(j, "ok", {})
    BY <2>0, <2>2, ServersFinished
  <2> QED
    BY <1>20, <2>1, <2>2 DEF DoesErase
<1>21. ASSUME NEW j \in work, DoesNot(j) PROVE ServersInv'
  <2>1. UNCHANGED <<made, told>> /\ servers' \subseteq servers /\ Finishes(j, "failed", {})
    BY <1>21 DEF DoesNot
  <2> QED
    BY <2>1, ServersFinished
<1>24. CASE SessionsEnd \/ (\E n \in Name : TakesName(n) \/ ListAges(n)) \/ UNCHANGED controllerVars
  <2>1. UNCHANGED <<req, servers, made, told>>
    BY <1>24 DEF SessionsEnd, TakesName, ListAges, nodeVars, indexVars, controllerVars
  <2> QED
    BY <2>1, <1>1
<1>25. CASE NodeRestarts
  <2>1. \A r \in Slot : req'[r] = NoRequest
    BY <1>25 DEF NodeRestarts
  <2>2. UNCHANGED <<servers, made, told>>
    BY <1>25 DEF NodeRestarts
  <2>3. \A r \in Slot : Earned(r)' = {}
    BY <2>1, NoneUnderWay, EarnedNoneNext
  <2> QED
    BY <2>2, <2>3, ServersKept
<1> QED
  BY <1>2, <1>3, <1>5, <1>6, <1>7, <1>9, <1>13, <1>14,
     <1>17, <1>18, <1>19, <1>20, <1>21, <1>24, <1>25 DEF ControllerNext, PageStep, IndexStep

\* A list of the account that holds what it was told of a fact, after a step.
HasNext(rows, f) == IF f.how = "gone" THEN f.srv \notin rows
                    ELSE f.srv \in rows \/ f.srv \notin OwnedBy(f.as)'

\* A server that comes has a number no server had before.
OnlyNewServers == \A x \in servers' : x \in servers \/ x.srv > made

\* A fact that a list shows is shown by it for good.
LEMMA HasStays ==
  ASSUME PageTypes, OnlyNewServers
  PROVE  \A rows : \A f \in Fact : Has(rows, f) /\ f.srv <= made => HasNext(rows, f)
<1> SUFFICES ASSUME NEW rows, NEW f \in Fact, Has(rows, f), f.srv <= made PROVE HasNext(rows, f)
  OBVIOUS
<1>1. CASE f.how = "gone" \/ f.srv \in rows
  BY <1>1 DEF Has, HasNext
<1>2. CASE f.how # "gone" /\ f.srv \notin OwnedBy(f.as)
  <2>1. ASSUME f.srv \in OwnedBy(f.as)' PROVE FALSE
    <3>1. PICK x \in servers' : x.srv = f.srv /\ x.owner = f.as
      BY <2>1 DEF OwnedBy
    <3>2. x \notin servers
      BY <1>2, <3>1 DEF OwnedBy
    <3>3. f.srv > made
      BY <3>1, <3>2 DEF OnlyNewServers
    <3>4. f.srv \in Nat /\ made \in Nat
      BY DEF Fact, ServerNo, PageTypes
    <3> QED
      BY <3>3, <3>4
  <2> QED
    BY <1>2, <2>1 DEF HasNext
<1> QED
  BY <1>1, <1>2 DEF Has

\* Whoever was told of a change, it counts only servers there have been.
LEMMA SettledCounted ==
  ASSUME PageTypes, ServersInv
  PROVE  /\ \A f \in Fact : Settled(f) \/ (\E r \in Slot : f \in Earned(r)) => f.srv <= made
         /\ \A f : Settled(f) => f \in Fact
<1>1. \A f \in Fact : Settled(f) => f \in told \/ \E r \in Slot : f \in Earned(r)
  BY DEF Settled
<1>2. \A f : Settled(f) => f \in Fact
  BY DEF Settled, Earned, PageTypes
<1> QED
  BY <1>1, <1>2 DEF ServersInv

\* What every list has to show after a step.
LEMMA ListsShown ==
  ASSUME PageTypes, ServersInv, OnlyNewServers,
         \A f \in Fact : Settled(f)' =>
           /\ Settled(f) \/ \E q \in Slot : f \in Earned(q)
           /\ \A n \in Name : f.as = Now(n)' => \A rows \in lists'[n] : Has(rows, f)
           /\ \A k \in work' : k.kind = "list" /\ k.half /\ k.heard /\ k.as = f.as => Has(k.rows, f),
         \A r \in Slot : \A f \in req'[r].seen : f \in told' /\ f.as = req'[r].as,
         \A r \in Slot : req'[r].at = "done" /\ req'[r].kind = "list" /\ req'[r].answer = "ok" =>
           \A f \in req'[r].seen : f \in told /\ Has(req'[r].rows, f)
  PROVE  ListsInv' /\ NextListHasChange'
<1>1. \A f \in Fact : Settled(f)' =>
         /\ \A n \in Name : f.as = Now(n)' => \A rows \in lists'[n] : HasNext(rows, f)
         /\ \A k \in work' : k.kind = "list" /\ k.half /\ k.heard /\ k.as = f.as => HasNext(k.rows, f)
  BY HasStays, SettledCounted
<1>2. \A r \in Slot : req'[r].at = "done" /\ req'[r].kind = "list" /\ req'[r].answer = "ok" =>
         \A f \in req'[r].seen : HasNext(req'[r].rows, f)
  <2> SUFFICES ASSUME NEW r \in Slot, req'[r].at = "done", req'[r].kind = "list", req'[r].answer = "ok",
                      NEW f \in req'[r].seen
               PROVE  HasNext(req'[r].rows, f)
    OBVIOUS
  <2>1. f \in told /\ Has(req'[r].rows, f)
    OBVIOUS
  <2>2. f \in Fact /\ f.srv <= made
    BY <2>1, SettledCounted DEF Settled
  <2> QED
    BY <2>1, <2>2, HasStays
<1>3. NextListHasChange'
  BY <1>2 DEF NextListHasChange, HasNext
<1>4. ListsInv'
  BY <1>1 DEF ListsInv, Has, HasNext
<1> QED
  BY <1>3, <1>4

\* A step that settles nothing, and keeps or drops what lists there are.
LEMMA ListsKept ==
  ASSUME PageTypes, ServersInv, ListsInv, NextListHasChange, OnlyNewServers,
         told \subseteq told', \A f \in Fact : Settled(f)' => Settled(f),
         \A n \in Name : lists'[n] = {} \/ (lists'[n] = lists[n] /\ life'[n] = life[n]),
         \A k \in work' : k.kind = "list" /\ k.half /\ k.heard => k \in work,
         \A r \in Slot : \A f \in req'[r].seen : f \in told /\ f.as = req'[r].as,
         \A r \in Slot : req'[r].at = "done" /\ req'[r].kind = "list" /\ req'[r].answer = "ok" =>
           req'[r] = req[r]
  PROVE  ListsInv' /\ NextListHasChange'
<1>1. ASSUME NEW f \in Fact, Settled(f)'
      PROVE  /\ Settled(f)
             /\ \A n \in Name : f.as = Now(n)' => \A rows \in lists'[n] : Has(rows, f)
             /\ \A k \in work' : k.kind = "list" /\ k.half /\ k.heard /\ k.as = f.as => Has(k.rows, f)
  <2>1. Settled(f)
    BY <1>1
  <2>2. \A n \in Name : f.as = Now(n)' => \A rows \in lists'[n] : Has(rows, f)
    <3> SUFFICES ASSUME NEW n \in Name, f.as = Now(n)', NEW rows \in lists'[n] PROVE Has(rows, f)
      OBVIOUS
    <3>1. rows \in lists[n] /\ f.as = Now(n)
      BY DEF Now
    <3> QED
      BY <2>1, <3>1 DEF ListsInv
  <2>3. \A k \in work' : k.kind = "list" /\ k.half /\ k.heard /\ k.as = f.as => Has(k.rows, f)
    BY <2>1 DEF ListsInv
  <2> QED
    BY <2>1, <2>2, <2>3
<1>2. ASSUME NEW r \in Slot, req'[r].at = "done", req'[r].kind = "list", req'[r].answer = "ok"
      PROVE  \A f \in req'[r].seen : f \in told /\ Has(req'[r].rows, f)
  <2>1. req'[r] = req[r]
    BY <1>2
  <2> QED
    BY <1>2, <2>1 DEF NextListHasChange, Has
<1> QED
  BY <1>1, <1>2, ListsShown

\* A request that moves on settles nothing, unless it ends a change.
LEMMA SettledGoes ==
  ASSUME NEW r \in Slot, NEW s, NEW x, NEW t, NEW a, NEW w, Goes(r, s, x, t, a, w), UNCHANGED told,
         s # "done" \/ req[r].kind \in {"list", "erase"}
  PROVE  \A f \in Fact : Settled(f)' => Settled(f)
<1>1. \A q \in Slot : q # r => Earned(q)' = Earned(q) /\ req'[q] = req[q]
  BY EarnedGoes DEF Goes
<1>2. req'[r].at # "done" \/ Earned(r)' = {}
  BY EarnedGoes DEF Goes
<1> QED
  BY <1>1, <1>2 DEF Settled

\* A request that moves on to what does not end it.
LEMMA ListsGo ==
  ASSUME PageTypes, ServersInv, ListsInv, NextListHasChange, OnlyNewServers,
         NEW r \in Slot, NEW s, NEW x, NEW t, NEW a, NEW w, Goes(r, s, x, t, a, w), UNCHANGED <<told, life>>,
         \/ s # "done"
         \/ req[r].kind = "erase"
         \/ req[r].kind = "list" /\ a # "ok",
         \A n \in Name : lists'[n] = {} \/ lists'[n] = lists[n],
         \A k \in work' : k.kind = "list" /\ k.half /\ k.heard => k \in work
  PROVE  ListsInv' /\ NextListHasChange'
<1>1. \A f \in Fact : Settled(f)' => Settled(f)
  BY SettledGoes
<1>2. \A q \in Slot : \A f \in req'[q].seen : f \in told /\ f.as = req'[q].as
  <2>1. \A q \in Slot : req'[q].seen = req[q].seen /\ req'[q].as = req[q].as
    BY DEF Goes
  <2> QED
    BY <2>1 DEF ListsInv
<1>3. \A q \in Slot : req'[q].at = "done" /\ req'[q].kind = "list" /\ req'[q].answer = "ok" => req'[q] = req[q]
  BY DEF Goes
<1> QED
  BY <1>1, <1>2, <1>3, ListsKept

\* A reply has come back: a list is kept for the account, with what it was told.
LEMMA ListsReplied ==
  ASSUME PageTypes, PathInv, LifeInv, ServersInv, ListsInv, NextListHasChange, OnlyNewServers,
         NEW r \in Slot, NEW a \in {"ok", "refused", "failed"}, NEW w \in SUBSET ServerNo,
         Replied(r, a, w), req[r].at # "idle", req[r].at # "done", UNCHANGED <<told, life>>,
         a = "ok" /\ req[r].kind = "list" => \A f \in Fact : Settled(f) /\ f.as = req[r].as => Has(w, f),
         \A k \in work' : k.kind = "list" /\ k.half /\ k.heard => k \in work
  PROVE  ListsInv' /\ NextListHasChange'
<1>1. req[r].kind \in {"list", "deploy", "remove", "erase"} /\ \A n \in Name : lists[n] = lists[n]
  BY GoesReplied
<1>2. CASE req[r].kind \in {"deploy", "remove", "erase"}
  <2>1. PICK s : Goes(r, s, req[r].srv, req[r].token, a, req[r].rows) /\ UNCHANGED lists
                 /\ (s # "done" \/ req[r].kind = "erase")
    BY <1>2, GoesReplied
  <2> QED
    BY <2>1, ListsGo
<1>3. CASE req[r].kind = "list" /\ a # "ok"
  <2>1. /\ Goes(r, "done", req[r].srv, req[r].token, a, w)
        /\ lists' = [lists EXCEPT ![NameOf(r)] = {}]
    BY <1>3, GoesReplied
  <2>2. \A n \in Name : lists'[n] = {} \/ lists'[n] = lists[n]
    BY <2>1 DEF PageTypes
  <2> QED
    BY <1>3, <2>1, <2>2, ListsGo
<1>4. CASE req[r].kind = "list" /\ a = "ok"
  <2>1. /\ Goes(r, "done", req[r].srv, req[r].token, "ok", w)
        /\ lists' = [lists EXCEPT ![NameOf(r)] = {w}]
    BY <1>4, GoesReplied
  <2>2. \A n \in Name : IF n = NameOf(r) THEN lists'[n] = {w} ELSE lists'[n] = lists[n]
    BY <2>1 DEF PageTypes
  <2>3. \A f \in Fact : Settled(f)' => Settled(f)
    BY <1>4, <2>1, SettledGoes
  <2>4. req[r].as = Now(NameOf(r))
    BY <1>4 DEF LifeInv, Current
  <2>5. \A n : Now(n)' = Now(n)
    BY DEF Now
  <2>6. ASSUME NEW f \in Fact, Settled(f)'
        PROVE  /\ Settled(f)
               /\ \A n \in Name : f.as = Now(n)' => \A rows \in lists'[n] : Has(rows, f)
               /\ \A k \in work' : k.kind = "list" /\ k.half /\ k.heard /\ k.as = f.as => Has(k.rows, f)
    <3>1. Settled(f)
      BY <2>3, <2>6
    <3>2. \A n \in Name : f.as = Now(n)' => \A rows \in lists'[n] : Has(rows, f)
      BY <1>4, <2>2, <2>4, <2>5, <3>1 DEF ListsInv
    <3>3. \A k \in work' : k.kind = "list" /\ k.half /\ k.heard /\ k.as = f.as => Has(k.rows, f)
      BY <3>1 DEF ListsInv
    <3> QED
      BY <3>1, <3>2, <3>3
  <2>7. \A q \in Slot : req'[q].seen = req[q].seen /\ req'[q].as = req[q].as
    BY <2>1 DEF Goes
  <2>8. \A q \in Slot : \A f \in req'[q].seen : f \in told' /\ f.as = req'[q].as
    BY <2>7 DEF ListsInv
  <2>9. ASSUME NEW q \in Slot, req'[q].at = "done", req'[q].kind = "list", req'[q].answer = "ok"
        PROVE  \A f \in req'[q].seen : f \in told /\ Has(req'[q].rows, f)
    <3>1. \A f \in req'[q].seen : f \in told /\ f.as = req[q].as /\ f \in Fact /\ Settled(f)
      BY <2>7 DEF ListsInv, PageTypes, Settled
    <3>2. CASE q = r
      <4>1. req'[r].rows = w
        BY <2>1 DEF Goes
      <4> QED
        BY <1>4, <3>1, <3>2, <4>1
    <3>3. CASE q # r
      <4>1. req'[q] = req[q]
        BY <2>1, <3>3 DEF Goes
      <4> QED
        BY <2>9, <3>1, <4>1 DEF NextListHasChange, Has
    <3> QED
      BY <3>2, <3>3
  <2> QED
    BY <2>6, <2>8, <2>9, ListsShown
<1> QED
  BY <1>1, <1>2, <1>3, <1>4

\* ListsInv where a piece of work ends.
LEMMA ListsFinished ==
  ASSUME PageTypes, PathInv, HearsInv, LifeInv, ServersInv, ListsInv, NextListHasChange, OnlyNewServers,
         NEW j \in work, NEW a \in {"ok", "failed"}, NEW w \in SUBSET ServerNo, Finishes(j, a, w),
         UNCHANGED <<told, life>>,
         a = "ok" /\ j.heard /\ j.kind = "list" => \A f \in Fact : Settled(f) /\ f.as = j.as => Has(w, f)
  PROVE  ListsInv' /\ NextListHasChange'
<1>1. j.slot \in Slot /\ \A k \in work' : k \in work
  BY DEF PageTypes, Job, Finishes
<1>2. CASE j.heard
  <2>1. Replied(j.slot, a, w) /\ req[j.slot].at = "hears" /\ req[j.slot].kind = j.kind /\ req[j.slot].as = j.as
    BY <1>2 DEF Finishes, HearsInv
  <2> QED
    BY <1>1, <1>2, <2>1, ListsReplied
<1>3. CASE ~j.heard
  <2>1. UNCHANGED <<req, lists>>
    BY <1>3 DEF Finishes
  <2>2. \A f \in Fact : Settled(f)' => Settled(f)
    BY <2>1 DEF Settled, Earned
  <2>3. \A q \in Slot : \A f \in req'[q].seen : f \in told /\ f.as = req'[q].as
    BY <2>1 DEF ListsInv
  <2> QED
    BY <1>1, <2>1, <2>2, <2>3, ListsKept
<1> QED
  BY <1>2, <1>3

\* Every step keeps ListsInv, and shows a list with the changes.
LEMMA ListsStep ==
  ASSUME PageTypes, PathInv, LockInv, HearsInv, LifeInv, SelfInv, ServersInv, ListsInv, NextListHasChange,
         [ControllerNext]_controllerVars
  PROVE  ListsInv' /\ NextListHasChange'
<1>n. \A r \in Slot : req[r].at # "idle" => NameOf(r) \in Name
  BY DEF PathInv, PathOf, NameOf, Identity
<1>w. \A j \in work : j \in Job /\ j.slot \in Slot
  BY DEF PageTypes, Job
<1>l. \A r \in Slot, n \in Name : lists' = [lists EXCEPT ![NameOf(r)] = {}] => lists'[n] = {} \/ lists'[n] = lists[n]
  BY DEF PageTypes
<1>s. servers' \subseteq servers => OnlyNewServers
  BY DEF OnlyNewServers
<1>1. ASSUME UNCHANGED <<req, told>>, servers' \subseteq servers,
             \A n \in Name : lists'[n] = {} \/ (lists'[n] = lists[n] /\ life'[n] = life[n]),
             \A k \in work' : k.kind = "list" /\ k.half /\ k.heard => k \in work
      PROVE  ListsInv' /\ NextListHasChange'
  <2>1. \A f \in Fact : Settled(f)' => Settled(f)
    BY <1>1 DEF Settled, Earned
  <2>2. \A q \in Slot : \A f \in req'[q].seen : f \in told /\ f.as = req'[q].as
    BY <1>1 DEF ListsInv
  <2> QED
    BY <1>1, <1>s, <2>1, <2>2, ListsKept
<1>2. ASSUME NEW r \in Slot, NEW n \in Name, PageAsks(r, n) \/ Erases(r, n) PROVE ListsInv' /\ NextListHasChange'
  <2>1. PICK s \in {"waits", "drops", "token"}, k \in {"list", "deploy", "remove", "erase"}, x \in ServerNo \cup {0} :
          Starts(r, n, s, k, x)
    <3>1. \A x \in OwnedBy(<<n, life[n]>>) : x \in ServerNo
      BY DEF OwnedBy, PageTypes
    <3>2. CASE Erases(r, n)
      BY <3>2 DEF Erases
    <3>3. CASE PageAsks(r, n)
      BY <3>1, <3>3 DEF PageAsks
    <3> QED
      BY <1>2, <3>2, <3>3
  <2>2. Begins(r, n, s, k, x) /\ UNCHANGED <<life, lists, told, servers, work>>
    BY <2>1, StartsBegins DEF Places, Starts, indexVars
  <2>3. \A q \in Slot : q # r => Earned(q)' = Earned(q) /\ req'[q] = req[q]
    BY <2>2 DEF Begins, Earned
  <2>4. Earned(r)' = {} /\ req'[r].at # "done"
    BY <2>2, EarnedNoneNext DEF Begins
  <2>5. \A f \in Fact : Settled(f)' => Settled(f)
    BY <2>2, <2>3, <2>4 DEF Settled
  <2>6. \A q \in Slot : \A f \in req'[q].seen : f \in told /\ f.as = req'[q].as
    <3>1. \A f \in req'[r].seen : f \in told /\ f.as = req'[r].as
      BY <2>2 DEF Begins
    <3>2. \A q \in Slot : q # r => \A f \in req'[q].seen : f \in told /\ f.as = req'[q].as
      BY <2>3 DEF ListsInv
    <3> QED
      BY <3>1, <3>2
  <2> QED
    BY <1>s, <2>2, <2>3, <2>4, <2>5, <2>6, ListsKept
<1>3. ASSUME NEW r \in Slot, ListsOrAsks(r) PROVE ListsInv' /\ NextListHasChange'
  <2>0. req[r].at = "waits" /\ UNCHANGED <<life, lists, told, work, servers>>
    BY <1>3 DEF ListsOrAsks, indexVars
  <2>1. CASE \E rows \in lists[NameOf(r)] :
               req' = [req EXCEPT ![r].at = "done", ![r].answer = "ok", ![r].rows = rows]
    <3>1. NameOf(r) \in Name
      BY <2>0, <1>n
    <3>2. PICK w \in lists[NameOf(r)] : req' = [Answers(r, "done", "ok") EXCEPT ![r].rows = w]
      BY <2>1 DEF Answers
    <3>3. Goes(r, "done", req[r].srv, req[r].token, "ok", w)
      BY <3>1, <3>2, GoesListed DEF Places, PageTypes
    <3>4. req[r].kind = "list"
      BY <2>0 DEF PathInv, PathOf, Asking, PageTypes, PageRequest
    <3>5. req[r].as = Now(NameOf(r))
      BY <2>0, <3>4 DEF LifeInv, Current
    <3>6. \A f \in Fact : Settled(f)' => Settled(f)
      BY <2>0, <3>3, <3>4, SettledGoes
    <3>7. \A n : Now(n)' = Now(n)
      BY <2>0 DEF Now
    <3>8. \A q \in Slot : req'[q].seen = req[q].seen /\ req'[q].as = req[q].as
      BY <3>3 DEF Goes
    <3>9. ASSUME NEW q \in Slot, req'[q].at = "done", req'[q].kind = "list", req'[q].answer = "ok"
          PROVE  \A f \in req'[q].seen : f \in told /\ Has(req'[q].rows, f)
      <4>1. \A f \in req'[q].seen : f \in told /\ f.as = req[q].as /\ f \in Fact /\ Settled(f)
        BY <3>8 DEF ListsInv, PageTypes, Settled
      <4>2. CASE q = r
        <5>1. req'[r].rows = w
          BY <3>3 DEF Goes
        <5> QED
          BY <3>1, <3>5, <4>1, <4>2, <5>1 DEF ListsInv
      <4>3. CASE q # r
        <5>1. req'[q] = req[q]
          BY <3>3, <4>3 DEF Goes
        <5> QED
          BY <3>9, <4>1, <5>1 DEF NextListHasChange, Has
      <4> QED
        BY <4>2, <4>3
    <3>10. ASSUME NEW f \in Fact, Settled(f)'
           PROVE  /\ Settled(f)
                  /\ \A n \in Name : f.as = Now(n)' => \A rows \in lists'[n] : Has(rows, f)
                  /\ \A k \in work' : k.kind = "list" /\ k.half /\ k.heard /\ k.as = f.as => Has(k.rows, f)
      BY <2>0, <3>6, <3>7, <3>10 DEF ListsInv
    <3>11. \A q \in Slot : \A f \in req'[q].seen : f \in told' /\ f.as = req'[q].as
      BY <2>0, <3>8 DEF ListsInv
    <3>12. OnlyNewServers
      BY <2>0, <1>s
    <3> QED
      BY <3>9, <3>10, <3>11, <3>12, ListsShown
  <2>2. CASE req' = At(r, "token")
    <3>1. Goes(r, "token", req[r].srv, req[r].token, req[r].answer, req[r].rows)
      BY <2>2, GoesAt DEF Places
    <3> QED
      BY <1>s, <2>0, <3>1, ListsGo
  <2> QED
    BY <1>3, <2>1, <2>2 DEF ListsOrAsks, To
<1>4. ASSUME NEW r \in Slot, DropsList(r), req[r].at = "clears" PROVE ListsInv' /\ NextListHasChange'
  <2>1. /\ lock = {} /\ req' = At(r, "done") /\ lists' = [lists EXCEPT ![NameOf(r)] = {}]
        /\ UNCHANGED <<life, told, work, servers>>
    BY <1>4 DEF DropsList, To, indexVars
  <2>2. Goes(r, "done", req[r].srv, req[r].token, req[r].answer, req[r].rows)
    BY <2>1, GoesAt DEF Places
  <2>3. req[r].kind \in {"deploy", "remove"}
    BY <1>4 DEF PathInv, PathOf, Asking, PageTypes, PageRequest
  <2>4. req[r].as = Now(NameOf(r))
    BY <1>4, <2>3 DEF LifeInv, Current
  <2>5. \A k \in work : ~(k.kind = "list" /\ k.heard)
    BY <1>w, <2>1 DEF HearsInv, LockInv, Asking
  <2>6. ASSUME NEW f \in Fact, Settled(f)' PROVE Settled(f) \/ f \in Earned(r)
    <3>1. \A q \in Slot : Earned(q)' = Earned(q) /\ (q # r => req'[q] = req[q])
      BY <2>2, EarnedGoes DEF Goes
    <3> QED
      BY <2>1, <2>6, <3>1 DEF Settled
  <2>7. ASSUME NEW f \in Fact, Settled(f)'
        PROVE  /\ Settled(f) \/ \E q \in Slot : f \in Earned(q)
               /\ \A n \in Name : f.as = Now(n)' => \A rows \in lists'[n] : Has(rows, f)
               /\ \A k \in work' : k.kind = "list" /\ k.half /\ k.heard /\ k.as = f.as => Has(k.rows, f)
    <3>1. Settled(f) \/ f \in Earned(r)
      BY <2>6, <2>7
    <3>2. \A n \in Name : f.as = Now(n)' => \A rows \in lists'[n] : Has(rows, f)
      <4> SUFFICES ASSUME NEW n \in Name, f.as = Now(n)', NEW rows \in lists'[n] PROVE Has(rows, f)
        OBVIOUS
      <4>1. f.as = Now(n)
        BY <2>1 DEF Now
      <4>2. n # NameOf(r) /\ rows \in lists[n]
        BY <2>1 DEF PageTypes
      <4>3. Now(n) # Now(NameOf(r))
        BY <4>2 DEF Now
      <4>4. f \notin Earned(r)
        BY <2>4, <4>1, <4>3 DEF Earned
      <4> QED
        BY <3>1, <4>1, <4>2, <4>4 DEF ListsInv
    <3> QED
      BY <2>1, <2>5, <3>1, <3>2
  <2>8. \A q \in Slot : req'[q].seen = req[q].seen /\ req'[q].as = req[q].as
    BY <2>2 DEF Goes
  <2>9. \A q \in Slot : \A f \in req'[q].seen : f \in told' /\ f.as = req'[q].as
    BY <2>1, <2>8 DEF ListsInv
  <2>10. ASSUME NEW q \in Slot, req'[q].at = "done", req'[q].kind = "list", req'[q].answer = "ok"
         PROVE  \A f \in req'[q].seen : f \in told /\ Has(req'[q].rows, f)
    <3>1. req'[q] = req[q]
      BY <2>2, <2>3, <2>10 DEF Goes
    <3> QED
      BY <2>10, <3>1 DEF NextListHasChange, Has, ListsInv
  <2> QED
    BY <1>s, <2>1, <2>7, <2>9, <2>10, ListsShown
<1>5. ASSUME NEW r \in Slot, NEW s \in Places, req' = At(r, s), UNCHANGED <<life, told, servers>>,
             s # "done" \/ req[r].kind = "erase",
             \A n \in Name : lists'[n] = {} \/ lists'[n] = lists[n],
             \A k \in work' : k.half => k \in work
      PROVE  ListsInv' /\ NextListHasChange'
  <2>1. Goes(r, s, req[r].srv, req[r].token, req[r].answer, req[r].rows)
    BY <1>5, GoesAt
  <2> QED
    BY <1>5, <1>s, <2>1, ListsGo
<1>6. ASSUME NEW r \in Slot,
             \/ DropsList(r) /\ req[r].at = "drops"
             \/ KeepsToken(r)
             \/ Sends(r)
             \/ Forgets(r)
             \/ ForgetsList(r)
      PROVE  ListsInv' /\ NextListHasChange'
  <2>1. UNCHANGED <<life, told, servers>>
    BY <1>6 DEF DropsList, KeepsToken, Sends, Forgets, ForgetsList, indexVars
  <2>2. PICK s : s \in Places /\ req' = At(r, s) /\ s # "done"
    BY <1>6 DEF DropsList, KeepsToken, Sends, Forgets, ForgetsList, To, Places
  <2>3. \A n \in Name : lists'[n] = {} \/ lists'[n] = lists[n]
    BY <1>6, <1>l DEF DropsList, KeepsToken, Sends, Forgets, ForgetsList
  <2>4. \A k \in work' : k.half => k \in work
    <3>1. CASE Sends(r)
      BY <3>1, SendsWork
    <3>2. CASE ~Sends(r)
      BY <1>6, <3>2 DEF DropsList, KeepsToken, Forgets, ForgetsList, indexVars
    <3> QED
      BY <3>1, <3>2
  <2> QED
    BY <2>1, <2>2, <2>3, <2>4, <1>5
<1>7. ASSUME NEW r \in Slot, RemovesAccount(r) PROVE ListsInv' /\ NextListHasChange'
  <2>1. /\ req' = At(r, "done") /\ req[r].at = "removes" /\ life' = [life EXCEPT ![NameOf(r)] = 0]
        /\ UNCHANGED <<lists, told, work, servers>>
    BY <1>7 DEF RemovesAccount, To, indexVars
  <2>2. Goes(r, "done", req[r].srv, req[r].token, req[r].answer, req[r].rows)
    BY <2>1, GoesAt DEF Places
  <2>3. req[r].kind = "erase"
    BY <2>1 DEF PathInv, PathOf, Asking, PageTypes, PageRequest
  <2>9. lists[NameOf(r)] = {}
    BY <2>1, <2>3 DEF LifeInv
  <2>10. \A n \in Name : n # NameOf(r) => life'[n] = life[n]
    BY <2>1 DEF PageTypes
  <2>4. \A n \in Name : lists'[n] = {} \/ (lists'[n] = lists[n] /\ life'[n] = life[n])
    BY <2>1, <2>9, <2>10
  <2>5. \A f \in Fact : Settled(f)' => Settled(f)
    BY <2>1, <2>2, <2>3, SettledGoes
  <2>6. \A q \in Slot : \A f \in req'[q].seen : f \in told /\ f.as = req'[q].as
    <3>1. \A q \in Slot : req'[q].seen = req[q].seen /\ req'[q].as = req[q].as
      BY <2>2 DEF Goes
    <3> QED
      BY <3>1 DEF ListsInv
  <2>7. \A q \in Slot : req'[q].at = "done" /\ req'[q].kind = "list" /\ req'[q].answer = "ok" => req'[q] = req[q]
    BY <2>2, <2>3 DEF Goes
  <2> QED
    BY <1>s, <2>1, <2>4, <2>5, <2>6, <2>7, ListsKept
<1>8. ASSUME NEW r \in Slot, TokenOrLogin(r) PROVE ListsInv' /\ NextListHasChange'
  <2> DEFINE t == tokens[NameOf(r)]
             s == IF t = NoSession THEN "login" ELSE "asks"
  <2>1. /\ req' = [req EXCEPT ![r].at = s, ![r].token = t] /\ req[r].at = "token"
        /\ UNCHANGED <<life, lists, told, servers, work>>
    BY <1>8 DEF TokenOrLogin, indexVars
  <2>2. s \in Places /\ s # "done"
    BY DEF Places
  <2>3. t \in 0 .. MaxSession
    BY <2>1, <1>n DEF PageTypes
  <2> HIDE DEF s, t
  <2>4. Goes(r, s, req[r].srv, t, req[r].answer, req[r].rows)
    BY <2>1, <2>2, <2>3, GoesWithToken
  <2> QED
    BY <1>s, <2>1, <2>2, <2>4, ListsGo
<1>9. ASSUME NEW r \in Slot, Login(r) PROVE ListsInv' /\ NextListHasChange'
  <2>1. opened' \in 0 .. MaxSession
    BY <1>9, ControllerAssumption DEF Login, PageTypes
  <2>2. Goes(r, "keeps", req[r].srv, opened', req[r].answer, req[r].rows)
    BY <1>9, <2>1, GoesWithToken DEF Login, Places
  <2>3. UNCHANGED <<life, lists, told, servers, work>>
    BY <1>9 DEF Login
  <2> QED
    BY <1>s, <2>2, <2>3, ListsGo
<1>10. ASSUME NEW r \in Slot, HearsRefusal(r) PROVE ListsInv' /\ NextListHasChange'
  <2>0. UNCHANGED <<life, told, servers, work>> /\ req[r].at = "refused"
    BY <1>10 DEF HearsRefusal, indexVars
  <2>1. CASE Replied(r, "refused", {})
    BY <1>s, <2>0, <2>1, ListsReplied
  <2>2. CASE req' = [req EXCEPT ![r].at = "login", ![r].again = TRUE] /\ lists' = lists
    <3>1. Goes(r, "login", req[r].srv, req[r].token, req[r].answer, req[r].rows)
      BY <2>2, GoesAgain DEF Places
    <3> QED
      BY <1>s, <2>0, <2>2, <3>1, ListsGo
  <2> QED
    BY <1>10, <2>1, <2>2 DEF HearsRefusal
<1>11. ASSUME NEW r \in Slot, Answered(r) PROVE ListsInv' /\ NextListHasChange'
  <2>1. Ends(r) /\ UNCHANGED <<life, lists, servers, work>> /\ req[r].at = "done" /\ told' = told \cup Earned(r)
    BY <1>11, EndsThere DEF Answered, indexVars, Earned
  <2>2. req'[r].at = "idle" /\ req'[r].seen = {}
    BY <2>1, NoneUnderWay DEF Ends
  <2>3. \A q \in Slot : q # r => Earned(q)' = Earned(q) /\ req'[q] = req[q]
    BY <2>1 DEF Ends, Earned
  <2>4. \A f \in Fact : Settled(f)' => Settled(f)
    BY <2>1, <2>2, <2>3 DEF Settled
  <2>5. \A q \in Slot : \A f \in req'[q].seen : f \in told /\ f.as = req'[q].as
    BY <2>2, <2>3 DEF ListsInv
  <2>6. \A q \in Slot : req'[q].at = "done" => req'[q] = req[q]
    BY <2>2, <2>3
  <2> QED
    BY <1>s, <2>1, <2>4, <2>5, <2>6, ListsKept
<1>12. ASSUME NEW S \in SUBSET Slot, Deafened(S), \A q \in Slot : req'[q] \in {req[q], NoRequest},
              \A n \in Name : lists'[n] = {} \/ lists'[n] = lists[n],
              UNCHANGED <<life, told, servers>>
       PROVE  ListsInv' /\ NextListHasChange'
  <2>1. \A q \in Slot : req'[q] = req[q] \/ req'[q] = NoRequest
    BY <1>12
  <2>2. \A q \in Slot : req'[q] = NoRequest => req'[q].at = "idle" /\ req'[q].seen = {}
    BY NoneUnderWay
  <2>3. \A q \in Slot : req'[q] = req[q] => Earned(q)' = Earned(q)
    BY DEF Earned
  <2>4. \A f \in Fact : Settled(f)' => Settled(f)
    BY <1>12, <2>1, <2>2, <2>3 DEF Settled
  <2>5. \A q \in Slot : \A f \in req'[q].seen : f \in told /\ f.as = req'[q].as
    BY <2>1, <2>2 DEF ListsInv
  <2>6. \A q \in Slot : req'[q].at = "done" => req'[q] = req[q]
    BY <2>1, <2>2
  <2>7. \A k \in work' : k.heard => k \in work
    BY <1>12 DEF Deafened
  <2> QED
    BY <1>s, <1>12, <2>4, <2>5, <2>6, <2>7, ListsKept
<1>13. ASSUME NEW r \in Slot, PageHangsUp(r) PROVE ListsInv' /\ NextListHasChange'
  <2>1. Ends(r) /\ Deafened({r}) /\ UNCHANGED <<life, lists, told, servers>>
    BY <1>13, EndsThere, UnheardDeafens DEF PageHangsUp, indexVars
  <2> QED
    BY <2>1, <1>12 DEF Ends
<1>14. ASSUME NEW r \in Slot, LoginFails(r) PROVE ListsInv' /\ NextListHasChange'
  <2>1. UNCHANGED <<life, told, servers, work>> /\ Replied(r, "failed", {}) /\ req[r].at = "login"
    BY <1>14 DEF LoginFails, indexVars
  <2> QED
    BY <1>s, <2>1, ListsReplied
<1>15. ASSUME NEW r \in Slot, GivesUp(r) PROVE ListsInv' /\ NextListHasChange'
  <2>1. UNCHANGED <<life, told, servers>> /\ Replied(r, "failed", {}) /\ req[r].at = "hears" /\ Deafened({r})
    BY <1>15, UnheardDeafens DEF GivesUp, indexVars
  <2>2. \A k \in work' : k.heard => k \in work
    BY <2>1 DEF Deafened
  <2> QED
    BY <1>s, <2>1, <2>2, ListsReplied
<1>16. ASSUME NEW j \in work, DoesList(j) PROVE ListsInv' /\ NextListHasChange'
  <2>0. UNCHANGED <<life, told, servers>> /\ j.kind = "list" /\ j \in Job /\ j.id = j.as
    BY <1>16, <1>w DEF DoesList, SelfInv
  <2>1. CASE j.half /\ Finishes(j, "ok", j.rows)
    <3>1. j.heard => \A f \in Fact : Settled(f) /\ f.as = j.as => Has(j.rows, f)
      BY <2>0, <2>1 DEF ListsInv
    <3>2. j.rows \in SUBSET ServerNo
      BY <2>0 DEF Job
    <3> QED
      BY <1>s, <2>0, <2>1, <3>1, <3>2, ListsFinished
  <2>2. CASE UNCHANGED <<req, lists>> /\ work' = (work \ {j}) \cup {[j EXCEPT !.half = TRUE, !.rows = OwnedBy(j.id)]}
    <3> DEFINE c == [j EXCEPT !.half = TRUE, !.rows = OwnedBy(j.id)]
    <3>1. OwnedBy(j.id) \in SUBSET ServerNo
      BY DEF OwnedBy, PageTypes
    <3>9. \A w \in SUBSET ServerNo : [j EXCEPT !.half = TRUE, !.rows = w].rows = w /\ [j EXCEPT !.half = TRUE, !.rows = w].as = j.as
      BY HalfThrough
    <3>2. c.rows = OwnedBy(j.as) /\ c.as = j.as
      BY <2>0, <3>1, <3>9
    <3>3. \A k \in work' : k \in work \/ k = c
      BY <2>2
    <3> HIDE DEF c
    <3>4. \A f \in Fact : Settled(f)' => Settled(f)
      BY <2>0, <2>2 DEF Settled, Earned
    <3>5. ASSUME NEW f \in Fact, Settled(f)'
          PROVE  /\ Settled(f)
                 /\ \A n \in Name : f.as = Now(n)' => \A rows \in lists'[n] : Has(rows, f)
                 /\ \A k \in work' : k.kind = "list" /\ k.half /\ k.heard /\ k.as = f.as => Has(k.rows, f)
      <4>1. Settled(f)
        BY <3>4, <3>5
      <4>2. \A n : Now(n)' = Now(n)
        BY <2>0 DEF Now
      <4>3. f.as = c.as => Has(c.rows, f)
        <5>1. f.how = "gone" => \A x \in servers : x.srv # f.srv
          BY <4>1 DEF ServersInv, Settled
        <5>2. f.how = "gone" => f.srv \notin OwnedBy(j.as)
          BY <5>1 DEF OwnedBy
        <5> QED
          BY <3>2, <5>2 DEF Has
      <4> QED
        BY <2>2, <3>3, <4>1, <4>2, <4>3 DEF ListsInv
    <3>6. \A q \in Slot : \A f \in req'[q].seen : f \in told' /\ f.as = req'[q].as
      BY <2>0, <2>2 DEF ListsInv
    <3>7. \A q \in Slot : req'[q].at = "done" /\ req'[q].kind = "list" /\ req'[q].answer = "ok" =>
            \A f \in req'[q].seen : f \in told /\ Has(req'[q].rows, f)
      BY <2>2 DEF NextListHasChange, Has, ListsInv
    <3>8. OnlyNewServers
      BY <2>0, <1>s
    <3> QED
      BY <3>5, <3>6, <3>7, <3>8, ListsShown
  <2> QED
    BY <1>16, <2>1, <2>2 DEF DoesList
<1>17. ASSUME NEW j \in work, DoesDeploy(j) PROVE ListsInv' /\ NextListHasChange'
  <2> DEFINE e == [srv |-> made', owner |-> j.id]
  <2>1. /\ made' = made + 1 /\ servers' = servers \cup {e} /\ e.srv = made + 1
        /\ UNCHANGED <<told, life, lists>> /\ work' = work \ {j}
    BY <1>17 DEF DoesDeploy
  <2>2. made \in Nat /\ made' \in ServerNo
    BY <1>17, ControllerAssumption DEF DoesDeploy, PageTypes, ServerNo
  <2> HIDE DEF e
  <2>3. OnlyNewServers
    BY <2>1, <2>2 DEF OnlyNewServers
  <2>4. CASE j.heard
    <3>1. Goes(j.slot, "clears", made', req[j.slot].token, "ok", req[j.slot].rows)
      BY <1>17, <1>w, <2>2, <2>4, GoesMade DEF DoesDeploy, Places, AfterChange
    <3> QED
      BY <1>w, <2>1, <2>3, <3>1, ListsGo
  <2>5. CASE ~j.heard
    <3>1. req' = req
      BY <1>17, <2>5 DEF DoesDeploy
    <3>2. \A f \in Fact : Settled(f)' => Settled(f)
      BY <2>1, <3>1 DEF Settled, Earned
    <3>3. \A q \in Slot : \A f \in req'[q].seen : f \in told /\ f.as = req'[q].as
      BY <3>1 DEF ListsInv
    <3> QED
      BY <2>1, <2>3, <3>1, <3>2, <3>3, ListsKept
  <2> QED
    BY <2>4, <2>5
<1>18. ASSUME NEW j \in work, DoesRemove(j) PROVE ListsInv' /\ NextListHasChange'
  <2> DEFINE a == IF j.srv \in OwnedBy(j.id) THEN "ok" ELSE "failed"
  <2>1. servers' \subseteq servers /\ Finishes(j, a, {}) /\ UNCHANGED <<told, life>> /\ j.kind = "remove"
    BY <1>18 DEF DoesRemove
  <2>2. a \in {"ok", "failed"}
    OBVIOUS
  <2> HIDE DEF a
  <2> QED
    BY <1>s, <2>1, <2>2, ListsFinished
<1>19. ASSUME NEW j \in work, DoesErase(j) PROVE ListsInv' /\ NextListHasChange'
  <2>0. UNCHANGED <<told, life>> /\ servers' \subseteq servers /\ j.kind = "erase"
    BY <1>19 DEF DoesErase
  <2>1. CASE UNCHANGED <<req, lists>> /\ work' = (work \ {j}) \cup {[j EXCEPT !.half = TRUE]}
    <3>1. \A k \in work' : k.kind = "list" => k \in work
      <4>1. [j EXCEPT !.half = TRUE].kind = "erase"
        BY <2>0, <1>w DEF Job
      <4> QED
        BY <2>1, <4>1
    <3> QED
      BY <2>0, <2>1, <3>1, <1>1
  <2>2. CASE Finishes(j, "ok", {})
    BY <1>s, <2>0, <2>2, ListsFinished
  <2> QED
    BY <1>19, <2>1, <2>2 DEF DoesErase
<1>20. ASSUME NEW j \in work, DoesNot(j) PROVE ListsInv' /\ NextListHasChange'
  <2>1. UNCHANGED <<told, life>> /\ servers' \subseteq servers /\ Finishes(j, "failed", {})
    BY <1>20 DEF DoesNot
  <2> QED
    BY <1>s, <2>1, ListsFinished
<1>21. ASSUME NEW n \in Name, TakesName(n) \/ ListAges(n) PROVE ListsInv' /\ NextListHasChange'
  <2>1. UNCHANGED <<req, told, servers, work>>
    BY <1>21 DEF TakesName, ListAges, indexVars
  <2>2. \A m \in Name : lists'[m] = {} \/ (lists'[m] = lists[m] /\ life'[m] = life[m])
    <3>1. CASE TakesName(n)
      <4>1. lists' = lists /\ lists[n] = {} /\ life' = [life EXCEPT ![n] = lives'[n]]
        BY <3>1 DEF TakesName, LifeInv
      <4>2. \A m \in Name : m # n => life'[m] = life[m]
        BY <4>1 DEF PageTypes
      <4> QED
        BY <4>1, <4>2
    <3>2. CASE ListAges(n)
      <4>1. life' = life /\ lists' = [lists EXCEPT ![n] = {}]
        BY <3>2 DEF ListAges
      <4> QED
        BY <4>1 DEF PageTypes
    <3> QED
      BY <1>21, <3>1, <3>2
  <2> QED
    BY <2>1, <2>2, <1>1
<1>22. CASE SessionsEnd \/ UNCHANGED controllerVars
  <2>1. UNCHANGED <<req, told, servers, work, lists, life>>
    BY <1>22 DEF SessionsEnd, nodeVars, indexVars, controllerVars
  <2> QED
    BY <2>1, <1>1
<1>23. CASE NodeRestarts
  <2>1. Deafened(Slot) /\ UNCHANGED <<life, told, servers>>
    BY <1>23, RestartDeafens DEF NodeRestarts
  <2>2. \A q \in Slot : req'[q] = NoRequest
    BY <1>23 DEF NodeRestarts
  <2>3. \A n \in Name : lists'[n] = {}
    BY <1>23 DEF NodeRestarts
  <2> QED
    BY <2>1, <2>2, <2>3, <1>12
<1>24. \A r \in Slot : DropsList(r) => req[r].at \in {"drops", "clears"}
  BY DEF DropsList
<1> QED
  BY <1>2, <1>3, <1>4, <1>6, <1>7, <1>8, <1>9, <1>10, <1>11, <1>13, <1>14, <1>15, <1>16, <1>17,
     <1>18, <1>19, <1>20, <1>21, <1>22, <1>23, <1>24 DEF ControllerNext, PageStep, IndexStep

\* A request whose account is erased at the index, and still to be removed here.
Erased(q) == q.kind = "erase" /\ q.at \in {"forgets", "unlists", "removes"}

\* Servers are of accounts that there are, and of none that is erased.
OwnersInv ==
  /\ \A x \in servers : x.owner = Now(x.owner[1])
  /\ \A r \in Slot : Erased(req[r]) => \A x \in servers : x.owner # req[r].as
  /\ \A j \in work : j.kind = "erase" /\ j.half /\ j.heard => \A x \in servers : x.owner # j.as

\* No server comes, no account does or goes, and who is erased has none.
LEMMA OwnersKept ==
  ASSUME OwnersInv, servers' \subseteq servers, UNCHANGED life,
         \A r \in Slot : Erased(req'[r]) =>
           \/ Erased(req[r]) /\ req'[r].as = req[r].as
           \/ \A x \in servers' : x.owner # req'[r].as,
         \A k \in work' : k.kind = "erase" /\ k.half /\ k.heard =>
           k \in work \/ \A x \in servers' : x.owner # k.as
  PROVE  OwnersInv'
<1>1. \A x \in servers' : x.owner = Now(x.owner[1])'
  BY DEF OwnersInv, Now
<1>2. \A r \in Slot : Erased(req'[r]) => \A x \in servers' : x.owner # req'[r].as
  BY DEF OwnersInv
<1>3. \A k \in work' : k.kind = "erase" /\ k.half /\ k.heard => \A x \in servers' : x.owner # k.as
  BY DEF OwnersInv
<1>4. \A r \in Slot : Erased(req[r])' => Erased(req'[r])
  BY DEF Erased
<1> QED
  BY <1>1, <1>2, <1>3, <1>4 DEF OwnersInv

\* OwnersInv where a request goes on.
LEMMA OwnersGo ==
  ASSUME OwnersInv, NEW r \in Slot, NEW s, NEW x, NEW t, NEW a, NEW w, Goes(r, s, x, t, a, w),
         servers' \subseteq servers, UNCHANGED life,
         \/ s \notin {"forgets", "unlists", "removes"}
         \/ req[r].kind # "erase"
         \/ Erased(req[r])
         \/ \A y \in servers : y.owner # req[r].as,
         \A k \in work' : k.kind = "erase" /\ k.half /\ k.heard =>
           k \in work \/ \A y \in servers' : y.owner # k.as
  PROVE  OwnersInv'
<1>1. \A q \in Slot : q # r => req'[q] = req[q]
  BY DEF Goes
<1>2. Erased(req'[r]) => \/ Erased(req[r]) /\ req'[r].as = req[r].as
                         \/ \A y \in servers' : y.owner # req'[r].as
  BY DEF Goes, Erased
<1>3. \A q \in Slot : Erased(req'[q]) =>
           \/ Erased(req[q]) /\ req'[q].as = req[q].as
           \/ \A y \in servers' : y.owner # req'[q].as
  BY <1>1, <1>2
<1> QED
  BY <1>3, OwnersKept

\* OwnersInv where a reply comes back.
LEMMA OwnersReplied ==
  ASSUME PageTypes, OwnersInv, NEW r \in Slot, NEW a \in {"ok", "refused", "failed"}, NEW w \in SUBSET ServerNo,
         Replied(r, a, w), servers' \subseteq servers, UNCHANGED life,
         a = "ok" /\ req[r].kind = "erase" => \A y \in servers : y.owner # req[r].as,
         \A k \in work' : k.kind = "erase" /\ k.half /\ k.heard => k \in work
  PROVE  OwnersInv'
<1>1. PICK s, y : /\ Goes(r, s, req[r].srv, req[r].token, a, y)
                  /\ req[r].kind = "erase" => s = IF a = "ok" THEN "forgets" ELSE "done"
  BY GoesReplied
<1> QED
  BY <1>1, OwnersGo

\* OwnersInv where a piece of work ends.
LEMMA OwnersFinished ==
  ASSUME PageTypes, HearsInv, OwnersInv, NEW j \in work, NEW a \in {"ok", "failed"}, NEW w \in SUBSET ServerNo,
         Finishes(j, a, w), servers' \subseteq servers, UNCHANGED life,
         a = "ok" /\ j.kind = "erase" => j.half
  PROVE  OwnersInv'
<1>1. j.slot \in Slot /\ \A k \in work' : k \in work
  BY DEF PageTypes, Job, Finishes
<1>2. CASE j.heard
  <2>1. Replied(j.slot, a, w) /\ req[j.slot].kind = j.kind /\ req[j.slot].as = j.as
    BY <1>2 DEF Finishes, HearsInv
  <2>2. a = "ok" /\ j.kind = "erase" => \A y \in servers : y.owner # j.as
    BY <1>2 DEF OwnersInv
  <2> QED
    BY <1>1, <2>1, <2>2, OwnersReplied
<1>3. CASE ~j.heard
  <2>1. req' = req
    BY <1>3 DEF Finishes
  <2> QED
    BY <1>1, <2>1, OwnersKept
<1> QED
  BY <1>2, <1>3

\* Every step keeps OwnersInv.
LEMMA OwnersStep ==
  ASSUME PageTypes, PathInv, HearsInv, LifeInv, SelfInv, OwnersInv, [ControllerNext]_controllerVars
  PROVE  OwnersInv'
<1>n. \A r \in Slot : req[r].at # "idle" => NameOf(r) \in Name
  BY DEF PathInv, PathOf, NameOf, Identity
<1>w. \A j \in work : j \in Job /\ j.slot \in Slot
  BY DEF PageTypes, Job
<1>x. \A x \in servers : x.owner \in Identity /\ x.owner[1] \in Name /\ x.owner[2] # 0
  BY ControllerAssumption DEF PageTypes, Identity
<1>1. ASSUME NEW r \in Slot, NEW n \in Name, PageAsks(r, n) \/ Erases(r, n) PROVE OwnersInv'
  <2>1. PICK s \in {"waits", "drops", "token"}, k \in {"list", "deploy", "remove", "erase"}, x \in ServerNo \cup {0} :
          Starts(r, n, s, k, x)
    <3>1. \A x \in OwnedBy(<<n, life[n]>>) : x \in ServerNo
      BY DEF OwnedBy, PageTypes
    <3>2. CASE Erases(r, n)
      BY <3>2 DEF Erases
    <3>3. CASE PageAsks(r, n)
      BY <3>1, <3>3 DEF PageAsks
    <3> QED
      BY <1>1, <3>2, <3>3
  <2>2. Begins(r, n, s, k, x) /\ UNCHANGED <<life, servers, work>>
    BY <2>1, StartsBegins DEF Places, Starts, indexVars
  <2>3. \A q \in Slot : q # r => req'[q] = req[q]
    BY <2>2 DEF Begins
  <2>4. ~Erased(req'[r])
    BY <2>2 DEF Begins, Erased
  <2> QED
    BY <2>2, <2>3, <2>4, OwnersKept
<1>2. ASSUME NEW r \in Slot, ListsOrAsks(r) PROVE OwnersInv'
  <2>0. req[r].at = "waits" /\ UNCHANGED <<life, work, servers>>
    BY <1>2 DEF ListsOrAsks, indexVars
  <2>1. CASE \E rows \in lists[NameOf(r)] :
               req' = [req EXCEPT ![r].at = "done", ![r].answer = "ok", ![r].rows = rows]
    <3>1. PICK w \in lists[NameOf(r)] : req' = [Answers(r, "done", "ok") EXCEPT ![r].rows = w]
      BY <2>1 DEF Answers
    <3>2. Goes(r, "done", req[r].srv, req[r].token, "ok", w)
      BY <1>n, <2>0, <3>1, GoesListed DEF Places, PageTypes
    <3> QED
      BY <2>0, <3>2, OwnersGo
  <2>2. CASE req' = At(r, "token")
    <3>1. Goes(r, "token", req[r].srv, req[r].token, req[r].answer, req[r].rows)
      BY <2>2, GoesAt DEF Places
    <3> QED
      BY <2>0, <3>1, OwnersGo
  <2> QED
    BY <1>2, <2>1, <2>2 DEF ListsOrAsks, To
<1>3. ASSUME NEW r \in Slot,
             \/ DropsList(r)
             \/ KeepsToken(r)
             \/ Sends(r)
             \/ Forgets(r)
             \/ ForgetsList(r)
      PROVE  OwnersInv'
  <2>1. UNCHANGED <<life, servers>>
    BY <1>3 DEF DropsList, KeepsToken, Sends, Forgets, ForgetsList, indexVars
  <2>2. PICK s : s \in Places /\ req' = At(r, s)
                 /\ (s \in {"forgets", "unlists", "removes"} => req[r].at \in {"forgets", "unlists", "removes"})
    BY <1>3 DEF DropsList, KeepsToken, Sends, Forgets, ForgetsList, To, Places
  <2>3. Goes(r, s, req[r].srv, req[r].token, req[r].answer, req[r].rows)
    BY <2>2, GoesAt
  <2>4. \A k \in work' : k.half => k \in work
    <3>1. CASE Sends(r)
      BY <3>1, SendsWork
    <3>2. CASE ~Sends(r)
      BY <1>3, <3>2 DEF DropsList, KeepsToken, Forgets, ForgetsList, indexVars
    <3> QED
      BY <3>1, <3>2
  <2> QED
    BY <2>1, <2>2, <2>3, <2>4, OwnersGo DEF Erased
<1>4. ASSUME NEW r \in Slot, RemovesAccount(r) PROVE OwnersInv'
  <2>1. /\ req' = At(r, "done") /\ req[r].at = "removes" /\ life' = [life EXCEPT ![NameOf(r)] = 0]
        /\ UNCHANGED <<work, servers>>
    BY <1>4 DEF RemovesAccount, To, indexVars
  <2>2. Goes(r, "done", req[r].srv, req[r].token, req[r].answer, req[r].rows)
    BY <2>1, GoesAt DEF Places
  <2>3. req[r].kind = "erase"
    BY <2>1 DEF PathInv, PathOf, Asking, PageTypes, PageRequest
  <2>4. req[r].as = Now(NameOf(r)) /\ Erased(req[r])
    BY <2>1, <2>3 DEF LifeInv, Current, Erased
  <2>5. \A x \in servers : x.owner[1] # NameOf(r)
    BY <2>4 DEF OwnersInv
  <2>6. \A n \in Name : n # NameOf(r) => life'[n] = life[n]
    BY <2>1 DEF PageTypes
  <2>7. \A x \in servers' : x.owner = Now(x.owner[1])'
    <3> SUFFICES ASSUME NEW x \in servers PROVE x.owner = Now(x.owner[1])'
      BY <2>1
    <3>1. life'[x.owner[1]] = life[x.owner[1]]
      BY <1>x, <2>5, <2>6
    <3> QED
      BY <3>1 DEF OwnersInv, Now
  <2>8. \A q \in Slot : Erased(req'[q]) => Erased(req[q]) /\ req'[q].as = req[q].as
    BY <2>2 DEF Goes, Erased
  <2>9. \A q \in Slot : Erased(req[q])' => \A x \in servers' : x.owner # req'[q].as
    BY <2>1, <2>8 DEF OwnersInv, Erased
  <2>10. \A j \in work' : j.kind = "erase" /\ j.half /\ j.heard => \A x \in servers' : x.owner # j.as
    BY <2>1 DEF OwnersInv
  <2> QED
    BY <2>7, <2>9, <2>10 DEF OwnersInv
<1>5. ASSUME NEW r \in Slot, TokenOrLogin(r) PROVE OwnersInv'
  <2> DEFINE t == tokens[NameOf(r)]
             s == IF t = NoSession THEN "login" ELSE "asks"
  <2>1. /\ req' = [req EXCEPT ![r].at = s, ![r].token = t] /\ req[r].at = "token"
        /\ UNCHANGED <<life, servers, work>>
    BY <1>5 DEF TokenOrLogin, indexVars
  <2>2. s \in Places /\ s \in {"login", "asks"}
    BY DEF Places
  <2>3. t \in 0 .. MaxSession
    BY <2>1, <1>n DEF PageTypes
  <2> HIDE DEF s, t
  <2>4. Goes(r, s, req[r].srv, t, req[r].answer, req[r].rows)
    BY <2>1, <2>2, <2>3, GoesWithToken
  <2> QED
    BY <2>1, <2>2, <2>4, OwnersGo
<1>6. ASSUME NEW r \in Slot, Login(r) PROVE OwnersInv'
  <2>1. opened' \in 0 .. MaxSession
    BY <1>6, ControllerAssumption DEF Login, PageTypes
  <2>2. Goes(r, "keeps", req[r].srv, opened', req[r].answer, req[r].rows)
    BY <1>6, <2>1, GoesWithToken DEF Login, Places
  <2>3. UNCHANGED <<life, servers, work>>
    BY <1>6 DEF Login
  <2> QED
    BY <2>2, <2>3, OwnersGo
<1>7. ASSUME NEW r \in Slot, HearsRefusal(r) PROVE OwnersInv'
  <2>0. UNCHANGED <<life, servers, work>>
    BY <1>7 DEF HearsRefusal, indexVars
  <2>1. CASE Replied(r, "refused", {})
    BY <2>0, <2>1, OwnersReplied
  <2>2. CASE req' = [req EXCEPT ![r].at = "login", ![r].again = TRUE]
    <3>1. Goes(r, "login", req[r].srv, req[r].token, req[r].answer, req[r].rows)
      BY <2>2, GoesAgain DEF Places
    <3> QED
      BY <2>0, <3>1, OwnersGo
  <2> QED
    BY <1>7, <2>1, <2>2 DEF HearsRefusal
<1>8. ASSUME \A q \in Slot : req'[q] = req[q] \/ req'[q] = NoRequest,
             UNCHANGED <<life, servers>>, \A k \in work' : k.heard => k \in work
      PROVE  OwnersInv'
  <2>1. ~Erased(NoRequest)
    BY NoneUnderWay DEF Erased
  <2>2. \A q \in Slot : Erased(req'[q]) => Erased(req[q]) /\ req'[q].as = req[q].as
    BY <1>8, <2>1
  <2> QED
    BY <1>8, <2>2, OwnersKept
<1>9. ASSUME NEW r \in Slot, Answered(r) \/ PageHangsUp(r) PROVE OwnersInv'
  <2>1. Ends(r) /\ UNCHANGED <<life, servers>>
    BY <1>9, EndsThere DEF Answered, PageHangsUp, indexVars
  <2>2. \A k \in work' : k.heard => k \in work
    BY <1>9, UnheardDeafens DEF Answered, PageHangsUp, indexVars, Deafened
  <2> QED
    BY <2>1, <2>2, <1>8 DEF Ends
<1>10. ASSUME NEW r \in Slot, LoginFails(r) PROVE OwnersInv'
  <2>1. UNCHANGED <<life, servers, work>> /\ Replied(r, "failed", {})
    BY <1>10 DEF LoginFails, indexVars
  <2> QED
    BY <2>1, OwnersReplied
<1>11. ASSUME NEW r \in Slot, GivesUp(r) PROVE OwnersInv'
  <2>1. UNCHANGED <<life, servers>> /\ Replied(r, "failed", {}) /\ Deafened({r})
    BY <1>11, UnheardDeafens DEF GivesUp, indexVars
  <2>2. \A k \in work' : k.heard => k \in work
    BY <2>1 DEF Deafened
  <2> QED
    BY <2>1, <2>2, OwnersReplied
<1>12. ASSUME NEW j \in work, DoesList(j) PROVE OwnersInv'
  <2>0. UNCHANGED <<life, servers>> /\ j.kind = "list" /\ j \in Job
    BY <1>12, <1>w DEF DoesList
  <2>1. CASE Finishes(j, "ok", j.rows)
    BY <2>0, <2>1, OwnersFinished DEF Job
  <2>2. CASE UNCHANGED req /\ work' = (work \ {j}) \cup {[j EXCEPT !.half = TRUE, !.rows = OwnedBy(j.id)]}
    <3>1. [j EXCEPT !.half = TRUE, !.rows = OwnedBy(j.id)].kind = "list"
      BY <2>0 DEF Job
    <3>2. \A k \in work' : k.kind = "erase" => k \in work
      BY <2>2, <3>1
    <3> QED
      BY <2>0, <2>2, <3>2, OwnersKept
  <2> QED
    BY <1>12, <2>1, <2>2 DEF DoesList
<1>13. ASSUME NEW j \in work, DoesDeploy(j) PROVE OwnersInv'
  <2> DEFINE e == [srv |-> made', owner |-> j.id]
  <2>1. /\ servers' = servers \cup {e} /\ e.owner = j.as /\ j.kind = "deploy"
        /\ UNCHANGED life /\ work' = work \ {j}
    BY <1>13 DEF DoesDeploy, SelfInv
  <2>2. made' \in ServerNo
    BY <1>13, ControllerAssumption DEF DoesDeploy, PageTypes, ServerNo
  <2> HIDE DEF e
  <2>3. \A x \in servers' : x.owner = Now(x.owner[1])'
    BY <2>1 DEF OwnersInv, LifeInv, Now
  <2>4. \A q \in Slot : Erased(req'[q]) => Erased(req[q]) /\ req'[q].as = req[q].as
    <3>1. CASE j.heard
      <4>1. Goes(j.slot, "clears", made', req[j.slot].token, "ok", req[j.slot].rows)
        BY <1>13, <1>w, <2>2, <3>1, GoesMade DEF DoesDeploy, Places, AfterChange
      <4> QED
        BY <4>1 DEF Goes, Erased
    <3>2. CASE ~j.heard
      BY <1>13, <3>2 DEF DoesDeploy
    <3> QED
      BY <3>1, <3>2
  <2>5. \A q \in Slot : Erased(req[q]) => req[q].as # j.as
    BY DEF Erased, LifeInv, Ending, NameOf
  <2>6. \A q \in Slot : Erased(req[q])' => \A x \in servers' : x.owner # req'[q].as
    BY <2>1, <2>4, <2>5 DEF OwnersInv, Erased
  <2>7. \A k \in work : k.kind = "erase" /\ k.heard => k.as # j.as
    <3> SUFFICES ASSUME NEW k \in work, k.kind = "erase", k.heard, k.as = j.as PROVE FALSE
      OBVIOUS
    <3>1. req[k.slot].kind = "erase" /\ req[k.slot].at = "hears" /\ req[k.slot].as = j.as /\ k.slot \in Slot
      BY <1>w DEF HearsInv
    <3>2. j.heard /\ j.slot = k.slot
      BY <3>1 DEF LifeInv, Ending, NameOf
    <3> QED
      BY <2>1, <3>2 DEF HearsInv
  <2>8. \A k \in work' : k.kind = "erase" /\ k.half /\ k.heard => \A x \in servers' : x.owner # k.as
    BY <2>1, <2>7 DEF OwnersInv
  <2> QED
    BY <2>3, <2>6, <2>8 DEF OwnersInv
<1>14. ASSUME NEW j \in work, DoesRemove(j) PROVE OwnersInv'
  <2> DEFINE a == IF j.srv \in OwnedBy(j.id) THEN "ok" ELSE "failed"
  <2>1. servers' \subseteq servers /\ Finishes(j, a, {}) /\ UNCHANGED life /\ j.kind = "remove"
    BY <1>14 DEF DoesRemove
  <2>2. a \in {"ok", "failed"}
    OBVIOUS
  <2> HIDE DEF a
  <2> QED
    BY <2>1, <2>2, OwnersFinished
<1>15. ASSUME NEW j \in work, DoesErase(j) PROVE OwnersInv'
  <2>0. UNCHANGED life /\ servers' \subseteq servers /\ j.kind = "erase" /\ j \in Job /\ j.id = j.as
    BY <1>15, <1>w DEF DoesErase, SelfInv
  <2>1. CASE /\ UNCHANGED req /\ work' = (work \ {j}) \cup {[j EXCEPT !.half = TRUE]}
             /\ servers' = {x \in servers : x.owner # j.id}
    <3>1. [j EXCEPT !.half = TRUE].as = j.as
      BY <2>0 DEF Job
    <3>2. \A k \in work' : k \in work \/ k.as = j.as
      BY <2>1, <3>1
    <3>3. \A x \in servers' : x.owner # j.as
      BY <2>0, <2>1
    <3> QED
      BY <2>0, <2>1, <3>2, <3>3, OwnersKept
  <2>2. CASE j.half /\ Finishes(j, "ok", {})
    BY <2>0, <2>2, OwnersFinished
  <2> QED
    BY <1>15, <2>1, <2>2 DEF DoesErase
<1>16. ASSUME NEW j \in work, DoesNot(j) PROVE OwnersInv'
  <2>1. UNCHANGED life /\ servers' \subseteq servers /\ Finishes(j, "failed", {})
    BY <1>16 DEF DoesNot
  <2> QED
    BY <2>1, OwnersFinished
<1>17. ASSUME NEW n \in Name, TakesName(n) PROVE OwnersInv'
  <2>1. life[n] = 0 /\ life' = [life EXCEPT ![n] = lives'[n]] /\ UNCHANGED <<req, work, servers>>
    BY <1>17 DEF TakesName, indexVars
  <2>2. \A x \in servers : x.owner[1] # n
    BY <1>x, <2>1 DEF OwnersInv, Now
  <2>3. \A m \in Name : m # n => life'[m] = life[m]
    BY <2>1 DEF PageTypes
  <2>4. \A x \in servers' : x.owner = Now(x.owner[1])'
    <3> SUFFICES ASSUME NEW x \in servers PROVE x.owner = Now(x.owner[1])'
      BY <2>1
    <3>1. life'[x.owner[1]] = life[x.owner[1]]
      BY <1>x, <2>2, <2>3
    <3> QED
      BY <3>1 DEF OwnersInv, Now
  <2> QED
    BY <2>1, <2>4 DEF OwnersInv, Erased
<1>18. CASE SessionsEnd \/ (\E n \in Name : ListAges(n)) \/ UNCHANGED controllerVars
  <2>1. UNCHANGED <<req, servers, work, life>>
    BY <1>18 DEF SessionsEnd, ListAges, nodeVars, indexVars, controllerVars
  <2> QED
    BY <2>1, <1>8
<1>19. CASE NodeRestarts
  <2>1. Deafened(Slot) /\ UNCHANGED <<life, servers>> /\ \A q \in Slot : req'[q] = NoRequest
    BY <1>19, RestartDeafens DEF NodeRestarts
  <2>2. \A k \in work' : k.heard => k \in work
    BY <1>w, <2>1 DEF Deafened
  <2> QED
    BY <2>1, <2>2, <1>8
<1> QED
  BY <1>1, <1>2, <1>3, <1>4, <1>5, <1>6, <1>7, <1>9, <1>10, <1>11, <1>12, <1>13, <1>14, <1>15,
     <1>16, <1>17, <1>18, <1>19 DEF ControllerNext, PageStep, IndexStep

\* The whole invariant.
PageInv ==
  /\ PageTypes /\ PathInv /\ LockInv /\ HearsInv /\ SessionsInv /\ ServersInv
  /\ ~Overlap => LifeInv /\ SelfInv /\ ListsInv /\ NextListHasChange /\ OwnersInv

\* The invariant at the start.
LEMMA PageInit == ControllerInit => PageInv
<1> SUFFICES ASSUME ControllerInit PROVE PageInv
  OBVIOUS
<1>1. PageTypes /\ PathInv /\ LockInv /\ HearsInv
  BY PageTypesInit
<1>2. req \in [Slot -> PageRequest] /\ \A r \in Slot : req[r] = NoRequest
  BY NoneUnderWay DEF ControllerInit
<1>3. \A r \in Slot : req[r].at = "idle" /\ req[r].kind = "list" /\ req[r].token = NoSession
                      /\ req[r].answer = "none" /\ req[r].seen = {}
  BY <1>2, NoneUnderWay
<1>4. \A r \in Slot : Earned(r) = {}
  BY <1>3, EarnedNone
<1>5. SessionsInv /\ ServersInv
  BY <1>4 DEF ControllerInit, SessionsInv, ServersInv
<1>6. \A n \in Name : life[n] = 1 /\ tokens[n] = NoSession /\ lists[n] = {}
  BY DEF ControllerInit
<1>7. LifeInv
  BY <1>3, <1>6 DEF ControllerInit, LifeInv, Current, Ending
<1>8. SelfInv
  BY <1>3, <1>6 DEF ControllerInit, SelfInv, NoSession
<1>9. ListsInv /\ NextListHasChange
  BY <1>3, <1>6 DEF ControllerInit, ListsInv, NextListHasChange
<1>10. OwnersInv
  BY <1>3 DEF ControllerInit, OwnersInv, Erased
<1> QED
  BY <1>1, <1>5, <1>7, <1>8, <1>9, <1>10 DEF PageInv

\* The invariant at every step.
LEMMA PageStepKeeps == PageInv /\ [ControllerNext]_controllerVars => PageInv'
<1> SUFFICES ASSUME PageInv, [ControllerNext]_controllerVars PROVE PageInv'
  OBVIOUS
<1>1. PageTypes' /\ SessionsInv' /\ PathInv' /\ LockInv' /\ HearsInv' /\ ServersInv'
  BY PageTypesStep, SessionsStep, PathsStep, ServersStep DEF PageInv
<1>2. ASSUME ~Overlap PROVE LifeInv' /\ SelfInv' /\ ListsInv' /\ NextListHasChange' /\ OwnersInv'
  BY <1>2, LifeStep, SelfStep, ListsStep, OwnersStep DEF PageInv
<1> QED
  BY <1>1, <1>2 DEF PageInv

\* The invariant of a node's page holds of every behaviour.
THEOREM PagesHold == ControllerSpec => []PageInv
<1>1. ControllerInit => PageInv
  BY PageInit
<1>2. PageInv /\ [ControllerNext]_controllerVars => PageInv'
  BY PageStepKeeps
<1> QED
  BY <1>1, <1>2, PTL DEF ControllerSpec

\* "The list a page sees next includes the change" (forward_as), whoever fetched it,
\* when no account is removed under its requests.
THEOREM ListsShowChanges == ~Overlap => (ControllerSpec => []NextListHasChange)
<1> SUFFICES ASSUME ~Overlap PROVE ControllerSpec => []NextListHasChange
  OBVIOUS
<1>1. PageInv => NextListHasChange
  BY DEF PageInv
<1> QED
  BY <1>1, PagesHold, PTL

\* An account acts at the index as itself (key_salt), when none is removed under its
\* requests; the violation run shows what happens when one is.
THEOREM ActsForItself == ~Overlap => (ControllerSpec => []ActsAsItself)
<1> SUFFICES ASSUME ~Overlap PROVE ControllerSpec => []ActsAsItself
  OBVIOUS
<1>1. PageInv => ActsAsItself
  BY DEF PageInv, SelfInv, ActsAsItself
<1> QED
  BY <1>1, PagesHold, PTL

\* "Its servers are never left running with nobody able to reach them"
\* (remove_account), when no account is removed under its requests.
THEOREM RemovedLeavesNone == ~Overlap => (ControllerSpec => []NoneLeftRunning)
<1> SUFFICES ASSUME ~Overlap PROVE ControllerSpec => []NoneLeftRunning
  OBVIOUS
<1>1. PageInv => NoneLeftRunning
  <2> SUFFICES ASSUME PageInv, NEW x \in servers PROVE life[x.owner[1]] = x.owner[2]
    BY DEF NoneLeftRunning
  <2>1. x.owner = <<x.owner[1], life[x.owner[1]]>>
    BY DEF PageInv, OwnersInv, Now
  <2> QED
    BY <2>1
<1> QED
  BY <1>1, PagesHold, PTL

-----------------------------------------------------------------------------
\* Requests are no more than an account may hold sessions.
Few == ~Overlap /\ IsFiniteSet(Slot) /\ Cardinality(Slot) <= OwnSessions

\* A session there is, and one that as many logins followed as an account may hold.
Alive(t) == \E x \in sessions : x.token = t
Outlived(q) == opened >= q.token + OwnSessions

\* Nobody stops hearing of the index's work but when something goes wrong.
UnheardInv == upsets \in Nat /\ \A j \in work : ~j.heard => upsets # 0

\* An account is erased at the index once at a time.
OneErase == \A j, k \in work : j.kind = "erase" /\ k.kind = "erase" /\ j.as = k.as => j = k

\* Only who was refused asks again.
AgainInv == \A r \in Slot : req[r].at \in {"idle", "waits", "drops", "token"} => ~req[r].again

\* What goes wrong may yet end the sessions of the account that has the name.
Danger(n) == upsets = 0 \/ \E j \in work : j.kind = "erase" /\ ~j.heard /\ j.as[1] = n

\* The name's account is erased at the index, or there is none.
Going(n) == life[n] = 0 \/ \E r \in Slot : Erased(req[r]) /\ NameOf(r) = n

\* The name's requests at s.
By(n, s) == {r \in Slot : req[r].at = s /\ NameOf(r) = n}

\* The account's session that the node has, and those its requests have.
InUse(n, t) == \/ t = tokens[n] /\ t # NoSession
               \/ \E r \in By(n, "keeps") \cup By(n, "asks") : req[r].token = t

\* The account's sessions since one, and who may log in before one is kept.
Newer(n, t) == {x \in sessions : x.id = Now(n) /\ x.token > t}
ToLogin(n) == IF tokens[n] = NoSession THEN Slot \ By(n, "keeps") ELSE By(n, "login")

\* No session in use is the account's oldest of as many as it may hold, nor will be.
InTime(n, t) == Cardinality(Newer(n, t)) + Cardinality(ToLogin(n)) < Cardinality(Slot)
\* No request of the name was refused, and the sessions in use are there to stay.
Quiet(n) ==
  /\ \A r \in Slot : req[r].at \in Asking /\ NameOf(r) = n => ~req[r].again /\ req[r].at # "refused"
  /\ \A t \in 0 .. MaxSession : InUse(n, t) => Alive(t) /\ InTime(n, t)

\* While its sessions may be ended, an account has lost none.
Calm(n) == Danger(n) /\ ~Going(n) => Quiet(n)

\* Who asks again is refused only when its account has logged in as often since
\* as it may hold sessions.
Sound(q) ==
  /\ q.again /\ q.at \in {"keeps", "asks"} => Alive(q.token) \/ Outlived(q)
  /\ q.again /\ q.at = "refused" => Outlived(q)
  /\ q.answer = "refused" => Outlived(q)

\* What holds while one thing goes wrong.
RetryInv == upsets <= 1 => (\A n \in Name : Calm(n)) /\ (\A r \in Slot : Sound(req[r]))

-----------------------------------------------------------------------------
\* An account has no more sessions than tokens since its oldest.
LEMMA OwnCounted ==
  ASSUME PageTypes, SessionsInv, NEW id, NEW t \in Nat, NEW S \in SUBSET sessions,
         \A x \in S : x.id = id /\ x.token >= t, t <= opened
  PROVE  IsFiniteSet(S) /\ Cardinality(S) <= opened - t + 1
<1>1. opened \in Nat /\ \A x \in S : x.token \in Nat /\ x.token <= opened
  BY ControllerAssumption DEF PageTypes, SessionsInv
<1> DEFINE f == [x \in S |-> x.token]
<1>2. f \in [S -> t .. opened]
  BY <1>1
<1>3. \A x, y \in S : f[x] = f[y] => x = y
  BY DEF SessionsInv
<1>4. f \in Injection(S, t .. opened)
  BY <1>2, <1>3 DEF Injection, IsInjective
<1>5. IsFiniteSet(t .. opened) /\ Cardinality(t .. opened) = opened - t + 1
  BY <1>1, FS_Interval
<1>6. IsFiniteSet(S) /\ Cardinality(S) <= Cardinality(t .. opened)
  BY <1>4, <1>5, FS_Injection
<1> QED
  BY <1>5, <1>6

\* The sessions and the requests that are counted are finitely many.
LEMMA NewerFinite ==
  ASSUME PageTypes, SessionsInv
  PROVE  \A n, t : IsFiniteSet(Newer(n, t)) /\ Cardinality(Newer(n, t)) \in Nat
<1> SUFFICES ASSUME NEW n, NEW t PROVE IsFiniteSet(Newer(n, t))
  BY FS_CardinalityType
<1>1. \A x \in Newer(n, t) : x \in sessions /\ x.id = Now(n)
  BY DEF Newer
<1>2. \A x \in Newer(n, t) : x.token >= 0
  BY <1>1, ControllerAssumption DEF PageTypes
<1>3. 0 <= opened
  BY ControllerAssumption DEF PageTypes
<1> QED
  BY <1>1, <1>2, <1>3, OwnCounted

LEMMA ToLoginFinite ==
  ASSUME Few
  PROVE  \A n : IsFiniteSet(ToLogin(n)) /\ Cardinality(ToLogin(n)) \in Nat /\ ToLogin(n) \subseteq Slot
<1>1. \A n : ToLogin(n) \subseteq Slot
  BY DEF ToLogin, By
<1> QED
  BY <1>1, FS_Subset, FS_CardinalityType DEF Few

\* Fewer sessions since, and fewer to log in: a session in use stays in time.
LEMMA StaysInTime ==
  ASSUME PageTypes, SessionsInv, Few, NEW n, NEW t, InTime(n, t),
         Newer(n, t)' \subseteq Newer(n, t), ToLogin(n)' \subseteq ToLogin(n)
  PROVE  InTime(n, t)'
<1>1. IsFiniteSet(Newer(n, t)) /\ IsFiniteSet(ToLogin(n)) /\ Cardinality(Slot) \in Nat
      /\ Cardinality(Newer(n, t)) \in Nat /\ Cardinality(ToLogin(n)) \in Nat
  BY NewerFinite, ToLoginFinite, FS_CardinalityType DEF Few
<1>2. Cardinality(Newer(n, t)') <= Cardinality(Newer(n, t)) /\ Cardinality(ToLogin(n)') <= Cardinality(ToLogin(n))
      /\ IsFiniteSet(Newer(n, t)') /\ IsFiniteSet(ToLogin(n)')
  BY <1>1, FS_Subset
<1>3. Cardinality(Newer(n, t)') \in Nat /\ Cardinality(ToLogin(n)') \in Nat
  BY <1>2, FS_CardinalityType
<1>4. Cardinality(Newer(n, t)') + Cardinality(ToLogin(n)') < Cardinality(Slot)
  BY <1>1, <1>2, <1>3 DEF InTime
<1> QED
  BY <1>4 DEF InTime

\* A quiet account stays so when nothing in use is lost and nobody else may log in.
LEMMA QuietKept ==
  ASSUME PageTypes, SessionsInv, Few, NEW n, Quiet(n),
         \A r \in Slot : req'[r].at \in Asking /\ req'[r].as[1] = n => ~req'[r].again /\ req'[r].at # "refused",
         \A t \in 0 .. MaxSession : InUse(n, t)' => InUse(n, t) /\ (Alive(t) => Alive(t)'),
         \A t : Newer(n, t)' \subseteq Newer(n, t), ToLogin(n)' \subseteq ToLogin(n)
  PROVE  Quiet(n)'
<1>1. \A t \in 0 .. MaxSession : InUse(n, t)' => Alive(t)' /\ InTime(n, t)'
  BY StaysInTime DEF Quiet
<1> QED
  BY <1>1 DEF Quiet, NameOf

\* Every step keeps UnheardInv, and one thing goes wrong at most.
LEMMA UnheardStep ==
  ASSUME PageTypes, PathInv, UnheardInv, [ControllerNext]_controllerVars
  PROVE  UnheardInv' /\ upsets <= upsets' /\ (upsets' = upsets \/ upsets' = upsets + 1)
<1>u. \A r \in Slot : Unheard(r) => Deafened({r})
  BY UnheardDeafens
<1>1. upsets' = upsets \/ upsets' = upsets + 1
  <2>1. ASSUME NEW r \in Slot, PageStep(r) PROVE upsets' = upsets \/ upsets' = upsets + 1
    <3>1. CASE \E n \in Name : PageAsks(r, n) \/ Erases(r, n)
      BY <3>1 DEF PageAsks, Erases, Starts
    <3>2. CASE ListsOrAsks(r) \/ DropsList(r) \/ TokenOrLogin(r) \/ Login(r) \/ KeepsToken(r) \/ Sends(r)
      BY <3>2 DEF ListsOrAsks, DropsList, TokenOrLogin, Login, KeepsToken, Sends, indexVars
    <3>3. CASE HearsRefusal(r) \/ Forgets(r) \/ ForgetsList(r) \/ RemovesAccount(r) \/ Answered(r)
      BY <3>3 DEF HearsRefusal, Forgets, ForgetsList, RemovesAccount, Answered, indexVars
    <3>4. CASE LoginFails(r) \/ GivesUp(r) \/ PageHangsUp(r)
      BY <3>4 DEF LoginFails, GivesUp, PageHangsUp, Upset
    <3> QED
      BY <2>1, <3>1, <3>2, <3>3, <3>4 DEF PageStep
  <2>2. ASSUME NEW j \in work, IndexStep(j) PROVE upsets' = upsets
    BY <2>2 DEF IndexStep, DoesList, DoesDeploy, DoesRemove, DoesErase, DoesNot
  <2>3. CASE SessionsEnd \/ NodeRestarts \/ \E n \in Name : TakesName(n) \/ ListAges(n)
    BY <2>3 DEF SessionsEnd, NodeRestarts, TakesName, ListAges, Upset, indexVars
  <2>4. CASE UNCHANGED controllerVars
    BY <2>4 DEF controllerVars
  <2> QED
    BY <2>1, <2>2, <2>3, <2>4 DEF ControllerNext
<1>2. upsets \in Nat
  BY DEF UnheardInv
<1>3. ASSUME NEW k \in work', ~k.heard PROVE upsets' # 0
  <2>1. CASE upsets' = upsets + 1
    BY <1>2, <2>1
  <2>2. CASE work' = work
    BY <1>1, <1>2, <1>3, <2>2 DEF UnheardInv
  <2>3. ASSUME \E j \in work : k.heard = j.heard PROVE upsets' # 0
    BY <1>1, <1>2, <1>3, <2>3 DEF UnheardInv
  <2>4. ASSUME NEW r \in Slot, Sends(r) PROVE upsets' # 0
    <3>1. k \in work
      BY <1>3, <2>4, SendsWork
    <3> QED
      BY <3>1, <2>3
  <2>5. ASSUME NEW j \in work, IndexStep(j) PROVE upsets' # 0
    <3>1. k \in work \/ k.heard = j.heard
      <4>1. CASE work' = work \ {j}
        BY <4>1
      <4>2. CASE work' = (work \ {j}) \cup {[j EXCEPT !.half = TRUE, !.rows = OwnedBy(j.id)]}
        <5>1. [j EXCEPT !.half = TRUE, !.rows = OwnedBy(j.id)].heard = j.heard
          BY DEF PageTypes, Job
        <5> QED
          BY <4>2, <5>1
      <4>3. CASE work' = (work \ {j}) \cup {[j EXCEPT !.half = TRUE]}
        <5>1. [j EXCEPT !.half = TRUE].heard = j.heard
          BY DEF PageTypes, Job
        <5> QED
          BY <4>3, <5>1
      <4> QED
        BY <2>5, <4>1, <4>2, <4>3 DEF IndexStep, DoesList, DoesDeploy, DoesRemove, DoesErase, DoesNot, Finishes
    <3> QED
      BY <3>1, <2>3
  <2>6. ASSUME NEW r \in Slot, PageStep(r), ~Sends(r), work' # work PROVE upsets' = upsets + 1
    BY <2>6 DEF PageStep, PageAsks, Erases, Starts, ListsOrAsks, DropsList, TokenOrLogin, Login, LoginFails, KeepsToken,
       HearsRefusal, Forgets, ForgetsList, RemovesAccount, Answered, GivesUp, PageHangsUp, Upset, indexVars
  <2>7. ASSUME SessionsEnd \/ NodeRestarts \/ (\E n \in Name : TakesName(n) \/ ListAges(n)) \/ UNCHANGED controllerVars,
               work' # work
        PROVE  upsets' = upsets + 1
    BY <2>7 DEF SessionsEnd, NodeRestarts, TakesName, ListAges, Upset, controllerVars, indexVars
  <2> QED
    BY <2>1, <2>2, <2>4, <2>5, <2>6, <2>7 DEF ControllerNext
<1> QED
  BY <1>1, <1>2, <1>3 DEF UnheardInv

\* Every step keeps OneErase.
LEMMA OneEraseStep ==
  ASSUME PageTypes, PathInv, SessionsInv, LifeInv, OneErase, [ControllerNext]_controllerVars
  PROVE  OneErase'
<1>1. ASSUME \A k \in work' : k.kind = "erase" => k \in work PROVE OneErase'
  BY <1>1 DEF OneErase
<1>2. ASSUME NEW S, Deafened(S) PROVE OneErase'
  <2> SUFFICES ASSUME NEW k \in work', NEW m \in work', k.kind = "erase", m.kind = "erase", k.as = m.as
               PROVE  k = m
    BY DEF OneErase
  <2>1. PICK j \in work :
          /\ k.slot = j.slot /\ k.kind = j.kind /\ k.as = j.as /\ k.id = j.id /\ k.srv = j.srv
          /\ k.rows = j.rows /\ k.half = j.half /\ k \in Job
          /\ (k.heard => j.slot \notin S) /\ (j.slot \notin S => k = j)
    BY <1>2 DEF Deafened
  <2>2. PICK i \in work :
          /\ m.slot = i.slot /\ m.kind = i.kind /\ m.as = i.as /\ m.id = i.id /\ m.srv = i.srv
          /\ m.rows = i.rows /\ m.half = i.half /\ m \in Job
          /\ (m.heard => i.slot \notin S) /\ (i.slot \notin S => m = i)
    BY <1>2 DEF Deafened
  <2>3. i = j
    BY <2>1, <2>2 DEF OneErase
  <2>4. CASE j.slot \notin S
    BY <2>1, <2>2, <2>3, <2>4
  <2>5. CASE j.slot \in S
    <3>1. k.heard = FALSE /\ m.heard = FALSE
      BY <2>1, <2>2, <2>3, <2>5 DEF Job
    <3> QED
      BY <2>1, <2>2, <2>3, <3>1 DEF Job
  <2> QED
    BY <2>4, <2>5
<1>3. ASSUME NEW r \in Slot, Sends(r) PROVE OneErase'
  <2>1. \A k \in work' : k \in work \/ (k.kind = req[r].kind /\ k.as = req[r].as)
    BY <1>3, SendsWork
  <2>2. \A j, k \in work' \ work : j.id = k.id => j = k
    BY <1>3, SendsWork
  <2>3. CASE req[r].kind # "erase"
    BY <2>1, <2>3, <1>1
  <2>4. CASE req[r].kind = "erase"
    <3>1. \A j \in work : j.as # req[r].as
      BY <1>3, <2>4 DEF Sends, LifeInv, Ending, NameOf
    <3>2. \A j, k \in work' \ work : j = k
      <4>1. \A j, k \in work' \ work : j.id = k.id
        <5>1. \A j \in work' \ work : \E x \in sessions : x.token = req[r].token /\ x.id = j.id
          BY <1>3, SendsWork
        <5> QED
          BY <5>1 DEF SessionsInv
      <4> QED
        BY <2>2, <4>1
    <3> QED
      BY <2>1, <3>1, <3>2 DEF OneErase
  <2> QED
    BY <2>3, <2>4
<1>4. ASSUME NEW j \in work, DoesErase(j) PROVE OneErase'
  <2>1. CASE work' = work \ {j}
    BY <2>1, <1>1
  <2>2. CASE work' = (work \ {j}) \cup {[j EXCEPT !.half = TRUE]}
    <3>1. [j EXCEPT !.half = TRUE].as = j.as
      BY DEF PageTypes, Job
    <3>2. j.kind = "erase"
      BY <1>4 DEF DoesErase
    <3>3. \A k \in work' : k \in work \ {j} \/ (k = [j EXCEPT !.half = TRUE] /\ k.as = j.as)
      BY <2>2, <3>1
    <3>4. \A k \in work \ {j} : k.kind = "erase" => k.as # j.as
      BY <3>2 DEF OneErase
    <3> QED
      BY <3>3, <3>4 DEF OneErase
  <2> QED
    BY <1>4, <2>1, <2>2 DEF DoesErase, Finishes
<1>5. ASSUME NEW j \in work, DoesList(j) PROVE OneErase'
  <2>1. CASE work' = work \ {j}
    BY <2>1, <1>1
  <2>2. CASE work' = (work \ {j}) \cup {[j EXCEPT !.half = TRUE, !.rows = OwnedBy(j.id)]}
    <3>1. [j EXCEPT !.half = TRUE, !.rows = OwnedBy(j.id)].kind = "list"
      BY <1>5 DEF PageTypes, Job, DoesList
    <3> QED
      BY <2>2, <3>1, <1>1
  <2> QED
    BY <1>5, <2>1, <2>2 DEF DoesList, Finishes
<1>6. ASSUME NEW j \in work, DoesDeploy(j) \/ DoesRemove(j) \/ DoesNot(j) PROVE OneErase'
  BY <1>1, <1>6 DEF DoesDeploy, DoesRemove, DoesNot, Finishes
<1>7. ASSUME NEW r \in Slot, GivesUp(r) \/ PageHangsUp(r) PROVE OneErase'
  BY <1>2, <1>7, UnheardDeafens DEF GivesUp, PageHangsUp
<1>8. CASE NodeRestarts
  BY <1>2, <1>8, RestartDeafens DEF NodeRestarts
<1>9. ASSUME work' = work PROVE OneErase'
  BY <1>1, <1>9
<1>10. ASSUME NEW r \in Slot, PageStep(r), ~Sends(r), ~GivesUp(r), ~PageHangsUp(r) PROVE work' = work
  BY <1>10 DEF PageStep, PageAsks, Erases, Starts, ListsOrAsks, DropsList, TokenOrLogin, Login, LoginFails, KeepsToken,
       HearsRefusal, Forgets, ForgetsList, RemovesAccount, Answered, indexVars
<1>11. ASSUME SessionsEnd \/ (\E n \in Name : TakesName(n) \/ ListAges(n)) \/ UNCHANGED controllerVars
       PROVE  work' = work
  BY <1>11 DEF SessionsEnd, TakesName, ListAges, controllerVars, indexVars
<1> QED
  BY <1>3, <1>4, <1>5, <1>6, <1>7, <1>8, <1>9, <1>10, <1>11 DEF ControllerNext, IndexStep

\* Whether a request asks again changes only where it is refused.
LEMMA AgainStays ==
  ASSUME PageTypes, NEW r \in Slot
  PROVE  /\ \A s : At(r, s)[r].again = req[r].again
         /\ \A s, a : Answers(r, s, a)[r].again = req[r].again
         /\ \A s, a, w : [Answers(r, s, a) EXCEPT ![r].rows = w][r].again = req[r].again
         /\ \A s, a, x : [Answers(r, s, a) EXCEPT ![r].srv = x][r].again = req[r].again
         /\ \A s, t : [req EXCEPT ![r].at = s, ![r].token = t][r].again = req[r].again
<1>1. req \in [Slot -> PageRequest] /\ req[r] \in PageRequest
  BY DEF PageTypes
<1>2. \A s : At(r, s)[r].again = req[r].again
  BY <1>1 DEF At, PageRequest
<1>3. \A s, a : Answers(r, s, a)[r].again = req[r].again
  BY <1>1 DEF Answers, PageRequest
<1>4. \A s, a, w : [Answers(r, s, a) EXCEPT ![r].rows = w][r].again = req[r].again
  BY <1>1 DEF Answers, PageRequest
<1>5. \A s, a, x : [Answers(r, s, a) EXCEPT ![r].srv = x][r].again = req[r].again
  BY <1>1 DEF Answers, PageRequest
<1>6. \A s, t : [req EXCEPT ![r].at = s, ![r].token = t][r].again = req[r].again
  BY <1>1 DEF PageRequest
<1> QED
  BY <1>2, <1>3, <1>4, <1>5, <1>6

\* A reply changes nothing of whether a request asks again.
LEMMA AgainReplied ==
  ASSUME PageTypes, NEW r \in Slot, NEW a, NEW w, Replied(r, a, w)
  PROVE  req'[r].again = req[r].again
<1>1. req[r].kind \in {"list", "deploy", "remove", "erase"}
  BY DEF PageTypes, PageRequest
<1>2. CASE req[r].kind = "list"
  <2>1. req' = [Answers(r, "done", a) EXCEPT ![r].rows = w]
    BY <1>2 DEF Replied
  <2> QED
    BY <2>1, AgainStays
<1>3. CASE req[r].kind # "list"
  <2>1. PICK s : req' = Answers(r, s, a)
    BY <1>1, <1>3 DEF Replied
  <2> QED
    BY <2>1, AgainStays
<1> QED
  BY <1>2, <1>3

\* Every step keeps AgainInv.
LEMMA AgainStep ==
  ASSUME PageTypes, PathInv, AgainInv, [ControllerNext]_controllerVars
  PROVE  AgainInv'
<1> DEFINE Early == {"idle", "waits", "drops", "token"}
<1>1. ASSUME NEW r \in Slot, \A q \in Slot : q # r => req'[q] = req[q], req'[r].at \in Early => ~req'[r].again
      PROVE  AgainInv'
  BY <1>1 DEF AgainInv
<1>2. ASSUME NEW r \in Slot, NEW a \in {"ok", "refused", "failed"}, NEW w \in SUBSET ServerNo, Replied(r, a, w)
      PROVE  AgainInv'
  <2>1. PICK s, y : Goes(r, s, req[r].srv, req[r].token, a, y) /\ s \in {"done", "forgets", "clears"}
    BY <1>2, GoesReplied
  <2> QED
    BY <2>1, <1>1 DEF Goes
<1>3. ASSUME NEW j \in work, NEW a \in {"ok", "failed"}, NEW w \in SUBSET ServerNo, Finishes(j, a, w) PROVE AgainInv'
  <2>1. j.slot \in Slot
    BY DEF PageTypes, Job
  <2>2. CASE j.heard
    BY <1>2, <1>3, <2>1, <2>2 DEF Finishes
  <2>3. CASE ~j.heard
    BY <1>3, <2>3 DEF Finishes, AgainInv
  <2> QED
    BY <2>2, <2>3
<1>4. ASSUME NEW r \in Slot, NEW s \in Places, req' = At(r, s), s \notin Early \/ req[r].at \in Early PROVE AgainInv'
  <2>1. Goes(r, s, req[r].srv, req[r].token, req[r].answer, req[r].rows) /\ req'[r].again = req[r].again
    BY <1>4, GoesAt, AgainStays
  <2> QED
    BY <1>4, <2>1, <1>1 DEF Goes, AgainInv
<1>5. ASSUME req' = req PROVE AgainInv'
  BY <1>5 DEF AgainInv
<1>6. ASSUME NEW r \in Slot, NEW n \in Name, PageAsks(r, n) \/ Erases(r, n) PROVE AgainInv'
  <2>1. PICK s \in {"waits", "drops", "token"}, k \in {"list", "deploy", "remove", "erase"}, x \in ServerNo \cup {0} :
          Starts(r, n, s, k, x)
    <3>1. \A x \in OwnedBy(<<n, life[n]>>) : x \in ServerNo
      BY DEF OwnedBy, PageTypes
    <3>2. CASE Erases(r, n)
      BY <3>2 DEF Erases
    <3>3. CASE PageAsks(r, n)
      BY <3>1, <3>3 DEF PageAsks
    <3> QED
      BY <1>6, <3>2, <3>3
  <2>2. Begins(r, n, s, k, x)
    BY <2>1, StartsBegins DEF Places
  <2> QED
    BY <2>2, <1>1 DEF Begins
<1>7. ASSUME NEW r \in Slot, ListsOrAsks(r) PROVE AgainInv'
  <2>1. CASE \E rows \in lists[NameOf(r)] :
               req' = [req EXCEPT ![r].at = "done", ![r].answer = "ok", ![r].rows = rows]
    <3>1. NameOf(r) \in Name
      BY <1>7 DEF ListsOrAsks, PathInv, PathOf, NameOf, Identity
    <3>2. PICK w \in lists[NameOf(r)] : req' = [Answers(r, "done", "ok") EXCEPT ![r].rows = w]
      BY <2>1 DEF Answers
    <3>3. Goes(r, "done", req[r].srv, req[r].token, "ok", w)
      BY <3>1, <3>2, GoesListed DEF Places, PageTypes
    <3> QED
      BY <3>3, <1>1 DEF Goes
  <2>2. CASE req' = At(r, "token") /\ req[r].at = "waits"
    BY <2>2, <1>4 DEF Places
  <2> QED
    BY <1>7, <2>1, <2>2 DEF ListsOrAsks, To
<1>8. ASSUME NEW r \in Slot,
             \/ DropsList(r)
             \/ KeepsToken(r)
             \/ Sends(r)
             \/ Forgets(r)
             \/ ForgetsList(r)
             \/ RemovesAccount(r)
      PROVE  AgainInv'
  <2>1. PICK s : s \in Places /\ req' = At(r, s) /\ (s \notin Early \/ req[r].at \in Early)
    BY <1>8 DEF DropsList, KeepsToken, Sends, Forgets, ForgetsList, RemovesAccount, To, Places
  <2> QED
    BY <2>1, <1>4
<1>9. ASSUME NEW r \in Slot, TokenOrLogin(r) PROVE AgainInv'
  <2> DEFINE t == tokens[NameOf(r)]
             s == IF t = NoSession THEN "login" ELSE "asks"
  <2>1. req' = [req EXCEPT ![r].at = s, ![r].token = t] /\ req[r].at = "token"
    BY <1>9 DEF TokenOrLogin
  <2>2. s \in Places /\ s \notin Early
    BY DEF Places
  <2>3. t \in 0 .. MaxSession
    BY <2>1 DEF PageTypes, PathInv, PathOf, NameOf, Identity
  <2> HIDE DEF s, t
  <2>4. Goes(r, s, req[r].srv, t, req[r].answer, req[r].rows)
    BY <2>1, <2>2, <2>3, GoesWithToken
  <2> QED
    BY <2>2, <2>4, <1>1 DEF Goes
<1>10. ASSUME NEW r \in Slot, Login(r) PROVE AgainInv'
  <2>1. opened' \in 0 .. MaxSession
    BY <1>10, ControllerAssumption DEF Login, PageTypes
  <2>2. Goes(r, "keeps", req[r].srv, opened', req[r].answer, req[r].rows)
    BY <1>10, <2>1, GoesWithToken DEF Login, Places
  <2> QED
    BY <2>2, <1>1 DEF Goes
<1>11. ASSUME NEW r \in Slot, HearsRefusal(r) PROVE AgainInv'
  <2>1. CASE Replied(r, "refused", {})
    BY <2>1, <1>2
  <2>2. CASE req' = [req EXCEPT ![r].at = "login", ![r].again = TRUE]
    <3>1. Goes(r, "login", req[r].srv, req[r].token, req[r].answer, req[r].rows)
      BY <2>2, GoesAgain DEF Places
    <3> QED
      BY <3>1, <1>1 DEF Goes
  <2> QED
    BY <1>11, <2>1, <2>2 DEF HearsRefusal
<1>12. ASSUME NEW r \in Slot, Answered(r) \/ PageHangsUp(r) PROVE AgainInv'
  <2>1. Ends(r)
    BY <1>12, EndsThere DEF Answered, PageHangsUp
  <2> QED
    BY <2>1, <1>1 DEF Ends, NoRequest
<1>13. ASSUME NEW r \in Slot, LoginFails(r) \/ GivesUp(r) PROVE AgainInv'
  BY <1>13, <1>2 DEF LoginFails, GivesUp
<1>14. ASSUME NEW j \in work, IndexStep(j) PROVE AgainInv'
  <2>1. CASE DoesDeploy(j)
    <3>1. CASE j.heard
      <4>1. made' \in ServerNo /\ j.slot \in Slot
        BY <2>1, ControllerAssumption DEF DoesDeploy, PageTypes, ServerNo, Job
      <4>2. Goes(j.slot, "clears", made', req[j.slot].token, "ok", req[j.slot].rows)
        BY <2>1, <3>1, <4>1, GoesMade DEF DoesDeploy, Places, AfterChange
      <4> QED
        BY <4>1, <4>2, <1>1 DEF Goes
    <3>2. CASE ~j.heard
      BY <2>1, <3>2, <1>5 DEF DoesDeploy
    <3> QED
      BY <3>1, <3>2
  <2>2. CASE DoesRemove(j)
    <3>1. PICK a \in {"ok", "failed"} : Finishes(j, a, {})
      BY <2>2 DEF DoesRemove
    <3> QED
      BY <3>1, <1>3
  <2>3. CASE DoesList(j)
    <3>1. j.rows \in SUBSET ServerNo
      BY DEF PageTypes, Job
    <3> QED
      BY <2>3, <3>1, <1>3, <1>5 DEF DoesList
  <2>4. CASE DoesErase(j)
    BY <2>4, <1>3, <1>5 DEF DoesErase
  <2>5. CASE DoesNot(j)
    BY <2>5, <1>3 DEF DoesNot
  <2> QED
    BY <1>14, <2>1, <2>2, <2>3, <2>4, <2>5 DEF IndexStep
<1>15. CASE SessionsEnd \/ (\E n \in Name : TakesName(n) \/ ListAges(n)) \/ UNCHANGED controllerVars
  BY <1>5, <1>15 DEF SessionsEnd, TakesName, ListAges, nodeVars, controllerVars
<1>16. CASE NodeRestarts
  BY <1>16 DEF NodeRestarts, AgainInv, NoRequest
<1> QED
  BY <1>6, <1>7, <1>8, <1>9, <1>10, <1>11, <1>12, <1>13, <1>14, <1>15, <1>16 DEF ControllerNext, PageStep

\* A request that neither has a session nor is to have one takes part in nothing.
LEMMA QuietAside ==
  ASSUME PageTypes, SessionsInv, Few, NEW n, Quiet(n), NEW r \in Slot, \A q \in Slot : q # r => req'[q] = req[q],
         req[r].at # "keeps", req'[r].at \notin {"login", "keeps", "asks", "refused"},
         \/ req'[r].at \notin Asking
         \/ ~req'[r].again
         \/ req[r].at \in Asking /\ req'[r].as = req[r].as /\ req'[r].again = req[r].again,
         UNCHANGED <<tokens, sessions, life>>
  PROVE  Quiet(n)'
<1>1. \A q \in Slot : req'[q].at \in Asking /\ req'[q].as[1] = n => ~req'[q].again /\ req'[q].at # "refused"
  <2> SUFFICES ASSUME NEW q \in Slot, req'[q].at \in Asking, req'[q].as[1] = n
               PROVE  ~req'[q].again /\ req'[q].at # "refused"
    OBVIOUS
  <2>1. CASE q # r
    <3>1. req'[q] = req[q]
      BY <2>1
    <3> QED
      BY <3>1 DEF Quiet, NameOf
  <2>2. CASE q = r
    BY <2>2 DEF Quiet, NameOf
  <2> QED
    BY <2>1, <2>2
<1>2. \A s \in {"keeps", "asks", "login"} : \A q \in By(n, s)' : q \in By(n, s) /\ req'[q] = req[q]
  BY DEF By, NameOf
<1>3. By(n, "keeps") \subseteq By(n, "keeps")'
  BY DEF By, NameOf
<1>4. \A t \in 0 .. MaxSession : InUse(n, t)' => InUse(n, t) /\ (Alive(t) => Alive(t)')
  BY <1>2 DEF InUse, Alive
<1>5. ToLogin(n)' \subseteq ToLogin(n)
  BY <1>2, <1>3 DEF ToLogin
<1>6. \A t : Newer(n, t)' \subseteq Newer(n, t)
  BY DEF Newer, Now
<1> QED
  BY <1>1, <1>4, <1>5, <1>6, QuietKept

\* What the requests of other names do is nothing to an account.
LEMMA QuietOthers ==
  ASSUME PageTypes, PathInv, SessionsInv, LifeInv, SelfInv, Few, NEW n \in Name, Quiet(n),
         \A q \in Slot : \/ req'[q] = req[q]
                         \/ /\ req[q].at = "idle" \/ NameOf(q) # n
                            /\ req'[q].at = "idle" \/ req'[q].as[1] # n,
         tokens'[n] = tokens[n], life'[n] = life[n],
         \A x : x.id = Now(n) => (x \in sessions' <=> x \in sessions)
  PROVE  Quiet(n)'
<1>1. \A q \in Slot : req'[q].at \in Asking /\ req'[q].as[1] = n => ~req'[q].again /\ req'[q].at # "refused"
  <2> SUFFICES ASSUME NEW q \in Slot, req'[q].at \in Asking, req'[q].as[1] = n
               PROVE  ~req'[q].again /\ req'[q].at # "refused"
    OBVIOUS
  <2>1. req'[q] = req[q]
    BY DEF Asking
  <2> QED
    BY <2>1 DEF Quiet, NameOf
<1>2. \A s \in {"keeps", "asks", "login"} : \A q \in By(n, s)' : q \in By(n, s) /\ req'[q] = req[q]
  BY DEF By, NameOf
<1>3. By(n, "keeps") \subseteq By(n, "keeps")'
  BY DEF By, NameOf
<1>4. \A t \in 0 .. MaxSession : InUse(n, t)' => InUse(n, t)
  BY <1>2 DEF InUse
<1>5. \A t \in 0 .. MaxSession : InUse(n, t) /\ Alive(t) => Alive(t)'
  <2> SUFFICES ASSUME NEW t \in 0 .. MaxSession, InUse(n, t), NEW x \in sessions, x.token = t
               PROVE  \E y \in sessions' : y.token = t
    BY DEF Alive
  <2>1. x.id = Now(n)
    <3>1. CASE t = tokens[n]
      BY <3>1 DEF SelfInv
    <3>2. CASE \E q \in By(n, "keeps") \cup By(n, "asks") : req[q].token = t
      <4>1. PICK q \in Slot : req[q].at \in {"keeps", "asks"} /\ NameOf(q) = n /\ req[q].token = t
        BY <3>2 DEF By
      <4>2. x.id = req[q].as
        BY <4>1 DEF SelfInv
      <4>3. Current(q)
        BY <4>1 DEF Current
      <4> QED
        BY <4>1, <4>2, <4>3 DEF LifeInv
    <3> QED
      BY <3>1, <3>2 DEF InUse
  <2> QED
    BY <2>1
<1>6. ToLogin(n)' \subseteq ToLogin(n)
  BY <1>2, <1>3 DEF ToLogin
<1>7. \A t : Newer(n, t)' \subseteq Newer(n, t)
  <2>1. Now(n)' = Now(n)
    BY DEF Now
  <2> QED
    BY <2>1 DEF Newer
<1> QED
  BY <1>1, <1>4, <1>5, <1>6, <1>7, QuietKept

\* What one request does is nothing to an account of another name.
LEMMA QuietElsewhere ==
  ASSUME PageTypes, PathInv, SessionsInv, LifeInv, SelfInv, Few, NEW n \in Name, Quiet(n),
         NEW r \in Slot, \A q \in Slot : q # r => req'[q] = req[q],
         req[r].at = "idle" \/ NameOf(r) # n, req'[r].at = "idle" \/ req'[r].as[1] # n,
         tokens'[n] = tokens[n], life'[n] = life[n],
         \A x : x.id = Now(n) => (x \in sessions' <=> x \in sessions)
  PROVE  Quiet(n)'
BY QuietOthers

\* When what may yet end sessions has been about to before, at most one upset on.
LEMMA DangerKept ==
  ASSUME UnheardInv, upsets' <= 1,
         \/ upsets' = upsets + 1
         \/ /\ upsets' = upsets
            /\ \A k \in work' : k.kind = "erase" /\ ~k.heard =>
                 \E j \in work : j.kind = "erase" /\ ~j.heard /\ j.as = k.as
  PROVE  \A n : Danger(n)' => Danger(n)
<1>1. CASE upsets' = upsets + 1
  BY <1>1 DEF Danger, UnheardInv
<1>2. CASE upsets' = upsets /\ \A k \in work' : k.kind = "erase" /\ ~k.heard =>
                 \E j \in work : j.kind = "erase" /\ ~j.heard /\ j.as = k.as
  BY <1>2 DEF Danger
<1> QED
  BY <1>1, <1>2

\* An account that is going goes on going.
LEMMA GoingKept ==
  ASSUME NEW r \in Slot, \A q \in Slot : q # r => req'[q] = req[q],
         Erased(req[r]) => Erased(req'[r]) /\ req'[r].as = req[r].as
  PROVE  \A n : life'[n] = life[n] /\ ~Going(n)' => ~Going(n)
<1>1. \A q \in Slot : Erased(req[q]) => Erased(req[q])' /\ req'[q].as = req[q].as
  BY DEF Erased
<1> QED
  BY <1>1 DEF Going, NameOf

\* A step of a request that has no session to use, and takes up none.
LEMMA RetryAside ==
  ASSUME PageTypes, SessionsInv, Few, UnheardInv, RetryInv, upsets' \in Nat, upsets <= upsets',
         NEW r \in Slot, \A q \in Slot : q # r => req'[q] = req[q],
         req[r].at # "keeps", req'[r].at \notin {"login", "keeps", "asks", "refused"},
         \/ req'[r].at \notin Asking
         \/ ~req'[r].again
         \/ req[r].at \in Asking /\ req'[r].as = req[r].as /\ req'[r].again = req[r].again,
         UNCHANGED <<tokens, sessions, life, opened>>,
         \A n \in Name : upsets' <= 1 /\ Danger(n)' /\ ~Going(n)' => Danger(n) /\ ~Going(n),
         upsets' <= 1 /\ req'[r].answer = "refused" => Outlived(req'[r])
  PROVE  RetryInv'
<1> SUFFICES ASSUME upsets' <= 1 PROVE (\A n \in Name : Calm(n)') /\ \A q \in Slot : Sound(req[q])'
  BY DEF RetryInv
<1>1. (\A n \in Name : Calm(n)) /\ \A q \in Slot : Sound(req[q])
  BY DEF RetryInv, UnheardInv
<1>2. ASSUME NEW n \in Name PROVE Calm(n)'
  <2> SUFFICES ASSUME Danger(n)', ~Going(n)' PROVE Quiet(n)'
    BY DEF Calm
  <2>1. Quiet(n)
    BY <1>1 DEF Calm
  <2> QED
    BY <2>1, QuietAside
<1>3. ASSUME NEW q \in Slot PROVE Sound(req[q])'
  <2>1. CASE q = r
    BY <2>1 DEF Sound, Outlived
  <2>2. CASE q # r
    <3>1. req'[q] = req[q]
      BY <2>2
    <3> QED
      BY <1>1, <3>1 DEF Sound, Outlived, Alive
  <2> QED
    BY <2>1, <2>2
<1> QED
  BY <1>2, <1>3

\* A reply has come back to a request that logs in, is refused or hears.
LEMMA RetryReplied ==
  ASSUME PageTypes, SessionsInv, Few, UnheardInv, RetryInv, upsets' \in Nat, upsets <= upsets',
         NEW r \in Slot, NEW a \in {"ok", "refused", "failed"}, NEW w \in SUBSET ServerNo, Replied(r, a, w),
         req[r].at \in {"login", "hears", "refused"}, a = "refused" => req[r].again /\ req[r].at = "refused",
         UNCHANGED <<tokens, sessions, life, opened>>,
         \A n \in Name : upsets' <= 1 /\ Danger(n)' => Danger(n)
  PROVE  RetryInv'
<1>1. PICK s, y : Goes(r, s, req[r].srv, req[r].token, a, y) /\ s \in {"done", "forgets", "clears"}
  BY GoesReplied
<1>2. \A q \in Slot : q # r => req'[q] = req[q]
  BY <1>1 DEF Goes
<1>3. req'[r].at \in {"done", "forgets", "clears"} /\ req'[r].token = req[r].token /\ req'[r].answer = a
  BY <1>1 DEF Goes
<1>4. ~Erased(req[r])
  BY DEF Erased
<1>5. \A n \in Name : upsets' <= 1 /\ Danger(n)' /\ ~Going(n)' => Danger(n) /\ ~Going(n)
  BY <1>2, <1>4, GoingKept
<1>6. upsets' <= 1 /\ req'[r].answer = "refused" => Outlived(req'[r])
  BY <1>3 DEF RetryInv, Sound, Outlived, UnheardInv
<1>7. req'[r].at \notin Asking /\ req'[r].at \notin {"login", "keeps", "asks", "refused"} /\ req[r].at # "keeps"
  BY <1>3 DEF Asking
<1> QED
  BY <1>2, <1>5, <1>6, <1>7, RetryAside

\* A login ends no session in use while nothing has gone wrong, and none that
\* was not the oldest of as many as the account may hold.
LEMMA LoginEnds ==
  ASSUME PageTypes, PathInv, SessionsInv, LifeInv, Few, NEW r \in Slot, Login(r)
  PROVE  /\ req[r].as = Now(NameOf(r)) /\ NameOf(r) \in Name /\ opened' = opened + 1
         /\ \A x \in sessions' : x \in sessions \/ (x.token = opened' /\ x.id = req[r].as)
         /\ \E x \in sessions' : x.token = opened' /\ x.id = req[r].as
         /\ \A x \in sessions : x \in sessions' \/ (x.id = req[r].as /\ opened' >= x.token + OwnSessions)
         /\ Quiet(NameOf(r)) => \A x \in sessions : InUse(NameOf(r), x.token) => x \in sessions'
<1> DEFINE own == {x \in sessions : x.id = req[r].as}
           gone == IF Cardinality(own) >= OwnSessions THEN OldestOf(own) ELSE {}
           e == [token |-> opened', id |-> req[r].as]
<1>1. req[r].at = "login" /\ opened' = opened + 1 /\ sessions' = (sessions \ gone) \cup {e}
  BY DEF Login
<1>2. e.token = opened' /\ e.id = req[r].as
  OBVIOUS
<1>3. Current(r) /\ NameOf(r) \in Name
  BY <1>1 DEF Current, PathInv, PathOf, NameOf, Identity
<1>4. req[r].as = Now(NameOf(r))
  BY <1>3 DEF LifeInv
<1>5. opened \in Nat /\ OwnSessions \in Nat \ {0} /\ \A x \in sessions : x.token \in Nat /\ x.token <= opened
  BY ControllerAssumption DEF PageTypes, SessionsInv
<1>6. \A x \in gone : x \in own /\ Cardinality(own) >= OwnSessions /\ \A y \in own : y.token >= x.token
  <2>1. \A x \in own : x.token \in Nat
    BY <1>5
  <2> QED
    BY <2>1 DEF OldestOf
<1>7. \A x \in sessions : x \in sessions' \/ x \in gone
  BY <1>1
<1>8. ASSUME NEW x \in gone PROVE IsFiniteSet(own) /\ Cardinality(own) \in Nat /\ opened' >= x.token + OwnSessions
  <2>1. x.token \in Nat /\ x.token <= opened /\ own \in SUBSET sessions /\ \A y \in own : y.id = req[r].as /\ y.token >= x.token
    BY <1>5, <1>6, <1>8
  <2> HIDE DEF own, gone
  <2>2. IsFiniteSet(own) /\ Cardinality(own) <= opened - x.token + 1
    BY <2>1, OwnCounted
  <2>3. Cardinality(own) \in Nat /\ Cardinality(own) >= OwnSessions
    BY <2>2, <1>6, <1>8, FS_CardinalityType
  <2> QED
    BY <1>1, <1>5, <2>1, <2>2, <2>3
<1>9. ASSUME Quiet(NameOf(r)), NEW x \in gone, InUse(NameOf(r), x.token) PROVE FALSE
  <2> DEFINE n == NameOf(r)
  <2>1. own \ {x} \subseteq Newer(n, x.token)
    <3> SUFFICES ASSUME NEW y \in own, y # x PROVE y \in Newer(n, x.token)
      OBVIOUS
    <3>1. y \in sessions /\ x \in sessions /\ y.id = Now(n) /\ y.token >= x.token /\ y.token \in Nat /\ x.token \in Nat
      BY <1>4, <1>5, <1>6, <1>9
    <3>2. y.token # x.token
      BY <3>1 DEF SessionsInv
    <3> QED
      BY <3>1, <3>2 DEF Newer
  <2>2. x \in own /\ IsFiniteSet(own) /\ Cardinality(own) \in Nat /\ Cardinality(own) >= OwnSessions
    BY <1>6, <1>8, <1>9
  <2>3. x.token \in 0 .. MaxSession
    <3>1. x \in sessions
      BY <2>2
    <3> QED
      BY <3>1, ControllerAssumption DEF PageTypes
  <2> HIDE DEF own, gone
  <2>4. Cardinality(own \ {x}) = Cardinality(own) - 1
    BY <2>2, FS_RemoveElement
  <2>5. Cardinality(own \ {x}) <= Cardinality(Newer(n, x.token)) /\ Cardinality(Newer(n, x.token)) \in Nat
    BY <2>1, NewerFinite, FS_Subset
  <2>6. r \in ToLogin(n)
    BY <1>1 DEF ToLogin, By
  <2>7. IsFiniteSet(ToLogin(n)) /\ Cardinality(ToLogin(n)) \in Nat /\ Cardinality(ToLogin(n)) # 0
    BY <2>6, ToLoginFinite, FS_EmptySet
  <2>8. Cardinality(Newer(n, x.token)) + Cardinality(ToLogin(n)) < Cardinality(Slot)
    BY <1>9, <2>3 DEF Quiet, InTime
  <2>9. Cardinality(Slot) \in Nat /\ Cardinality(Slot) <= OwnSessions
    BY FS_CardinalityType DEF Few
  <2> HIDE DEF n
  <2> QED
    BY <1>5, <2>2, <2>4, <2>5, <2>7, <2>8, <2>9
<1>10. \A x \in sessions' : x \in sessions \/ (x.token = opened' /\ x.id = req[r].as)
  BY <1>1, <1>2
<1>11. \E x \in sessions' : x.token = opened' /\ x.id = req[r].as
  BY <1>1, <1>2
<1>12. \A x \in gone : x.id = req[r].as
  BY <1>6
<1> HIDE DEF own, gone, e
<1> QED
  BY <1>1, <1>3, <1>4, <1>7, <1>8, <1>9, <1>10, <1>11, <1>12

\* RetryInv where a request logs in: its session is the newest, one login less is to come,
\* and the session that ends for it was in nobody's use.
LEMMA RetryLogin ==
  ASSUME PageTypes, PathInv, SessionsInv, LifeInv, SelfInv, Few, UnheardInv, RetryInv,
         NEW r \in Slot, Login(r), UNCHANGED upsets
  PROVE  RetryInv'
<1>0. PICK n0 \in Name : n0 = NameOf(r)
  BY LoginEnds
<1>1. /\ req[r].as = Now(n0) /\ opened' = opened + 1
      /\ \A x \in sessions' : x \in sessions \/ (x.token = opened' /\ x.id = req[r].as)
      /\ \E x \in sessions' : x.token = opened' /\ x.id = req[r].as
      /\ \A x \in sessions : x \in sessions' \/ (x.id = req[r].as /\ opened' >= x.token + OwnSessions)
      /\ Quiet(n0) => \A x \in sessions : InUse(n0, x.token) => x \in sessions'
  BY <1>0, LoginEnds
<1>2. /\ req' = [req EXCEPT ![r].at = "keeps", ![r].token = opened'] /\ req[r].at = "login"
      /\ UNCHANGED <<life, tokens, work>> /\ opened < MaxSession
  BY DEF Login
<1>3. opened \in Nat /\ opened' \in 0 .. MaxSession /\ \A x \in sessions : x.token \in Nat /\ x.token <= opened
  BY <1>1, <1>2, ControllerAssumption DEF PageTypes, SessionsInv
<1>4. Goes(r, "keeps", req[r].srv, opened', req[r].answer, req[r].rows) /\ req'[r].again = req[r].again
  <2>1. Goes(r, "keeps", req[r].srv, opened', req[r].answer, req[r].rows)
    BY <1>2, <1>3, GoesWithToken DEF Places
  <2>2. req'[r].again = req[r].again
    <3>1. PICK t : t = opened'
      OBVIOUS
    <3>2. req' = [req EXCEPT ![r].at = "keeps", ![r].token = t]
      BY <1>2, <3>1
    <3>3. [req EXCEPT ![r].at = "keeps", ![r].token = t][r].again = req[r].again
      BY AgainStays
    <3> QED
      BY <3>2, <3>3
  <2> QED
    BY <2>1, <2>2
<1>5. /\ \A q \in Slot : q # r => req'[q] = req[q]
      /\ req'[r].at = "keeps" /\ req'[r].as = req[r].as /\ req'[r].token = opened' /\ req'[r].answer = req[r].answer
  BY <1>4 DEF Goes
<1>13. \E e : sessions' \subseteq sessions \cup {e}
  BY DEF Login
<1> SUFFICES ASSUME upsets' <= 1 PROVE (\A n \in Name : Calm(n)') /\ \A q \in Slot : Sound(req[q])'
  BY DEF RetryInv
<1>6. (\A n \in Name : Calm(n)) /\ \A q \in Slot : Sound(req[q])
  BY DEF RetryInv
<1>7. \A n \in Name : Danger(n)' => Danger(n)
  BY <1>2, DangerKept
<1>8. \A n \in Name : ~Going(n)' => ~Going(n)
  BY <1>2, <1>5, GoingKept DEF Erased
<1>9. ASSUME Quiet(n0) PROVE Quiet(n0)'
  <2>1. \A q \in Slot : req'[q].at \in Asking /\ req'[q].as[1] = n0 => ~req'[q].again /\ req'[q].at # "refused"
    <3> SUFFICES ASSUME NEW q \in Slot, req'[q].at \in Asking, req'[q].as[1] = n0
                 PROVE  ~req'[q].again /\ req'[q].at # "refused"
      OBVIOUS
    <3>1. CASE q = r
      BY <1>0, <1>2, <1>4, <1>5, <1>9, <3>1 DEF Quiet, Asking, NameOf
    <3>2. CASE q # r
      <4>1. req'[q] = req[q]
        BY <1>5, <3>2
      <4> QED
        BY <1>9, <4>1 DEF Quiet, NameOf
    <3> QED
      BY <3>1, <3>2
  <2>2. r \in ToLogin(n0) /\ ToLogin(n0)' \subseteq ToLogin(n0) \ {r}
    <3>1. r \in ToLogin(n0)
      BY <1>0, <1>2 DEF ToLogin, By
    <3>2. By(n0, "login")' \subseteq By(n0, "login") \ {r} /\ By(n0, "keeps") \cup {r} \subseteq By(n0, "keeps")'
      BY <1>0, <1>2, <1>5 DEF By, NameOf
    <3> QED
      BY <1>2, <3>1, <3>2 DEF ToLogin
  <2>3. /\ IsFiniteSet(ToLogin(n0)) /\ Cardinality(ToLogin(n0)) \in Nat /\ Cardinality(ToLogin(n0)') \in Nat
        /\ Cardinality(ToLogin(n0)') <= Cardinality(ToLogin(n0)) - 1
        /\ Cardinality(ToLogin(n0)') <= Cardinality(Slot) - 1 /\ Cardinality(Slot) \in Nat
    <3>1. IsFiniteSet(ToLogin(n0)) /\ Cardinality(ToLogin(n0)) \in Nat /\ IsFiniteSet(Slot) /\ Cardinality(Slot) \in Nat
      BY ToLoginFinite, FS_CardinalityType DEF Few
    <3>2. /\ IsFiniteSet(ToLogin(n0) \ {r}) /\ Cardinality(ToLogin(n0) \ {r}) = Cardinality(ToLogin(n0)) - 1
          /\ Cardinality(ToLogin(n0)) <= Cardinality(Slot)
      BY <2>2, <3>1, FS_RemoveElement, FS_Subset, ToLoginFinite
    <3>3. IsFiniteSet(ToLogin(n0)') /\ Cardinality(ToLogin(n0)') <= Cardinality(ToLogin(n0) \ {r})
      BY <2>2, <3>2, FS_Subset
    <3>4. Cardinality(ToLogin(n0)') \in Nat
      BY <3>3, FS_CardinalityType
    <3> QED
      BY <3>1, <3>2, <3>3, <3>4
  <2>4. ASSUME NEW t \in 0 .. MaxSession, InUse(n0, t)' PROVE Alive(t)' /\ InTime(n0, t)'
    <3>0. Now(n0)' = Now(n0)
      BY <1>2 DEF Now
    <3>1. CASE t = opened'
      <4>1. Alive(t)'
        BY <1>1, <3>1 DEF Alive
      <4>2. \A x \in sessions' : x.token <= opened'
        BY <1>1, <1>3
      <4>3. Newer(n0, t)' = {}
        BY <1>3, <1>1, <3>1 DEF Newer
      <4>4. Cardinality(Newer(n0, t)') = 0
        BY <4>3, FS_EmptySet
      <4> QED
        BY <2>3, <4>1, <4>4 DEF InTime
    <3>2. CASE t # opened'
      <4>1. InUse(n0, t)
        <5>1. CASE t = tokens[n0]' /\ t # NoSession
          BY <1>2, <5>1 DEF InUse
        <5>2. CASE \E q \in (By(n0, "keeps") \cup By(n0, "asks"))' : req'[q].token = t
          <6>1. PICK q \in Slot : req'[q].at \in {"keeps", "asks"} /\ req'[q].as[1] = n0 /\ req'[q].token = t
            BY <5>2 DEF By, NameOf
          <6>2. q # r
            BY <1>5, <3>2, <6>1
          <6>3. req'[q] = req[q]
            BY <1>5, <6>2
          <6> QED
            BY <6>1, <6>3 DEF InUse, By, NameOf
        <5> QED
          BY <2>4, <5>1, <5>2 DEF InUse
      <4>2. Alive(t)'
        BY <1>1, <1>9, <4>1 DEF Quiet, Alive
      <4>3. PICK e \in sessions' : e.token = opened' /\ e.id = req[r].as
        BY <1>1
      <4>4. Newer(n0, t)' \subseteq Newer(n0, t) \cup {e}
        <5>1. \A x \in sessions' : x \in sessions \/ x = e
          BY <1>13, <4>3, <1>3, <1>1
        <5> QED
          BY <3>0, <5>1 DEF Newer
      <4>5. Cardinality(Newer(n0, t)') <= Cardinality(Newer(n0, t)) + 1 /\ Cardinality(Newer(n0, t)') \in Nat
            /\ Cardinality(Newer(n0, t)) \in Nat
        <5>1. IsFiniteSet(Newer(n0, t)) /\ Cardinality(Newer(n0, t)) \in Nat
          BY NewerFinite
        <5>2. IsFiniteSet(Newer(n0, t) \cup {e}) /\ Cardinality(Newer(n0, t) \cup {e}) <= Cardinality(Newer(n0, t)) + 1
          BY <5>1, FS_AddElement
        <5>3. IsFiniteSet(Newer(n0, t)') /\ Cardinality(Newer(n0, t)') <= Cardinality(Newer(n0, t) \cup {e})
          BY <4>4, <5>2, FS_Subset
        <5>4. Cardinality(Newer(n0, t)') \in Nat /\ Cardinality(Newer(n0, t) \cup {e}) \in Nat
          BY <5>2, <5>3, FS_CardinalityType
        <5> QED
          BY <5>1, <5>2, <5>3, <5>4
      <4>6. InTime(n0, t)
        BY <1>9, <4>1 DEF Quiet
      <4>7. Cardinality(Newer(n0, t)') + Cardinality(ToLogin(n0)') < Cardinality(Slot)
        BY <2>3, <4>5, <4>6 DEF InTime
      <4> QED
        BY <4>2, <4>7 DEF InTime
    <3> QED
      BY <3>1, <3>2
  <2> QED
    BY <2>1, <2>4 DEF Quiet, NameOf
<1>10. ASSUME NEW n \in Name, n # n0, Quiet(n) PROVE Quiet(n)'
  <2>1. Now(n) # Now(n0)
    BY <1>10 DEF Now
  <2>2. \A x : x.id = Now(n) => (x \in sessions' <=> x \in sessions)
    BY <1>1, <2>1
  <2> QED
    BY <1>0, <1>2, <1>5, <1>10, <2>2, QuietElsewhere DEF NameOf
<1>11. ASSUME NEW n \in Name PROVE Calm(n)'
  <2> SUFFICES ASSUME Danger(n)', ~Going(n)' PROVE Quiet(n)'
    BY DEF Calm
  <2>1. Quiet(n)
    BY <1>2, <1>6, <1>7, <1>8 DEF Calm
  <2>2. CASE n = n0
    <3> QED
      BY <1>9, <2>1, <2>2
  <2> QED
    BY <1>10, <2>1, <2>2
<1>12. ASSUME NEW q \in Slot PROVE Sound(req[q])'
  <2>1. CASE q = r
    <3>1. req[r].answer = "none"
      BY <1>2 DEF PathInv, PathOf, Asking
    <3>2. Alive(req[r].token)'
      BY <1>1, <1>5 DEF Alive
    <3>3. req'[r].at = "keeps" /\ req'[r].answer = "none"
      BY <1>5, <3>1
    <3> QED
      BY <2>1, <3>2, <3>3 DEF Sound
  <2>2. CASE q # r
    <3>1. req'[q] = req[q] /\ req[q].token \in Nat
      BY <1>5, <2>2 DEF PageTypes, PageRequest
    <3>2. Outlived(req[q]) => Outlived(req[q])'
      BY <1>1, <1>3, <3>1, ControllerAssumption DEF Outlived
    <3>3. ASSUME Alive(req[q].token) PROVE Alive(req[q].token)' \/ Outlived(req[q])'
      <4>1. PICK x \in sessions : x.token = req[q].token
        BY <3>3 DEF Alive
      <4> QED
        BY <1>1, <3>1, <4>1 DEF Alive, Outlived
    <3> QED
      BY <1>6, <3>1, <3>2, <3>3 DEF Sound
  <2> QED
    BY <2>1, <2>2
<1> QED
  BY <1>11, <1>12

\* Nothing that requests have changes.
LEMMA RetrySame ==
  ASSUME UnheardInv, RetryInv, upsets' \in Nat, upsets <= upsets', UNCHANGED <<req, tokens, sessions, life, opened>>,
         \A n \in Name : upsets' <= 1 /\ Danger(n)' => Danger(n)
  PROVE  RetryInv'
<1> SUFFICES ASSUME upsets' <= 1 PROVE (\A n \in Name : Calm(n)') /\ \A q \in Slot : Sound(req[q])'
  BY DEF RetryInv
<1>1. (\A n \in Name : Calm(n)) /\ \A q \in Slot : Sound(req[q])
  BY DEF RetryInv, UnheardInv
<1>2. \A n : By(n, "keeps")' = By(n, "keeps") /\ By(n, "asks")' = By(n, "asks") /\ By(n, "login")' = By(n, "login")
  BY DEF By, NameOf
<1>3. \A n, t : (InUse(n, t)' <=> InUse(n, t)) /\ Newer(n, t)' = Newer(n, t)
  <2>1. \A n, t : Newer(n, t)' = Newer(n, t)
    BY DEF Newer, Now
  <2>2. \A n, t : InUse(n, t)' <=> InUse(n, t)
    BY <1>2 DEF InUse
  <2> QED
    BY <2>1, <2>2
<1>4. \A n : ToLogin(n)' = ToLogin(n)
  BY <1>2 DEF ToLogin
<1>5. \A t : Alive(t)' <=> Alive(t)
  BY DEF Alive
<1>6. \A n, t : InTime(n, t) => InTime(n, t)'
  BY <1>3, <1>4 DEF InTime
<1>7. ASSUME NEW n \in Name, Quiet(n) PROVE Quiet(n)'
  <2>1. \A q \in Slot : req'[q].at \in Asking /\ req'[q].as[1] = n => ~req'[q].again /\ req'[q].at # "refused"
    BY <1>7 DEF Quiet, NameOf
  <2>2. \A t \in 0 .. MaxSession : InUse(n, t)' => Alive(t)' /\ InTime(n, t)'
    BY <1>3, <1>5, <1>6, <1>7 DEF Quiet
  <2> QED
    BY <2>1, <2>2 DEF Quiet, NameOf
<1>8. \A n \in Name : ~Going(n)' => ~Going(n)
  <2>1. \A q \in Slot : req'[q] = req[q]
    OBVIOUS
  <2> QED
    BY <2>1 DEF Going, NameOf, Erased
<1>9. \A n \in Name : Calm(n)'
  BY <1>1, <1>7, <1>8 DEF Calm
<1>10. \A q \in Slot : Sound(req[q])'
  BY <1>1, <1>5 DEF Sound, Outlived
<1> QED
  BY <1>9, <1>10

\* What one request does is nothing to who asks again beside it.
LEMMA SoundOthers ==
  ASSUME NEW r \in Slot, \A q \in Slot : q # r => req'[q] = req[q], UNCHANGED <<sessions, opened>>
  PROVE  \A q \in Slot : q # r /\ Sound(req[q]) => Sound(req[q])'
<1> SUFFICES ASSUME NEW q \in Slot, q # r, Sound(req[q]) PROVE Sound(req[q])'
  OBVIOUS
<1>1. req'[q] = req[q]
  OBVIOUS
<1> QED
  BY <1>1 DEF Sound, Outlived, Alive

\* What one request does of its account.
LEMMA RetryOwn ==
  ASSUME PageTypes, PathInv, SessionsInv, LifeInv, SelfInv, Few, UnheardInv, RetryInv, upsets' \in Nat, upsets <= upsets',
         NEW n0 \in Name, NEW r \in Slot, \A q \in Slot : q # r => req'[q] = req[q],
         NameOf(r) = n0, req'[r].at = "idle" \/ req'[r].as[1] = n0,
         \A n \in Name \ {n0} : tokens'[n] = tokens[n] /\ life'[n] = life[n],
         \A x : x.id[1] # n0 => (x \in sessions' <=> x \in sessions),
         \A n \in Name : upsets' <= 1 /\ Danger(n)' /\ ~Going(n)' => Danger(n) /\ (n # n0 => ~Going(n)),
         upsets' <= 1 /\ Danger(n0)' /\ ~Going(n0)' => Quiet(n0)',
         upsets' <= 1 => \A q \in Slot : q # r /\ Sound(req[q]) => Sound(req[q])',
         upsets' <= 1 => Sound(req[r])'
  PROVE  RetryInv'
<1> SUFFICES ASSUME upsets' <= 1 PROVE (\A n \in Name : Calm(n)') /\ \A q \in Slot : Sound(req[q])'
  BY DEF RetryInv
<1>1. (\A n \in Name : Calm(n)) /\ \A q \in Slot : Sound(req[q])
  BY DEF RetryInv, UnheardInv
<1>2. ASSUME NEW n \in Name PROVE Calm(n)'
  <2> SUFFICES ASSUME Danger(n)', ~Going(n)' PROVE Quiet(n)'
    BY DEF Calm
  <2>1. CASE n = n0
    BY <2>1
  <2>2. CASE n # n0
    <3>1. Quiet(n)
      BY <1>1, <2>2 DEF Calm
    <3>2. Now(n)[1] = n
      BY DEF Now
    <3>3. \A x : x.id = Now(n) => (x \in sessions' <=> x \in sessions)
      BY <2>2, <3>2
    <3>4. tokens'[n] = tokens[n] /\ life'[n] = life[n]
      BY <2>2
    <3> QED
      BY <2>2, <3>1, <3>3, <3>4, QuietElsewhere
  <2> QED
    BY <2>1, <2>2
<1>3. \A q \in Slot : Sound(req[q])'
  BY <1>1
<1> QED
  BY <1>2, <1>3

\* Who has its account's session is not its removal.
LEMMA NotGoing ==
  ASSUME LifeInv, NEW q \in Slot, req[q].at \in Asking
  PROVE  ~Going(NameOf(q))
<1>1. life[NameOf(q)] # 0
  BY DEF LifeInv, Current, Asking
<1>2. ASSUME NEW r \in Slot, Erased(req[r]), NameOf(r) = NameOf(q) PROVE FALSE
  <2>1. q = r
    BY <1>2 DEF Erased, LifeInv, Asking
  <2> QED
    BY <1>2, <2>1 DEF Erased, Asking
<1> QED
  BY <1>1, <1>2 DEF Going

\* While its sessions may yet be ended no request of the account has been refused.
LEMMA NotAgainYet ==
  ASSUME PathInv, LifeInv, UnheardInv, RetryInv, upsets <= 1, NEW q \in Slot, req[q].at \in Asking, Danger(NameOf(q))
  PROVE  ~req[q].again /\ req[q].at # "refused" /\ Quiet(NameOf(q))
<1>1. NameOf(q) \in Name
  BY DEF PathInv, PathOf, NameOf, Identity, Asking
<1>2. Quiet(NameOf(q))
  BY <1>1, NotGoing DEF RetryInv, Calm
<1> QED
  BY <1>2 DEF Quiet

-----------------------------------------------------------------------------
\* What is known before a step of one request that nothing goes wrong in.
Before ==
  /\ PageTypes /\ PathInv /\ HearsInv /\ SessionsInv /\ LifeInv /\ SelfInv /\ Few
  /\ UnheardInv /\ OneErase /\ AgainInv /\ RetryInv

\* A request under way has a name.
LEMMA NameOfOne ==
  ASSUME PathInv, NEW r \in Slot, req[r].at # "idle"
  PROVE  NameOf(r) \in Name
BY DEF PathInv, PathOf, NameOf, Identity

\* The index's work is as before, or less of it.
LEMMA DangerSame ==
  ASSUME UnheardInv, UNCHANGED upsets, upsets' <= 1, work' \subseteq work
  PROVE  \A n : Danger(n)' => Danger(n)
BY DangerKept

\* RetryInv where a request takes the session that is kept, or is to log in.
LEMMA RetryToken ==
  ASSUME Before, NEW r \in Slot, TokenOrLogin(r)
  PROVE  RetryInv'
<1> USE DEF Before
<1>1. PICK n0 \in Name : n0 = NameOf(r)
  BY NameOfOne DEF TokenOrLogin
<1> DEFINE t0 == tokens[n0]
           s0 == IF t0 = NoSession THEN "login" ELSE "asks"
<1>2. /\ req[r].at = "token" /\ req' = [req EXCEPT ![r].at = s0, ![r].token = t0]
      /\ UNCHANGED <<life, tokens, sessions, opened, work, upsets>>
  BY <1>1 DEF TokenOrLogin, indexVars
<1>3. s0 \in Places /\ t0 \in 0 .. MaxSession /\ s0 \in {"login", "asks"} /\ (s0 = "asks" => t0 # NoSession)
  BY DEF Places, PageTypes
<1> HIDE DEF s0
<1>4. Goes(r, s0, req[r].srv, t0, req[r].answer, req[r].rows)
  BY <1>2, <1>3, GoesWithToken
<1>5. ~req'[r].again
  <2>1. PICK t : t = t0
    OBVIOUS
  <2>2. req' = [req EXCEPT ![r].at = s0, ![r].token = t]
    BY <1>2, <2>1
  <2>3. [req EXCEPT ![r].at = s0, ![r].token = t][r].again = req[r].again
    BY AgainStays
  <2> QED
    BY <1>2, <2>2, <2>3 DEF AgainInv
<1>6. /\ \A q \in Slot : q # r => req'[q] = req[q]
      /\ req'[r].at \in {"login", "asks"} /\ req'[r].as = req[r].as /\ req'[r].token = t0 /\ req'[r].answer = "none"
      /\ (req'[r].at = "asks" => t0 # NoSession)
  <2>1. req[r].answer = "none"
    BY <1>2 DEF PathInv, PathOf, Asking
  <2> QED
    BY <1>3, <1>4, <2>1 DEF Goes
<1> HIDE DEF t0
<1>7. ASSUME Quiet(n0) PROVE Quiet(n0)'
  <2>1. \A q \in Slot : req'[q].at \in Asking /\ req'[q].as[1] = n0 => ~req'[q].again /\ req'[q].at # "refused"
    <3> SUFFICES ASSUME NEW q \in Slot, req'[q].at \in Asking, req'[q].as[1] = n0
                 PROVE  ~req'[q].again /\ req'[q].at # "refused"
      OBVIOUS
    <3>1. CASE q = r
      BY <1>5, <1>6, <3>1
    <3>2. CASE q # r
      <4>1. req'[q] = req[q]
        BY <1>6, <3>2
      <4> QED
        BY <1>7, <4>1 DEF Quiet, NameOf
    <3> QED
      BY <3>1, <3>2
  <2>2. \A t \in 0 .. MaxSession : InUse(n0, t)' => InUse(n0, t)
    <3> SUFFICES ASSUME NEW t \in 0 .. MaxSession, InUse(n0, t)' PROVE InUse(n0, t)
      OBVIOUS
    <3>1. CASE t = tokens[n0]' /\ t # NoSession
      BY <1>2, <3>1 DEF InUse
    <3>2. CASE \E q \in (By(n0, "keeps") \cup By(n0, "asks"))' : req'[q].token = t
      <4>1. PICK q \in Slot : req'[q].at \in {"keeps", "asks"} /\ req'[q].as[1] = n0 /\ req'[q].token = t
        BY <3>2 DEF By, NameOf
      <4>2. CASE q = r
        BY <1>6, <4>1, <4>2 DEF InUse, t0
      <4>3. CASE q # r
        <5>1. req'[q] = req[q]
          BY <1>6, <4>3
        <5> QED
          BY <4>1, <5>1 DEF InUse, By, NameOf
      <4> QED
        BY <4>2, <4>3
    <3> QED
      BY <3>1, <3>2 DEF InUse
  <2>3. ToLogin(n0)' \subseteq ToLogin(n0)
    <3>1. By(n0, "keeps")' = By(n0, "keeps")
      BY <1>2, <1>6 DEF By, NameOf
    <3>2. CASE t0 = NoSession
      BY <1>2, <3>1, <3>2 DEF ToLogin, t0
    <3>3. CASE t0 # NoSession
      <4>1. req'[r].at = "asks"
        BY <1>3, <1>4, <3>3 DEF s0, Goes
      <4>2. By(n0, "login")' \subseteq By(n0, "login")
        BY <1>6, <4>1 DEF By, NameOf
      <4> QED
        BY <1>2, <3>3, <4>2 DEF ToLogin, t0
    <3> QED
      BY <3>2, <3>3
  <2>4. \A t : Newer(n0, t)' = Newer(n0, t)
    BY <1>2 DEF Newer, Now
  <2>5. \A t : Alive(t) => Alive(t)'
    BY <1>2 DEF Alive
  <2> QED
    BY <1>7, <2>1, <2>2, <2>3, <2>4, <2>5, QuietKept
<1>8. upsets' <= 1 => \A n : Danger(n)' => Danger(n)
  BY <1>2, DangerSame
<1>9. \A n : ~Going(n)' => ~Going(n)
  BY <1>2, <1>6, GoingKept DEF Erased
<1>10. upsets' <= 1 /\ Danger(n0)' /\ ~Going(n0)' => Quiet(n0)'
  BY <1>2, <1>7, <1>8, <1>9 DEF RetryInv, Calm
<1>11. Sound(req[r])'
  BY <1>5, <1>6 DEF Sound
<1>12. \A q \in Slot : q # r /\ Sound(req[q]) => Sound(req[q])'
  BY <1>2, <1>6, SoundOthers
<1>13. upsets' \in Nat /\ upsets <= upsets'
  BY <1>2 DEF UnheardInv
<1>14. \A n \in Name \ {n0} : tokens'[n] = tokens[n] /\ life'[n] = life[n]
  BY <1>2
<1>15. req'[r].as[1] = n0
  BY <1>1, <1>6 DEF NameOf
<1> QED
  BY <1>1, <1>2, <1>6, <1>8, <1>9, <1>10, <1>11, <1>12, <1>13, <1>14, <1>15, RetryOwn

\* RetryInv where a session is kept: the one that was is out of use.
LEMMA RetryKeeps ==
  ASSUME Before, NEW r \in Slot, KeepsToken(r)
  PROVE  RetryInv'
<1> USE DEF Before
<1>1. PICK n0 \in Name : n0 = NameOf(r)
  BY NameOfOne DEF KeepsToken
<1>2. /\ req[r].at = "keeps" /\ req' = At(r, "asks") /\ tokens' = [tokens EXCEPT ![n0] = req[r].token]
      /\ UNCHANGED <<life, sessions, opened, work, upsets>>
  BY <1>1 DEF KeepsToken, To, indexVars
<1>3. Goes(r, "asks", req[r].srv, req[r].token, req[r].answer, req[r].rows)
  BY <1>2, GoesAt DEF Places
<1>4. req'[r].again = req[r].again
  BY <1>2, AgainStays
<1>5. /\ \A q \in Slot : q # r => req'[q] = req[q]
      /\ req'[r].at = "asks" /\ req'[r].as = req[r].as /\ req'[r].token = req[r].token /\ req'[r].answer = "none"
  <2>1. req[r].answer = "none"
    BY <1>2 DEF PathInv, PathOf, Asking
  <2> QED
    BY <1>3, <2>1 DEF Goes
<1>6. tokens'[n0] = req[r].token /\ \A n \in Name \ {n0} : tokens'[n] = tokens[n] /\ life'[n] = life[n]
  BY <1>2 DEF PageTypes
<1>7. ASSUME Quiet(n0) PROVE Quiet(n0)'
  <2>0. InUse(n0, req[r].token) /\ req[r].token \in 0 .. MaxSession /\ r \in By(n0, "keeps")
    BY <1>1, <1>2 DEF InUse, By, PageTypes, PageRequest
  <2>1. \A q \in Slot : req'[q].at \in Asking /\ req'[q].as[1] = n0 => ~req'[q].again /\ req'[q].at # "refused"
    <3> SUFFICES ASSUME NEW q \in Slot, req'[q].at \in Asking, req'[q].as[1] = n0
                 PROVE  ~req'[q].again /\ req'[q].at # "refused"
      OBVIOUS
    <3>1. CASE q = r
      BY <1>1, <1>2, <1>4, <1>5, <1>7, <3>1 DEF Quiet, Asking
    <3>2. CASE q # r
      <4>1. req'[q] = req[q]
        BY <1>5, <3>2
      <4> QED
        BY <1>7, <4>1 DEF Quiet, NameOf
    <3> QED
      BY <3>1, <3>2
  <2>2. \A t \in 0 .. MaxSession : InUse(n0, t)' => InUse(n0, t)
    <3> SUFFICES ASSUME NEW t \in 0 .. MaxSession, InUse(n0, t)' PROVE InUse(n0, t)
      OBVIOUS
    <3>1. CASE t = tokens[n0]' /\ t # NoSession
      BY <1>6, <2>0, <3>1
    <3>2. CASE \E q \in (By(n0, "keeps") \cup By(n0, "asks"))' : req'[q].token = t
      <4>1. PICK q \in Slot : req'[q].at \in {"keeps", "asks"} /\ req'[q].as[1] = n0 /\ req'[q].token = t
        BY <3>2 DEF By, NameOf
      <4>2. CASE q = r
        BY <1>5, <2>0, <4>1, <4>2
      <4>3. CASE q # r
        <5>1. req'[q] = req[q]
          BY <1>5, <4>3
        <5> QED
          BY <4>1, <5>1 DEF InUse, By, NameOf
      <4> QED
        BY <4>2, <4>3
    <3> QED
      BY <3>1, <3>2 DEF InUse
  <2>3. ToLogin(n0)' \subseteq ToLogin(n0)
    <3>1. Alive(req[r].token)
      BY <1>7, <2>0 DEF Quiet
    <3>2. req[r].token # NoSession
      BY <3>1 DEF Alive, PageTypes, NoSession
    <3>3. By(n0, "login")' \subseteq By(n0, "login")
      BY <1>5 DEF By, NameOf
    <3>4. By(n0, "login") \subseteq ToLogin(n0)
      BY DEF ToLogin, By
    <3> QED
      BY <1>6, <3>2, <3>3, <3>4 DEF ToLogin
  <2>4. \A t : Newer(n0, t)' = Newer(n0, t)
    BY <1>2 DEF Newer, Now
  <2>5. \A t : Alive(t) => Alive(t)'
    BY <1>2 DEF Alive
  <2> QED
    BY <1>7, <2>1, <2>2, <2>3, <2>4, <2>5, QuietKept
<1>8. upsets' <= 1 => \A n : Danger(n)' => Danger(n)
  BY <1>2, DangerSame
<1>9. \A n \in Name : ~Going(n)' => ~Going(n)
  BY <1>2, <1>5, GoingKept DEF Erased
<1>10. upsets' <= 1 /\ Danger(n0)' /\ ~Going(n0)' => Quiet(n0)'
  BY <1>2, <1>7, <1>8, <1>9 DEF RetryInv, Calm
<1>11. upsets' <= 1 => Sound(req[r])'
  <2>1. upsets' <= 1 => Sound(req[r])
    BY <1>2 DEF RetryInv
  <2> QED
    BY <1>2, <1>4, <1>5, <2>1 DEF Sound, Alive, Outlived
<1>12. \A q \in Slot : q # r /\ Sound(req[q]) => Sound(req[q])'
  BY <1>2, <1>5, SoundOthers
<1>13. upsets' \in Nat /\ upsets <= upsets'
  BY <1>2 DEF UnheardInv
<1>15. req'[r].as[1] = n0
  BY <1>1, <1>5 DEF NameOf
<1> QED
  BY <1>1, <1>2, <1>5, <1>6, <1>8, <1>9, <1>10, <1>11, <1>12, <1>13, <1>15, RetryOwn

\* RetryInv where a request is sent: one in use is there, so it is not refused.
LEMMA RetrySends ==
  ASSUME Before, NEW r \in Slot, Sends(r)
  PROVE  RetryInv'
<1> USE DEF Before
<1>1. PICK n0 \in Name : n0 = NameOf(r)
  BY NameOfOne DEF Sends
<1>2. PICK s \in {"refused", "hears"} :
        /\ req[r].at = "asks" /\ req' = At(r, s) /\ UNCHANGED <<life, tokens, sessions, opened, upsets>>
        /\ s = "refused" => ~Alive(req[r].token)
  BY DEF Sends, To, Alive
<1>3. Goes(r, s, req[r].srv, req[r].token, req[r].answer, req[r].rows)
  BY <1>2, GoesAt DEF Places
<1>4. req'[r].again = req[r].again
  BY <1>2, AgainStays
<1>5. /\ \A q \in Slot : q # r => req'[q] = req[q]
      /\ req'[r].at = s /\ req'[r].as = req[r].as /\ req'[r].token = req[r].token /\ req'[r].answer = "none"
  <2>1. req[r].answer = "none"
    BY <1>2 DEF PathInv, PathOf, Asking
  <2> QED
    BY <1>3, <2>1 DEF Goes
<1>6. ASSUME upsets' <= 1 PROVE \A n : Danger(n)' => Danger(n)
  <2>1. \A k \in work' : ~k.heard => k \in work
    BY SendsWork
  <2> QED
    BY <1>2, <1>6, <2>1, DangerKept
<1>7. ASSUME Quiet(n0) PROVE Quiet(n0)'
  <2>1. InUse(n0, req[r].token) /\ req[r].token \in 0 .. MaxSession
    BY <1>1, <1>2 DEF InUse, By, PageTypes, PageRequest
  <2>2. s = "hears"
    BY <1>2, <1>7, <2>1 DEF Quiet
  <2>3. req'[r].at \notin {"login", "keeps", "asks", "refused"} /\ req[r].at # "keeps" /\ req[r].at \in Asking
    BY <1>2, <1>5, <2>2 DEF Asking
  <2> QED
    BY <1>2, <1>4, <1>5, <1>7, <2>3, QuietAside
<1>8. \A n \in Name : ~Going(n)' => ~Going(n)
  BY <1>2, <1>5, GoingKept DEF Erased
<1>9. upsets' <= 1 /\ Danger(n0)' /\ ~Going(n0)' => Quiet(n0)'
  BY <1>2, <1>6, <1>7, <1>8 DEF RetryInv, Calm
<1>10. ASSUME upsets' <= 1 PROVE Sound(req[r])'
  <2>1. Sound(req[r])
    BY <1>2, <1>10 DEF RetryInv
  <2>2. req[r].again /\ s = "refused" => Outlived(req[r])
    BY <1>2, <2>1 DEF Sound
  <2> QED
    BY <1>2, <1>4, <1>5, <2>2 DEF Sound, Outlived
<1>11. \A q \in Slot : q # r /\ Sound(req[q]) => Sound(req[q])'
  BY <1>2, <1>5, SoundOthers
<1>12. upsets' \in Nat /\ upsets <= upsets'
  BY <1>2 DEF UnheardInv
<1>13. req'[r].as[1] = n0
  BY <1>1, <1>5 DEF NameOf
<1>14. \A n \in Name \ {n0} : tokens'[n] = tokens[n] /\ life'[n] = life[n]
  BY <1>2
<1> QED
  BY <1>1, <1>2, <1>5, <1>6, <1>8, <1>9, <1>10, <1>11, <1>12, <1>13, <1>14, RetryOwn

\* RetryInv where a refusal is heard: only of an account that lost sessions already.
LEMMA RetryRefused ==
  ASSUME Before, NEW r \in Slot, HearsRefusal(r)
  PROVE  RetryInv'
<1> USE DEF Before
<1>1. PICK n0 \in Name : n0 = NameOf(r)
  BY NameOfOne DEF HearsRefusal
<1>2. req[r].at = "refused" /\ UNCHANGED <<life, sessions, opened, work, upsets>>
  BY DEF HearsRefusal, indexVars
<1>3. upsets' \in Nat /\ upsets <= upsets'
  BY <1>2 DEF UnheardInv
<1>4. upsets' <= 1 => \A n : Danger(n)' => Danger(n)
  BY <1>2, DangerSame
<1>5. CASE req[r].again
  <2>1. Replied(r, "refused", {}) /\ UNCHANGED tokens
    BY <1>5 DEF HearsRefusal
  <2> QED
    BY <1>2, <1>3, <1>4, <1>5, <2>1, RetryReplied
<1>6. CASE ~req[r].again
  <2>1. /\ req' = [req EXCEPT ![r].at = "login", ![r].again = TRUE]
        /\ tokens' = [tokens EXCEPT ![n0] = NoSession]
    BY <1>1, <1>6 DEF HearsRefusal
  <2>2. Goes(r, "login", req[r].srv, req[r].token, req[r].answer, req[r].rows)
    BY <2>1, GoesAgain DEF Places
  <2>3. /\ \A q \in Slot : q # r => req'[q] = req[q]
        /\ req'[r].at = "login" /\ req'[r].as = req[r].as /\ req'[r].answer = "none"
    <3>1. req[r].answer = "none"
      BY <1>2 DEF PathInv, PathOf, Asking
    <3> QED
      BY <2>2, <3>1 DEF Goes
  <2>4. ~Quiet(n0)
    BY <1>1, <1>2 DEF Quiet, Asking
  <2>5. \A n \in Name : ~Going(n)' => ~Going(n)
    BY <1>2, <2>3, GoingKept DEF Erased
  <2>6. ~(upsets' <= 1 /\ Danger(n0)' /\ ~Going(n0)')
    BY <1>2, <1>4, <2>4, <2>5 DEF RetryInv, Calm
  <2>7. \A n \in Name \ {n0} : tokens'[n] = tokens[n] /\ life'[n] = life[n]
    BY <1>2, <2>1 DEF PageTypes
  <2>8. Sound(req[r])'
    BY <2>3 DEF Sound
  <2>9. \A q \in Slot : q # r /\ Sound(req[q]) => Sound(req[q])'
    BY <1>2, <2>3, SoundOthers
  <2>10. req'[r].as[1] = n0
    BY <1>1, <2>3 DEF NameOf
  <2> QED
    BY <1>1, <1>2, <1>3, <1>4, <2>3, <2>5, <2>6, <2>7, <2>8, <2>9, <2>10, RetryOwn
<1> QED
  BY <1>5, <1>6

\* RetryInv where an account is forgotten and removed: it is going.
LEMMA RetryForgets ==
  ASSUME Before, NEW r \in Slot, Forgets(r) \/ RemovesAccount(r)
  PROVE  RetryInv'
<1> USE DEF Before
<1>1. PICK n0 \in Name : n0 = NameOf(r)
  BY NameOfOne DEF Forgets, RemovesAccount
<1>2. PICK s \in {"unlists", "done"} : /\ req' = At(r, s) /\ UNCHANGED <<sessions, opened, work, upsets>>
  BY DEF Forgets, RemovesAccount, To, indexVars
<1>3. Goes(r, s, req[r].srv, req[r].token, req[r].answer, req[r].rows)
  BY <1>2, GoesAt DEF Places
<1>4. /\ \A q \in Slot : q # r => req'[q] = req[q]
      /\ req'[r].at = s /\ req'[r].as = req[r].as /\ req'[r].token = req[r].token /\ req'[r].answer = req[r].answer
      /\ req'[r].kind = req[r].kind
  BY <1>3 DEF Goes
<1>5. upsets' \in Nat /\ upsets <= upsets'
  BY <1>2 DEF UnheardInv
<1>6. upsets' <= 1 => \A n : Danger(n)' => Danger(n)
  BY <1>2, DangerSame
<1>7. \A n \in Name \ {n0} : tokens'[n] = tokens[n] /\ life'[n] = life[n]
  BY <1>1 DEF Forgets, RemovesAccount, PageTypes
<1>8. Going(n0)'
  <2>1. CASE Forgets(r)
    <3>1. req[r].kind = "erase"
      BY <2>1 DEF Forgets, PathInv, PathOf, Asking, PageTypes, PageRequest
    <3>2. req'[r].at = "unlists"
      <4>1. req' = At(r, "unlists")
        BY <2>1 DEF Forgets, To
      <4> QED
        BY <4>1, GoesAt DEF Goes, Places
    <3>3. Erased(req'[r]) /\ req'[r].as[1] = n0
      BY <1>1, <1>4, <3>1, <3>2 DEF Erased, NameOf
    <3> QED
      BY <3>3 DEF Going, NameOf, Erased
  <2>2. CASE RemovesAccount(r)
    BY <1>1, <2>2 DEF Going, RemovesAccount, PageTypes
  <2> QED
    BY <2>1, <2>2
<1>9. \A n \in Name \ {n0} : ~Going(n)' => ~Going(n)
  <2>1. \A q \in Slot : NameOf(q) # n0 => req'[q] = req[q]
    BY <1>1, <1>4
  <2>2. \A n \in Name \ {n0} : \A q \in Slot : Erased(req[q]) /\ NameOf(q) = n => Erased(req'[q]) /\ req'[q].as[1] = n
    BY <2>1 DEF NameOf, Erased
  <2> QED
    BY <1>7, <2>2 DEF Going, NameOf, Erased
<1>10. ASSUME upsets' <= 1 PROVE Sound(req[r])'
  <2>1. Sound(req[r])
    BY <1>2, <1>10 DEF RetryInv
  <2> QED
    BY <1>2, <1>4, <2>1 DEF Sound, Outlived
<1>11. \A q \in Slot : q # r /\ Sound(req[q]) => Sound(req[q])'
  BY <1>2, <1>4, SoundOthers
<1>12. req'[r].as[1] = n0
  BY <1>1, <1>4 DEF NameOf
<1> QED
  BY <1>1, <1>2, <1>4, <1>5, <1>6, <1>7, <1>8, <1>9, <1>10, <1>11, <1>12, RetryOwn

\* Steps of a request that has no session to use.
LEMMA RetryStarts ==
  ASSUME Before, NEW r \in Slot, NEW n \in Name, PageAsks(r, n) \/ Erases(r, n)
  PROVE  RetryInv'
<1> USE DEF Before
<1>1. PICK s \in {"waits", "drops", "token"}, k \in {"list", "deploy", "remove", "erase"}, x \in ServerNo \cup {0} :
        Starts(r, n, s, k, x)
  <2>1. \A x \in OwnedBy(<<n, life[n]>>) : x \in ServerNo
    BY DEF OwnedBy, PageTypes
  <2>2. CASE Erases(r, n)
    BY <2>2 DEF Erases
  <2>3. CASE PageAsks(r, n)
    BY <2>1, <2>3 DEF PageAsks
  <2> QED
    BY <2>2, <2>3
<1>2. Begins(r, n, s, k, x)
  BY <1>1, StartsBegins DEF Places
<1>3. UNCHANGED <<life, tokens, sessions, opened, work, upsets>>
  BY <1>1 DEF Starts, indexVars
<1>4. /\ \A q \in Slot : q # r => req'[q] = req[q]
      /\ req[r].at = "idle" /\ ~req'[r].again /\ req'[r].answer = "none"
      /\ req'[r].at \notin {"login", "keeps", "asks", "refused"} /\ req[r].at # "keeps"
  BY <1>2 DEF Begins
<1>5. upsets' <= 1 => \A n1 : Danger(n1)' => Danger(n1)
  BY <1>3, DangerSame
<1>6. \A n1 : ~Going(n1)' => ~Going(n1)
  BY <1>3, <1>4, GoingKept DEF Erased
<1>7. upsets' \in Nat /\ upsets <= upsets'
  BY <1>3 DEF UnheardInv
<1> QED
  BY <1>3, <1>4, <1>5, <1>6, <1>7, RetryAside

\* A request moves on, and takes up no session.
LEMMA RetryMoves ==
  ASSUME Before, NEW r \in Slot, NEW s \in {"token", "done", "removes"}, req' = At(r, s),
         req[r].at \in {"waits", "drops", "clears", "unlists"}, req[r].at = "unlists" <=> s = "removes",
         req[r].at \in {"waits", "drops"} <=> s = "token",
         UNCHANGED <<life, tokens, sessions, opened, work, upsets>>
  PROVE  RetryInv'
<1> USE DEF Before
<1>1. Goes(r, s, req[r].srv, req[r].token, req[r].answer, req[r].rows)
  BY GoesAt DEF Places
<1>2. req'[r].again = req[r].again
  BY AgainStays
<1>3. /\ \A q \in Slot : q # r => req'[q] = req[q]
      /\ req'[r].at = s /\ req'[r].as = req[r].as /\ req'[r].token = req[r].token /\ req'[r].answer = req[r].answer
      /\ req'[r].kind = req[r].kind
  BY <1>1 DEF Goes
<1>4. upsets' <= 1 => \A n : Danger(n)' => Danger(n)
  BY DangerSame
<1>5. \A n : ~Going(n)' => ~Going(n)
  <2>1. Erased(req[r]) => Erased(req'[r]) /\ req'[r].as = req[r].as
    BY <1>3 DEF Erased
  <2> QED
    BY <1>3, <2>1, GoingKept
<1>6. upsets' \in Nat /\ upsets <= upsets'
  BY DEF UnheardInv
<1>7. req'[r].at \notin Asking \/ ~req'[r].again
  <2>1. CASE s = "token"
    BY <1>2, <2>1 DEF AgainInv
  <2>2. CASE s # "token"
    BY <1>3, <2>2 DEF Asking
  <2> QED
    BY <2>1, <2>2
<1>8. ASSUME upsets' <= 1, req'[r].answer = "refused" PROVE Outlived(req'[r])
  <2>1. Sound(req[r])
    BY <1>8 DEF RetryInv
  <2> QED
    BY <1>3, <1>8, <2>1 DEF Sound, Outlived
<1>9. req'[r].at \notin {"login", "keeps", "asks", "refused"} /\ req[r].at # "keeps"
  BY <1>3
<1> QED
  BY <1>3, <1>4, <1>5, <1>6, <1>7, <1>8, <1>9, RetryAside

\* RetryInv where a request has to do with the lists alone.
LEMMA RetryLists ==
  ASSUME Before, NEW r \in Slot, ListsOrAsks(r) \/ DropsList(r) \/ ForgetsList(r)
  PROVE  RetryInv'
<1> USE DEF Before
<1>1. UNCHANGED <<life, tokens, sessions, opened, work, upsets>>
  BY DEF ListsOrAsks, DropsList, ForgetsList, indexVars
<1>2. CASE \E s \in {"token", "done", "removes"} :
             /\ req' = At(r, s) /\ req[r].at \in {"waits", "drops", "clears", "unlists"}
             /\ req[r].at = "unlists" <=> s = "removes"
             /\ req[r].at \in {"waits", "drops"} <=> s = "token"
  BY <1>1, <1>2, RetryMoves
<1>3. CASE req[r].at = "waits" /\ \E rows \in lists[NameOf(r)] :
             req' = [req EXCEPT ![r].at = "done", ![r].answer = "ok", ![r].rows = rows]
  <2>1. NameOf(r) \in Name
    BY <1>3, NameOfOne
  <2>2. PICK w \in lists[NameOf(r)] : req' = [Answers(r, "done", "ok") EXCEPT ![r].rows = w]
    BY <1>3 DEF Answers
  <2>3. Goes(r, "done", req[r].srv, req[r].token, "ok", w)
    BY <2>1, <2>2, GoesListed DEF Places, PageTypes
  <2>4. /\ \A q \in Slot : q # r => req'[q] = req[q]
        /\ req'[r].at = "done" /\ req'[r].answer = "ok"
    BY <2>3 DEF Goes
  <2>5. upsets' <= 1 => \A n : Danger(n)' => Danger(n)
    BY <1>1, DangerSame
  <2>6. \A n : ~Going(n)' => ~Going(n)
    BY <1>1, <1>3, <2>4, GoingKept DEF Erased
  <2>7. upsets' \in Nat /\ upsets <= upsets'
    BY <1>1 DEF UnheardInv
  <2> QED
    BY <1>1, <1>3, <2>4, <2>5, <2>6, <2>7, RetryAside DEF Asking
<1>4. CASE ListsOrAsks(r)
  BY <1>2, <1>3, <1>4 DEF ListsOrAsks, To
<1>5. CASE DropsList(r)
  BY <1>2, <1>5 DEF DropsList, To
<1>6. CASE ForgetsList(r)
  BY <1>2, <1>6 DEF ForgetsList, To
<1> QED
  BY <1>4, <1>5, <1>6

\* RetryInv where the page has its answer.
LEMMA RetryAnswered ==
  ASSUME Before, NEW r \in Slot, Answered(r)
  PROVE  RetryInv'
<1> USE DEF Before
<1>1. Ends(r) /\ req[r].at = "done" /\ UNCHANGED <<life, tokens, sessions, opened, work, upsets>>
  BY EndsThere DEF Answered, indexVars
<1>2. /\ \A q \in Slot : q # r => req'[q] = req[q]
      /\ req'[r].at = "idle" /\ req'[r].answer = "none"
  BY <1>1, NoneUnderWay DEF Ends
<1>3. upsets' <= 1 => \A n : Danger(n)' => Danger(n)
  BY <1>1, DangerSame
<1>4. \A n : ~Going(n)' => ~Going(n)
  BY <1>1, <1>2, GoingKept DEF Erased
<1>5. upsets' \in Nat /\ upsets <= upsets'
  BY <1>1 DEF UnheardInv
<1> QED
  BY <1>1, <1>2, <1>3, <1>4, <1>5, RetryAside DEF Asking

\* RetryInv where a request fails at the index.
LEMMA RetryFails ==
  ASSUME Before, NEW r \in Slot, LoginFails(r) \/ GivesUp(r)
  PROVE  RetryInv'
<1> USE DEF Before
<1>1. /\ Replied(r, "failed", {}) /\ req[r].at \in {"login", "hears"}
      /\ UNCHANGED <<life, tokens, sessions, opened>> /\ upsets' = upsets + 1
  BY DEF LoginFails, GivesUp, indexVars, Upset
<1>2. upsets' \in Nat /\ upsets <= upsets'
  BY <1>1 DEF UnheardInv
<1>3. upsets' <= 1 => \A n : Danger(n)' => Danger(n)
  BY <1>1, DangerKept
<1> QED
  BY <1>1, <1>2, <1>3, RetryReplied

\* The page hangs up on a request, or the node restarts: nothing has gone wrong
\* before, so what the index erases unheard is what was heard of till now.
LEMMA RetryHangsUp ==
  ASSUME Before, NEW r \in Slot, PageHangsUp(r)
  PROVE  RetryInv'
<1> USE DEF Before
<1>1. /\ Ends(r) /\ UNCHANGED <<life, tokens, sessions, opened>> /\ upsets' = upsets + 1
      /\ Deafened({r}) /\ req[r].at # "idle"
  BY EndsThere, UnheardDeafens DEF PageHangsUp, Upset
<1>2. /\ \A q \in Slot : q # r => req'[q] = req[q]
      /\ req'[r] = NoRequest /\ req'[r].at = "idle" /\ req'[r].answer = "none"
  BY <1>1, NoneUnderWay DEF Ends
<1>3. upsets' \in Nat /\ upsets <= upsets' /\ (upsets' <= 1 => upsets = 0)
  BY <1>1 DEF UnheardInv
<1>4. ASSUME upsets' <= 1, NEW n \in Name, Danger(n)' PROVE req[r].at = "hears"
  <2>1. upsets' # 0
    BY <1>1 DEF UnheardInv
  <2>2. PICK k \in work' : ~k.heard
    BY <1>4, <2>1 DEF Danger
  <2>3. PICK j \in work : (j.slot \notin {r} => k = j)
    BY <1>1 DEF Deafened
  <2>4. j.heard /\ j.slot = r
    BY <1>3, <1>4, <2>2, <2>3 DEF UnheardInv
  <2> QED
    BY <2>4 DEF HearsInv
<1>5. CASE req[r].at = "hears"
  <2>1. upsets' <= 1 => \A n : Danger(n)' => Danger(n)
    BY <1>3 DEF Danger
  <2>2. \A n : ~Going(n)' => ~Going(n)
    BY <1>1, <1>2, <1>5, GoingKept DEF Erased
  <2> QED
    BY <1>1, <1>2, <1>3, <1>5, <2>1, <2>2, RetryAside DEF Asking
<1>6. CASE req[r].at # "hears"
  <2> SUFFICES ASSUME upsets' <= 1 PROVE (\A n \in Name : Calm(n)') /\ \A q \in Slot : Sound(req[q])'
    BY DEF RetryInv
  <2>1. \A n \in Name : Calm(n)'
    BY <1>4, <1>6 DEF Calm
  <2>2. \A q \in Slot : q # r /\ Sound(req[q]) => Sound(req[q])'
    BY <1>1, <1>2, SoundOthers
  <2>3. Sound(req[r])'
    BY <1>2 DEF Sound, NoRequest
  <2>4. \A q \in Slot : Sound(req[q])
    BY <1>3 DEF RetryInv
  <2> QED
    BY <2>1, <2>2, <2>3, <2>4
<1> QED
  BY <1>5, <1>6

\* RetryInv where the node restarts: it has no session to lose.
LEMMA RetryRestarts ==
  ASSUME Before, NodeRestarts
  PROVE  RetryInv'
<1>1. /\ \A r \in Slot : req'[r] = NoRequest
      /\ \A n \in Name : tokens'[n] = NoSession
  BY DEF NodeRestarts
<1>2. NoRequest.at = "idle" /\ ~NoRequest.again /\ NoRequest.answer = "none"
  BY DEF NoRequest
<1>3. \A n, t : By(n, "keeps")' = {} /\ By(n, "asks")' = {}
  BY <1>1, <1>2 DEF By
<1>4. \A n \in Name : \A t : ~InUse(n, t)'
  BY <1>1, <1>3 DEF InUse
<1>5. \A n \in Name : Quiet(n)'
  BY <1>1, <1>2, <1>4 DEF Quiet, Asking
<1>6. \A r \in Slot : Sound(req[r])'
  BY <1>1, <1>2 DEF Sound
<1> QED
  BY <1>5, <1>6 DEF RetryInv, Calm

\* RetryInv where sessions end: nothing went wrong before, so nobody asks again.
LEMMA RetryEnded ==
  ASSUME Before, SessionsEnd
  PROVE  RetryInv'
<1> USE DEF Before
<1>1. UNCHANGED <<req, work, opened, life>> /\ upsets' = upsets + 1
  BY DEF SessionsEnd, Upset, nodeVars
<1>2. upsets' # 0 /\ (upsets' <= 1 => upsets = 0)
  BY <1>1 DEF UnheardInv
<1> SUFFICES ASSUME upsets' <= 1 PROVE (\A n \in Name : Calm(n)') /\ \A q \in Slot : Sound(req[q])'
  BY DEF RetryInv
<1>3. \A n : ~Danger(n)'
  BY <1>1, <1>2 DEF Danger, UnheardInv
<1>4. ASSUME NEW q \in Slot PROVE Sound(req[q])'
  <2>1. Sound(req[q])
    BY <1>2 DEF RetryInv
  <2>2. req[q].at \in Asking => ~req[q].again
    BY <1>2, NotAgainYet DEF Danger
  <2> QED
    BY <1>1, <2>1, <2>2 DEF Sound, Outlived, Asking
<1> QED
  BY <1>3, <1>4 DEF Calm

\* RetryInv where a name is taken: its account has no session yet.
LEMMA RetryTakesName ==
  ASSUME Before, NEW n0 \in Name, TakesName(n0)
  PROVE  RetryInv'
<1> USE DEF Before
<1>1. /\ life[n0] = 0 /\ UNCHANGED <<req, tokens, sessions, opened, work, upsets>>
      /\ \A n \in Name \ {n0} : life'[n] = life[n]
  BY DEF TakesName, indexVars, PageTypes
<1> SUFFICES ASSUME upsets' <= 1 PROVE (\A n \in Name : Calm(n)') /\ \A q \in Slot : Sound(req[q])'
  BY DEF RetryInv
<1>2. (\A n \in Name : Calm(n)) /\ \A q \in Slot : Sound(req[q])
  BY <1>1 DEF RetryInv
<1>3. \A n : Danger(n)' => Danger(n)
  BY <1>1 DEF Danger
<1>4. ASSUME NEW n \in Name \ {n0} PROVE Calm(n)'
  <2> SUFFICES ASSUME Danger(n)', ~Going(n)' PROVE Quiet(n)'
    BY DEF Calm
  <2>1. \A q \in Slot : req'[q] = req[q]
    BY <1>1
  <2>2. ~Going(n)
    BY <1>1, <1>4, <2>1 DEF Going, NameOf, Erased
  <2>3. Quiet(n)
    BY <1>2, <1>3, <1>4, <2>2 DEF Calm
  <2>4. tokens'[n] = tokens[n] /\ life'[n] = life[n] /\ \A x : x.id = Now(n) => (x \in sessions' <=> x \in sessions)
    BY <1>1, <1>4
  <2> QED
    BY <1>4, <2>1, <2>3, <2>4, QuietOthers
<1>5. Quiet(n0)'
  <2>1. \A q \in Slot : req[q].at \in Asking => NameOf(q) # n0
    BY <1>1 DEF LifeInv, Current, Asking
  <2>2. tokens'[n0] = NoSession
    BY <1>1 DEF LifeInv
  <2>3. \A q \in Slot : req'[q].at \in Asking => req'[q].as[1] # n0
    BY <1>1, <2>1 DEF NameOf
  <2>4. By(n0, "keeps")' = {} /\ By(n0, "asks")' = {}
    BY <2>3 DEF By, NameOf, Asking
  <2>5. \A t : ~InUse(n0, t)'
    BY <2>2, <2>4 DEF InUse
  <2> QED
    BY <2>3, <2>5 DEF Quiet, NameOf
<1>6. \A q \in Slot : Sound(req[q])'
  <2>1. \A t : Alive(t)' <=> Alive(t)
    BY <1>1 DEF Alive
  <2> QED
    BY <1>1, <1>2, <2>1 DEF Sound, Outlived
<1>7. \A n \in Name : Calm(n)'
  BY <1>4, <1>5 DEF Calm
<1> QED
  BY <1>6, <1>7

\* The index's work, but the end of an erase.
LEMMA RetryWorks ==
  ASSUME Before, UNCHANGED <<req, tokens, sessions, life, opened, upsets>>,
         \A k \in work' : \E i \in work : k.kind = i.kind /\ k.heard = i.heard /\ k.as = i.as
  PROVE  RetryInv'
<1> USE DEF Before
<1>1. upsets' \in Nat /\ upsets <= upsets'
  BY DEF UnheardInv
<1>2. ASSUME upsets' <= 1 PROVE \A n : Danger(n)' => Danger(n)
  BY <1>2, DangerKept
<1> QED
  BY <1>1, <1>2, RetrySame

\* RetryInv where the index is half through.
LEMMA RetryHalf ==
  ASSUME Before, NEW j \in work, DoesList(j) \/ DoesErase(j), ~j.half
  PROVE  RetryInv'
<1> USE DEF Before
<1>1. UNCHANGED <<req, tokens, sessions, life, opened, upsets>>
  BY DEF DoesList, DoesErase
<1>2. ASSUME NEW e, work' = (work \ {j}) \cup {e}, e.kind = j.kind, e.heard = j.heard, e.as = j.as
      PROVE  RetryInv'
  <2>1. \A k \in work' : \E i \in work : k.kind = i.kind /\ k.heard = i.heard /\ k.as = i.as
    BY <1>2
  <2> QED
    BY <1>1, <2>1, RetryWorks
<1>3. CASE DoesList(j)
  <2>1. PICK e : e = [j EXCEPT !.half = TRUE, !.rows = OwnedBy(j.id)]
    OBVIOUS
  <2>2. e.kind = j.kind /\ e.heard = j.heard /\ e.as = j.as
    BY <2>1 DEF PageTypes, Job
  <2>3. work' = (work \ {j}) \cup {e}
    BY <1>3, <2>1 DEF DoesList
  <2> QED
    BY <1>2, <2>2, <2>3
<1>4. CASE DoesErase(j)
  <2>1. PICK e : e = [j EXCEPT !.half = TRUE]
    OBVIOUS
  <2>2. e.kind = j.kind /\ e.heard = j.heard /\ e.as = j.as
    BY <2>1 DEF PageTypes, Job
  <2>3. work' = (work \ {j}) \cup {e}
    BY <1>4, <2>1 DEF DoesErase
  <2> QED
    BY <1>2, <2>2, <2>3
<1> QED
  BY <1>3, <1>4

\* RetryInv where a piece of work ends that ends no session.
LEMMA RetryFinishes ==
  ASSUME Before, NEW j \in work, NEW a \in {"ok", "failed"}, NEW w \in SUBSET ServerNo, Finishes(j, a, w),
         UNCHANGED <<tokens, sessions, life, opened, upsets>>
  PROVE  RetryInv'
<1> USE DEF Before
<1>1. j.slot \in Slot /\ work' \subseteq work
  BY DEF Finishes, PageTypes, Job
<1>2. upsets' \in Nat /\ upsets <= upsets'
  BY DEF UnheardInv
<1>3. upsets' <= 1 => \A n : Danger(n)' => Danger(n)
  BY <1>1, DangerSame
<1>4. CASE j.heard
  <2>1. Replied(j.slot, a, w) /\ req[j.slot].at = "hears"
    BY <1>4 DEF Finishes, HearsInv
  <2> QED
    BY <1>1, <1>2, <1>3, <2>1, RetryReplied
<1>5. CASE ~j.heard
  <2>1. req' = req
    BY <1>5 DEF Finishes
  <2> QED
    BY <1>1, <2>1, RetryWorks
<1> QED
  BY <1>4, <1>5

\* RetryInv where a server is deployed.
LEMMA RetryDeploys ==
  ASSUME Before, NEW j \in work, DoesDeploy(j)
  PROVE  RetryInv'
<1> USE DEF Before
<1>1. j.slot \in Slot /\ work' \subseteq work /\ UNCHANGED <<tokens, sessions, life, opened, upsets>>
  BY DEF DoesDeploy, PageTypes, Job
<1>2. CASE j.heard
  <2>1. made' \in ServerNo
    BY ControllerAssumption DEF DoesDeploy, PageTypes, ServerNo
  <2>2. Goes(j.slot, "clears", made', req[j.slot].token, "ok", req[j.slot].rows)
    BY <1>1, <1>2, <2>1, GoesMade DEF DoesDeploy, Places, AfterChange
  <2>3. /\ \A q \in Slot : q # j.slot => req'[q] = req[q]
        /\ req'[j.slot].at = "clears" /\ req'[j.slot].answer = "ok"
    BY <2>2 DEF Goes
  <2>4. req[j.slot].at = "hears"
    BY <1>2 DEF HearsInv
  <2>5. upsets' <= 1 => \A n : Danger(n)' => Danger(n)
    BY <1>1, DangerSame
  <2>6. \A n : ~Going(n)' => ~Going(n)
    BY <1>1, <2>3, <2>4, GoingKept DEF Erased
  <2>7. upsets' \in Nat /\ upsets <= upsets'
    BY <1>1 DEF UnheardInv
  <2> QED
    BY <1>1, <2>3, <2>4, <2>5, <2>6, <2>7, RetryAside DEF Asking
<1>3. CASE ~j.heard
  <2>1. req' = req
    BY <1>3 DEF DoesDeploy
  <2> QED
    BY <1>1, <2>1, RetryWorks
<1> QED
  BY <1>2, <1>3

\* The sessions of an account that the index is done erasing are ended: nobody
\* hears of it only if something has gone wrong, and then no request of the
\* account has been refused.
LEMMA RetryErased ==
  ASSUME Before, NEW j \in work, DoesErase(j), j.half
  PROVE  RetryInv'
<1> USE DEF Before
<1>1. /\ j.kind = "erase" /\ sessions' = {x \in sessions : x.id # j.id} /\ Finishes(j, "ok", {})
      /\ UNCHANGED <<tokens, life, opened, upsets>> /\ work' = work \ {j} /\ j.slot \in Slot
  BY DEF DoesErase, Finishes, PageTypes, Job
<1>2. PICK n0 \in Name : n0 = j.as[1] /\ j.id = Now(n0) /\ j.as = Now(n0)
  <2>1. j.as[1] \in Name
    BY DEF PageTypes, Job, Identity
  <2>2. j.id = j.as
    BY DEF SelfInv
  <2> QED
    BY <2>1, <2>2 DEF LifeInv
<1>3. upsets' \in Nat /\ upsets <= upsets'
  BY <1>1 DEF UnheardInv
<1>4. ASSUME upsets' <= 1 PROVE \A n : Danger(n)' => Danger(n)
  BY <1>1, <1>4, DangerSame
<1>5. \A x : x.id # j.id => (x \in sessions' <=> x \in sessions)
  BY <1>1
<1>6. \A n \in Name \ {n0} : Now(n) # j.id
  BY <1>2 DEF Now
<1>7. ASSUME NEW q \in Slot, Sound(req[q]), req'[q] = req[q],
             req[q].at \in {"keeps", "asks"} => ~req[q].again \/ NameOf(q) # n0
      PROVE  Sound(req[q])'
  <2>1. ASSUME req[q].at \in {"keeps", "asks"}, req[q].again, Alive(req[q].token) PROVE Alive(req[q].token)'
    <3>1. PICK x \in sessions : x.token = req[q].token
      BY <2>1 DEF Alive
    <3>2. x.id = req[q].as
      BY <2>1, <3>1 DEF SelfInv
    <3>3. req[q].as[1] # n0 /\ j.id[1] = n0
      BY <1>2, <1>7, <2>1 DEF NameOf, Now
    <3>4. x \in sessions'
      BY <1>5, <3>2, <3>3
    <3> QED
      BY <1>7, <3>1, <3>4 DEF Alive
  <2> QED
    BY <1>1, <1>7, <2>1 DEF Sound, Outlived
<1> SUFFICES ASSUME upsets' <= 1 PROVE (\A n \in Name : Calm(n)') /\ \A q \in Slot : Sound(req[q])'
  BY DEF RetryInv
<1>8. (\A n \in Name : Calm(n)) /\ \A q \in Slot : Sound(req[q])
  BY <1>1 DEF RetryInv
<1>9. CASE j.heard
  <2>1. Replied(j.slot, "ok", {}) /\ req[j.slot].at = "hears" /\ req[j.slot].kind = "erase" /\ req[j.slot].as = j.as
    BY <1>1, <1>9 DEF Finishes, HearsInv
  <2>2. Goes(j.slot, "forgets", req[j.slot].srv, req[j.slot].token, "ok", req[j.slot].rows)
    BY <1>1, <2>1, GoesReplied
  <2>3. /\ \A q \in Slot : q # j.slot => req'[q] = req[q]
        /\ req'[j.slot].at = "forgets" /\ req'[j.slot].answer = "ok" /\ req'[j.slot].kind = "erase"
        /\ req'[j.slot].as[1] = n0 /\ NameOf(j.slot) = n0
    BY <1>2, <2>1, <2>2 DEF Goes, NameOf
  <2>4. \A n \in Name : ~Going(n)' => ~Going(n)
    BY <1>1, <2>1, <2>3, GoingKept DEF Erased
  <2>5. ASSUME NEW n \in Name PROVE Calm(n)'
    <3>1. CASE n = n0
      <4>1. Going(n)'
        BY <1>1, <2>3, <3>1 DEF Going, NameOf, Erased
      <4> QED
        BY <4>1 DEF Calm
    <3>2. CASE n # n0
      <4>1. Quiet(n) => Quiet(n)'
        BY <1>1, <1>5, <1>6, <2>3, <3>2, QuietElsewhere
      <4> QED
        BY <1>4, <1>8, <2>4, <4>1 DEF Calm
    <3> QED
      BY <3>1, <3>2
  <2>6. ASSUME NEW q \in Slot PROVE Sound(req[q])'
    <3>1. CASE q = j.slot
      BY <2>3, <3>1 DEF Sound
    <3>2. CASE q # j.slot
      <4>1. req[q].at \in {"keeps", "asks"} => NameOf(q) # n0
        BY <1>1, <2>1, <2>3, <3>2 DEF LifeInv
      <4> QED
        BY <1>7, <1>8, <2>3, <3>2, <4>1
    <3> QED
      BY <3>1, <3>2
  <2> QED
    BY <2>5, <2>6
<1>10. CASE ~j.heard
  <2>1. req' = req
    BY <1>1, <1>10 DEF Finishes
  <2>2. upsets' # 0 /\ upsets <= 1
    BY <1>1, <1>10 DEF UnheardInv
  <2>3. ~Danger(n0)'
    <3> SUFFICES ASSUME NEW k \in work', k.kind = "erase", ~k.heard, k.as[1] = n0 PROVE FALSE
      BY <2>2 DEF Danger
    <3>1. k \in work /\ k # j
      BY <1>1
    <3>2. k.as = j.as
      BY <1>2, <3>1 DEF LifeInv
    <3> QED
      BY <1>1, <3>1, <3>2 DEF OneErase
  <2>4. Danger(n0)
    BY <1>1, <1>2, <1>10 DEF Danger
  <2>5. ASSUME NEW n \in Name PROVE Calm(n)'
    <3>1. CASE n = n0
      BY <2>3, <3>1 DEF Calm
    <3>2. CASE n # n0
      <4>1. Quiet(n) => Quiet(n)'
        BY <1>1, <1>5, <1>6, <2>1, <3>2, QuietOthers
      <4>2. ~Going(n)' => ~Going(n)
        BY <1>1, <2>1 DEF Going, NameOf, Erased
      <4> QED
        BY <1>4, <1>8, <4>1, <4>2 DEF Calm
    <3> QED
      BY <3>1, <3>2
  <2>6. ASSUME NEW q \in Slot PROVE Sound(req[q])'
    <3>1. req[q].at \in {"keeps", "asks"} => ~req[q].again \/ NameOf(q) # n0
      BY <2>2, <2>4, NotAgainYet DEF Asking
    <3> QED
      BY <1>7, <1>8, <2>1, <3>1
  <2> QED
    BY <2>5, <2>6
<1> QED
  BY <1>9, <1>10

\* Every step keeps RetryInv.
LEMMA RetryStep ==
  ASSUME Before, [ControllerNext]_controllerVars
  PROVE  RetryInv'
<1> USE DEF Before
<1>1. ASSUME NEW r \in Slot, PageStep(r) PROVE RetryInv'
  <2>1. CASE \E n \in Name : PageAsks(r, n) \/ Erases(r, n)
    BY <2>1, RetryStarts
  <2>2. CASE ListsOrAsks(r) \/ DropsList(r) \/ ForgetsList(r)
    BY <2>2, RetryLists
  <2>3. CASE TokenOrLogin(r)
    BY <2>3, RetryToken
  <2>4. CASE Login(r)
    <3>1. UNCHANGED upsets
      BY <2>4 DEF Login
    <3> QED
      BY <2>4, <3>1, RetryLogin
  <2>5. CASE KeepsToken(r)
    BY <2>5, RetryKeeps
  <2>6. CASE Sends(r)
    BY <2>6, RetrySends
  <2>7. CASE HearsRefusal(r)
    BY <2>7, RetryRefused
  <2>8. CASE Forgets(r) \/ RemovesAccount(r)
    BY <2>8, RetryForgets
  <2>9. CASE Answered(r)
    BY <2>9, RetryAnswered
  <2>10. CASE LoginFails(r) \/ GivesUp(r)
    BY <2>10, RetryFails
  <2>11. CASE PageHangsUp(r)
    BY <2>11, RetryHangsUp
  <2> QED
    BY <1>1, <2>1, <2>2, <2>3, <2>4, <2>5, <2>6, <2>7, <2>8, <2>9, <2>10, <2>11 DEF PageStep
<1>2. ASSUME NEW j \in work, IndexStep(j) PROVE RetryInv'
  <2>1. CASE DoesDeploy(j)
    BY <2>1, RetryDeploys
  <2>2. CASE DoesRemove(j)
    <3>1. PICK a \in {"ok", "failed"} : Finishes(j, a, {})
      BY <2>2 DEF DoesRemove
    <3>2. UNCHANGED <<tokens, sessions, life, opened, upsets>>
      BY <2>2 DEF DoesRemove
    <3> QED
      BY <3>1, <3>2, RetryFinishes
  <2>3. CASE DoesNot(j)
    <3>1. Finishes(j, "failed", {}) /\ UNCHANGED <<tokens, sessions, life, opened, upsets>>
      BY <2>3 DEF DoesNot
    <3> QED
      BY <3>1, RetryFinishes
  <2>4. CASE DoesList(j)
    <3>1. CASE j.half
      <4>1. Finishes(j, "ok", j.rows) /\ UNCHANGED <<tokens, sessions, life, opened, upsets>>
        BY <2>4, <3>1 DEF DoesList
      <4>2. j.rows \in SUBSET ServerNo
        BY DEF PageTypes, Job
      <4> QED
        BY <4>1, <4>2, RetryFinishes
    <3>2. CASE ~j.half
      BY <2>4, <3>2, RetryHalf
    <3> QED
      BY <3>1, <3>2
  <2>5. CASE DoesErase(j)
    BY <2>5, RetryHalf, RetryErased
  <2> QED
    BY <1>2, <2>1, <2>2, <2>3, <2>4, <2>5 DEF IndexStep
<1>3. ASSUME NEW n \in Name, TakesName(n) PROVE RetryInv'
  BY <1>3, RetryTakesName
<1>4. CASE (\E n \in Name : ListAges(n)) \/ UNCHANGED controllerVars
  <2>1. UNCHANGED <<req, tokens, sessions, life, opened, upsets, work>>
    BY <1>4 DEF ListAges, controllerVars, nodeVars, indexVars
  <2>2. \A k \in work' : \E i \in work : k.kind = i.kind /\ k.heard = i.heard /\ k.as = i.as
    BY <2>1
  <2> QED
    BY <2>1, <2>2, RetryWorks
<1>5. CASE SessionsEnd
  BY <1>5, RetryEnded
<1>6. CASE NodeRestarts
  BY <1>6, RetryRestarts
<1> QED
  BY <1>1, <1>2, <1>3, <1>4, <1>5, <1>6 DEF ControllerNext

\* RetryInv with the invariants it rests on.
RefusedInv == UnheardInv /\ OneErase /\ AgainInv /\ RetryInv

\* The start has it.
LEMMA RefusedInit == ControllerInit => RefusedInv
<1> SUFFICES ASSUME ControllerInit PROVE RefusedInv
  OBVIOUS
<1>1. /\ \A r \in Slot : req[r] = NoRequest
      /\ \A n \in Name : tokens[n] = NoSession
      /\ work = {} /\ upsets = 0
  BY DEF ControllerInit
<1>2. NoRequest.at = "idle" /\ ~NoRequest.again /\ NoRequest.answer = "none"
  BY DEF NoRequest
<1>3. \A n, t : By(n, "keeps") = {} /\ By(n, "asks") = {}
  BY <1>1, <1>2 DEF By
<1>4. \A n \in Name : \A t : ~InUse(n, t)
  BY <1>1, <1>3 DEF InUse
<1>5. \A n \in Name : Quiet(n)
  BY <1>1, <1>2, <1>4 DEF Quiet, Asking
<1>6. \A r \in Slot : Sound(req[r])
  BY <1>1, <1>2 DEF Sound
<1>7. UnheardInv /\ OneErase /\ AgainInv
  BY <1>1, <1>2 DEF UnheardInv, OneErase, AgainInv
<1> QED
  BY <1>5, <1>6, <1>7 DEF RefusedInv, RetryInv, Calm

\* "Retried once after a fresh login" (forward_now): while one thing goes wrong, no account
\* is removed under its requests and there are no more of these than sessions an account
\* may hold, a request is refused only when that many logins followed its own.
THEOREM RetriedOnceIsHeard == IsFiniteSet(Slot) => (ControllerSpec => []NotRefused)
<1> SUFFICES ASSUME IsFiniteSet(Slot) PROVE ControllerSpec => []NotRefused
  OBVIOUS
<1>1. CASE Few
  <2>1. PageInv /\ RefusedInv /\ [ControllerNext]_controllerVars => RefusedInv'
    <3> SUFFICES ASSUME PageInv, RefusedInv, [ControllerNext]_controllerVars PROVE RefusedInv'
      OBVIOUS
    <3>1. Before
      BY <1>1 DEF PageInv, RefusedInv, Before, Few
    <3>2. RetryInv'
      BY <3>1, RetryStep
    <3>3. UnheardInv' /\ OneErase' /\ AgainInv'
      BY <3>1, UnheardStep, OneEraseStep, AgainStep DEF Before
    <3> QED
      BY <3>2, <3>3 DEF RefusedInv
  <2>2. RefusedInv => NotRefused
    BY DEF RefusedInv, RetryInv, Sound, Outlived, NotRefused
  <2> QED
    BY <2>1, <2>2, RefusedInit, PagesHold, PTL DEF ControllerSpec
<1>2. CASE ~Few
  <2>1. NotRefused
    BY <1>2 DEF Few, NotRefused
  <2> QED
    BY <2>1, PTL
<1> QED
  BY <1>1, <1>2
=============================================================================
