------------------------------ MODULE RoomProofs ------------------------------
(***************************************************************************)
(* What holds of a LAN room, for any members, addresses, links and seats:  *)
(* the host's records of who sits agree, a member sits on its newest link, *)
(* the table it holds is the host's, or older, and the close of its link   *)
(* is not lost.                                                            *)
(*                                                                         *)
(* A member links again only when it has no link, so the link it has is    *)
(* its newest, and the host hears the identities of a member in the order  *)
(* of its links: what it is told last is where the member is.  A refused   *)
(* member has nothing on its way to the host, so it gets no seat later.    *)
(***************************************************************************)
EXTENDS LanRoom, FiniteSetTheorems, TLAPS

End == [of : Member, alive : BOOLEAN, host : BOOLEAN, member : BOOLEAN, said : BOOLEAN]

\* A view has the fields it began with.
IsView(v) ==
  v = [own |-> v.own, epoch |-> v.epoch, members |-> v.members, names |-> v.names,
       refused |-> v.refused]

\* The part of the types the argument rests on.
RoomTypes ==
  /\ rules \in [seats : Nat, barred : SUBSET Member]
  /\ given \in [RoomLink -> {"none", "open"} \cup Member]
  /\ seated \in [Member -> RoomLink \cup {NoLink}]
  /\ roster \in [Member -> Address \cup {NoAddress}]
  /\ named \subseteq Member
  /\ view = [i \in Member |-> view[i]] /\ \A i \in Member : IsView(view[i])
  /\ mylink \in [Member -> RoomLink \cup {NoLink}] /\ coming \in [Member -> RoomLink \cup {NoLink}]
  /\ ends \in [RoomLink -> End]
  /\ born \in 0 .. MaxRoomLink

\* Links that were never made have said nothing; a link that gave an identity
\* was that member's, and older than any whose identity is still on its way.
LinksTrue ==
  /\ \A l \in RoomLink : l > born => given[l] = "none" /\ ~ends[l].said
  /\ \A l \in RoomLink : given[l] \in Member => given[l] = ends[l].of
  /\ \A l, k \in RoomLink : ends[l].said /\ given[k] = ends[l].of => k < l

\* A member has a link, or is about to.
HasLink(i, l) == mylink[i] = l \/ coming[i] = l

\* The link a member has is its own and its newest.
HasNewest ==
  \A i \in Member, l \in RoomLink : HasLink(i, l) =>
    /\ ends[l].of = i /\ l <= born
    /\ \A k \in RoomLink : k > l /\ k <= born => ends[k].of # i

\* The host knows nothing of a member, and nothing on its way will tell it.
Away(i) == roster[i] = NoAddress /\ \A l \in RoomLink : ends[l].of = i => ~ends[l].said

\* A member that was refused, or will hear so on the link it has, is outside.
RefusedOutside ==
  /\ \A i \in Member : view[i].refused => Away(i)
  /\ \A x \in mesh : x.kind = "refused" =>
       /\ x.link \in RoomLink /\ x.link <= born
       /\ \A i \in Member : HasLink(i, x.link) => Away(i)

\* The host's records agree.
HostAgrees ==
  /\ \A i \in Member : seated[i] # NoLink <=> roster[i] # NoAddress
  /\ \A i \in Sitting : given[seated[i]] = i /\ i \notin rules.barred
  /\ \A i, j \in Sitting : roster[i] = roster[j] => i = j
  /\ Cardinality(Sitting) <= rules.seats
  /\ named \subseteq Sitting
  /\ NewestLinkSeated

RoomInv == RoomTypes /\ LinksTrue /\ HasNewest /\ RefusedOutside /\ HostAgrees

LEMMA RoomInitInv == LanRoomInit => RoomInv
<1> SUFFICES ASSUME LanRoomInit PROVE RoomInv
  OBVIOUS
<1>1. ends \in [RoomLink -> End] /\ \A l \in RoomLink : ~ends[l].said
  <2> DEFINE m == CHOOSE i \in Member : TRUE
  <2>1. m \in Member
    BY LanRoomAssumption
  <2>2. ends \in [RoomLink -> [of : {m}, alive : {FALSE}, host : {FALSE}, member : {FALSE},
                               said : {FALSE}]]
    BY DEF LanRoomInit
  <2> QED
    BY <2>1, <2>2 DEF End
<1>2. view = [i \in Member |-> view[i]] /\ \A i \in Member : IsView(view[i]) /\ ~view[i].refused
  BY DEF LanRoomInit, NewView, IsView
<1>3. RoomTypes
  BY <1>1, <1>2, LanRoomAssumption DEF LanRoomInit, RoomTypes, NobodySits
<1>4. LinksTrue /\ HasNewest
  BY <1>1, LanRoomAssumption DEF LanRoomInit, LinksTrue, HasNewest, HasLink, RoomLink, NoLink
<1>5. RefusedOutside
  BY <1>2 DEF LanRoomInit, RefusedOutside
<1>6. Sitting = {} /\ \A i \in Member : seated[i] = NoLink /\ roster[i] = NoAddress
  BY DEF LanRoomInit, NobodySits, Sitting
<1>7. Cardinality(Sitting) <= rules.seats
  BY <1>3, <1>6, FS_EmptySet DEF RoomTypes
<1>8. HostAgrees
  BY <1>6, <1>7 DEF LanRoomInit, HostAgrees, NewestLinkSeated
<1> QED
  BY <1>3, <1>4, <1>5, <1>8 DEF RoomInv

\* Nothing is on its way that was not, but what was posted.
LEMMA OnlyPosted ==
  ASSUME NEW done, NEW S, Posts(done, S)
  PROVE  mesh' \subseteq mesh \cup S
BY DEF Posts

\* No link is made or named, and no identity is said.
LinksFade ==
  /\ born' = born /\ ends' \in [RoomLink -> End]
  /\ \A l \in RoomLink : ends'[l].of = ends[l].of /\ (ends'[l].said => ends[l].said)
  /\ given' \in [RoomLink -> {"none", "open"} \cup Member]
  /\ \A l \in RoomLink : /\ given'[l] \in Member => given'[l] = given[l]
                         /\ given[l] = "none" => given'[l] = "none"
  /\ mylink' \in [Member -> RoomLink \cup {NoLink}] /\ coming' \in [Member -> RoomLink \cup {NoLink}]
  /\ \A i \in Member, l \in RoomLink : HasLink(i, l)' => HasLink(i, l)

\* Nobody is seated, refused or told so.
NoNews ==
  /\ \A i \in Member : roster[i] = NoAddress => roster'[i] = NoAddress
  /\ view' = [i \in Member |-> view'[i]]
  /\ \A i \in Member : IsView(view'[i]) /\ (view'[i].refused => view[i].refused)
  /\ \A x \in mesh' : x.kind = "refused" => x \in mesh

LEMMA FadeKeeps ==
  ASSUME RoomInv, LinksFade
  PROVE  LinksTrue' /\ HasNewest'
<1>1. \A l \in RoomLink : l > born' => given'[l] = "none" /\ ~ends'[l].said
  BY DEF RoomInv, LinksTrue, LinksFade
<1>2. \A l \in RoomLink : given'[l] \in Member => given'[l] = ends'[l].of
  BY DEF RoomInv, LinksTrue, LinksFade
<1>3. ASSUME NEW l \in RoomLink, NEW k \in RoomLink, ends'[l].said, given'[k] = ends'[l].of
      PROVE  k < l
  <2>1. ends[l].said /\ ends'[l].of = ends[l].of /\ ends[l].of \in Member
    BY <1>3 DEF RoomInv, RoomTypes, LinksFade, End
  <2>2. given[k] = ends[l].of
    BY <1>3, <2>1 DEF LinksFade
  <2> QED
    BY <2>1, <2>2 DEF RoomInv, LinksTrue
<1>4. HasNewest'
  BY DEF RoomInv, HasNewest, LinksFade
<1> QED
  BY <1>1, <1>2, <1>3, <1>4 DEF LinksTrue

LEMMA NoNewsKeeps ==
  ASSUME RoomInv, LinksFade, NoNews
  PROVE  RefusedOutside'
<1>1. ASSUME NEW i \in Member, Away(i) PROVE Away(i)'
  BY <1>1 DEF Away, LinksFade, NoNews
<1>2. ASSUME NEW i \in Member, view'[i].refused PROVE Away(i)'
  BY <1>1, <1>2 DEF RoomInv, RefusedOutside, NoNews
<1>3. ASSUME NEW x \in mesh', x.kind = "refused"
      PROVE  /\ x.link \in RoomLink /\ x.link <= born'
             /\ \A i \in Member : HasLink(i, x.link)' => Away(i)'
  <2>1. /\ x.link \in RoomLink /\ x.link <= born
        /\ \A i \in Member : HasLink(i, x.link) => Away(i)
    BY <1>3 DEF NoNews, RoomInv, RefusedOutside
  <2> QED
    BY <1>1, <2>1 DEF LinksFade
<1> QED
  BY <1>2, <1>3 DEF RefusedOutside

\* The host's seats, and what links told it, stay.
HostStays ==
  /\ UNCHANGED <<rules, seated, roster, named>>
  /\ \A l \in RoomLink : given[l] \in Member \/ given'[l] \in Member => given'[l] = given[l]

LEMMA HostStaysKeeps ==
  ASSUME RoomInv, HostStays
  PROVE  HostAgrees'
<1>1. Sitting' = Sitting
  BY DEF Sitting, HostStays
<1>2. \A i \in Sitting : seated[i] \in RoomLink /\ given[seated[i]] \in Member
  BY DEF RoomInv, RoomTypes, HostAgrees, Sitting
<1>3. NewestLinkSeated'
  BY <1>1, <1>2 DEF RoomInv, HostAgrees, NewestLinkSeated, HostStays, Sitting
<1> QED
  BY <1>1, <1>2, <1>3 DEF RoomInv, HostAgrees, HostStays, Sitting

\* A step of that kind.
LEMMA QuietStep ==
  ASSUME RoomInv, LinksFade, NoNews, HostStays
  PROVE  RoomInv'
<1>1. RoomTypes'
  BY DEF RoomInv, RoomTypes, LinksFade, NoNews, HostStays
<1> QED
  BY <1>1, FadeKeeps, NoNewsKeeps, HostStaysKeeps DEF RoomInv

\* What is posted is no refusal.
LEMMA NoRefusal ==
  ASSUME NEW done, NEW S, Posts(done, S), \A x \in S : x.kind # "refused"
  PROVE  \A x \in mesh' : x.kind = "refused" => x \in mesh
BY OnlyPosted

\* Tables, names and what a member says are no refusals.
LEMMA Kinds ==
  /\ \A l : Hello(l).kind # "refused" /\ MyName(l).kind # "refused"
  /\ \A l, n : NamesTo(l, n).kind # "refused"
  /\ \A l, e, r : MembersTo(l, e, r).kind # "refused"
  /\ \A s, n : \A x \in NamesToAll(s, n) : x.kind # "refused"
  /\ \A s, e, r, n : \A x \in ToAll(s, e, r, n) : x.kind # "refused"
BY DEF Hello, MyName, NamesTo, MembersTo, NamesToAll, ToAll

\* A view with one of its fields changed.
LEMMA ViewSet ==
  ASSUME NEW v, IsView(v), NEW a, NEW w
  PROVE  /\ w = [v EXCEPT !.own = a] \/ w = [v EXCEPT !.names = a] => IsView(w) /\ w.refused = v.refused
         /\ w = [v EXCEPT !.refused = a] => IsView(w)
<1>1. CASE w = [v EXCEPT !.own = a]
  BY <1>1 DEF IsView
<1>2. CASE w = [v EXCEPT !.names = a]
  BY <1>2 DEF IsView
<1>3. CASE w = [v EXCEPT !.refused = a]
  BY <1>3 DEF IsView
<1> QED
  BY <1>1, <1>2, <1>3

LEMMA ViewApplied ==
  ASSUME NEW v, IsView(v), NEW x, NEW i
  PROVE  IsView(Applied(v, x, i)) /\ Applied(v, x, i).refused = v.refused
BY DEF IsView, Applied

\* A link whose end hears, or that falls, with or without what was said on it.
LEMMA EndSet ==
  ASSUME NEW e \in End, NEW f,
         \/ f = e
         \/ f = [e EXCEPT !.alive = FALSE] \/ f = [e EXCEPT !.host = FALSE]
         \/ f = [e EXCEPT !.member = FALSE] \/ f = [e EXCEPT !.said = FALSE]
         \/ f = [e EXCEPT !.alive = FALSE, !.said = FALSE]
         \/ f = [e EXCEPT !.alive = FALSE, !.member = FALSE]
         \/ f = [e EXCEPT !.alive = FALSE, !.host = FALSE, !.said = FALSE]
  PROVE  f \in End /\ f.of = e.of /\ (f.said => e.said)
BY DEF End

\* All links, some of them so.
EndsFade ==
  /\ ends' = [k \in RoomLink |-> ends'[k]]
  /\ \A k \in RoomLink :
       LET e == ends[k] f == ends'[k] IN
       \/ f = e
       \/ f = [e EXCEPT !.alive = FALSE] \/ f = [e EXCEPT !.host = FALSE]
       \/ f = [e EXCEPT !.member = FALSE] \/ f = [e EXCEPT !.said = FALSE]
       \/ f = [e EXCEPT !.alive = FALSE, !.said = FALSE]
       \/ f = [e EXCEPT !.alive = FALSE, !.member = FALSE]
       \/ f = [e EXCEPT !.alive = FALSE, !.host = FALSE, !.said = FALSE]

LEMMA EndsSet ==
  ASSUME RoomInv, EndsFade
  PROVE  /\ ends' \in [RoomLink -> End]
         /\ \A k \in RoomLink : ends'[k].of = ends[k].of /\ (ends'[k].said => ends[k].said)
<1>1. \A k \in RoomLink : ends[k] \in End
  BY DEF RoomInv, RoomTypes
<1>2. \A k \in RoomLink : ends'[k] \in End /\ ends'[k].of = ends[k].of /\ (ends'[k].said => ends[k].said)
  <2> TAKE k \in RoomLink
  <2> QED
    BY <1>1, EndSet, Zenon DEF EndsFade
<1> QED
  BY <1>2 DEF EndsFade

\* Of a step that leaves both sides' links and views alone.
LEMMA LinksRest ==
  ASSUME RoomInv, UNCHANGED <<born, given, mylink, coming>>,
         ends' \in [RoomLink -> End],
         \A l \in RoomLink : ends'[l].of = ends[l].of /\ (ends'[l].said => ends[l].said)
  PROVE  LinksFade
BY DEF RoomInv, RoomTypes, LinksFade, HasLink

LEMMA MembersRest ==
  ASSUME RoomInv, UNCHANGED <<roster, view>>,
         \A x \in mesh' : x.kind = "refused" => x \in mesh
  PROVE  NoNews
BY DEF RoomInv, RoomTypes, NoNews

LEMMA HostRests == ASSUME UNCHANGED hostVars, UNCHANGED rules PROVE HostStays
BY DEF hostVars, HostStays

\* A step of the host that is only messages.
LEMMA MessagesKeep ==
  ASSUME RoomInv, NEW done, NEW S, Posts(done, S), \A x \in S : x.kind # "refused",
         UNCHANGED <<rules, hostVars, memberVars, ends, born>>
  PROVE  RoomInv'
<1>1. LinksFade
  BY LinksRest DEF RoomInv, RoomTypes, hostVars, memberVars
<1>2. NoNews
  BY MembersRest, NoRefusal DEF hostVars, memberVars
<1> QED
  BY <1>1, <1>2, HostRests, QuietStep

LEMMA TimesOutKeeps ==
  ASSUME RoomInv, NEW l \in RoomLink, TimesOut(l)
  PROVE  RoomInv'
<1>1. /\ given[l] = "open" /\ given' = [given EXCEPT ![l] = "none"]
      /\ ends' = [ends EXCEPT ![l].alive = FALSE]
      /\ UNCHANGED <<rules, seated, roster, named, view, mylink, coming, born, mesh>>
  BY DEF TimesOut, memberVars
<1>2. /\ ends' \in [RoomLink -> End]
      /\ \A k \in RoomLink : ends'[k].of = ends[k].of /\ (ends'[k].said => ends[k].said)
  <2>1. EndsFade
    BY <1>1 DEF RoomInv, RoomTypes, EndsFade
  <2> QED
    BY <2>1, EndsSet
<1>3. LinksFade
  BY <1>1, <1>2, LanRoomAssumption DEF RoomInv, RoomTypes, LinksFade, HasLink
<1>4. NoNews
  BY <1>1, MembersRest
<1>5. HostStays
  BY <1>1, LanRoomAssumption DEF RoomInv, RoomTypes, HostStays
<1> QED
  BY <1>3, <1>4, <1>5, QuietStep

LEMMA ClosesRefusedKeeps ==
  ASSUME RoomInv, NEW l \in RoomLink, ClosesRefused(l)
  PROVE  RoomInv'
<1>1. /\ ends' = [ends EXCEPT ![l].alive = FALSE]
      /\ UNCHANGED <<rules, given, seated, roster, named, view, mylink, coming, born, mesh>>
  BY DEF ClosesRefused, memberVars
<1>2. /\ ends' \in [RoomLink -> End]
      /\ \A k \in RoomLink : ends'[k].of = ends[k].of /\ (ends'[k].said => ends[k].said)
  <2>1. EndsFade
    BY <1>1 DEF RoomInv, RoomTypes, EndsFade
  <2> QED
    BY <2>1, EndsSet
<1> QED
  BY <1>1, <1>2, LinksRest, MembersRest, QuietStep DEF HostStays

LEMMA HostHearsHelloKeeps ==
  ASSUME RoomInv, NEW l \in RoomLink, HostHearsHello(l)
  PROVE  RoomInv'
<1> DEFINE S == IF SitsOn(l) THEN {MembersTo(l, epoch, roster), NamesTo(l, named)} ELSE {}
<1>1. Posts({Hello(l)}, S) /\ UNCHANGED <<rules, hostVars, memberVars, ends, born>>
  BY DEF HostHearsHello
<1>2. \A x \in S : x.kind # "refused"
  BY Kinds
<1> HIDE DEF S
<1> QED
  BY <1>1, <1>2, MessagesKeep

LEMMA RefreshesKeeps == ASSUME RoomInv, Refreshes PROVE RoomInv'
BY MessagesKeep, Kinds DEF Refreshes

LEMMA RetriesKeeps == ASSUME RoomInv, NEW i \in Member, Retries(i) PROVE RoomInv'
<1>1. Posts({}, {Hello(mylink[i])}) /\ UNCHANGED <<rules, hostVars, memberVars, ends, born>>
  BY DEF Retries
<1> QED
  BY <1>1, MessagesKeep, Kinds

LEMMA HearsUpKeeps ==
  ASSUME RoomInv, NEW i \in Member, HearsUp(i)
  PROVE  RoomInv'
<1>1. /\ coming[i] # NoLink
      /\ mylink' = [mylink EXCEPT ![i] = coming[i]] /\ coming' = [coming EXCEPT ![i] = NoLink]
      /\ Posts({}, {Hello(coming[i])})
      /\ UNCHANGED <<rules, given, seated, roster, named, view, ends, born>>
      /\ UNCHANGED hostVars
  BY DEF HearsUp, hostVars
<1>2. LinksFade
  BY <1>1 DEF RoomInv, RoomTypes, LinksFade, HasLink, NoLink, RoomLink
<1>3. NoNews
  BY <1>1, MembersRest, NoRefusal, Kinds
<1> QED
  BY <1>1, <1>2, <1>3, HostRests, QuietStep

\* A member takes a message that is no refusal.
LEMMA TakesKeeps ==
  ASSUME RoomInv, NEW done, NEW S, Posts(done, S), \A x \in S : x.kind # "refused",
         UNCHANGED <<rules, hostVars, mylink, coming, ends, born>>,
         view' = [j \in Member |-> view'[j]],
         \A j \in Member : IsView(view'[j]) /\ view'[j].refused = view[j].refused
  PROVE  RoomInv'
<1>1. LinksFade
  BY LinksRest DEF RoomInv, RoomTypes, hostVars
<1>2. NoNews
  BY NoRefusal DEF NoNews, hostVars
<1> QED
  BY <1>1, <1>2, HostRests, QuietStep

LEMMA HearsMembersKeeps ==
  ASSUME RoomInv, NEW i \in Member, HearsMembers(i)
  PROVE  RoomInv'
<1>1. PICK x \in mesh :
        /\ UNCHANGED <<rules, hostVars, mylink, coming, ends, born>>
        /\ \/ Posts({x}, {}) /\ UNCHANGED view
           \/ /\ view' = [view EXCEPT ![i] = Applied(@, x, i)]
              /\ Posts({x}, IF view[i].own = NoAddress /\ view'[i].own # NoAddress
                            THEN {MyName(x.link)} ELSE {})
  BY DEF HearsMembers, Receives, Drops
<1>2. CASE Posts({x}, {}) /\ UNCHANGED view
  BY <1>1, <1>2, TakesKeeps DEF RoomInv, RoomTypes
<1>3. CASE /\ view' = [view EXCEPT ![i] = Applied(@, x, i)]
           /\ Posts({x}, IF view[i].own = NoAddress /\ view'[i].own # NoAddress
                         THEN {MyName(x.link)} ELSE {})
  <2>1. view'[i] = Applied(view[i], x, i) /\ \A j \in Member : j # i => view'[j] = view[j]
    BY <1>3 DEF RoomInv, RoomTypes
  <2>2. view' = [j \in Member |-> view'[j]]
    BY <1>3 DEF RoomInv, RoomTypes
  <2>3. \A j \in Member : IsView(view'[j]) /\ view'[j].refused = view[j].refused
    BY <2>1, ViewApplied DEF RoomInv, RoomTypes
  <2>4. PICK S : Posts({x}, S) /\ \A y \in S : y.kind # "refused"
    BY <1>3, Kinds
  <2> QED
    BY <1>1, <2>2, <2>3, <2>4, TakesKeeps
<1> QED
  BY <1>1, <1>2, <1>3

LEMMA HearsNamesKeeps ==
  ASSUME RoomInv, NEW i \in Member, HearsNames(i)
  PROVE  RoomInv'
<1>1. PICK x \in mesh :
        /\ UNCHANGED <<rules, hostVars, mylink, coming, ends, born>>
        /\ \/ Posts({x}, {}) /\ UNCHANGED view
           \/ /\ view' = [view EXCEPT ![i].names = x.names]
              /\ Posts({x}, IF view[i].own # NoAddress /\ i \notin x.names
                            THEN {MyName(x.link)} ELSE {})
  BY DEF HearsNames, Receives, Drops
<1>2. CASE Posts({x}, {}) /\ UNCHANGED view
  BY <1>1, <1>2, TakesKeeps DEF RoomInv, RoomTypes
<1>3. CASE /\ view' = [view EXCEPT ![i].names = x.names]
           /\ Posts({x}, IF view[i].own # NoAddress /\ i \notin x.names
                         THEN {MyName(x.link)} ELSE {})
  <2>1. /\ view'[i] = [view[i] EXCEPT !.names = x.names]
        /\ \A j \in Member : j # i => view'[j] = view[j]
    BY <1>3 DEF RoomInv, RoomTypes
  <2>2. view' = [j \in Member |-> view'[j]]
    BY <1>3 DEF RoomInv, RoomTypes
  <2>3. \A j \in Member : IsView(view'[j]) /\ view'[j].refused = view[j].refused
    <3>1. \A j \in Member : IsView(view[j])
      BY DEF RoomInv, RoomTypes
    <3>2. IsView(view'[i]) /\ view'[i].refused = view[i].refused
      <4> DEFINE v == view[i]
      <4> DEFINE w == view'[i]
      <4>1. IsView(v) /\ w = [v EXCEPT !.names = x.names]
        BY <2>1, <3>1
      <4> HIDE DEF v, w
      <4>2. IsView(w) /\ w.refused = v.refused
        BY <4>1, ViewSet
      <4> QED
        BY <4>2 DEF v, w
    <3> QED
      BY <2>1, <3>1, <3>2
  <2> DEFINE S == IF view[i].own # NoAddress /\ i \notin x.names THEN {MyName(x.link)} ELSE {}
  <2>4. Posts({x}, S) /\ \A y \in S : y.kind # "refused"
    BY <1>3, Kinds
  <2> HIDE DEF S
  <2> QED
    BY <1>1, <2>2, <2>3, <2>4, TakesKeeps
<1> QED
  BY <1>1, <1>2, <1>3

LEMMA MemberHearsCloseKeeps ==
  ASSUME RoomInv, NEW l \in RoomLink, MemberHearsClose(l)
  PROVE  RoomInv'
<1> DEFINE i == ends[l].of
<1>1. i \in Member
  BY DEF RoomInv, RoomTypes, End
<1>2. /\ ends' = [ends EXCEPT ![l].member = FALSE]
      /\ UNCHANGED <<rules, hostVars, coming, born, mesh>>
      /\ \/ UNCHANGED <<mylink, view>>
         \/ mylink' = [mylink EXCEPT ![i] = NoLink] /\ view' = [view EXCEPT ![i].own = NoAddress]
  BY DEF MemberHearsClose, MemberMayHear
<1> HIDE DEF i
<1>3. /\ ends' \in [RoomLink -> End]
      /\ \A k \in RoomLink : ends'[k].of = ends[k].of /\ (ends'[k].said => ends[k].said)
  <2>1. EndsFade
    BY <1>2 DEF RoomInv, RoomTypes, EndsFade
  <2> QED
    BY <2>1, EndsSet
<1>4. /\ mylink' \in [Member -> RoomLink \cup {NoLink}]
      /\ \A j \in Member, k \in RoomLink : mylink'[j] = k => mylink[j] = k
  BY <1>1, <1>2 DEF RoomInv, RoomTypes, RoomLink, NoLink
<1>5. LinksFade
  BY <1>2, <1>3, <1>4 DEF RoomInv, RoomTypes, LinksFade, HasLink, hostVars
<1>6. /\ view' = [j \in Member |-> view'[j]]
      /\ \A j \in Member : IsView(view'[j]) /\ view'[j].refused = view[j].refused
  <2>1. CASE UNCHANGED view
    BY <2>1 DEF RoomInv, RoomTypes
  <2>2. CASE view' = [view EXCEPT ![i].own = NoAddress]
    <3>1. /\ view' = [j \in Member |-> view'[j]]
          /\ view'[i] = [view[i] EXCEPT !.own = NoAddress]
          /\ \A j \in Member : j # i => view'[j] = view[j]
      BY <1>1, <2>2 DEF RoomInv, RoomTypes
    <3>2. \A j \in Member : IsView(view[j])
      BY DEF RoomInv, RoomTypes
    <3>3. IsView(view'[i]) /\ view'[i].refused = view[i].refused
      <4> DEFINE v == view[i]
      <4> DEFINE w == view'[i]
      <4>1. IsView(v) /\ w = [v EXCEPT !.own = NoAddress]
        BY <1>1, <3>1, <3>2
      <4> HIDE DEF v, w
      <4>2. IsView(w) /\ w.refused = v.refused
        BY <4>1, ViewSet
      <4> QED
        BY <4>2 DEF v, w
    <3> QED
      BY <3>1, <3>2, <3>3
  <2> QED
    BY <1>2, <2>1, <2>2
<1>7. NoNews
  BY <1>2, <1>6 DEF NoNews, hostVars
<1> QED
  BY <1>2, <1>5, <1>7, HostRests, QuietStep

LEMMA TroubleKeeps ==
  ASSUME RoomInv, (\E l \in RoomLink : Falls(l)) \/ MeshLoses \/ HostOpens
  PROVE  RoomInv'
<1>1. /\ UNCHANGED <<rules, hostVars, memberVars, born>> /\ mesh' \subseteq mesh
      /\ \/ ends' = ends
         \/ \E l \in RoomLink : ends' = [ends EXCEPT ![l].said = FALSE]
         \/ \E l \in RoomLink : ends' = [ends EXCEPT ![l].alive = FALSE]
         \/ \E l \in RoomLink : ends' = [ends EXCEPT ![l].alive = FALSE, ![l].said = FALSE]
  BY DEF Falls, MeshLoses, HostOpens
<1>2. /\ ends' \in [RoomLink -> End]
      /\ \A k \in RoomLink : ends'[k].of = ends[k].of /\ (ends'[k].said => ends[k].said)
  <2>1. ends = [k \in RoomLink |-> ends[k]]
    BY DEF RoomInv, RoomTypes
  <2>2. CASE ends' = ends
    BY <2>2 DEF RoomInv, RoomTypes
  <2>3. ASSUME NEW l \in RoomLink, ends' = [ends EXCEPT ![l].said = FALSE] PROVE EndsFade
    <3>1. ends' = [k \in RoomLink |-> IF k = l THEN [ends[l] EXCEPT !.said = FALSE] ELSE ends[k]]
      BY <2>1, <2>3
    <3>2. \A k \in RoomLink : ends'[k] = ends[k] \/ ends'[k] = [ends[k] EXCEPT !.said = FALSE]
      BY <3>1
    <3> QED
      BY <3>1, <3>2, Zenon DEF EndsFade
  <2>4. ASSUME NEW l \in RoomLink, ends' = [ends EXCEPT ![l].alive = FALSE] PROVE EndsFade
    <3>1. ends' = [k \in RoomLink |-> IF k = l THEN [ends[l] EXCEPT !.alive = FALSE] ELSE ends[k]]
      BY <2>1, <2>4
    <3>2. \A k \in RoomLink : ends'[k] = ends[k] \/ ends'[k] = [ends[k] EXCEPT !.alive = FALSE]
      BY <3>1
    <3> QED
      BY <3>1, <3>2, Zenon DEF EndsFade
  <2>5. ASSUME NEW l \in RoomLink, ends' = [ends EXCEPT ![l].alive = FALSE, ![l].said = FALSE] PROVE EndsFade
    <3>1. ends' = [k \in RoomLink |-> IF k = l THEN [ends[l] EXCEPT !.alive = FALSE, !.said = FALSE] ELSE ends[k]]
      BY <2>1, <2>5
    <3>2. \A k \in RoomLink : ends'[k] = ends[k] \/ ends'[k] = [ends[k] EXCEPT !.alive = FALSE, !.said = FALSE]
      BY <3>1
    <3> QED
      BY <3>1, <3>2, Zenon DEF EndsFade
  <2> QED
    BY <1>1, <2>2, <2>3, <2>4, <2>5, EndsSet
<1>3. LinksFade
  BY <1>1, <1>2, LinksRest DEF hostVars, memberVars
<1>4. NoNews
  BY <1>1, MembersRest DEF hostVars, memberVars
<1> QED
  BY <1>1, <1>3, <1>4, HostRests, QuietStep

\* A member that lets go of its link gets no other.
LEMMA Unlinked ==
  ASSUME NEW f \in [Member -> RoomLink \cup {NoLink}], NEW i, NEW g, g = [f EXCEPT ![i] = NoLink]
  PROVE  /\ g \in [Member -> RoomLink \cup {NoLink}]
         /\ \A j \in Member, k \in RoomLink : g[j] = k => f[j] = k
<1>1. g \in [Member -> RoomLink \cup {NoLink}] /\ \A j \in Member : g[j] = f[j] \/ g[j] = NoLink
  OBVIOUS
<1>2. \A k \in RoomLink : k # NoLink
  BY DEF NoLink, RoomLink
<1> QED
  BY <1>1, <1>2

LEMMA MemberRestartsKeeps ==
  ASSUME RoomInv, NEW i \in Member, MemberRestarts(i)
  PROVE  RoomInv'
<1>1. /\ UNCHANGED <<rules, hostVars, born>> /\ mesh' \subseteq mesh
      /\ view' = [view EXCEPT ![i] = NewView]
      /\ mylink' = [mylink EXCEPT ![i] = NoLink] /\ coming' = [coming EXCEPT ![i] = NoLink]
      /\ ends' = [l \in RoomLink |->
                    IF ends[l].of = i THEN [ends[l] EXCEPT !.alive = FALSE, !.member = FALSE]
                    ELSE ends[l]]
  BY DEF MemberRestarts
<1>2. /\ ends' \in [RoomLink -> End]
      /\ \A k \in RoomLink : ends'[k].of = ends[k].of /\ (ends'[k].said => ends[k].said)
  <2>1. EndsFade
    BY <1>1 DEF RoomInv, RoomTypes, EndsFade
  <2> QED
    BY <2>1, EndsSet
<1>3. /\ mylink' \in [Member -> RoomLink \cup {NoLink}]
      /\ \A j \in Member, k \in RoomLink : mylink'[j] = k => mylink[j] = k
  <2>1. mylink \in [Member -> RoomLink \cup {NoLink}] /\ mylink' = [mylink EXCEPT ![i] = NoLink]
    BY <1>1 DEF RoomInv, RoomTypes
  <2> QED
    BY <2>1, Unlinked
<1>4. /\ coming' \in [Member -> RoomLink \cup {NoLink}]
      /\ \A j \in Member, k \in RoomLink : coming'[j] = k => coming[j] = k
  <2>1. coming \in [Member -> RoomLink \cup {NoLink}] /\ coming' = [coming EXCEPT ![i] = NoLink]
    BY <1>1 DEF RoomInv, RoomTypes
  <2> QED
    BY <2>1, Unlinked
<1>5. LinksFade
  BY <1>1, <1>2, <1>3, <1>4 DEF RoomInv, RoomTypes, LinksFade, HasLink, hostVars
<1>6. IsView(NewView) /\ ~NewView.refused
  BY DEF IsView, NewView
<1>7. /\ view' = [j \in Member |-> view'[j]]
      /\ \A j \in Member : IsView(view'[j]) /\ (view'[j].refused => view[j].refused)
  <2>1. view'[i] = NewView /\ \A j \in Member : j # i => view'[j] = view[j]
    BY <1>1 DEF RoomInv, RoomTypes
  <2>2. view' = [j \in Member |-> view'[j]]
    BY <1>1 DEF RoomInv, RoomTypes
  <2> QED
    BY <1>6, <2>1, <2>2 DEF RoomInv, RoomTypes
<1>8. NoNews
  BY <1>1, <1>7 DEF NoNews, hostVars
<1> QED
  BY <1>1, <1>5, <1>8, HostRests, QuietStep

LEMMA HearsRefusedKeeps ==
  ASSUME RoomInv, NEW i \in Member, HearsRefused(i)
  PROVE  RoomInv'
<1>1. PICK x \in mesh :
        /\ x.kind = "refused" /\ Posts({x}, {})
        /\ UNCHANGED <<rules, hostVars, mylink, coming, ends, born>>
        /\ \/ UNCHANGED view
           \/ mylink[i] = x.link /\ view' = [view EXCEPT ![i].refused = TRUE]
  BY DEF HearsRefused, Receives, Drops
<1>2. CASE UNCHANGED view
  BY <1>1, <1>2, TakesKeeps DEF RoomInv, RoomTypes
<1>3. CASE mylink[i] = x.link /\ view' = [view EXCEPT ![i].refused = TRUE]
  <2>1. mesh' \subseteq mesh
    BY <1>1, OnlyPosted
  <2>2. LinksFade
    BY <1>1, LinksRest DEF RoomInv, RoomTypes, hostVars
  <2>3. \A j \in Member : IsView(view[j])
    BY DEF RoomInv, RoomTypes
  <2>4. /\ view' = [j \in Member |-> view'[j]]
        /\ view'[i] = [view[i] EXCEPT !.refused = TRUE]
        /\ \A j \in Member : j # i => view'[j] = view[j]
    BY <1>3 DEF RoomInv, RoomTypes
  <2>5. IsView(view'[i])
    <3> DEFINE v == view[i]
    <3> DEFINE w == view'[i]
    <3>1. IsView(v) /\ w = [v EXCEPT !.refused = TRUE]
      BY <2>3, <2>4
    <3> HIDE DEF v, w
    <3>2. IsView(w)
      BY <3>1, ViewSet
    <3> QED
      BY <3>2 DEF w
  <2>6. Away(i)
    BY <1>1, <1>3 DEF RoomInv, RefusedOutside, HasLink
  <2>7. \A j \in Member : Away(j) => Away(j)'
    BY <1>1 DEF Away, hostVars
  <2>8. RefusedOutside'
    BY <1>1, <2>1, <2>4, <2>6, <2>7 DEF RoomInv, RefusedOutside, HasLink, hostVars
  <2>9. RoomTypes'
    BY <1>1, <2>3, <2>4, <2>5 DEF RoomInv, RoomTypes, hostVars
  <2> QED
    BY <1>1, <2>2, <2>8, <2>9, FadeKeeps, HostRests, HostStaysKeeps DEF RoomInv
<1> QED
  BY <1>1, <1>2, <1>3

LEMMA HostHearsNameKeeps ==
  ASSUME RoomInv, NEW l \in RoomLink, HostHearsName(l)
  PROVE  RoomInv'
<1>1. /\ UNCHANGED <<rules, given, seated, roster, memberVars, ends, born>>
      /\ \/ UNCHANGED named /\ Posts({MyName(l)}, {})
         \/ /\ SitsOn(l) /\ named' = named \cup {given[l]}
            /\ Posts({MyName(l)}, NamesToAll(seated, named'))
  BY DEF HostHearsName
<1>2. \A x \in mesh' : x.kind = "refused" => x \in mesh
  BY <1>1, NoRefusal, Kinds
<1>3. LinksFade
  BY <1>1, LinksRest DEF RoomInv, RoomTypes, memberVars
<1>4. NoNews
  BY <1>1, <1>2, MembersRest DEF memberVars
<1>5. named' \subseteq Sitting
  BY <1>1 DEF RoomInv, RoomTypes, HostAgrees, SitsOn, Sitting, NoLink, RoomLink
<1>6. Sitting' = Sitting /\ Sitting \subseteq Member
  BY <1>1 DEF Sitting
<1>7. HostAgrees'
  BY <1>1, <1>5, <1>6 DEF RoomInv, HostAgrees, NewestLinkSeated
<1>8. RoomTypes'
  BY <1>1, <1>5, <1>6 DEF RoomInv, RoomTypes, memberVars
<1> QED
  BY <1>3, <1>4, <1>7, <1>8, FadeKeeps, NoNewsKeeps DEF RoomInv

LEMMA HostEndsKeeps ==
  ASSUME RoomInv, HostEnds
  PROVE  RoomInv'
<1>1. /\ given' = [l \in RoomLink |-> "none"] /\ seated' = [i \in Member |-> NoLink]
      /\ roster' = [i \in Member |-> NoAddress] /\ named' = {} /\ mesh' \subseteq mesh
      /\ ends' = [l \in RoomLink |-> [ends[l] EXCEPT !.alive = FALSE, !.host = FALSE, !.said = FALSE]]
      /\ UNCHANGED <<rules, view, mylink, coming, born>>
  BY DEF HostEnds, memberVars, NobodySits
<1>2. /\ ends' \in [RoomLink -> End]
      /\ \A k \in RoomLink : ends'[k].of = ends[k].of /\ (ends'[k].said => ends[k].said)
  <2>1. EndsFade
    BY <1>1 DEF EndsFade
  <2> QED
    BY <2>1, EndsSet
<1>3. LinksFade
  BY <1>1, <1>2, LanRoomAssumption DEF RoomInv, RoomTypes, LinksFade, HasLink
<1>4. NoNews
  BY <1>1 DEF RoomInv, RoomTypes, NoNews
<1>5. Sitting' = {} /\ \A i \in Member : seated'[i] = NoLink /\ roster'[i] = NoAddress
  BY <1>1 DEF Sitting
<1>6. HostAgrees'
  <2>1. (Cardinality(Sitting) <= rules.seats)'
    <3>1. rules'.seats \in Nat
      BY <1>1 DEF RoomInv, RoomTypes
    <3>2. Cardinality(Sitting)' = 0
      BY <1>5, FS_EmptySet
    <3> QED
      BY <3>1, <3>2
  <2> QED
    BY <1>1, <1>5, <2>1 DEF HostAgrees, NewestLinkSeated
<1>7. RoomTypes'
  BY <1>1, <1>2 DEF RoomInv, RoomTypes
<1> QED
  BY <1>3, <1>4, <1>6, <1>7, FadeKeeps, NoNewsKeeps DEF RoomInv

\* A member is on its way on a new link.
LEMMA NewLinkFresh ==
  ASSUME RoomInv, NEW l \in RoomLink, NEW i \in Member, NewLink(l, i),
         NEW e \in End, e.of = i, ends' = [ends EXCEPT ![l] = e],
         given' = [given EXCEPT ![l] = "open"],
         UNCHANGED <<rules, seated, roster, named, view, mylink, mesh>>,
         \/ UNCHANGED coming
         \/ coming' = [coming EXCEPT ![i] = l]
  PROVE  RoomInv'
<1>1. /\ mylink[i] = NoLink /\ coming[i] = NoLink /\ ~view[i].refused
      /\ l = born + 1 /\ born' = l /\ born \in Nat /\ l \in Nat
  BY LanRoomAssumption DEF NewLink, RoomInv, RoomTypes, RoomLink
<1>2. RoomTypes'
  BY <1>1 DEF RoomInv, RoomTypes, RoomLink
<1>3. ends'[l] = e /\ \A k \in RoomLink : k # l => ends'[k] = ends[k]
  BY DEF RoomInv, RoomTypes
<1>4. given'[l] = "open" /\ \A k \in RoomLink : k # l => given'[k] = given[k]
  BY DEF RoomInv, RoomTypes
<1>5. given[l] = "none" /\ ~ends[l].said
  BY <1>1 DEF RoomInv, LinksTrue
<1>6. "open" \notin Member /\ "none" \notin Member
  BY LanRoomAssumption
<1>7. LinksTrue'
  <2>1. \A k \in RoomLink : k > born' => given'[k] = "none" /\ ~ends'[k].said
    BY <1>1, <1>3, <1>4 DEF RoomInv, LinksTrue, RoomLink
  <2>2. \A k \in RoomLink : given'[k] \in Member => k # l /\ k <= born /\ given'[k] = ends'[k].of
    <3> TAKE k \in RoomLink
    <3>1. given'[k] \in Member => k # l
      BY <1>4, <1>6
    <3>2. k # l /\ given'[k] \in Member => ~(k > born)
      BY <1>4, <1>6 DEF RoomInv, LinksTrue
    <3>3. ~(k > born) => k <= born
      BY <1>1 DEF RoomLink
    <3>4. k # l /\ given'[k] \in Member => given'[k] = ends'[k].of
      BY <1>3, <1>4 DEF RoomInv, LinksTrue
    <3> QED
      BY <3>1, <3>2, <3>3, <3>4
  <2>3. ASSUME NEW m \in RoomLink, NEW k \in RoomLink, ends'[m].said, given'[k] = ends'[m].of
        PROVE  k < m
    <3>1. given'[k] \in Member
      BY <1>2, <2>3 DEF RoomTypes, End
    <3>2. k # l /\ k <= born /\ given'[k] = given[k]
      BY <2>2, <3>1, <1>4
    <3>3. CASE m = l
      BY <1>1, <3>2, <3>3 DEF RoomLink
    <3>4. CASE m # l
      BY <1>3, <2>3, <3>2, <3>4 DEF RoomInv, LinksTrue
    <3> QED
      BY <3>3, <3>4
  <2> QED
    BY <2>1, <2>2, <2>3 DEF LinksTrue
<1>8. \A j \in Member, k \in RoomLink : HasLink(j, k)' => HasLink(j, k) \/ (j = i /\ k = l)
  BY DEF HasLink, RoomInv, RoomTypes
<1>9. \A k \in RoomLink : ~HasLink(i, k)
  BY <1>1 DEF HasLink, NoLink, RoomLink
<1>10. HasNewest'
  <2> SUFFICES ASSUME NEW j \in Member, NEW k \in RoomLink, HasLink(j, k)'
               PROVE  /\ ends'[k].of = j /\ k <= born'
                      /\ \A m \in RoomLink : m > k /\ m <= born' => ends'[m].of # j
    BY DEF HasNewest
  <2>1. CASE j = i /\ k = l
    BY <1>1, <1>3, <2>1 DEF RoomLink
  <2>2. CASE HasLink(j, k)
    <3>1. /\ j # i /\ ends[k].of = j /\ k <= born
          /\ \A m \in RoomLink : m > k /\ m <= born => ends[m].of # j
      BY <1>9, <2>2 DEF RoomInv, HasNewest
    <3>2. k # l /\ k <= born'
      BY <1>1, <3>1 DEF RoomLink
    <3>3. ASSUME NEW m \in RoomLink, m > k, m <= born' PROVE ends'[m].of # j
      <4>1. CASE m = l
        BY <1>3, <3>1, <4>1
      <4>2. CASE m # l
        <5>1. m <= born
          BY <1>1, <3>3, <4>2 DEF RoomLink
        <5> QED
          BY <1>3, <3>1, <3>3, <4>2, <5>1
      <4> QED
        BY <4>1, <4>2
    <3> QED
      BY <1>3, <3>1, <3>2, <3>3
  <2> QED
    BY <1>8, <2>1, <2>2
<1>11. \A j \in Member : j # i /\ Away(j) => Away(j)'
  BY <1>3 DEF Away
<1>12. RefusedOutside'
  <2>1. ASSUME NEW x \in mesh, x.kind = "refused"
        PROVE  /\ x.link \in RoomLink /\ x.link <= born'
               /\ \A j \in Member : HasLink(j, x.link)' => Away(j)'
    <3>1. /\ x.link \in RoomLink /\ x.link <= born
          /\ \A j \in Member : HasLink(j, x.link) => Away(j)
      BY <2>1 DEF RoomInv, RefusedOutside
    <3>2. x.link # l /\ x.link <= born'
      BY <1>1, <3>1 DEF RoomLink
    <3> QED
      BY <1>8, <1>9, <1>11, <3>1, <3>2
  <2>2. \A j \in Member : view'[j].refused => Away(j)'
    BY <1>1, <1>11 DEF RoomInv, RefusedOutside
  <2> QED
    BY <2>1, <2>2 DEF RefusedOutside
<1>13. HostStays
  BY <1>4, <1>5, <1>6 DEF HostStays
<1> QED
  BY <1>2, <1>7, <1>10, <1>12, <1>13, HostStaysKeeps DEF RoomInv

LEMMA LinksUpKeeps ==
  ASSUME RoomInv, NEW l \in RoomLink, NEW i \in Member, LinksUp(l, i) \/ LinksUnnamed(l, i)
  PROVE  RoomInv'
<1>1. CASE LinksUp(l, i)
  <2> DEFINE e == [of |-> i, alive |-> TRUE, host |-> TRUE, member |-> TRUE, said |-> TRUE]
  <2>1. e \in End /\ e.of = i
    BY DEF End
  <2>2. /\ NewLink(l, i) /\ ends' = [ends EXCEPT ![l] = e] /\ given' = [given EXCEPT ![l] = "open"]
        /\ coming' = [coming EXCEPT ![i] = l]
        /\ UNCHANGED <<rules, seated, roster, named, view, mylink, mesh>>
    BY <1>1 DEF LinksUp
  <2> HIDE DEF e
  <2> QED
    BY <2>1, <2>2, NewLinkFresh
<1>2. CASE LinksUnnamed(l, i)
  <2> DEFINE e == [of |-> i, alive |-> FALSE, host |-> TRUE, member |-> TRUE, said |-> FALSE]
  <2>1. e \in End /\ e.of = i
    BY DEF End
  <2>2. /\ NewLink(l, i) /\ ends' = [ends EXCEPT ![l] = e] /\ given' = [given EXCEPT ![l] = "open"]
        /\ UNCHANGED <<rules, seated, roster, named, view, mylink, coming, mesh>>
    BY <1>2 DEF LinksUnnamed, memberVars
  <2> HIDE DEF e
  <2> QED
    BY <2>1, <2>2, NewLinkFresh
<1> QED
  BY <1>1, <1>2

LEMMA HostHearsCloseKeeps ==
  ASSUME RoomInv, NEW l \in RoomLink, HostHearsClose(l)
  PROVE  RoomInv'
<1> DEFINE i == given[l]
<1>1. /\ ends' = [ends EXCEPT ![l].host = FALSE] /\ given' = [given EXCEPT ![l] = "none"]
      /\ UNCHANGED <<rules, view, mylink, coming, born>>
  BY DEF HostHearsClose, HostMayHear, memberVars
<1>2. /\ ends' \in [RoomLink -> End]
      /\ \A k \in RoomLink : ends'[k].of = ends[k].of /\ (ends'[k].said => ends[k].said)
  <2>1. EndsFade
    BY <1>1 DEF RoomInv, RoomTypes, EndsFade
  <2> QED
    BY <2>1, EndsSet
<1>3. given'[l] = "none" /\ \A k \in RoomLink : k # l => given'[k] = given[k]
  BY <1>1 DEF RoomInv, RoomTypes
<1>4. "none" \notin Member
  BY LanRoomAssumption
<1>5. LinksFade
  BY <1>1, <1>2, <1>3, <1>4 DEF RoomInv, RoomTypes, LinksFade, HasLink
<1>6. CASE i \in Member /\ seated[i] = l
  <2>1. /\ seated' = [seated EXCEPT ![i] = NoLink] /\ named' = named \ {i}
        /\ roster' = [roster EXCEPT ![i] = NoAddress]
        /\ Posts({}, ToAll(seated', epoch', roster', named'))
    BY <1>6 DEF HostHearsClose, Unseats
  <2>2. /\ seated'[i] = NoLink /\ roster'[i] = NoAddress
        /\ \A j \in Member : j # i => seated'[j] = seated[j] /\ roster'[j] = roster[j]
    BY <1>6, <2>1 DEF RoomInv, RoomTypes
  <2>3. \A x \in mesh' : x.kind = "refused" => x \in mesh
    BY <2>1, NoRefusal, Kinds
  <2>4. NoNews
    BY <1>1, <2>2, <2>3 DEF RoomInv, RoomTypes, NoNews
  <2>5. RoomTypes'
    BY <1>1, <1>2, <1>6, <2>1 DEF RoomInv, RoomTypes
  <2>6. Sitting' = Sitting \ {i} /\ Sitting \subseteq Member
    BY <2>2, <2>5 DEF Sitting
  <2>7. (Cardinality(Sitting) <= rules.seats)'
    <3>1. IsFiniteSet(Sitting) /\ Cardinality(Sitting) \in Nat
      BY <2>6, LanRoomAssumption, FS_Subset, FS_CardinalityType
    <3>2. Cardinality(Sitting') <= Cardinality(Sitting) /\ Cardinality(Sitting') \in Nat
      BY <2>6, <3>1, FS_Subset, FS_CardinalityType
    <3> QED
      BY <1>1, <3>1, <3>2 DEF RoomInv, RoomTypes, HostAgrees
  <2>8. \A j \in Sitting' : seated'[j] # l /\ given'[seated'[j]] = j /\ j \notin rules.barred
    <3> TAKE j \in Sitting'
    <3>1. j \in Sitting /\ j # i /\ seated'[j] = seated[j] /\ given[seated[j]] = j /\ seated[j] \in RoomLink
      BY <2>2, <2>6 DEF RoomInv, RoomTypes, HostAgrees, Sitting
    <3> QED
      BY <1>3, <3>1 DEF RoomInv, HostAgrees
  <2>9. NewestLinkSeated'
    <3> SUFFICES ASSUME NEW m \in RoomLink, given'[m] \in Sitting',
                        \A k \in RoomLink : k > m => given'[k] # given'[m]
                 PROVE  seated'[given'[m]] = m
      BY DEF NewestLinkSeated
    <3>1. m # l /\ given'[m] = given[m] /\ given[m] # i /\ given[m] \in Sitting
      BY <1>3, <1>4, <2>6
    <3>2. \A k \in RoomLink : k > m => given[k] # given[m]
      BY <1>3, <3>1
    <3> QED
      BY <2>2, <2>6, <3>1, <3>2 DEF RoomInv, HostAgrees, NewestLinkSeated
  <2>10. named' \subseteq Sitting'
    BY <2>1, <2>6 DEF RoomInv, HostAgrees
  <2>11. \A j, k \in Sitting' : roster'[j] = roster'[k] => j = k
    BY <2>2, <2>6 DEF RoomInv, HostAgrees
  <2>12. \A j \in Member : seated'[j] # NoLink <=> roster'[j] # NoAddress
    BY <2>2 DEF RoomInv, HostAgrees
  <2>13. HostAgrees'
    BY <1>1, <2>7, <2>8, <2>9, <2>10, <2>11, <2>12 DEF HostAgrees
  <2> QED
    BY <1>5, <2>4, <2>5, <2>13, FadeKeeps, NoNewsKeeps DEF RoomInv
<1>7. CASE ~(i \in Member /\ seated[i] = l)
  <2>1. UNCHANGED <<seated, roster, named, mesh>>
    BY <1>7 DEF HostHearsClose
  <2>2. NoNews
    BY <1>1, <2>1, MembersRest
  <2>3. RoomTypes'
    BY <1>1, <1>2, <2>1 DEF RoomInv, RoomTypes
  <2>4. Sitting' = Sitting /\ Sitting \subseteq Member
    BY <2>1 DEF Sitting
  <2>5. \A j \in Sitting : seated[j] # l /\ seated[j] \in RoomLink
    BY <1>7, <2>4 DEF RoomInv, RoomTypes, HostAgrees, Sitting
  <2>6. NewestLinkSeated'
    <3> SUFFICES ASSUME NEW m \in RoomLink, given'[m] \in Sitting',
                        \A k \in RoomLink : k > m => given'[k] # given'[m]
                 PROVE  seated'[given'[m]] = m
      BY DEF NewestLinkSeated
    <3>1. m # l /\ given'[m] = given[m] /\ given[m] \in Sitting /\ given[m] \in Member
      BY <1>3, <1>4, <2>4
    <3>2. CASE given[l] = given[m] /\ l > m
      <4>1. \A k \in RoomLink : k > l => given[k] # given[l]
        BY <1>3, <3>1, <3>2 DEF RoomLink
      <4>2. seated[given[l]] = l
        BY <3>1, <3>2, <4>1 DEF RoomInv, HostAgrees, NewestLinkSeated
      <4> QED
        BY <1>7, <3>1, <3>2, <4>2
    <3>3. CASE ~(given[l] = given[m] /\ l > m)
      <4>1. \A k \in RoomLink : k > m => given[k] # given[m]
        BY <1>3, <3>1, <3>3
      <4> QED
        BY <2>1, <3>1, <4>1 DEF RoomInv, HostAgrees, NewestLinkSeated
    <3> QED
      BY <3>2, <3>3
  <2>7. HostAgrees'
    BY <1>1, <1>3, <2>1, <2>4, <2>5, <2>6 DEF RoomInv, HostAgrees
  <2> QED
    BY <1>5, <2>2, <2>3, <2>7, FadeKeeps, NoNewsKeeps DEF RoomInv
<1> QED
  BY <1>6, <1>7

\* The host hears the identity i on link l, the first of i's it has still to hear.
Identified(l, i) ==
  /\ ends[l].of = i /\ ends[l].said /\ given[l] # "none"
  /\ \A k \in RoomLink : k < l /\ ends[k].of = i => ~ends[k].said
  /\ ends' = [ends EXCEPT ![l].said = FALSE] /\ given' = [given EXCEPT ![l] = i]
  /\ UNCHANGED <<rules, view, mylink, coming, born, named>>

LEMMA IdentifiedLinks ==
  ASSUME RoomInv, NEW l \in RoomLink, NEW i \in Member, Identified(l, i)
  PROVE  /\ l <= born /\ given[l] \notin Member
         /\ ends' \in [RoomLink -> End] /\ ~ends'[l].said
         /\ \A k \in RoomLink : ends'[k].of = ends[k].of /\ (ends'[k].said => ends[k].said)
         /\ given'[l] = i /\ \A k \in RoomLink : k # l => given'[k] = given[k]
         /\ given' \in [RoomLink -> {"none", "open"} \cup Member]
         /\ LinksTrue' /\ HasNewest'
<1>1. /\ ends' \in [RoomLink -> End]
      /\ \A k \in RoomLink : ends'[k].of = ends[k].of /\ (ends'[k].said => ends[k].said)
  <2>1. EndsFade
    BY DEF RoomInv, RoomTypes, EndsFade, Identified
  <2> QED
    BY <2>1, EndsSet
<1>2. ~ends'[l].said
  <2>1. ends[l] \in End /\ ends'[l] = [ends[l] EXCEPT !.said = FALSE]
    BY DEF RoomInv, RoomTypes, Identified
  <2> QED
    BY <2>1 DEF End
<1>3. /\ given'[l] = i /\ \A k \in RoomLink : k # l => given'[k] = given[k]
      /\ given' \in [RoomLink -> {"none", "open"} \cup Member]
  BY DEF RoomInv, RoomTypes, Identified
<1>4. born \in Nat /\ l \in Nat /\ ~(l > born)
  BY LanRoomAssumption DEF RoomInv, RoomTypes, LinksTrue, RoomLink, Identified
<1>5. given[l] \notin Member
  <2> SUFFICES ASSUME given[l] \in Member PROVE FALSE
    OBVIOUS
  <2>1. given[l] = ends[l].of /\ ends[l].said
    BY DEF RoomInv, LinksTrue, Identified
  <2>2. l < l
    BY <2>1 DEF RoomInv, LinksTrue
  <2> QED
    BY <1>4, <2>2
<1>6. LinksTrue'
  <2>1. \A k \in RoomLink : k > born' => given'[k] = "none" /\ ~ends'[k].said
    BY <1>1, <1>3, <1>4 DEF RoomInv, LinksTrue, Identified
  <2>2. \A k \in RoomLink : given'[k] \in Member => given'[k] = ends'[k].of
    BY <1>1, <1>3 DEF RoomInv, LinksTrue, Identified
  <2>3. ASSUME NEW m \in RoomLink, NEW k \in RoomLink, ends'[m].said, given'[k] = ends'[m].of
        PROVE  k < m
    <3>1. m # l /\ ends[m].said /\ given'[k] = ends[m].of
      BY <1>1, <1>2, <2>3
    <3>2. CASE k = l
      <4>1. ~(m < l)
        BY <1>3, <3>1, <3>2 DEF Identified
      <4> QED
        BY <3>1, <3>2, <4>1 DEF RoomLink
    <3>3. CASE k # l
      BY <1>3, <3>1, <3>3 DEF RoomInv, LinksTrue
    <3> QED
      BY <3>2, <3>3
  <2> QED
    BY <2>1, <2>2, <2>3 DEF LinksTrue
<1>7. HasNewest'
  BY <1>1 DEF RoomInv, HasNewest, HasLink, Identified
<1> QED
  BY <1>1, <1>2, <1>3, <1>4, <1>5, <1>6, <1>7

\* Whoever is outside stays so, for it is not i.
LEMMA IdentifiedOutside ==
  ASSUME RoomInv, NEW l \in RoomLink, NEW i \in Member, Identified(l, i),
         \A j \in Member : j # i => roster'[j] = roster[j]
  PROVE  \A j \in Member : Away(j) => Away(j)'
BY IdentifiedLinks DEF Away, Identified

\* Who sits now sits on the newest link that gave its identity.
LEMMA IdentifiedNewest ==
  ASSUME RoomInv, NEW l \in RoomLink, NEW i \in Member, Identified(l, i),
         \A j \in Member : j # i => roster'[j] = roster[j] /\ seated'[j] = seated[j],
         roster'[i] # NoAddress => seated'[i] = l
  PROVE  NewestLinkSeated'
<1> SUFFICES ASSUME NEW m \in RoomLink, given'[m] \in Sitting',
                    \A k \in RoomLink : k > m => given'[k] # given'[m]
             PROVE  seated'[given'[m]] = m
  BY DEF NewestLinkSeated
<1>1. given'[m] \in Member /\ roster'[given'[m]] # NoAddress
  BY DEF Sitting
<1>2. CASE given'[m] = i
  <2>1. CASE m = l
    BY <1>1, <1>2, <2>1
  <2>2. CASE m # l
    <3>1. given[m] = ends[l].of /\ ends[l].said
      BY <1>2, <2>2, IdentifiedLinks DEF Identified
    <3>2. m < l
      BY <3>1 DEF RoomInv, LinksTrue
    <3>3. given'[l] = i
      BY IdentifiedLinks
    <3> QED
      BY <1>2, <3>2, <3>3 DEF RoomLink
  <2> QED
    BY <2>1, <2>2
<1>3. CASE given'[m] # i
  <2>1. m # l /\ given'[m] = given[m]
    BY <1>3, IdentifiedLinks
  <2>2. given[m] \in Sitting /\ given[m] \in Member
    BY <1>1, <1>3, <2>1 DEF Sitting
  <2>3. \A k \in RoomLink : k > m => given[k] # given[m]
    BY <2>1, <2>2, IdentifiedLinks
  <2>4. seated[given[m]] = m
    BY <2>2, <2>3 DEF RoomInv, HostAgrees, NewestLinkSeated
  <2> QED
    BY <1>3, <2>1, <2>2, <2>4
<1> QED
  BY <1>2, <1>3

\* The rest of what sits was told by another link.
LEMMA IdentifiedOthers ==
  ASSUME RoomInv, NEW l \in RoomLink, NEW i \in Member, Identified(l, i), NEW j \in Sitting
  PROVE  seated[j] # l /\ given'[seated[j]] = j /\ j \notin rules'.barred
<1>1. seated[j] \in RoomLink /\ given[seated[j]] = j /\ j \in Member /\ j \notin rules.barred
  BY DEF RoomInv, RoomTypes, HostAgrees, Sitting
<1>2. given[l] \notin Member /\ \A k \in RoomLink : k # l => given'[k] = given[k]
  BY IdentifiedLinks
<1>3. rules' = rules
  BY DEF Identified
<1>4. seated[j] # l
  BY <1>1, <1>2
<1> QED
  BY <1>1, <1>2, <1>3, <1>4

\* A seat taken, or moved.
LEMMA SeatsWell ==
  ASSUME RoomInv, NEW l \in RoomLink, NEW i \in Member, Identified(l, i),
         TakesSeat(l, i) \/ MovesSeat(l, i)
  PROVE  RoomInv'
<1>1. /\ seated' = [seated EXCEPT ![i] = l] /\ i \notin rules.barred
      /\ \A x \in mesh' : x.kind = "refused" => x \in mesh
  BY NoRefusal, Kinds DEF TakesSeat, MovesSeat, MayNotSit
<1>2. /\ roster' \in [Member -> Address \cup {NoAddress}] /\ roster'[i] # NoAddress
      /\ \A j \in Member : j # i => roster'[j] = roster[j]
      /\ \A j \in Sitting : j # i => roster'[j] # roster'[i]
      /\ (Cardinality(Sitting) <= rules.seats)'
  <2>1. CASE TakesSeat(l, i)
    <3>1. /\ ~(Cardinality(Sitting) >= rules.seats) /\ ~(Address \subseteq Taken)
          /\ roster[i] = NoAddress /\ roster' = [roster EXCEPT ![i] = FreeAddress]
      BY <2>1 DEF TakesSeat, MayNotSit
    <3>2. FreeAddress \in Address /\ FreeAddress \notin Taken
      BY <3>1 DEF FreeAddress
    <3>3. /\ roster' \in [Member -> Address \cup {NoAddress}] /\ roster'[i] = FreeAddress
          /\ \A j \in Member : j # i => roster'[j] = roster[j]
      BY <3>1, <3>2 DEF RoomInv, RoomTypes
    <3>4. Sitting' = Sitting \cup {i} /\ i \notin Sitting /\ Sitting \subseteq Member
      BY <3>1, <3>2, <3>3, LanRoomAssumption DEF Sitting
    <3>5. IsFiniteSet(Sitting) /\ Cardinality(Sitting) \in Nat
      BY <3>4, LanRoomAssumption, FS_Subset, FS_CardinalityType
    <3>6. Cardinality(Sitting') = Cardinality(Sitting) + 1
      BY <3>4, <3>5, FS_AddElement
    <3>7. rules.seats \in Nat /\ rules' = rules
      BY DEF RoomInv, RoomTypes, Identified
    <3>8. (Cardinality(Sitting) <= rules.seats)'
      BY <3>1, <3>5, <3>6, <3>7
    <3>9. \A j \in Sitting : roster[j] \in Taken
      BY DEF Taken, Sitting
    <3> QED
      BY <3>2, <3>3, <3>4, <3>8, <3>9, LanRoomAssumption
  <2>2. CASE MovesSeat(l, i)
    <3>1. roster' = roster /\ roster[i] # NoAddress /\ rules' = rules
      BY <2>2 DEF MovesSeat, Identified
    <3>2. Sitting' = Sitting /\ i \in Sitting
      BY <3>1 DEF Sitting
    <3> QED
      BY <3>1, <3>2 DEF RoomInv, RoomTypes, HostAgrees
  <2> QED
    BY <2>1, <2>2
<1>3. /\ seated' \in [Member -> RoomLink \cup {NoLink}] /\ seated'[i] = l
      /\ \A j \in Member : j # i => seated'[j] = seated[j]
  BY <1>1 DEF RoomInv, RoomTypes
<1>4. RoomTypes'
  <2>1. ends' \in [RoomLink -> End] /\ given' \in [RoomLink -> {"none", "open"} \cup Member]
    BY IdentifiedLinks
  <2>2. UNCHANGED <<rules, view, mylink, coming, born, named>>
    BY DEF Identified
  <2> QED
    BY <1>2, <1>3, <2>1, <2>2 DEF RoomInv, RoomTypes
<1>5. NewestLinkSeated'
  BY <1>2, <1>3, IdentifiedNewest
<1>6. Sitting' = Sitting \cup {i} /\ Sitting \subseteq Member
  BY <1>2 DEF Sitting
<1>7. \A j \in Sitting' : given'[seated'[j]] = j /\ j \notin rules'.barred
  <2> TAKE j \in Sitting'
  <2>1. CASE j = i
    <3>1. given'[l] = i
      BY IdentifiedLinks
    <3>2. rules' = rules
      BY DEF Identified
    <3> QED
      BY <1>1, <1>3, <2>1, <3>1, <3>2
  <2>2. CASE j # i
    BY <1>3, <1>6, <2>2, IdentifiedOthers
  <2> QED
    BY <2>1, <2>2
<1>8. \A j, k \in Sitting' : roster'[j] = roster'[k] => j = k
  BY <1>2, <1>6 DEF RoomInv, HostAgrees
<1>9. \A j \in Member : seated'[j] # NoLink <=> roster'[j] # NoAddress
  BY <1>2, <1>3 DEF RoomInv, HostAgrees, RoomLink, NoLink
<1>10. named' \subseteq Sitting'
  BY <1>6 DEF RoomInv, HostAgrees, Identified
<1>11. HostAgrees'
  BY <1>2, <1>5, <1>7, <1>8, <1>9, <1>10 DEF HostAgrees
<1>12. \A j \in Member : Away(j) => Away(j)'
  BY <1>2, IdentifiedOutside
<1>13. RefusedOutside'
  BY <1>1, <1>12 DEF RoomInv, RefusedOutside, HasLink, Identified
<1> QED
  BY <1>4, <1>11, <1>13, IdentifiedLinks DEF RoomInv

LEMMA RefusesWell ==
  ASSUME RoomInv, NEW l \in RoomLink, NEW i \in Member, Identified(l, i), RefusesSeat(l, i)
  PROVE  RoomInv'
<1>1. /\ mesh' \subseteq mesh \cup {Refusal(l)} /\ UNCHANGED <<seated, roster>> /\ MayNotSit(i)
  BY OnlyPosted DEF RefusesSeat
<1>2. roster[i] = NoAddress
  BY <1>1 DEF MayNotSit, RoomInv, HostAgrees, Sitting
<1>3. RoomTypes'
  BY <1>1, IdentifiedLinks DEF RoomInv, RoomTypes, Identified
<1>4. NewestLinkSeated'
  BY <1>1, <1>2, IdentifiedNewest
<1>5. Sitting' = Sitting
  BY <1>1 DEF Sitting
<1>6. HostAgrees'
  BY <1>1, <1>4, <1>5, IdentifiedOthers DEF RoomInv, HostAgrees, Identified
<1>7. \A j \in Member : Away(j) => Away(j)'
  BY <1>1, IdentifiedOutside
<1>8. ASSUME NEW j \in Member, HasLink(j, l) PROVE Away(j)'
  <2>1. /\ j = i /\ l <= born
        /\ \A k \in RoomLink : k > l /\ k <= born => ends[k].of # i
    BY <1>8 DEF RoomInv, HasNewest, Identified
  <2>2. ASSUME NEW k \in RoomLink, ends[k].of = i PROVE ~ends'[k].said
    <3>1. CASE k < l
      BY <2>2, <3>1, IdentifiedLinks DEF Identified
    <3>2. CASE k = l
      BY <3>2, IdentifiedLinks
    <3>3. CASE k > l
      <4>1. k > born
        BY <2>1, <2>2, <3>3, LanRoomAssumption DEF RoomInv, RoomTypes, RoomLink
      <4> QED
        BY <4>1, IdentifiedLinks DEF RoomInv, LinksTrue
    <3> QED
      BY <3>1, <3>2, <3>3 DEF RoomLink
  <2> QED
    BY <1>1, <1>2, <2>1, <2>2, IdentifiedLinks DEF Away
<1>9. ASSUME NEW x \in mesh', x.kind = "refused"
      PROVE  /\ x.link \in RoomLink /\ x.link <= born'
             /\ \A j \in Member : HasLink(j, x.link)' => Away(j)'
  <2>1. CASE x \in mesh
    BY <1>7, <1>9, <2>1 DEF RoomInv, RefusedOutside, HasLink, Identified
  <2>2. CASE x = Refusal(l)
    <3>1. x.link = l
      BY <2>2 DEF Refusal
    <3>2. l <= born
      BY IdentifiedLinks
    <3>3. born' = born /\ mylink' = mylink /\ coming' = coming
      BY DEF Identified
    <3>4. \A j \in Member : HasLink(j, l)' => HasLink(j, l)
      BY <3>3 DEF HasLink
    <3> QED
      BY <1>8, <3>1, <3>2, <3>3, <3>4
  <2> QED
    BY <1>1, <2>1, <2>2
<1>10. RefusedOutside'
  BY <1>7, <1>9 DEF RoomInv, RefusedOutside, Identified
<1> QED
  BY <1>3, <1>6, <1>10, IdentifiedLinks DEF RoomInv

LEMMA SeatsKeeps ==
  ASSUME RoomInv, NEW l \in RoomLink, Seats(l)
  PROVE  RoomInv'
<1> DEFINE i == ends[l].of
<1>1. i \in Member
  BY DEF RoomInv, RoomTypes, End
<1>2. CASE given[l] = "none"
  <2>1. /\ ends' = [ends EXCEPT ![l].said = FALSE]
        /\ UNCHANGED <<rules, born, given, mylink, coming, roster, view, mesh, hostVars>>
    BY <1>2 DEF Seats, hostVars, memberVars
  <2>2. EndsFade
    BY <2>1 DEF RoomInv, RoomTypes, EndsFade
  <2> QED
    BY <2>1, <2>2, EndsSet, LinksRest, MembersRest, HostRests, QuietStep
<1>3. CASE given[l] # "none"
  <2>1. Identified(l, i) /\ (TakesSeat(l, i) \/ MovesSeat(l, i) \/ RefusesSeat(l, i))
    BY <1>3 DEF Seats, Identified, memberVars
  <2> HIDE DEF i
  <2> QED
    BY <1>1, <2>1, SeatsWell, RefusesWell
<1> QED
  BY <1>2, <1>3

LEMMA HostStepKeeps ==
  ASSUME RoomInv, NEW l \in RoomLink, HostStep(l)
  PROVE  RoomInv'
BY SeatsKeeps, TimesOutKeeps, ClosesRefusedKeeps, HostHearsCloseKeeps, HostHearsHelloKeeps,
   HostHearsNameKeeps DEF HostStep

LEMMA MemberStepKeeps ==
  ASSUME RoomInv, NEW i \in Member, MemberStep(i)
  PROVE  RoomInv'
BY LinksUpKeeps, HearsUpKeeps, RetriesKeeps, HearsMembersKeeps, HearsNamesKeeps,
   HearsRefusedKeeps DEF MemberStep

LEMMA RoomStep == RoomInv /\ [LanRoomNext]_roomVars => RoomInv'
<1> SUFFICES ASSUME RoomInv, [LanRoomNext]_roomVars PROVE RoomInv'
  OBVIOUS
<1>1. ASSUME NEW l \in RoomLink, MemberHearsClose(l) \/ Falls(l) PROVE RoomInv'
  BY <1>1, MemberHearsCloseKeeps, TroubleKeeps
<1>2. CASE Refreshes \/ MeshLoses \/ HostEnds \/ HostOpens
  BY <1>2, RefreshesKeeps, TroubleKeeps, HostEndsKeeps
<1>3. CASE UNCHANGED roomVars
  BY <1>3, LinksRest, MembersRest, HostRests, QuietStep
     DEF roomVars, hostVars, memberVars, RoomInv, RoomTypes
<1> QED
  BY <1>1, <1>2, <1>3, HostStepKeeps, MemberStepKeeps, MemberRestartsKeeps DEF LanRoomNext

\* What the argument above holds together, in every room.
THEOREM RoomInvariant == LanRoomSpec => []RoomInv
<1>1. LanRoomInit => RoomInv
  BY RoomInitInv
<1>2. RoomInv /\ [LanRoomNext]_roomVars => RoomInv'
  BY RoomStep
<1> QED
  BY <1>1, <1>2, PTL DEF LanRoomSpec

\* The host's records of who is in the room agree, and who was refused has no
\* seat, however links fall and messages are lost (Host, lan_session.rs).
THEOREM RoomSeatsAgree == LanRoomSpec => []SeatsAgree
<1>1. RoomInv => SeatsAgree
  BY DEF RoomInv, HostAgrees, SeatsAgree, RefusedOutside, Away
<1> QED
  BY <1>1, RoomInvariant, PTL

\* A member sits on the newest link that gave its identity: nothing late of an
\* older one moves or takes the seat (Host.seated, lan_session.rs).
THEOREM RoomNewestSeated == LanRoomSpec => []NewestLinkSeated
<1>1. RoomInv => NewestLinkSeated
  BY DEF RoomInv, HostAgrees
<1> QED
  BY <1>1, RoomInvariant, PTL

\* Tables.  A link with an identity, or that waits for one, was made in this run
\* of the host; what is on its way on it, and the view taken from it, is of this
\* run's epochs, and at the host's epoch it is the host's table.
\* What may be said of the host's table at epoch e: it is of the past, or it is the table.
Fits(e, r) == e \in 0 .. epoch /\ (e = epoch => r = roster)

\* A link with an identity, or that waits for it, is one of this run of the host:
\* tables on it and views of it are this run's.
TablesOnWay ==
  \A x \in mesh : x.kind = "members" =>
    /\ x.link \in RoomLink /\ x.link <= born
    /\ given[x.link] # "none" => Fits(x.epoch, x.members)

\* A member that is about to have a link has none, and without one no address.
OneLink ==
  \A i \in Member :
    /\ coming[i] # NoLink => mylink[i] = NoLink
    /\ mylink[i] = NoLink => view[i].own = NoAddress

ViewsFit ==
  \A i \in Member :
    view[i].own # NoAddress /\ given[mylink[i]] # "none" => Fits(view[i].epoch, view[i].members)

TablesInv == epoch \in Nat /\ TablesOnWay /\ OneLink /\ ViewsFit

\* A step that is not the host's end: the table stays or is a new epoch's, a link
\* without identity gets none unless it is new,
TableMoves ==
  /\ (epoch' = epoch /\ roster' = roster) \/ epoch' = epoch + 1
  /\ born \in Nat /\ born' \in Nat /\ born <= born'
  /\ \A l \in RoomLink : given'[l] # "none" => given[l] # "none" \/ l > born

\* a table on its way was so, or is the new one,
TablesPosted ==
  \A x \in mesh' : x.kind = "members" =>
    \/ x \in mesh
    \/ x.link \in RoomLink /\ x.link <= born /\ x.epoch = epoch' /\ x.members = roster'

\* and a member's table is the one it had, or one that was on its way to it.
ViewsTaken ==
  \A i \in Member : view'[i].own # NoAddress =>
    /\ mylink'[i] = mylink[i]
    /\ \/ view[i].own # NoAddress /\ view'[i].epoch = view[i].epoch /\ view'[i].members = view[i].members
       \/ \E x \in mesh : /\ x.kind = "members" /\ x.link = mylink[i]
                          /\ view'[i].epoch = x.epoch /\ view'[i].members = x.members

LEMMA FitsStays ==
  ASSUME epoch \in Nat, NEW e, NEW r, Fits(e, r),
         (epoch' = epoch /\ roster' = roster) \/ epoch' = epoch + 1
  PROVE  Fits(e, r)'
<1>1. CASE epoch' = epoch /\ roster' = roster
  BY <1>1 DEF Fits
<1>2. CASE epoch' = epoch + 1
  <2>1. e \in 0 .. epoch' /\ e # epoch'
    BY <1>2 DEF Fits
  <2> QED
    BY <2>1 DEF Fits
<1> QED
  BY <1>1, <1>2

LEMMA TablesStep ==
  ASSUME RoomInv, TablesInv, TableMoves, TablesPosted, ViewsTaken, OneLink'
  PROVE  TablesInv'
<1>1. epoch \in Nat /\ epoch' \in Nat /\ born \in Nat
  BY DEF TablesInv, TableMoves
<1>2. \A e, r : Fits(e, r) => Fits(e, r)'
  BY <1>1, FitsStays DEF TableMoves
<1>3. Fits(epoch, roster)'
  BY <1>1 DEF Fits
<1>4. TablesOnWay'
  <2> SUFFICES ASSUME NEW x \in mesh', x.kind = "members"
               PROVE  /\ x.link \in RoomLink /\ x.link <= born'
                      /\ given'[x.link] # "none" => Fits(x.epoch, x.members)'
    BY DEF TablesOnWay
  <2>1. CASE x \in mesh
    <3>1. x.link \in RoomLink /\ x.link <= born /\ (given[x.link] # "none" => Fits(x.epoch, x.members))
      BY <2>1 DEF TablesInv, TablesOnWay
    <3>2. x.link <= born' /\ ~(x.link > born)
      BY <1>1, <3>1 DEF TableMoves, RoomLink
    <3> QED
      BY <1>2, <3>1, <3>2 DEF TableMoves
  <2>2. CASE x.link \in RoomLink /\ x.link <= born /\ x.epoch = epoch' /\ x.members = roster'
    BY <1>1, <1>3, <2>2 DEF TableMoves, RoomLink
  <2> QED
    BY <2>1, <2>2 DEF TablesPosted
<1>5. ViewsFit'
  <2> SUFFICES ASSUME NEW i \in Member, view'[i].own # NoAddress, given'[mylink'[i]] # "none"
               PROVE  Fits(view[i].epoch, view[i].members)'
    BY DEF ViewsFit
  <2>1. mylink'[i] = mylink[i] /\ mylink[i] \in RoomLink
    BY DEF ViewsTaken, OneLink, RoomInv, RoomTypes
  <2>2. mylink[i] <= born /\ ~(mylink[i] > born)
    BY <1>1, <2>1 DEF RoomInv, HasNewest, HasLink, RoomLink
  <2>3. given[mylink[i]] # "none"
    BY <2>1, <2>2 DEF TableMoves
  <2>4. CASE view[i].own # NoAddress /\ view'[i].epoch = view[i].epoch /\ view'[i].members = view[i].members
    <3>1. Fits(view[i].epoch, view[i].members)
      BY <2>3, <2>4 DEF TablesInv, ViewsFit
    <3> QED
      BY <1>2, <2>4, <3>1
  <2>5. ASSUME NEW x \in mesh, x.kind = "members", x.link = mylink[i],
               view'[i].epoch = x.epoch, view'[i].members = x.members
        PROVE  Fits(view[i].epoch, view[i].members)'
    <3>1. Fits(x.epoch, x.members)
      BY <2>3, <2>5 DEF TablesInv, TablesOnWay
    <3> QED
      BY <1>2, <2>5, <3>1
  <2> QED
    BY <2>4, <2>5 DEF ViewsTaken
<1> QED
  BY <1>1, <1>4, <1>5 DEF TablesInv

\* A step that leaves the members alone.
LEMMA ViewsRest ==
  ASSUME TablesInv, UNCHANGED memberVars
  PROVE  ViewsTaken /\ OneLink'
BY DEF memberVars, ViewsTaken, TablesInv, OneLink

\* The links members sit on were made.
LEMMA SeatsMade ==
  ASSUME RoomInv
  PROVE  born \in Nat /\ \A i \in Member : seated[i] # NoLink => seated[i] \in RoomLink /\ seated[i] <= born
<1>1. born \in Nat
  BY LanRoomAssumption DEF RoomInv, RoomTypes
<1>2. ASSUME NEW i \in Member, seated[i] # NoLink PROVE seated[i] \in RoomLink /\ seated[i] <= born
  <2>1. seated[i] \in RoomLink /\ i \in Sitting
    BY <1>2 DEF RoomInv, RoomTypes, HostAgrees, Sitting
  <2>2. given[seated[i]] # "none"
    BY <2>1, LanRoomAssumption DEF RoomInv, HostAgrees
  <2>3. ~(seated[i] > born)
    BY <2>1, <2>2 DEF RoomInv, LinksTrue
  <2> QED
    BY <1>1, <2>1, <2>3 DEF RoomLink
<1> QED
  BY <1>1, <1>2

\* A table, or what is none.
TableOrNone(x, e, r) ==
  x.kind = "members" => x.link \in RoomLink /\ x.link <= born /\ x.epoch = e /\ x.members = r

LEMMA NoTables ==
  /\ \A l : Hello(l).kind # "members" /\ MyName(l).kind # "members" /\ Refusal(l).kind # "members"
  /\ \A l, n : NamesTo(l, n).kind # "members"
  /\ \A s, n : \A x \in NamesToAll(s, n) : x.kind # "members"
BY DEF Hello, MyName, Refusal, NamesTo, NamesToAll

LEMMA TableOne ==
  ASSUME NEW l \in RoomLink, l <= born, NEW e, NEW r
  PROVE  TableOrNone(MembersTo(l, e, r), e, r)
BY DEF TableOrNone, MembersTo

LEMMA TablesToAll ==
  ASSUME RoomInv, NEW s, NEW e, NEW r, NEW n,
         \A i \in Member : s[i] = seated[i] \/ s[i] = NoLink \/ (s[i] \in RoomLink /\ s[i] <= born)
  PROVE  \A x \in ToAll(s, e, r, n) : TableOrNone(x, e, r)
<1> SUFFICES ASSUME NEW x \in ToAll(s, e, r, n) PROVE TableOrNone(x, e, r)
  OBVIOUS
<1>1. CASE x \in NamesToAll(s, n)
  BY <1>1, NoTables DEF TableOrNone
<1>2. ASSUME NEW i \in Member, s[i] # NoLink, x = MembersTo(s[i], e, r) PROVE TableOrNone(x, e, r)
  <2>1. s[i] \in RoomLink /\ s[i] <= born
    BY <1>2, SeatsMade
  <2> QED
    BY <1>2, <2>1, TableOne
<1> QED
  BY <1>1, <1>2 DEF ToAll

LEMMA TablesSent ==
  ASSUME NEW done, NEW S, Posts(done, S), \A x \in S : TableOrNone(x, epoch', roster')
  PROVE  TablesPosted
BY OnlyPosted DEF TablesPosted, TableOrNone

\* The table of a host that seats and unseats nobody.
LEMMA SameTable ==
  ASSUME RoomInv, UNCHANGED <<epoch, roster, born>>,
         \A l \in RoomLink : given[l] = "none" => given'[l] = "none"
  PROVE  TableMoves
BY SeatsMade DEF TableMoves

\* A step of the host, or of the mesh, that leaves the members alone.
LEMMA HostTablesStep ==
  ASSUME RoomInv, TablesInv, TableMoves, TablesPosted, UNCHANGED memberVars
  PROVE  TablesInv'
BY ViewsRest, TablesStep

LEMMA SeatsTables ==
  ASSUME RoomInv, TablesInv, NEW l \in RoomLink, Seats(l)
  PROVE  TablesInv'
<1> DEFINE i == ends[l].of
<1>1. i \in Member
  BY DEF RoomInv, RoomTypes, End
<1>2. UNCHANGED memberVars /\ born' = born
  BY DEF Seats
<1>3. CASE given[l] = "none"
  <2>1. UNCHANGED <<epoch, roster, born, given, mesh>>
    BY <1>2, <1>3 DEF Seats, hostVars
  <2> QED
    BY <1>2, <2>1, SameTable, HostTablesStep DEF TablesPosted
<1>4. CASE given[l] # "none"
  <2>1. Identified(l, i) /\ (TakesSeat(l, i) \/ MovesSeat(l, i) \/ RefusesSeat(l, i))
    BY <1>4 DEF Seats, Identified, memberVars
  <2> HIDE DEF i
  <2>2. l <= born /\ \A k \in RoomLink : given[k] = "none" => given'[k] = "none"
    BY <1>1, <1>4, <2>1, IdentifiedLinks
  <2>3. CASE TakesSeat(l, i)
    <3>1. epoch' = epoch + 1 /\ seated' = [seated EXCEPT ![i] = l]
          /\ Posts({}, ToAll(seated', epoch', roster', named))
      BY <2>3 DEF TakesSeat
    <3>2. \A j \in Member : seated'[j] = seated[j] \/ (seated'[j] \in RoomLink /\ seated'[j] <= born)
      BY <2>2, <3>1 DEF RoomInv, RoomTypes
    <3>3. \A x \in ToAll(seated', epoch', roster', named) : TableOrNone(x, epoch', roster')
      BY <3>2, TablesToAll
    <3>4. TablesPosted
      BY <3>1, <3>3, TablesSent
    <3>5. TableMoves
      BY <1>2, <2>2, <3>1, SeatsMade DEF TableMoves
    <3> QED
      BY <1>2, <3>4, <3>5, HostTablesStep
  <2>4. CASE MovesSeat(l, i)
    <3>1. UNCHANGED <<roster, epoch>> /\ Posts({}, {MembersTo(l, epoch, roster), NamesTo(l, named)})
      BY <2>4 DEF MovesSeat
    <3>2. TablesPosted
      BY <2>2, <3>1, TableOne, NoTables, TablesSent DEF TableOrNone
    <3> QED
      BY <1>2, <2>2, <3>1, <3>2, SameTable, HostTablesStep
  <2>5. CASE RefusesSeat(l, i)
    <3>1. UNCHANGED <<roster, epoch>> /\ Posts({}, {Refusal(l)})
      BY <2>5 DEF RefusesSeat
    <3>2. TablesPosted
      BY <3>1, NoTables, TablesSent DEF TableOrNone
    <3> QED
      BY <1>2, <2>2, <3>1, <3>2, SameTable, HostTablesStep
  <2> QED
    BY <2>1, <2>3, <2>4, <2>5
<1> QED
  BY <1>3, <1>4

LEMMA HostQuietTables ==
  ASSUME RoomInv, TablesInv, NEW l \in RoomLink,
         TimesOut(l) \/ ClosesRefused(l) \/ HostHearsHello(l) \/ HostHearsName(l)
  PROVE  TablesInv'
<1>1. UNCHANGED <<epoch, roster, born>> /\ UNCHANGED memberVars
  BY DEF TimesOut, ClosesRefused, HostHearsHello, HostHearsName, hostVars
<1>2. \A k \in RoomLink : given[k] = "none" => given'[k] = "none"
  BY DEF TimesOut, ClosesRefused, HostHearsHello, HostHearsName, hostVars, RoomInv, RoomTypes
<1>3. TablesPosted
  <2>1. CASE TimesOut(l) \/ ClosesRefused(l)
    BY <2>1 DEF TimesOut, ClosesRefused, TablesPosted
  <2>2. CASE HostHearsHello(l)
    <3>1. CASE SitsOn(l)
      <4>1. l <= born
        BY <3>1, SeatsMade DEF SitsOn, NoLink, RoomLink
      <4> QED
        BY <1>1, <2>2, <3>1, <4>1, TableOne, NoTables, TablesSent DEF HostHearsHello, TableOrNone
    <3>2. CASE ~SitsOn(l)
      BY <2>2, <3>2, TablesSent DEF HostHearsHello
    <3> QED
      BY <3>1, <3>2
  <2>3. CASE HostHearsName(l)
    <3>1. \E S : Posts({MyName(l)}, S) /\ (S = {} \/ S = NamesToAll(seated, named'))
      BY <2>3 DEF HostHearsName
    <3> QED
      BY <3>1, NoTables, TablesSent DEF TableOrNone
  <2> QED
    BY <2>1, <2>2, <2>3
<1> QED
  BY <1>1, <1>2, <1>3, SameTable, HostTablesStep

LEMMA RefreshesTables == ASSUME RoomInv, TablesInv, Refreshes PROVE TablesInv'
<1>1. UNCHANGED <<epoch, roster, born, given>> /\ UNCHANGED memberVars
      /\ Posts({}, ToAll(seated, epoch, roster, named))
  BY DEF Refreshes, hostVars
<1>2. TablesPosted
  BY <1>1, TablesToAll, TablesSent
<1> QED
  BY <1>1, <1>2, SameTable, HostTablesStep

LEMMA HostHearsCloseTables ==
  ASSUME RoomInv, TablesInv, NEW l \in RoomLink, HostHearsClose(l)
  PROVE  TablesInv'
<1>1. given' = [given EXCEPT ![l] = "none"] /\ UNCHANGED memberVars /\ born' = born
  BY DEF HostHearsClose
<1>2. \A k \in RoomLink : given[k] = "none" => given'[k] = "none"
  BY <1>1 DEF RoomInv, RoomTypes
<1>3. CASE given[l] \in Member /\ seated[given[l]] = l
  <2> DEFINE i == given[l]
  <2>1. epoch' = epoch + 1 /\ seated' = [seated EXCEPT ![i] = NoLink]
        /\ Posts({}, ToAll(seated', epoch', roster', named'))
    BY <1>3 DEF HostHearsClose, Unseats
  <2>2. \A j \in Member : seated'[j] = seated[j] \/ seated'[j] = NoLink
    BY <2>1 DEF RoomInv, RoomTypes
  <2>3. \A x \in ToAll(seated', epoch', roster', named') : TableOrNone(x, epoch', roster')
    BY <2>2, TablesToAll
  <2>4. TablesPosted
    BY <2>1, <2>3, TablesSent
  <2>5. TableMoves
    BY <1>1, <1>2, <2>1, SeatsMade DEF TableMoves
  <2> QED
    BY <1>1, <2>4, <2>5, HostTablesStep
<1>4. CASE ~(given[l] \in Member /\ seated[given[l]] = l)
  <2>1. UNCHANGED <<roster, epoch, mesh>>
    BY <1>4 DEF HostHearsClose
  <2> QED
    BY <1>1, <1>2, <2>1, SameTable, HostTablesStep DEF TablesPosted
<1> QED
  BY <1>3, <1>4

LEMMA LinksUpTables ==
  ASSUME RoomInv, TablesInv, NEW l \in RoomLink, NEW i \in Member, LinksUp(l, i) \/ LinksUnnamed(l, i)
  PROVE  TablesInv'
<1>1. /\ mylink[i] = NoLink /\ l = born + 1 /\ born' = l /\ given' = [given EXCEPT ![l] = "open"]
      /\ coming' = coming \/ coming' = [coming EXCEPT ![i] = l]
      /\ UNCHANGED <<epoch, roster, view, mylink, mesh>>
  BY DEF LinksUp, LinksUnnamed, NewLink, memberVars
<1>2. born \in Nat
  BY SeatsMade
<1>3. TableMoves
  BY <1>1, <1>2 DEF TableMoves, RoomInv, RoomTypes, RoomLink
<1>4. TablesPosted /\ ViewsTaken
  BY <1>1 DEF TablesPosted, ViewsTaken
<1>5. OneLink'
  BY <1>1 DEF TablesInv, OneLink, RoomInv, RoomTypes
<1> QED
  BY <1>3, <1>4, <1>5, TablesStep

LEMMA HearsUpTables ==
  ASSUME RoomInv, TablesInv, NEW i \in Member, HearsUp(i) \/ Retries(i)
  PROVE  TablesInv'
<1>1. UNCHANGED <<epoch, roster, born, given>> /\ \E l : Posts({}, {Hello(l)})
  BY DEF HearsUp, Retries, hostVars
<1>2. TablesPosted
  BY <1>1, NoTables, TablesSent DEF TableOrNone
<1>3. CASE HearsUp(i)
  <2>1. /\ coming[i] # NoLink /\ mylink' = [mylink EXCEPT ![i] = coming[i]]
        /\ coming' = [coming EXCEPT ![i] = NoLink] /\ view' = view
    BY <1>3 DEF HearsUp
  <2>2. view[i].own = NoAddress
    BY <2>1 DEF TablesInv, OneLink
  <2>3. ViewsTaken
    BY <2>1, <2>2 DEF ViewsTaken, RoomInv, RoomTypes
  <2>4. OneLink'
    BY <2>1, <2>2 DEF TablesInv, OneLink, RoomInv, RoomTypes
  <2> QED
    BY <1>1, <1>2, <2>3, <2>4, SameTable, TablesStep
<1>4. CASE Retries(i)
  BY <1>1, <1>2, <1>4, SameTable, HostTablesStep DEF Retries
<1> QED
  BY <1>3, <1>4

\* A view, but for its names and its refusal.
SameView(v, w) == w.own = v.own /\ w.epoch = v.epoch /\ w.members = v.members

LEMMA ViewKept ==
  ASSUME NEW v, IsView(v), NEW a, NEW w,
         w = v \/ w = [v EXCEPT !.names = a] \/ w = [v EXCEPT !.refused = a]
  PROVE  SameView(v, w)
<1>1. CASE w = [v EXCEPT !.names = a]
  BY <1>1 DEF IsView, SameView
<1>2. CASE w = [v EXCEPT !.refused = a]
  BY <1>2 DEF IsView, SameView
<1> QED
  BY <1>1, <1>2 DEF SameView

LEMMA ViewOfTable ==
  ASSUME NEW v, IsView(v), NEW x, NEW i, NEW w, w = Applied(v, x, i), w.own # NoAddress
  PROVE  (v.own # NoAddress /\ SameView(v, w)) \/ (w.epoch = x.epoch /\ w.members = x.members)
<1>1. CASE w = v
  BY <1>1 DEF SameView
<1>2. CASE w = [v EXCEPT !.own = x.members[i], !.epoch = x.epoch, !.members = x.members]
  BY <1>2 DEF IsView
<1> QED
  BY <1>1, <1>2 DEF Applied

LEMMA HearsTables ==
  ASSUME RoomInv, TablesInv, NEW i \in Member, HearsMembers(i) \/ HearsNames(i) \/ HearsRefused(i)
  PROVE  TablesInv'
<1>1. PICK x \in mesh :
        /\ UNCHANGED <<rules, up, hostVars, mylink, coming, ends, born, trouble>>
        /\ \E S : Posts({x}, S) /\ (S = {} \/ S = {MyName(x.link)})
        /\ \/ view' = view
           \/ /\ mylink[i] = x.link /\ x.kind = "members"
              /\ view' = [view EXCEPT ![i] = Applied(@, x, i)]
           \/ mylink[i] = x.link /\ view' = [view EXCEPT ![i].names = x.names]
           \/ mylink[i] = x.link /\ view' = [view EXCEPT ![i].refused = TRUE]
  <2>1. CASE HearsMembers(i)
    <3>1. PICK x \in mesh : /\ Receives(i, "members", x)
                            /\ \/ Drops(i, x)
                               \/ /\ mylink[i] = x.link /\ view' = [view EXCEPT ![i] = Applied(@, x, i)]
                                  /\ \E S : Posts({x}, S) /\ (S = {} \/ S = {MyName(x.link)})
      BY <2>1 DEF HearsMembers
    <3> QED
      BY <3>1 DEF Receives, Drops
  <2>2. CASE HearsNames(i)
    <3>1. PICK x \in mesh : /\ Receives(i, "names", x)
                            /\ \/ Drops(i, x)
                               \/ /\ mylink[i] = x.link /\ view' = [view EXCEPT ![i].names = x.names]
                                  /\ \E S : Posts({x}, S) /\ (S = {} \/ S = {MyName(x.link)})
      BY <2>2 DEF HearsNames
    <3> QED
      BY <3>1 DEF Receives, Drops
  <2>3. CASE HearsRefused(i)
    BY <2>3 DEF HearsRefused, Receives, Drops
  <2> QED
    BY <2>1, <2>2, <2>3
<1>2. UNCHANGED <<epoch, roster, born, given, mylink, coming>>
  BY <1>1 DEF hostVars
<1>3. TablesPosted
  BY <1>1, NoTables, TablesSent DEF TableOrNone
<1>4. view = [j \in Member |-> view[j]] /\ \A j \in Member : IsView(view[j])
  BY DEF RoomInv, RoomTypes
<1>5. \A j \in Member : j # i => view'[j] = view[j]
  BY <1>1, <1>4
<1>6. \/ SameView(view[i], view'[i])
      \/ mylink[i] = x.link /\ x.kind = "members" /\ view'[i] = Applied(view[i], x, i)
  <2>1. CASE view' = view
    BY <2>1 DEF SameView
  <2>2. CASE view' = [view EXCEPT ![i].names = x.names] \/ view' = [view EXCEPT ![i].refused = TRUE]
    <3>1. \E a : view'[i] = [view[i] EXCEPT !.names = a] \/ view'[i] = [view[i] EXCEPT !.refused = a]
      BY <1>4, <2>2
    <3> QED
      BY <1>4, <3>1, ViewKept
  <2>3. CASE mylink[i] = x.link /\ x.kind = "members" /\ view' = [view EXCEPT ![i] = Applied(@, x, i)]
    BY <1>4, <2>3
  <2> QED
    BY <1>1, <2>1, <2>2, <2>3
<1>7. ViewsTaken
  <2> SUFFICES ASSUME NEW j \in Member, view'[j].own # NoAddress
               PROVE  \/ /\ view[j].own # NoAddress /\ view'[j].epoch = view[j].epoch
                         /\ view'[j].members = view[j].members
                      \/ \E y \in mesh : /\ y.kind = "members" /\ y.link = mylink[j]
                                         /\ view'[j].epoch = y.epoch /\ view'[j].members = y.members
    BY <1>2 DEF ViewsTaken
  <2>1. CASE j # i
    BY <1>5, <2>1
  <2>2. CASE j = i /\ SameView(view[i], view'[i])
    BY <2>2 DEF SameView
  <2>3. CASE j = i /\ mylink[i] = x.link /\ x.kind = "members" /\ view'[i] = Applied(view[i], x, i)
    <3>1. \/ view[i].own # NoAddress /\ SameView(view[i], view'[i])
          \/ view'[i].epoch = x.epoch /\ view'[i].members = x.members
      BY <1>4, <2>3, ViewOfTable
    <3> QED
      BY <1>1, <2>3, <3>1 DEF SameView
  <2> QED
    BY <1>6, <2>1, <2>2, <2>3
<1>8. OneLink'
  <2> SUFFICES ASSUME NEW j \in Member, mylink[j] = NoLink PROVE view'[j].own = NoAddress
    BY <1>2 DEF TablesInv, OneLink
  <2>1. view[j].own = NoAddress
    BY DEF TablesInv, OneLink
  <2>2. CASE j # i
    BY <1>5, <2>1, <2>2
  <2>3. CASE j = i /\ SameView(view[i], view'[i])
    BY <2>1, <2>3 DEF SameView
  <2>4. CASE j = i /\ mylink[i] = x.link /\ x.kind = "members"
    <3>1. x.link \in RoomLink
      BY <1>1, <2>4 DEF TablesInv, TablesOnWay
    <3> QED
      BY <2>4, <3>1 DEF RoomLink, NoLink
  <2> QED
    BY <1>6, <2>2, <2>3, <2>4
<1> QED
  BY <1>2, <1>3, <1>7, <1>8, SameTable, TablesStep

LEMMA MemberHearsCloseTables ==
  ASSUME RoomInv, TablesInv, NEW l \in RoomLink, MemberHearsClose(l)
  PROVE  TablesInv'
<1> DEFINE i == ends[l].of
<1>1. UNCHANGED <<epoch, roster, born, given, coming, mesh>> /\ i \in Member
  BY DEF MemberHearsClose, hostVars, RoomInv, RoomTypes, End
<1>2. CASE mylink[i] = l
  <2>1. mylink' = [mylink EXCEPT ![i] = NoLink] /\ view' = [view EXCEPT ![i].own = NoAddress]
    BY <1>2 DEF MemberHearsClose
  <2> HIDE DEF i
  <2>2. view = [j \in Member |-> view[j]] /\ IsView(view[i]) /\ mylink \in [Member -> RoomLink \cup {NoLink}]
    BY <1>1 DEF RoomInv, RoomTypes
  <2>3. view'[i].own = NoAddress
    <3>1. view'[i] = [view[i] EXCEPT !.own = NoAddress]
      BY <1>1, <2>1, <2>2
    <3> QED
      BY <2>2, <3>1 DEF IsView
  <2>4. \A j \in Member : j # i => view'[j] = view[j] /\ mylink'[j] = mylink[j]
    BY <2>1, <2>2
  <2>5. ViewsTaken
    BY <2>3, <2>4 DEF ViewsTaken
  <2>6. OneLink'
    BY <1>1, <2>1, <2>2, <2>3, <2>4 DEF TablesInv, OneLink
  <2> QED
    BY <1>1, <2>5, <2>6, SameTable, TablesStep DEF TablesPosted
<1>3. CASE mylink[i] # l
  BY <1>1, <1>3, SameTable, HostTablesStep DEF MemberHearsClose, memberVars, TablesPosted
<1> QED
  BY <1>2, <1>3

LEMMA TroubleTables ==
  ASSUME RoomInv, TablesInv, (\E l \in RoomLink : Falls(l)) \/ MeshLoses \/ HostOpens
  PROVE  TablesInv'
<1>1. UNCHANGED <<epoch, roster, born, given>> /\ UNCHANGED memberVars /\ mesh' \subseteq mesh
  BY DEF Falls, MeshLoses, HostOpens, hostVars
<1> QED
  BY <1>1, SameTable, HostTablesStep DEF TablesPosted

LEMMA MemberRestartsTables ==
  ASSUME RoomInv, TablesInv, NEW i \in Member, MemberRestarts(i)
  PROVE  TablesInv'
<1>1. /\ UNCHANGED <<epoch, roster, born, given>> /\ mesh' \subseteq mesh
      /\ view' = [view EXCEPT ![i] = NewView]
      /\ mylink' = [mylink EXCEPT ![i] = NoLink] /\ coming' = [coming EXCEPT ![i] = NoLink]
  BY DEF MemberRestarts, hostVars
<1>2. /\ view'[i].own = NoAddress /\ mylink'[i] = NoLink /\ coming'[i] = NoLink
      /\ \A j \in Member : j # i => view'[j] = view[j] /\ mylink'[j] = mylink[j] /\ coming'[j] = coming[j]
  BY <1>1 DEF RoomInv, RoomTypes, NewView
<1>3. ViewsTaken /\ OneLink'
  BY <1>2 DEF ViewsTaken, TablesInv, OneLink
<1> QED
  BY <1>1, <1>3, SameTable, TablesStep DEF TablesPosted

LEMMA HostEndsTables == ASSUME RoomInv, TablesInv, HostEnds PROVE TablesInv'
<1>1. /\ epoch' = 0 /\ given' = [l \in RoomLink |-> "none"] /\ mesh' \subseteq mesh
      /\ UNCHANGED <<born, view, mylink, coming>>
  BY DEF HostEnds, memberVars
<1>2. TablesOnWay' /\ OneLink'
  BY <1>1 DEF TablesInv, TablesOnWay, OneLink
<1>3. ViewsFit'
  <2> SUFFICES ASSUME NEW i \in Member, view[i].own # NoAddress PROVE given'[mylink[i]] = "none"
    BY <1>1 DEF ViewsFit
  <2>1. mylink[i] \in RoomLink
    BY DEF TablesInv, OneLink, RoomInv, RoomTypes
  <2> QED
    BY <1>1, <2>1
<1> QED
  BY <1>1, <1>2, <1>3 DEF TablesInv

LEMMA TablesInit == LanRoomInit => TablesInv
<1> SUFFICES ASSUME LanRoomInit PROVE TablesInv
  OBVIOUS
<1>1. \A i \in Member : view[i].own = NoAddress /\ coming[i] = NoLink
  BY DEF LanRoomInit, NewView
<1> QED
  BY <1>1 DEF LanRoomInit, TablesInv, TablesOnWay, OneLink, ViewsFit

LEMMA TablesNext == RoomInv /\ TablesInv /\ [LanRoomNext]_roomVars => TablesInv'
<1> SUFFICES ASSUME RoomInv, TablesInv, [LanRoomNext]_roomVars PROVE TablesInv'
  OBVIOUS
<1>1. ASSUME NEW l \in RoomLink, HostStep(l) \/ MemberHearsClose(l) \/ Falls(l) PROVE TablesInv'
  BY <1>1, SeatsTables, HostQuietTables, HostHearsCloseTables, MemberHearsCloseTables, TroubleTables
     DEF HostStep
<1>2. ASSUME NEW i \in Member, MemberStep(i) \/ MemberRestarts(i) PROVE TablesInv'
  BY <1>2, LinksUpTables, HearsUpTables, HearsTables, MemberRestartsTables DEF MemberStep
<1>3. CASE Refreshes \/ MeshLoses \/ HostEnds \/ HostOpens
  BY <1>3, RefreshesTables, TroubleTables, HostEndsTables
<1>4. CASE UNCHANGED roomVars
  BY <1>4, SameTable, HostTablesStep DEF roomVars, hostVars, TablesPosted
<1> QED
  BY <1>1, <1>2, <1>3, <1>4 DEF LanRoomNext

\* A member that sits on the link it has holds the host's table or an older one,
\* in whatever order tables arrive, with programs that end and open again
\* (RoomView::apply, MemberTable.epoch).
THEOREM RoomTablesAgree == LanRoomSpec => []ViewMatchesEpoch
<1>1. LanRoomInit => RoomInv /\ TablesInv
  BY RoomInitInv, TablesInit
<1>2. RoomInv /\ TablesInv /\ [LanRoomNext]_roomVars => (RoomInv /\ TablesInv)'
  BY RoomStep, TablesNext
<1>3. RoomInv /\ TablesInv => ViewMatchesEpoch
  <2> SUFFICES ASSUME RoomInv, TablesInv, NEW i \in Sitting, mylink[i] = seated[i], view[i].own # NoAddress
               PROVE  view[i].epoch <= epoch /\ (view[i].epoch = epoch => view[i].members = roster)
    BY DEF ViewMatchesEpoch
  <2>1. i \in Member /\ given[seated[i]] = i
    BY DEF RoomInv, HostAgrees, Sitting
  <2>2. Fits(view[i].epoch, view[i].members)
    BY <2>1, LanRoomAssumption DEF TablesInv, ViewsFit
  <2> QED
    BY <2>2 DEF Fits
<1> QED
  BY <1>1, <1>2, <1>3, PTL DEF LanRoomSpec

(***************************************************************************)
(* The types.                                                              *)
(***************************************************************************)
\* What the types say beside RoomTypes.
RestTyped ==
  /\ rules \in [seats : 1 .. MaxSeats, barred : SUBSET Member]
  /\ up \in BOOLEAN /\ epoch \in Nat /\ refused \subseteq RoomLink
  /\ view \in [Member -> View] /\ mesh \subseteq Message /\ trouble \in 0 .. MaxTrouble

LEMMA AllTyped == RoomInv /\ RestTyped => RoomTypeOK
BY LanRoomAssumption DEF RoomInv, RoomTypes, RestTyped, RoomTypeOK, Roster, End, RoomLink

\* What is said on a link of the room is a message.
LEMMA SayingsTyped ==
  ASSUME NEW l \in RoomLink
  PROVE  /\ Hello(l) \in Message /\ MyName(l) \in Message /\ Refusal(l) \in Message
         /\ \A e \in Nat, r \in Roster : MembersTo(l, e, r) \in Message
         /\ \A n \in SUBSET Member : NamesTo(l, n) \in Message
<1>1. Hello(l) \in Message /\ MyName(l) \in Message /\ Refusal(l) \in Message
  BY DEF Hello, MyName, Refusal, Message
<1>2. \A e \in Nat, r \in Roster : MembersTo(l, e, r) \in Message
  BY DEF MembersTo, Message
<1>3. \A n \in SUBSET Member : NamesTo(l, n) \in Message
  BY DEF NamesTo, Message
<1> QED
  BY <1>1, <1>2, <1>3

LEMMA PublishedTyped ==
  ASSUME NEW s \in [Member -> RoomLink \cup {NoLink}], NEW e \in Nat, NEW r \in Roster, NEW n \in SUBSET Member
  PROVE  NamesToAll(s, n) \subseteq Message /\ ToAll(s, e, r, n) \subseteq Message
<1>1. \A i \in {j \in Member : s[j] # NoLink} : s[i] \in RoomLink
  OBVIOUS
<1>2. \A i \in {j \in Member : s[j] # NoLink} :
        NamesTo(s[i], n) \in Message /\ MembersTo(s[i], e, r) \in Message
  BY <1>1, SayingsTyped
<1> QED
  BY <1>2 DEF NamesToAll, ToAll

LEMMA PostsTyped ==
  ASSUME RestTyped, NEW done, NEW S \in SUBSET Message, Posts(done, S)
  PROVE  mesh' \subseteq Message
BY OnlyPosted DEF RestTyped

LEMMA GoesTyped ==
  ASSUME RestTyped, Goes
  PROVE  trouble' \in 0 .. MaxTrouble
BY LanRoomAssumption DEF RestTyped, Goes

\* The fields of a table and of a list of names.
LEMMA MessageFields ==
  ASSUME NEW x \in Message
  PROVE  /\ x.link \in RoomLink
         /\ x.kind = "members" => x.epoch \in Nat /\ x.members \in Roster
         /\ x.kind = "names" => x.names \in SUBSET Member
BY DEF Message

LEMMA ViewFields ==
  ASSUME NEW v \in View
  PROVE  /\ \A n \in SUBSET Member : [v EXCEPT !.names = n] \in View
         /\ [v EXCEPT !.refused = TRUE] \in View /\ [v EXCEPT !.own = NoAddress] \in View
         /\ \A a \in Address \cup {NoAddress}, e \in Nat, r \in Roster :
              [v EXCEPT !.own = a, !.epoch = e, !.members = r] \in View
BY DEF View

LEMMA NewViewTyped == NewView \in View /\ NobodySits \in Roster
BY DEF NewView, View, NobodySits, Roster

LEMMA SeatsTyped ==
  ASSUME RoomInv, RoomInv', RestTyped, NEW l \in RoomLink, Seats(l)
  PROVE  RestTyped'
<1>1. /\ roster \in Roster /\ roster' \in Roster /\ named \in SUBSET Member /\ epoch \in Nat
      /\ seated' \in [Member -> RoomLink \cup {NoLink}]
  BY DEF RoomInv, RoomTypes, RestTyped, Roster
<1>2. UNCHANGED <<rules, up, view, trouble>>
  BY DEF Seats, memberVars
<1>3. CASE UNCHANGED <<hostVars, mesh>>
  BY <1>2, <1>3 DEF RestTyped, hostVars
<1>4. ASSUME NEW i, i = ends[l].of, TakesSeat(l, i) \/ MovesSeat(l, i) \/ RefusesSeat(l, i), UNCHANGED named
      PROVE  RestTyped'
  <2>1. MembersTo(l, epoch, roster) \in Message /\ NamesTo(l, named) \in Message /\ Refusal(l) \in Message
    BY <1>1, SayingsTyped
  <2>2. CASE TakesSeat(l, i)
    <3>1. epoch' \in Nat
      BY <1>1, <2>2 DEF TakesSeat
    <3>2. ToAll(seated', epoch', roster', named) \subseteq Message
      BY <1>1, <3>1, PublishedTyped
    <3>3. mesh' \subseteq Message
      BY <2>2, <3>2, PostsTyped DEF TakesSeat
    <3> QED
      BY <1>2, <2>2, <3>1, <3>3 DEF TakesSeat, RestTyped
  <2>3. CASE MovesSeat(l, i)
    <3>1. mesh' \subseteq Message
      BY <2>1, <2>3, PostsTyped DEF MovesSeat
    <3> QED
      BY <1>2, <2>3, <3>1 DEF MovesSeat, RestTyped
  <2>4. CASE RefusesSeat(l, i)
    <3>1. mesh' \subseteq Message
      BY <2>1, <2>4, PostsTyped DEF RefusesSeat
    <3> QED
      BY <1>2, <2>4, <3>1 DEF RefusesSeat, RestTyped
  <2> QED
    BY <1>4, <2>2, <2>3, <2>4
<1> QED
  BY <1>3, <1>4 DEF Seats

LEMMA HostQuietTyped ==
  ASSUME RoomInv, RoomInv', RestTyped, NEW l \in RoomLink,
         TimesOut(l) \/ ClosesRefused(l) \/ HostHearsHello(l) \/ HostHearsName(l)
  PROVE  RestTyped'
<1>1. /\ roster \in Roster /\ named \in SUBSET Member /\ named' \in SUBSET Member /\ epoch \in Nat
      /\ seated \in [Member -> RoomLink \cup {NoLink}]
  BY DEF RoomInv, RoomTypes, RestTyped, Roster
<1>2. CASE TimesOut(l)
  BY <1>2, GoesTyped DEF TimesOut, memberVars, RestTyped
<1>3. CASE ClosesRefused(l)
  BY <1>3 DEF ClosesRefused, memberVars, RestTyped
<1>4. CASE HostHearsHello(l)
  <2>1. (IF SitsOn(l) THEN {MembersTo(l, epoch, roster), NamesTo(l, named)} ELSE {}) \in SUBSET Message
    BY <1>1, SayingsTyped
  <2>2. mesh' \subseteq Message
    BY <1>4, <2>1, PostsTyped DEF HostHearsHello
  <2> QED
    BY <1>4, <2>2 DEF HostHearsHello, hostVars, memberVars, RestTyped
<1>5. CASE HostHearsName(l)
  <2>1. NamesToAll(seated, named') \in SUBSET Message /\ {} \in SUBSET Message
    BY <1>1, PublishedTyped
  <2>2. mesh' \subseteq Message
    BY <1>5, <2>1, PostsTyped DEF HostHearsName
  <2> QED
    BY <1>5, <2>2 DEF HostHearsName, memberVars, RestTyped
<1> QED
  BY <1>2, <1>3, <1>4, <1>5

LEMMA RefreshesTyped ==
  ASSUME RoomInv, RestTyped, Refreshes
  PROVE  RestTyped'
<1>1. /\ roster \in Roster /\ named \in SUBSET Member /\ epoch \in Nat
      /\ seated \in [Member -> RoomLink \cup {NoLink}]
  BY DEF RoomInv, RoomTypes, RestTyped, Roster
<1>2. ToAll(seated, epoch, roster, named) \in SUBSET Message
  BY <1>1, PublishedTyped
<1>3. mesh' \subseteq Message
  BY <1>2, PostsTyped DEF Refreshes
<1> QED
  BY <1>3 DEF Refreshes, hostVars, memberVars, RestTyped

LEMMA HostHearsCloseTyped ==
  ASSUME RoomInv, RoomInv', RestTyped, NEW l \in RoomLink, HostHearsClose(l)
  PROVE  RestTyped'
<1>1. /\ roster' \in Roster /\ named' \in SUBSET Member /\ epoch \in Nat
      /\ seated' \in [Member -> RoomLink \cup {NoLink}]
  BY DEF RoomInv, RoomTypes, RestTyped, Roster
<1>2. UNCHANGED <<rules, up, refused, view, trouble>>
  BY DEF HostHearsClose, memberVars
<1>3. CASE UNCHANGED <<seated, roster, epoch, named, mesh>>
  BY <1>2, <1>3 DEF RestTyped
<1>4. ASSUME NEW i, Unseats(i) PROVE RestTyped'
  <2>1. epoch' \in Nat
    BY <1>1, <1>4 DEF Unseats
  <2>2. ToAll(seated', epoch', roster', named') \in SUBSET Message
    BY <1>1, <2>1, PublishedTyped
  <2>3. mesh' \subseteq Message
    BY <1>4, <2>2, PostsTyped DEF Unseats
  <2> QED
    BY <1>2, <2>1, <2>3 DEF RestTyped
<1> QED
  BY <1>3, <1>4 DEF HostHearsClose

LEMMA MemberLinksTyped ==
  ASSUME RoomInv, RestTyped, NEW l \in RoomLink, NEW i,
         LinksUp(l, i) \/ LinksUnnamed(l, i) \/ MemberHearsClose(l)
  PROVE  RestTyped'
<1>1. ends[l].of \in Member
  BY DEF RoomInv, RoomTypes, End
<1>2. CASE LinksUp(l, i)
  BY <1>2 DEF LinksUp, RestTyped
<1>3. CASE LinksUnnamed(l, i)
  BY <1>3, GoesTyped DEF LinksUnnamed, hostVars, memberVars, RestTyped
<1>4. CASE MemberHearsClose(l)
  <2>1. view' \in [Member -> View]
    <3>1. [view[ends[l].of] EXCEPT !.own = NoAddress] \in View
      BY <1>1, ViewFields DEF RestTyped
    <3> QED
      BY <1>4, <3>1 DEF MemberHearsClose, RestTyped
  <2> QED
    BY <1>4, <2>1 DEF MemberHearsClose, hostVars, RestTyped
<1> QED
  BY <1>2, <1>3, <1>4

LEMMA MemberSpeaksTyped ==
  ASSUME RoomInv, RestTyped, NEW i \in Member, HearsUp(i) \/ Retries(i)
  PROVE  RestTyped'
<1>1. mylink[i] \in RoomLink \cup {NoLink} /\ coming[i] \in RoomLink \cup {NoLink}
  BY DEF RoomInv, RoomTypes
<1>2. CASE HearsUp(i)
  <2>1. {Hello(coming[i])} \in SUBSET Message
    BY <1>1, <1>2, SayingsTyped DEF HearsUp
  <2>2. mesh' \subseteq Message
    BY <1>2, <2>1, PostsTyped DEF HearsUp
  <2> QED
    BY <1>2, <2>2 DEF HearsUp, hostVars, RestTyped
<1>3. CASE Retries(i)
  <2>1. {Hello(mylink[i])} \in SUBSET Message
    BY <1>1, <1>3, SayingsTyped DEF Retries
  <2>2. mesh' \subseteq Message
    BY <1>3, <2>1, PostsTyped DEF Retries
  <2> QED
    BY <1>3, <2>2 DEF Retries, hostVars, memberVars, RestTyped
<1> QED
  BY <1>2, <1>3

\* A member takes a message: its view is of what was said, and it answers on that link.
LEMMA ListenTyped ==
  ASSUME RestTyped, NEW i \in Member, NEW kind, NEW x, Receives(i, kind, x),
         NEW S \in SUBSET {MyName(x.link)}, Posts({x}, S), view' \in [Member -> View]
  PROVE  RestTyped'
<1>1. x \in Message
  BY DEF Receives, RestTyped
<1>2. S \in SUBSET Message
  BY <1>1, MessageFields, SayingsTyped
<1>3. mesh' \subseteq Message
  BY <1>2, PostsTyped
<1> QED
  BY <1>3 DEF Receives, hostVars, RestTyped

LEMMA DropsTyped ==
  ASSUME RestTyped, NEW i \in Member, NEW kind, NEW x, Receives(i, kind, x), Drops(i, x)
  PROVE  RestTyped'
<1>1. {} \in SUBSET {MyName(x.link)} /\ Posts({x}, {}) /\ view' \in [Member -> View]
  BY DEF Drops, RestTyped
<1> QED
  BY <1>1, ListenTyped

LEMMA MemberHearsTyped ==
  ASSUME RoomInv, RestTyped, NEW i \in Member, HearsMembers(i) \/ HearsNames(i) \/ HearsRefused(i)
  PROVE  RestTyped'
<1>1. view[i] \in View /\ view \in [Member -> View]
  BY DEF RestTyped
<1>2. ASSUME NEW x \in mesh, Receives(i, "members", x), view' = [view EXCEPT ![i] = Applied(@, x, i)],
             NEW S \in SUBSET {MyName(x.link)}, Posts({x}, S)
      PROVE  RestTyped'
  <2>1. x.epoch \in Nat /\ x.members \in Roster
    BY <1>2, MessageFields DEF Receives, RestTyped
  <2>2. x.members[i] \in Address \cup {NoAddress}
    BY <2>1 DEF Roster
  <2>3. Applied(view[i], x, i) \in View
    BY <1>1, <2>1, <2>2, ViewFields DEF Applied
  <2>4. view' \in [Member -> View]
    BY <1>1, <1>2, <2>3
  <2> QED
    BY <1>2, <2>4, ListenTyped
<1>3. ASSUME NEW x \in mesh, Receives(i, "names", x), view' = [view EXCEPT ![i].names = x.names],
             NEW S \in SUBSET {MyName(x.link)}, Posts({x}, S)
      PROVE  RestTyped'
  <2>1. x.names \in SUBSET Member
    BY <1>3, MessageFields DEF Receives, RestTyped
  <2>2. [view[i] EXCEPT !.names = x.names] \in View
    BY <1>1, <2>1, ViewFields
  <2>3. view' \in [Member -> View]
    BY <1>1, <1>3, <2>2
  <2> QED
    BY <1>3, <2>3, ListenTyped
<1>4. ASSUME NEW x \in mesh, Receives(i, "refused", x), view' = [view EXCEPT ![i].refused = TRUE], Posts({x}, {})
      PROVE  RestTyped'
  <2>1. [view[i] EXCEPT !.refused = TRUE] \in View
    BY <1>1, ViewFields
  <2>2. view' \in [Member -> View] /\ {} \in SUBSET {MyName(x.link)}
    BY <1>1, <1>4, <2>1
  <2> QED
    BY <1>4, <2>2, ListenTyped
<1>5. CASE HearsMembers(i)
  <2>1. PICK x \in mesh :
          /\ Receives(i, "members", x)
          /\ \/ Drops(i, x)
             \/ /\ view' = [view EXCEPT ![i] = Applied(@, x, i)]
                /\ Posts({x}, IF view[i].own = NoAddress /\ view'[i].own # NoAddress THEN {MyName(x.link)} ELSE {})
    BY <1>5 DEF HearsMembers
  <2> QED
    BY <2>1, <1>2, DropsTyped
<1>6. CASE HearsNames(i)
  <2>1. PICK x \in mesh :
          /\ Receives(i, "names", x)
          /\ \/ Drops(i, x)
             \/ /\ view' = [view EXCEPT ![i].names = x.names]
                /\ Posts({x}, IF view[i].own # NoAddress /\ i \notin x.names THEN {MyName(x.link)} ELSE {})
    BY <1>6 DEF HearsNames
  <2> QED
    BY <2>1, <1>3, DropsTyped
<1>7. CASE HearsRefused(i)
  BY <1>7, <1>4, DropsTyped DEF HearsRefused
<1> QED
  BY <1>5, <1>6, <1>7

LEMMA TroubleTyped ==
  ASSUME RoomInv, RestTyped, NEW l, NEW i,
         Falls(l) \/ MeshLoses \/ MemberRestarts(i) \/ HostEnds \/ HostOpens
  PROVE  RestTyped'
<1>1. CASE Falls(l)
  BY <1>1, GoesTyped DEF Falls, hostVars, memberVars, RestTyped
<1>2. CASE MeshLoses
  BY <1>2, GoesTyped DEF MeshLoses, hostVars, memberVars, RestTyped
<1>3. CASE MemberRestarts(i)
  BY <1>3, GoesTyped, NewViewTyped DEF MemberRestarts, hostVars, RestTyped
<1>4. CASE HostEnds
  BY <1>4, GoesTyped DEF HostEnds, memberVars, RestTyped
<1>5. CASE HostOpens
  BY <1>5 DEF HostOpens, hostVars, memberVars, RestTyped
<1> QED
  BY <1>1, <1>2, <1>3, <1>4, <1>5

LEMMA RestTypedInit == LanRoomInit => RestTyped
BY NewViewTyped, LanRoomAssumption DEF LanRoomInit, RestTyped

LEMMA RestTypedNext == RoomInv /\ RoomInv' /\ RestTyped /\ [LanRoomNext]_roomVars => RestTyped'
<1> SUFFICES ASSUME RoomInv, RoomInv', RestTyped, [LanRoomNext]_roomVars PROVE RestTyped'
  OBVIOUS
<1>1. CASE UNCHANGED roomVars
  BY <1>1 DEF roomVars, hostVars, memberVars, RestTyped
<1>2. ASSUME NEW l \in RoomLink, HostStep(l) PROVE RestTyped'
  BY <1>2, SeatsTyped, HostQuietTyped, HostHearsCloseTyped DEF HostStep
<1>3. ASSUME NEW i \in Member, MemberStep(i) PROVE RestTyped'
  <2>1. ASSUME NEW l \in RoomLink, LinksUp(l, i) \/ LinksUnnamed(l, i) PROVE RestTyped'
    BY <2>1, MemberLinksTyped
  <2>2. ASSUME HearsUp(i) \/ Retries(i) PROVE RestTyped'
    BY <2>2, MemberSpeaksTyped
  <2> QED
    BY <1>3, <2>1, <2>2, MemberHearsTyped DEF MemberStep
<1>4. ASSUME NEW l \in RoomLink, MemberHearsClose(l) PROVE RestTyped'
  BY <1>4, MemberLinksTyped
<1>5. ASSUME NEW l, NEW i, Falls(l) \/ MemberRestarts(i) PROVE RestTyped'
  BY <1>5, TroubleTyped
<1>6. ASSUME MeshLoses \/ HostEnds \/ HostOpens PROVE RestTyped'
  BY <1>6, TroubleTyped
<1> QED
  BY <1>1, <1>2, <1>3, <1>4, <1>5, <1>6, RefreshesTyped DEF LanRoomNext

\* Whatever is lost, reordered or restarted, what a room and its members hold is
\* what lan_session.rs and lan.rs declare, and so is every message on its way: a
\* free address is found whenever one is given.
THEOREM RoomTyped == LanRoomSpec => []RoomTypeOK
<1>1. RoomInv /\ RoomInv' /\ RestTyped /\ [LanRoomNext]_roomVars => RestTyped'
  BY RestTypedNext
<1> QED
  BY <1>1, RoomInvariant, RestTypedInit, AllTyped, PTL DEF LanRoomSpec

-----------------------------------------------------------------------------
(* Closes.  While a link is coming its close waits behind its Up, so a      *)
(* member that has a link, or is about to, has not heard it close.         *)
CloseDue == ~LateUp => \A i \in Member, l \in RoomLink : HasLink(i, l) => ends[l].member

\* No end of a member hears anything, and none gets a link.
NobodyHears ==
  /\ \A l \in RoomLink : ends'[l].member = ends[l].member
  /\ \A i \in Member, l \in RoomLink : HasLink(i, l)' => HasLink(i, l)

\* A change of a link that its member has not heard of.
LEMMA EndMember ==
  ASSUME NEW e \in End, NEW f,
         \/ f = e
         \/ f = [e EXCEPT !.said = FALSE] \/ f = [e EXCEPT !.alive = FALSE]
         \/ f = [e EXCEPT !.host = FALSE] \/ f = [e EXCEPT !.alive = FALSE, !.said = FALSE]
         \/ f = [e EXCEPT !.alive = FALSE, !.host = FALSE, !.said = FALSE]
  PROVE  f.member = e.member
BY DEF End

\* The steps of the host, and of what goes wrong on the way.
LEMMA HostHearsNobody ==
  ASSUME RoomInv,
         \/ \E l \in RoomLink : HostStep(l) \/ Falls(l)
         \/ Refreshes \/ MeshLoses \/ HostEnds \/ HostOpens
  PROVE  NobodyHears
<1>1. ends \in [RoomLink -> End]
  BY DEF RoomInv, RoomTypes
<1>2. UNCHANGED <<mylink, coming>>
  BY DEF HostStep, Falls, Refreshes, MeshLoses, HostEnds, HostOpens, Seats, TimesOut,
         ClosesRefused, HostHearsClose, HostHearsHello, HostHearsName, memberVars
<1>3. \/ ends' = ends
      \/ \E l \in RoomLink : \/ ends' = [ends EXCEPT ![l].said = FALSE]
                             \/ ends' = [ends EXCEPT ![l].alive = FALSE]
                             \/ ends' = [ends EXCEPT ![l].host = FALSE]
                             \/ ends' = [ends EXCEPT ![l].alive = FALSE, ![l].said = FALSE]
      \/ ends' = [l \in RoomLink |-> [ends[l] EXCEPT !.alive = FALSE, !.host = FALSE, !.said = FALSE]]
  BY DEF HostStep, Falls, Refreshes, MeshLoses, HostEnds, HostOpens, Seats, TimesOut,
         ClosesRefused, HostHearsClose, HostMayHear, HostHearsHello, HostHearsName
<1>4. \A l \in RoomLink : ends'[l].member = ends[l].member
  <2>2. ASSUME NEW l \in RoomLink, NEW k \in RoomLink,
               \/ ends' = [ends EXCEPT ![l].said = FALSE]
               \/ ends' = [ends EXCEPT ![l].alive = FALSE]
               \/ ends' = [ends EXCEPT ![l].host = FALSE]
               \/ ends' = [ends EXCEPT ![l].alive = FALSE, ![l].said = FALSE]
        PROVE  ends'[k].member = ends[k].member
    <3>1. ends[k] \in End /\ ends[l] \in End
      BY <1>1
    <3>2. \/ ends'[k] = ends[k]
          \/ ends'[k] = [ends[k] EXCEPT !.said = FALSE]
          \/ ends'[k] = [ends[k] EXCEPT !.alive = FALSE]
          \/ ends'[k] = [ends[k] EXCEPT !.host = FALSE]
          \/ ends'[k] = [ends[k] EXCEPT !.alive = FALSE, !.said = FALSE]
      BY <1>1, <2>2
    <3> DEFINE e == ends[k]
    <3> DEFINE f == ends'[k]
    <3>3. /\ e \in End
          /\ \/ f = e
             \/ f = [e EXCEPT !.said = FALSE] \/ f = [e EXCEPT !.alive = FALSE]
             \/ f = [e EXCEPT !.host = FALSE] \/ f = [e EXCEPT !.alive = FALSE, !.said = FALSE]
      BY <3>1, <3>2
    <3> HIDE DEF e, f
    <3>4. f.member = e.member
      BY <3>3, EndMember
    <3> QED
      BY <3>4 DEF e, f
  <2>3. CASE ends' = [l \in RoomLink |->
                        [ends[l] EXCEPT !.alive = FALSE, !.host = FALSE, !.said = FALSE]]
    BY <1>1, <2>3, EndMember
  <2> QED
    BY <1>3, <2>2, <2>3
<1> QED
  BY <1>2, <1>4 DEF NobodyHears, HasLink

\* The steps of a member but the one that gets a link.
LEMMA MemberHearsNobody ==
  ASSUME RoomInv, NEW i \in Member,
         HearsUp(i) \/ Retries(i) \/ HearsMembers(i) \/ HearsNames(i) \/ HearsRefused(i)
  PROVE  NobodyHears
<1>1. ends' = ends
  BY DEF HearsUp, Retries, HearsMembers, HearsNames, HearsRefused, Receives
<1>2. CASE HearsUp(i)
  <2>1. /\ mylink \in [Member -> RoomLink \cup {NoLink}]
        /\ coming \in [Member -> RoomLink \cup {NoLink}]
        /\ mylink' = [mylink EXCEPT ![i] = coming[i]]
        /\ coming' = [coming EXCEPT ![i] = NoLink]
    BY <1>2 DEF HearsUp, RoomInv, RoomTypes
  <2>2. \A l \in RoomLink : l # NoLink
    BY DEF RoomLink, NoLink
  <2> QED
    BY <1>1, <2>1, <2>2 DEF NobodyHears, HasLink
<1>3. CASE Retries(i) \/ HearsMembers(i) \/ HearsNames(i) \/ HearsRefused(i)
  <2>1. UNCHANGED <<mylink, coming>>
    BY <1>3 DEF Retries, HearsMembers, HearsNames, HearsRefused, Receives, memberVars
  <2> QED
    BY <1>1, <2>1 DEF NobodyHears, HasLink
<1> QED
  BY <1>2, <1>3

LEMMA CloseStep == RoomInv /\ CloseDue /\ [LanRoomNext]_roomVars => CloseDue'
<1> SUFFICES ASSUME RoomInv, CloseDue, [LanRoomNext]_roomVars, ~LateUp,
                    NEW j \in Member, NEW k \in RoomLink, HasLink(j, k)'
             PROVE  ends'[k].member
  BY DEF CloseDue
<1>1. CASE NobodyHears
  BY <1>1 DEF NobodyHears, CloseDue
<1>2. /\ ends \in [RoomLink -> End] /\ k # NoLink
      /\ mylink \in [Member -> RoomLink \cup {NoLink}] /\ coming \in [Member -> RoomLink \cup {NoLink}]
  BY DEF RoomInv, RoomTypes, RoomLink, NoLink
<1>3. ASSUME NEW l \in RoomLink, MemberHearsClose(l) PROVE ends'[k].member
  <2> DEFINE i == ends[l].of
  <2>1. /\ i \in Member /\ coming[i] # l /\ UNCHANGED coming
        /\ ends' = [ends EXCEPT ![l].member = FALSE]
        /\ IF mylink[i] = l THEN mylink' = [mylink EXCEPT ![i] = NoLink] ELSE UNCHANGED mylink
    BY <1>2, <1>3 DEF MemberHearsClose, MemberMayHear, MayHearOf, End
  <2>2. HasLink(j, k)
    BY <1>2, <2>1 DEF HasLink
  <2>3. ends[k].of = j
    BY <2>2 DEF RoomInv, HasNewest
  <2>4. k # l
    BY <1>2, <2>1, <2>3 DEF HasLink
  <2> QED
    BY <1>2, <2>1, <2>2, <2>4 DEF CloseDue
<1>4. ASSUME NEW i \in Member, MemberRestarts(i) PROVE ends'[k].member
  <2>1. /\ mylink' = [mylink EXCEPT ![i] = NoLink] /\ coming' = [coming EXCEPT ![i] = NoLink]
        /\ ends'[k] = IF ends[k].of = i THEN [ends[k] EXCEPT !.alive = FALSE, !.member = FALSE]
                      ELSE ends[k]
    BY <1>4 DEF MemberRestarts
  <2>2. HasLink(j, k) /\ j # i
    BY <1>2, <2>1 DEF HasLink
  <2>3. ends[k].of = j
    BY <2>2 DEF RoomInv, HasNewest
  <2> QED
    BY <2>1, <2>2, <2>3 DEF CloseDue
<1>5. ASSUME NEW l \in RoomLink, NEW i \in Member, LinksUp(l, i) \/ LinksUnnamed(l, i)
      PROVE  ends'[k].member
  <2>1. \E e : e.member = TRUE /\ ends' = [ends EXCEPT ![l] = e]
    <3>1. \A a, s : [of |-> i, alive |-> a, host |-> TRUE, member |-> TRUE, said |-> s].member = TRUE
      OBVIOUS
    <3> QED
      BY <1>5, <3>1 DEF LinksUp, LinksUnnamed
  <2>2. mylink' = mylink /\ (coming' = coming \/ coming' = [coming EXCEPT ![i] = l])
    BY <1>5 DEF LinksUp, LinksUnnamed, memberVars
  <2>3. CASE k = l
    BY <1>2, <2>1, <2>3
  <2>4. CASE k # l
    <3>1. HasLink(j, k) /\ ends'[k] = ends[k]
      BY <1>2, <2>1, <2>2, <2>4 DEF HasLink
    <3> QED
      BY <3>1 DEF CloseDue
  <2> QED
    BY <2>3, <2>4
<1>6. CASE UNCHANGED roomVars
  BY <1>1, <1>6 DEF roomVars, memberVars, NobodyHears, HasLink
<1> QED
  BY <1>1, <1>3, <1>4, <1>5, <1>6, HostHearsNobody, MemberHearsNobody DEF LanRoomNext, MemberStep

\* A member's dead link is found dead in the end unless its close overtook its
\* Up (lan_session.rs, MemberSide.link): nothing else loses the close.
THEOREM RoomCloseComes == LanRoomSpec => []CloseComes
<1>1. LanRoomInit => CloseDue
  BY DEF LanRoomInit, CloseDue, HasLink, NoLink, RoomLink
<1>2. CloseDue => CloseComes
  BY DEF CloseDue, CloseComes, HasLink
<1> QED
  BY <1>1, <1>2, CloseStep, RoomInvariant, PTL DEF LanRoomSpec

===============================================================================
