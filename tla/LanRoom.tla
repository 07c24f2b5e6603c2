------------------------------ MODULE LanRoom ------------------------------
(***************************************************************************)
(* A LAN room (game-bridge, lan_session.rs and the member table of lan.rs):*)
(* one host seats whoever links to it and identifies, gives each an        *)
(* address, and tells everybody the table and the names; each member keeps *)
(* a link to the host and the last table it was given.                     *)
(*                                                                         *)
(* Each side is one task that handles one event at a time.  The mesh may   *)
(* lose and reorder messages, a link may fall and each end learns of it in *)
(* its own time, and either side's program may end and start again.        *)
(* External: the mesh engine, which reports what it received on a link     *)
(* before that link's close, and the identities of a member in order.      *)
(*                                                                         *)
(* Abstractions: an address is one that is free, whoever asks (the code     *)
(* derives it from the identity first); every member has one name, which   *)
(* it asks to be called; the host's own seat and name, which never change, *)
(* are left out, and so are packets and chat, which no table or seat       *)
(* depends on.                                                             *)
(***************************************************************************)
EXTENDS Naturals, FiniteSets

CONSTANTS
  Member,      \* identities other than the host's
  Address,     \* the subnet's addresses but the host's
  NoAddress,   \* of an identity that is not seated
  MaxSeats,    \* bound: seats of a room beside the host's
  MaxRoomLink, \* bound: links ever made
  MaxTrouble,  \* bound: links that fall, messages lost, programs that end
  MaxOnWay,    \* bound: messages on their way on one link; what is more is lost
  LateUp       \* whether a member's task may hear of its link before it hears it is up

ASSUME LanRoomAssumption ==
  /\ Member # {} /\ IsFiniteSet(Member) /\ NoAddress \notin Address
  /\ MaxSeats \in Nat \ {0} /\ MaxRoomLink \in Nat /\ MaxTrouble \in Nat
  /\ MaxOnWay \in Nat \ {0} /\ LateUp \in BOOLEAN
  /\ {"none", "open"} \cap Member = {}

RoomLink == 1 .. MaxRoomLink
NoLink == 0

VARIABLES
  rules,   \* how the room was opened: its seats, and who the allowlist leaves out
  up,      \* whether the host's program runs
  given,   \* Host.links: the identity each accepted link gave
  seated,  \* Host.seated
  roster,  \* MemberTable.members
  epoch,   \* MemberTable.epoch
  named,   \* Host.names
  refused, \* refused links that the host will close
  view,    \* each member's RoomView
  mylink,  \* MemberSide.link
  coming,  \* Connection::Up, sent and not yet taken
  ends,    \* each link: whose, whether it is up, and who has still to hear what
  born,    \* how many links there have been
  mesh,    \* messages on their way
  trouble  \* how much went wrong so far

hostVars == <<given, seated, roster, epoch, named, refused>>
memberVars == <<view, mylink, coming>>
roomVars == <<rules, up, hostVars, memberVars, ends, born, mesh, trouble>>

Roster == [Member -> Address \cup {NoAddress}]
View == [own : Address \cup {NoAddress}, epoch : Nat, members : Roster,
         names : SUBSET Member, refused : BOOLEAN]
Message ==
  [kind : {"hello", "name", "refused"}, link : RoomLink]
    \cup [kind : {"members"}, link : RoomLink, epoch : Nat, members : Roster]
    \cup [kind : {"names"}, link : RoomLink, names : SUBSET Member]

RoomTypeOK ==
  /\ rules \in [seats : 1 .. MaxSeats, barred : SUBSET Member]
  /\ up \in BOOLEAN
  /\ given \in [RoomLink -> {"none", "open"} \cup Member]
  /\ seated \in [Member -> RoomLink \cup {NoLink}]
  /\ roster \in Roster /\ epoch \in Nat /\ named \subseteq Member
  /\ refused \subseteq RoomLink
  /\ view \in [Member -> View]
  /\ mylink \in [Member -> RoomLink \cup {NoLink}] /\ coming \in [Member -> RoomLink \cup {NoLink}]
  /\ ends \in [RoomLink -> [of : Member, alive : BOOLEAN, host : BOOLEAN, member : BOOLEAN,
                            said : BOOLEAN]]
  /\ born \in RoomLink \cup {0} /\ mesh \subseteq Message /\ trouble \in 0 .. MaxTrouble

NobodySits == [i \in Member |-> NoAddress]
NewView == [own |-> NoAddress, epoch |-> 0, members |-> NobodySits, names |-> {}, refused |-> FALSE]

LanRoomInit ==
  /\ rules \in [seats : 1 .. MaxSeats, barred : SUBSET Member]
  /\ up = TRUE
  /\ given = [l \in RoomLink |-> "none"] /\ seated = [i \in Member |-> NoLink]
  /\ roster = NobodySits /\ epoch = 0 /\ named = {} /\ refused = {}
  /\ view = [i \in Member |-> NewView]
  /\ mylink = [i \in Member |-> NoLink] /\ coming = [i \in Member |-> NoLink]
  /\ ends \in [RoomLink -> [of : {CHOOSE i \in Member : TRUE}, alive : {FALSE}, host : {FALSE},
                            member : {FALSE}, said : {FALSE}]]
  /\ born = 0 /\ mesh = {} /\ trouble = 0

-----------------------------------------------------------------------------
(* Messages.                                                               *)

ToHost == {"hello", "name"}

Hello(l) == [kind |-> "hello", link |-> l]
MyName(l) == [kind |-> "name", link |-> l]
Refusal(l) == [kind |-> "refused", link |-> l]
MembersTo(l, e, r) == [kind |-> "members", link |-> l, epoch |-> e, members |-> r]
NamesTo(l, n) == [kind |-> "names", link |-> l, names |-> n]

OnWay(M, l) == Cardinality({x \in M : x.link = l})

\* send_message: what is sent on a link that is down, or full, is lost.  `done`
\* is what was just received.
Posts(done, S) ==
  LET kept == mesh \ done
      sent == {x \in S \ kept : ends[x.link].alive}
  IN \E T \in SUBSET sent :
       /\ \A x \in T : OnWay(kept \cup T, x.link) <= MaxOnWay
       /\ \A x \in sent \ T : OnWay(kept \cup T, x.link) = MaxOnWay
       /\ mesh' = kept \cup T

\* publish_names and publish_members.
NamesToAll(s, n) == {NamesTo(s[i], n) : i \in {j \in Member : s[j] # NoLink}}
ToAll(s, e, r, n) ==
  {MembersTo(s[i], e, r) : i \in {j \in Member : s[j] # NoLink}} \cup NamesToAll(s, n)

Goes == trouble < MaxTrouble /\ trouble' = trouble + 1

Waiting(l, kinds) == {x \in mesh : x.link = l /\ x.kind \in kinds}

-----------------------------------------------------------------------------
(* The host.                                                               *)

Taken == {roster[i] : i \in Member} \ {NoAddress}
Sitting == {i \in Member : roster[i] # NoAddress}

\* Mutant of MayNotSit: "more than the capacity" for "at the capacity".
MayNotSitOneMore(i) ==
  \/ i \in rules.barred
  \/ roster[i] = NoAddress /\ (Cardinality(Sitting) > rules.seats \/ Address \subseteq Taken)

\* The host's own identity cannot link: it is not a Member.
MayNotSit(i) ==
  \/ i \in rules.barred
  \/ roster[i] = NoAddress /\ (Cardinality(Sitting) >= rules.seats \/ Address \subseteq Taken)

FreeAddress == CHOOSE a \in Address \ Taken : TRUE

\* MemberTable::admit of one that is not seated.
TakesSeat(l, i) ==
  /\ ~MayNotSit(i) /\ roster[i] = NoAddress
  /\ roster' = [roster EXCEPT ![i] = FreeAddress]
  /\ epoch' = epoch + 1
  /\ seated' = [seated EXCEPT ![i] = l]
  /\ Posts({}, ToAll(seated', epoch', roster', named))
  /\ UNCHANGED refused

\* Mutant of MovesSeat: who is seated already stays on the link it was seated on.
MovesSeatStays(l, i) ==
  /\ ~MayNotSit(i) /\ roster[i] # NoAddress
  /\ Posts({}, {MembersTo(l, epoch, roster), NamesTo(l, named)})
  /\ UNCHANGED <<seated, roster, epoch, refused>>

\* One that comes back on another link before its old one closed.
MovesSeat(l, i) ==
  /\ ~MayNotSit(i) /\ roster[i] # NoAddress
  /\ seated' = [seated EXCEPT ![i] = l]
  /\ Posts({}, {MembersTo(l, epoch, roster), NamesTo(l, named)})
  /\ UNCHANGED <<roster, epoch, refused>>

RefusesSeat(l, i) ==
  /\ MayNotSit(i)
  /\ refused' = refused \cup {l}
  /\ Posts({}, {Refusal(l)})
  /\ UNCHANGED <<seated, roster, epoch>>

\* PeerIdentified, unless the link was closed meanwhile.
Seats(l) ==
  /\ up /\ ends[l].said
  /\ \A k \in RoomLink : k < l /\ ends[k].of = ends[l].of => ~ends[k].said
  /\ IF given[l] = "none" THEN UNCHANGED <<hostVars, mesh>>
     ELSE /\ given' = [given EXCEPT ![l] = ends[l].of]
          /\ \/ TakesSeat(l, ends[l].of) \/ MovesSeat(l, ends[l].of) \/ RefusesSeat(l, ends[l].of)
          /\ UNCHANGED named
  /\ ends' = [ends EXCEPT ![l].said = FALSE]
  /\ UNCHANGED <<rules, up, memberVars, born, trouble>>

\* IdentifyTimeout; while the identity is still on its way that is a trouble.
TimesOut(l) ==
  /\ up /\ given[l] = "open"
  /\ IF ends[l].said THEN Goes ELSE UNCHANGED trouble
  /\ given' = [given EXCEPT ![l] = "none"]
  /\ ends' = [ends EXCEPT ![l].alive = FALSE]
  /\ UNCHANGED <<rules, up, seated, roster, epoch, named, refused, memberVars, born, mesh>>

\* REFUSED_CLOSE_DELAY has passed.
ClosesRefused(l) ==
  /\ up /\ l \in refused
  /\ refused' = refused \ {l}
  /\ ends' = [ends EXCEPT ![l].alive = FALSE]
  /\ UNCHANGED <<rules, up, given, seated, roster, epoch, named, memberVars, born, mesh, trouble>>

\* The engine reports a close after all it received on the link.
HostMayHear(l) ==
  /\ up /\ ~ends[l].alive /\ ends[l].host /\ ~ends[l].said
  /\ Waiting(l, ToHost) = {}
  /\ ends' = [ends EXCEPT ![l].host = FALSE]

\* Mutant of Unseats: a removal is no new epoch.
UnseatsQuietly(i) ==
  /\ seated' = [seated EXCEPT ![i] = NoLink]
  /\ named' = named \ {i}
  /\ roster' = [roster EXCEPT ![i] = NoAddress]
  /\ Posts({}, ToAll(seated', epoch, roster', named'))
  /\ UNCHANGED epoch

Unseats(i) ==
  /\ seated' = [seated EXCEPT ![i] = NoLink]
  /\ named' = named \ {i}
  /\ roster' = [roster EXCEPT ![i] = NoAddress]
  /\ epoch' = epoch + 1
  /\ Posts({}, ToAll(seated', epoch', roster', named'))

\* Mutant of HostHearsClose: the close of any link of an identity unseats it.
HostHearsCloseOfAny(l) ==
  /\ HostMayHear(l)
  /\ given' = [given EXCEPT ![l] = "none"]
  /\ IF given[l] \in Member /\ seated[given[l]] # NoLink
     THEN Unseats(given[l]) ELSE UNCHANGED <<seated, roster, epoch, named, mesh>>
  /\ UNCHANGED <<rules, up, refused, memberVars, born, trouble>>

\* LinkClosed.  It unseats the identity only if this is where it is seated.
HostHearsClose(l) ==
  /\ HostMayHear(l)
  /\ given' = [given EXCEPT ![l] = "none"]
  /\ IF given[l] \in Member /\ seated[given[l]] = l
     THEN Unseats(given[l]) ELSE UNCHANGED <<seated, roster, epoch, named, mesh>>
  /\ UNCHANGED <<rules, up, refused, memberVars, born, trouble>>

\* LinkData is taken only from the link its identity is seated on.
SitsOn(l) == given[l] \in Member /\ seated[given[l]] = l

HostHearsHello(l) ==
  /\ up /\ Hello(l) \in mesh
  /\ Posts({Hello(l)}, IF SitsOn(l) THEN {MembersTo(l, epoch, roster), NamesTo(l, named)} ELSE {})
  /\ UNCHANGED <<rules, up, hostVars, memberVars, ends, born, trouble>>

HostHearsName(l) ==
  /\ up /\ MyName(l) \in mesh
  /\ IF SitsOn(l) /\ given[l] \notin named
     THEN named' = named \cup {given[l]} /\ Posts({MyName(l)}, NamesToAll(seated, named'))
     ELSE UNCHANGED named /\ Posts({MyName(l)}, {})
  /\ UNCHANGED <<rules, up, given, seated, roster, epoch, refused, memberVars, ends, born, trouble>>

\* MEMBERS_REFRESH: what repairs a table that was lost.
Refreshes ==
  /\ up /\ Posts({}, ToAll(seated, epoch, roster, named))
  /\ UNCHANGED <<rules, up, hostVars, memberVars, ends, born, trouble>>

-----------------------------------------------------------------------------
(* A member.                                                               *)

NewLink(l, i) ==
  /\ up /\ mylink[i] = NoLink /\ coming[i] = NoLink /\ ~view[i].refused
  /\ l = born + 1 /\ born' = l

\* "Link to the room whenever there is a room to link to and no link."  The
\* link is up and the identity said; an attempt that fails changes nothing.
LinksUp(l, i) ==
  /\ NewLink(l, i)
  /\ coming' = [coming EXCEPT ![i] = l]
  /\ given' = [given EXCEPT ![l] = "open"]
  /\ ends' = [ends EXCEPT ![l] = [of |-> i, alive |-> TRUE, host |-> TRUE, member |-> TRUE, said |-> TRUE]]
  /\ UNCHANGED <<rules, up, seated, roster, epoch, named, refused, view, mylink, mesh, trouble>>

\* identify failed: the member closes the link it made.
LinksUnnamed(l, i) ==
  /\ NewLink(l, i)
  /\ Goes
  /\ given' = [given EXCEPT ![l] = "open"]
  /\ ends' = [ends EXCEPT ![l] = [of |-> i, alive |-> FALSE, host |-> TRUE, member |-> TRUE, said |-> FALSE]]
  /\ UNCHANGED <<rules, up, seated, roster, epoch, named, refused, memberVars, mesh>>

\* The loop takes Connection::Up.
HearsUp(i) ==
  /\ coming[i] # NoLink
  /\ mylink' = [mylink EXCEPT ![i] = coming[i]]
  /\ coming' = [coming EXCEPT ![i] = NoLink]
  /\ Posts({}, {Hello(coming[i])})
  /\ UNCHANGED <<rules, up, hostVars, view, ends, born, trouble>>

\* HELLO_RETRY.
Retries(i) ==
  /\ mylink[i] # NoLink /\ view[i].own = NoAddress
  /\ Posts({}, {Hello(mylink[i])})
  /\ UNCHANGED <<rules, up, hostVars, memberVars, ends, born, trouble>>

\* RoomView::apply: an older table that arrives late is ignored.
Applied(v, x, i) ==
  IF v.own = NoAddress \/ x.epoch >= v.epoch
  THEN [v EXCEPT !.own = x.members[i], !.epoch = x.epoch, !.members = x.members] ELSE v

\* What the connector and the engine report are two queues, and the loop may
\* take from either first.
MayHearOf(l) == LateUp \/ coming[ends[l].of] # l

\* A message on the member's own link; one on another is dropped.
Receives(i, kind, x) ==
  /\ x \in mesh /\ x.kind = kind /\ ends[x.link].of = i /\ MayHearOf(x.link)
  /\ UNCHANGED <<rules, up, hostVars, mylink, coming, ends, born, trouble>>

Drops(i, x) == mylink[i] # x.link /\ Posts({x}, {}) /\ UNCHANGED view

HearsMembers(i) ==
  \E x \in mesh :
    /\ Receives(i, "members", x)
    /\ \/ Drops(i, x)
       \/ /\ mylink[i] = x.link
          /\ view' = [view EXCEPT ![i] = Applied(@, x, i)]
          /\ Posts({x}, IF view[i].own = NoAddress /\ view'[i].own # NoAddress
                        THEN {MyName(x.link)} ELSE {})

\* A name the host does not have is said again: "the host's table is the receipt".
HearsNames(i) ==
  \E x \in mesh :
    /\ Receives(i, "names", x)
    /\ \/ Drops(i, x)
       \/ /\ mylink[i] = x.link
          /\ view' = [view EXCEPT ![i].names = x.names]
          /\ Posts({x}, IF view[i].own # NoAddress /\ i \notin x.names THEN {MyName(x.link)} ELSE {})

HearsRefused(i) ==
  \E x \in mesh :
    /\ Receives(i, "refused", x)
    /\ \/ Drops(i, x)
       \/ mylink[i] = x.link /\ view' = [view EXCEPT ![i].refused = TRUE] /\ Posts({x}, {})

\* Mutant of MemberMayHear: a close is heard before the Up of its link.
MemberMayHearFirst(l) ==
  /\ ~ends[l].alive /\ ends[l].member
  /\ Waiting(l, {"members", "names", "refused"}) = {}
  /\ ends' = [ends EXCEPT ![l].member = FALSE]

MemberMayHear(l) ==
  /\ ~ends[l].alive /\ ends[l].member
  /\ Waiting(l, {"members", "names", "refused"}) = {}
  /\ MayHearOf(l)
  /\ ends' = [ends EXCEPT ![l].member = FALSE]

\* LinkClosed of the member's own link; that of another is dropped.
MemberHearsClose(l) ==
  /\ MemberMayHear(l)
  /\ LET i == ends[l].of IN
     IF mylink[i] = l
     THEN mylink' = [mylink EXCEPT ![i] = NoLink] /\ view' = [view EXCEPT ![i].own = NoAddress]
     ELSE UNCHANGED <<mylink, view>>
  /\ UNCHANGED <<rules, up, hostVars, coming, born, mesh, trouble>>

-----------------------------------------------------------------------------
(* What goes wrong.                                                        *)

\* A link falls, with what was on its way or after it arrived.
Falls(l) ==
  /\ Goes /\ ends[l].alive
  /\ \/ ends' = [ends EXCEPT ![l].alive = FALSE] /\ UNCHANGED mesh
     \/ ends' = [ends EXCEPT ![l].alive = FALSE, ![l].said = FALSE] /\ mesh' = {x \in mesh : x.link # l}
  /\ UNCHANGED <<rules, up, hostVars, memberVars, born>>

MeshLoses ==
  /\ Goes
  /\ \/ \E x \in mesh : mesh' = mesh \ {x} /\ UNCHANGED ends
     \/ \E l \in RoomLink : ends[l].said /\ ends' = [ends EXCEPT ![l].said = FALSE] /\ UNCHANGED mesh
  /\ UNCHANGED <<rules, up, hostVars, memberVars, born>>

\* A member leaves and joins again with a new session.
MemberRestarts(i) ==
  /\ Goes
  /\ view' = [view EXCEPT ![i] = NewView]
  /\ mylink' = [mylink EXCEPT ![i] = NoLink] /\ coming' = [coming EXCEPT ![i] = NoLink]
  /\ ends' = [l \in RoomLink |->
                IF ends[l].of = i THEN [ends[l] EXCEPT !.alive = FALSE, !.member = FALSE] ELSE ends[l]]
  /\ mesh' = {x \in mesh : x.kind \in ToHost \/ ends[x.link].of # i}
  /\ UNCHANGED <<rules, up, hostVars, born>>

\* The host closes the room, or its program ends: the table is forgotten.
HostEnds ==
  /\ Goes /\ up /\ up' = FALSE
  /\ given' = [l \in RoomLink |-> "none"] /\ seated' = [i \in Member |-> NoLink]
  /\ roster' = NobodySits /\ epoch' = 0 /\ named' = {} /\ refused' = {}
  /\ ends' = [l \in RoomLink |-> [ends[l] EXCEPT !.alive = FALSE, !.host = FALSE, !.said = FALSE]]
  /\ mesh' = {x \in mesh : x.kind \notin ToHost}
  /\ UNCHANGED <<rules, memberVars, born>>

HostOpens ==
  /\ ~up /\ up' = TRUE
  /\ UNCHANGED <<rules, hostVars, memberVars, ends, born, mesh, trouble>>

-----------------------------------------------------------------------------

HostStep(l) ==
  \/ Seats(l) \/ TimesOut(l) \/ ClosesRefused(l) \/ HostHearsClose(l)
  \/ HostHearsHello(l) \/ HostHearsName(l)

MemberStep(i) ==
  \/ \E l \in RoomLink : LinksUp(l, i) \/ LinksUnnamed(l, i)
  \/ HearsUp(i) \/ Retries(i)
  \/ HearsMembers(i) \/ HearsNames(i) \/ HearsRefused(i)

LanRoomNext ==
  \/ \E l \in RoomLink : HostStep(l) \/ MemberHearsClose(l) \/ Falls(l)
  \/ \E i \in Member : MemberStep(i) \/ MemberRestarts(i)
  \/ Refreshes \/ MeshLoses \/ HostEnds \/ HostOpens

LanRoomSpec == LanRoomInit /\ [][LanRoomNext]_roomVars

\* Tasks run, timers tick, what the mesh does not lose arrives, an end hears
\* of a link that is down, a member can link to a room that is open, and a
\* room that ended opens again.
LanRoomFairness ==
  /\ WF_roomVars(Refreshes) /\ WF_roomVars(HostOpens)
  /\ \A l \in RoomLink :
       /\ WF_roomVars(Seats(l)) /\ WF_roomVars(TimesOut(l)) /\ WF_roomVars(ClosesRefused(l))
       /\ WF_roomVars(HostHearsClose(l)) /\ WF_roomVars(MemberHearsClose(l))
       /\ WF_roomVars(HostHearsHello(l)) /\ WF_roomVars(HostHearsName(l))
  /\ \A i \in Member :
       /\ WF_roomVars(\E l \in RoomLink : LinksUp(l, i))
       /\ WF_roomVars(HearsUp(i)) /\ WF_roomVars(Retries(i))
       /\ WF_roomVars(HearsMembers(i)) /\ WF_roomVars(HearsNames(i)) /\ WF_roomVars(HearsRefused(i))

LanRoomFairSpec == LanRoomSpec /\ LanRoomFairness

-----------------------------------------------------------------------------
(* What has to hold.                                                       *)

\* The host's four records of who is in the room agree: who has an address has
\* a link of its own that gave its identity, no address is two members', no
\* more sit than there are seats, nobody barred does, only who sits is named,
\* and one that was refused and so stopped trying keeps no seat from others.
SeatsAgree ==
  /\ \A i \in Member : seated[i] # NoLink <=> roster[i] # NoAddress
  /\ \A i \in Sitting : given[seated[i]] = i /\ i \notin rules.barred
  /\ \A i, j \in Sitting : roster[i] = roster[j] => i = j
  /\ Cardinality(Sitting) <= rules.seats
  /\ named \subseteq Sitting
  /\ \A i \in Member : view[i].refused => roster[i] = NoAddress

\* A member that came back on a new link sits there: no late close, message
\* or timeout of an older link moves or takes its seat (lan_session.rs,
\* Host.seated).
NewestLinkSeated ==
  \A l \in RoomLink :
    /\ given[l] \in Sitting
    /\ \A k \in RoomLink : k > l => given[k] # given[l]
    => seated[given[l]] = l

\* A member's table is the host's, or older: at the host's epoch they are one,
\* whatever order tables arrive in.
ViewMatchesEpoch ==
  \A i \in Sitting :
    (mylink[i] = seated[i] /\ view[i].own # NoAddress) =>
      /\ view[i].epoch <= epoch
      /\ view[i].epoch = epoch => view[i].members = roster

\* The close of the link a member has is still to be heard, so a dead link does
\* not stay `self.link` for good: of everything that may be lost or late, only a
\* close taken before the Up of its link (LateUp) can leave a member on one.
CloseComes ==
  ~LateUp => \A i \in Member, l \in RoomLink : mylink[i] = l => ends[l].member

\* A member whose link to the room went down gives it up, and so links again
\* (lan_session.rs: "Link to the room whenever there is a room to link to and
\* no link").
DeadLinkGivenUp ==
  \A i \in Member, l \in RoomLink : (mylink[i] = l /\ ~ends[l].alive) ~> mylink[i] # l

\* Once a room has been linked to and nothing goes wrong any more, every member
\* is refused, or sits and has the host's table, and its name is known: whatever
\* was lost is repaired (MEMBERS_REFRESH, HELLO_RETRY), and who fell out links
\* again.
Settled(i) ==
  \/ view[i].refused
  \/ /\ mylink[i] # NoLink /\ seated[i] = mylink[i]
     /\ view[i].own = roster[i] /\ view[i].members = roster
     /\ i \in named /\ view[i].names = named

RoomSettles == \A i \in Member : <>(born > 0) => <>[]Settled(i)

=============================================================================
