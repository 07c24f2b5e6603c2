----------------------------- MODULE MCServices -----------------------------
(***************************************************************************)
(* Parts of the index and of the game bridge, and the downloads of a node, *)
(* checked in one run.  They share no state with each other (each          *)
(* asks its nodes, its mesh engine or its Docker, which its own module     *)
(* models), so a behaviour here is one of a single part, chosen at the     *)
(* start, beside others that never move: what is explored is the sum of    *)
(* the parts, not their product.                                           *)
(***************************************************************************)
EXTENDS Relocate, Sweeps, BridgeServer, GameLink, BridgeClient, LanRoom, Installs

VARIABLE part  \* the part that moves

indexVars == <<relocateVars, sweepsVars>>
gameVars == <<bridgeVars, gameLinkVars, clientVars, roomVars>>
servicesVars == <<part, indexVars, gameVars, installsVars>>

\* A part that never moves starts in one state.  Nodes differ in nothing, so the
\* sweep's first server may be on any one of them.
SomeNode == CHOOSE n \in Node : TRUE

ServicesInit ==
  /\ part \in {"relocate", "sweeps", "bridge", "link", "client", "room", "installs"}
  /\ RelocateInit /\ ClientInit /\ InstallsInit
  /\ SweepsInit
  /\ \/ part = "sweeps" /\ srv[1].node = SomeNode
     \/ \A i \in Server : srv[i] = Absent("unmade", CHOOSE a \in Owner : TRUE, SomeNode)
  /\ GameLinkInit /\ (part = "link" \/ knows)
  /\ LanRoomInit /\ (part = "room" \/ rules.barred = {})
  /\ BridgeInit
  /\ \/ part = "bridge"
     \/ ~setup.tcp /\ ~setup.allowlist /\ \A l \in Link : peer[l].allowed

ServicesNext ==
  /\ UNCHANGED part
  /\ \/ /\ UNCHANGED <<gameVars, installsVars>>
        /\ \/ part = "relocate" /\ RelocateNext /\ UNCHANGED sweepsVars
           \/ part = "sweeps" /\ SweepsNext /\ UNCHANGED relocateVars
     \/ /\ UNCHANGED <<indexVars, installsVars>>
        /\ \/ part = "bridge" /\ BridgeNext /\ UNCHANGED <<gameLinkVars, clientVars, roomVars>>
           \/ part = "link" /\ GameLinkNext /\ UNCHANGED <<bridgeVars, clientVars, roomVars>>
           \/ part = "client" /\ ClientNext /\ UNCHANGED <<bridgeVars, gameLinkVars, roomVars>>
           \/ part = "room" /\ LanRoomNext /\ UNCHANGED <<bridgeVars, gameLinkVars, clientVars>>
     \/ part = "installs" /\ InstallsNext /\ UNCHANGED <<indexVars, gameVars>>

\* The fairness of each part (RelocateFairness, SweepsFairness, BridgeFairness,
\* InstallsFairness), asked of the part that moves.
Of(p, A) == part = p /\ A

ServicesFairness ==
  /\ \A m \in Mover : WF_relocateVars(Of("relocate", MoveStep(m)))
  /\ WF_sweepsVars(Of("sweeps", Tick)) /\ WF_sweepsVars(Of("sweeps", SweepStep))
  /\ \A n \in Node : WF_sweepsVars(Of("sweeps", Recovers(n)))
  /\ WF_bridgeVars(Of("bridge", Handler))
  /\ \A l \in Link :
       /\ WF_bridgeVars(Of("bridge", TimerFires(l))) /\ WF_bridgeVars(Of("bridge", RelayOpens(l)))
       /\ WF_bridgeVars(Of("bridge", RelayTakes(l) \/ MustEnd(l)))
       /\ WF_bridgeVars(Of("bridge", RelayCleans(l)))
       /\ WF_bridgeVars(Of("bridge", peer[l].link = "closing" /\ Closes(l)))
  /\ WF_roomVars(Of("room", Refreshes)) /\ WF_roomVars(Of("room", HostOpens))
  /\ \A l \in RoomLink :
       /\ WF_roomVars(Of("room", Seats(l))) /\ WF_roomVars(Of("room", TimesOut(l)))
       /\ WF_roomVars(Of("room", ClosesRefused(l)))
       /\ WF_roomVars(Of("room", HostHearsClose(l))) /\ WF_roomVars(Of("room", MemberHearsClose(l)))
       /\ WF_roomVars(Of("room", HostHearsHello(l))) /\ WF_roomVars(Of("room", HostHearsName(l)))
  /\ \A i \in Member :
       /\ WF_roomVars(Of("room", \E l \in RoomLink : LinksUp(l, i)))
       /\ WF_roomVars(Of("room", HearsUp(i))) /\ WF_roomVars(Of("room", Retries(i)))
       /\ WF_roomVars(Of("room", HearsMembers(i))) /\ WF_roomVars(Of("room", HearsNames(i)))
       /\ WF_roomVars(Of("room", HearsRefused(i)))
  /\ \A g \in Game :
       /\ WF_installsVars(Of("installs", DownloadStep(g)))
       /\ WF_installsVars(Of("installs", BoxExits(g)))

ServicesSpec == ServicesInit /\ [][ServicesNext]_servicesVars /\ ServicesFairness

=============================================================================
