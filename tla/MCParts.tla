------------------------------ MODULE MCParts ------------------------------
(***************************************************************************)
(* The crash watch and the port allocator of a node's agent, the index's   *)
(* requests, and a LAN room, checked in one run.  They share no state, so  *)
(* a behaviour here is one of a single part, chosen at the start, beside   *)
(* others that never move (as in MCServices).                              *)
(***************************************************************************)
EXTENDS CrashWatch, PortAllocator, LanRoom, Hosting

VARIABLE part  \* the part that moves

partsVars == <<part, vars, portsVars, roomVars, hostingVars>>

\* Every variable of every part has its type.
PartsTypeOK == TypeOK /\ PortsTypeOK /\ RoomTypeOK /\ HostingTypeOK

\* A part that never moves starts in one state.  A room seats one or two, or
\* two and bars one member, whichever.
PartsInit ==
  /\ part \in {"watch", "ports", "room", "hosting"}
  /\ Init /\ HostingInit
  /\ PortsInit /\ (part = "ports" \/ held = {})
  /\ LanRoomInit
  /\ \/ part = "room" /\ rules.barred = {}
     \/ rules.seats = MaxSeats /\ rules.barred = {CHOOSE i \in Member : TRUE}

PartsNext ==
  /\ UNCHANGED part
  /\ \/ part = "watch" /\ Next /\ UNCHANGED <<portsVars, roomVars, hostingVars>>
     \/ part = "ports" /\ PortsNext /\ UNCHANGED <<vars, roomVars, hostingVars>>
     \/ part = "room" /\ LanRoomNext /\ UNCHANGED <<vars, portsVars, hostingVars>>
     \/ part = "hosting" /\ HostingNext /\ UNCHANGED <<vars, portsVars, roomVars>>

\* The fairness of the crash watch (FairSpec), asked when it is the part that moves.
PartsSpec ==
  /\ PartsInit /\ [][PartsNext]_partsVars
  /\ WF_vars(part = "watch" /\ WatchStep) /\ WF_vars(part = "watch" /\ RestartStep(Watch))

=============================================================================
