------------------------------- MODULE MCNode -------------------------------
(***************************************************************************)
(* The servers of a node's agent, and its page's requests to the index the *)
(* node is placed with, checked in one run.  They share no state, so a     *)
(* behaviour here is one of a single part (as in MCServices).              *)
(***************************************************************************)
EXTENDS NodeAgent, Controller, TLC

VARIABLE part  \* the part that moves

nodePartsVars == <<part, vars, controllerVars>>

NodeInit == part \in {"servers", "page"} /\ Init /\ ControllerInit

NodeNext ==
  /\ UNCHANGED part
  /\ \/ part = "servers" /\ Next /\ UNCHANGED controllerVars
     \/ part = "page" /\ ControllerNext /\ UNCHANGED vars

NodeSpec == NodeInit /\ [][NodeNext]_nodePartsVars

\* Servers are interchangeable; the page's part does not name them.
NodeSymmetry == Permutations(Instance)

=============================================================================
