------------------------------ MODULE PortPool ------------------------------
(***************************************************************************)
(* What a port allocator promises whoever asks for one port for each of a  *)
(* game's channels: all of them, each nobody else's, or none and nothing   *)
(* changed; and that ports come back one by one.                           *)
(***************************************************************************)
EXTENDS Naturals

CONSTANT AllPorts     \* every port that can be in use

VARIABLES
  used,     \* ports in use
  asked     \* how many the request being answered asks for

pool == <<used, asked>>

Init == used \in SUBSET AllPorts /\ asked = 0

Ask == asked = 0 /\ asked' \in Nat /\ UNCHANGED used

\* A port of its own for each channel.
Grant ==
  /\ \E f \in [1..asked -> AllPorts \ used] :
       /\ \A j, k \in 1..asked : f[j] = f[k] => j = k
       /\ used' = used \cup {f[k] : k \in 1..asked}
  /\ asked' = 0

Refusal == asked' = 0 /\ UNCHANGED used

Give == asked = 0 /\ UNCHANGED asked /\ \E p \in used : used' = used \ {p}

Spec == Init /\ [][Ask \/ Grant \/ Refusal \/ Give]_pool

=============================================================================
