---------------------------- MODULE MCNodeAgent ----------------------------
(* NodeAgent on small sets; the .cfg files give the sets.                  *)
EXTENDS NodeAgent

=============================================================================
