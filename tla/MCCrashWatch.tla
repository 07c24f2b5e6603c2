---------------------------- MODULE MCCrashWatch ----------------------------
(* CrashWatch on small sets; the .cfg files give the sets.                 *)
EXTENDS CrashWatch

=============================================================================
