---------------------------- MODULE MCController ----------------------------
(* Controller on small sets; the .cfg file gives the sets.                 *)
EXTENDS Controller

=============================================================================
