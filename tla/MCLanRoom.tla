----------------------------- MODULE MCLanRoom -----------------------------
(* LanRoom on small sets; the .cfg file gives them.                        *)
EXTENDS LanRoom

=============================================================================
