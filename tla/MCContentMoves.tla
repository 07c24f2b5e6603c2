--------------------------- MODULE MCContentMoves ---------------------------
(* ContentMoves on small sets; the .cfg files give the sets.               *)
EXTENDS ContentMoves

=============================================================================
