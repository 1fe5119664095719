--------------------------- MODULE MCRecvReorder ---------------------------
(* RecvReorder for TLC: the constants are numbers, given in the .cfg.      *)
EXTENDS RecvReorder
=============================================================================
