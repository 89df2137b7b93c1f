--------------------------- MODULE MCGreenThreads ---------------------------
(* GreenThreads for TLC: the runs give its constants their values. *)
EXTENDS GreenThreads
=============================================================================
