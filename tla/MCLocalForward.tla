--------------------------- MODULE MCLocalForward ---------------------------
(* Instances of LocalForward for TLC.                                       *)
EXTENDS LocalForward
=============================================================================
