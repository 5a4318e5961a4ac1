---------------------------- MODULE MCScpUpload ----------------------------
(* Instances of ScpUpload for TLC.                                          *)
EXTENDS ScpUpload
=============================================================================
