-------------------------- MODULE MCExecuteCommand --------------------------
(* Instances of ExecuteCommand for TLC.                                     *)
EXTENDS ExecuteCommand

MCStream == {Stdout, Stderr}
=============================================================================
