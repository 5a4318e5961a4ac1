------------------------------- MODULE MCKey -------------------------------
(* Instances of Key for TLC.                                                *)
EXTENDS Key, TLC

Symmetry == Permutations(Objects) \cup Permutations(SshKeys) \cup Permutations(ServerKeys)
=============================================================================
