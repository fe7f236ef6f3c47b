-------------------------- MODULE MCRemoteControl --------------------------
(* The instances of RemoteControl that TLC checks.                          *)
EXTENDS RemoteControl

Symmetry == Permutations(Stream)
=============================================================================
