--------------------------- MODULE MCRolloutStore ---------------------------
(* The instances of RolloutStore that TLC checks: processes and items are   *)
(* interchangeable.                                                         *)
EXTENDS RolloutStore, TLC

Symmetry == Permutations(Process) \cup Permutations(Item)
=============================================================================
