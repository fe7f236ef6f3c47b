--------------------------- MODULE MCSessionTurns ---------------------------
(* Instances of SessionTurns for TLC. *)
EXTENDS SessionTurns, TLC

(* The client's inputs are interchangeable; used where no liveness property is
   checked. *)
ItemSymmetry == Permutations(Inputs)
=============================================================================
