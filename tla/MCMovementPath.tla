--------------------------- MODULE MCMovementPath ---------------------------
(* Instances of MovementPath for TLC: the constants are given in the .cfg. *)
EXTENDS MovementPath
=============================================================================
