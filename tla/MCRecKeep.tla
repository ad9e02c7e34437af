----------------------------- MODULE MCRecKeep ------------------------------
(* TLC instances of RecKeep: model values for the games. *)
EXTENDS RecKeep

CONSTANTS g1, g2, g3
=============================================================================
