--------------------------- MODULE MCNNetService ---------------------------
(* NNetService for TLC: the engines and positions of the configurations are *)
(* model values.                                                            *)
EXTENDS NNetService
=============================================================================
