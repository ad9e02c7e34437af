------------------------------ MODULE MCJQueue ------------------------------
(* TLC instances of JQueue: model values for the jobs. *)
EXTENDS JQueue

CONSTANTS j1, j2
=============================================================================
