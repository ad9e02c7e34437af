------------------------------- MODULE MCPlay -------------------------------
(* TLC instance of Play. *)
EXTENDS Play
=============================================================================
