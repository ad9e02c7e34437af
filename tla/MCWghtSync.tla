---------------------------- MODULE MCWghtSync -----------------------------
(* TLC instance of WghtSync: a network may have fewer blocks than the one   *)
(* before it.                                                               *)
EXTENDS WghtSync, TLC

Blocks == 0 :> 2 @@ 1 :> 3 @@ 2 :> 2
=============================================================================
