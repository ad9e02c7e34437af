---------------------------- MODULE MCDelivery -----------------------------
(* TLC instance of Delivery: the address of c1 may be ignored; the game of *)
(* c2 may make a record too large for handle_recv(), or one that           *)
(* transact() turns down.                                                  *)
EXTENDS Delivery, TLC

CONSTANTS c1, c2, good, large, poor

Clients == {c1, c2}
Ignore  == {c1}
Plays   == c1 :> {good} @@ c2 :> {large, poor}
Larges  == {[by |-> c2, game |-> large]}
Poors   == {[by |-> c2, game |-> poor]}
=============================================================================
