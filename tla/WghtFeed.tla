------------------------------ MODULE WghtFeed ------------------------------
(***************************************************************************)
(* What the distribution of networks promises: a client keeps and plays    *)
(* with networks that were published, each newer than the one before, and  *)
(* only with complete ones.                                                *)
(***************************************************************************)
EXTENDS Integers

CONSTANT MaxNet           \* bound: networks 0 .. MaxNet

Network == 0 .. MaxNet
None    == -1

VARIABLES published,      \* networks published so far
          held,           \* the newest complete one the client has stored
          used            \* the one it plays with, None if it is not running

vars == <<published, held, used>>

Init == published = {} /\ held = None /\ used = None

Publish(n) ==
  /\ \A p \in published : p < n
  /\ published' = published \cup {n}
  /\ UNCHANGED <<held, used>>

Fetch(n) ==
  /\ n \in published /\ held < n
  /\ held' = n
  /\ UNCHANGED <<published, used>>

Use == held # None /\ used' = held /\ UNCHANGED <<published, held>>

Stop == used' = None /\ UNCHANGED <<published, held>>

Next == (\E n \in Network : Publish(n) \/ Fetch(n)) \/ Use \/ Stop

Spec == Init /\ [][Next]_vars
=============================================================================
