------------------------------- MODULE RecLog -------------------------------
(***************************************************************************)
(* What the record keeper of the server promises, seen from outside: a     *)
(* numbered log of game records that only ever grows at its end.  Numbers  *)
(* start at 0, have no gaps and are never given twice; a record, once in   *)
(* the log, stays there with the game it was stored with - whatever        *)
(* crashes, restarts and archiving happen underneath.                      *)
(***************************************************************************)
EXTENDS Integers, FiniteSetsExt

CONSTANT Game                     \* the games self-play clients may send

Record == [no : Nat, game : Game]

VARIABLE log                      \* the set of records kept so far

-----------------------------------------------------------------------------

Nos(S) == {r.no : r \in S}

(* The number the next record receives. *)
NextNo(S) == IF S = {} THEN 0 ELSE Max(S) + 1

Init == log = {}

Accept(g) == log' = log \cup {[no |-> NextNo(Nos(log)), game |-> g]}

Next == \E g \in Game : Accept(g)

Spec == Init /\ [][Next]_log
=============================================================================
