------------------------------ MODULE NodeTable ------------------------------
(***************************************************************************)
(* What the search relies on in its hash table: as long as a search lasts, *)
(* a position has one record of its own, the same for every thread, and    *)
(* one thread at a time is in it.  Between searches they may be given up.  *)
(***************************************************************************)
CONSTANTS Thread, Key, Record, None

VARIABLES record,   \* the record a position has got in this search
          owner     \* the thread that is in it

Init == record = [k \in Key |-> None] /\ owner = [k \in Key |-> None]

\* A position's first visitor gives it a record, an old one or a new one.
Enter(t, k) ==
  /\ owner[k] = None
  /\ owner' = [owner EXCEPT ![k] = t]
  /\ \E r \in Record :
       /\ record[k] \in {None, r}
       /\ \A j \in Key \ {k} : record[j] # r
       /\ record' = [record EXCEPT ![k] = r]

Leave(t, k) ==
  /\ owner[k] = t
  /\ owner' = [owner EXCEPT ![k] = None]
  /\ UNCHANGED record

NewSearch ==
  /\ \A k \in Key : owner[k] = None
  /\ record' = [k \in Key |-> None]
  /\ UNCHANGED owner

Next == \/ \E t \in Thread, k \in Key : Enter(t, k) \/ Leave(t, k)
        \/ NewSearch

Spec == Init /\ [][Next]_<<record, owner>>
=============================================================================
