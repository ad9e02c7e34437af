------------------------------- MODULE PosHash -------------------------------
(***************************************************************************)
(* The hash table of the search (src/usi-engine/bona/ysszero.cpp): an      *)
(* entry is found by probing, each entry under its own lock, while other   *)
(* threads make entries.  A position that is not there gets the first      *)
(* unused entry seen on the way, if it is still unused when its lock is    *)
(* taken.  The scan gives up after TRY_MAX probes once it has seen one:    *)
(* entries beyond it count as absent, so hash_half_del(), which makes      *)
(* holes, may leave a position with an entry that is not found any more.   *)
(***************************************************************************)
EXTENDS Integers, FiniteSets

CONSTANTS Thread, None,
          Key,       \* positions: sequence_hash and hash64pos
          Slot,      \* hash_shogi_table
          Rehash,    \* REHASH_SHOGI: the last probe
          TryMax,    \* TRY_MAX
          Probe,     \* the slots of a position, in the order of the probes
          Visits     \* bound: visits of entries by a thread in one search

ASSUME TableAssumption ==
  /\ None \notin Key \cup Slot \cup Thread /\ IsFiniteSet(Slot)
  /\ Rehash \in Nat /\ TryMax \in Nat /\ TryMax <= Rehash /\ Visits \in Nat
  /\ Probe \in [Key -> [0..Rehash -> Slot]]
  \* inti_rehash(): a permutation without 0
  /\ \A k \in Key : \A i, j \in 0..Rehash : Probe[k][i] = Probe[k][j] => i = j

VARIABLES
  live,    \* the position of an entry, None if it is deleted
  lock,    \* entry_lock
  use,     \* hash_shogi_use
  pc,      \* where a thread is
  key,     \* the position it looks up
  i,       \* loop
  first,   \* pt_first
  at,      \* the entry it has got
  left,    \* (bound) the visits it still makes
  record   \* (history) the entry a position was given in this search

vars == <<live, lock, use, pc, key, i, first, at, left, record>>

TypeOK ==
  /\ live \in [Slot -> Key \cup {None}] /\ lock \in [Slot -> Thread \cup {None}]
  /\ use \in Nat
  /\ pc \in [Thread -> {"idle", "scan", "take", "held", "full"}]
  /\ key \in [Thread -> Key \cup {None}] /\ i \in [Thread -> 0..Rehash]
  /\ first \in [Thread -> Slot \cup {None}]
  /\ at \in [Thread -> Slot \cup {None}]
  /\ left \in [Thread -> 0..Visits] /\ record \in [Key -> Slot \cup {None}]

\* hash_shogi_table_clear()
Init ==
  /\ live = [s \in Slot |-> None] /\ lock = [s \in Slot |-> None] /\ use = 0
  /\ pc = [t \in Thread |-> "idle"] /\ key = [t \in Thread |-> None]
  /\ i = [t \in Thread |-> 0]
  /\ first = [t \in Thread |-> None] /\ at = [t \in Thread |-> None]
  /\ left = [t \in Thread |-> Visits] /\ record = [k \in Key |-> None]

-----------------------------------------------------------------------------
(* HashShogiReadLock *)

Lookup(t, k) ==
  /\ pc[t] = "idle" /\ left[t] > 0
  /\ left' = [left EXCEPT ![t] = @ - 1]
  /\ key' = [key EXCEPT ![t] = k]
  /\ pc' = [pc EXCEPT ![t] = "scan"]
  /\ UNCHANGED <<live, lock, use, i, first, at, record>>

\* The entry is locked for the caller; one that is in use is taken as that
\* of the caller's position.
Got(t, s) ==
  /\ record' = IF live[s] = None THEN record ELSE [record EXCEPT ![key[t]] = s]
  /\ lock' = [lock EXCEPT ![s] = t]
  /\ at' = [at EXCEPT ![t] = s]
  /\ pc' = [pc EXCEPT ![t] = "held"]
  /\ i' = [i EXCEPT ![t] = 0]
  /\ first' = [first EXCEPT ![t] = None]

\* The scan ends at the last probe, or where it need not go on.
ScanEnds(n, seen) == n = Rehash \/ (n >= TryMax /\ seen # None)

\* One probe, under the lock of the entry.
Scan(t) ==
  LET s == Probe[key[t]][i[t]]
      seen == IF live[s] = None /\ first[t] = None THEN s ELSE first[t]
  IN  /\ pc[t] = "scan" /\ lock[s] = None
      /\ IF live[s] = key[t]
         THEN Got(t, s)
         ELSE /\ first' = [first EXCEPT ![t] = seen]
              /\ IF ScanEnds(i[t], seen)
                 THEN /\ pc' = [pc EXCEPT ![t] = IF seen = None THEN "full"
                                                 ELSE "take"]
                      /\ UNCHANGED i
                 ELSE i' = [i EXCEPT ![t] = @ + 1] /\ UNCHANGED pc
              /\ UNCHANGED <<lock, at, record>>
      /\ UNCHANGED <<live, use, key, left>>

\* The unused entry is taken, unless another thread has used it meanwhile:
\* then the scan starts again.
StillFree_Trusted(s) == TRUE                                   \* a mutant
StillFree(s) == live[s] = None

Restart_KeepsFirst(t) ==                          \* a mutant: pt_first stays
  /\ i' = [i EXCEPT ![t] = 0]
  /\ pc' = [pc EXCEPT ![t] = "scan"]
  /\ UNCHANGED first
Restart(t) ==
  /\ i' = [i EXCEPT ![t] = 0]
  /\ first' = [first EXCEPT ![t] = None]
  /\ pc' = [pc EXCEPT ![t] = "scan"]

Take(t) ==
  /\ pc[t] = "take" /\ lock[first[t]] = None
  /\ IF StillFree(first[t])
     THEN Got(t, first[t])
     ELSE Restart(t) /\ UNCHANGED <<lock, at, record>>
  /\ UNCHANGED <<live, use, key, left>>

-----------------------------------------------------------------------------
(* The callers *)

\* create_node() in an unused entry, before its lock is released.
Create(t) ==
  /\ pc[t] = "held" /\ live[at[t]] = None
  /\ live' = [live EXCEPT ![at[t]] = key[t]]
  /\ use' = use + 1
  /\ record' = [record EXCEPT ![key[t]] = at[t]]
  /\ UNCHANGED <<lock, pc, key, i, first, at, left>>

\* Those that only look (prt_pv_from_hash(), isKLDGainSmall()) leave an
\* unused entry as it is.
Release(t) ==
  /\ pc[t] = "held"
  /\ lock' = [lock EXCEPT ![at[t]] = None]
  /\ pc' = [pc EXCEPT ![t] = "idle"]
  /\ key' = [key EXCEPT ![t] = None]
  /\ at' = [at EXCEPT ![t] = None]
  /\ UNCHANGED <<live, use, i, first, left, record>>

\* uct_tree() locks an entry it has had again, without a lookup, when it
\* comes back to it from a child.
LockAgain(t, k) ==
  /\ pc[t] = "idle" /\ left[t] > 0
  /\ record[k] # None /\ lock[record[k]] = None
  /\ left' = [left EXCEPT ![t] = @ - 1]
  /\ key' = [key EXCEPT ![t] = k]
  /\ lock' = [lock EXCEPT ![record[k]] = t]
  /\ at' = [at EXCEPT ![t] = record[k]]
  /\ pc' = [pc EXCEPT ![t] = "held"]
  /\ UNCHANGED <<live, use, i, first, record>>

\* uct_search_start(), when no thread searches: hash_half_del() counts the
\* entries and deletes old ones (which are old is left open) until the table
\* is less than half full.
NewSearch ==
  /\ \A t \in Thread : pc[t] = "idle"
  /\ \E gone \in SUBSET {s \in Slot : live[s] # None} :
       /\ live' = [s \in Slot |-> IF s \in gone THEN None ELSE live[s]]
       /\ use' = Cardinality({s \in Slot : live'[s] # None})
       /\ 2 * use' < Cardinality(Slot)
  /\ left' = [t \in Thread |-> Visits]
  /\ record' = [k \in Key |-> None]
  /\ UNCHANGED <<lock, pc, key, i, first, at>>

Step(t) == Scan(t) \/ Take(t) \/ Create(t) \/ Release(t)

Next ==
  \/ \E t \in Thread : Step(t) \/ \E k \in Key : Lookup(t, k) \/ LockAgain(t, k)
  \/ NewSearch

Spec == Init /\ [][Next]_vars

\* A thread that has started a lookup goes on; so does the one that holds an
\* entry.  Nothing makes the program search again.
FairSpec ==
  Spec /\ \A t \in Thread : WF_vars(Scan(t) \/ Take(t)) /\ WF_vars(Release(t))

-----------------------------------------------------------------------------
(* Properties *)

\* The threads that are in a record they take as that of the position.
Owned(k) ==
  {t \in Thread : pc[t] = "held" /\ key[t] = k /\ live[at[t]] # None}

Owner == [k \in Key |-> IF Owned(k) = {} THEN None
                        ELSE CHOOSE t \in Owned(k) : TRUE]

Table == INSTANCE NodeTable WITH Record <- Slot, owner <- Owner

\* During a search every lookup of a position gives the same entry, and one
\* thread at a time, though the threads probe and make entries in any order
\* (ysszero.cpp:688) and the table holds entries that are not found.
TableSpec == Table!Spec

\* Every lookup gets an entry, however often others take the one it had seen
\* and whoever waits for whom: a thread that waits for a lock holds none, and
\* a table that a search finds half empty has room for it (ysszero.cpp:697).
LookupReturns == \A t \in Thread : pc[t] = "scan" ~> pc[t] = "held"
=============================================================================
