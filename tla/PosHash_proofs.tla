---------------------------- MODULE PosHash_proofs ----------------------------
(***************************************************************************)
(* The hash table implements NodeTable, for any number of threads,         *)
(* positions and entries and any probe sequences.                          *)
(***************************************************************************)
EXTENDS PosHash, FiniteSetTheorems, TLAPS

Idx == 0..Rehash
In(k, j) == live[Probe[k][j]]

\* The probes before f are entries of other positions; no probe before n
\* has the position.
Clear(k, f) == \A m \in Idx : m < f => In(k, m) # None /\ In(k, m) # k
Unseen(k, n) == \A m \in Idx : m < n => In(k, m) # k

\* The entry of a position that every scan finds: the first one that has it,
\* within TryMax or after no unused entry.  There may be others beyond.
Visible(k, j) == /\ In(k, j) = k /\ Unseen(k, j)
                 /\ j > TryMax => Clear(k, j)

PlaceOK ==
  \A t \in Thread :
    /\ pc[t] \in {"scan", "take", "held"} => key[t] \in Key
    /\ pc[t] \in {"idle", "held"} => i[t] = 0 /\ first[t] = None
    /\ pc[t] = "held" => at[t] \in Slot
    /\ \A s \in Slot : lock[s] = t <=> pc[t] = "held" /\ at[t] = s

\* What a position has got in this search stays visible.
RecordOK ==
  \A k \in Key : record[k] # None =>
    \E j \in Idx : record[k] = Probe[k][j] /\ Visible(k, j)

\* A position is never twice within TryMax.
NoTwins ==
  \A k \in Key : \A j, m \in Idx :
    j < m /\ m <= TryMax => ~(In(k, j) = k /\ In(k, m) = k)

\* What a scan knows of the entries it has passed, as long as the unused one
\* it has seen is not used.
ScanOK(t) ==
  pc[t] = "scan" =>
    /\ first[t] = None => Clear(key[t], i[t])
    /\ first[t] # None =>
         /\ i[t] <= TryMax
         /\ \E f \in Idx : /\ first[t] = Probe[key[t]][f] /\ Clear(key[t], f)
                           /\ live[first[t]] = None => Unseen(key[t], i[t])

TakeOK(t) ==
  pc[t] = "take" =>
    \E f \in Idx : /\ first[t] = Probe[key[t]][f] /\ Clear(key[t], f)
                   /\ live[first[t]] = None => Unseen(key[t], TryMax + 1)

\* An entry that is held is that of the position, or the unused one where
\* the position will be visible.
HeldOK(t) ==
  pc[t] = "held" =>
    IF live[at[t]] = None
    THEN \E f \in Idx : /\ at[t] = Probe[key[t]][f] /\ Clear(key[t], f)
                        /\ Unseen(key[t], TryMax + 1)
    ELSE live[at[t]] = key[t] /\ record[key[t]] = at[t]

LookupsOK == \A t \in Thread : ScanOK(t) /\ TakeOK(t) /\ HeldOK(t)

Inv == TypeOK /\ PlaceOK /\ RecordOK /\ NoTwins /\ LookupsOK

-----------------------------------------------------------------------------
(* Facts about the probes *)

LEMMA Probes ==
  /\ Rehash \in Nat /\ TryMax \in Nat /\ TryMax <= Rehash
  /\ \A k \in Key : \A j \in Idx :
       /\ Probe[k][j] \in Slot
       /\ \A m \in Idx : Probe[k][j] = Probe[k][m] => j = m
  /\ None \notin Key /\ None \notin Slot /\ None \notin Thread
  BY TableAssumption DEF Idx

LEMMA VisibleOnce ==
  ASSUME NEW k \in Key, NEW j \in Idx, NEW m \in Idx,
         Visible(k, j), Visible(k, m)
  PROVE  j = m
<1>1. j \in Nat /\ m \in Nat
  BY Probes DEF Idx
<1>2. ~(j < m) /\ ~(m < j)
  BY DEF Visible, Unseen
<1> QED
  BY <1>1, <1>2

\* What has been got is in use by its position, and by it alone.
LEMMA RecordLive ==
  ASSUME RecordOK, NEW k \in Key, record[k] # None
  PROVE  live[record[k]] = k /\ record[k] \in Slot
  BY Probes DEF RecordOK, Visible, In

\* A scan that finds its position has found the visible entry.
LEMMA FoundVisible ==
  ASSUME Inv, NEW t \in Thread, pc[t] = "scan",
         In(key[t], i[t]) = key[t]
  PROVE  Visible(key[t], i[t]) /\ key[t] \in Key /\ i[t] \in Idx
<1> DEFINE k == key[t]
           n == i[t]
<1>1. k \in Key /\ n \in Idx /\ n \in Nat
  BY Probes DEF Inv, PlaceOK, TypeOK, Idx
<1>2. CASE first[t] = None
  <2>1. Clear(k, n)
    BY <1>2 DEF Inv, LookupsOK, ScanOK
  <2> QED
    BY <1>1, <2>1 DEF Visible, Clear, Unseen
<1>3. CASE first[t] # None
  <2>1. n <= TryMax
    BY <1>3 DEF Inv, LookupsOK, ScanOK
  <2>2. Unseen(k, n)
    BY <1>1, <2>1 DEF Inv, NoTwins, Unseen
  <2>3. ~(n > TryMax)
    BY <1>1, <2>1, Probes
  <2> QED
    BY <1>1, <2>2, <2>3 DEF Visible
<1> QED
  BY <1>2, <1>3

\* Where a thread holds an unused entry, its position has got none.
LEMMA UnusedHasNone ==
  ASSUME Inv, NEW t \in Thread, pc[t] = "held", live[at[t]] = None
  PROVE  record[key[t]] = None
<1> DEFINE k == key[t]
<1>1. k \in Key
  BY DEF Inv, PlaceOK
<1>2. PICK f \in Idx : /\ at[t] = Probe[k][f] /\ Clear(k, f)
                       /\ Unseen(k, TryMax + 1)
  BY DEF Inv, LookupsOK, HeldOK
<1>3. SUFFICES ASSUME record[k] # None PROVE FALSE
  OBVIOUS
<1>4. PICK j \in Idx : Visible(k, j)
  BY <1>1, <1>3 DEF Inv, RecordOK
<1>5. j \in Nat /\ f \in Nat /\ TryMax \in Nat
  BY Probes DEF Idx
<1>6. j > TryMax
  BY <1>4, <1>2, <1>5 DEF Visible, Unseen
<1>7. Clear(k, j) /\ In(k, j) = k
  BY <1>4, <1>6 DEF Visible
<1>8. In(k, f) = None
  BY <1>2 DEF In
<1>9. ~(f < j) /\ ~(j < f) /\ j # f
  BY <1>1, <1>2, <1>7, <1>8, Probes DEF Clear
<1> QED
  BY <1>5, <1>9

\* Two threads do not hold unused entries for one position.
LEMMA UnusedOnce ==
  ASSUME Inv, NEW t \in Thread, NEW u \in Thread, t # u,
         pc[t] = "held", pc[u] = "held",
         live[at[t]] = None, live[at[u]] = None
  PROVE  key[t] # key[u] /\ at[t] # at[u]
<1>1. at[t] # at[u]
  BY DEF Inv, PlaceOK
<1>2. ASSUME key[t] = key[u] PROVE FALSE
  <2> DEFINE k == key[t]
  <2>1. k \in Key
    BY DEF Inv, PlaceOK
  <2>2. PICK f \in Idx : at[t] = Probe[k][f] /\ Clear(k, f)
    BY DEF Inv, LookupsOK, HeldOK
  <2>3. PICK g \in Idx : at[u] = Probe[k][g] /\ Clear(k, g)
    BY <1>2 DEF Inv, LookupsOK, HeldOK
  <2>4. f \in Nat /\ g \in Nat /\ f # g
    BY <1>1, <2>2, <2>3, Probes DEF Idx
  <2>5. ~(f < g) /\ ~(g < f)
    BY <2>2, <2>3 DEF Clear, In
  <2> QED
    BY <2>4, <2>5
<1> QED
  BY <1>1, <1>2

-----------------------------------------------------------------------------
(* The owners of the records *)

Owners ==
  /\ \A k \in Key : \A t \in Owned(k) :
       Owned(k) = {t} /\ Owner[k] = t /\ t \in Thread
  /\ \A k \in Key : Owned(k) = {} => Owner[k] = None
  /\ Owner = [k \in Key |-> Owner[k]]

LEMMA OneOwner == Inv => Owners
<1> SUFFICES ASSUME Inv PROVE Owners
  OBVIOUS
<1>1. ASSUME NEW k \in Key, NEW t \in Owned(k)
      PROVE  Owned(k) = {t} /\ Owner[k] = t /\ t \in Thread
  <2>1. ASSUME NEW u \in Owned(k) PROVE u = t
    <3>1. at[u] = record[k] /\ at[t] = record[k]
      BY DEF Inv, LookupsOK, HeldOK, Owned
    <3>2. lock[at[t]] = t /\ lock[at[u]] = u
      BY DEF Inv, PlaceOK, Owned
    <3> QED
      BY <3>1, <3>2
  <2>2. Owned(k) = {t}
    BY <2>1
  <2> QED
    BY <2>2 DEF Owner, Owned
<1>2. \A k \in Key : Owned(k) = {} => Owner[k] = None
  BY DEF Owner
<1>3. Owner = [k \in Key |-> Owner[k]]
  BY DEF Owner
<1> QED
  BY <1>1, <1>2, <1>3 DEF Owners

LEMMA OneOwnerNext == Inv' => Owners'
  BY OneOwner, PTL

LEMMA SameOwners ==
  ASSUME Inv, Inv', \A k \in Key : Owned(k)' = Owned(k)
  PROVE  Owner' = Owner
<1>1. Owners /\ Owners'
  BY OneOwner, OneOwnerNext
<1>2. \A k \in Key : Owner'[k] = Owner[k]
  <2> SUFFICES ASSUME NEW k \in Key PROVE Owner'[k] = Owner[k]
    OBVIOUS
  <2>1. CASE Owned(k) = {}
    BY <1>1, <2>1 DEF Owners
  <2>2. CASE Owned(k) # {}
    BY <1>1, <2>2 DEF Owners
  <2> QED
    BY <2>1, <2>2
<1>3. Owner = [k \in Key |-> Owner[k]] /\ Owner' = [k \in Key |-> Owner'[k]]
  BY <1>1 DEF Owners
<1> QED
  BY <1>2, <1>3

LEMMA OwnerEnters ==
  ASSUME Inv, Inv', NEW t \in Thread, NEW k \in Key,
         Owned(k) = {}, Owned(k)' = {t},
         \A j \in Key \ {k} : Owned(j)' = Owned(j)
  PROVE  Owner[k] = None /\ Owner' = [Owner EXCEPT ![k] = t]
<1>1. Owners /\ Owners'
  BY OneOwner, OneOwnerNext
<1>2. Owner[k] = None /\ Owner'[k] = t
  BY <1>1 DEF Owners
<1>3. ASSUME NEW j \in Key, j # k PROVE Owner'[j] = Owner[j]
  <2>1. CASE Owned(j) = {}
    BY <1>1, <1>3, <2>1 DEF Owners
  <2>2. CASE Owned(j) # {}
    BY <1>1, <1>3, <2>2 DEF Owners
  <2> QED
    BY <2>1, <2>2
<1>4. Owner = [j \in Key |-> Owner[j]] /\ Owner' = [j \in Key |-> Owner'[j]]
  BY <1>1 DEF Owners
<1> QED
  BY <1>2, <1>3, <1>4

LEMMA OwnerLeaves ==
  ASSUME Inv, Inv', NEW t \in Thread, NEW k \in Key,
         Owned(k) = {t}, Owned(k)' = {},
         \A j \in Key \ {k} : Owned(j)' = Owned(j)
  PROVE  Owner[k] = t /\ Owner' = [Owner EXCEPT ![k] = None]
<1>1. Owners /\ Owners'
  BY OneOwner, OneOwnerNext
<1>2. Owner[k] = t /\ Owner'[k] = None
  BY <1>1 DEF Owners
<1>3. ASSUME NEW j \in Key, j # k PROVE Owner'[j] = Owner[j]
  <2>1. CASE Owned(j) = {}
    BY <1>1, <1>3, <2>1 DEF Owners
  <2>2. CASE Owned(j) # {}
    BY <1>1, <1>3, <2>2 DEF Owners
  <2> QED
    BY <2>1, <2>2
<1>4. Owner = [j \in Key |-> Owner[j]] /\ Owner' = [j \in Key |-> Owner'[j]]
  BY <1>1 DEF Owners
<1> QED
  BY <1>2, <1>3, <1>4

-----------------------------------------------------------------------------
(* The initial states *)

LEMMA InitInv == Init => Inv /\ Table!Init
<1> SUFFICES ASSUME Init PROVE Inv /\ Table!Init
  OBVIOUS
<1> USE DEF Init
<1>1. TypeOK
  <2>1. /\ i \in [Thread -> 0..Rehash] /\ left \in [Thread -> 0..Visits]
        /\ use \in Nat
    BY TableAssumption
  <2> QED
    BY <2>1 DEF TypeOK
<1>2. PlaceOK
  BY Probes DEF PlaceOK
<1>3. RecordOK /\ NoTwins
  BY Probes DEF RecordOK, NoTwins, In
<1>4. LookupsOK
  BY DEF LookupsOK, ScanOK, TakeOK, HeldOK
<1>5. Inv
  BY <1>1, <1>2, <1>3, <1>4 DEF Inv
<1>6. \A k \in Key : Owned(k) = {}
  BY DEF Owned
<1>7. Owner = [k \in Key |-> None]
  BY <1>6 DEF Owner
<1> QED
  BY <1>5, <1>7 DEF Table!Init

-----------------------------------------------------------------------------
(* Steps that change no entry *)

\* What one thread does while the table stays as it is, records being given
\* but not changed, is of no concern to the others.
LEMMA OtherLookups ==
  ASSUME Inv, UNCHANGED live, NEW t \in Thread,
         \A u \in Thread \ {t} : /\ pc'[u] = pc[u] /\ key'[u] = key[u]
                                 /\ i'[u] = i[u] /\ first'[u] = first[u]
                                 /\ at'[u] = at[u],
         \A k \in Key : record[k] # None => record'[k] = record[k],
         ScanOK(t)', TakeOK(t)', HeldOK(t)'
  PROVE  LookupsOK'
<1> SUFFICES ASSUME NEW u \in Thread, u # t
             PROVE  ScanOK(u)' /\ TakeOK(u)' /\ HeldOK(u)'
  BY DEF LookupsOK
<1>1. ScanOK(u) /\ TakeOK(u) /\ HeldOK(u)
  BY DEF Inv, LookupsOK
<1>2. ScanOK(u)'
  BY <1>1 DEF ScanOK, Clear, Unseen, In
<1>3. TakeOK(u)'
  BY <1>1 DEF TakeOK, Clear, Unseen, In
<1>4. HeldOK(u)'
  <2>1. CASE pc[u] = "held" /\ live[at[u]] # None
    <3>1. record[key[u]] = at[u] /\ at[u] # None /\ key[u] \in Key
      BY <1>1, <2>1, Probes DEF HeldOK, Inv, PlaceOK
    <3> QED
      BY <1>1, <2>1, <3>1 DEF HeldOK
  <2>2. CASE ~(pc[u] = "held" /\ live[at[u]] # None)
    BY <1>1, <2>2 DEF HeldOK, Clear, Unseen, In
  <2> QED
    BY <2>1, <2>2
<1> QED
  BY <1>2, <1>3, <1>4

LEMMA SameRecords ==
  ASSUME RecordOK, NoTwins, UNCHANGED <<live, record>>
  PROVE  RecordOK' /\ NoTwins'
  BY DEF RecordOK, NoTwins, Visible, Clear, Unseen, In

LEMMA LookupStep ==
  ASSUME Inv, NEW t \in Thread, NEW k \in Key, Lookup(t, k)
  PROVE  Inv' /\ UNCHANGED <<record, Owner>>
<1> USE DEF Inv
<1>1. /\ pc[t] = "idle" /\ i[t] = 0 /\ first[t] = None /\ pc'[t] = "scan"
      /\ key'[t] = k /\ i'[t] = 0 /\ first'[t] = None
      /\ \A u \in Thread \ {t} : pc'[u] = pc[u] /\ key'[u] = key[u]
      /\ UNCHANGED <<live, lock, at, i, first, record>>
  BY DEF Lookup, PlaceOK, TypeOK
<1>2. TypeOK'
  <2>1. left' \in [Thread -> 0..Visits]
    BY TableAssumption DEF Lookup, TypeOK
  <2> QED
    BY <2>1 DEF Lookup, TypeOK
<1>3. PlaceOK'
  BY <1>1 DEF PlaceOK
<1>4. RecordOK' /\ NoTwins'
  BY <1>1, SameRecords
<1>5. ScanOK(t)' /\ TakeOK(t)' /\ HeldOK(t)'
  BY <1>1 DEF ScanOK, TakeOK, HeldOK, Clear, Idx
<1>6. LookupsOK'
  BY <1>1, <1>5, OtherLookups
<1>7. Inv'
  BY <1>2, <1>3, <1>4, <1>6
<1>8. \A j \in Key : Owned(j)' = Owned(j)
  BY <1>1 DEF Owned
<1> QED
  BY <1>1, <1>7, <1>8, SameOwners

-----------------------------------------------------------------------------
(* A lookup gets an entry *)

\* Locking an entry that no thread holds.
LEMMA GotPlaces ==
  ASSUME TypeOK, PlaceOK, NEW t \in Thread, NEW s \in Slot, Got(t, s),
         pc[t] \in {"scan", "take"}, lock[s] = None, UNCHANGED key
  PROVE  PlaceOK'
<1>1. /\ pc'[t] = "held" /\ i'[t] = 0 /\ first'[t] = None /\ at'[t] = s
      /\ \A u \in Thread \ {t} : /\ pc'[u] = pc[u] /\ i'[u] = i[u]
                                 /\ first'[u] = first[u] /\ at'[u] = at[u]
      /\ \A r \in Slot : lock'[r] = IF r = s THEN t ELSE lock[r]
  BY DEF Got, TypeOK
<1>2. ASSUME NEW u \in Thread, NEW r \in Slot
      PROVE  lock'[r] = u <=> pc'[u] = "held" /\ at'[u] = r
  <2>1. CASE u = t
    BY <1>1, <2>1 DEF PlaceOK
  <2>2. CASE u # t
    BY <1>1, <2>2, Probes DEF PlaceOK
  <2> QED
    BY <2>1, <2>2
<1> QED
  BY <1>1, <1>2 DEF PlaceOK

LEMMA GotTypes ==
  ASSUME TypeOK, NEW t \in Thread, NEW s \in Slot, Got(t, s), key[t] \in Key,
         UNCHANGED <<live, use, key, left>>
  PROVE  TypeOK'
<1>1. record' \in [Key -> Slot \cup {None}]
  BY DEF Got, TypeOK
<1>2. i' \in [Thread -> 0..Rehash]
  BY TableAssumption DEF Got, TypeOK
<1> QED
  BY <1>1, <1>2 DEF Got, TypeOK

LEMMA FoundStep ==
  ASSUME Inv, NEW t \in Thread, pc[t] = "scan", In(key[t], i[t]) = key[t],
         lock[Probe[key[t]][i[t]]] = None, Got(t, Probe[key[t]][i[t]]),
         UNCHANGED <<live, use, key, left>>
  PROVE  Inv' /\ Table!Enter(t, key[t])
<1> DEFINE k == key[t]
           s == Probe[k][i[t]]
<1> USE DEF Inv
<1>1. k \in Key /\ i[t] \in Idx /\ Visible(k, i[t])
  BY FoundVisible
<1>2. s \in Slot /\ live[s] = k /\ k # None /\ s # None
  BY <1>1, Probes DEF In
<1>3. record' = [record EXCEPT ![k] = s] /\ record'[k] = s
  BY <1>1, <1>2 DEF Got, TypeOK
<1>4. record[k] \in {None, s}
  <2> SUFFICES ASSUME record[k] # None PROVE record[k] = s
    OBVIOUS
  <2>1. PICK j \in Idx : record[k] = Probe[k][j] /\ Visible(k, j)
    BY <1>1 DEF RecordOK
  <2> QED
    BY <1>1, <2>1, VisibleOnce
<1>5. \A j \in Key \ {k} : record[j] # s
  BY <1>1, <1>2, RecordLive
<1>6. TypeOK'
  BY <1>1, <1>2, GotTypes
<1>7. PlaceOK'
  BY <1>2, GotPlaces
<1>8. RecordOK'
  <2> SUFFICES ASSUME NEW j \in Key, record'[j] # None
               PROVE  \E m \in Idx : record'[j] = Probe[j][m] /\ Visible(j, m)
    BY DEF RecordOK, Visible, Clear, Unseen, In
  <2>1. CASE j = k
    BY <1>1, <1>3, <2>1
  <2>2. CASE j # k
    BY <1>1, <1>3, <2>2 DEF RecordOK, TypeOK
  <2> QED
    BY <2>1, <2>2
<1>9. NoTwins'
  BY DEF NoTwins, In
<1>10. /\ pc'[t] = "held" /\ at'[t] = s /\ key'[t] = k
       /\ \A u \in Thread \ {t} : /\ pc'[u] = pc[u] /\ key'[u] = key[u]
                                  /\ i'[u] = i[u] /\ first'[u] = first[u]
                                  /\ at'[u] = at[u]
  BY DEF Got, TypeOK
<1>11. ScanOK(t)' /\ TakeOK(t)' /\ HeldOK(t)'
  BY <1>2, <1>3, <1>10 DEF ScanOK, TakeOK, HeldOK
<1>12. \A j \in Key : record[j] # None => record'[j] = record[j]
  BY <1>3, <1>4, <1>1 DEF TypeOK
<1>13. LookupsOK'
  BY <1>10, <1>11, <1>12, OtherLookups
<1>14. Inv'
  BY <1>6, <1>7, <1>8, <1>9, <1>13
<1>15. Owned(k) = {}
  <2> SUFFICES ASSUME NEW u \in Owned(k) PROVE FALSE
    OBVIOUS
  <2>1. /\ u \in Thread /\ pc[u] = "held" /\ key[u] = k
        /\ record[k] = at[u] /\ at[u] \in Slot /\ lock[at[u]] = u
    BY DEF Owned, LookupsOK, HeldOK, PlaceOK
  <2>2. at[u] = s
    BY <1>4, <2>1, Probes
  <2> QED
    BY <2>1, <2>2, Probes
<1>16. Owned(k)' = {t}
  BY <1>2, <1>10, <1>15 DEF Owned
<1>17. \A j \in Key \ {k} : Owned(j)' = Owned(j)
  BY <1>10 DEF Owned
<1>18. Owner[k] = None /\ Owner' = [Owner EXCEPT ![k] = t]
  BY <1>1, <1>14, <1>15, <1>16, <1>17, OwnerEnters
<1>19. Table!Enter(t, k)
  BY <1>2, <1>3, <1>4, <1>5, <1>18 DEF Table!Enter
<1> QED
  BY <1>14, <1>19

\* The entry a position has got is locked again.
LEMMA LockAgainStep ==
  ASSUME Inv, NEW t \in Thread, NEW k \in Key, LockAgain(t, k)
  PROVE  Inv' /\ Table!Enter(t, k)
<1> DEFINE s == record[k]
<1> USE DEF Inv
<1>1. s \in Slot /\ live[s] = k /\ k # None /\ s # None /\ lock[s] = None
  BY RecordLive, Probes DEF LockAgain
<1>2. /\ pc[t] = "idle" /\ i[t] = 0 /\ first[t] = None
      /\ pc'[t] = "held" /\ at'[t] = s /\ key'[t] = k
      /\ \A u \in Thread \ {t} : pc'[u] = pc[u] /\ key'[u] = key[u]
                                 /\ at'[u] = at[u]
      /\ \A r \in Slot : lock'[r] = IF r = s THEN t ELSE lock[r]
      /\ UNCHANGED <<live, use, i, first, record>>
  BY DEF LockAgain, PlaceOK, TypeOK
<1>3. TypeOK'
  <2>1. left' \in [Thread -> 0..Visits]
    BY TableAssumption DEF LockAgain, TypeOK
  <2> QED
    BY <1>1, <2>1 DEF LockAgain, TypeOK
<1>4. PlaceOK'
  <2>1. ASSUME NEW u \in Thread, NEW r \in Slot
        PROVE  lock'[r] = u <=> pc'[u] = "held" /\ at'[u] = r
    <3>1. CASE u = t
      BY <1>2, <3>1 DEF PlaceOK
    <3>2. CASE u # t
      BY <1>1, <1>2, <3>2, Probes DEF PlaceOK
    <3> QED
      BY <3>1, <3>2
  <2> QED
    BY <1>1, <1>2, <2>1 DEF PlaceOK
<1>5. RecordOK' /\ NoTwins'
  BY <1>2, SameRecords
<1>6. ScanOK(t)' /\ TakeOK(t)' /\ HeldOK(t)'
  BY <1>1, <1>2 DEF ScanOK, TakeOK, HeldOK
<1>7. LookupsOK'
  BY <1>2, <1>6, OtherLookups
<1>8. Inv'
  BY <1>3, <1>4, <1>5, <1>7
<1>9. Owned(k) = {}
  <2> SUFFICES ASSUME NEW u \in Owned(k) PROVE FALSE
    OBVIOUS
  <2>1. /\ u \in Thread /\ at[u] = s /\ lock[at[u]] = u
    BY DEF Owned, LookupsOK, HeldOK, PlaceOK
  <2> QED
    BY <1>1, <2>1, Probes
<1>10. Owned(k)' = {t}
  BY <1>1, <1>2, <1>9 DEF Owned
<1>11. \A j \in Key \ {k} : Owned(j)' = Owned(j)
  BY <1>2 DEF Owned
<1>12. Owner[k] = None /\ Owner' = [Owner EXCEPT ![k] = t]
  BY <1>8, <1>9, <1>10, <1>11, OwnerEnters
<1>13. \A j \in Key \ {k} : record[j] # s
  BY <1>1, RecordLive
<1>14. record' = [record EXCEPT ![k] = s]
  BY <1>2 DEF TypeOK
<1>15. Table!Enter(t, k)
  BY <1>1, <1>12, <1>13, <1>14 DEF Table!Enter
<1> QED
  BY <1>8, <1>15

\* A probe that does not find the position.
LEMMA MissedStep ==
  ASSUME Inv, NEW t \in Thread, Scan(t), In(key[t], i[t]) # key[t]
  PROVE  Inv' /\ UNCHANGED <<record, Owner>>
<1> DEFINE k == key[t]
           n == i[t]
           s == Probe[k][n]
           seen == IF live[s] = None /\ first[t] = None THEN s ELSE first[t]
<1> USE DEF Inv
<1>1. pc[t] = "scan" /\ k \in Key /\ n \in Idx /\ n \in Nat
  BY Probes DEF Scan, PlaceOK, TypeOK, Idx
<1>2. s \in Slot /\ s # None /\ live[s] = In(k, n) /\ live[s] # k
  BY <1>1, Probes DEF In
<1>3. /\ first' = [first EXCEPT ![t] = seen]
      /\ IF ScanEnds(n, seen)
         THEN /\ pc' = [pc EXCEPT ![t] = IF seen = None THEN "full" ELSE "take"]
              /\ i' = i
         ELSE i' = [i EXCEPT ![t] = @ + 1] /\ pc' = pc
      /\ UNCHANGED <<live, use, key, left, lock, at, record>>
  BY <1>2 DEF Scan
<1>4. /\ first'[t] = seen /\ key'[t] = k
      /\ pc'[t] \in {"scan", "take", "full"}
      /\ pc'[t] = "scan" => i'[t] = n + 1 /\ ~ScanEnds(n, seen)
      /\ pc'[t] = "take" => ScanEnds(n, seen) /\ seen # None
      /\ \A u \in Thread \ {t} : /\ pc'[u] = pc[u] /\ key'[u] = key[u]
                                 /\ i'[u] = i[u] /\ first'[u] = first[u]
                                 /\ at'[u] = at[u]
  BY <1>1, <1>3 DEF TypeOK
<1>5. TypeOK'
  <2>1. i' \in [Thread -> 0..Rehash]
    <3>1. ~ScanEnds(n, seen) => n + 1 \in 0..Rehash
      BY <1>1, Probes DEF ScanEnds, Idx
    <3> QED
      BY <1>3, <3>1 DEF TypeOK
  <2>2. first' \in [Thread -> Slot \cup {None}]
    BY <1>2, <1>3 DEF TypeOK
  <2>3. pc' \in [Thread -> {"idle", "scan", "take", "held", "full"}]
    BY <1>3 DEF TypeOK
  <2> QED
    BY <1>3, <2>1, <2>2, <2>3 DEF TypeOK
<1>6. PlaceOK'
  <2>1. \A u \in Thread : \A r \in Slot :
          lock'[r] = u <=> pc'[u] = "held" /\ at'[u] = r
    BY <1>1, <1>3, <1>4 DEF PlaceOK
  <2> QED
    BY <1>1, <1>3, <1>4, <2>1 DEF PlaceOK
<1>7. RecordOK' /\ NoTwins'
  BY <1>3, SameRecords
\* What the thread knows after the probe.
<1>8. first[t] = None => Clear(k, n)
  BY <1>1 DEF LookupsOK, ScanOK
<1>9. /\ seen = None => Clear(k, n + 1)
      /\ seen # None => \E f \in Idx : /\ seen = Probe[k][f] /\ Clear(k, f)
                                       /\ live[seen] = None => Unseen(k, n + 1)
  <2>0. \A m \in Idx : m < n + 1 => m < n \/ m = n
    BY <1>1, Probes DEF Idx
  <2>1. CASE first[t] = None
    <3>1. Unseen(k, n + 1)
      BY <1>2, <1>8, <2>0, <2>1 DEF Clear, Unseen
    <3>2. CASE live[s] = None
      BY <1>1, <1>2, <1>8, <2>1, <3>1, <3>2
    <3>3. CASE live[s] # None
      BY <1>2, <1>8, <2>0, <2>1, <3>3 DEF Clear
    <3> QED
      BY <3>2, <3>3
  <2>2. CASE first[t] # None
    <3>1. PICK f \in Idx :
            /\ first[t] = Probe[k][f] /\ Clear(k, f)
            /\ live[first[t]] = None => Unseen(k, n)
      BY <1>1, <2>2 DEF LookupsOK, ScanOK
    <3>2. live[first[t]] = None => Unseen(k, n + 1)
      BY <1>2, <2>0, <3>1 DEF Unseen
    <3> QED
      BY <2>2, <3>1, <3>2
  <2> QED
    BY <2>1, <2>2
<1> HIDE DEF seen
<1>9a. live' = live /\ key' = key /\ k' = k
  BY <1>3
<1>10. ScanOK(t)'
  <2> SUFFICES ASSUME pc'[t] = "scan" PROVE ScanOK(t)'
    BY DEF ScanOK
  <2>1. i'[t] = n + 1 /\ ~ScanEnds(n, seen) /\ first'[t] = seen
    BY <1>4
  <2>2. seen # None => n + 1 <= TryMax
    BY <1>1, <2>1, Probes DEF ScanEnds
  <2>3. CASE seen = None
    <3>1. Clear(k, n + 1)
      BY <1>9, <2>3
    <3> QED
      BY <1>9a, <2>1, <2>3, <3>1 DEF ScanOK, Clear, In
  <2>4. CASE seen # None
    <3>1. PICK f \in Idx : /\ seen = Probe[k][f] /\ Clear(k, f)
                           /\ live[seen] = None => Unseen(k, n + 1)
      BY <1>9, <2>4
    <3> QED
      BY <1>9a, <2>1, <2>2, <2>4, <3>1 DEF ScanOK, Clear, Unseen, In
  <2> QED
    BY <2>3, <2>4
<1>11. TakeOK(t)'
  <2> SUFFICES ASSUME pc'[t] = "take" PROVE TakeOK(t)'
    BY DEF TakeOK
  <2>1. ScanEnds(n, seen) /\ seen # None /\ first'[t] = seen
    BY <1>4
  <2>2. n >= TryMax
    BY <1>1, <2>1, Probes DEF ScanEnds, Idx
  <2>3. \A m \in Idx : m < TryMax + 1 => m < n + 1
    BY <1>1, <2>2, Probes DEF Idx
  <2>4. Unseen(k, n + 1) => Unseen(k, TryMax + 1)
    BY <2>3 DEF Unseen
  <2>5. PICK f \in Idx : /\ seen = Probe[k][f] /\ Clear(k, f)
                         /\ live[seen] = None => Unseen(k, n + 1)
    BY <1>9, <2>1
  <2> QED
    BY <1>9a, <2>1, <2>4, <2>5 DEF TakeOK, Clear, Unseen, In
<1>12. HeldOK(t)'
  BY <1>4 DEF HeldOK
<1>13. LookupsOK'
  BY <1>3, <1>4, <1>10, <1>11, <1>12, OtherLookups
<1>14. Inv'
  BY <1>5, <1>6, <1>7, <1>13
<1>15. \A j \in Key : Owned(j)' = Owned(j)
  BY <1>1, <1>3, <1>4 DEF Owned
<1> QED
  BY <1>3, <1>14, <1>15, SameOwners

LEMMA TakeStep ==
  ASSUME Inv, NEW t \in Thread, Take(t)
  PROVE  Inv' /\ UNCHANGED <<record, Owner>>
<1> USE DEF Inv
<1>1. /\ pc[t] = "take" /\ key[t] \in Key /\ lock[first[t]] = None
      /\ UNCHANGED <<live, use, key, left>>
  BY DEF Take, PlaceOK
<1>2. PICK f \in Idx :
        /\ first[t] = Probe[key[t]][f] /\ Clear(key[t], f)
        /\ live[first[t]] = None => Unseen(key[t], TryMax + 1)
  BY <1>1 DEF LookupsOK, TakeOK
<1>3. first[t] \in Slot
  BY <1>1, <1>2, Probes
<1>4. record' = record
  BY DEF Take, StillFree, Got
<1>5. RecordOK' /\ NoTwins'
  BY <1>1, <1>4, SameRecords
<1>6. CASE StillFree(first[t])
  <2>1. Got(t, first[t]) /\ live[first[t]] = None
    BY <1>6 DEF Take, StillFree
  <2>2. TypeOK' /\ PlaceOK'
    BY <1>1, <1>3, <2>1, GotTypes, GotPlaces
  <2>3. /\ pc'[t] = "held" /\ at'[t] = first[t] /\ key'[t] = key[t]
        /\ \A u \in Thread \ {t} : /\ pc'[u] = pc[u] /\ key'[u] = key[u]
                                   /\ i'[u] = i[u] /\ first'[u] = first[u]
                                   /\ at'[u] = at[u]
    BY <1>1, <2>1 DEF Got, TypeOK
  <2>4. ScanOK(t)' /\ TakeOK(t)' /\ HeldOK(t)'
    BY <1>1, <1>2, <2>1, <2>3 DEF ScanOK, TakeOK, HeldOK, Clear, Unseen, In
  <2>5. LookupsOK'
    BY <1>1, <1>4, <2>3, <2>4, OtherLookups
  <2>6. \A j \in Key : Owned(j)' = Owned(j)
    BY <1>1, <2>1, <2>3 DEF Owned
  <2>7. Inv'
    BY <1>5, <2>2, <2>5
  <2> QED
    BY <1>4, <2>6, <2>7, SameOwners
<1>7. CASE ~StillFree(first[t])
  <2>1. Restart(t) /\ UNCHANGED <<lock, at>>
    BY <1>7 DEF Take
  <2>2. TypeOK'
    <3>1. i' \in [Thread -> 0..Rehash]
      BY <2>1, TableAssumption DEF Restart, TypeOK
    <3> QED
      BY <1>1, <1>4, <2>1, <3>1 DEF Restart, TypeOK
  <2>3. /\ pc'[t] = "scan" /\ i'[t] = 0 /\ first'[t] = None /\ key'[t] = key[t]
        /\ \A u \in Thread \ {t} : /\ pc'[u] = pc[u] /\ key'[u] = key[u]
                                   /\ i'[u] = i[u] /\ first'[u] = first[u]
                                   /\ at'[u] = at[u]
    BY <1>1, <2>1 DEF Restart, TypeOK
  <2>4. PlaceOK'
    <3>1. \A u \in Thread : \A r \in Slot :
            lock'[r] = u <=> pc'[u] = "held" /\ at'[u] = r
      BY <1>1, <2>1, <2>3 DEF PlaceOK
    <3> QED
      BY <1>1, <2>1, <2>3, <3>1 DEF PlaceOK
  <2>5. ScanOK(t)' /\ TakeOK(t)' /\ HeldOK(t)'
    BY <2>3 DEF ScanOK, TakeOK, HeldOK, Clear, Idx
  <2>6. LookupsOK'
    BY <1>1, <1>4, <2>3, <2>5, OtherLookups
  <2>7. \A j \in Key : Owned(j)' = Owned(j)
    BY <1>1, <2>1, <2>3 DEF Owned
  <2>8. Inv'
    BY <1>5, <2>2, <2>4, <2>6
  <2> QED
    BY <1>4, <2>7, <2>8, SameOwners
<1> QED
  BY <1>6, <1>7

-----------------------------------------------------------------------------
(* An unused entry is given to its position *)

LEMMA CreateStep ==
  ASSUME Inv, NEW t \in Thread, Create(t)
  PROVE  Inv' /\ Table!Enter(t, key[t])
<1> DEFINE k == key[t]
           a == at[t]
<1> USE DEF Inv
<1>1. /\ pc[t] = "held" /\ k \in Key /\ a \in Slot /\ k # None /\ a # None
      /\ live[a] = None /\ record[k] = None
  BY UnusedHasNone, Probes DEF Create, PlaceOK
<1>2. /\ live' = [live EXCEPT ![a] = k] /\ record' = [record EXCEPT ![k] = a]
      /\ use' = use + 1 /\ UNCHANGED <<lock, pc, key, i, first, at, left>>
  BY DEF Create
<1>3. PICK f \in Idx : a = Probe[k][f] /\ Clear(k, f) /\ Unseen(k, TryMax + 1)
  BY <1>1 DEF LookupsOK, HeldOK
<1>4. \A j \in Key : \A m \in Idx :
        In(j, m)' = IF Probe[j][m] = a THEN k ELSE In(j, m)
  BY <1>2, Probes DEF In, TypeOK
<1>5. \A j \in Key : \A n : Clear(j, n) => Clear(j, n)'
  BY <1>1, <1>3, <1>4 DEF Clear, In
<1>6. \A j \in Key : j # k => \A n : Unseen(j, n) => Unseen(j, n)'
  BY <1>4 DEF Unseen
<1>7. TypeOK'
  BY <1>1, <1>2 DEF TypeOK
<1>8. PlaceOK'
  BY <1>2 DEF PlaceOK
<1>9. RecordOK'
  <2> SUFFICES ASSUME NEW j \in Key, record'[j] # None
               PROVE  \E m \in Idx : record'[j] = Probe[j][m] /\ Visible(j, m)'
    BY DEF RecordOK
  <2>1. CASE j = k
    <3>1. record'[k] = a /\ In(k, f)' = k
      BY <1>1, <1>2, <1>3, <1>4 DEF TypeOK
    <3>2. Clear(k, f)'
      BY <1>1, <1>2, <1>3, <1>5 DEF Clear, In
    <3>3. Unseen(k, f)'
      BY <3>2 DEF Clear, Unseen
    <3>4. Visible(k, f)'
      BY <1>2, <3>1, <3>2, <3>3 DEF Visible, Clear, Unseen, In
    <3> QED
      BY <1>2, <1>3, <2>1, <3>1, <3>4 DEF Visible, Clear, Unseen, In
  <2>2. CASE j # k
    <3>1. record'[j] = record[j] /\ record[j] # None
      BY <1>2, <2>2 DEF TypeOK
    <3>2. PICK m \in Idx : record[j] = Probe[j][m] /\ Visible(j, m)
      BY <3>1 DEF RecordOK
    <3>3. In(j, m) = j /\ j # None /\ Probe[j][m] # a
      BY <1>1, <3>2, Probes DEF Visible, In
    <3>4. Visible(j, m)'
      BY <1>4, <1>5, <1>6, <2>2, <3>2, <3>3 DEF Visible
    <3> QED
      BY <3>1, <3>2, <3>4
  <2> QED
    BY <2>1, <2>2
<1>10. NoTwins'
  <2> SUFFICES ASSUME NEW j \in Key, NEW x \in Idx, NEW y \in Idx,
                      x < y, y <= TryMax, In(j, x)' = j, In(j, y)' = j
               PROVE  FALSE
    BY DEF NoTwins, In
  <2>1. x \in Nat /\ y \in Nat /\ TryMax \in Nat
    BY Probes DEF Idx
  <2>2. CASE In(j, x) = j /\ In(j, y) = j
    BY <2>2 DEF NoTwins
  <2>3. CASE j = k /\ (In(j, x) # j \/ In(j, y) # j)
    <3>1. Unseen(k, TryMax + 1) /\ x < TryMax + 1 /\ y < TryMax + 1
      BY <1>3, <2>1
    <3>2. In(k, x) # k /\ In(k, y) # k
      BY <3>1 DEF Unseen
    <3>3. Probe[k][x] = a /\ Probe[k][y] = a
      BY <1>1, <1>4, <2>3, <3>2
    <3>4. x = y
      BY <1>1, <3>3, Probes
    <3> QED
      BY <2>1, <3>4
  <2>4. CASE j # k /\ (In(j, x) # j \/ In(j, y) # j)
    BY <1>4, <2>4
  <2> QED
    BY <2>2, <2>3, <2>4
\* A thread that looks for the position now in a has seen a, if it has seen
\* an unused entry at all.
<1>11. ASSUME NEW g \in Idx, Clear(k, g), live[Probe[k][g]] = None
       PROVE  Probe[k][g] = a
  <2>1. f \in Nat /\ g \in Nat
    BY Probes DEF Idx
  <2>2. ~(f < g) /\ ~(g < f)
    BY <1>1, <1>3, <1>11 DEF Clear, In
  <2> QED
    BY <1>3, <2>1, <2>2
<1>12. ASSUME NEW u \in Thread, u # t
       PROVE  ScanOK(u)' /\ TakeOK(u)' /\ HeldOK(u)'
  <2>1. ScanOK(u) /\ TakeOK(u) /\ HeldOK(u)
    BY DEF LookupsOK
  <2>2. \A s \in Slot : live'[s] = None => live[s] = None /\ s # a
    BY <1>1, <1>2 DEF TypeOK
  <2>4. ScanOK(u)'
    <3> SUFFICES ASSUME pc[u] = "scan" PROVE ScanOK(u)'
      BY <1>2 DEF ScanOK
    <3>1. key[u] \in Key
      BY DEF PlaceOK
    <3>2. CASE first[u] = None
      <4>1. Clear(key[u], i[u])'
        BY <1>2, <1>5, <2>1, <3>1, <3>2 DEF ScanOK, Clear, In
      <4> QED
        BY <1>2, <3>2, <4>1 DEF ScanOK
    <3>3. CASE first[u] # None
      <4>1. PICK g \in Idx :
              /\ first[u] = Probe[key[u]][g] /\ Clear(key[u], g)
              /\ live[first[u]] = None => Unseen(key[u], i[u])
        BY <2>1, <3>3 DEF ScanOK
      <4>2. first[u] \in Slot /\ i[u] <= TryMax
        BY <2>1, <3>1, <3>3, <4>1, Probes DEF ScanOK
      <4>3. Clear(key[u], g)'
        BY <1>2, <1>5, <3>1, <4>1 DEF Clear, In
      <4>4. ASSUME live'[first[u]] = None PROVE Unseen(key[u], i[u])'
        <5>1. live[first[u]] = None /\ first[u] # a
          BY <2>2, <4>2, <4>4
        <5>2. key[u] # k
          BY <1>11, <4>1, <5>1
        <5> QED
          BY <1>2, <1>6, <3>1, <4>1, <5>1, <5>2 DEF Unseen, In
      <4> QED
        BY <1>2, <3>3, <4>1, <4>2, <4>3, <4>4 DEF ScanOK
    <3> QED
      BY <3>2, <3>3
  <2>5. TakeOK(u)'
    <3> SUFFICES ASSUME pc[u] = "take" PROVE TakeOK(u)'
      BY <1>2 DEF TakeOK
    <3>1. key[u] \in Key
      BY DEF PlaceOK
    <3>2. PICK g \in Idx :
            /\ first[u] = Probe[key[u]][g] /\ Clear(key[u], g)
            /\ live[first[u]] = None => Unseen(key[u], TryMax + 1)
      BY <2>1 DEF TakeOK
    <3>3. first[u] \in Slot
      BY <3>1, <3>2, Probes
    <3>4. Clear(key[u], g)'
      BY <1>2, <1>5, <3>1, <3>2 DEF Clear, In
    <3>5. ASSUME live'[first[u]] = None PROVE Unseen(key[u], TryMax + 1)'
      <4>1. live[first[u]] = None /\ first[u] # a
        BY <2>2, <3>3, <3>5
      <4>2. key[u] # k
        BY <1>11, <3>2, <4>1
      <4> QED
        BY <1>2, <1>6, <3>1, <3>2, <4>1, <4>2 DEF Unseen, In
    <3> QED
      BY <1>2, <3>2, <3>4, <3>5 DEF TakeOK
  <2>6. HeldOK(u)'
    <3> SUFFICES ASSUME pc[u] = "held" PROVE HeldOK(u)'
      BY <1>2 DEF HeldOK
    <3>1. key[u] \in Key /\ at[u] \in Slot /\ at[u] # a
      BY <1>1, <1>12 DEF PlaceOK
    <3>2. live'[at[u]] = live[at[u]]
      BY <1>2, <3>1 DEF TypeOK
    <3>3. CASE live[at[u]] = None
      <4>1. key[u] # k
        BY <1>1, <1>12, <3>3, UnusedOnce
      <4>2. PICK g \in Idx : /\ at[u] = Probe[key[u]][g] /\ Clear(key[u], g)
                             /\ Unseen(key[u], TryMax + 1)
        BY <2>1, <3>3 DEF HeldOK
      <4>3. Clear(key[u], g)' /\ Unseen(key[u], TryMax + 1)'
        BY <1>2, <1>5, <1>6, <3>1, <4>1, <4>2 DEF Clear, Unseen, In
      <4> QED
        BY <1>2, <3>2, <3>3, <4>2, <4>3 DEF HeldOK
    <3>4. CASE live[at[u]] # None
      <4>1. live[at[u]] = key[u] /\ record[key[u]] = at[u]
        BY <2>1, <3>4 DEF HeldOK
      <4>2. key[u] # k /\ record'[key[u]] = record[key[u]]
        BY <1>1, <1>2, <3>1, <4>1, Probes DEF TypeOK
      <4> QED
        BY <1>2, <3>2, <3>4, <4>1, <4>2 DEF HeldOK
    <3> QED
      BY <3>3, <3>4
  <2> QED
    BY <2>4, <2>5, <2>6
<1>13. ScanOK(t)' /\ TakeOK(t)' /\ HeldOK(t)'
  <2>1. live'[a] = k /\ record'[k] = a
    BY <1>1, <1>2 DEF TypeOK
  <2> QED
    BY <1>1, <1>2, <2>1 DEF ScanOK, TakeOK, HeldOK
<1>14. LookupsOK'
  BY <1>12, <1>13 DEF LookupsOK
<1>15. Inv'
  BY <1>7, <1>8, <1>9, <1>10, <1>14
<1>16. Owned(k) = {}
  BY <1>1, Probes DEF Owned, LookupsOK, HeldOK, PlaceOK
<1>17. /\ \A u \in Thread \ {t} : pc[u] = "held" => at[u] # a
       /\ \A u \in Thread \ {t} :
            pc[u] = "held" => at[u] \in Slot /\ live'[at[u]] = live[at[u]]
  BY <1>1, <1>2 DEF PlaceOK, TypeOK
<1>18. Owned(k)' = {t}
  <2>1. t \in Owned(k)'
    BY <1>1, <1>2 DEF Owned, TypeOK
  <2>2. \A u \in Thread \ {t} : u \in Owned(k)' => u \in Owned(k)
    BY <1>2, <1>17 DEF Owned
  <2> QED
    BY <1>16, <2>1, <2>2 DEF Owned
<1>19. \A j \in Key \ {k} : Owned(j)' = Owned(j)
  BY <1>2, <1>17 DEF Owned
<1>20. Owner[k] = None /\ Owner' = [Owner EXCEPT ![k] = t]
  BY <1>1, <1>2, <1>15, <1>16, <1>18, <1>19, OwnerEnters
<1>21. \A j \in Key \ {k} : record[j] # a
  BY <1>1, RecordLive, Probes
<1>22. Table!Enter(t, k)
  BY <1>1, <1>2, <1>20, <1>21 DEF Table!Enter
<1> QED
  BY <1>15, <1>22

-----------------------------------------------------------------------------
(* An entry is released; a new search *)

LEMMA ReleaseStep ==
  ASSUME Inv, NEW t \in Thread, Release(t)
  PROVE  /\ Inv' /\ UNCHANGED record
         /\ \/ UNCHANGED Owner
            \/ \E k \in Key : Table!Leave(t, k)
<1> USE DEF Inv
<1>1. /\ pc[t] = "held" /\ key[t] \in Key /\ at[t] \in Slot
      /\ i[t] = 0 /\ first[t] = None
      /\ lock' = [lock EXCEPT ![at[t]] = None]
      /\ UNCHANGED <<live, use, i, first, left, record>>
  BY DEF Release, PlaceOK
<1>2. /\ pc'[t] = "idle"
      /\ \A u \in Thread \ {t} : /\ pc'[u] = pc[u] /\ key'[u] = key[u]
                                 /\ at'[u] = at[u]
  BY DEF Release, TypeOK
<1>3. TypeOK'
  BY DEF Release, TypeOK
<1>4. PlaceOK'
  <2>1. ASSUME NEW u \in Thread, NEW s \in Slot
        PROVE  lock'[s] = u <=> pc'[u] = "held" /\ at'[u] = s
    <3>1. lock'[s] = IF s = at[t] THEN None ELSE lock[s]
      BY <1>1 DEF TypeOK
    <3>2. CASE u = t
      BY <1>1, <1>2, <3>1, <3>2, Probes DEF PlaceOK
    <3>3. CASE u # t
      BY <1>1, <1>2, <3>1, <3>3, Probes DEF PlaceOK
    <3> QED
      BY <3>2, <3>3
  <2> QED
    BY <1>1, <1>2, <2>1 DEF PlaceOK
<1>5. RecordOK' /\ NoTwins'
  BY <1>1, SameRecords
<1>6. ScanOK(t)' /\ TakeOK(t)' /\ HeldOK(t)'
  BY <1>2 DEF ScanOK, TakeOK, HeldOK
<1>7. LookupsOK'
  BY <1>1, <1>2, <1>6, OtherLookups
<1>8. Inv'
  BY <1>3, <1>4, <1>5, <1>7
<1>9. \A j \in Key : Owned(j)' = Owned(j) \ {t}
  BY <1>1, <1>2 DEF Owned
<1>10. CASE live[at[t]] = None
  <2>1. \A j \in Key : Owned(j)' = Owned(j)
    BY <1>9, <1>10 DEF Owned
  <2> QED
    BY <1>1, <1>8, <2>1, SameOwners
<1>11. CASE live[at[t]] # None
  <2>1. PICK k \in Key : k = key[t]
    BY <1>1
  <2>2. Owned(k) = {t}
    <3>1. t \in Owned(k)
      BY <1>1, <1>11, <2>1 DEF Owned
    <3> QED
      BY <2>1, <3>1, OneOwner DEF Owners
  <2>3. Owned(k)' = {} /\ \A j \in Key \ {k} : Owned(j)' = Owned(j)
    <3>1. \A j \in Key \ {k} : t \notin Owned(j)
      BY <2>1 DEF Owned
    <3> QED
      BY <1>9, <2>2, <3>1
  <2>4. Owner[k] = t /\ Owner' = [Owner EXCEPT ![k] = None]
    BY <1>8, <2>2, <2>3, OwnerLeaves
  <2>5. Table!Leave(t, k)
    BY <1>1, <2>4 DEF Table!Leave
  <2> QED
    BY <1>1, <1>8, <2>5
<1> QED
  BY <1>10, <1>11

LEMMA NewSearchStep ==
  ASSUME Inv, NewSearch
  PROVE  Inv' /\ Table!NewSearch
<1> USE DEF Inv
<1>1. /\ \A t \in Thread : pc[t] = "idle"
      /\ \A s \in Slot : live'[s] \in {None, live[s]}
      /\ live' \in [Slot -> Key \cup {None}]
      /\ record' = [k \in Key |-> None] /\ left' = [t \in Thread |-> Visits]
      /\ UNCHANGED <<lock, pc, key, i, first, at>>
  BY DEF NewSearch, TypeOK
<1>2. use' \in Nat
  <2>1. IsFiniteSet({s \in Slot : live'[s] # None})
    BY TableAssumption, FS_Subset
  <2> QED
    BY <2>1, FS_CardinalityType DEF NewSearch
<1>3. TypeOK'
  <2>1. left' \in [Thread -> 0..Visits] /\ record' \in [Key -> Slot \cup {None}]
    BY <1>1, TableAssumption
  <2> QED
    BY <1>1, <1>2, <2>1 DEF TypeOK
<1>4. PlaceOK'
  BY <1>1 DEF PlaceOK
<1>5. RecordOK'
  BY <1>1 DEF RecordOK
<1>6. NoTwins'
  BY <1>1, Probes DEF NoTwins, In
<1>7. LookupsOK'
  BY <1>1 DEF LookupsOK, ScanOK, TakeOK, HeldOK
<1>8. Inv'
  BY <1>3, <1>4, <1>5, <1>6, <1>7
<1>9. \A k \in Key : Owned(k) = {} /\ Owned(k)' = {}
  BY <1>1 DEF Owned
<1>10. Owner' = Owner
  BY <1>8, <1>9, SameOwners
<1>11. \A k \in Key : Owner[k] = None
  BY <1>9 DEF Owner
<1> QED
  BY <1>1, <1>8, <1>10, <1>11 DEF Table!NewSearch

-----------------------------------------------------------------------------
(* The theorems *)

LEMMA NextStep ==
  ASSUME Inv, [Next]_vars
  PROVE  Inv' /\ [Table!Next]_<<record, Owner>>
<1>1. ASSUME NEW t \in Thread, Scan(t)
      PROVE  Inv' /\ [Table!Next]_<<record, Owner>>
  <2>1. /\ pc[t] = "scan" /\ lock[Probe[key[t]][i[t]]] = None
        /\ UNCHANGED <<live, use, key, left>> /\ key[t] \in Key
    BY <1>1 DEF Scan, Inv, PlaceOK
  <2>2. CASE In(key[t], i[t]) = key[t]
    <3>1. Got(t, Probe[key[t]][i[t]])
      BY <1>1, <2>2 DEF Scan, In
    <3> QED
      BY <2>1, <2>2, <3>1, FoundStep DEF Table!Next
  <2>3. CASE In(key[t], i[t]) # key[t]
    BY <1>1, <2>3, MissedStep
  <2> QED
    BY <2>2, <2>3
<1>2. ASSUME NEW t \in Thread, Take(t)
      PROVE  Inv' /\ [Table!Next]_<<record, Owner>>
  BY <1>2, TakeStep
<1>3. ASSUME NEW t \in Thread, Create(t)
      PROVE  Inv' /\ [Table!Next]_<<record, Owner>>
  <2>1. key[t] \in Key
    BY <1>3 DEF Create, Inv, PlaceOK
  <2> QED
    BY <1>3, <2>1, CreateStep DEF Table!Next
<1>4. ASSUME NEW t \in Thread, Release(t)
      PROVE  Inv' /\ [Table!Next]_<<record, Owner>>
  BY <1>4, ReleaseStep DEF Table!Next
<1>5. ASSUME NEW t \in Thread, NEW k \in Key, Lookup(t, k)
      PROVE  Inv' /\ [Table!Next]_<<record, Owner>>
  BY <1>5, LookupStep
<1>6. CASE NewSearch
  BY <1>6, NewSearchStep DEF Table!Next
<1>7. ASSUME NEW t \in Thread, NEW k \in Key, LockAgain(t, k)
      PROVE  Inv' /\ [Table!Next]_<<record, Owner>>
  BY <1>7, LockAgainStep DEF Table!Next
<1>8. CASE UNCHANGED vars
  <2>1. Inv'
    BY <1>8 DEF vars, Inv, TypeOK, PlaceOK, RecordOK, NoTwins, LookupsOK,
       ScanOK, TakeOK, HeldOK, Visible, Clear, Unseen, In
  <2>2. \A k \in Key : Owned(k)' = Owned(k)
    BY <1>8 DEF vars, Owned
  <2> QED
    BY <1>8, <2>1, <2>2, SameOwners DEF vars
<1> QED
  BY <1>1, <1>2, <1>3, <1>4, <1>5, <1>6, <1>7, <1>8 DEF Next, Step

LEMMA NextImplements ==
  Inv /\ [Next]_vars => Inv' /\ [Table!Next]_<<record, Owner>>
  BY NextStep

LEMMA Invariance == Spec => []Inv
<1>1. Init => Inv
  BY InitInv
<1>2. Inv /\ [Next]_vars => Inv'
  BY NextImplements
<1> QED
  BY <1>1, <1>2, PTL DEF Spec

\* TypeOK of the table, in every state.
THEOREM TypesKept == Spec => []TypeOK
<1>1. Inv => TypeOK
  BY DEF Inv
<1> QED
  BY <1>1, Invariance, PTL

\* The table implements NodeTable: in a search a position has one record,
\* found or made, and one thread at a time is in it.
THEOREM Implements == Spec => TableSpec
<1>1. Init => Table!Init
  BY InitInv
<1>2. Inv /\ [Next]_vars => [Table!Next]_<<record, Owner>>
  BY NextImplements
<1> QED
  BY <1>1, <1>2, Invariance, PTL DEF Spec, TableSpec, Table!Spec
=============================================================================
