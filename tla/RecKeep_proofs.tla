--------------------------- MODULE RecKeep_proofs ---------------------------
(***************************************************************************)
(* Proofs about the record keeper, for every cluster size, every set of    *)
(* games, any number of crashes, and whether or not start() can remove     *)
(* every file it has archived, in both builds.                             *)
(*                                                                         *)
(* The inductive invariant has two halves: what holds of the disk at any   *)
(* moment, so that it survives a crash (DiskInv), and how the memory of a  *)
(* running process relates to it at each step (MemInv).                    *)
(***************************************************************************)
EXTENDS RecKeep, FiniteSetTheorems, SequenceTheorems, WellFoundedInduction,
        TLAPS

Live == {"idle"} \cup Booting \cup Storing

(* The cluster that begins at the given number is archived. *)
Archived(start) == \E a \in Whole : a.start = start

(* Of one number there is one record, wherever it is found. *)
Unique == \A r, q \in Kept : r.no = q.no => r = q

(* The numbers have no gap, and the latest record is still in the pool. *)
Numbers ==
  \/ files = {} /\ Whole = {}
  \/ \E m \in Nos(files) : Nos(Kept) = 0 .. m

(* A cluster is archived only when a later record is there. *)
Behind == \A a \in Whole : a.start + SizeCluster \in Nos(Kept)

(* A file with a gap below it in its cluster was left by an interrupted or *)
(* failed removal: its cluster is archived.                                *)
Holes ==
  \A r \in files, k \in Nat :
    k < r.no /\ k \notin Nos(files) /\ Boundary(k) = Boundary(r.no)
      => Archived(Boundary(r.no) - SizeCluster)

(* As long as every removal succeeds, the pool directory has no gap. *)
NoGap == ~skipped => \E lo \in Nat, hi \in Int : Nos(files) = lo .. hi

DiskInv == Unique /\ Numbers /\ ArchivesExact /\ Behind /\ Holes /\ NoGap

(* What a running process believes of the pool. *)
PoolInv ==
  /\ pc \in Live /\ pool = {} => files = {} /\ pc \in {"idle", "rename"}
  /\ pc \in Live /\ pool # {} =>
       /\ pool = Min(pool) .. Max(pool)
       /\ Min(pool) \in pool /\ Max(pool) \in pool
       /\ pool \subseteq Nos(files)
       /\ Nos(Kept) = 0 .. Max(pool)
  /\ pc \in Live /\ ~skipped => pool = Nos(files)
  /\ ~skipped => pc # "dead"

(* start(): clusters are archived from a boundary on. *)
BootInv ==
  /\ pc \in Booting => archtmp = <<>> /\ first
  /\ pc \in {"boot", "bootwrite", "refill"} => Min(pool) % SizeCluster = 0
  /\ pc = "bootwrite" => /\ i64_end = Min(pool) + SizeCluster
                         /\ i64_end \in pool
  /\ pc = "refill" => Max(pool) < Min(pool) + SizeCluster

(* Only files of an archived cluster are removed, never the latest one. *)
RemoveInv ==
  pc \in {"trim", "bootremove", "remove"} =>
    /\ i64_end % SizeCluster = 0 /\ i64_end \in pool
    /\ i64_end <= Min(pool) + SizeCluster
    /\ Archived(i64_end - SizeCluster)

(* transact(): where the record being stored is. *)
StoreInv ==
  /\ pc = "rename" => rec \in Record /\ rec.no = NextNo(pool)
  /\ pc \in Storing \ {"rename"} => rec \in files /\ rec.no = Max(pool)
  /\ pc = "archrename" => /\ i64_end = Min(pool) + SizeCluster
                          /\ Max(pool) = i64_end
  /\ pc = "remove" => Max(pool) = i64_end
  /\ pc = "append" => Max(pool) < Min(pool) + SizeCluster

(* The temporary archive holds the first n records of the pool. *)
Mirror(n) ==
  /\ Len(archtmp) = n /\ n <= SizeCluster
  /\ first = (n = 0)
  /\ pool # {} => Min(pool) % SizeCluster = 0
  /\ \A i \in 1 .. n : /\ archtmp[i].rec \in files
                       /\ archtmp[i].rec.no = Min(pool) + i - 1
                       /\ archtmp[i].sep = (i > 1)

TmpInv ==
  /\ pc \in {"idle", "rename"} =>
       Mirror(IF pool = {} THEN 0 ELSE Max(pool) + 1 - Min(pool))
  /\ pc \in {"ema", "emarename", "cluster", "archrename", "append"} =>
       Mirror(Max(pool) - Min(pool))
  /\ pc \in {"idle", "rename", "ema", "emarename", "cluster", "append"} =>
       enc = "tmp"

MemInv == PoolInv /\ BootInv /\ RemoveInv /\ StoreInv /\ TmpInv

(* The inductive invariant. *)
IInv == TypeOK /\ DiskInv /\ MemInv

-----------------------------------------------------------------------------
(* Arithmetic of clusters. *)

LEMMA DivMod ==
  ASSUME NEW S \in Nat, S > 0, NEW k \in Nat
  PROVE  /\ k \div S \in Nat /\ k % S \in 0 .. S - 1
         /\ k = (k \div S) * S + (k % S)
OBVIOUS

LEMMA Quotient ==
  ASSUME NEW S \in Nat, S > 0,
         NEW q \in Nat, NEW r \in 0 .. S - 1, NEW k \in Nat, k = q * S + r
  PROVE  k \div S = q /\ k % S = r
OBVIOUS

LEMMA Distribute ==
  ASSUME NEW S \in Nat, NEW q \in Nat
  PROVE  (q + 1) * S = q * S + S /\ q * S \in Nat
OBVIOUS

(* The boundary above a number: a multiple of the cluster size, less than  *)
(* a cluster away.                                                         *)
LEMMA BoundaryAbove ==
  ASSUME NEW k \in Nat
  PROVE  /\ Boundary(k) \in Nat /\ k < Boundary(k)
         /\ Boundary(k) - SizeCluster \in Nat /\ Boundary(k) - SizeCluster <= k
         /\ Boundary(k) % SizeCluster = 0
         /\ (Boundary(k) - SizeCluster) % SizeCluster = 0
<1> DEFINE S == SizeCluster
           q == k \div S
           r == k % S
<1>1. S \in Nat /\ S > 0
  BY ClusterAssumption
<1> HIDE DEF S
<1>2. q \in Nat /\ r \in 0 .. S - 1 /\ k = q * S + r
  BY <1>1, DivMod
<1> HIDE DEF q, r
<1>3. (q + 1) * S = q * S + S /\ q * S \in Nat
  BY <1>1, <1>2, Distribute
<1>4. ((q + 1) * S) % S = 0 /\ (q * S) % S = 0
  BY <1>1, <1>2, <1>3, Quotient
<1>5. Boundary(k) = (q + 1) * S
  BY DEF Boundary, q, S
<1>6. Boundary(k) - S = q * S
  BY <1>1, <1>3, <1>5
<1>7. Boundary(k) \in Nat /\ k < Boundary(k) /\ q * S <= k
  BY <1>1, <1>2, <1>3, <1>5
<1> QED
  BY <1>3, <1>4, <1>5, <1>6, <1>7 DEF S

(* All numbers of a cluster have the same boundary. *)
LEMMA BoundaryOf ==
  ASSUME NEW s \in Nat, s % SizeCluster = 0, NEW k \in s .. s + SizeCluster - 1
  PROVE  Boundary(k) = s + SizeCluster /\ (s + SizeCluster) % SizeCluster = 0
<1> DEFINE S == SizeCluster
           q == s \div S
<1>1. S \in Nat /\ S > 0
  BY ClusterAssumption
<1>2. s % S = 0
  OBVIOUS
<1> HIDE DEF S
<1>3. q \in Nat /\ s = q * S
  <2>1. q \in Nat /\ s = q * S + (s % S) /\ q * S \in Nat
    BY <1>1, DivMod, Distribute
  <2> QED
    BY <1>2, <2>1
<1> HIDE DEF q
<1>4. (q + 1) * S = q * S + S /\ q * S \in Nat
  BY <1>1, <1>3, Distribute
<1>5. k \in Nat /\ k - s \in 0 .. S - 1 /\ k = q * S + (k - s)
  BY <1>1, <1>3 DEF S
<1>6. k \div S = q
  BY <1>1, <1>3, <1>5, Quotient
<1>7. Boundary(k) = s + S
  BY <1>3, <1>4, <1>6 DEF Boundary, S
<1>8. (s + S) % S = 0
  <2>1. 0 \in 0 .. S - 1 /\ q + 1 \in Nat /\ s + S \in Nat /\ s + S = (q + 1) * S + 0
    BY <1>1, <1>3, <1>4
  <2> QED
    BY <1>1, <2>1, Quotient
<1> QED
  BY <1>7, <1>8 DEF S

-----------------------------------------------------------------------------
(* Least and greatest elements. *)

LEMMA MinIs ==
  ASSUME NEW T \in SUBSET Int, NEW m \in T, \A x \in T : m <= x
  PROVE  Min(T) = m
<1>1. \E x \in T : \A y \in T : x <= y
  OBVIOUS
<1>2. Min(T) \in T /\ \A y \in T : Min(T) <= y
  BY <1>1, Zenon DEF Min
<1> DEFINE n == Min(T)
<1>3. n \in Int /\ m \in Int
  BY <1>2
<1>4. n <= m /\ m <= n
  BY <1>2, <1>3
<1> HIDE DEF n
<1>5. n = m
  BY <1>3, <1>4
<1> QED
  BY <1>5 DEF n

LEMMA MaxIs ==
  ASSUME NEW T \in SUBSET Int, NEW m \in T, \A x \in T : x <= m
  PROVE  Max(T) = m
<1>1. \E x \in T : \A y \in T : x >= y
  OBVIOUS
<1>2. Max(T) \in T /\ \A y \in T : Max(T) >= y
  BY <1>1, Zenon DEF Max
<1> DEFINE n == Max(T)
<1>3. n \in Int /\ m \in Int
  BY <1>2
<1>4. n <= m /\ m <= n
  BY <1>2, <1>3
<1> HIDE DEF n
<1>5. n = m
  BY <1>3, <1>4
<1> QED
  BY <1>5 DEF n

LEMMA MinExists ==
  ASSUME NEW T \in SUBSET Nat, T # {}
  PROVE  Min(T) \in T /\ \A x \in T : Min(T) <= x
<1>1. \E m \in T : \A y \in T : ~(<<y, m>> \in OpToRel(<, Nat))
  BY NatLessThanWellFounded, WFMin
<1>2. PICK m \in T : \A y \in T : ~(<<y, m>> \in OpToRel(<, Nat))
  BY <1>1
<1>3. \A y \in T : ~(y < m)
  BY <1>2 DEF OpToRel
<1>4. \A y \in T : m <= y
  BY <1>3
<1>5. Min(T) = m
  BY <1>4, MinIs
<1> QED
  BY <1>4, <1>5

LEMMA IntervalEnds ==
  ASSUME NEW lo \in Nat, NEW hi \in Nat, lo <= hi
  PROVE  Min(lo .. hi) = lo /\ Max(lo .. hi) = hi
<1>1. lo \in lo .. hi /\ hi \in lo .. hi /\ lo .. hi \in SUBSET Int
  OBVIOUS
<1> QED
  <2>1. Min(lo .. hi) = lo
    <3>1. \A x \in lo .. hi : lo <= x
      OBVIOUS
    <3> QED
      BY <1>1, <3>1, MinIs
  <2>2. Max(lo .. hi) = hi
    <3>1. \A x \in lo .. hi : x <= hi
      OBVIOUS
    <3> QED
      BY <1>1, <3>1, MaxIs
  <2> QED
    BY <2>1, <2>2

-----------------------------------------------------------------------------
(* Records on the disk. *)

(* What is kept: the files and the bodies of whole archives. *)
LEMMA KeptIs ==
  \A r : r \in Kept <=> \/ r \in files
                        \/ \E a \in Whole : \E i \in DOMAIN a.body :
                             r = a.body[i].rec
  BY DEF Kept, ToSet

LEMMA NosFile == \A S, r : r \in S => r.no \in Nos(S)
  BY DEF Nos

(* The file of a number in the pool directory. *)
LEMMA FileOfNo ==
  ASSUME NEW k \in Nos(files)
  PROVE  FileOf(k) \in files /\ FileOf(k).no = k
  BY DEF Nos, FileOf

LEMMA NosRemoved ==
  ASSUME NEW k
  PROVE  Nos(Removed(k)) = Nos(files) \ {k}
  BY DEF Nos, Removed

(* The pool of a running process, when it is not empty. *)
LEMMA PoolFacts ==
  ASSUME IInv, pc \in Live, pool # {}
  PROVE  /\ Min(pool) \in Nat /\ Max(pool) \in Nat
         /\ Min(pool) <= Max(pool)
         /\ Min(pool) \in pool /\ Max(pool) \in pool
         /\ \A k \in Nat : k \in pool <=> Min(pool) <= k /\ k <= Max(pool)
         /\ pool \subseteq Nos(files)
         /\ Nos(Kept) = 0 .. Max(pool)
<1>1. /\ pool = Min(pool) .. Max(pool)
      /\ Min(pool) \in pool /\ Max(pool) \in pool
      /\ pool \subseteq Nos(files) /\ Nos(Kept) = 0 .. Max(pool)
  BY DEF IInv, MemInv, PoolInv
<1>2. Min(pool) \in Nat /\ Max(pool) \in Nat
  BY <1>1 DEF IInv, TypeOK
<1> QED
  BY <1>1, <1>2

(* What a complete archive holds, record by record. *)
LEMMA ArchiveFacts ==
  ASSUME IInv, NEW a \in Whole
  PROVE  /\ a.start \in Nat /\ a.start % SizeCluster = 0
         /\ DOMAIN a.body = 1 .. SizeCluster
         /\ \A i \in 1 .. SizeCluster : /\ a.body[i].rec.no = a.start + i - 1
                                        /\ a.body[i].rec \in Kept
<1>1. a \in Archive /\ a \in archs /\ a.whole
  BY DEF Whole, IInv, TypeOK
<1>2. a.start \in Nat /\ a.body \in Seq(Entry)
  BY <1>1 DEF Archive
<1>3. /\ a.start % SizeCluster = 0 /\ Len(a.body) = SizeCluster
      /\ \A i \in 1 .. SizeCluster : a.body[i].rec.no = a.start + i - 1
  BY DEF IInv, DiskInv, ArchivesExact
<1>4. DOMAIN a.body = 1 .. SizeCluster
  BY <1>2, <1>3, LenProperties
<1> QED
  BY <1>2, <1>3, <1>4, KeptIs

(* A file of an archived cluster is in the archive. *)
LEMMA ArchivedFile ==
  ASSUME IInv, NEW a \in Whole, NEW r \in Kept,
         r.no \in a.start .. a.start + SizeCluster - 1
  PROVE  \E i \in DOMAIN a.body : r = a.body[i].rec
<1>1. a.start \in Nat /\ SizeCluster \in Nat
  BY ArchiveFacts, ClusterAssumption
<1> DEFINE i == r.no - a.start + 1
<1>2. i \in 1 .. SizeCluster /\ a.start + i - 1 = r.no
  BY <1>1
<1> HIDE DEF i
<1>3. /\ i \in DOMAIN a.body /\ a.body[i].rec.no = r.no
      /\ a.body[i].rec \in Kept
  BY <1>2, ArchiveFacts
<1> QED
  BY <1>3 DEF IInv, DiskInv, Unique

-----------------------------------------------------------------------------
(* Removing an archived file changes nothing of what is kept. *)

LEMMA RemoveKeeps ==
  ASSUME IInv, pc \in {"trim", "bootremove", "remove"}, Min(pool) < i64_end,
         files' = Removed(Min(pool)), UNCHANGED archs, skipped => skipped'
  PROVE  Kept' = Kept /\ DiskInv'
<1> DEFINE lo == Min(pool)
           hi == Max(pool)
           S  == SizeCluster
<1>1. /\ i64_end \in pool /\ i64_end <= lo + S
      /\ Archived(i64_end - S)
  BY DEF IInv, MemInv, RemoveInv
<1>2. pool # {} /\ pc \in Live
  BY <1>1 DEF Live, Booting, Storing
<1>3. /\ lo \in Nat /\ hi \in Nat /\ i64_end \in Nat
      /\ lo < i64_end /\ i64_end <= hi
      /\ lo \in Nos(files) /\ hi \in Nos(files) /\ Nos(Kept) = 0 .. hi
  BY <1>1, <1>2, PoolFacts DEF IInv, TypeOK
<1>4. PICK a \in Whole : a.start = i64_end - S
  BY <1>1 DEF Archived
<1>5. /\ a.start \in Nat /\ a.start % S = 0 /\ S \in Nat
      /\ a.start <= lo /\ lo < a.start + S
  <2>1. /\ a.start \in Nat /\ a.start % S = 0 /\ S \in Nat
    BY <1>4, ArchiveFacts, ClusterAssumption
  <2> HIDE DEF lo, hi, S
  <2> QED
    BY <1>1, <1>3, <1>4, <2>1
<1>6. Whole' = Whole
  BY DEF Whole
<1> HIDE DEF lo, hi, S
<1>7. files' = Removed(lo)
  BY DEF lo
<1>8. Kept' = Kept
  <2>1. \A r : r \in Kept' <=> \/ r \in files'
                               \/ \E b \in Whole : \E i \in DOMAIN b.body :
                                    r = b.body[i].rec
    BY <1>6 DEF Kept, ToSet
  <2>2. ASSUME NEW r \in files, r.no = lo
        PROVE  \E i \in DOMAIN a.body : r = a.body[i].rec
    <3>1. r \in Kept /\ r.no \in a.start .. a.start + SizeCluster - 1
      BY <1>3, <1>5, <2>2, KeptIs DEF S
    <3> QED
      BY <3>1, ArchivedFile
  <2>3. \A r : r \in files => r \in files' \/ r.no = lo
    BY <1>7 DEF Removed
  <2>4. \A r : r \in files' => r \in files
    BY <1>7 DEF Removed
  <2>5. \A r : r \in Kept' <=> r \in Kept
    BY <2>1, <2>2, <2>3, <2>4, KeptIs
  <2> QED
    BY <2>5
<1>9. Nos(files') = Nos(files) \ {lo}
  BY <1>7, NosRemoved
<1>10. Unique'
  BY <1>8 DEF IInv, DiskInv, Unique
<1>11. Numbers'
  BY <1>3, <1>8, <1>9 DEF Numbers
<1>12. ArchivesExact' /\ Behind'
  BY <1>6, <1>8 DEF IInv, DiskInv, ArchivesExact, Behind
<1>13. Holes'
  <2> SUFFICES ASSUME NEW r \in files', NEW k \in Nat,
                      k < r.no, k \notin Nos(files'),
                      Boundary(k) = Boundary(r.no)
               PROVE  Archived(Boundary(r.no) - SizeCluster)
    BY <1>6 DEF Holes, Archived
  <2>1. r \in files
    BY <1>7 DEF Removed
  <2>2. CASE k \notin Nos(files)
    BY <2>1, <2>2 DEF IInv, DiskInv, Holes
  <2>3. CASE k = lo
    <3>0. /\ lo \in a.start .. a.start + SizeCluster - 1
          /\ a.start \in Nat /\ a.start % SizeCluster = 0
      BY <1>3, <1>5 DEF S
    <3>1. Boundary(lo) = a.start + SizeCluster
      BY <3>0, BoundaryOf
    <3>2. Boundary(r.no) - SizeCluster = a.start
      BY <1>5, <2>3, <3>1 DEF S
    <3> QED
      BY <3>2 DEF Archived
  <2> QED
    BY <1>9, <2>2, <2>3
<1>14. NoGap'
  <2> SUFFICES ASSUME ~skipped
               PROVE  \E l \in Nat, h \in Int : Nos(files') = l .. h
    BY DEF NoGap
  <2>1. Nos(files) = pool
    BY <1>2 DEF IInv, MemInv, PoolInv
  <2>2. pool = lo .. hi
    BY <1>2 DEF IInv, MemInv, PoolInv, lo, hi
  <2>3. Nos(files') = lo + 1 .. hi
    BY <1>3, <1>9, <2>1, <2>2
  <2> QED
    BY <1>3, <2>3
<1> QED
  BY <1>8, <1>10, <1>11, <1>12, <1>13, <1>14 DEF DiskInv

-----------------------------------------------------------------------------
(* Writing an archive changes nothing of what is kept either, as long as   *)
(* every record of the cluster is still in the pool: whether the file is   *)
(* complete (w) or only opened, which empties one of the same name.        *)

LEMMA ArchivePut ==
  ASSUME IInv, NEW s \in Nat, s % SizeCluster = 0,
         NEW body \in Seq(Entry), NEW w \in BOOLEAN,
         \A k \in s .. s + SizeCluster - 1 : k \in Nos(files),
         s + SizeCluster \in Nos(Kept),
         w => /\ Len(body) = SizeCluster
              /\ \A i \in 1 .. SizeCluster : /\ body[i].rec \in files
                                             /\ body[i].rec.no = s + i - 1
                                             /\ body[i].sep = (i > 1),
         archs' = PutArch([start |-> s, body |-> body, whole |-> w]),
         UNCHANGED <<files, skipped>>
  PROVE  Kept' = Kept /\ DiskInv' /\ (w => \E b \in Whole' : b.start = s)
<1> DEFINE new == [start |-> s, body |-> body, whole |-> w]
<1>1. SizeCluster \in Nat \ {0}
  BY ClusterAssumption
<1>2. \A b : b \in Whole' <=> \/ b \in Whole /\ b.start # s
                              \/ w /\ b = new
  BY DEF Whole, PutArch
<1>3. /\ new.start = s /\ new.body = body
      /\ w => DOMAIN new.body = 1 .. SizeCluster
  BY LenProperties
<1> HIDE DEF new
<1>4. \A r : r \in Kept' <=> \/ r \in files
                             \/ \E b \in Whole' : \E i \in DOMAIN b.body :
                                  r = b.body[i].rec
  BY DEF Kept, ToSet
<1>5. ASSUME NEW r \in Kept'
      PROVE  r \in Kept
  <2>1. CASE r \in files
    BY <2>1, KeptIs
  <2>2. ASSUME NEW b \in Whole', NEW i \in DOMAIN b.body, r = b.body[i].rec
        PROVE  r \in Kept
    <3>1. CASE b \in Whole
      BY <2>2, <3>1, KeptIs
    <3>2. CASE w /\ b = new
      <4>1. i \in 1 .. SizeCluster /\ r = body[i].rec
        BY <1>3, <2>2, <3>2
      <4> QED
        BY <3>2, <4>1, KeptIs
    <3> QED
      BY <1>2, <3>1, <3>2
  <2> QED
    BY <1>4, <2>1, <2>2
<1>6. ASSUME NEW r \in Kept
      PROVE  r \in Kept'
  <2>1. CASE r \in files
    BY <1>4, <2>1
  <2>2. ASSUME NEW b \in Whole, NEW i \in DOMAIN b.body, r = b.body[i].rec
        PROVE  r \in Kept'
    <3>1. CASE b.start # s
      BY <1>2, <1>4, <2>2, <3>1
    <3>2. CASE b.start = s
      <4>1. i \in 1 .. SizeCluster /\ r.no = s + i - 1
        BY <2>2, <3>2, ArchiveFacts
      <4>2. r.no \in s .. s + SizeCluster - 1
        BY <1>1, <4>1
      <4>3. PICK q \in files : q.no = r.no
        BY <4>2 DEF Nos
      <4>4. q \in Kept
        BY <4>3, KeptIs
      <4>5. q = r
        BY <4>3, <4>4 DEF IInv, DiskInv, Unique
      <4> QED
        BY <1>4, <4>3, <4>5
    <3> QED
      BY <3>1, <3>2
  <2> QED
    BY <2>1, <2>2, KeptIs
<1>7. Kept' = Kept
  BY <1>5, <1>6
<1>8. Unique'
  BY <1>7 DEF IInv, DiskInv, Unique
<1>9. Numbers'
  <2>1. s \in Nos(files)
    BY <1>1
  <2>2. files # {}
    BY <2>1 DEF Nos
  <2> QED
    BY <1>7, <2>2 DEF IInv, DiskInv, Numbers
<1>10. ArchivesExact'
  <2> SUFFICES ASSUME NEW b \in Whole'
               PROVE  /\ b.start % SizeCluster = 0
                      /\ Len(b.body) = SizeCluster
                      /\ \A i \in 1 .. SizeCluster :
                           /\ b.body[i].rec.no = b.start + i - 1
                           /\ b.body[i].sep = (i > 1)
    BY DEF ArchivesExact
  <2>1. CASE b \in Whole
    BY <2>1 DEF IInv, DiskInv, ArchivesExact
  <2>2. CASE w /\ b = new
    BY <1>3, <2>2
  <2> QED
    BY <1>2, <2>1, <2>2
<1>11. Behind'
  <2>1. \A b \in Whole : b.start + SizeCluster \in Nos(Kept)
    BY DEF IInv, DiskInv, Behind
  <2> QED
    BY <1>2, <1>3, <1>7, <2>1 DEF Behind
<1>12. Holes'
  <2> SUFFICES ASSUME NEW r \in files, NEW k \in Nat,
                      k < r.no, k \notin Nos(files),
                      Boundary(k) = Boundary(r.no)
               PROVE  \E a \in Whole' : a.start = Boundary(r.no) - SizeCluster
    BY DEF Holes, Archived
  <2>1. PICK a \in Whole : a.start = Boundary(r.no) - SizeCluster
    BY DEF IInv, DiskInv, Holes, Archived
  <2>2. /\ Boundary(k) \in Nat /\ k < Boundary(k)
        /\ Boundary(k) - SizeCluster <= k
    BY BoundaryAbove
  <2>3. a.start # s
    BY <1>1, <2>1, <2>2
  <2> QED
    BY <1>2, <2>1, <2>3
<1>13. NoGap'
  BY DEF IInv, DiskInv, NoGap
<1>14. w => \E b \in Whole' : b.start = s
  BY <1>2, <1>3
<1> QED
  BY <1>7, <1>8, <1>9, <1>10, <1>11, <1>12, <1>13, <1>14 DEF DiskInv

-----------------------------------------------------------------------------
(* A renamed record is new, takes the next number, and is kept.            *)

LEMMA RenameAdds ==
  ASSUME IInv, pc = "rename", files' = PutFile(rec), UNCHANGED archs,
         skipped => skipped'
  PROVE  /\ files' = files \cup {rec} /\ Kept' = Kept \cup {rec}
         /\ Nos(files') = Nos(files) \cup {rec.no}
         /\ \A q \in Kept : q.no # rec.no
         /\ Nos(Kept') = 0 .. rec.no
         /\ DiskInv'
<1> DEFINE hi == Max(pool)
<1>1. rec \in Record /\ rec.no = NextNo(pool) /\ pc \in Live
  BY DEF IInv, MemInv, StoreInv, Live, Booting, Storing
<1>2. CASE pool = {}
  <2>1. files = {} /\ rec.no = 0
    BY <1>1, <1>2 DEF IInv, MemInv, PoolInv, NextNo
  <2>2. Whole = {}
    BY <2>1 DEF IInv, DiskInv, Numbers, Nos
  <2>3. Kept = {}
    BY <2>1, <2>2, KeptIs
  <2>4. files' = {rec} /\ Kept' = {rec} /\ Whole' = {}
    <3>1. files' = {rec} /\ Whole' = {}
      BY <2>1, <2>2 DEF PutFile, Removed, Whole
    <3>2. \A r : r \in Kept' <=> \/ r \in files'
                                 \/ \E b \in Whole' : \E i \in DOMAIN b.body :
                                      r = b.body[i].rec
      BY DEF Kept, ToSet
    <3> QED
      BY <3>1, <3>2
  <2>5. Nos({rec}) = {0} /\ 0 .. 0 = {0} /\ Nos({}) = {}
    BY <2>1 DEF Nos
  <2>6. Unique' /\ Numbers' /\ ArchivesExact' /\ Behind'
    BY <2>4, <2>5 DEF Unique, Numbers, ArchivesExact, Behind
  <2>7. Holes'
    BY <2>1, <2>4 DEF Holes
  <2>8. NoGap'
    <3>1. Nos(files') = 0 .. 0 /\ 0 \in Nat /\ 0 \in Int
      BY <2>4, <2>5
    <3> QED
      BY <3>1 DEF NoGap
  <2> QED
    BY <2>1, <2>3, <2>4, <2>5, <2>6, <2>7, <2>8 DEF DiskInv
<1>3. CASE pool # {}
  <2>1. /\ hi \in Nat /\ hi \in Nos(files) /\ Nos(Kept) = 0 .. hi
        /\ rec.no = hi + 1
    BY <1>1, <1>3, PoolFacts DEF NextNo
  <2> HIDE DEF hi
  <2>2. ASSUME NEW q \in Kept PROVE q.no # rec.no
    BY <2>1, NosFile
  <2>3. \A q \in files : q \in Kept
    BY KeptIs
  <2>4. files' = files \cup {rec} /\ Whole' = Whole
    BY <2>2, <2>3 DEF PutFile, Removed, Whole
  <2>5. Kept' = Kept \cup {rec}
    BY <2>4 DEF Kept
  <2>6. Nos(files') = Nos(files) \cup {rec.no}
    BY <2>4 DEF Nos
  <2>7. Nos(Kept') = 0 .. rec.no
    <3>1. Nos(Kept') = Nos(Kept) \cup {rec.no}
      BY <2>5 DEF Nos
    <3> QED
      BY <2>1, <3>1
  <2>8. Unique'
    BY <2>2, <2>5 DEF IInv, DiskInv, Unique
  <2>9. Numbers'
    <3>1. rec.no \in Nos(files')
      BY <2>6
    <3> QED
      BY <2>7, <3>1 DEF Numbers
  <2>10. ArchivesExact'
    BY <2>4 DEF IInv, DiskInv, ArchivesExact
  <2>11. Behind'
    <3>1. Nos(Kept) \subseteq Nos(Kept')
      BY <2>1, <2>7
    <3> QED
      BY <2>4, <3>1 DEF IInv, DiskInv, Behind
  <2>12. Holes'
    <3> SUFFICES ASSUME NEW r \in files', NEW k \in Nat,
                        k < r.no, k \notin Nos(files'),
                        Boundary(k) = Boundary(r.no)
                 PROVE  Archived(Boundary(r.no) - SizeCluster)
      BY <2>4 DEF Holes, Archived
    <3>1. k \notin Nos(files)
      BY <2>6
    <3>2. CASE r \in files
      BY <3>1, <3>2 DEF IInv, DiskInv, Holes
    <3>3. CASE r = rec
      <4>1. k < hi
        BY <2>1, <3>1, <3>3
      <4>2. /\ Boundary(k) - SizeCluster \in Nat
            /\ Boundary(k) - SizeCluster <= k
            /\ (Boundary(k) - SizeCluster) % SizeCluster = 0
            /\ rec.no < Boundary(k) /\ Boundary(k) \in Nat
        BY <1>1, <3>3, BoundaryAbove DEF Record
      <4>3. SizeCluster \in Nat
        BY ClusterAssumption
      <4> DEFINE s == Boundary(k) - SizeCluster
      <4>4. s \in Nat /\ s <= k /\ s % SizeCluster = 0
            /\ Boundary(k) = s + SizeCluster
        BY <4>2, <4>3
      <4>5. rec.no < s + SizeCluster
        BY <4>2, <4>4
      <4> HIDE DEF s
      <4>6. hi \in s .. s + SizeCluster - 1
        BY <2>1, <4>1, <4>3, <4>4, <4>5
      <4>7. Boundary(hi) = s + SizeCluster
        BY <4>4, <4>6, BoundaryOf
      <4>8. PICK q \in files : q.no = hi
        BY <2>1 DEF Nos
      <4>9. Archived(Boundary(hi) - SizeCluster)
        BY <3>1, <4>1, <4>4, <4>7, <4>8 DEF IInv, DiskInv, Holes
      <4> QED
        BY <3>3, <4>4, <4>7, <4>9
    <3> QED
      BY <2>4, <3>2, <3>3
  <2>13. NoGap'
    <3> SUFFICES ASSUME ~skipped
                 PROVE  \E l \in Nat, h \in Int : Nos(files') = l .. h
      BY DEF NoGap
    <3>1. Nos(files) = pool /\ pool = Min(pool) .. hi
      BY <1>1, <1>3 DEF IInv, MemInv, PoolInv, hi
    <3>2. Min(pool) \in Nat /\ Min(pool) <= hi
      BY <1>1, <1>3, PoolFacts DEF hi
    <3>3. Nos(files') = Min(pool) .. hi + 1
      BY <2>1, <2>6, <3>1, <3>2
    <3> QED
      BY <2>1, <3>2, <3>3
  <2> QED
    BY <2>2, <2>4, <2>5, <2>6, <2>7, <2>8, <2>9, <2>10, <2>11, <2>12, <2>13
       DEF DiskInv
<1> QED
  BY <1>2, <1>3

(* A step that leaves both directories alone. *)
LEMMA SameDisk ==
  ASSUME IInv, UNCHANGED <<files, archs>>, skipped => skipped'
  PROVE  Kept' = Kept /\ Whole' = Whole /\ DiskInv'
<1>1. Whole' = Whole
  BY DEF Whole
<1>2. Kept' = Kept
  BY <1>1 DEF Kept
<1>3. Unique' /\ Numbers' /\ ArchivesExact' /\ Behind'
  BY <1>1, <1>2 DEF IInv, DiskInv, Unique, Numbers, ArchivesExact, Behind
<1>4. Holes' /\ NoGap'
  BY <1>1 DEF IInv, DiskInv, Holes, NoGap, Archived
<1> QED
  BY <1>1, <1>2, <1>3, <1>4 DEF DiskInv

-----------------------------------------------------------------------------
(* Sequences: the stream of an archive and the redundancy table.           *)

LEMMA StreamFacts ==
  ASSUME IInv, NEW lo \in Nat, NEW n \in Nat,
         \A k \in lo .. lo + n - 1 : k \in Nos(files)
  PROVE  /\ Stream(lo, n) \in Seq(Entry) /\ Len(Stream(lo, n)) = n
         /\ \A i \in 1 .. n : /\ Stream(lo, n)[i].rec \in files
                              /\ Stream(lo, n)[i].rec.no = lo + i - 1
                              /\ Stream(lo, n)[i].sep = (i > 1)
<1> DEFINE s == Stream(lo, n)
<1>1. ASSUME NEW i \in 1 .. n
      PROVE  /\ FileOf(lo + i - 1) \in files
             /\ FileOf(lo + i - 1).no = lo + i - 1
  <2>1. lo + i - 1 \in lo .. lo + n - 1
    OBVIOUS
  <2>2. lo + i - 1 \in Nos(files)
    BY <2>1
  <2> QED
    BY <2>2, FileOfNo
<1>2. /\ DOMAIN s = 1 .. n
      /\ \A i \in 1 .. n : /\ s[i] \in Entry
                           /\ s[i].rec \in files
                           /\ s[i].rec.no = lo + i - 1
                           /\ s[i].sep = (i > 1)
  <2>1. DOMAIN s = 1 .. n
    BY DEF Stream
  <2>2. \A i \in 1 .. n : s[i] = [rec |-> FileOf(lo + i - 1), sep |-> i > 1]
    BY DEF Stream
  <2>3. files \subseteq Record
    BY DEF IInv, TypeOK
  <2>4. ASSUME NEW i \in 1 .. n
        PROVE  /\ s[i] \in Entry /\ s[i].rec \in files
               /\ s[i].rec.no = lo + i - 1 /\ s[i].sep = (i > 1)
    <3> DEFINE f == FileOf(lo + i - 1)
               b == i > 1
    <3>1. f \in files /\ f \in Record /\ f.no = lo + i - 1 /\ b \in BOOLEAN
      BY <1>1, <2>3
    <3>2. s[i] = [rec |-> f, sep |-> b]
      BY <2>2
    <3> HIDE DEF f, s
    <3>3. s[i] \in Entry /\ s[i].rec = f /\ s[i].sep = b
      BY <3>1, <3>2 DEF Entry
    <3> QED
      BY <3>1, <3>3
  <2> QED
    BY <2>1, <2>4
<1>3. s \in [1 .. n -> Entry]
  BY <1>2 DEF Stream
<1>4. s \in Seq(Entry)
  BY <1>3, SeqDef
<1>5. Len(s) = n
  BY <1>2, <1>4, LenProperties
<1> QED
  BY <1>2, <1>4, <1>5

LEMMA RemoveFirstParts ==
  ASSUME NEW T, NEW s \in Seq(T), NEW e, e \in ToSet(s)
  PROVE  \E i \in 1 .. Len(s) :
           /\ s[i] = e
           /\ RemoveFirst(s, e) = SubSeq(s, 1, i - 1) \o SubSeq(s, i + 1, Len(s))
<1> DEFINE I == {j \in 1 .. Len(s) : s[j] = e}
           i == Min(I)
<1>1. Len(s) \in Nat /\ DOMAIN s = 1 .. Len(s)
  BY LenProperties
<1>2. I \in SUBSET Nat /\ I # {}
  BY <1>1 DEF ToSet
<1>3. i \in I
  BY <1>2, MinExists
<1>4. RemoveFirst(s, e) = SubSeq(s, 1, i - 1) \o SubSeq(s, i + 1, Len(s))
  BY <1>2 DEF RemoveFirst, SelectInSeq, RemoveAt
<1> HIDE DEF i
<1> QED
  BY <1>3, <1>4

LEMMA RemoveFirstType ==
  ASSUME NEW T, NEW s \in Seq(T), NEW e, e \in ToSet(s)
  PROVE  /\ RemoveFirst(s, e) \in Seq(T) /\ Len(RemoveFirst(s, e)) = Len(s) - 1
         /\ \A x \in ToSet(s) : x # e => x \in ToSet(RemoveFirst(s, e))
<1>1. Len(s) \in Nat /\ DOMAIN s = 1 .. Len(s)
  BY LenProperties
<1>2. PICK i \in 1 .. Len(s) :
        /\ s[i] = e
        /\ RemoveFirst(s, e) = SubSeq(s, 1, i - 1) \o SubSeq(s, i + 1, Len(s))
  BY RemoveFirstParts
<1>3. i \in 1 .. Len(s)
  OBVIOUS
<1>4. RemoveFirst(s, e) = SubSeq(s, 1, i - 1) \o SubSeq(s, i + 1, Len(s))
  BY <1>2
<1>5. SubSeq(s, 1, i - 1) \in Seq(T) /\ Len(SubSeq(s, 1, i - 1)) = i - 1
  <2>1. \A j \in 1 .. i - 1 : s[j] \in T
    BY <1>1, <1>3, ElementOfSeq
  <2>2. 1 \in Int /\ i - 1 \in Int /\ (1 <= i - 1 => i - 1 - 1 + 1 = i - 1)
        /\ (~(1 <= i - 1) => i - 1 = 0)
    BY <1>1, <1>3
  <2>3. /\ SubSeq(s, 1, i - 1) \in Seq(T)
        /\ Len(SubSeq(s, 1, i - 1)) = IF 1 <= i - 1 THEN i - 1 - 1 + 1 ELSE 0
    BY <2>1, <2>2, SubSeqProperties
  <2> QED
    BY <2>2, <2>3
<1>6. /\ SubSeq(s, i + 1, Len(s)) \in Seq(T)
      /\ Len(SubSeq(s, i + 1, Len(s))) = Len(s) - i
  <2>1. \A j \in i + 1 .. Len(s) : s[j] \in T
    BY <1>1, <1>3, ElementOfSeq
  <2>2. /\ i + 1 \in Int /\ Len(s) \in Int
        /\ (i + 1 <= Len(s) => Len(s) - (i + 1) + 1 = Len(s) - i)
        /\ (~(i + 1 <= Len(s)) => Len(s) - i = 0)
    <3> DEFINE n == Len(s)
    <3>1. n \in Nat /\ i \in 1 .. n
      BY <1>1, <1>3
    <3> HIDE DEF n
    <3>2. /\ i + 1 \in Int /\ n \in Int
          /\ n - (i + 1) + 1 = n - i
          /\ (~(i + 1 <= n) => n - i = 0)
      BY <3>1
    <3> QED
      BY <3>2 DEF n
  <2>3. /\ SubSeq(s, i + 1, Len(s)) \in Seq(T)
        /\ Len(SubSeq(s, i + 1, Len(s))) =
             IF i + 1 <= Len(s) THEN Len(s) - (i + 1) + 1 ELSE 0
    BY <2>1, <2>2, SubSeqProperties
  <2> QED
    BY <2>2, <2>3
<1> DEFINE n == Len(s)
           a == SubSeq(s, 1, i - 1)
           b == SubSeq(s, i + 1, Len(s))
           u == RemoveFirst(s, e)
<1>7. /\ u \in Seq(T) /\ Len(u) = (i - 1) + (n - i)
      /\ \A k \in 1 .. (i - 1) + (n - i) :
           u[k] = IF k <= i - 1 THEN a[k] ELSE b[k - (i - 1)]
  <2>1. /\ u = a \o b /\ a \in Seq(T) /\ b \in Seq(T)
        /\ Len(a) = i - 1 /\ Len(b) = n - i
    BY <1>4, <1>5, <1>6
  <2> HIDE DEF a, b, u, n
  <2>2. /\ u \in Seq(T) /\ Len(u) = Len(a) + Len(b)
        /\ \A k \in 1 .. Len(a) + Len(b) :
             u[k] = IF k <= Len(a) THEN a[k] ELSE b[k - Len(a)]
    BY <2>1, ConcatProperties
  <2> QED
    BY <2>1, <2>2
<1>8. ASSUME NEW j \in 1 .. n, j # i PROVE \E k \in 1 .. n - 1 : u[k] = s[j]
  <2>0. n \in Nat /\ i \in 1 .. n
    BY <1>1, <1>3
  <2>1. \A k \in 1 .. i - 1 : a[k] = s[k]
    <3>1. \A k \in 1 .. i - 1 : s[k] \in T
      BY <1>1, <1>3, ElementOfSeq
    <3>2. \A k \in 1 .. i - 1 - 1 + 1 : a[k] = s[1 + k - 1]
      BY <1>1, <3>1, SubSeqProperties
    <3> HIDE DEF a, n
    <3> QED
      BY <2>0, <3>2
  <2>2. \A k \in 1 .. n - i : b[k] = s[i + k]
    <3>1. \A k \in i + 1 .. n : s[k] \in T
      BY <1>1, <1>3, ElementOfSeq
    <3>2. \A k \in 1 .. n - (i + 1) + 1 : b[k] = s[i + 1 + k - 1]
      BY <1>1, <3>1, SubSeqProperties
    <3> HIDE DEF b, n
    <3>3. \A k \in 1 .. n - i : i + 1 + k - 1 = i + k /\ k \in 1 .. n - (i + 1) + 1
      BY <2>0
    <3> QED
      BY <3>2, <3>3
  <2> HIDE DEF a, b, u, n
  <2>4. CASE j < i
    <3>1. j \in 1 .. n - 1 /\ j \in 1 .. i - 1 /\ j \in 1 .. (i - 1) + (n - i)
      BY <2>0, <2>4
    <3>2. u[j] = s[j]
      BY <1>7, <2>0, <2>1, <2>4, <3>1
    <3> QED
      BY <3>1, <3>2
  <2>5. CASE j > i
    <3>1. /\ j - 1 \in 1 .. n - 1 /\ j - 1 \in 1 .. (i - 1) + (n - i)
          /\ ~ (j - 1 <= i - 1) /\ j - 1 - (i - 1) \in 1 .. n - i
          /\ j - 1 - (i - 1) = j - i /\ i + (j - i) = j
      BY <2>0, <2>5
    <3>2. u[j - 1] = b[j - i]
      BY <1>7, <3>1
    <3>3. b[j - i] = s[j]
      BY <2>2, <3>1
    <3> QED
      BY <3>1, <3>2, <3>3
  <2> QED
    BY <1>8, <2>0, <2>4, <2>5
<1>9. ASSUME NEW x \in ToSet(s), x # e PROVE x \in ToSet(u)
  <2>1. PICK j \in 1 .. n : s[j] = x
    BY <1>1, <1>9 DEF ToSet
  <2>2. DOMAIN u = 1 .. n - 1
    <3>1. Len(u) = n - 1
      BY <1>1, <1>3, <1>7
    <3> QED
      BY <1>7, <3>1, LenProperties
  <2>3. PICK k \in 1 .. n - 1 : u[k] = s[j]
    BY <1>2, <1>8, <1>9, <2>1
  <2> QED
    BY <2>1, <2>2, <2>3 DEF ToSet
<1> QED
  BY <1>1, <1>3, <1>7, <1>9

(* The redundancy table stays within its capacity. *)
LEMMA TouchType ==
  ASSUME NEW s \in Seq(Game), Len(s) <= RedunCap, NEW g \in Game
  PROVE  Touch(s, g) \in Seq(Game) /\ Len(Touch(s, g)) <= RedunCap
<1>1. RedunCap \in Nat /\ 1 < RedunCap /\ Len(s) \in Nat
  BY RedunAssumption, LenProperties
<1>2. CASE g \in ToSet(s)
  <2>1. /\ RemoveFirst(s, g) \in Seq(Game)
        /\ Len(RemoveFirst(s, g)) = Len(s) - 1
    BY <1>2, RemoveFirstType
  <2>2. /\ Append(RemoveFirst(s, g), g) \in Seq(Game)
        /\ Len(Append(RemoveFirst(s, g), g)) = Len(s) - 1 + 1
    BY <2>1, AppendProperties
  <2> QED
    BY <1>1, <1>2, <2>2 DEF Touch
<1>3. CASE g \notin ToSet(s) /\ Len(s) < RedunCap
  <2>1. Append(s, g) \in Seq(Game) /\ Len(Append(s, g)) = Len(s) + 1
    BY AppendProperties
  <2> QED
    BY <1>1, <1>3, <2>1 DEF Touch
<1>4. CASE g \notin ToSet(s) /\ ~(Len(s) < RedunCap)
  <2>1. s # <<>>
    BY <1>1, <1>4, EmptySeq
  <2>2. Tail(s) \in Seq(Game) /\ Len(Tail(s)) = Len(s) - 1
    BY <2>1, HeadTailProperties
  <2>3. /\ Append(Tail(s), g) \in Seq(Game)
        /\ Len(Append(Tail(s), g)) = Len(s) - 1 + 1
    BY <2>2, AppendProperties
  <2> QED
    BY <1>1, <1>4, <2>3 DEF Touch
<1> QED
  BY <1>2, <1>3, <1>4

-----------------------------------------------------------------------------
(* The pool directory when start() has found its numbers without a gap.    *)

LEMMA StartPool ==
  ASSUME IInv, files # {}, Contiguous(Nos(files))
  PROVE  LET P == Nos(files) IN
         /\ Min(P) \in P /\ Max(P) \in P /\ P \subseteq Nat
         /\ P = Min(P) .. Max(P) /\ Nos(Kept) = 0 .. Max(P)
         /\ Min(P) % SizeCluster # 0 =>
              /\ Archived(Boundary(Min(P)) - SizeCluster)
              /\ Boundary(Min(P)) <= Max(P)
<1> DEFINE P == Nos(files)
           lo == Min(P)
           hi == Max(P)
<1>1. P \in SUBSET Nat /\ P # {}
  BY DEF Nos, IInv, TypeOK, Record
<1>2. lo \in P /\ lo \in Nat
  BY <1>1, MinExists
<1>3. PICK m \in P : Nos(Kept) = 0 .. m
  BY DEF IInv, DiskInv, Numbers
<1>4. \A k \in P : k \in Nos(Kept)
  BY KeptIs DEF Nos
<1>5. hi = m
  <2>1. \A k \in P : k <= m
    BY <1>1, <1>3, <1>4
  <2>2. P \in SUBSET Int
    BY <1>1
  <2> HIDE DEF P
  <2> QED
    BY <2>1, <2>2, <1>3, MaxIs DEF hi
<1>6. P = lo .. hi
  BY DEF Contiguous
<1>7. hi \in P /\ hi \in Nat /\ Nos(Kept) = 0 .. hi
  BY <1>1, <1>3, <1>5
<1> HIDE DEF lo, hi
<1>8. ASSUME lo % SizeCluster # 0
      PROVE  Archived(Boundary(lo) - SizeCluster) /\ Boundary(lo) <= hi
  <2>1. SizeCluster \in Nat \ {0}
    BY ClusterAssumption
  <2> DEFINE k == Boundary(lo) - SizeCluster
  <2>2. /\ k \in Nat /\ k <= lo /\ k % SizeCluster = 0 /\ lo < Boundary(lo)
        /\ Boundary(lo) \in Nat
    BY <1>2, BoundaryAbove
  <2>3. k < lo
    <3>1. k # lo
      BY <1>8, <2>2
    <3> HIDE DEF k
    <3> QED
      BY <1>2, <2>2, <3>1
  <2>4. Boundary(k) = Boundary(lo)
    <3>1. Boundary(lo) = k + SizeCluster
      BY <2>1, <2>2
    <3> HIDE DEF k
    <3>2. k \in k .. k + SizeCluster - 1
      BY <2>1, <2>2
    <3> QED
      BY <2>2, <3>1, <3>2, BoundaryOf
  <2>5. k \notin P
    BY <1>2, <1>6, <1>7, <2>2, <2>3
  <2>6. PICK r \in files : r.no = lo
    BY <1>2 DEF Nos
  <2>7. Archived(Boundary(lo) - SizeCluster)
    BY <2>2, <2>3, <2>4, <2>5, <2>6 DEF IInv, DiskInv, Holes
  <2>8. PICK a \in Whole : a.start = Boundary(lo) - SizeCluster
    BY <2>7 DEF Archived
  <2>9. a.start + SizeCluster \in Nos(Kept)
    BY DEF IInv, DiskInv, Behind
  <2>10. a.start + SizeCluster = Boundary(lo)
    BY <2>1, <2>2, <2>8
  <2> QED
    BY <1>7, <2>7, <2>9, <2>10
<1> QED
  BY <1>1, <1>2, <1>6, <1>7, <1>8 DEF lo, hi

(* The pool while files are removed from its low end. *)
LEMMA ShrinkPool ==
  ASSUME IInv, pc \in {"trim", "bootremove", "remove"}, Min(pool) < i64_end,
         NEW P, P = pool \ {Min(pool)}
  PROVE  /\ P = Min(pool) + 1 .. Max(pool) /\ P # {} /\ i64_end \in P
         /\ Min(P) = Min(pool) + 1 /\ Max(P) = Max(pool)
         /\ Min(P) \in P /\ Max(P) \in P /\ P \subseteq pool
         /\ Min(pool) \in Nat /\ Min(pool) # Max(pool)
<1> DEFINE lo == Min(pool)
           hi == Max(pool)
<1>1. i64_end \in pool
  BY DEF IInv, MemInv, RemoveInv
<1>2. pc \in Live /\ pool # {}
  BY <1>1 DEF Live, Booting, Storing
<1>3. /\ lo \in Nat /\ hi \in Nat /\ lo <= i64_end /\ i64_end <= hi
      /\ i64_end \in Nat /\ pool = lo .. hi
  BY <1>1, <1>2, PoolFacts DEF IInv, TypeOK, MemInv, PoolInv
<1> HIDE DEF lo, hi
<1>4. lo < i64_end
  BY DEF lo
<1>5. P = lo + 1 .. hi
  BY <1>3, <1>4 DEF lo
<1>6. lo + 1 \in Nat /\ lo + 1 <= hi
  BY <1>3, <1>4
<1>7. Min(lo + 1 .. hi) = lo + 1 /\ Max(lo + 1 .. hi) = hi
  BY <1>3, <1>6, IntervalEnds
<1>8. /\ i64_end \in P /\ lo + 1 \in P /\ hi \in P /\ P \subseteq pool
      /\ lo # hi
  BY <1>3, <1>4, <1>5, <1>6
<1> QED
  BY <1>3, <1>5, <1>7, <1>8 DEF lo, hi

-----------------------------------------------------------------------------
(* Every step preserves the invariant: start().                            *)

LEMMA InitInv == Init => IInv
<1> SUFFICES ASSUME Init PROVE IInv
  OBVIOUS
<1>1. TypeOK
  <2>1. <<>> \in Seq(Entry) /\ <<>> \in Seq(Game) /\ Len(<<>>) = 0
    BY EmptySeq
  <2>2. 0 \in 0 .. MaxCrash /\ RedunCap \in Nat
    BY BoundAssumption, RedunAssumption
  <2>3. 0 <= RedunCap
    BY <2>2
  <2> QED
    BY <2>1, <2>2, <2>3 DEF Init, TypeOK
<1>2. files = {} /\ Whole = {} /\ Kept = {} /\ Nos(files) = {}
  BY DEF Init, Whole, Kept, Nos
<1>3. Unique /\ Numbers /\ ArchivesExact /\ Behind /\ Holes
  BY <1>2 DEF Unique, Numbers, ArchivesExact, Behind, Holes
<1>4. NoGap
  <2>1. Nos(files) = 0 .. -1 /\ 0 \in Nat /\ -1 \in Int
    BY <1>2
  <2> QED
    BY <2>1 DEF NoGap
<1>5. pc = "down" /\ ~(pc \in Live)
  BY DEF Init, Live, Booting, Storing
<1>6. MemInv
  BY <1>5 DEF MemInv, PoolInv, BootInv, RemoveInv, StoreInv, TmpInv, Live,
              Booting, Storing
<1> QED
  BY <1>1, <1>3, <1>4, <1>6 DEF IInv, DiskInv

LEMMA StartInv ==
  ASSUME IInv, Start
  PROVE  IInv' /\ Kept' = Kept
<1> DEFINE P == Nos(files)
<1>0. UNCHANGED <<files, archs, skipped>>
  BY DEF Start, past
<1>1. Kept' = Kept /\ Whole' = Whole /\ DiskInv'
  BY <1>0, SameDisk
<1>2. /\ pool' = P /\ archtmp' = <<>> /\ enc' = "tmp" /\ first' = TRUE
      /\ files' = files /\ redun' = <<>> /\ ema' = emafile
      /\ UNCHANGED <<archs, emafile, rec, crashes, skipped>>
  BY DEF Start, OpenArchTmp, LoadedEma, past
<1>3. P \subseteq Nat
  BY DEF Nos, IInv, TypeOK, Record
<1>4. \/ files = {} /\ pc' = "idle"
      \/ files # {} /\ ~Contiguous(P) /\ pc' = "dead"
      \/ files # {} /\ Contiguous(P) /\ pc' \in {"trim", "boot"}
  BY <1>2 DEF Start
<1>5. CASE files = {}
  <2>1. pc' = "idle" /\ pool' = {} /\ i64_end' = i64_end
    BY <1>2, <1>4, <1>5 DEF Start, Nos
  <2>2. TypeOK'
    <3>1. <<>> \in Seq(Entry) /\ <<>> \in Seq(Game) /\ Len(<<>>) <= RedunCap
      BY EmptySeq, RedunAssumption
    <3> QED
      BY <1>2, <2>1, <3>1 DEF IInv, TypeOK
  <2>3. PoolInv'
    BY <1>2, <1>5, <2>1 DEF PoolInv, Nos
  <2>4. BootInv' /\ RemoveInv' /\ StoreInv'
    BY <2>1 DEF BootInv, RemoveInv, StoreInv, Booting, Storing
  <2>5. TmpInv'
    <3>1. Len(<<>>) = 0 /\ 0 <= SizeCluster
      BY ClusterAssumption
    <3>2. \A i \in 1 .. 0 : FALSE
      OBVIOUS
    <3>3. Mirror(0)'
      BY <1>2, <2>1, <3>1, <3>2 DEF Mirror
    <3> QED
      BY <1>2, <2>1, <3>3 DEF TmpInv
  <2> QED
    BY <1>1, <2>2, <2>3, <2>4, <2>5 DEF IInv, MemInv
<1>6. CASE files # {} /\ ~Contiguous(P)
  <2>1. pc' = "dead" /\ i64_end' = i64_end
    BY <1>2, <1>4, <1>6 DEF Start
  <2>2. skipped
    <3> SUFFICES ASSUME ~skipped PROVE Contiguous(P)
      BY <1>6
    <3>1. PICK lo \in Nat, hi \in Int : P = lo .. hi
      BY DEF IInv, DiskInv, NoGap
    <3>2. P # {}
      BY <1>6 DEF Nos
    <3>3. hi \in Nat /\ lo <= hi
      BY <3>1, <3>2
    <3>4. Min(lo .. hi) = lo /\ Max(lo .. hi) = hi
      BY <3>3, IntervalEnds
    <3> QED
      BY <3>1, <3>4 DEF Contiguous
  <2>3. TypeOK'
    <3>1. <<>> \in Seq(Entry) /\ <<>> \in Seq(Game) /\ Len(<<>>) <= RedunCap
      BY EmptySeq, RedunAssumption
    <3> QED
      BY <1>2, <1>3, <2>1, <3>1 DEF IInv, TypeOK
  <2>4. MemInv'
    BY <1>0, <2>1, <2>2 DEF MemInv, PoolInv, BootInv, RemoveInv, StoreInv, TmpInv,
                      Live, Booting, Storing
  <2> QED
    BY <1>1, <2>3, <2>4 DEF IInv
<1>7. CASE files # {} /\ Contiguous(P)
  <2> DEFINE lo == Min(P)
             hi == Max(P)
  <2>1. /\ lo \in P /\ hi \in P /\ P = lo .. hi /\ Nos(Kept) = 0 .. hi
        /\ lo % SizeCluster # 0 =>
              /\ Archived(Boundary(lo) - SizeCluster)
              /\ Boundary(lo) <= hi
    BY <1>7, StartPool
  <2>2. lo \in Nat /\ hi \in Nat
    BY <1>3, <2>1
  <2>3. \/ pc' = "trim" /\ lo % SizeCluster # 0 /\ i64_end' = Boundary(lo)
        \/ pc' = "boot" /\ lo % SizeCluster = 0 /\ i64_end' = i64_end
    <3>1. pc' = IF lo % SizeCluster # 0 /\ Boundary(lo) <= hi THEN "trim"
                ELSE "boot"
      BY <1>2, <1>7 DEF Start
    <3>2. i64_end' = IF pc' = "trim" THEN Boundary(lo) ELSE i64_end
      BY <1>2 DEF Start
    <3> QED
      BY <2>1, <3>1, <3>2
  <2>4. /\ Boundary(lo) \in Nat /\ lo < Boundary(lo)
        /\ Boundary(lo) - SizeCluster <= lo
        /\ Boundary(lo) % SizeCluster = 0
    BY <2>2, BoundaryAbove
  <2>5. Min(pool') = lo /\ Max(pool') = hi
    BY <1>2
  <2> HIDE DEF lo, hi
  <2>6. TypeOK'
    <3>1. <<>> \in Seq(Entry) /\ <<>> \in Seq(Game) /\ Len(<<>>) <= RedunCap
      BY EmptySeq, RedunAssumption
    <3>2. pc' \in Booting /\ i64_end' \in Nat
      BY <2>3, <2>4 DEF IInv, TypeOK, Booting
    <3> QED
      BY <1>2, <1>3, <3>1, <3>2 DEF IInv, TypeOK
  <2>7. PoolInv'
    <3>1. P # {} /\ P \subseteq Nos(files') /\ P = Nos(files')
      BY <1>2, <2>1
    <3>2. pc' # "dead"
      BY <2>3
    <3> QED
      BY <1>1, <1>2, <2>1, <2>5, <3>1, <3>2 DEF PoolInv
  <2>8. BootInv'
    BY <1>2, <2>3, <2>5 DEF BootInv
  <2>9. RemoveInv'
    <3>1. CASE pc' = "trim"
      <4>1. Archived(i64_end - SizeCluster)' /\ i64_end' = Boundary(lo)
        BY <1>1, <2>1, <2>3, <3>1 DEF Archived
      <4>2. i64_end' <= lo + SizeCluster /\ i64_end' \in P
        <5>1. SizeCluster \in Nat
          BY ClusterAssumption
        <5>2. Boundary(lo) <= hi
          BY <2>1, <2>3, <3>1
        <5> QED
          BY <2>1, <2>2, <2>4, <4>1, <5>1, <5>2
      <4> QED
        BY <1>2, <2>4, <2>5, <4>1, <4>2 DEF RemoveInv
    <3> QED
      BY <2>3, <3>1 DEF RemoveInv
  <2>10. StoreInv' /\ TmpInv'
    BY <2>3 DEF StoreInv, TmpInv, Storing
  <2> QED
    BY <1>1, <2>6, <2>7, <2>8, <2>9, <2>10 DEF IInv, MemInv
<1> QED
  BY <1>5, <1>6, <1>7

(* One file of an archived cluster leaves the pool. *)
LEMMA RemoveStep ==
  ASSUME IInv, pc \in {"trim", "bootremove", "remove"}, MoreToRemove,
         RemoveNext, UNCHANGED <<archs, i64_end, pc, rec, first, archtmp>>,
         skipped => skipped'
  PROVE  /\ Kept' = Kept /\ DiskInv' /\ PoolInv' /\ BootInv' /\ RemoveInv'
         /\ StoreInv' /\ files' \subseteq files /\ pool' \subseteq pool
<1> DEFINE lo == Min(pool)
           hi == Max(pool)
<1>1. /\ lo < i64_end /\ files' = Removed(lo) /\ pool' = pool \ {lo}
      /\ archs' = archs /\ i64_end' = i64_end /\ pc' = pc /\ rec' = rec
  BY DEF MoreToRemove, RemoveNext
<1>2. Kept' = Kept /\ DiskInv'
  BY <1>1, RemoveKeeps
<1>3. Whole' = Whole
  BY <1>1 DEF Whole
<1>4. pc \in Live /\ pool # {}
  BY DEF Live, Booting, Storing, MoreToRemove
<1>5. /\ Nos(Kept) = 0 .. hi /\ pool \subseteq Nos(files)
      /\ ~skipped => pool = Nos(files)
  BY <1>4, PoolFacts DEF IInv, MemInv, PoolInv
<1>6. /\ pool' = lo + 1 .. hi /\ pool' # {} /\ i64_end \in pool'
      /\ Min(pool') = lo + 1 /\ Max(pool') = hi
      /\ Min(pool') \in pool' /\ Max(pool') \in pool' /\ pool' \subseteq pool
      /\ lo \in Nat /\ lo # hi
  BY <1>1, ShrinkPool
<1>7. Nos(files') = Nos(files) \ {lo} /\ files' \subseteq files
  BY <1>1, NosRemoved DEF Removed
<1> HIDE DEF lo, hi
<1>8. PoolInv'
  <2>1. pool' \subseteq Nos(files') /\ (~skipped => pool' = Nos(files'))
    BY <1>1, <1>5, <1>7
  <2>2. pool' = Min(pool') .. Max(pool') /\ Nos(Kept') = 0 .. Max(pool')
    BY <1>2, <1>5, <1>6
  <2>3. pc' # "dead"
    BY <1>1
  <2> QED
    BY <1>6, <2>1, <2>2, <2>3 DEF PoolInv
<1>9. BootInv'
  <2>1. pc \in Booting => archtmp = <<>> /\ first
    BY DEF IInv, MemInv, BootInv
  <2> QED
    BY <1>1, <2>1 DEF BootInv
<1>10. RemoveInv'
  <2>1. /\ i64_end % SizeCluster = 0 /\ i64_end <= lo + SizeCluster
        /\ Archived(i64_end - SizeCluster)
    BY DEF IInv, MemInv, RemoveInv, lo
  <2>2. i64_end <= lo + 1 + SizeCluster
    BY <1>6, <2>1, ClusterAssumption DEF IInv, TypeOK
  <2> QED
    BY <1>1, <1>3, <1>6, <2>1, <2>2 DEF RemoveInv, Archived
<1>11. StoreInv'
  <2>1. pc = "remove" => rec \in files /\ rec.no = hi /\ hi = i64_end
    BY DEF IInv, MemInv, StoreInv, Storing, hi
  <2>2. pc = "remove" => rec \in files'
    BY <1>1, <1>6, <2>1 DEF Removed
  <2> QED
    BY <1>1, <1>6, <2>1, <2>2 DEF StoreInv, Storing
<1> QED
  BY <1>2, <1>6, <1>7, <1>8, <1>9, <1>10, <1>11

LEMMA TrimInv ==
  ASSUME IInv, Trim
  PROVE  IInv' /\ Kept' = Kept
<1>1. /\ pc = "trim"
      /\ UNCHANGED <<archs, archtmp, emafile, rec, redun, ema, first, enc,
                     i64_end, crashes, skipped>>
  BY DEF Trim, past
<1>2. /\ i64_end \in pool /\ i64_end % SizeCluster = 0
      /\ pc \in Live /\ archtmp = <<>> /\ first
  BY <1>1 DEF IInv, MemInv, RemoveInv, BootInv, Live, Booting
<1>3. CASE MoreToRemove
  <2>1. RemoveNext /\ pc' = pc
    BY <1>3 DEF Trim
  <2>2. /\ Kept' = Kept /\ DiskInv' /\ PoolInv' /\ BootInv' /\ RemoveInv'
        /\ StoreInv' /\ files' \subseteq files /\ pool' \subseteq pool
    BY <1>1, <1>3, <2>1, RemoveStep
  <2>3. TmpInv'
    BY <1>1, <2>1 DEF TmpInv
  <2>4. TypeOK'
    BY <1>1, <2>1, <2>2 DEF IInv, TypeOK, Booting
  <2> QED
    BY <2>2, <2>3, <2>4 DEF IInv, MemInv
<1>4. CASE ~MoreToRemove
  <2>1. pc' = "boot" /\ UNCHANGED <<files, pool>>
    BY <1>2, <1>4 DEF Trim
  <2>2. Kept' = Kept /\ Whole' = Whole /\ DiskInv'
    BY <1>1, <2>1, SameDisk
  <2>3. pool # {}
    BY <1>2
  <2>4. PoolInv'
    BY <1>1, <1>2, <2>1, <2>2, <2>3 DEF IInv, MemInv, PoolInv, Live, Booting
  <2>5. Min(pool) = i64_end
    <3>1. Min(pool) <= i64_end /\ ~(Min(pool) < i64_end)
      BY <1>2, <1>4, <2>3, PoolFacts DEF MoreToRemove, IInv, TypeOK
    <3>2. Min(pool) \in Nat /\ i64_end \in Nat
      BY <1>2, <2>3, PoolFacts DEF IInv, TypeOK
    <3> QED
      BY <3>1, <3>2
  <2>6. BootInv' /\ RemoveInv' /\ StoreInv' /\ TmpInv'
    BY <1>1, <1>2, <2>1, <2>5
       DEF BootInv, RemoveInv, StoreInv, TmpInv, Booting, Storing
  <2>7. TypeOK'
    BY <1>1, <2>1 DEF IInv, TypeOK, Booting
  <2> QED
    BY <2>2, <2>4, <2>6, <2>7 DEF IInv, MemInv
<1> QED
  BY <1>3, <1>4

LEMMA BootHeadInv ==
  ASSUME IInv, Boot
  PROVE  IInv' /\ Kept' = Kept
<1> DEFINE lo == Min(pool)
           hi == Max(pool)
<1>1. /\ pc = "boot" /\ i64_end' = lo + SizeCluster
      /\ UNCHANGED <<files, archtmp, emafile, pool, rec, redun, ema, first,
                     crashes, skipped>>
  BY DEF Boot, past
<1>2. pc \in Live /\ pool # {} /\ lo % SizeCluster = 0 /\ archtmp = <<>> /\ first
  BY <1>1 DEF IInv, MemInv, PoolInv, BootInv, Live, Booting
<1>3. /\ lo \in Nat /\ hi \in Nat /\ SizeCluster \in Nat
      /\ pool \subseteq Nos(files) /\ Nos(Kept) = 0 .. hi
      /\ \A k \in Nat : k \in pool <=> lo <= k /\ k <= hi
  BY <1>2, PoolFacts, ClusterAssumption
<1>4. PoolInv /\ TypeOK
  BY DEF IInv, MemInv
<1>5. CASE hi < lo + SizeCluster
  <2>1. pc' = "refill" /\ UNCHANGED <<archs, enc>>
    BY <1>1, <1>5 DEF Boot
  <2>2. Kept' = Kept /\ DiskInv'
    BY <1>1, <2>1, SameDisk
  <2>3. PoolInv'
    BY <1>1, <1>2, <1>4, <2>1, <2>2 DEF PoolInv, Live, Booting
  <2>4. BootInv' /\ RemoveInv' /\ StoreInv' /\ TmpInv'
    BY <1>1, <1>2, <1>5, <2>1
       DEF BootInv, RemoveInv, StoreInv, TmpInv, Booting, Storing
  <2>5. TypeOK'
    BY <1>1, <1>3, <1>4, <2>1 DEF TypeOK, Booting
  <2> QED
    BY <2>2, <2>3, <2>4, <2>5 DEF IInv, MemInv
<1>6. CASE ~(hi < lo + SizeCluster)
  <2> DEFINE new == [start |-> lo, body |-> <<>>, whole |-> FALSE]
  <2>1. archs' = PutArch(new) /\ enc' = "arch" /\ pc' = "bootwrite"
    BY <1>1, <1>6 DEF Boot
  <2>2. \A k \in lo .. lo + SizeCluster - 1 : k \in Nos(files)
    BY <1>3, <1>6
  <2>3. lo + SizeCluster \in Nos(Kept) /\ lo + SizeCluster \in pool
    BY <1>3, <1>6
  <2>4. <<>> \in Seq(Entry) /\ FALSE \in BOOLEAN
    BY EmptySeq
  <2>5. Kept' = Kept /\ DiskInv'
    BY <1>1, <1>2, <1>3, <2>1, <2>2, <2>3, <2>4, ArchivePut
  <2>6. PoolInv'
    BY <1>1, <1>2, <1>4, <2>1, <2>5 DEF PoolInv, Live, Booting
  <2>7. BootInv' /\ RemoveInv' /\ StoreInv' /\ TmpInv'
    BY <1>1, <1>2, <2>1, <2>3
       DEF BootInv, RemoveInv, StoreInv, TmpInv, Booting, Storing
  <2>8. TypeOK'
    <3>1. new \in Archive
      BY <1>3, <2>4 DEF Archive
    <3>2. archs' \subseteq Archive
      BY <1>4, <2>1, <3>1 DEF TypeOK, PutArch
    <3>3. i64_end' \in Nat
      BY <1>1, <1>3
    <3> QED
      BY <1>1, <1>4, <2>1, <3>2, <3>3 DEF TypeOK, Booting
  <2> QED
    BY <2>5, <2>6, <2>7, <2>8 DEF IInv, MemInv
<1> QED
  BY <1>5, <1>6

LEMMA BootWriteInv ==
  ASSUME IInv, BootWrite
  PROVE  IInv' /\ Kept' = Kept
<1> DEFINE lo == Min(pool)
           s  == Stream(lo, SizeCluster)
           new == [start |-> lo, body |-> s, whole |-> TRUE]
<1>1. /\ pc = "bootwrite" /\ archs' = PutArch(new)
      /\ lo .. i64_end - 1 \subseteq Nos(files)
      /\ enc' = "ended" /\ pc' = "bootremove"
      /\ UNCHANGED <<files, archtmp, emafile, pool, rec, redun, ema, first,
                     i64_end, crashes, skipped>>
  BY DEF BootWrite, past
<1>2. /\ pc \in Live /\ lo % SizeCluster = 0 /\ archtmp = <<>> /\ first
      /\ i64_end = lo + SizeCluster /\ i64_end \in pool
  BY <1>1 DEF IInv, MemInv, PoolInv, BootInv, Live, Booting
<1>3. /\ lo \in Nat /\ SizeCluster \in Nat
      /\ pool \subseteq Nos(files) /\ Nos(Kept) = 0 .. Max(pool)
      /\ i64_end \in Nos(Kept)
  BY <1>2, PoolFacts, ClusterAssumption DEF IInv, TypeOK
<1>4. PoolInv /\ TypeOK
  BY DEF IInv, MemInv
<1>5. \A k \in lo .. lo + SizeCluster - 1 : k \in Nos(files)
  <2>1. \A k \in lo .. i64_end - 1 : k \in Nos(files)
    BY <1>1
  <2>2. i64_end - 1 = lo + SizeCluster - 1
    BY <1>2, <1>3
  <2> QED
    BY <2>1, <2>2
<1>6. /\ s \in Seq(Entry) /\ Len(s) = SizeCluster
      /\ \A i \in 1 .. SizeCluster : /\ s[i].rec \in files
                                     /\ s[i].rec.no = lo + i - 1
                                     /\ s[i].sep = (i > 1)
  BY <1>3, <1>5, StreamFacts
<1> HIDE DEF s
<1>7. Kept' = Kept /\ DiskInv' /\ \E b \in Whole' : b.start = lo
  BY <1>1, <1>2, <1>3, <1>5, <1>6, ArchivePut
<1>8. PoolInv'
  BY <1>1, <1>2, <1>4, <1>7 DEF PoolInv, Live, Booting
<1>9. BootInv' /\ StoreInv' /\ TmpInv'
  BY <1>1, <1>2 DEF BootInv, StoreInv, TmpInv, Booting, Storing
<1>10. RemoveInv'
  <2>1. 0 \in Nat /\ SizeCluster > 0
    BY ClusterAssumption
  <2>2. lo \in lo .. lo + SizeCluster - 1
    BY <1>3, <2>1
  <2>3. i64_end % SizeCluster = 0
    BY <1>2, <1>3, <2>2, BoundaryOf
  <2>4. i64_end - SizeCluster = lo /\ i64_end <= lo + SizeCluster
    BY <1>2, <1>3
  <2>5. Archived(i64_end - SizeCluster)'
    BY <1>1, <1>7, <2>4 DEF Archived
  <2> QED
    BY <1>1, <1>2, <2>3, <2>4, <2>5 DEF RemoveInv
<1>11. TypeOK'
  <2>1. new \in Archive
    BY <1>3, <1>6 DEF Archive
  <2>2. archs' \subseteq Archive
    BY <1>1, <1>4, <2>1 DEF TypeOK, PutArch
  <2> QED
    BY <1>1, <1>4, <2>2 DEF TypeOK, Booting
<1> QED
  BY <1>7, <1>8, <1>9, <1>10, <1>11 DEF IInv, MemInv

LEMMA BootRemoveInv ==
  ASSUME IInv, BootRemove
  PROVE  IInv' /\ Kept' = Kept
<1> DEFINE lo == Min(pool)
<1>1. /\ pc = "bootremove"
      /\ UNCHANGED <<archs, archtmp, emafile, rec, redun, ema, first, enc,
                     i64_end, crashes>>
      /\ skipped \in BOOLEAN /\ skipped' \in BOOLEAN /\ (skipped => skipped')
  BY DEF BootRemove, IInv, TypeOK
<1>2. /\ i64_end \in pool /\ i64_end % SizeCluster = 0 /\ pool # {}
      /\ i64_end <= lo + SizeCluster /\ Archived(i64_end - SizeCluster)
      /\ pc \in Live /\ archtmp = <<>> /\ first
  BY <1>1 DEF IInv, MemInv, RemoveInv, BootInv, Live, Booting
<1>3. CASE lo < i64_end /\ files' = Removed(lo)
  <2>1. RemoveNext /\ pc' = pc /\ MoreToRemove
    BY <1>1, <1>2, <1>3 DEF BootRemove, RemoveNext, MoreToRemove
  <2>2. /\ Kept' = Kept /\ DiskInv' /\ PoolInv' /\ BootInv' /\ RemoveInv'
        /\ StoreInv' /\ files' \subseteq files /\ pool' \subseteq pool
    BY <1>1, <2>1, RemoveStep
  <2>3. TmpInv'
    BY <1>1, <2>1 DEF TmpInv
  <2>4. TypeOK'
    BY <1>1, <2>1, <2>2 DEF IInv, TypeOK, Booting
  <2> QED
    BY <2>2, <2>3, <2>4 DEF IInv, MemInv
<1>4. CASE lo < i64_end /\ skipped' = TRUE /\ UNCHANGED files
  <2>1. pool' = pool \ {lo} /\ pc' = "bootremove"
    BY <1>1, <1>4 DEF BootRemove
  <2>2. Kept' = Kept /\ Whole' = Whole /\ DiskInv'
    BY <1>1, <1>4, SameDisk
  <2>3. /\ pool' = lo + 1 .. Max(pool) /\ pool' # {} /\ i64_end \in pool'
        /\ Min(pool') = lo + 1 /\ Max(pool') = Max(pool)
        /\ Min(pool') \in pool' /\ Max(pool') \in pool' /\ pool' \subseteq pool
        /\ lo \in Nat
    BY <1>1, <1>4, <2>1, ShrinkPool
  <2>4. pool \subseteq Nos(files) /\ Nos(Kept) = 0 .. Max(pool)
    BY <1>2, PoolFacts
  <2>5. PoolInv'
    <3>1. pool' = Min(pool') .. Max(pool') /\ pool' \subseteq Nos(files')
      BY <1>4, <2>3, <2>4
    <3> QED
      BY <1>4, <2>1, <2>2, <2>3, <2>4, <3>1 DEF PoolInv
  <2>6. RemoveInv'
    <3>1. i64_end <= lo + 1 + SizeCluster
      BY <1>2, <2>3, ClusterAssumption DEF IInv, TypeOK
    <3> QED
      BY <1>1, <1>2, <2>2, <2>3, <3>1 DEF RemoveInv, Archived
  <2>7. BootInv' /\ StoreInv' /\ TmpInv'
    BY <1>1, <1>2, <2>1 DEF BootInv, StoreInv, TmpInv, Booting, Storing
  <2>8. TypeOK'
    BY <1>1, <1>4, <2>1 DEF IInv, TypeOK, Booting
  <2> QED
    BY <2>2, <2>5, <2>6, <2>7, <2>8 DEF IInv, MemInv
<1>5. CASE ~(lo < i64_end)
  <2>1. pc' = "boot" /\ UNCHANGED <<files, pool>>
    BY <1>5 DEF BootRemove
  <2>2. Kept' = Kept /\ Whole' = Whole /\ DiskInv'
    BY <1>1, <2>1, SameDisk
  <2>3. PoolInv'
    BY <1>1, <1>2, <2>1, <2>2 DEF IInv, MemInv, PoolInv, Live, Booting
  <2>4. lo = i64_end
    <3>1. lo \in Nat /\ i64_end \in Nat /\ lo <= i64_end
      BY <1>2, PoolFacts DEF IInv, TypeOK
    <3> QED
      BY <1>5, <3>1
  <2>5. BootInv' /\ RemoveInv' /\ StoreInv' /\ TmpInv'
    BY <1>1, <1>2, <2>1, <2>4
       DEF BootInv, RemoveInv, StoreInv, TmpInv, Booting, Storing
  <2>6. TypeOK'
    BY <1>1, <2>1 DEF IInv, TypeOK, Booting
  <2> QED
    BY <2>2, <2>3, <2>5, <2>6 DEF IInv, MemInv
<1> QED
  BY <1>3, <1>4, <1>5 DEF BootRemove

LEMMA RefillInv ==
  ASSUME IInv, Refill
  PROVE  IInv' /\ Kept' = Kept
<1> DEFINE lo == Min(pool)
           hi == Max(pool)
           n  == hi + 1 - lo
           s  == Stream(lo, n)
<1>1. /\ pc = "refill" /\ i64_end' = hi + 1 /\ first' = FALSE
      /\ UNCHANGED <<files, archs, emafile, pool, rec, redun, ema, enc,
                     crashes, skipped>>
      /\ \/ enc = "tmp" /\ archtmp' = s /\ pc' = "idle"
         \/ pc' \in {"hung", "aborted"} /\ archtmp' = archtmp
  BY DEF Refill, RefillStream, past
<1>2. /\ pc \in Live /\ pool # {} /\ lo % SizeCluster = 0
      /\ hi < lo + SizeCluster
  BY <1>1 DEF IInv, MemInv, PoolInv, BootInv, Live, Booting
<1>3. /\ lo \in Nat /\ hi \in Nat /\ lo <= hi /\ SizeCluster \in Nat
      /\ pool \subseteq Nos(files)
      /\ \A k \in Nat : k \in pool <=> lo <= k /\ k <= hi
  BY <1>2, PoolFacts, ClusterAssumption
<1>4. PoolInv /\ TypeOK
  BY DEF IInv, MemInv
<1> HIDE DEF lo, hi
<1>5. /\ n \in Nat /\ n # 0 /\ n <= SizeCluster
      /\ \A k \in lo .. lo + n - 1 : k \in Nos(files)
  BY <1>2, <1>3
<1> HIDE DEF n
<1>6. /\ s \in Seq(Entry) /\ Len(s) = n
      /\ \A i \in 1 .. n : /\ s[i].rec \in files
                           /\ s[i].rec.no = lo + i - 1
                           /\ s[i].sep = (i > 1)
  BY <1>3, <1>5, StreamFacts
<1> HIDE DEF s
<1>7. Kept' = Kept /\ Whole' = Whole /\ DiskInv'
  BY <1>1, SameDisk
<1>8. i64_end' \in Nat
  BY <1>1, <1>3
<1>9. CASE enc = "tmp" /\ archtmp' = s /\ pc' = "idle"
  <2>1. PoolInv'
    BY <1>1, <1>2, <1>4, <1>7, <1>9 DEF PoolInv, Live
  <2>2. Mirror(n)'
    <3>1. n' = n
      BY <1>1 DEF n, lo, hi
    <3>2. /\ Len(archtmp') = n /\ first' = (n = 0) /\ Min(pool') = lo
          /\ \A i \in 1 .. n : /\ archtmp'[i].rec \in files'
                               /\ archtmp'[i].rec.no = lo + i - 1
                               /\ archtmp'[i].sep = (i > 1)
      BY <1>1, <1>5, <1>6, <1>9 DEF lo
    <3> QED
      BY <1>2, <1>5, <3>1, <3>2 DEF Mirror
  <2>3. TmpInv'
    BY <1>1, <1>2, <1>9, <2>2 DEF TmpInv, n, lo, hi
  <2>4. BootInv' /\ RemoveInv' /\ StoreInv'
    BY <1>9 DEF BootInv, RemoveInv, StoreInv, Booting, Storing
  <2>5. TypeOK'
    BY <1>1, <1>4, <1>6, <1>8, <1>9 DEF TypeOK
  <2> QED
    BY <1>7, <2>1, <2>3, <2>4, <2>5 DEF IInv, MemInv
<1>10. CASE pc' \in {"hung", "aborted"} /\ archtmp' = archtmp
  <2>1. MemInv'
    BY <1>10 DEF MemInv, PoolInv, BootInv, RemoveInv, StoreInv, TmpInv,
                 Live, Booting, Storing
  <2>2. TypeOK'
    BY <1>1, <1>4, <1>8, <1>10 DEF TypeOK
  <2> QED
    BY <1>7, <2>1, <2>2 DEF IInv
<1> QED
  BY <1>1, <1>9, <1>10

-----------------------------------------------------------------------------
(* Every step preserves the invariant: transact() and the end.             *)

(* The steps that change neither the pool nor the directories. *)
LEMMA SamePool ==
  ASSUME IInv, UNCHANGED <<files, archs, pool>>, pc \in Live, pc' \in Live,
         pool = {} => pc' \in {"idle", "rename"}, skipped => skipped'
  PROVE  Kept' = Kept /\ DiskInv' /\ PoolInv'
<1>1. Kept' = Kept /\ DiskInv'
  BY SameDisk
<1>2. pc' # "dead"
  BY DEF Live, Booting, Storing
<1>3. PoolInv
  BY DEF IInv, MemInv
<1> QED
  BY <1>1, <1>2, <1>3 DEF PoolInv

LEMMA DuplicateInv ==
  ASSUME IInv, NEW g \in Game, Duplicate(g)
  PROVE  IInv' /\ Kept' = Kept
<1>1. /\ pc = "idle" /\ redun' = Touch(redun, g)
      /\ UNCHANGED <<files, archs, archtmp, emafile, pc, pool, rec, ema, first,
                     enc, i64_end, crashes, skipped>>
  BY DEF Duplicate, disk, past
<1>2. Kept' = Kept /\ DiskInv' /\ PoolInv'
  BY <1>1, SamePool DEF Live
<1>3. TypeOK'
  BY <1>1, TouchType DEF IInv, TypeOK
<1>4. BootInv' /\ RemoveInv' /\ StoreInv' /\ TmpInv'
  BY <1>1 DEF IInv, MemInv, BootInv, RemoveInv, StoreInv, TmpInv, Mirror,
              Booting, Storing
<1> QED
  BY <1>2, <1>3, <1>4 DEF IInv, MemInv

LEMMA ReceiveInv ==
  ASSUME IInv, NEW g \in Game, Receive(g)
  PROVE  IInv' /\ Kept' = Kept
<1>1. /\ pc = "idle" /\ redun' = Touch(redun, g) /\ pc' = "rename"
      /\ rec' = [no |-> NextNo(pool), game |-> g]
      /\ UNCHANGED <<files, archs, archtmp, emafile, pool, ema, first, enc,
                     i64_end, crashes, skipped>>
  BY DEF Receive, disk, past
<1>2. Kept' = Kept /\ DiskInv' /\ PoolInv'
  BY <1>1, SamePool DEF Live, Storing
<1>3. NextNo(pool) \in Nat
  <2>1. pool # {} => Max(pool) \in Nat
    BY <1>1, PoolFacts DEF Live
  <2> QED
    BY <2>1 DEF NextNo
<1>4. rec' \in Record /\ rec'.no = NextNo(pool)
  BY <1>1, <1>3 DEF Record
<1>5. TypeOK'
  BY <1>1, <1>4, TouchType DEF IInv, TypeOK, Storing
<1>6. BootInv' /\ RemoveInv'
  BY <1>1 DEF BootInv, RemoveInv, Booting
<1>7. StoreInv'
  BY <1>1, <1>4 DEF StoreInv, NextNo
<1>8. TmpInv'
  BY <1>1 DEF IInv, MemInv, TmpInv, Mirror
<1> QED
  BY <1>2, <1>5, <1>6, <1>7, <1>8 DEF IInv, MemInv

LEMMA RenamePoolInv ==
  ASSUME IInv, RenamePool
  PROVE  /\ IInv' /\ Kept' = Kept \cup {rec} /\ rec \in Record
         /\ Nos(Kept') = 0 .. rec.no
         /\ \A q \in Kept : q.no # rec.no
<1> DEFINE n == IF pool = {} THEN 0 ELSE Max(pool) + 1 - Min(pool)
<1>1. /\ pc = "rename" /\ files' = PutFile(rec) /\ pool' = pool \cup {rec.no}
      /\ pc' \in {"ema", "cluster"}
      /\ UNCHANGED <<archs, archtmp, emafile, rec, redun, ema, first, enc,
                     i64_end, crashes, skipped>>
  BY DEF RenamePool, past
<1>2. /\ rec \in Record /\ rec.no \in Nat /\ rec.no = NextNo(pool) /\ pc \in Live
      /\ Mirror(n) /\ enc = "tmp"
      /\ ~skipped => pool = Nos(files)
      /\ pool \subseteq Nat
  BY <1>1 DEF IInv, TypeOK, MemInv, StoreInv, TmpInv, PoolInv, Live, Storing, Record
<1>3. /\ files' = files \cup {rec} /\ Kept' = Kept \cup {rec}
      /\ Nos(files') = Nos(files) \cup {rec.no}
      /\ \A q \in Kept : q.no # rec.no
      /\ Nos(Kept') = 0 .. rec.no /\ DiskInv'
  BY <1>1, RenameAdds
<1>4. /\ pool' = Min(pool') .. rec.no /\ Max(pool') = rec.no
      /\ Min(pool') \in Nat /\ Min(pool') <= rec.no
      /\ n = rec.no - Min(pool') /\ Min(pool') % SizeCluster = 0
      /\ pool # {} => Min(pool') = Min(pool)
  <2>1. CASE pool = {}
    <3>1. rec.no = 0 /\ n = 0 /\ pool' = 0 .. 0
      BY <1>1, <1>2, <2>1 DEF NextNo
    <3>2. Min(0 .. 0) = 0 /\ Max(0 .. 0) = 0
      <4>1. 0 \in Nat /\ 0 <= 0
        OBVIOUS
      <4> QED
        BY <4>1, IntervalEnds
    <3>3. 0 % SizeCluster = 0
      <4>1. SizeCluster \in Nat /\ SizeCluster > 0 /\ 0 \in 0 .. SizeCluster - 1
        BY ClusterAssumption
      <4>2. 0 * SizeCluster + 0 = 0
        BY <4>1
      <4> QED
        BY <4>1, <4>2, Quotient
    <3> QED
      BY <2>1, <3>1, <3>2, <3>3
  <2>2. CASE pool # {}
    <3> DEFINE lo == Min(pool)
               hi == Max(pool)
    <3>1. /\ lo \in Nat /\ hi \in Nat /\ lo <= hi /\ rec.no = hi + 1
          /\ pool = lo .. hi
      BY <1>2, <2>2, PoolFacts DEF NextNo, IInv, MemInv, PoolInv
    <3>2. lo % SizeCluster = 0 /\ n = hi + 1 - lo
      BY <1>2, <2>2 DEF Mirror
    <3> HIDE DEF lo, hi, n
    <3>3. pool' = lo .. rec.no /\ lo <= rec.no
      BY <1>1, <3>1
    <3>4. Min(lo .. rec.no) = lo /\ Max(lo .. rec.no) = rec.no
      BY <1>2, <3>1, <3>3, IntervalEnds
    <3>5. Min(pool') = lo /\ Max(pool') = rec.no
      BY <3>3, <3>4
    <3> QED
      BY <3>1, <3>2, <3>3, <3>5 DEF lo
  <2> QED
    BY <2>1, <2>2
<1> DEFINE lo == Min(pool')
<1>5. lo \in pool' /\ rec.no \in pool'
  BY <1>2, <1>4
<1>6. pool' \subseteq Nos(files')
  <2>1. pool \subseteq Nos(files)
    BY <1>2, PoolFacts
  <2> QED
    BY <1>1, <1>3, <2>1
<1>7. PoolInv'
  <2>1. pc' # "dead" /\ pool' # {}
    BY <1>1
  <2>2. ~skipped' => pool' = Nos(files')
    BY <1>1, <1>2, <1>3
  <2> QED
    BY <1>3, <1>4, <1>5, <1>6, <2>1, <2>2 DEF PoolInv
<1>8. BootInv' /\ RemoveInv'
  BY <1>1 DEF BootInv, RemoveInv, Booting
<1>9. StoreInv'
  BY <1>1, <1>3, <1>4 DEF StoreInv
<1> HIDE DEF n
<1>10. TmpInv'
  <2>1. /\ Len(archtmp') = n /\ n <= SizeCluster /\ first' = (n = 0)
        /\ \A i \in 1 .. n : /\ archtmp'[i].rec \in files'
                             /\ archtmp'[i].rec.no = Min(pool') + i - 1
                             /\ archtmp'[i].sep = (i > 1)
    <3>1. \A i \in 1 .. n : pool # {}
      BY DEF n
    <3> QED
      BY <1>1, <1>2, <1>3, <1>4, <3>1 DEF Mirror
  <2>2. n = Max(pool') - Min(pool')
    BY <1>4
  <2> QED
    BY <1>1, <1>2, <1>4, <2>1, <2>2 DEF TmpInv, Mirror
<1>11. TypeOK'
  BY <1>1, <1>2, <1>3 DEF IInv, TypeOK, Storing
<1> QED
  BY <1>2, <1>3, <1>7, <1>8, <1>9, <1>10, <1>11 DEF IInv, MemInv

LEMMA EmaInv ==
  ASSUME IInv, UpdateEma \/ RenameEma
  PROVE  IInv' /\ Kept' = Kept
<1>1. /\ pc \in {"ema", "emarename"} /\ pc' \in {"emarename", "cluster"}
      /\ UNCHANGED <<files, archs, archtmp, pool, rec, redun, first, enc,
                     i64_end, crashes, skipped>>
      /\ ema' \in Nat /\ emafile' \in Nat
  BY DEF UpdateEma, RenameEma, disk, mem, IInv, TypeOK, past
<1>2. pc \in Live /\ pc' \in Live /\ pool # {}
  BY <1>1 DEF Live, Storing, IInv, MemInv, PoolInv
<1>3. Kept' = Kept /\ DiskInv' /\ PoolInv'
  BY <1>1, <1>2, SamePool
<1>4. BootInv' /\ RemoveInv' /\ StoreInv'
  BY <1>1 DEF IInv, MemInv, BootInv, RemoveInv, StoreInv, Booting, Storing
<1>5. TmpInv'
  BY <1>1 DEF IInv, MemInv, TmpInv, Mirror
<1>6. TypeOK'
  BY <1>1 DEF IInv, TypeOK, Storing
<1> QED
  BY <1>3, <1>4, <1>5, <1>6 DEF IInv, MemInv

LEMMA ClusterInv ==
  ASSUME IInv, Cluster
  PROVE  IInv' /\ Kept' = Kept
<1> DEFINE lo == Min(pool)
           hi == Max(pool)
<1>1. /\ pc = "cluster" /\ i64_end' = lo + SizeCluster
      /\ UNCHANGED <<files, archs, archtmp, emafile, pool, rec, redun, ema,
                     first, crashes, skipped>>
      /\ \/ ClusterDone /\ enc' = "ended" /\ pc' = "archrename"
         \/ ~ClusterDone /\ enc' = enc /\ pc' = "append"
  BY DEF Cluster, CloseArchTmp, disk, past
<1>2. pc \in Live /\ pc' \in Live /\ pool # {}
  BY <1>1 DEF Live, Storing, IInv, MemInv, PoolInv
<1>3. Kept' = Kept /\ DiskInv' /\ PoolInv'
  BY <1>1, <1>2, SamePool
<1>4. /\ lo \in Nat /\ hi \in Nat /\ lo <= hi /\ SizeCluster \in Nat
      /\ rec \in files /\ rec.no = hi /\ enc = "tmp"
      /\ Mirror(hi - lo) /\ hi - lo <= SizeCluster
  <2>1. rec \in files /\ rec.no = hi /\ enc = "tmp" /\ Mirror(hi - lo)
    BY <1>1 DEF IInv, MemInv, StoreInv, TmpInv, Storing
  <2> QED
    BY <1>2, <2>1, PoolFacts, ClusterAssumption DEF Mirror
<1>5. ClusterDone <=> lo + SizeCluster <= hi
  BY DEF ClusterDone
<1>6. BootInv' /\ RemoveInv'
  BY <1>1 DEF BootInv, RemoveInv, Booting
<1>7. StoreInv'
  <2>1. pc' = "archrename" => hi = i64_end'
    BY <1>1, <1>4, <1>5
  <2>2. pc' = "append" => hi < lo + SizeCluster
    BY <1>1, <1>4, <1>5
  <2> QED
    BY <1>1, <1>4, <2>1, <2>2 DEF StoreInv
<1>8. TmpInv'
  BY <1>1, <1>4 DEF TmpInv, Mirror
<1>9. TypeOK'
  BY <1>1, <1>4 DEF IInv, TypeOK, Storing
<1> QED
  BY <1>3, <1>6, <1>7, <1>8, <1>9 DEF IInv, MemInv

LEMMA RenameArchInv ==
  ASSUME IInv, RenameArch
  PROVE  IInv' /\ Kept' = Kept
<1> DEFINE lo == Min(pool)
           hi == Max(pool)
           new == [start |-> lo, body |-> archtmp, whole |-> TRUE]
<1>1. /\ pc = "archrename" /\ archs' = PutArch(new) /\ archtmp' = <<>>
      /\ pc' = "remove"
      /\ UNCHANGED <<files, emafile, pool, rec, redun, ema, first, enc,
                     i64_end, crashes, skipped>>
  BY DEF RenameArch, mem, past
<1>2. pc \in Live /\ pc' \in Live /\ pool # {}
  BY <1>1 DEF Live, Storing, IInv, MemInv, PoolInv
<1>3. /\ lo \in Nat /\ hi \in Nat /\ SizeCluster \in Nat
      /\ pool \subseteq Nos(files) /\ Nos(Kept) = 0 .. hi
      /\ \A k \in Nat : k \in pool <=> lo <= k /\ k <= hi
  BY <1>2, PoolFacts, ClusterAssumption
<1>4. /\ i64_end = lo + SizeCluster /\ hi = i64_end
      /\ rec \in files /\ rec.no = hi /\ Mirror(hi - lo)
  BY <1>1 DEF IInv, MemInv, StoreInv, TmpInv, Storing
<1> HIDE DEF lo, hi
<1>5. hi - lo = SizeCluster
  BY <1>3, <1>4
<1>6. /\ lo % SizeCluster = 0
      /\ archtmp \in Seq(Entry) /\ Len(archtmp) = SizeCluster
      /\ \A i \in 1 .. SizeCluster : /\ archtmp[i].rec \in files
                                     /\ archtmp[i].rec.no = lo + i - 1
                                     /\ archtmp[i].sep = (i > 1)
  BY <1>2, <1>4, <1>5 DEF Mirror, IInv, TypeOK, lo
<1>7. /\ \A k \in lo .. lo + SizeCluster - 1 : k \in Nos(files)
      /\ lo + SizeCluster \in Nos(Kept) /\ i64_end \in pool
  BY <1>3, <1>4
<1>8. Kept' = Kept /\ DiskInv' /\ \E b \in Whole' : b.start = lo
  BY <1>1, <1>3, <1>6, <1>7, ArchivePut
<1>9. PoolInv'
  BY <1>1, <1>2, <1>8 DEF IInv, MemInv, PoolInv
<1>10. BootInv' /\ TmpInv'
  BY <1>1 DEF BootInv, TmpInv, Booting
<1>11. RemoveInv'
  <2>1. i64_end % SizeCluster = 0
    <3>1. lo \in lo .. lo + SizeCluster - 1
      BY <1>3, ClusterAssumption
    <3> QED
      BY <1>3, <1>4, <1>6, <3>1, BoundaryOf
  <2>2. i64_end - SizeCluster = lo /\ i64_end <= lo + SizeCluster
    BY <1>3, <1>4
  <2>3. Archived(i64_end - SizeCluster)'
    BY <1>1, <1>8, <2>2 DEF Archived
  <2> QED
    BY <1>1, <1>7, <2>1, <2>2, <2>3 DEF RemoveInv, lo
<1>12. StoreInv'
  BY <1>1, <1>4 DEF StoreInv, hi
<1>13. TypeOK'
  <2>1. new \in Archive /\ <<>> \in Seq(Entry)
    BY <1>3, <1>6, EmptySeq DEF Archive
  <2>2. archs' \subseteq Archive
    BY <1>1, <2>1 DEF IInv, TypeOK, PutArch
  <2> QED
    BY <1>1, <2>1, <2>2 DEF IInv, TypeOK, Storing
<1> QED
  BY <1>8, <1>9, <1>10, <1>11, <1>12, <1>13 DEF IInv, MemInv

LEMMA RemovePoolInv ==
  ASSUME IInv, RemovePool
  PROVE  IInv' /\ Kept' = Kept
<1> DEFINE lo == Min(pool)
           hi == Max(pool)
<1>1. /\ pc = "remove"
      /\ UNCHANGED <<archs, emafile, rec, redun, ema, i64_end, crashes, skipped>>
  BY DEF RemovePool, past
<1>2. /\ i64_end \in pool /\ i64_end % SizeCluster = 0 /\ pool # {}
      /\ hi = i64_end /\ rec \in files /\ rec.no = hi /\ pc \in Live
  BY <1>1 DEF IInv, MemInv, RemoveInv, StoreInv, Live, Storing
<1>3. CASE MoreToRemove
  <2>1. RemoveNext /\ UNCHANGED <<pc, archtmp, enc, first>>
    BY <1>3 DEF RemovePool
  <2>2. /\ Kept' = Kept /\ DiskInv' /\ PoolInv' /\ BootInv' /\ RemoveInv'
        /\ StoreInv' /\ files' \subseteq files /\ pool' \subseteq pool
    BY <1>1, <1>3, <2>1, RemoveStep
  <2>3. TmpInv'
    BY <1>1, <2>1 DEF TmpInv
  <2>4. TypeOK'
    BY <1>1, <2>1, <2>2 DEF IInv, TypeOK
  <2> QED
    BY <2>2, <2>3, <2>4 DEF IInv, MemInv
<1>4. CASE ~MoreToRemove
  <2>1. /\ archtmp' = <<>> /\ enc' = "tmp" /\ first' = TRUE /\ pc' = "append"
        /\ UNCHANGED <<files, pool>>
    BY <1>4 DEF RemovePool, OpenArchTmp
  <2>2. Kept' = Kept /\ DiskInv' /\ PoolInv'
    BY <1>1, <1>2, <2>1, SamePool DEF Live, Storing
  <2>3. lo = hi /\ hi < lo + SizeCluster /\ hi - lo = 0
    <3>1. lo \in Nat /\ hi \in Nat /\ lo <= hi /\ ~(lo < i64_end)
      BY <1>2, <1>4, PoolFacts DEF MoreToRemove
    <3> QED
      BY <1>2, <3>1, ClusterAssumption
  <2>4. BootInv' /\ RemoveInv'
    BY <2>1 DEF BootInv, RemoveInv, Booting
  <2>5. StoreInv'
    BY <1>1, <1>2, <2>1, <2>3 DEF StoreInv
  <2>6. TmpInv'
    <3>1. Len(<<>>) = 0 /\ 0 <= SizeCluster
      BY ClusterAssumption
    <3>2. \A i \in 1 .. 0 : FALSE
      OBVIOUS
    <3>3. lo % SizeCluster = 0
      BY <1>2, <2>3
    <3>4. Mirror(0)'
      BY <2>1, <3>1, <3>2, <3>3 DEF Mirror
    <3> QED
      BY <2>1, <2>3, <3>4 DEF TmpInv
  <2>7. TypeOK'
    <3>1. <<>> \in Seq(Entry)
      BY EmptySeq
    <3> QED
      BY <1>1, <2>1, <3>1 DEF IInv, TypeOK, Storing
  <2> QED
    BY <2>2, <2>4, <2>5, <2>6, <2>7 DEF IInv, MemInv
<1> QED
  BY <1>3, <1>4

LEMMA AppendArchInv ==
  ASSUME IInv, AppendArch
  PROVE  IInv' /\ Kept' = Kept
<1> DEFINE lo == Min(pool)
           hi == Max(pool)
           n  == hi - lo
           e  == [rec |-> rec, sep |-> ~first]
<1>1. /\ pc = "append" /\ archtmp' = Append(archtmp, e) /\ first' = FALSE
      /\ rec' = NoRec /\ pc' = "idle"
      /\ UNCHANGED <<files, archs, emafile, pool, redun, ema, enc, i64_end,
                     crashes, skipped>>
  BY DEF AppendArch, past
<1>2. pc \in Live /\ pc' \in Live /\ pool # {}
  BY <1>1 DEF Live, Storing, IInv, MemInv, PoolInv
<1>3. Kept' = Kept /\ DiskInv' /\ PoolInv'
  BY <1>1, <1>2, SamePool
<1>4. /\ rec \in files /\ rec.no = hi /\ hi < lo + SizeCluster
      /\ Mirror(n) /\ enc = "tmp"
  BY <1>1 DEF IInv, MemInv, StoreInv, TmpInv, Storing
<1>5. /\ lo \in Nat /\ hi \in Nat /\ lo <= hi /\ SizeCluster \in Nat
      /\ archtmp \in Seq(Entry) /\ e \in Entry /\ rec \in Record
  BY <1>2, <1>4, PoolFacts, ClusterAssumption DEF IInv, TypeOK, Entry
<1> HIDE DEF lo, hi
<1>6. /\ n \in Nat /\ n + 1 <= SizeCluster /\ lo + (n + 1) - 1 = hi
      /\ n + 1 # 0 /\ hi + 1 - lo = n + 1
  BY <1>4, <1>5
<1> HIDE DEF n
<1>7. /\ Len(archtmp) = n /\ first = (n = 0) /\ lo % SizeCluster = 0
      /\ \A i \in 1 .. n : /\ archtmp[i].rec \in files
                           /\ archtmp[i].rec.no = lo + i - 1
                           /\ archtmp[i].sep = (i > 1)
  BY <1>2, <1>4 DEF Mirror, lo
<1>8. /\ archtmp' \in Seq(Entry) /\ Len(archtmp') = n + 1
      /\ \A i \in 1 .. n : archtmp'[i] = archtmp[i]
      /\ archtmp'[n + 1] = e
  BY <1>1, <1>5, <1>7, AppendProperties
<1>9. (~first) = (n + 1 > 1)
  <2>1. CASE n = 0
    <3>1. first = TRUE
      BY <1>7, <2>1
    <3>2. (n + 1 > 1) = FALSE
      BY <2>1
    <3> QED
      BY <3>1, <3>2
  <2>2. CASE n # 0
    <3>1. first = FALSE
      BY <1>7, <2>2
    <3>2. (n + 1 > 1) = TRUE
      BY <1>6, <2>2
    <3> QED
      BY <3>1, <3>2
  <2> QED
    BY <2>1, <2>2
<1>10. e.rec = rec /\ e.sep = (~first)
  OBVIOUS
<1> HIDE DEF e
<1>11. ASSUME NEW i \in 1 .. n + 1
       PROVE  /\ archtmp'[i].rec \in files
              /\ archtmp'[i].rec.no = lo + i - 1
              /\ archtmp'[i].sep = (i > 1)
  <2>1. i \in 1 .. n \/ i = n + 1
    BY <1>6
  <2>2. CASE i \in 1 .. n
    BY <1>7, <1>8, <2>2
  <2>3. CASE i = n + 1
    <3>1. archtmp'[i] = e
      BY <1>8, <2>3
    <3>2. e.rec.no = lo + i - 1
      BY <1>4, <1>6, <1>10, <2>3
    <3>3. e.sep = (i > 1)
      <4>1. e.sep = (n + 1 > 1)
        BY <1>9, <1>10
      <4> QED
        BY <2>3, <4>1, Zenon
    <3> QED
      BY <1>4, <1>10, <3>1, <3>2, <3>3
  <2> QED
    BY <2>1, <2>2, <2>3
<1>12. TmpInv'
  <2>1. Min(pool') = lo /\ Max(pool') = hi /\ pool' # {} /\ files' = files
    BY <1>1, <1>2 DEF lo, hi
  <2>2. first' = (n + 1 = 0)
    BY <1>1, <1>6
  <2> QED
    BY <1>1, <1>4, <1>6, <1>7, <1>8, <1>11, <2>1, <2>2 DEF TmpInv, Mirror
<1>13. BootInv' /\ RemoveInv' /\ StoreInv'
  BY <1>1 DEF BootInv, RemoveInv, StoreInv, Booting, Storing
<1>14. TypeOK'
  BY <1>1, <1>8 DEF IInv, TypeOK
<1> QED
  BY <1>3, <1>12, <1>13, <1>14 DEF IInv, MemInv

LEMMA ForgetInv ==
  ASSUME IInv, Forget, crashes' \in 0 .. MaxCrash, UNCHANGED skipped
  PROVE  IInv' /\ Kept' = Kept
<1>1. /\ pc' = "down" /\ UNCHANGED <<files, archs, archtmp, emafile>>
      /\ pool' = {} /\ rec' = NoRec /\ redun' = <<>> /\ ema' = 0
      /\ first' = TRUE /\ enc' = "none" /\ i64_end' = 0
  BY DEF Forget, disk
<1>2. Kept' = Kept /\ DiskInv'
  BY <1>1, SameDisk
<1>3. MemInv'
  BY <1>1 DEF MemInv, PoolInv, BootInv, RemoveInv, StoreInv, TmpInv, Live,
              Booting, Storing
<1>4. TypeOK'
  <2>1. <<>> \in Seq(Game) /\ Len(<<>>) <= RedunCap
    BY EmptySeq, RedunAssumption
  <2> QED
    BY <1>1, <2>1 DEF IInv, TypeOK
<1> QED
  BY <1>2, <1>3, <1>4 DEF IInv

-----------------------------------------------------------------------------
(* The inductive step, and what a step does to the log.                    *)

LEMMA StepInv ==
  ASSUME IInv, [Next]_vars
  PROVE  IInv' /\ (Kept' = Kept \/ RenamePool)
<1>1. CASE BootStep
  BY <1>1, StartInv, TrimInv, BootHeadInv, BootWriteInv, BootRemoveInv,
     RefillInv DEF BootStep
<1>2. ASSUME NEW g \in Game, Duplicate(g) \/ Receive(g)
      PROVE  IInv' /\ Kept' = Kept
  BY <1>2, DuplicateInv, ReceiveInv
<1>3. CASE StoreStep
  BY <1>3, RenamePoolInv, EmaInv, ClusterInv, RenameArchInv, RemovePoolInv,
     AppendArchInv DEF StoreStep
<1>4. CASE Quit \/ Kill
  <2>1. Forget /\ crashes' \in 0 .. MaxCrash /\ UNCHANGED skipped
    BY <1>4 DEF Quit, Kill, IInv, TypeOK, past
  <2> QED
    BY <2>1, ForgetInv
<1>5. CASE Crash
  <2>1. Forget /\ crashes' \in 0 .. MaxCrash /\ UNCHANGED skipped
    BY <1>5, BoundAssumption DEF Crash, IInv, TypeOK
  <2> QED
    BY <2>1, ForgetInv
<1>6. CASE UNCHANGED vars
  <2>1. UNCHANGED <<files, archs, archtmp, emafile, pc, pool, rec, redun, ema,
                    first, enc, i64_end, crashes, skipped>>
    BY <1>6 DEF vars, disk, mem, past
  <2>2. Kept' = Kept /\ Whole' = Whole /\ DiskInv'
    BY <2>1, SameDisk
  <2>3. TypeOK'
    BY <2>1 DEF IInv, TypeOK
  <2>4. PoolInv' /\ BootInv' /\ RemoveInv' /\ StoreInv' /\ TmpInv'
    BY <2>1, <2>2 DEF IInv, MemInv, PoolInv, BootInv, RemoveInv, StoreInv,
                      TmpInv, Mirror, Archived
  <2> QED
    BY <2>2, <2>3, <2>4 DEF IInv, MemInv
<1> QED
  BY <1>1, <1>2, <1>3, <1>4, <1>5, <1>6 DEF Next

(* The inductive invariant holds in every reachable state. *)
THEOREM Invariance == Spec => []IInv
<1>1. Init => IInv
  BY InitInv
<1>2. IInv /\ [Next]_vars => IInv'
  BY StepInv
<1> QED
  BY <1>1, <1>2, PTL DEF Spec

-----------------------------------------------------------------------------
(* The theorems.                                                           *)

(* Type correctness; in particular the redundancy table keeps within its   *)
(* capacity (HashTable::operator[]) and no number is ever negative.        *)
THEOREM TypeCorrect == Spec => []TypeOK
<1>1. IInv => TypeOK
  BY DEF IInv
<1> QED
  BY <1>1, Invariance, PTL

(* Every complete archive holds exactly its cluster, in order, with the    *)
(* separators in place - whichever of transact() and start() made it, and  *)
(* whatever crashed before: for every cluster size.                        *)
THEOREM ArchivesSafe == Spec => []ArchivesExact
<1>1. IInv => ArchivesExact
  BY DEF IInv, DiskInv
<1> QED
  BY <1>1, Invariance, PTL

(* Whatever crashes have left in the pool directory, start() reports       *)
(* "invalid files" (datakeep.cpp:476) only after it once passed over a     *)
(* file it could not remove (datakeep.cpp:529), and then, too, the pool it *)
(* ends with begins at a cluster (datakeep.cpp:534).  Nothing is said of   *)
(* the length of that pool: it may be a whole cluster (datakeep.cpp:535).  *)
THEOREM StartSafe == Spec => []StartAccepts
<1>1. IInv => StartAccepts
  BY DEF IInv, MemInv, PoolInv, BootInv, StartAccepts
<1> QED
  BY <1>1, Invariance, PTL

(* Between two jobs the temporary archive, open for more, holds the        *)
(* records of the pool: what transact() will rename into place unread.     *)
LEMMA MirrorEqual == IInv => ArchTmpMirrorsPool
<1> SUFFICES ASSUME IInv, pc = "idle"
             PROVE  /\ enc = "tmp" /\ first = (pool = {})
                    /\ archtmp = IF pool = {} THEN <<>>
                         ELSE Stream(Min(pool), Max(pool) + 1 - Min(pool))
  BY DEF ArchTmpMirrorsPool
<1>1. /\ enc = "tmp"
      /\ Mirror(IF pool = {} THEN 0 ELSE Max(pool) + 1 - Min(pool))
      /\ archtmp \in Seq(Entry)
  BY DEF IInv, MemInv, TmpInv, TypeOK
<1>2. CASE pool = {}
  <2>1. Len(archtmp) = 0 /\ first = (0 = 0)
    BY <1>1, <1>2 DEF Mirror
  <2>2. archtmp = <<>>
    BY <1>1, <2>1, EmptySeq
  <2> QED
    BY <1>1, <1>2, <2>1, <2>2
<1>3. CASE pool # {}
  <2> DEFINE lo == Min(pool)
             n  == Max(pool) + 1 - lo
             s  == Stream(lo, n)
  <2>1. /\ Len(archtmp) = n /\ first = (n = 0)
        /\ \A i \in 1 .. n : /\ archtmp[i].rec \in files
                             /\ archtmp[i].rec.no = lo + i - 1
                             /\ archtmp[i].sep = (i > 1)
    BY <1>1, <1>3 DEF Mirror
  <2>2. /\ lo \in Nat /\ n \in Nat /\ n # 0
        /\ \A k \in lo .. lo + n - 1 : k \in Nos(files)
    <3>1. /\ lo \in Nat /\ Max(pool) \in Nat /\ lo <= Max(pool)
          /\ pool \subseteq Nos(files)
          /\ \A k \in Nat : k \in pool <=> lo <= k /\ k <= Max(pool)
      BY <1>3, PoolFacts DEF Live
    <3> QED
      BY <3>1
  <2> HIDE DEF lo, n
  <2>3. /\ s \in Seq(Entry) /\ Len(s) = n
        /\ \A i \in 1 .. n : /\ s[i].rec \in files
                             /\ s[i].rec.no = lo + i - 1
                             /\ s[i].sep = (i > 1)
    BY <2>2, StreamFacts
  <2> HIDE DEF s
  <2>4. ASSUME NEW i \in 1 .. n
        PROVE  archtmp[i] = s[i]
    <3>1. archtmp[i] \in Entry /\ s[i] \in Entry
      BY <1>1, <2>1, <2>3, ElementOfSeq
    <3>2. archtmp[i].rec \in Kept /\ s[i].rec \in Kept
      BY <2>1, <2>3, KeptIs
    <3>3. archtmp[i].rec = s[i].rec
      BY <2>1, <2>3, <3>2 DEF IInv, DiskInv, Unique
    <3>4. archtmp[i].sep = s[i].sep
      BY <2>1, <2>3
    <3> QED
      BY <3>1, <3>3, <3>4 DEF Entry
  <2>5. archtmp = s
    BY <1>1, <2>1, <2>3, <2>4, SeqEqual
  <2> QED
    BY <1>1, <1>3, <2>1, <2>2, <2>5 DEF s, n, lo
<1> QED
  BY <1>2, <1>3

THEOREM MirrorSafe == Spec => []ArchTmpMirrorsPool
  BY Invariance, MirrorEqual, PTL

(* What the disk holds is the append-only log of RecLog: no record is lost *)
(* or changed, no number is skipped or given twice, for every number of    *)
(* crashes at any point of start() and transact().                         *)
LEMMA NextNoIs ==
  ASSUME NEW n \in Nat
  PROVE  L!NextNo(0 .. n - 1) = n
<1>1. CASE n = 0
  <2>1. 0 .. n - 1 = {}
    BY <1>1
  <2> QED
    BY <1>1, <2>1 DEF L!NextNo
<1>2. CASE n # 0
  <2>1. n - 1 \in Nat /\ 0 \in Nat /\ 0 <= n - 1 /\ 0 .. n - 1 # {}
    BY <1>2
  <2>2. Max(0 .. n - 1) = n - 1
    BY <2>1, IntervalEnds
  <2>3. L!Max(0 .. n - 1) = n - 1
    BY <2>2 DEF L!Max, Max
  <2> QED
    BY <2>1, <2>3 DEF L!NextNo
<1> QED
  BY <1>1, <1>2

THEOREM LogRefined == Spec => LogSpec
<1>1. Init => L!Init
  BY DEF Init, L!Init, Kept, Whole
<1>2. ASSUME IInv, [Next]_vars
      PROVE  [L!Next]_Kept
  <2>1. CASE Kept' = Kept
    BY <2>1
  <2>2. CASE RenamePool
    <3>1. /\ Kept' = Kept \cup {rec} /\ rec \in Record
          /\ Nos(Kept') = 0 .. rec.no
          /\ \A q \in Kept : q.no # rec.no
      BY <1>2, <2>2, RenamePoolInv
    <3>2. L!Nos(Kept) = 0 .. rec.no - 1
      <4>1. L!Nos(Kept) = Nos(Kept)
        BY DEF L!Nos, Nos
      <4>2. Nos(Kept') = Nos(Kept) \cup {rec.no} /\ rec.no \notin Nos(Kept)
        BY <3>1 DEF Nos
      <4>3. rec.no \in Nat
        BY <3>1 DEF Record
      <4>4. Nos(Kept) = (0 .. rec.no) \ {rec.no}
        BY <3>1, <4>2
      <4>5. (0 .. rec.no) \ {rec.no} = 0 .. rec.no - 1
        BY <4>3
      <4> QED
        BY <4>1, <4>4, <4>5
    <3>3. L!NextNo(L!Nos(Kept)) = rec.no
      BY <3>1, <3>2, NextNoIs DEF Record
    <3>4. rec = [no |-> rec.no, game |-> rec.game] /\ rec.game \in Game
      BY <3>1 DEF Record
    <3>5. L!Accept(rec.game)
      BY <3>1, <3>3, <3>4 DEF L!Accept
    <3> QED
      BY <3>4, <3>5 DEF L!Next
  <2> QED
    BY <1>2, <2>1, <2>2, StepInv
<1> QED
  BY <1>1, <1>2, Invariance, PTL DEF Spec, LogSpec, L!Spec

-----------------------------------------------------------------------------
(* The averages.                                                           *)

(* The records whose sample the averages have absorbed, or will. *)
Samples == {r \in Kept : r.game \in NoResign}

(* One that is stored, and will be counted in ema.cfg by this run. *)
Uncounted == IF pc \in {"ema", "emarename"} THEN 1 ELSE 0

SampleInv ==
  /\ IsFiniteSet(Samples)
  /\ emafile + Uncounted <= Cardinality(Samples)
  /\ Cardinality(Samples) <= emafile + crashes + Uncounted
  /\ pc # "down" => ema = emafile + (IF pc = "emarename" THEN 1 ELSE 0)

(* A step that stores no record and ends no process. *)
LEMMA SamplesStay ==
  ASSUME SampleInv, Kept' = Kept, UNCHANGED <<emafile, crashes>>,
         Uncounted' = Uncounted,
         pc' # "down" => ema' = emafile + (IF pc' = "emarename" THEN 1 ELSE 0)
  PROVE  SampleInv'
<1>1. Samples' = Samples
  BY DEF Samples
<1> QED
  BY <1>1 DEF SampleInv

LEMMA EmaStep ==
  ASSUME IInv, SampleInv, [Next]_vars
  PROVE  SampleInv'
<1>1. /\ emafile \in Nat /\ crashes \in Nat /\ ema \in Nat
  BY DEF IInv, TypeOK
<1>2. Kept' = Kept \/ RenamePool
  BY StepInv
<1>3. CASE Start
  <2>1. pc \in {"down", "dead", "aborted"}
        /\ pc' \in {"idle", "dead", "trim", "boot"}
    BY <1>3 DEF Start
  <2>2. ema' = emafile /\ UNCHANGED <<emafile, crashes>>
    BY <1>3 DEF Start, LoadedEma, past
  <2>3. Uncounted = 0 /\ Uncounted' = 0 /\ ~RenamePool
    BY <2>1 DEF Uncounted, RenamePool
  <2> QED
    BY <1>1, <1>2, <2>1, <2>2, <2>3, SamplesStay
<1>4. ASSUME Trim \/ Boot \/ BootWrite \/ BootRemove \/ Refill
             \/ Cluster \/ RenameArch \/ RemovePool \/ AppendArch
             \/ \E g \in Game : Duplicate(g) \/ Receive(g)
      PROVE  SampleInv'
  <2>1. /\ pc \notin {"down", "rename", "ema", "emarename"}
        /\ pc' \notin {"down", "ema", "emarename"}
        /\ UNCHANGED <<ema, emafile, crashes>>
    BY <1>4 DEF Trim, Boot, BootWrite, BootRemove, Refill, Cluster, RenameArch,
                RemovePool, AppendArch, Duplicate, Receive, disk, mem, past
  <2>2. Uncounted = 0 /\ Uncounted' = 0 /\ ~RenamePool
    BY <2>1 DEF Uncounted, RenamePool
  <2>3. ema = emafile
    BY <1>1, <2>1 DEF SampleInv
  <2> QED
    BY <1>1, <1>2, <2>1, <2>2, <2>3, SamplesStay
<1>5. CASE UpdateEma
  <2>1. /\ pc = "ema" /\ pc' = "emarename" /\ ema' = ema + 1
        /\ UNCHANGED <<emafile, crashes>>
    BY <1>5 DEF UpdateEma, disk, past
  <2>2. Uncounted = 1 /\ Uncounted' = 1 /\ ~RenamePool
    BY <2>1 DEF Uncounted, RenamePool
  <2>3. ema = emafile
    BY <1>1, <2>1 DEF SampleInv
  <2> QED
    BY <1>1, <1>2, <2>1, <2>2, <2>3, SamplesStay
<1>6. CASE RenameEma
  <2>1. /\ pc = "emarename" /\ pc' = "cluster" /\ emafile' = ema
        /\ UNCHANGED <<ema, crashes>>
    BY <1>6 DEF RenameEma, mem, past
  <2>2. Uncounted = 1 /\ Uncounted' = 0 /\ ~RenamePool
    BY <2>1 DEF Uncounted, RenamePool
  <2>3. Samples' = Samples
    BY <1>2, <2>2 DEF Samples
  <2>4. ema = emafile + 1 /\ Cardinality(Samples) \in Nat
    BY <2>1, FS_CardinalityType DEF SampleInv
  <2> QED
    BY <1>1, <2>1, <2>2, <2>3, <2>4 DEF SampleInv
<1>7. CASE RenamePool
  <2>1. /\ pc = "rename" /\ UNCHANGED <<ema, emafile, crashes>>
        /\ pc' = IF rec.game \in NoResign THEN "ema" ELSE "cluster"
    BY <1>7 DEF RenamePool, past
  <2>2. /\ Kept' = Kept \cup {rec} /\ \A q \in Kept : q.no # rec.no
    BY <1>7, RenamePoolInv
  <2>3. Uncounted = 0 /\ ema = emafile /\ IsFiniteSet(Samples)
        /\ Cardinality(Samples) \in Nat
    BY <1>1, <2>1, FS_CardinalityType DEF SampleInv, Uncounted
  <2>4. CASE rec.game \in NoResign
    <3>1. Samples' = Samples \cup {rec} /\ rec \notin Samples
      BY <2>2, <2>4 DEF Samples
    <3>2. IsFiniteSet(Samples') /\ Cardinality(Samples') = Cardinality(Samples) + 1
      BY <2>3, <3>1, FS_AddElement
    <3>3. pc' = "ema" /\ Uncounted' = 1
      BY <2>1, <2>4 DEF Uncounted
    <3> QED
      BY <1>1, <2>1, <2>3, <3>2, <3>3 DEF SampleInv
  <2>5. CASE rec.game \notin NoResign
    <3>1. Samples' = Samples
      BY <2>2, <2>5 DEF Samples
    <3>2. pc' = "cluster" /\ Uncounted' = 0
      BY <2>1, <2>5 DEF Uncounted
    <3> QED
      BY <1>1, <2>1, <2>3, <3>1, <3>2 DEF SampleInv
  <2> QED
    BY <2>4, <2>5
<1>8. CASE Quit \/ Kill
  <2>1. /\ pc \in {"idle", "hung"} /\ pc' = "down" /\ UNCHANGED <<emafile, crashes>>
    BY <1>8 DEF Quit, Kill, Forget, disk, past
  <2>2. Uncounted = 0 /\ Uncounted' = 0 /\ ~RenamePool
    BY <2>1 DEF Uncounted, RenamePool
  <2> QED
    BY <1>2, <2>1, <2>2, SamplesStay
<1>9. CASE Crash
  <2>1. pc' = "down" /\ crashes' = crashes + 1 /\ UNCHANGED emafile
    BY <1>9 DEF Crash, Forget, disk
  <2>2. Uncounted \in {0, 1} /\ Uncounted' = 0 /\ ~RenamePool
    BY <1>9, <2>1 DEF Uncounted, RenamePool
  <2>3. Samples' = Samples
    BY <1>2, <2>2 DEF Samples
  <2>4. Cardinality(Samples) \in Nat
    BY FS_CardinalityType DEF SampleInv
  <2> QED
    BY <1>1, <2>1, <2>2, <2>3, <2>4 DEF SampleInv
<1>10. CASE UNCHANGED vars
  <2>1. UNCHANGED <<pc, ema, emafile, crashes, files, archs>>
    BY <1>10 DEF vars, disk, mem, past
  <2> QED
    BY <2>1 DEF SampleInv, Samples, Kept, Whole, Uncounted
<1> QED
  BY <1>3, <1>4, <1>5, <1>6, <1>7, <1>8, <1>9, <1>10
  DEF Next, BootStep, StoreStep

(* ema.cfg counts the sample of every stored record once at most, and      *)
(* misses one at most for every crash, wherever the process stopped        *)
(* (datakeep.cpp:304-323, 656-660).                                            *)
THEOREM EmaSafe == Spec => []EmaMissesOnlyCrashes
<1>1. Init => SampleInv
  <2> SUFFICES ASSUME Init PROVE SampleInv
    OBVIOUS
  <2>1. Samples = {}
    BY DEF Init, Samples, Kept, Whole
  <2> QED
    BY <2>1, FS_EmptySet DEF Init, SampleInv, Uncounted
<1>2. IInv /\ SampleInv => EmaMissesOnlyCrashes
  <2> SUFFICES ASSUME IInv, SampleInv PROVE EmaMissesOnlyCrashes
    OBVIOUS
  <2>1. /\ emafile \in Nat /\ crashes \in Nat /\ Uncounted \in {0, 1}
        /\ Cardinality(Samples) \in Nat
    BY FS_CardinalityType DEF IInv, TypeOK, SampleInv, Uncounted
  <2>2. /\ 0 <= Cardinality(Samples) - emafile
        /\ Cardinality(Samples) - emafile <= crashes + Uncounted
    BY <2>1 DEF SampleInv
  <2> QED
    BY <2>2 DEF EmaMissesOnlyCrashes, Samples, Uncounted
<1> QED
  BY <1>1, <1>2, EmaStep, Invariance, PTL DEF Spec

-----------------------------------------------------------------------------
(* The table of the records stored last.                                   *)

(* A process that starts knows none; from the number on, the record being  *)
(* stored is in the table.                                                 *)
TableInv ==
  /\ pc \in Booting => redun = <<>>
  /\ pc \in Storing => rec.game \in ToSet(redun)
  /\ ResentRecordKnown

(* What operator[] leaves in the table, or puts into it. *)
LEMMA TouchSet ==
  ASSUME NEW s \in Seq(Game), Len(s) <= RedunCap, NEW g \in Game
  PROVE  /\ g \in ToSet(Touch(s, g))
         /\ g \in ToSet(s) => ToSet(s) \subseteq ToSet(Touch(s, g))
<1>1. ASSUME NEW t \in Seq(Game)
      PROVE  ToSet(t) \cup {g} \subseteq ToSet(Append(t, g))
  <2> DEFINE u == Append(t, g)
  <2>1. /\ Len(t) \in Nat /\ DOMAIN t = 1 .. Len(t) /\ DOMAIN u = 1 .. Len(t) + 1
        /\ u[Len(t) + 1] = g /\ \A i \in 1 .. Len(t) : u[i] = t[i]
    BY LenProperties, AppendProperties
  <2> HIDE DEF u
  <2>2. Len(t) + 1 \in DOMAIN u /\ \A i \in DOMAIN t : i \in DOMAIN u
    BY <2>1
  <2>3. g \in ToSet(u) /\ \A i \in DOMAIN t : t[i] \in ToSet(u)
    BY <2>1, <2>2 DEF ToSet
  <2> QED
    BY <2>3 DEF u, ToSet
<1>2. CASE g \in ToSet(s)
  <2>1. /\ RemoveFirst(s, g) \in Seq(Game)
        /\ \A x \in ToSet(s) : x # g => x \in ToSet(RemoveFirst(s, g))
    BY <1>2, RemoveFirstType
  <2> QED
    BY <1>1, <1>2, <2>1 DEF Touch
<1>3. CASE g \notin ToSet(s) /\ Len(s) < RedunCap
  BY <1>1, <1>3 DEF Touch
<1>4. CASE g \notin ToSet(s) /\ ~(Len(s) < RedunCap)
  <2>1. s # <<>>
    BY <1>4, RedunAssumption, EmptySeq
  <2>2. Tail(s) \in Seq(Game)
    BY <2>1, HeadTailProperties
  <2> QED
    BY <1>1, <1>4, <2>2 DEF Touch
<1> QED
  BY <1>2, <1>3, <1>4

LEMMA TableStep ==
  ASSUME IInv, TableInv, [Next]_vars
  PROVE  TableInv'
<1>1. redun \in Seq(Game) /\ Len(redun) <= RedunCap
  BY DEF IInv, TypeOK
<1>2. Kept' = Kept \/ RenamePool
  BY StepInv
<1>3. ASSUME redun' = <<>>, pc' \notin Storing PROVE TableInv'
  BY <1>3 DEF TableInv, ResentRecordKnown
<1>4. ASSUME BootStep PROVE TableInv'
  <2>1. /\ pc' \in Booting \cup {"idle", "dead", "hung", "aborted"}
        /\ \/ redun' = <<>>
           \/ redun' = redun /\ pc \in Booting
    <3>1. CASE Start
      BY <3>1 DEF Start, Booting
    <3>2. CASE Trim \/ Boot \/ BootWrite
      BY <3>2 DEF Trim, Boot, BootWrite, Booting
    <3>3. CASE BootRemove \/ Refill
      BY <3>3 DEF BootRemove, Refill, Booting
    <3> QED
      BY <1>4, <3>1, <3>2, <3>3 DEF BootStep
  <2>2. redun' = <<>> /\ pc' \notin Storing
    BY <2>1 DEF TableInv, Booting, Storing
  <2> QED
    BY <1>3, <2>2
<1>5. ASSUME Quit \/ Kill \/ Crash PROVE TableInv'
  BY <1>3, <1>5 DEF Quit, Kill, Crash, Forget, Storing
<1>6. ASSUME NEW g \in Game, Duplicate(g) PROVE TableInv'
  <2>1. /\ pc = "idle" /\ g \in ToSet(redun) /\ redun' = Touch(redun, g)
        /\ UNCHANGED <<pc, pool, files, archs>>
    BY <1>6 DEF Duplicate, disk
  <2>2. ToSet(redun) \subseteq ToSet(redun')
    BY <1>1, <2>1, TouchSet
  <2>3. redun # <<>> /\ Kept' = Kept
    BY <2>1 DEF ToSet, Kept, Whole
  <2> QED
    BY <2>1, <2>2, <2>3 DEF TableInv, ResentRecordKnown, Booting, Storing
<1>7. ASSUME NEW g \in Game, Receive(g) PROVE TableInv'
  <2>1. pc' = "rename" /\ rec'.game = g /\ g \in ToSet(redun')
    BY <1>1, <1>7, TouchSet DEF Receive
  <2> QED
    BY <2>1 DEF TableInv, ResentRecordKnown, Booting
<1>8. ASSUME RenamePool \/ UpdateEma \/ RenameEma \/ Cluster \/ RenameArch \/ RemovePool
      PROVE  TableInv'
  <2>1. pc \in Storing /\ pc' \in Storing /\ UNCHANGED <<rec, redun>>
    BY <1>8 DEF RenamePool, UpdateEma, RenameEma, Cluster, RenameArch, RemovePool,
                Storing, mem
  <2> QED
    BY <2>1 DEF TableInv, ResentRecordKnown, Booting, Storing
<1>9. ASSUME AppendArch PROVE TableInv'
  <2>1. /\ pc = "append" /\ pc' = "idle" /\ UNCHANGED <<pool, redun>>
        /\ Kept' = Kept
    BY <1>9 DEF AppendArch, Kept, Whole
  <2>2. /\ rec.game \in ToSet(redun) /\ rec \in Kept /\ rec.no = Max(pool)
        /\ pool # {} /\ pc \in Live
    BY <2>1, KeptIs DEF TableInv, IInv, MemInv, StoreInv, PoolInv, Storing, Live
  <2>3. NextNo(pool) - 1 = rec.no
    BY <2>2, PoolFacts DEF NextNo
  <2>4. \A r \in Kept : r.no = rec.no => r = rec
    BY <2>2 DEF IInv, DiskInv, Unique
  <2>5. NextNo(pool') - 1 = rec.no
    BY <2>1, <2>3
  <2> QED
    BY <2>1, <2>2, <2>4, <2>5 DEF TableInv, ResentRecordKnown, Booting, Storing
<1>10. CASE UNCHANGED vars
  <2>1. UNCHANGED <<pc, rec, redun, pool, files, archs>>
    BY <1>10 DEF vars, disk, mem
  <2> QED
    BY <2>1 DEF TableInv, ResentRecordKnown, Kept, Whole
<1> QED
  BY <1>4, <1>5, <1>6, <1>7, <1>8, <1>9, <1>10 DEF Next, StoreStep

(* Of the records stored in this run the last one is in the table, whatever *)
(* duplicates were looked up since: sent again, it is rejected             *)
(* (datakeep.cpp:639-644, hashtbl.hpp operator[]).                         *)
THEOREM ResentSafe == Spec => []ResentRecordKnown
<1>1. Init => TableInv
  BY DEF Init, TableInv, ResentRecordKnown, Booting, Storing
<1>2. TableInv => ResentRecordKnown
  BY DEF TableInv
<1> QED
  BY <1>1, <1>2, TableStep, Invariance, PTL DEF Spec
=============================================================================
