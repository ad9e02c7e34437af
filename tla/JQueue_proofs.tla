---------------------------- MODULE JQueue_proofs ---------------------------
(***************************************************************************)
(* Proofs about the job queue, for every capacity and every set of jobs.   *)
(***************************************************************************)
EXTENDS JQueue, SequenceTheorems, TLAPS

(* What a thread that is about to sleep has seen still holds when it does: *)
(* it keeps the mutex in between.                                          *)
PredicateHolds ==
  /\ cons = "blocking" => queue = <<>>
  /\ prod = "blocking" => Full

(* Where the jobs are: the slot being filled and the queued ones carry a   *)
(* job, and the consumer's one exactly while it works on it.               *)
JobsInPlace ==
  /\ prod \in {"push", "blocking", "waiting"} => slot[inprep] \in Job
  /\ \A i \in 1 .. Len(queue) : slot[queue[i]] \in Job
  /\ cons \in {"popped", "handle"}     => slot[inuse] \in Job
  /\ cons \notin {"popped", "handle"}  => slot[inuse] = None

(* The inductive invariant. *)
IInv ==
  /\ TypeOK
  /\ SlotsPartition
  /\ NoLostWakeup
  /\ PredicateHolds
  /\ JobsInPlace

-----------------------------------------------------------------------------
(* Lemmas about sequences and the free list. *)

(* Front drops the last element, and only that. *)
LEMMA FrontOf ==
  ASSUME NEW S, NEW s \in Seq(S), s # <<>>
  PROVE  /\ Len(s) \in Nat /\ 0 < Len(s)
         /\ Last(s) = s[Len(s)]
         /\ Front(s) \in Seq(S)
         /\ Len(Front(s)) = Len(s) - 1
         /\ \A i \in 1 .. Len(s) - 1 : Front(s)[i] = s[i]
<1>1. Len(s) \in Nat /\ 0 < Len(s) /\ \A i \in 1 .. Len(s) : s[i] \in S
  BY EmptySeq, ElementOfSeq
<1>2. /\ SubSeq(s, 1, Len(s) - 1) \in Seq(S)
      /\ Len(SubSeq(s, 1, Len(s) - 1)) = Len(s) - 1
      /\ \A i \in 1 .. Len(s) - 1 : SubSeq(s, 1, Len(s) - 1)[i] = s[i]
  <2> DEFINE n == Len(s) - 1
  <2>1. n \in Nat /\ \A i \in 1 .. n : s[i] \in S
    BY <1>1
  <2> HIDE DEF n
  <2>2. /\ SubSeq(s, 1, n) \in Seq(S)
        /\ Len(SubSeq(s, 1, n)) = IF 1 <= n THEN n - 1 + 1 ELSE 0
        /\ \A i \in 1 .. n - 1 + 1 : SubSeq(s, 1, n)[i] = s[1 + i - 1]
    BY <2>1, SubSeqProperties
  <2>3. /\ Len(SubSeq(s, 1, n)) = n
        /\ \A i \in 1 .. n : SubSeq(s, 1, n)[i] = s[i]
    BY <2>1, <2>2
  <2> QED
    BY <2>2, <2>3 DEF n
<1> QED
  BY <1>1, <1>2 DEF Front, Last

(* Dropping the last element keeps a sequence free of repetitions, and     *)
(* what it drops is not found before the end.                              *)
LEMMA FrontInjective ==
  ASSUME NEW S, NEW s \in Seq(S), s # <<>>, InjectiveSeq(s)
  PROVE  /\ InjectiveSeq(Front(s))
         /\ \A i \in 1 .. Len(Front(s)) : Front(s)[i] # Last(s)
  BY FrontOf DEF InjectiveSeq

(* Appending something new keeps a sequence free of repetitions. *)
LEMMA AppendInjectiveSeq ==
  ASSUME NEW S, NEW s \in Seq(S), NEW e \in S, InjectiveSeq(s),
         \A i \in 1 .. Len(s) : s[i] # e
  PROVE  InjectiveSeq(Append(s, e))
<1>1. /\ Len(Append(s, e)) = Len(s) + 1
      /\ \A i \in 1 .. Len(s) : Append(s, e)[i] = s[i]
      /\ Append(s, e)[Len(s) + 1] = e
  BY AppendProperties
<1>2. Len(s) \in Nat
  BY LenProperties
<1> QED
  BY <1>1, <1>2 DEF InjectiveSeq

-----------------------------------------------------------------------------

LEMMA InitInv == Init => IInv
<1> SUFFICES ASSUME Init PROVE IInv
  OBVIOUS
<1> USE MaxLenAssumption
<1>1. free \in Seq(Slot) /\ Len(free) = MaxLen /\ \A i \in 1 .. MaxLen : free[i] = i
  <2>1. free \in [1 .. MaxLen -> Slot]
    BY DEF Init, Slot
  <2>2. free \in Seq(Slot)
    BY <2>1, SeqDef
  <2>3. Len(free) = MaxLen
    BY <2>1, <2>2, LenProperties
  <2> QED
    BY <2>2, <2>3 DEF Init
<1>2. queue \in Seq(Slot) /\ Len(queue) = 0
  BY EmptySeq DEF Init
<1>3. slot \in [Slot -> Job \cup {None}] /\ inuse \in Slot /\ inprep \in Slot
  BY DEF Init, Slot
<1>4. TypeOK
  <2>1. Len(queue) <= MaxLen /\ Len(free) <= MaxLen + 1
    BY <1>1, <1>2
  <2>2. bEnd \in BOOLEAN /\ prod \in ProdPc /\ cons \in ConsPc
    BY DEF Init, ProdPc, ConsPc
  <2> QED
    BY <1>1, <1>2, <1>3, <2>1, <2>2 DEF TypeOK
<1>5. SlotsPartition
  BY <1>1, <1>2 DEF Init, SlotsPartition, InjectiveSeq
<1>6. NoLostWakeup /\ PredicateHolds
  BY DEF Init, NoLostWakeup, PredicateHolds
<1>7. JobsInPlace
  BY <1>2, <1>3 DEF Init, JobsInPlace
<1> QED
  BY <1>4, <1>5, <1>6, <1>7 DEF IInv

-----------------------------------------------------------------------------
(* The four actions that move or fill a slot. *)

(* Filling inprep leaves every other slot alone. *)
LEMMA FillInv == ASSUME IInv, NEW j \in Job, Fill(j) PROVE IInv'
<1> USE DEF IInv
<1>1. UNCHANGED <<free, queue, inuse, inprep, bEnd, cons>> /\ prod' = "push"
  BY DEF Fill
<1>2. slot' = [slot EXCEPT ![inprep] = j] /\ slot \in [Slot -> Job \cup {None}]
  BY DEF Fill, TypeOK
<1>3. /\ slot' \in [Slot -> Job \cup {None}]
      /\ slot'[inprep] = j
      /\ \A s \in Slot : s # inprep => slot'[s] = slot[s]
  BY <1>2 DEF TypeOK
<1>4. TypeOK'
  BY <1>1, <1>3 DEF TypeOK, ProdPc
<1>5. SlotsPartition'
  BY <1>1 DEF SlotsPartition, InjectiveSeq
<1>6. NoLostWakeup' /\ PredicateHolds'
  BY <1>1 DEF NoLostWakeup, PredicateHolds, Fill, Full
<1>7. JobsInPlace'
  <2>1. inuse \in Slot /\ inuse # inprep
    BY DEF TypeOK, SlotsPartition
  <2>2. \A i \in 1 .. Len(queue) : queue[i] \in Slot /\ queue[i] # inprep
    BY ElementOfSeq DEF TypeOK, SlotsPartition
  <2> QED
    BY <1>1, <1>3, <2>1, <2>2 DEF JobsInPlace
<1> QED
  BY <1>4, <1>5, <1>6, <1>7

(* A push moves inprep to the queue and a free slot to inprep. *)
LEMMA PushFreeInv == ASSUME IInv, PushFree PROVE IInv'
<1> USE DEF IInv
<1>1. /\ UNCHANGED <<slot, inuse, bEnd, cons>>
      /\ prod = "push" /\ prod' = "pushed" /\ ~Locked
      /\ queue' = Append(queue, inprep)
      /\ inprep' = Last(free) /\ free' = Front(free)
  BY DEF PushFree, TakeFree
<1>2. /\ free \in Seq(Slot) /\ queue \in Seq(Slot) /\ inprep \in Slot
      /\ Len(queue) \in Nat /\ Len(free) \in Nat /\ Len(queue) < MaxLen
  BY LenProperties, MaxLenAssumption DEF PushFree, Full, TypeOK
<1>3. free # <<>>
  BY <1>2, EmptySeq, MaxLenAssumption DEF SlotsPartition
<1>4. /\ free' \in Seq(Slot) /\ Len(free') = Len(free) - 1
      /\ \A k \in 1 .. Len(free') : free'[k] = free[k]
      /\ inprep' = free[Len(free)] /\ Len(free) \in 1 .. Len(free)
  <2>1. /\ 0 < Len(free) /\ Last(free) = free[Len(free)]
        /\ Front(free) \in Seq(Slot) /\ Len(Front(free)) = Len(free) - 1
        /\ \A k \in 1 .. Len(free) - 1 : Front(free)[k] = free[k]
    BY <1>2, <1>3, FrontOf
  <2> QED
    BY <1>1, <1>2, <2>1
<1>5. /\ queue' \in Seq(Slot) /\ Len(queue') = Len(queue) + 1
      /\ \A i \in 1 .. Len(queue) : queue'[i] = queue[i]
      /\ queue'[Len(queue) + 1] = inprep
  BY <1>1, <1>2, AppendProperties
<1>6. TypeOK'
  <2>1. inprep' \in Slot
    BY <1>2, <1>4, ElementOfSeq
  <2>2. Len(queue') <= MaxLen /\ Len(free') <= MaxLen + 1
    BY <1>2, <1>4, <1>5, MaxLenAssumption DEF TypeOK
  <2> QED
    BY <1>1, <1>4, <1>5, <2>1, <2>2 DEF TypeOK, ProdPc
<1>7. SlotsPartition'
  <2>1. InjectiveSeq(free') /\ \A k \in 1 .. Len(free') : free'[k] # inprep'
    BY <1>1, <1>2, <1>3, FrontInjective DEF SlotsPartition
  <2>2. InjectiveSeq(queue')
    <3>1. InjectiveSeq(queue) /\ \A i \in 1 .. Len(queue) : queue[i] # inprep
      BY DEF SlotsPartition
    <3> QED
      <4>1. InjectiveSeq(Append(queue, inprep))
        BY <1>2, <3>1, AppendInjectiveSeq
      <4> QED
        BY <1>1, <4>1
  <2>3. \A i \in 1 .. Len(queue') :
          /\ queue'[i] \notin {inuse', inprep'}
          /\ \A k \in 1 .. Len(free') : free'[k] # queue'[i]
    BY <1>1, <1>2, <1>4, <1>5 DEF SlotsPartition
  <2>4. /\ \A k \in 1 .. Len(free') : free'[k] \notin {inuse', inprep'}
        /\ inuse' # inprep'
    BY <1>1, <1>2, <1>4, <2>1 DEF SlotsPartition
  <2>5. Len(free') + Len(queue') = MaxLen
    <3>1. Len(free) + Len(queue) = MaxLen
      BY DEF SlotsPartition
    <3> QED
      BY <1>2, <1>4, <1>5, <3>1
  <2> QED
    BY <2>1, <2>2, <2>3, <2>4, <2>5 DEF SlotsPartition
<1>8. NoLostWakeup' /\ PredicateHolds'
  BY <1>1 DEF NoLostWakeup, PredicateHolds, Locked
<1>9. JobsInPlace'
  BY <1>1, <1>2, <1>5 DEF JobsInPlace
<1> QED
  BY <1>6, <1>7, <1>8, <1>9

(* A pop moves inuse to the free list and the newest slot to inuse. *)
LEMMA PopTakeInv == ASSUME IInv, PopTake PROVE IInv'
<1> USE DEF IInv
<1>1. /\ UNCHANGED <<slot, inprep, bEnd, prod>>
      /\ cons = "pop" /\ cons' = "popped" /\ ~Locked /\ queue # <<>>
      /\ free' = Append(free, inuse)
      /\ inuse' = Last(queue) /\ queue' = Front(queue)
  BY DEF PopTake, Recycle
<1>2. /\ free \in Seq(Slot) /\ queue \in Seq(Slot) /\ inuse \in Slot
      /\ Len(queue) \in Nat /\ Len(free) \in Nat
  BY LenProperties DEF TypeOK
<1>3. /\ queue' \in Seq(Slot) /\ Len(queue') = Len(queue) - 1
      /\ \A i \in 1 .. Len(queue') : queue'[i] = queue[i]
      /\ inuse' = queue[Len(queue)] /\ Len(queue) \in 1 .. Len(queue)
  BY <1>1, <1>2, FrontOf
<1>4. /\ free' \in Seq(Slot) /\ Len(free') = Len(free) + 1
      /\ \A k \in 1 .. Len(free) : free'[k] = free[k]
      /\ free'[Len(free) + 1] = inuse
  BY <1>1, <1>2, AppendProperties
<1>5. TypeOK'
  <2>1. inuse' \in Slot
    BY <1>2, <1>3, ElementOfSeq
  <2>2. Len(queue') <= MaxLen
    BY <1>2, <1>3, MaxLenAssumption DEF TypeOK
  <2>3. Len(free') <= MaxLen + 1
    <3>1. Len(free) + Len(queue) = MaxLen
      BY DEF SlotsPartition
    <3> QED
      BY <1>2, <1>4, <3>1
  <2> QED
    BY <1>1, <1>3, <1>4, <2>1, <2>2, <2>3 DEF TypeOK, ConsPc
<1>6. SlotsPartition'
  <2>1. InjectiveSeq(queue') /\ \A i \in 1 .. Len(queue') : queue'[i] # inuse'
    BY <1>1, <1>2, FrontInjective DEF SlotsPartition
  <2>2. InjectiveSeq(free')
    <3>1. InjectiveSeq(free) /\ \A k \in 1 .. Len(free) : free[k] # inuse
      BY DEF SlotsPartition
    <3> QED
      <4>1. InjectiveSeq(Append(free, inuse))
        BY <1>2, <3>1, AppendInjectiveSeq
      <4> QED
        BY <1>1, <4>1
  <2>3. \A i \in 1 .. Len(queue') :
          /\ queue'[i] \notin {inuse', inprep'}
          /\ \A k \in 1 .. Len(free') : free'[k] # queue'[i]
    BY <1>1, <1>2, <1>3, <1>4, <2>1 DEF SlotsPartition
  <2>4. /\ \A k \in 1 .. Len(free') : free'[k] \notin {inuse', inprep'}
        /\ inuse' # inprep'
    BY <1>1, <1>2, <1>3, <1>4 DEF SlotsPartition
  <2>5. Len(free') + Len(queue') = MaxLen
    <3>1. Len(free) + Len(queue) = MaxLen
      BY DEF SlotsPartition
    <3> QED
      BY <1>2, <1>3, <1>4, <3>1
  <2> QED
    BY <2>1, <2>2, <2>3, <2>4, <2>5 DEF SlotsPartition
<1>7. NoLostWakeup' /\ PredicateHolds'
  BY <1>1 DEF NoLostWakeup, PredicateHolds, Locked
<1>8. JobsInPlace'
  BY <1>1, <1>2, <1>3 DEF JobsInPlace
<1> QED
  BY <1>5, <1>6, <1>7, <1>8

(* The consumer empties its slot when it is done with the job. *)
LEMMA HandleInv == ASSUME IInv, Handle PROVE IInv'
<1> USE DEF IInv
<1>1. UNCHANGED <<free, queue, inuse, inprep, bEnd, prod>> /\ cons' = "pop"
  BY DEF Handle
<1>2. slot' = [slot EXCEPT ![inuse] = None] /\ slot \in [Slot -> Job \cup {None}]
  BY DEF Handle, TypeOK
<1>3. /\ slot' \in [Slot -> Job \cup {None}]
      /\ slot'[inuse] = None
      /\ \A s \in Slot : s # inuse => slot'[s] = slot[s]
  BY <1>2 DEF TypeOK
<1>4. TypeOK'
  BY <1>1, <1>3 DEF TypeOK, ConsPc
<1>5. SlotsPartition'
  BY <1>1 DEF SlotsPartition, InjectiveSeq
<1>6. NoLostWakeup' /\ PredicateHolds'
  BY <1>1 DEF NoLostWakeup, PredicateHolds, Handle, Full
<1>7. JobsInPlace'
  <2>1. inprep \in Slot /\ inuse # inprep
    BY DEF TypeOK, SlotsPartition
  <2>2. \A i \in 1 .. Len(queue) : queue[i] \in Slot /\ queue[i] # inuse
    BY ElementOfSeq DEF TypeOK, SlotsPartition
  <2> QED
    BY <1>1, <1>3, <2>1, <2>2 DEF JobsInPlace
<1> QED
  BY <1>4, <1>5, <1>6, <1>7

-----------------------------------------------------------------------------
(* Every step of either thread. *)

LEMMA NextInv == IInv /\ [Next]_vars => IInv'
<1> SUFFICES ASSUME IInv, [Next]_vars PROVE IInv'
  OBVIOUS
<1> DEFINE data == <<slot, free, queue, inuse, inprep>>
<1>1. ASSUME NEW j \in Job, Fill(j) PROVE IInv'
  BY <1>1, FillInv
<1>2. CASE PushFree
  BY <1>2, PushFreeInv
<1>3. CASE PopTake
  BY <1>3, PopTakeInv
<1>4. CASE Handle
  BY <1>4, HandleInv
<1>5. ASSUME UNCHANGED data, bEnd' \in BOOLEAN, prod' \in ProdPc,
             cons' \in ConsPc, NoLostWakeup', PredicateHolds',
             prod' \in {"push", "blocking", "waiting"} =>
               prod \in {"push", "blocking", "waiting"},
             cons' \in {"popped", "handle"} <=> cons \in {"popped", "handle"}
      PROVE  IInv'
  (* the other actions: jobs stay where they are *)
  <2>1. TypeOK'
    BY <1>5 DEF IInv, TypeOK
  <2>2. SlotsPartition'
    BY <1>5 DEF IInv, SlotsPartition, InjectiveSeq
  <2>3. JobsInPlace'
    BY <1>5 DEF IInv, JobsInPlace
  <2> QED
    BY <1>5, <2>1, <2>2, <2>3 DEF IInv
<1> USE DEF IInv, NoLostWakeup, PredicateHolds, Full, ProdPc, ConsPc
<1>6. CASE PushFull
  BY <1>5, <1>6 DEF PushFull, TypeOK, Locked
<1>7. CASE PushBlock
  BY <1>5, <1>7 DEF PushBlock, TypeOK
<1>8. CASE PushNotify
  BY <1>5, <1>8 DEF PushNotify, WakeConsumer, TypeOK
<1>9. CASE End
  BY <1>5, <1>9 DEF End, TypeOK
<1>10. CASE EndNotify
  BY <1>5, <1>10 DEF EndNotify, WakeConsumer, TypeOK
<1>11. CASE Join
  BY <1>5, <1>11 DEF Join, TypeOK
<1>12. CASE PopEnd
  BY <1>5, <1>12 DEF PopEnd, TypeOK
<1>13. CASE PopEmpty
  BY <1>5, <1>13 DEF PopEmpty, TypeOK, Locked
<1>14. CASE PopBlock
  BY <1>5, <1>14 DEF PopBlock, TypeOK
<1>15. CASE PopNotify
  BY <1>5, <1>15 DEF PopNotify, WakeProducer, TypeOK
<1>16. CASE Spurious
  BY <1>5, <1>16 DEF Spurious, TypeOK
<1>17. CASE Stopped \/ UNCHANGED vars
  BY <1>5, <1>17 DEF Stopped, vars, TypeOK
<1> QED
  BY <1>1, <1>2, <1>3, <1>4, <1>6, <1>7, <1>8, <1>9, <1>10, <1>11, <1>12,
     <1>13, <1>14, <1>15, <1>16, <1>17 DEF Next, Push, Pop

(* The invariant holds throughout, for every capacity. *)
THEOREM Invariance == Spec => []IInv
  BY InitInv, NextInv, PTL DEF Spec

(* No slot is ever used by two sides, and no array is overrun. *)
THEOREM SlotsSafe == Spec => [](TypeOK /\ SlotsPartition)
<1>1. IInv => TypeOK /\ SlotsPartition
  BY DEF IInv
<1> QED
  BY <1>1, Invariance, PTL

(* No wakeup is lost between push and pop (ending is another matter). *)
THEOREM WakeupsSafe == Spec => []NoLostWakeup
<1>1. IInv => NoLostWakeup
  BY DEF IInv
<1> QED
  BY <1>1, Invariance, PTL

-----------------------------------------------------------------------------
(* The queue implements the bounded stack of jobs.  First, how the jobs in *)
(* a sequence of slots change with the sequence.                           *)

LEMMA ContentsSeq ==
  ASSUME NEW c, NEW q \in Seq(Slot),
         \A i \in 1 .. Len(q) : c[q[i]] \in Job
  PROVE  /\ Len(q) \in Nat
         /\ Contents(c, q) \in Seq(Job)
         /\ Len(Contents(c, q)) = Len(q)
         /\ \A i \in 1 .. Len(q) : Contents(c, q)[i] = c[q[i]]
<1>1. Len(q) \in Nat
  BY LenProperties
<1>2. Contents(c, q) \in [1 .. Len(q) -> Job]
  BY DEF Contents
<1>3. Contents(c, q) \in Seq(Job)
  BY <1>1, <1>2, SeqDef
<1>4. DOMAIN Contents(c, q) = 1 .. Len(q)
  BY DEF Contents
<1>5. /\ DOMAIN Contents(c, q) = 1 .. Len(Contents(c, q))
      /\ Len(Contents(c, q)) \in Nat
  BY <1>3, LenProperties
<1>6. Len(Contents(c, q)) = Len(q)
  BY <1>1, <1>4, <1>5
<1> QED
  BY <1>1, <1>3, <1>6 DEF Contents

LEMMA ContentsAppend ==
  ASSUME NEW c, NEW q \in Seq(Slot), NEW s \in Slot, c[s] \in Job,
         \A i \in 1 .. Len(q) : c[q[i]] \in Job
  PROVE  Contents(c, Append(q, s)) = Append(Contents(c, q), c[s])
<1> DEFINE r == Append(q, s)
<1>1. /\ r \in Seq(Slot) /\ Len(r) = Len(q) + 1
      /\ \A i \in 1 .. Len(q) : r[i] = q[i]
      /\ r[Len(q) + 1] = s
  BY AppendProperties
<1>2. Len(q) \in Nat
  BY LenProperties
<1> HIDE DEF r
<1>3. \A i \in 1 .. Len(r) : c[r[i]] \in Job
  BY <1>1, <1>2
<1>4. /\ Contents(c, r) \in Seq(Job) /\ Len(Contents(c, r)) = Len(r)
      /\ \A i \in 1 .. Len(r) : Contents(c, r)[i] = c[r[i]]
  BY <1>1, <1>3, ContentsSeq
<1>5. /\ Contents(c, q) \in Seq(Job) /\ Len(Contents(c, q)) = Len(q)
      /\ \A i \in 1 .. Len(q) : Contents(c, q)[i] = c[q[i]]
  BY ContentsSeq
<1> DEFINE t == Append(Contents(c, q), c[s])
<1>6. /\ t \in Seq(Job) /\ Len(t) = Len(q) + 1
      /\ \A i \in 1 .. Len(q) : t[i] = Contents(c, q)[i]
      /\ t[Len(q) + 1] = c[s]
  BY <1>5, AppendProperties
<1> HIDE DEF t
<1>7. Len(Contents(c, r)) = Len(t)
  BY <1>1, <1>4, <1>6
<1>8. \A i \in 1 .. Len(Contents(c, r)) : Contents(c, r)[i] = t[i]
  BY <1>1, <1>2, <1>4, <1>5, <1>6
<1>9. Contents(c, r) = t
  BY <1>4, <1>6, <1>7, <1>8, SeqEqual
<1> QED
  BY <1>9 DEF r, t

LEMMA ContentsFront ==
  ASSUME NEW c, NEW q \in Seq(Slot), q # <<>>,
         \A i \in 1 .. Len(q) : c[q[i]] \in Job
  PROVE  /\ Contents(c, q) # <<>>
         /\ Last(Contents(c, q)) = c[Last(q)]
         /\ Front(Contents(c, q)) = Contents(c, Front(q))
<1>1. /\ Len(q) \in Nat /\ 0 < Len(q)
      /\ Last(q) = q[Len(q)] /\ Front(q) \in Seq(Slot)
      /\ Len(Front(q)) = Len(q) - 1
      /\ \A i \in 1 .. Len(q) - 1 : Front(q)[i] = q[i]
  BY FrontOf
<1> DEFINE t == Contents(c, q)
           f == Front(q)
<1>2. /\ t \in Seq(Job) /\ Len(t) = Len(q)
      /\ \A i \in 1 .. Len(q) : t[i] = c[q[i]]
  BY ContentsSeq
<1>3. t # <<>>
  BY <1>1, <1>2, EmptySeq
<1> HIDE DEF t, f
<1>4. /\ Last(t) = t[Len(t)] /\ Front(t) \in Seq(Job)
      /\ Len(Front(t)) = Len(t) - 1
      /\ \A i \in 1 .. Len(t) - 1 : Front(t)[i] = t[i]
  BY <1>2, <1>3, FrontOf
<1>5. Last(t) = c[Last(q)]
  BY <1>1, <1>2, <1>4
<1>6. f \in Seq(Slot) /\ Len(f) = Len(q) - 1 /\ \A i \in 1 .. Len(f) : f[i] = q[i]
  BY <1>1 DEF f
<1>7. \A i \in 1 .. Len(f) : c[f[i]] \in Job
  BY <1>1, <1>6
<1>8. /\ Contents(c, f) \in Seq(Job) /\ Len(Contents(c, f)) = Len(f)
      /\ \A i \in 1 .. Len(f) : Contents(c, f)[i] = c[f[i]]
  BY <1>6, <1>7, ContentsSeq
<1>9. Len(Front(t)) = Len(Contents(c, f))
  BY <1>2, <1>4, <1>6, <1>8
<1>10. \A i \in 1 .. Len(Front(t)) : Front(t)[i] = Contents(c, f)[i]
  <2> SUFFICES ASSUME NEW i \in 1 .. Len(f)
               PROVE  Front(t)[i] = Contents(c, f)[i]
    BY <1>8, <1>9
  <2>1. i \in 1 .. Len(t) - 1 /\ i \in 1 .. Len(q)
    BY <1>1, <1>2, <1>6
  <2> QED
    BY <2>1, <1>2, <1>4, <1>6, <1>8
<1>11. Front(t) = Contents(c, f)
  BY <1>4, <1>8, <1>9, <1>10, SeqEqual
<1> QED
  BY <1>3, <1>5, <1>11 DEF t, f

(* Slots outside the sequence do not matter. *)
LEMMA ContentsAgree ==
  ASSUME NEW c, NEW d, NEW q \in Seq(Slot),
         \A i \in 1 .. Len(q) : c[q[i]] = d[q[i]]
  PROVE  Contents(c, q) = Contents(d, q)
  BY DEF Contents

-----------------------------------------------------------------------------

(* Every step of the threads is a step of the stack, or none. *)
LEMMA StepRefines ==
  ASSUME IInv, [Next]_vars
  PROVE  [JS!Next]_(JS!vars)
<1>1. /\ queue \in Seq(Slot) /\ inprep \in Slot /\ inuse \in Slot
      /\ inuse # inprep
      /\ slot \in [Slot -> Job \cup {None}]
      /\ \A i \in 1 .. Len(queue) : slot[queue[i]] \in Job
  BY DEF IInv, TypeOK, JobsInPlace, SlotsPartition
<1>2. \A i \in 1 .. Len(queue) : queue[i] \in Slot \ {inuse, inprep}
  BY ElementOfSeq DEF IInv, TypeOK, SlotsPartition
<1> USE DEF JS!Next, JS!vars
<1>3. ASSUME NEW j \in Job, Fill(j) PROVE UNCHANGED JS!vars
  <2>1. UNCHANGED <<queue, inuse, bEnd>> /\ slot' = [slot EXCEPT ![inprep] = j]
    BY <1>3 DEF Fill
  <2>2. slot'[inuse] = slot[inuse]
    BY <1>1, <2>1
  <2>3. \A i \in 1 .. Len(queue) : slot[queue[i]] = slot'[queue[i]]
    BY <1>1, <1>2, <2>1
  <2>4. Contents(slot, queue) = Contents(slot', queue)
    BY <1>1, <2>3, ContentsAgree
  <2> QED
    BY <2>1, <2>2, <2>4
<1>4. CASE PushFree
  <2>1. /\ UNCHANGED <<slot, inuse, bEnd>> /\ queue' = Append(queue, inprep)
        /\ slot[inprep] \in Job /\ Len(queue) < MaxLen
    BY <1>1, <1>4, LenProperties, MaxLenAssumption
       DEF PushFree, Full, IInv, JobsInPlace
  <2>2. Contents(slot', queue') = Append(Contents(slot, queue), slot[inprep])
    BY <1>1, <2>1, ContentsAppend
  <2>3. Len(Contents(slot, queue)) < MaxLen
    BY <1>1, <2>1, ContentsSeq
  <2>4. JS!Push(slot[inprep])
    BY <2>1, <2>2, <2>3 DEF JS!Push
  <2> QED
    BY <2>1, <2>4
<1>5. CASE PopTake
  <2>1. /\ UNCHANGED <<slot, bEnd>> /\ queue # <<>> /\ bEnd = FALSE
        /\ inuse' = Last(queue) /\ queue' = Front(queue)
        /\ slot[inuse] = None
    BY <1>5 DEF PopTake, IInv, TypeOK, JobsInPlace
  <2>2. /\ Contents(slot, queue) # <<>>
        /\ slot'[inuse'] = Last(Contents(slot, queue))
        /\ Contents(slot', queue') = Front(Contents(slot, queue))
    BY <1>1, <2>1, ContentsFront
  <2>3. JS!Take
    BY <2>1, <2>2 DEF JS!Take, JS!Last, JS!Front, Last, Front
  <2> QED
    BY <2>3
<1>6. CASE Handle
  <2>1. /\ UNCHANGED <<queue, inuse, bEnd>>
        /\ slot' = [slot EXCEPT ![inuse] = None]
        /\ slot[inuse] \in Job
    BY <1>6 DEF Handle, IInv, JobsInPlace
  <2>2. slot'[inuse] = None /\ slot[inuse] # None
    BY <1>1, <2>1, NoneAssumption
  <2>3. \A i \in 1 .. Len(queue) : slot[queue[i]] = slot'[queue[i]]
    BY <1>1, <1>2, <2>1
  <2>4. Contents(slot, queue) = Contents(slot', queue)
    BY <1>1, <2>3, ContentsAgree
  <2>5. JS!Finish
    BY <2>1, <2>2, <2>4 DEF JS!Finish
  <2> QED
    BY <2>5
<1>7. CASE End
  BY <1>7 DEF End, JS!End
<1>8. ASSUME UNCHANGED <<slot, queue, inuse, bEnd>> PROVE UNCHANGED JS!vars
  BY <1>8
<1>9. CASE PushFull \/ PushBlock \/ PushNotify \/ EndNotify \/ Join
  BY <1>8, <1>9 DEF PushFull, PushBlock, PushNotify, EndNotify, Join
<1>10. CASE PopEnd \/ PopEmpty \/ PopBlock \/ PopNotify
  BY <1>8, <1>10 DEF PopEnd, PopEmpty, PopBlock, PopNotify
<1>11. CASE Spurious \/ Stopped \/ UNCHANGED vars
  BY <1>8, <1>11 DEF Spurious, Stopped, vars
<1> QED
  BY <1>3, <1>4, <1>5, <1>6, <1>7, <1>9, <1>10, <1>11 DEF Next, Push, Pop

(* Initially there is no job. *)
LEMMA InitRefines == Init => JS!Init
<1> SUFFICES ASSUME Init PROVE JS!Init
  OBVIOUS
<1>1. queue = <<>> /\ Len(queue) = 0 /\ bEnd = FALSE
  BY EmptySeq DEF Init
<1>2. slot[inuse] = None
  BY MaxLenAssumption DEF Init, Slot
<1>3. Contents(slot, queue) = <<>>
  BY <1>1 DEF Contents
<1> QED
  BY <1>1, <1>2, <1>3 DEF JS!Init

(* Jobs pass through the queue as through a bounded stack. *)
THEOREM QueueIsStack == Spec => StackSpec
<1>1. IInv /\ [Next]_vars => [JS!Next]_(JS!vars)
  BY StepRefines
<1> QED
  BY <1>1, InitRefines, Invariance, PTL DEF Spec, StackSpec, JS!Spec
=============================================================================
