------------------------------- MODULE JQueue -------------------------------
(***************************************************************************)
(* The job queue between two threads (src/common/jqueue.cpp): the thread   *)
(* that receives game records (the server's main thread in RecKeep::add,   *)
(* the client's in Client::add_rec) and the thread that stores or sends    *)
(* them (RecKeep::worker, Client::sender).  Jobs are never copied: the     *)
(* queue moves MaxLen + 2 slots around.  The producer fills the slot       *)
(* inprep and the consumer reads the slot inuse, both without the lock.    *)
(*                                                                         *)
(* One mutex and one condition variable serve both directions.  A critical *)
(* section is one action, except that evaluating the predicate of a wait   *)
(* and blocking are two, with the mutex held in between: end() does not    *)
(* take the mutex.  A thread that waits may wake up for no reason.         *)
(***************************************************************************)
EXTENDS Integers, Sequences, SequencesExt

CONSTANTS Job,           \* contents a slot may carry
          None,          \* an empty slot
          MaxLen         \* _maxlen_queue

ASSUME MaxLenAssumption == MaxLen \in Nat \ {0}
ASSUME NoneAssumption   == None \notin Job

Slot == 1 .. MaxLen + 2

VARIABLES
  slot,      \* _T_slots: the content of every slot
  free,      \* _pT_free [0, _len_free)
  queue,     \* _pT_queue [0, _len_queue)
  inuse,     \* _pT_inuse
  inprep,    \* _pT_inprep
  bEnd,      \* _bEnd
  prod,      \* where the producer is
  cons       \* where the consumer is

vars == <<slot, free, queue, inuse, inprep, bEnd, prod, cons>>

(* "blocking": the predicate was false, the mutex is still held;           *)
(* "waiting": in the wait set of _cv, the mutex is released.               *)
ProdPc == {"idle", "push", "blocking", "waiting", "pushed", "ending",
           "joining", "joined"}
ConsPc == {"pop", "blocking", "waiting", "popped", "handle", "done"}

TypeOK ==
  /\ slot \in [Slot -> Job \cup {None}]
  /\ free \in Seq(Slot) /\ Len(free) <= MaxLen + 1
  /\ queue \in Seq(Slot) /\ Len(queue) <= MaxLen
  /\ inuse \in Slot
  /\ inprep \in Slot
  /\ bEnd \in BOOLEAN
  /\ prod \in ProdPc
  /\ cons \in ConsPc

-----------------------------------------------------------------------------

(* The mutex is held across actions only by a thread about to block. *)
Locked_Early == FALSE                  \* a mutant: dropped before blocking
Locked       == prod = "blocking" \/ cons = "blocking"

(* notify_one(): there is at most one other thread to wake up. *)
WakeConsumer_None == UNCHANGED cons    \* a mutant
WakeConsumer      == cons' = IF cons = "waiting" THEN "pop" ELSE cons

WakeProducer_None == UNCHANGED prod    \* a mutant
WakeProducer      == prod' = IF prod = "waiting" THEN "push" ELSE prod

-----------------------------------------------------------------------------
(* The producer: get_free(), reset() and a copy, then push_free(). *)

Fill(j) ==
  /\ prod = "idle"
  /\ slot' = [slot EXCEPT ![inprep] = j]
  /\ prod' = "push"
  /\ UNCHANGED <<free, queue, inuse, inprep, bEnd, cons>>

Full == Len(queue) >= MaxLen

TakeFree_Shared == inprep' = Last(free) /\ UNCHANGED free   \* a mutant
TakeFree        == inprep' = Last(free) /\ free' = Front(free)

PushFree ==
  /\ prod = "push" /\ ~Locked
  /\ ~Full
  /\ queue' = Append(queue, inprep)
  /\ TakeFree
  /\ prod' = "pushed"
  /\ UNCHANGED <<slot, inuse, bEnd, cons>>

PushFull ==
  /\ prod = "push" /\ ~Locked
  /\ Full
  /\ prod' = "blocking"
  /\ UNCHANGED <<slot, free, queue, inuse, inprep, bEnd, cons>>

PushBlock ==
  /\ prod = "blocking"
  /\ prod' = "waiting"
  /\ UNCHANGED <<slot, free, queue, inuse, inprep, bEnd, cons>>

PushNotify ==
  /\ prod = "pushed"
  /\ prod' = "idle"
  /\ WakeConsumer
  /\ UNCHANGED <<slot, free, queue, inuse, inprep, bEnd>>

(* end(), by the producing thread, and the join that follows it. *)
End ==
  /\ prod = "idle"
  /\ bEnd' = TRUE
  /\ prod' = "ending"
  /\ UNCHANGED <<slot, free, queue, inuse, inprep, cons>>

EndNotify ==
  /\ prod = "ending"
  /\ prod' = "joining"
  /\ WakeConsumer
  /\ UNCHANGED <<slot, free, queue, inuse, inprep, bEnd>>

Join ==
  /\ prod = "joining" /\ cons = "done"
  /\ prod' = "joined"
  /\ UNCHANGED <<slot, free, queue, inuse, inprep, bEnd, cons>>

-----------------------------------------------------------------------------
(* The consumer: pop(), the work on the slot, reset(). *)

PopEnd ==
  /\ cons = "pop" /\ ~Locked
  /\ bEnd
  /\ cons' = "done"
  /\ UNCHANGED <<slot, free, queue, inuse, inprep, bEnd, prod>>

(* The slot of the previous job becomes free. *)
Recycle_New == free' = Append(free, Last(queue))   \* a mutant
Recycle     == free' = Append(free, inuse)

PopTake ==
  /\ cons = "pop" /\ ~Locked
  /\ ~bEnd /\ queue # <<>>
  /\ Recycle
  /\ inuse' = Last(queue)
  /\ queue' = Front(queue)
  /\ cons' = "popped"
  /\ UNCHANGED <<slot, inprep, bEnd, prod>>

PopEmpty ==
  /\ cons = "pop" /\ ~Locked
  /\ ~bEnd /\ queue = <<>>
  /\ cons' = "blocking"
  /\ UNCHANGED <<slot, free, queue, inuse, inprep, bEnd, prod>>

PopBlock ==
  /\ cons = "blocking"
  /\ cons' = "waiting"
  /\ UNCHANGED <<slot, free, queue, inuse, inprep, bEnd, prod>>

PopNotify ==
  /\ cons = "popped"
  /\ cons' = "handle"
  /\ WakeProducer
  /\ UNCHANGED <<slot, free, queue, inuse, inprep, bEnd>>

Handle ==
  /\ cons = "handle"
  /\ slot' = [slot EXCEPT ![inuse] = None]
  /\ cons' = "pop"
  /\ UNCHANGED <<free, queue, inuse, inprep, bEnd, prod>>

-----------------------------------------------------------------------------

Spurious ==
  /\ \/ cons = "waiting" /\ cons' = "pop" /\ UNCHANGED prod
     \/ prod = "waiting" /\ prod' = "push" /\ UNCHANGED cons
  /\ UNCHANGED <<slot, free, queue, inuse, inprep, bEnd>>

(* Both threads have returned. *)
Stopped == prod = "joined" /\ UNCHANGED vars

Init ==
  /\ slot = [s \in Slot |-> None]
  /\ free = [i \in 1 .. MaxLen |-> i]
  /\ queue = <<>>
  /\ inuse = MaxLen + 1
  /\ inprep = MaxLen + 2
  /\ bEnd = FALSE
  /\ prod = "idle"
  /\ cons = "pop"

Push == PushFree \/ PushFull
Pop  == PopEnd \/ PopTake \/ PopEmpty

Next ==
  \/ \E j \in Job : Fill(j)
  \/ Push \/ PushBlock \/ PushNotify
  \/ End \/ EndNotify \/ Join
  \/ Pop \/ PopBlock \/ PopNotify \/ Handle
  \/ Spurious \/ Stopped

Spec == Init /\ [][Next]_vars

(* Both threads keep running: a step that needs no lock is taken, and the  *)
(* mutex starves nobody.  Nothing is assumed about the jobs that arrive,   *)
(* the end of the process or spurious wakeups.                             *)
FairSpec ==
  /\ Spec
  /\ SF_vars(Push) /\ WF_vars(PushBlock \/ PushNotify)
  /\ WF_vars(EndNotify \/ Join)
  /\ SF_vars(Pop)  /\ WF_vars(PopBlock \/ PopNotify \/ Handle)

-----------------------------------------------------------------------------
(* Properties. *)

InjectiveSeq(s) == \A i, j \in 1 .. Len(s) : s[i] = s[j] => i = j

(* Every slot is in exactly one place.  So the consumer and the producer,  *)
(* which use their slots outside the lock, never touch the same job, and   *)
(* the arrays of jqueue.cpp:17-18 are never overrun.                       *)
SlotsPartition ==
  /\ InjectiveSeq(free) /\ InjectiveSeq(queue)
  /\ \A i \in 1 .. Len(queue) :
       /\ queue[i] \notin {inuse, inprep}
       /\ \A k \in 1 .. Len(free) : free[k] # queue[i]
  /\ \A k \in 1 .. Len(free) : free[k] \notin {inuse, inprep}
  /\ inuse # inprep
  /\ Len(free) + Len(queue) = MaxLen

(* A thread that sleeps while it could go on is about to be notified: one  *)
(* condition variable is enough for both directions.                       *)
NoLostWakeup ==
  /\ cons = "waiting" /\ queue # <<>> => prod = "pushed"
  /\ prod = "waiting" /\ ~Full        => cons = "popped"

(* The jobs in the slots of a sequence. *)
Contents(c, q) == [i \in 1 .. Len(q) |-> c[q[i]]]

JS == INSTANCE JobStack WITH
        stack <- Contents(slot, queue),
        hand  <- slot[inuse],
        open  <- ~bEnd

(* Through all the moving of slots, jobs pass unaltered from the producer  *)
(* to the consumer, none twice, none lost before the queue is ended; the   *)
(* newest first.                                                           *)
StackSpec == JS!Spec

(* push_free() returns: a full queue holds the producer (the select loop   *)
(* of the server, the game loop of the client) only until the next pop.    *)
PushReturns == prod = "push" ~> prod = "idle"

(* A queued job wakes a consumer that sleeps, unless the queue is ended.   *)
ConsumerServes == queue # <<>> ~> (cons = "handle" \/ bEnd)

(* "(signal 1 caught) is displayed and it will stop after a while"         *)
(* (README_en.md:33): Client::end(), and RecKeep::end() in the server,     *)
(* return from the join of the consumer.                                   *)
EndJoins == bEnd ~> prod = "joined"
=============================================================================
