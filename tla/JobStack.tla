------------------------------ MODULE JobStack ------------------------------
(***************************************************************************)
(* What a job queue promises, without threads, locks and slots: a bounded  *)
(* stack of jobs and the one job its consumer is working on.  No job is    *)
(* lost, duplicated or altered between the two, and nothing is taken once  *)
(* the queue was ended.                                                    *)
(***************************************************************************)
EXTENDS Integers, Sequences, SequencesExt

CONSTANTS Job,          \* what may be queued
          None,         \* the consumer has no job
          MaxLen        \* capacity

VARIABLES stack,        \* jobs not yet taken, the newest last
          hand,         \* the job the consumer works on, or None
          open          \* the queue was not ended

vars == <<stack, hand, open>>

-----------------------------------------------------------------------------

Init == stack = <<>> /\ hand = None /\ open = TRUE

Push(j) ==
  /\ Len(stack) < MaxLen
  /\ stack' = Append(stack, j)
  /\ UNCHANGED <<hand, open>>

Take ==
  /\ open /\ hand = None /\ stack # <<>>
  /\ hand' = Last(stack)
  /\ stack' = Front(stack)
  /\ UNCHANGED open

Finish == hand # None /\ hand' = None /\ UNCHANGED <<stack, open>>

End == open' = FALSE /\ UNCHANGED <<stack, hand>>

Next == (\E j \in Job : Push(j)) \/ Take \/ Finish \/ End

Spec == Init /\ [][Next]_vars
=============================================================================
