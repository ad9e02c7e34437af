------------------------------ MODULE RecFate ------------------------------
(***************************************************************************)
(* What becomes of a game record: it is stored once at most, and only      *)
(* after a client has sent it whole; a record that a client reports as     *)
(* discarded or that the server refuses is never stored; what is stored    *)
(* stays.                                                                  *)
(***************************************************************************)
EXTENDS Sequences

CONSTANTS Record,
          Refused         \* records the server's tests turn down

VARIABLES fate,           \* of each record
          log             \* records stored, in order

vars == <<fate, log>>

Init == fate = [r \in Record |-> "none"] /\ log = <<>>

Move(r, from, to) == fate[r] = from /\ fate' = [fate EXCEPT ![r] = to]

Make(r)    == Move(r, "none", "waiting") /\ UNCHANGED log
Send(r)    == Move(r, "waiting", "sent") /\ UNCHANGED log
Discard(r) == Move(r, "waiting", "discarded") /\ UNCHANGED log
Store(r)   == /\ r \notin Refused
              /\ Move(r, "sent", "stored") /\ log' = Append(log, r)

(* Any number of them, when a process ends or a connection breaks. *)
Lose ==
  /\ \A r \in Record :
       fate'[r] = fate[r] \/ (fate[r] \in {"waiting", "sent"} /\ fate'[r] = "lost")
  /\ DOMAIN fate' = Record
  /\ UNCHANGED log

Next == Lose \/ \E r \in Record : Make(r) \/ Send(r) \/ Discard(r) \/ Store(r)

Spec == Init /\ [][Next]_vars
=============================================================================
