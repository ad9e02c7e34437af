------------------------------- MODULE NNEval -------------------------------
(***************************************************************************)
(* What the network service promises the engines: every question about a   *)
(* position is answered with the evaluation of that very position by the   *)
(* network in service, no network is replaced while a question is open,    *)
(* and a question is given up only when the service is dead.               *)
(***************************************************************************)
CONSTANTS Client, Position, Network, Nothing

VARIABLES
  alive,     \* the service is
  net,       \* the network in service, Nothing while it is being replaced
  question,  \* the position a client waits for, or Nothing
  answer     \* the evaluation it may pick up, or Nothing

vars == <<alive, net, question, answer>>

Init ==
  /\ alive = TRUE
  /\ net = Nothing
  /\ question = [c \in Client |-> Nothing]
  /\ answer = [c \in Client |-> Nothing]

Ask(c, p) ==
  /\ question[c] = Nothing
  /\ question' = [question EXCEPT ![c] = p]
  /\ UNCHANGED <<alive, net, answer>>

Answer(c) ==
  /\ alive /\ net # Nothing
  /\ question[c] # Nothing /\ answer[c] = Nothing
  /\ answer' = [answer EXCEPT ![c] = [pos |-> question[c], net |-> net]]
  /\ UNCHANGED <<alive, net, question>>

PickUp(c) ==
  /\ answer[c] # Nothing
  /\ question' = [question EXCEPT ![c] = Nothing]
  /\ answer' = [answer EXCEPT ![c] = Nothing]
  /\ UNCHANGED <<alive, net>>

GiveUp(c) ==
  /\ ~alive
  /\ question' = [question EXCEPT ![c] = Nothing]
  /\ answer' = [answer EXCEPT ![c] = Nothing]
  /\ UNCHANGED <<alive, net>>

Replace(n) ==
  /\ alive /\ \A c \in Client : question[c] = Nothing
  /\ net' = n
  /\ UNCHANGED <<alive, question, answer>>

Die ==
  /\ alive' = FALSE
  /\ UNCHANGED <<net, question, answer>>

Next ==
  \/ \E c \in Client : \/ \E p \in Position : Ask(c, p)
                       \/ Answer(c) \/ PickUp(c) \/ GiveUp(c)
  \/ \E n \in Network \cup {Nothing} : Replace(n)
  \/ Die

Spec == Init /\ [][Next]_vars
=============================================================================
