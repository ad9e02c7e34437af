---------------------------- MODULE NNetService -----------------------------
(***************************************************************************)
(* The network service of the client program (src/common/nnet-srv.cpp) and *)
(* its users: the engines, each a process with an NNetIPC                  *)
(* (src/common/nnet-ipc.cpp), and the manager that owns the service and    *)
(* replaces its network (PlayManager in src/autousi/play.cpp).             *)
(*                                                                         *)
(* Jobs go through a table in shared memory, guarded by a semaphore, and   *)
(* are announced by a counting semaphore.  Three threads serve them: srv   *)
(* takes jobs and collects positions into batches, push starts a batch on  *)
(* the network, wait collects its results and wakes the engines one by     *)
(* one.  A critical section is one action; announcements and notifications *)
(* after it are actions of their own.  Only the replacement of the network *)
(* holds a mutex (_m_entries) over several actions.                        *)
(***************************************************************************)
EXTENDS Integers, FiniteSets, SequencesExt

CONSTANTS Client,        \* the engines
          Position,      \* what they ask about
          Nothing,
          SizeBatch,     \* _size_batch
          MaxWait,       \* batches on the network before pushing stops (16)
          MaxNet,        \* bound: networks 1 .. MaxNet are used
          EnginesFirst,  \* assume no new network while engines register
          MayDie         \* the manager's process may die

ASSUME BatchAssumption == SizeBatch \in Nat \ {0}
ASSUME WaitAssumption  == MaxWait \in Nat
ASSUME NetAssumption   == MaxNet \in Nat \ {0}
ASSUME FlagAssumption  == EnginesFirst \in BOOLEAN /\ MayDie \in BOOLEAN
ASSUME ClientAssumption == IsFiniteSet(Client)
Network == 1 .. MaxNet
Id      == 0 .. Cardinality(Client) - 1
Owner   == Cardinality(Client)    \* the id of the manager (maxnum_nipc)

Job  == [type : {"Register", "FeedForward", "NNReset", "NOP", "End"},
         id   : Id \cup {Owner}]
Item == [id : Id, pos : Position]
Value == [pos : Position, net : Network]   \* what a network says of a position

ASSUME NothingAssumption == Nothing \notin Position \cup Nat \cup Value

VARIABLES
  jobs,      \* SharedService.jobs
  tickets,   \* _sem_service: jobs announced
  idNext,    \* id_ipc_next
  wakeups,   \* _sem_ipc of every id
  page,      \* SharedIPC of every id: the position asked and its value
  cpc, cid,  \* where each engine is, its _id
  opc,       \* where the manager is
  wid,       \* _wid: the network it wants
  fname,     \* _fname
  flagSrv,   \* _flag_srv
  flagQuit,  \* _flag_quit
  spc, job,  \* srv: where it is, the job it handles
  fn,        \* srv: the network it loads
  pushq,     \* _entries_push
  waitq,     \* _entries_wait
  ppc, pe,   \* push: where it is, its batch
  wpc, we,   \* wait: where it is, its batch
  net        \* _pnnet

shared  == <<jobs, tickets, idNext, wakeups, page>>
clients == <<cpc, cid>>
owner   == <<opc, wid, fname, flagSrv, flagQuit>>
srv     == <<spc, job, fn>>
push    == <<ppc, pe>>
wait    == <<wpc, we>>
service == <<srv, push, wait, pushq, waitq, net>>
vars    == <<shared, clients, owner, service>>

Batch == [items : Seq(Item), net : Network \cup {Nothing}]
NoBatch == [items |-> <<>>, net |-> Nothing]
NoPage  == [pos |-> Nothing, val |-> Nothing]

Registering == {"off", "id", "reg", "reg-wait"}
Asking      == {"ask", "ask-wait"}
Thinking    == {"think"} \cup Asking
OwnerWaits  == {"reset-wait", "nop-wait"}
Resetting   == {"ids", "signal", "load"}

TypeOK ==
  /\ jobs \in Seq(Job) /\ Len(jobs) <= Cardinality(Client) + 1
  /\ tickets \in Nat
  /\ idNext \in 0 .. Cardinality(Client)
  /\ wakeups \in [Id -> Nat]
  /\ page \in [Id -> [pos : Position \cup {Nothing}, val : Value \cup {Nothing}]]
  /\ cpc \in [Client -> {"none", "ready", "gone"} \cup Registering
                        \cup Thinking]
  /\ cid \in [Client -> Id \cup {Nothing}]
  /\ opc \in {"reset", "reset-post", "nop", "nop-post", "run", "quit",
              "end-post", "end-flag", "end-notify", "join", "done", "dead"}
             \cup OwnerWaits
  /\ wid \in Network
  /\ fname \in Network \cup {Nothing}
  /\ flagSrv \in BOOLEAN /\ flagQuit \in BOOLEAN
  /\ spc \in {"take", "job", "notify", "stop", "dead"} \cup Resetting
  /\ job \in Job \cup {Nothing}
  /\ fn \in Network \cup {Nothing}
  /\ pushq \in Seq(Seq(Item)) /\ waitq \in Seq(Batch)
  /\ ppc \in {"test", "sleep", "push", "append", "notify", "stop", "dead"}
  /\ pe \in Batch
  /\ wpc \in {"test", "sleep", "answer", "stop", "dead"}
  /\ we \in Batch
  /\ net \in Network \cup {Nothing}

-----------------------------------------------------------------------------

(* A job enters the shared table; it is announced afterwards. *)
Enqueue(type, id) == jobs' = Append(jobs, [type |-> type, id |-> id])

Announce_None == UNCHANGED tickets        \* a mutant
Announce      == tickets' = tickets + 1

Wake(id) == wakeups' = [wakeups EXCEPT ![id] = @ + 1]

Full(batch) == Len(batch) = SizeBatch

(* No thread keeps _m_entries. *)
Unlocked == spc \notin Resetting

(* notify_one() on _cv_entries_push and _cv_entries_wait. *)
NotifyPush == ppc' = IF ppc = "sleep" THEN "test" ELSE ppc
NotifyWait == wpc' = IF wpc = "sleep" THEN "test" ELSE wpc

(* die() in any thread ends the process with all its threads. *)
Die ==
  /\ opc' = "dead" /\ spc' = "dead" /\ ppc' = "dead" /\ wpc' = "dead"
  /\ UNCHANGED <<wid, fname, flagSrv, flagQuit, job, fn, pe, we>>

-----------------------------------------------------------------------------
(* An engine: NNetIPC::start(), then evaluations for one move after the    *)
(* other.                                                                  *)

TakeId(c) ==
  /\ cpc[c] = "off"
  /\ cid' = [cid EXCEPT ![c] = idNext]
  /\ idNext' = idNext + 1
  /\ cpc' = [cpc EXCEPT ![c] = "id"]
  /\ UNCHANGED <<jobs, tickets, wakeups, page, owner, service>>

Register(c) ==
  /\ cpc[c] = "id"
  /\ Enqueue("Register", cid[c])
  /\ cpc' = [cpc EXCEPT ![c] = "reg"]
  /\ UNCHANGED <<tickets, idNext, wakeups, page, cid, owner, service>>

Post(c) ==
  /\ cpc[c] \in {"reg", "ask"}
  /\ Announce
  /\ cpc' = [cpc EXCEPT ![c] = IF @ = "reg" THEN "reg-wait" ELSE "ask-wait"]
  /\ UNCHANGED <<jobs, idNext, wakeups, page, cid, owner, service>>

Woken(c) == wakeups[cid[c]] > 0

(* The answer of the service is there: usiok follows a registration, the   *)
(* search goes on after an evaluation.  The page is not read again.        *)
PickUp(c) ==
  /\ cpc[c] \in {"reg-wait", "ask-wait"} /\ Woken(c)
  /\ wakeups' = [wakeups EXCEPT ![cid[c]] = @ - 1]
  /\ page' = [page EXCEPT ![cid[c]] = NoPage]
  /\ cpc' = [cpc EXCEPT ![c] = IF @ = "reg-wait" THEN "ready" ELSE "think"]
  /\ UNCHANGED <<jobs, tickets, idNext, cid, owner, service>>

Ask(c, p) ==
  /\ cpc[c] = "think"
  /\ page' = [page EXCEPT ![cid[c]].pos = p]
  /\ Enqueue("FeedForward", cid[c])
  /\ cpc' = [cpc EXCEPT ![c] = "ask"]
  /\ UNCHANGED <<tickets, idNext, wakeups, cid, owner, service>>

BestMove(c) ==
  /\ cpc[c] = "think"
  /\ cpc' = [cpc EXCEPT ![c] = "ready"]
  /\ UNCHANGED <<shared, cid, owner, service>>

(* "quit" or the end of standard input. *)
Exit(c) ==
  /\ cpc[c] = "ready" /\ opc \in {"quit", "dead"}
  /\ cpc' = [cpc EXCEPT ![c] = "gone"]
  /\ UNCHANGED <<shared, cid, owner, service>>

NoParent_Unseen == FALSE           \* a mutant
NoParent        == opc = "dead"

(* sem_wait() looks every second whether the manager is still there. *)
Orphan(c) ==
  /\ cpc[c] \in {"reg-wait", "ask-wait"} /\ NoParent
  /\ cpc' = [cpc EXCEPT ![c] = "gone"]
  /\ UNCHANGED <<shared, cid, owner, service>>

-----------------------------------------------------------------------------
(* The manager. *)

NNReset ==
  /\ opc = "reset"
  /\ fname' = wid
  /\ Enqueue("NNReset", Owner)
  /\ opc' = "reset-post"
  /\ UNCHANGED <<tickets, idNext, wakeups, page, wid, flagSrv, flagQuit>>
  /\ UNCHANGED <<clients, service>>

WaitNop ==
  /\ opc = "nop"
  /\ Enqueue("NOP", Owner)
  /\ opc' = "nop-post"
  /\ UNCHANGED <<tickets, idNext, wakeups, page, wid, fname, flagSrv, flagQuit>>
  /\ UNCHANGED <<clients, service>>

OwnerPost ==
  /\ opc \in {"reset-post", "nop-post", "end-post"}
  /\ Announce
  /\ opc' = CASE opc = "reset-post" -> "reset-wait"
              [] opc = "nop-post"   -> "nop-wait"
              [] opc = "end-post"   -> "end-flag"
  /\ UNCHANGED <<jobs, idNext, wakeups, page, wid, fname, flagSrv, flagQuit>>
  /\ UNCHANGED <<clients, service>>

AfterReset_Run == "run"    \* a mutant: wait() is not called
AfterReset     == "nop"

OwnerWoken ==
  /\ opc = "reset-wait" /\ flagSrv
  /\ flagSrv' = FALSE
  /\ opc' = AfterReset
  /\ UNCHANGED <<shared, clients, wid, fname, flagQuit, service>>

(* The network is loaded.  After the first one the engines are started. *)
InService ==
  /\ opc = "nop-wait" /\ flagSrv
  /\ flagSrv' = FALSE
  /\ opc' = "run"
  /\ cpc' = [c \in Client |-> IF cpc[c] = "none" THEN "off" ELSE cpc[c]]
  /\ UNCHANGED <<shared, cid, wid, fname, flagQuit, service>>

Go(c) ==
  /\ opc = "run" /\ cpc[c] = "ready"
  /\ cpc' = [cpc EXCEPT ![c] = "think"]
  /\ UNCHANGED <<shared, cid, owner, service>>

(* Mutant: _num_thinking is not looked at. *)
MayUpdate_Thinking == \A c \in Client : cpc[c] \notin Registering

(* No engine thinks; that they have all registered is not looked at.       *)
MayUpdate ==
  /\ \A c \in Client : cpc[c] \notin Thinking
  /\ EnginesFirst => \A c \in Client : cpc[c] \notin Registering

Update ==
  /\ opc = "run" /\ wid < MaxNet
  /\ MayUpdate
  /\ wid' = wid + 1
  /\ opc' = "reset"
  /\ UNCHANGED <<shared, clients, fname, flagSrv, flagQuit, service>>

Quit ==
  /\ opc = "run"
  /\ opc' = "quit"
  /\ UNCHANGED <<shared, clients, wid, fname, flagSrv, flagQuit, service>>

(* The destructor, when the last engine is gone. *)
Destroy ==
  /\ opc = "quit"
  /\ \A c \in Client : cpc[c] = "gone"
  /\ Enqueue("End", Owner)
  /\ opc' = "end-post"
  /\ UNCHANGED <<tickets, idNext, wakeups, page, wid, fname, flagSrv, flagQuit>>
  /\ UNCHANGED <<clients, service>>

SetQuit ==
  /\ opc = "end-flag" /\ Unlocked
  /\ flagQuit' = TRUE
  /\ opc' = "end-notify"
  /\ UNCHANGED <<shared, clients, wid, fname, flagSrv, service>>

NotifyBoth_Push == NotifyPush /\ UNCHANGED wpc   \* a mutant
NotifyBoth      == NotifyPush /\ NotifyWait

EndNotify ==
  /\ opc = "end-notify"
  /\ NotifyBoth
  /\ opc' = "join"
  /\ UNCHANGED <<shared, clients, wid, fname, flagSrv, flagQuit>>
  /\ UNCHANGED <<srv, pushq, waitq, pe, we, net>>

Join ==
  /\ opc = "join"
  /\ spc = "stop" /\ ppc = "stop" /\ wpc = "stop"
  /\ opc' = "done"
  /\ UNCHANGED <<shared, clients, wid, fname, flagSrv, flagQuit, service>>

ManagerDies ==
  /\ MayDie /\ opc \notin {"dead", "done"}
  /\ Die
  /\ UNCHANGED <<shared, clients, pushq, waitq, net>>

-----------------------------------------------------------------------------
(* Thread srv. *)

Take ==
  /\ spc = "take" /\ tickets > 0 /\ jobs # <<>>
  /\ tickets' = tickets - 1
  /\ job' = Head(jobs)
  /\ jobs' = Tail(jobs)
  /\ spc' = "job"
  /\ UNCHANGED <<idNext, wakeups, page, fn>>
  /\ UNCHANGED <<clients, owner, pushq, waitq, push, wait, net>>

Handling(type) == spc = "job" /\ job.type = type

SrvRegister ==
  /\ Handling("Register")
  /\ Wake(job.id)
  /\ spc' = "take" /\ job' = Nothing
  /\ UNCHANGED <<jobs, tickets, idNext, page, fn>>
  /\ UNCHANGED <<clients, owner, pushq, waitq, push, wait, net>>

Signal_None == UNCHANGED flagSrv    \* a mutant
Signal      == flagSrv' = TRUE

(* The manager holds _m_srv from its job to its wait. *)
SrvNop ==
  /\ Handling("NOP") /\ opc \in OwnerWaits
  /\ Signal
  /\ spc' = "take" /\ job' = Nothing
  /\ UNCHANGED <<fn, opc, wid, fname, flagQuit>>
  /\ UNCHANGED <<shared, clients, pushq, waitq, push, wait, net>>

(* Batches waiting to be pushed or answered are fatal. *)
SrvReset ==
  /\ Handling("NNReset")
  /\ IF pushq # <<>> \/ waitq # <<>>
     THEN Die /\ UNCHANGED net
     ELSE /\ net' = Nothing
          /\ spc' = "ids" /\ job' = Nothing
          /\ UNCHANGED <<fn, owner, push, wait>>
  /\ UNCHANGED <<shared, clients, pushq, waitq>>

(* So is a job behind this one. *)
SrvResetIds ==
  /\ spc = "ids"
  /\ idNext' = 0
  /\ IF jobs # <<>>
     THEN Die
     ELSE /\ spc' = "signal"
          /\ UNCHANGED <<job, fn, owner, push, wait>>
  /\ UNCHANGED <<jobs, tickets, wakeups, page, clients, pushq, waitq, net>>

SrvSignal ==
  /\ spc = "signal" /\ opc \in OwnerWaits
  /\ fn' = fname
  /\ Signal
  /\ spc' = "load"
  /\ UNCHANGED <<job, opc, wid, fname, flagQuit>>
  /\ UNCHANGED <<shared, clients, pushq, waitq, push, wait, net>>

SrvLoad ==
  /\ spc = "load"
  /\ net' = fn /\ fn' = Nothing
  /\ spc' = "take"
  /\ UNCHANGED <<job, shared, clients, owner, pushq, waitq, push, wait>>

NeedsBatch == pushq = <<>> \/ Full(Last(pushq))

AddItem(item) ==
  pushq' = IF NeedsBatch THEN Append(pushq, <<item>>)
           ELSE [pushq EXCEPT ![Len(pushq)] = Append(@, item)]

(* Mutant: push is notified of full batches only. *)
NeedsNotify_Full == Len(pushq') = 1 /\ Full(pushq'[1])

NeedsNotify == pushq = <<>> \/ (Len(pushq') = 1 /\ Full(pushq'[1]))

(* The position is copied into the last batch. *)
SrvFeedForward ==
  /\ Handling("FeedForward")
  /\ AddItem([id |-> job.id, pos |-> page[job.id].pos])
  /\ spc' = IF NeedsNotify THEN "notify" ELSE "take"
  /\ job' = Nothing
  /\ UNCHANGED <<shared, clients, owner, fn, waitq, push, wait, net>>

SrvNotify ==
  /\ spc = "notify"
  /\ NotifyPush
  /\ spc' = "take"
  /\ UNCHANGED <<shared, clients, owner, job, fn, pushq, waitq, pe, wait, net>>

SrvEnd ==
  /\ Handling("End")
  /\ spc' = "stop" /\ job' = Nothing
  /\ UNCHANGED <<shared, clients, owner, fn, pushq, waitq, push, wait, net>>

-----------------------------------------------------------------------------
(* Thread push. *)

MayPush ==
  /\ pushq # <<>>
  /\ Len(waitq) <= MaxWait
  /\ waitq = <<>> \/ Full(Head(pushq))

PushQuit ==
  /\ ppc = "test" /\ Unlocked /\ flagQuit
  /\ ppc' = "stop"
  /\ UNCHANGED <<shared, clients, owner, srv, pushq, waitq, pe, wait, net>>

RestToPush_All == pushq             \* a mutant
RestToPush     == Tail(pushq)

PushTake ==
  /\ ppc = "test" /\ Unlocked /\ ~flagQuit /\ MayPush
  /\ pe' = [items |-> Head(pushq), net |-> Nothing]
  /\ pushq' = RestToPush
  /\ ppc' = "push"
  /\ UNCHANGED <<shared, clients, owner, srv, waitq, wait, net>>

PushSleep ==
  /\ ppc = "test" /\ Unlocked /\ ~flagQuit /\ ~MayPush
  /\ ppc' = "sleep"
  /\ UNCHANGED <<shared, clients, owner, srv, pushq, waitq, pe, wait, net>>

(* The network of this moment evaluates the batch. *)
PushRun ==
  /\ ppc = "push"
  /\ pe' = [pe EXCEPT !.net = net]
  /\ ppc' = "append"
  /\ UNCHANGED <<shared, clients, owner, srv, pushq, waitq, wait, net>>

PushAppend ==
  /\ ppc = "append" /\ Unlocked
  /\ waitq' = Append(waitq, pe)
  /\ pe' = NoBatch
  /\ ppc' = "notify"
  /\ UNCHANGED <<shared, clients, owner, srv, pushq, wait, net>>

PushNotify ==
  /\ ppc = "notify"
  /\ NotifyWait
  /\ ppc' = "test"
  /\ UNCHANGED <<shared, clients, owner, srv, pushq, waitq, pe, we, net>>

-----------------------------------------------------------------------------
(* Thread wait. *)

WaitQuit ==
  /\ wpc = "test" /\ Unlocked /\ flagQuit
  /\ wpc' = "stop"
  /\ UNCHANGED <<shared, clients, owner, srv, pushq, waitq, push, we, net>>

WaitTake ==
  /\ wpc = "test" /\ Unlocked /\ ~flagQuit /\ waitq # <<>>
  /\ we' = Head(waitq)
  /\ waitq' = Tail(waitq)
  /\ wpc' = "answer"
  /\ UNCHANGED <<shared, clients, owner, srv, pushq, push, net>>

WaitSleep ==
  /\ wpc = "test" /\ Unlocked /\ ~flagQuit /\ waitq = <<>>
  /\ wpc' = "sleep"
  /\ UNCHANGED <<shared, clients, owner, srv, pushq, waitq, push, we, net>>

(* The value for the first engine of the batch. *)
Result_Last == [pos |-> Last(we.items).pos, net |-> we.net]   \* a mutant
Result      == [pos |-> Head(we.items).pos, net |-> we.net]

(* One value after the other: into the page, then the engine is woken. *)
WaitAnswer ==
  /\ wpc = "answer" /\ we.items # <<>>
  /\ page' = [page EXCEPT ![Head(we.items).id].val = Result]
  /\ Wake(Head(we.items).id)
  /\ we' = [we EXCEPT !.items = Tail(@)]
  /\ UNCHANGED <<jobs, tickets, idNext, wpc>>
  /\ UNCHANGED <<clients, owner, srv, pushq, waitq, push, net>>

(* The batch returns to the pool and push may find the network idle. *)
WaitDone ==
  /\ wpc = "answer" /\ we.items = <<>> /\ Unlocked
  /\ NotifyPush
  /\ we' = NoBatch
  /\ wpc' = "test"
  /\ UNCHANGED <<shared, clients, owner, srv, pushq, waitq, pe, net>>

(* Condition variables may wake up for no reason. *)
Spurious ==
  /\ \/ ppc = "sleep" /\ ppc' = "test" /\ UNCHANGED wpc
     \/ wpc = "sleep" /\ wpc' = "test" /\ UNCHANGED ppc
  /\ UNCHANGED <<shared, clients, owner, srv, pushq, waitq, pe, we, net>>

-----------------------------------------------------------------------------

Init ==
  /\ jobs = <<>> /\ tickets = 0 /\ idNext = 0
  /\ wakeups = [i \in Id |-> 0]
  /\ page = [i \in Id |-> NoPage]
  /\ cpc = [c \in Client |-> "none"]
  /\ cid = [c \in Client |-> Nothing]
  /\ opc = "reset" /\ wid = 1 /\ fname = Nothing
  /\ flagSrv = FALSE /\ flagQuit = FALSE
  /\ spc = "take" /\ job = Nothing /\ fn = Nothing
  /\ pushq = <<>> /\ waitq = <<>>
  /\ ppc = "test" /\ pe = NoBatch
  /\ wpc = "test" /\ we = NoBatch
  /\ net = Nothing

Engine(c) ==
  \/ TakeId(c) \/ Register(c) \/ Post(c) \/ PickUp(c) \/ BestMove(c)
  \/ Exit(c) \/ Orphan(c)
  \/ \E p \in Position : Ask(c, p)

Manager ==
  \/ NNReset \/ WaitNop \/ OwnerPost \/ OwnerWoken \/ InService
  \/ Update \/ Quit \/ Destroy \/ SetQuit \/ EndNotify \/ Join
  \/ \E c \in Client : Go(c)

Srv ==
  \/ Take \/ SrvRegister \/ SrvNop \/ SrvReset \/ SrvResetIds \/ SrvSignal
  \/ SrvLoad \/ SrvFeedForward \/ SrvNotify \/ SrvEnd

PushThread ==
  PushQuit \/ PushTake \/ PushSleep \/ PushRun \/ PushAppend \/ PushNotify

WaitThread == WaitQuit \/ WaitTake \/ WaitSleep \/ WaitAnswer \/ WaitDone

Next ==
  \/ \E c \in Client : Engine(c)
  \/ Manager \/ ManagerDies
  \/ Srv \/ PushThread \/ WaitThread \/ Spurious

Spec == Init /\ [][Next]_vars

(* Every thread runs, the manager finishes what it has begun, and an       *)
(* engine that is registered or answered goes on; a search ends.           *)
Fairness ==
  /\ WF_vars(Srv) /\ WF_vars(PushThread) /\ WF_vars(WaitThread)
  /\ WF_vars(NNReset \/ WaitNop \/ OwnerPost \/ OwnerWoken \/ InService)
  /\ WF_vars(Destroy \/ OwnerPost \/ SetQuit \/ EndNotify \/ Join)
  /\ \A c \in Client : WF_vars(Engine(c)) /\ SF_vars(BestMove(c))

LiveSpec == Spec /\ Fairness

-----------------------------------------------------------------------------
(* Safety. *)

Unannounced ==
  Cardinality({c \in Client : cpc[c] \in {"reg", "ask"}})
    + (IF opc \in {"reset-post", "nop-post", "end-post"} THEN 1 ELSE 0)

(* Every job in the table is announced once, or its sender is about to:    *)
(* srv never finds the table empty (assert(0 < pservice->njob)) and no job *)
(* stays in it unseen.                                                     *)
TicketsMatch == TypeOK /\ (opc # "dead" => Len(jobs) = tickets + Unannounced)

InBatch(b, i) == Cardinality({k \in DOMAIN b : b[k].id = i})

InQueue(q, i) ==
  Cardinality({p \in (DOMAIN q) \X (1 .. SizeBatch) :
                 p[2] \in DOMAIN q[p[1]] /\ q[p[1]][p[2]].id = i})

WaitItems == [k \in DOMAIN waitq |-> waitq[k].items]

Requests(i) ==
  InBatch(jobs, i) + (IF spc = "job" /\ job.id = i THEN 1 ELSE 0)
    + InQueue(pushq, i) + InBatch(pe.items, i)
    + InQueue(WaitItems, i) + InBatch(we.items, i) + wakeups[i]

(* A batch is never empty and never larger than its buffers, and only the  *)
(* last one may still grow (the assertions of Entry::add and push_ff).     *)
BatchesFit ==
  /\ \A k \in DOMAIN pushq :
       /\ Len(pushq[k]) \in 1 .. SizeBatch
       /\ k < Len(pushq) => Full(pushq[k])
  /\ \A k \in DOMAIN waitq : Len(waitq[k].items) \in 1 .. SizeBatch

(* While an engine waits for the service, its request is in exactly one    *)
(* place on the way from the table through the batches to its semaphore;   *)
(* otherwise there is none.  No request is lost or answered twice, and no  *)
(* batch overflows its buffers.                                            *)
RequestOnce ==
  /\ BatchesFit
  /\ opc # "dead" =>
       \A c \in Client : cpc[c] \notin {"none", "off"} =>
         Requests(cid[c]) =
           IF cpc[c] \in {"reg", "reg-wait"} \cup Asking THEN 1 ELSE 0

(* The tests behind which worker_srv() dies of an "Internal Error" never    *)
(* strike (nnet-srv.cpp:200, 218): when it comes to an NNReset no batch is   *)
(* waiting, and no job came in behind it.                                   *)
ResetUndisturbed ==
  /\ Handling("NNReset") => pushq = <<>> /\ waitq = <<>>
  /\ spc = "ids" => jobs = <<>>

(* Games are played with the network the manager asked for last: nnreset() *)
(* and wait() return only when it is loaded.  While it is replaced no      *)
(* batch is on it, although worker_srv() looks at the two queues only, not *)
(* at what the threads hold.                                               *)
NewNetInService ==
  /\ opc = "run" => net = wid
  /\ spc \in Resetting =>
       pushq = <<>> /\ waitq = <<>> /\ pe.items = <<>> /\ we.items = <<>>

(* The service implements NNEval.                                          *)
Question(c) == IF cpc[c] \in Asking THEN page[cid[c]].pos ELSE Nothing

Answered(c) ==
  IF cpc[c] \in Asking /\ wakeups[cid[c]] > 0 THEN page[cid[c]].val
  ELSE Nothing

Eval == INSTANCE NNEval WITH
  alive    <- opc # "dead",
  question <- [c \in Client |-> Question(c)],
  answer   <- [c \in Client |-> Answered(c)]

EvalSpec == Eval!Spec

-----------------------------------------------------------------------------
(* Liveness. *)

(* An engine that waits for the service is answered, unless the manager's  *)
(* process dies: no request stays in a batch nobody closes.                *)
EventuallyAnswered ==
  \A c \in Client :
    cpc[c] \in {"reg", "ask"} ~> (cpc[c] \in {"ready", "think"} \/ opc = "dead")

(* nnreset() and wait() return: srv takes _m_srv inside _m_entries.        *)
Replaced == opc = "reset" ~> opc \in {"run", "dead"}

(* After a quit the engines go and the destructor returns.                 *)
EndReturns == opc = "quit" ~> opc \in {"done", "dead"}

(* No engine survives the manager's process.                               *)
OrphansExit == opc = "dead" ~> \A c \in Client : cpc[c] \in {"none", "gone"}
=============================================================================
