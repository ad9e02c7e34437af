------------------------------ MODULE Delivery ------------------------------
(***************************************************************************)
(* How game records get from the clients to the server: the queue and the  *)
(* sender thread of a client (src/autousi/client.cpp), the connections,    *)
(* the peers of Listen (src/server/listen.cpp), the queue and the worker   *)
(* of RecKeep (src/server/datakeep.cpp).  A record is sent as a header and *)
(* a body.  Connections break and time out; clients and the server end,    *)
(* the server also dies, and is started again.                             *)
(*                                                                         *)
(* The queues keep what JobStack promises of them; RecKeep's files are in  *)
(* module RecKeep.                                                         *)
(***************************************************************************)
EXTENDS Integers, Sequences, FiniteSets, SequencesExt

CONSTANTS Client,
          MayIgnore,      \* clients whose address the ignore list may hold
          Games,          \* the games each client may play, a function
          MaxRec,         \* bound: games a client finishes
          TooLarge,       \* records longer than MaxRecv allows
          Unfit,          \* records the tests of transact() turn down
          ClientQueue,    \* SizeQueue of a client
          ServerQueue,    \* SizeQueue of the server
          MaxRetry,       \* snd_max_retry
          MaxAccept,      \* _max_accept
          MaxConn,        \* bound: connections at a time
          MaxFault        \* bound: breaks, time outs, deaths of the server

ASSUME IgnoreAssumption == MayIgnore \subseteq Client
ASSUME BoundAssumption ==
  /\ MaxRec \in Nat
  /\ {ClientQueue, ServerQueue, MaxAccept, MaxConn} \subseteq Nat \ {0}
ASSUME RetryAssumption == {MaxRetry, MaxFault} \subseteq Nat

Record == UNION {[by : {c}, game : Games[c]] : c \in Client}
Conn   == 1 .. MaxConn
Slot   == 1 .. MaxAccept
NoRec  == [by |-> "none", game |-> 0]
Garbage == [by |-> "garbage", game |-> 0]  \* no record at all: fails to decode

ASSUME RecordAssumption == NoRec \notin Record /\ Garbage \notin Record
ASSUME RefusedAssumption == TooLarge \subseteq Record /\ Unfit \subseteq Record

NoConn == 0

(* A record is sent in two pieces. *)
Chunk  == [rec : Record, part : {"head", "body"}]

VARIABLES
  made,      \* the records of the games that were finished
  queue,     \* _pJQueue of each client
  hand,      \* pJob
  pc,        \* where the sender of each client is
  tries,     \* retry_count
  quit,      \* _quit
  mine,      \* the sender's connection
  sent,      \* records counted by _nsend
  discarded, \* records counted by _ndiscard
  conn,      \* the connections, with the bytes on their way to the server
  slot,      \* _pPeer: the connection of each peer
  buf,       \* the receive buffer of each peer
  spc,       \* where the server is
  pend,      \* the record in RecKeep::add(): the select loop waits with it
  squeue,    \* _pJQueue of RecKeep
  work,      \* pjob of RecKeep::worker()
  known,     \* _redundancy_table
  log,       \* records stored, in order
  hit,       \* records sent that a fault, an end of the server or the
             \* ignore list took away
  faults     \* faults so far

client == <<made, queue, hand, pc, tries, quit, mine, sent, discarded>>
peers  == <<slot, buf>>
keeper == <<spc, pend, squeue, work, known, log>>
vars   == <<client, conn, peers, keeper, hit, faults>>

Line   == [stat : {"none", "backlog", "open", "dead"}, header : BOOLEAN,
           wire : Seq(Chunk), eof : BOOLEAN]
NoLine == [stat |-> "none", header |-> FALSE, wire |-> <<>>, eof |-> FALSE]

(* "done": the sender thread has returned. *)
ClientPc == {"pop", "try", "header", "head", "body", "done"}

TypeOK ==
  /\ made \subseteq Record /\ queue \in [Client -> Seq(Record)]
  /\ \A c \in Client : Len(queue[c]) <= ClientQueue
  /\ hand \in [Client -> Record \cup {NoRec}]
  /\ pc \in [Client -> ClientPc]
  /\ tries \in [Client -> 0 .. MaxRetry]
  /\ quit \in [Client -> BOOLEAN]
  /\ mine \in [Client -> Conn \cup {NoConn}]
  /\ sent \subseteq Record /\ discarded \subseteq Record
  /\ conn \in [Conn -> Line]
  /\ slot \in [Slot -> Conn \cup {NoConn}]
  /\ buf \in [Slot -> Seq(Chunk)]
  /\ spc \in {"up", "stopping", "down"}
  /\ pend \in Record \cup {NoRec, Garbage}
  /\ squeue \in Seq(Record \cup {Garbage}) /\ Len(squeue) <= ServerQueue
  /\ work \in Record \cup {NoRec, Garbage}
  /\ known \subseteq Record /\ log \in Seq(Record)
  /\ hit \subseteq Record /\ faults \in 0 .. MaxFault

-----------------------------------------------------------------------------
(* Connections. *)

(* Records whose body is among some chunks. *)
Bodies(s) == {ch.rec : ch \in {x \in ToSet(s) : x.part = "body"}}

(* The client's end is closed: what was sent still arrives. *)
ClientCloses(k) ==
  conn' = [conn EXCEPT ![k] =
             IF @.stat = "dead" THEN NoLine ELSE [@ EXCEPT !.eof = TRUE]]

(* The server's end is closed: what was not received is gone. *)
Cut(line) ==
  IF line.stat = "none" \/ line.eof THEN NoLine
  ELSE [line EXCEPT !.stat = "dead", !.wire = <<>>]

InFlight(K, S) ==
  (UNION {Bodies(conn[k].wire) : k \in K})
    \cup (UNION {Bodies(buf[s]) : s \in S})

-----------------------------------------------------------------------------
(* A client: the main thread and sender(). *)

MadeBy(c) == {r \in made : r.by = c}

(* add_rec(): waits in push_free() while the queue is full. *)
AddRec(c) ==
  /\ ~quit[c] /\ Cardinality(MadeBy(c)) < MaxRec
  /\ Len(queue[c]) < ClientQueue
  /\ \E r \in Record \ made :
       /\ r.by = c
       /\ made' = made \cup {r}
       /\ queue' = [queue EXCEPT ![c] = Append(@, r)]
  /\ UNCHANGED <<hand, pc, tries, quit, mine, sent, discarded, conn, peers,
                 keeper, hit, faults>>

EndClient(c) ==
  /\ ~quit[c]
  /\ quit' = [quit EXCEPT ![c] = TRUE]
  /\ UNCHANGED <<made, queue, hand, pc, tries, mine, sent, discarded, conn,
                 peers, keeper, hit, faults>>

(* pop() fails once the queue is ended, whatever it holds. *)
Pop(c) ==
  /\ pc[c] = "pop"
  /\ \/ /\ quit[c]
        /\ pc' = [pc EXCEPT ![c] = "done"]
        /\ queue' = [queue EXCEPT ![c] = <<>>]
        /\ UNCHANGED <<hand, tries>>
     \/ /\ ~quit[c] /\ queue[c] # <<>>
        /\ pc' = [pc EXCEPT ![c] = "try"]
        /\ hand' = [hand EXCEPT ![c] = Last(queue[c])]
        /\ queue' = [queue EXCEPT ![c] = Front(@)]
        /\ tries' = [tries EXCEPT ![c] = 0]
  /\ UNCHANGED <<made, quit, mine, sent, discarded, conn, peers, keeper, hit,
                 faults>>

NextJob_Again(c) ==                      \* a mutant: no break, no reset()
  /\ pc' = [pc EXCEPT ![c] = "try"]
  /\ UNCHANGED <<hand, tries>>

(* Done with the record: the next pop(). *)
NextJob(c) ==
  /\ pc' = [pc EXCEPT ![c] = "pop"]
  /\ hand' = [hand EXCEPT ![c] = NoRec]
  /\ tries' = [tries EXCEPT ![c] = 0]

(* _quit ends the retries; the record is not counted. *)
GiveUp(c) ==
  /\ pc[c] = "try" /\ quit[c]
  /\ NextJob(c)
  /\ UNCHANGED <<made, queue, quit, mine, sent, discarded, conn, peers, keeper,
                 hit, faults>>

Connect(c) ==
  /\ pc[c] = "try" /\ ~quit[c]
  /\ spc # "down"
  /\ \E k \in Conn :
       /\ conn[k].stat = "none"
       /\ \A j \in 1 .. k - 1 : conn[j].stat # "none"
       /\ conn' = [conn EXCEPT ![k] = [NoLine EXCEPT !.stat = "backlog"]]
       /\ mine' = [mine EXCEPT ![c] = k]
  /\ pc' = [pc EXCEPT ![c] = "header"]
  /\ UNCHANGED <<made, queue, hand, tries, quit, sent, discarded, peers, keeper,
                 hit, faults>>

RecvHeader(c) ==
  /\ pc[c] = "header" /\ conn[mine[c]].header
  /\ pc' = [pc EXCEPT ![c] = "head"]
  /\ UNCHANGED <<made, queue, hand, tries, quit, mine, sent, discarded, conn,
                 peers, keeper, hit, faults>>

(* Bytes for a connection the server has closed vanish. *)
Put(line, part, c) ==
  IF line.stat = "dead" THEN line
  ELSE [line EXCEPT !.wire = Append(@, [rec |-> hand[c], part |-> part])]

SendHead(c) ==
  /\ pc[c] = "head"
  /\ conn' = [conn EXCEPT ![mine[c]] = Put(@, "head", c)]
  /\ pc' = [pc EXCEPT ![c] = "body"]
  /\ UNCHANGED <<made, queue, hand, tries, quit, mine, sent, discarded, peers,
                 keeper, hit, faults>>

(* The record counts as sent, and the connection is closed. *)
SendBody(c) ==
  /\ pc[c] = "body"
  /\ LET line == Put(conn[mine[c]], "body", c) IN
     conn' = [conn EXCEPT ![mine[c]] = IF line.stat = "dead" THEN NoLine
                                       ELSE [line EXCEPT !.eof = TRUE]]
  /\ hit' = IF conn[mine[c]].stat = "dead" THEN hit \cup {hand[c]} ELSE hit
  /\ sent' = sent \cup {hand[c]}
  /\ mine' = [mine EXCEPT ![c] = NoConn]
  /\ NextJob(c)
  /\ UNCHANGED <<made, queue, quit, discarded, peers, keeper, faults>>

GivesUp(n) == n > MaxRetry

(* An exception: no connection, a time out, the connection is gone. *)
Fail(c) ==
  /\ \/ pc[c] = "try" /\ ~quit[c] /\ spc = "down"
     \/ pc[c] \in {"header", "head", "body"}
  /\ IF mine[c] = NoConn THEN UNCHANGED conn ELSE ClientCloses(mine[c])
  /\ mine' = [mine EXCEPT ![c] = NoConn]
  /\ IF GivesUp(tries[c] + 1)
     THEN discarded' = discarded \cup {hand[c]} /\ NextJob(c)
     ELSE /\ pc' = [pc EXCEPT ![c] = "try"]
          /\ tries' = [tries EXCEPT ![c] = @ + 1]
          /\ UNCHANGED <<hand, discarded>>
  /\ UNCHANGED <<made, queue, quit, sent, peers, keeper, hit, faults>>

-----------------------------------------------------------------------------
(* The select loop of the server.  It does nothing else while a record     *)
(* waits for room in the queue.                                            *)

Listening == spc = "up" /\ pend = NoRec

ClearBuf_Keeps(s) == UNCHANGED buf       \* a mutant: no set_len(0)
ClearBuf(s)       == buf' = [buf EXCEPT ![s] = <<>>]

FreeSlots == {s \in Slot : slot[s] = NoConn}

HandleConnect(k) ==
  /\ Listening /\ conn[k].stat = "backlog"
  /\ IF FreeSlots = {}
     THEN conn' = [conn EXCEPT ![k] = Cut(@)] /\ UNCHANGED peers
     ELSE \E s \in FreeSlots :
          /\ \A t \in FreeSlots : s <= t
          /\ conn' = [conn EXCEPT ![k].stat = "open"]
          /\ slot' = [slot EXCEPT ![s] = k]
          /\ ClearBuf(s)
  /\ UNCHANGED <<client, keeper, hit, faults>>

SendHeader(s) ==
  /\ Listening /\ slot[s] # NoConn
  /\ ~conn[slot[s]].header
  /\ conn' = [conn EXCEPT ![slot[s]].header = TRUE]
  /\ UNCHANGED <<client, peers, keeper, hit, faults>>

(* peer.clear(); the buffer is left as it is. *)
Clear(s) ==
  /\ conn' = [conn EXCEPT ![slot[s]] = Cut(@)]
  /\ slot' = [slot EXCEPT ![s] = NoConn]

(* What a header and the bytes that follow it make. *)
Parsed(b) ==
  IF b[2] = [rec |-> b[1].rec, part |-> "body"] THEN b[1].rec ELSE Garbage

(* The commands that end the connection: a body in the place of a command   *)
(* is none, and a record may be announced too large.                        *)
Breaks(b) == b[1].part = "body" \/ b[1].rec \in TooLarge

(* handle_recv(): a command, as soon as it is whole.  The ignore list is    *)
(* read again all the time.  The size of a record is looked at when the     *)
(* first byte after it is there, which is not always all of the body: the   *)
(* piece that holds the size may already break the connection.              *)
HandleRecv(s) ==
  /\ Listening /\ slot[s] # NoConn
  /\ conn[slot[s]].wire # <<>>
  /\ LET b == Append(buf[s], Head(conn[slot[s]].wire)) IN
     \/ Breaks(b) /\ Clear(s) /\ UNCHANGED <<buf, pend, hit>>
     \/ /\ b[1].part = "head" /\ (Len(b) > 1 => ~Breaks(b))
        /\ conn' = [conn EXCEPT ![slot[s]].wire = Tail(@)]
        /\ buf' = [buf EXCEPT ![s] = IF Len(b) < 2 THEN b ELSE SubSeq(b, 3, Len(b))]
        /\ UNCHANGED slot
        /\ \/ Len(b) < 2 /\ UNCHANGED <<pend, hit>>
           \/ Len(b) > 1 /\ pend' = Parsed(b) /\ UNCHANGED hit
           \/ /\ Len(b) > 1 /\ b[2].rec.by \in MayIgnore
              /\ hit' = hit \cup Bodies(b) /\ UNCHANGED pend
  /\ UNCHANGED <<client, spc, squeue, work, known, log, faults>>

(* recv() returns 0. *)
HandleEof(s) ==
  /\ Listening /\ slot[s] # NoConn
  /\ conn[slot[s]].wire = <<>> /\ conn[slot[s]].eof
  /\ Clear(s)
  /\ UNCHANGED <<client, buf, keeper, hit, faults>>

(* TimeoutPlayer after the connection was accepted, or it breaks. *)
Lose(s) ==
  /\ Listening /\ slot[s] # NoConn
  /\ faults < MaxFault
  /\ faults' = faults + 1
  /\ hit' = hit \cup Bodies(conn[slot[s]].wire)
  /\ Clear(s)
  /\ UNCHANGED <<client, buf, keeper>>

HasRoom_Early == Len(squeue) + 1 < ServerQueue   \* a mutant
HasRoom       == Len(squeue) < ServerQueue

(* The end of RecKeep::add(). *)
PushFree ==
  /\ pend # NoRec /\ spc = "up" /\ HasRoom
  /\ squeue' = Append(squeue, pend)
  /\ pend' = NoRec
  /\ UNCHANGED <<client, conn, peers, spc, work, known, log, hit, faults>>

-----------------------------------------------------------------------------
(* The worker of RecKeep. *)

Take ==
  /\ spc = "up" /\ work = NoRec /\ squeue # <<>>
  /\ work' = Last(squeue)
  /\ squeue' = Front(squeue)
  /\ UNCHANGED <<client, conn, peers, spc, pend, known, log, hit, faults>>

(* transact() returns without storing a record: what it cannot decode, what *)
(* examine_record() turns down, a play too short, a play of too few         *)
(* children, a game its table knows.                                        *)
TurnedDown == work = Garbage \/ work \in Unfit \/ work \in known

Transact ==
  /\ work # NoRec
  /\ IF TurnedDown
     THEN UNCHANGED <<known, log>>
     ELSE known' = known \cup {work} /\ log' = Append(log, work)
  /\ work' = NoRec
  /\ UNCHANGED <<client, conn, peers, spc, pend, squeue, hit, faults>>

-----------------------------------------------------------------------------
(* The end of the server. *)

Held(x) == IF x \in Record THEN {x} ELSE {}

(* The quit file: RecKeep::end() drops what is queued. *)
QuitServer ==
  /\ Listening /\ faults < MaxFault
  /\ faults' = faults + 1
  /\ spc' = "stopping"
  /\ squeue' = <<>> /\ hit' = hit \cup (ToSet(squeue) \cap Record)
  /\ UNCHANGED <<client, conn, peers, pend, work, known, log>>

Down ==
  /\ spc' = "down"
  /\ conn' = [k \in Conn |-> Cut(conn[k])]
  /\ slot' = [s \in Slot |-> NoConn] /\ buf' = [s \in Slot |-> <<>>]
  /\ pend' = NoRec /\ squeue' = <<>> /\ work' = NoRec /\ known' = {}
  /\ hit' = hit \cup InFlight(Conn, Slot) \cup Held(pend) \cup Held(work)
                \cup (ToSet(squeue) \cap Record)
  /\ UNCHANGED <<client, log>>

(* The worker is joined, and main() returns. *)
Exit == spc = "stopping" /\ work = NoRec /\ Down /\ UNCHANGED faults

Crash ==
  /\ spc # "down" /\ faults < MaxFault
  /\ faults' = faults + 1
  /\ Down

Start ==
  /\ spc = "down"
  /\ spc' = "up"
  /\ UNCHANGED <<client, conn, peers, pend, squeue, work, known, log, hit, faults>>

-----------------------------------------------------------------------------

Init ==
  /\ made = {} /\ queue = [c \in Client |-> <<>>]
  /\ hand = [c \in Client |-> NoRec] /\ pc = [c \in Client |-> "pop"]
  /\ tries = [c \in Client |-> 0] /\ quit = [c \in Client |-> FALSE]
  /\ mine = [c \in Client |-> NoConn]
  /\ sent = {} /\ discarded = {}
  /\ conn = [k \in Conn |-> NoLine]
  /\ slot = [s \in Slot |-> NoConn] /\ buf = [s \in Slot |-> <<>>]
  /\ spc = "up" /\ pend = NoRec /\ squeue = <<>> /\ work = NoRec
  /\ known = {} /\ log = <<>> /\ hit = {} /\ faults = 0

Sender(c) ==
  \/ Pop(c) \/ GiveUp(c) \/ Connect(c) \/ RecvHeader(c)
  \/ SendHead(c) \/ SendBody(c) \/ Fail(c)

Serve(s) == SendHeader(s) \/ HandleRecv(s) \/ HandleEof(s)

Worker == Take \/ Transact

Next ==
  \/ \E c \in Client : AddRec(c) \/ EndClient(c) \/ Sender(c)
  \/ \E k \in Conn : HandleConnect(k)
  \/ \E s \in Slot : Serve(s) \/ Lose(s)
  \/ PushFree \/ Worker
  \/ QuitServer \/ Exit \/ Crash \/ Start

Spec == Init /\ [][Next]_vars

(* Every thread runs on, every ready peer is served in each turn of the    *)
(* select loop, and a server that is down is started again.  Nothing is    *)
(* assumed of games, ends of processes and faults.                         *)
FairSpec ==
  /\ Spec
  /\ \A c \in Client : WF_vars(Sender(c))
  /\ \A k \in Conn : WF_vars(HandleConnect(k))
  /\ \A s \in Slot : WF_vars(Serve(s))
  /\ WF_vars(PushFree) /\ WF_vars(Worker) /\ WF_vars(Exit) /\ WF_vars(Start)

-----------------------------------------------------------------------------
(* Properties. *)

Waiting ==
  (UNION {ToSet(queue[c]) : c \in Client}) \cup {hand[c] : c \in Client}

Transit ==
  InFlight(Conn, Slot) \cup Held(pend) \cup Held(work) \cup ToSet(squeue)

Fate(r) ==
  IF r \notin made THEN "none"
  ELSE IF r \in ToSet(log) THEN "stored"
  ELSE IF r \in sent /\ r \in Transit THEN "sent"
  ELSE IF r \in discarded THEN "discarded"
  ELSE IF r \in Waiting THEN "waiting"
  ELSE "lost"

Refused == TooLarge \cup Unfit

(* Whatever breaks, a record is stored once at most, whole, and only if its *)
(* client counts it as sent: what _ndiscard counts is not in the archives,  *)
(* nor is what the server's tests refuse, and a header or half a record     *)
(* left by one connection never spoils the record of another                *)
(* (client.cpp:277, listen.cpp:342-347, 452-483, datakeep.cpp:598-635).     *)
Fates == INSTANCE RecFate WITH fate <- [r \in Record |-> Fate(r)]
FateSpec == Fates!Spec

(* What a client counts as sent is stored, unless the server's tests refuse *)
(* it, its connection was closed by the server before it was read, the      *)
(* server ended with it, or its address is ignored: a full queue or a full  *)
(* peer table only delays or refuses, and the next user of a peer starts    *)
(* with an empty buffer (listen.cpp:335-347, datakeep.cpp:572-580).  What   *)
(* it neither counts as sent nor as discarded is still in its hands, unless *)
(* it is told to quit (client.cpp:277-314).                                 *)
LostOnlyIfHit ==
  /\ TypeOK
  /\ \A r \in Record :
       Fate(r) = "lost" => IF r \in sent THEN r \in hit \cup Refused
                                         ELSE quit[r.by]

(* No record waits for ever, whatever the server does: it is stored, given  *)
(* up, or lost with the process that held it (client.cpp:286-314).          *)
Settled ==
  \A r \in Record :
    Fate(r) \in {"waiting", "sent"} ~> Fate(r) \in {"stored", "discarded", "lost"}
=============================================================================
