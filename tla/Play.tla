-------------------------------- MODULE Play --------------------------------
(***************************************************************************)
(* The play manager of a client (src/autousi/play.cpp), the main loop that *)
(* drives it (src/autousi/autousi.cpp) and the readers of its engines'     *)
(* output (src/common/child.cpp).  Every engine has two streams, each read *)
(* by a thread of its own that offers one line at a time in a table of     *)
(* flags shared with the main thread.  The main thread takes one line of   *)
(* each stream per round, starts games, and replaces the network when no   *)
(* engine thinks.                                                          *)
(*                                                                         *)
(* The table's mutex makes an action of each critical section.  On a       *)
(* Reader's condition variable either the reader waits (a line is offered) *)
(* or the main thread (none is), both with a predicate: a guard.           *)
(***************************************************************************)
EXTENDS Integers, Sequences, FiniteSets, SequencesExt

CONSTANTS NEngine,        \* engines, one child process each
          MaxNumChild,    \* Param::maxnum_child
          MaxNet,         \* bound: networks 0 .. MaxNet
          Mortal          \* engines that may die at any moment

Engine  == 1 .. NEngine

ASSUME EngineAssumption ==
  NEngine \in Nat \ {0} /\ MaxNumChild \in Nat /\ NEngine <= MaxNumChild
ASSUME NetAssumption    == MaxNet \in Nat /\ Mortal \subseteq Engine

Stream  == Engine \X {"in", "err"}
Streams(e) == {e} \X {"in", "err"}

VARIABLES
  eng,       \* what an engine does
  cmds,      \* lines written to an engine that it has not read
  pipe,      \* lines of a stream its reader has not read
  line,      \* _line, _has_line and _is_eof of each reader
  doread,    \* _do_read
  ready,     \* status.is_ready
  nready,    \* status.num_ready
  snap,      \* status.is_ready_unlock
  alive,     \* _engines
  flag,      \* _flag_ready, _flag_playing, _flag_thinking of each engine
  nthinking, \* _num_thinking
  wid,       \* _wid
  nnet,      \* the network in service
  arg,       \* Client's has_conn() and get_wght(), as manage_play() gets them
  pc, at     \* where the main thread is, and at which engine

readers == <<pipe, line, doread, ready, nready>>
main    == <<snap, alive, flag, nthinking, wid, nnet, arg, pc, at>>
vars    == <<eng, cmds, readers, main>>

Network == 0 .. MaxNet
NoLine  == "none"
Line    == {"usiok", "info", "bestmove", "eof"}
Command == {"usi", "isready", "usinewgame", "go", "weight", "quit"}

(* "died": the client's process has ended with an error message.           *)
(* "internal": with one that says the program itself is wrong.             *)
Pc == {"loop", "turn", "update", "drain", "wait", "reap", "done", "died", "internal"}

TypeOK ==
  /\ eng \in [Engine -> {"idle", "think", "gone"}]
  /\ cmds \in [Engine -> Seq(Command)]
  /\ pipe \in [Stream -> Seq(Line)]
  /\ line \in [Stream -> Line \cup {NoLine}]
  /\ doread \in [Stream -> BOOLEAN] /\ ready \in [Stream -> BOOLEAN]
  /\ nready \in 0 .. MaxNumChild
  /\ snap \in [Stream -> BOOLEAN]
  /\ alive \subseteq Engine
  /\ flag \in [Engine -> [ready : BOOLEAN, playing : BOOLEAN, thinking : BOOLEAN]]
  /\ nthinking \in 0 .. NEngine
  /\ {wid, nnet} \subseteq Network
  /\ arg \in [conn : BOOLEAN, net : Network]
  /\ pc \in Pc /\ at \in Engine

Running == pc \notin {"done", "died", "internal"}

-----------------------------------------------------------------------------
(* The engines. *)

Write(e, x, l) == [pipe EXCEPT ![<<e, x>>] = Append(@, l)]

Closed(e) == [s \in Stream |-> IF s \in Streams(e) THEN Append(pipe[s], "eof")
                               ELSE pipe[s]]

(* An engine answers "usi" and "isready", thinks at "go" and ends at "quit".*)
Obey(e) ==
  /\ Running /\ eng[e] = "idle" /\ cmds[e] # <<>>
  /\ cmds' = [cmds EXCEPT ![e] = Tail(@)]
  /\ LET c == Head(cmds[e]) IN
     /\ eng' = [eng EXCEPT ![e] = CASE c = "go"   -> "think"
                                    [] c = "quit" -> "gone"
                                    [] OTHER      -> "idle"]
     /\ pipe' = CASE c = "usi"     -> Write(e, "in", "usiok")
                  [] c = "isready" -> Write(e, "in", "info")
                  [] c = "quit"    -> Closed(e)
                  [] OTHER         -> pipe
  /\ UNCHANGED <<line, doread, ready, nready, main>>

Move(e) ==
  /\ Running /\ eng[e] = "think"
  /\ eng' = [eng EXCEPT ![e] = "idle"]
  /\ pipe' = Write(e, "in", "bestmove")
  /\ UNCHANGED <<cmds, line, doread, ready, nready, main>>

Die(e) ==
  /\ e \in Mortal /\ Running /\ eng[e] # "gone"
  /\ eng' = [eng EXCEPT ![e] = "gone"]
  /\ cmds' = [cmds EXCEPT ![e] = <<>>]
  /\ pipe' = Closed(e)
  /\ UNCHANGED <<line, doread, ready, nready, main>>

-----------------------------------------------------------------------------
(* Reader::worker(): one line is offered until getline() takes it.  The end *)
(* of a stream stays offered.                                               *)

Offer(s) ==
  /\ Running
  /\ doread[s] /\ pipe[s] # <<>>
  /\ IF ready[s] \/ nready = MaxNumChild
     THEN pc' = "internal" /\ UNCHANGED readers
     ELSE /\ line' = [line EXCEPT ![s] = Head(pipe[s])]
          /\ pipe' = [pipe EXCEPT ![s] = Tail(@)]
          /\ doread' = [doread EXCEPT ![s] = FALSE]
          /\ ready' = [ready EXCEPT ![s] = TRUE]
          /\ nready' = nready + 1
          /\ UNCHANGED pc
  /\ UNCHANGED <<eng, cmds, snap, alive, flag, nthinking, wid, nnet, arg, at>>

(* getline() from some streams that offer a line or their end. *)
Lines(S) == {s \in S : line[s] # "eof"}

Fewer_One(S) == nready - (IF S = {} THEN 0 ELSE 1)   \* a mutant
Fewer(S)     == nready - Cardinality(S)

TakeLines(S) ==
  /\ line' = [s \in Stream |-> IF s \in Lines(S) THEN NoLine ELSE line[s]]
  /\ doread' = [s \in Stream |-> doread[s] \/ s \in Lines(S)]
  /\ ready' = [s \in Stream |-> ready[s] /\ s \notin Lines(S)]
  /\ nready' = Fewer(Lines(S))
  /\ UNCHANGED pipe

Offered(e) == {s \in Streams(e) : snap[s]}

(* Child::wait(): the flags are copied, and each copy is used once. *)
Snapshot == snap' = ready
Used     == snap' = [s \in Stream |-> snap[s] /\ s \notin Streams(at)]

-----------------------------------------------------------------------------
(* The main loop and manage_play(). *)

Goto(step) == pc' = step /\ at' = 1

NextEngine(last, step) ==
  IF at = NEngine THEN Goto(step) ELSE pc' = last /\ at' = at + 1

(* The arguments are read, then Child::wait().  Newer networks come, and    *)
(* connections come and go, at any time.                                    *)
Round ==
  /\ pc = "loop"
  /\ arg' \in [conn : BOOLEAN, net : arg.net .. MaxNet]
  /\ Snapshot
  /\ Goto("turn")
  /\ UNCHANGED <<eng, cmds, readers, alive, flag, nthinking, wid, nnet>>

(* A signal ends the loop, and end() begins: "quit" for every engine. *)
Quit ==
  /\ pc = "loop"
  /\ cmds' = [e \in Engine |-> Append(cmds[e], "quit")]
  /\ Goto(IF \E e \in Engine : eng[e] = "gone" THEN "died" ELSE "wait")
  /\ UNCHANGED <<eng, readers, snap, alive, flag, nthinking, wid, nnet, arg>>

(* Whether an engine that is not playing, or not thinking, may be given     *)
(* something to do.                                                         *)
MayStart_Old(f, w) == f.ready /\ wid = arg.net   \* a mutant
MayStart(f, w)     == f.ready /\ w = arg.net

(* start_newgame() and engine_go(), as needed. *)
Started(f, w) ==
  LET p == f.playing \/ (MayStart(f, w) /\ arg.conn) IN
  [f EXCEPT !.playing = p, !.thinking = @ \/ (MayStart(f, w) /\ p)]

Orders(f, w) ==
  (IF Started(f, w).playing # f.playing THEN <<"usinewgame">> ELSE <<>>) \o
  (IF Started(f, w).thinking # f.thinking THEN <<"go">> ELSE <<>>)

Updated_Over(f, l) ==                  \* a mutant: the last move keeps a flag
  CASE l = "usiok"    -> {[f EXCEPT !.ready = TRUE]}
    [] l = "bestmove" -> {[f EXCEPT !.thinking = FALSE], [f EXCEPT !.playing = FALSE]}
    [] OTHER          -> {f}

(* USIEngine::update(): what a line does to the flags; a best move may end  *)
(* the game.                                                                *)
Updated(f, l) ==
  CASE l = "usiok"    -> {[f EXCEPT !.ready = TRUE]}
    [] l = "bestmove" -> {[f EXCEPT !.thinking = FALSE, !.playing = p] :
                            p \in {f.playing, FALSE}}
    [] OTHER          -> {f}

(* Lines an engine should not have written. *)
Bad(f, l) ==
  \/ ~f.ready /\ l # "usiok"
  \/ l = "bestmove" /\ ~f.playing /\ ~f.thinking

Delta_Started(old, new) == IF new.thinking THEN 1 ELSE 0   \* a mutant
Delta(old, new) ==
  (IF new.thinking THEN 1 ELSE 0) - (IF old.thinking THEN 1 ELSE 0)

(* The turn of an engine in a round.  The end of a stream ends the client,  *)
(* after the rest of the engine's lines.                                    *)
TurnEnd ==
  /\ \E s \in Offered(at) : line[s] = "eof"
  /\ TakeLines(Offered(at))
  /\ pc' = "drain" /\ UNCHANGED <<cmds, flag, nthinking, at>>

TurnLine ==
  /\ snap[<<at, "in">>] /\ \A s \in Offered(at) : line[s] # "eof"
  /\ TakeLines(Offered(at))
  /\ LET l == line[<<at, "in">>] IN
     \E f \in Updated(flag[at], l) :
       /\ flag' = [flag EXCEPT ![at] = Started(f, wid)]
       /\ nthinking' = nthinking + Delta(flag[at], Started(f, wid))
       /\ cmds' = [cmds EXCEPT ![at] = @
                     \o (IF l = "usiok" THEN <<"isready">> ELSE <<>>)
                     \o Orders(f, wid)]
       /\ IF Bad(flag[at], l) THEN Goto("internal")
          ELSE IF eng[at] = "gone" /\ cmds' # cmds THEN Goto("died")
          ELSE NextEngine("turn", "update")

TurnNone ==
  /\ ~snap[<<at, "in">>] /\ \A s \in Offered(at) : line[s] # "eof"
  /\ TakeLines(Offered(at))
  /\ NextEngine("turn", "update")
  /\ UNCHANGED <<cmds, flag, nthinking>>

Turn ==
  /\ pc = "turn"
  /\ TurnEnd \/ TurnLine \/ TurnNone
  /\ Used
  /\ UNCHANGED <<eng, alive, wid, nnet, arg>>

Drain ==
  /\ pc = "drain"
  /\ LET S == {s \in Streams(at) : ready[s]} IN
     \/ /\ Lines(S) # {}
        /\ TakeLines(S) /\ UNCHANGED pc
     \/ /\ Lines(S) = {} /\ S = Streams(at)
        /\ pc' = "died" /\ UNCHANGED readers
  /\ UNCHANGED <<eng, cmds, snap, alive, flag, nthinking, wid, nnet, arg, at>>

AtRest == nthinking = 0

(* The end of a round: nnreset(), wait(), and all engines get to know. *)
Update ==
  /\ pc = "update"
  /\ IF wid # arg.net /\ AtRest
     THEN /\ wid' = arg.net /\ nnet' = arg.net
          /\ flag' = [e \in Engine |-> Started(flag[e], wid')]
          /\ cmds' = [e \in Engine |->
                        cmds[e] \o <<"weight">> \o Orders(flag[e], wid')]
          /\ nthinking' = nthinking +
               Cardinality({e \in Engine : Delta(flag[e], flag'[e]) = 1})
          /\ Goto(IF \E e \in Engine : eng[e] = "gone" THEN "died" ELSE "loop")
     ELSE Goto("loop") /\ UNCHANGED <<cmds, flag, nthinking, wid, nnet>>
  /\ UNCHANGED <<eng, readers, snap, alive, arg>>

(* end(): rounds that take lines until both streams of an engine end. *)
Wait ==
  /\ pc = "wait"
  /\ IF alive = {} THEN Goto("done") /\ UNCHANGED snap
     ELSE Snapshot /\ Goto("reap")
  /\ UNCHANGED <<eng, cmds, readers, alive, flag, nthinking, wid, nnet, arg>>

Ended_Unflagged(e) ==               \* a mutant
  \A s \in Streams(e) : ~snap[s] /\ line[s] = "eof"
Ended(e) == \A s \in Streams(e) : snap[s] /\ line[s] = "eof"

(* Child::close() takes back the flags of the two streams. *)
Reap ==
  /\ pc = "reap"
  /\ IF at \in alive /\ Ended(at)
     THEN /\ alive' = alive \ {at}
          /\ ready' = [s \in Stream |-> ready[s] /\ s \notin Streams(at)]
          /\ nready' = Fewer({s \in Streams(at) : ready[s]})
          /\ UNCHANGED <<pipe, line, doread>>
     ELSE /\ TakeLines(IF at \in alive THEN Offered(at) ELSE {})
          /\ UNCHANGED alive
  /\ NextEngine("reap", "wait")
  /\ Used
  /\ UNCHANGED <<eng, cmds, flag, nthinking, wid, nnet, arg>>

Stopped == ~Running /\ UNCHANGED vars

(* After start(): every engine got "usi". *)
Init ==
  /\ eng = [e \in Engine |-> "idle"] /\ cmds = [e \in Engine |-> <<"usi">>]
  /\ pipe = [s \in Stream |-> <<>>] /\ line = [s \in Stream |-> NoLine]
  /\ doread = [s \in Stream |-> TRUE] /\ ready = [s \in Stream |-> FALSE]
  /\ nready = 0 /\ snap = [s \in Stream |-> FALSE]
  /\ alive = Engine
  /\ flag = [e \in Engine |-> [ready |-> FALSE, playing |-> FALSE, thinking |-> FALSE]]
  /\ nthinking = 0 /\ wid = 0 /\ nnet = 0
  /\ arg = [conn |-> TRUE, net |-> 0]
  /\ pc = "loop" /\ at = 1

Main == Round \/ Quit \/ Turn \/ Drain \/ Update \/ Wait \/ Reap

Next ==
  \/ \E e \in Engine : Obey(e) \/ Move(e) \/ Die(e)
  \/ \E s \in Stream : Offer(s)
  \/ Main \/ Stopped

Spec == Init /\ [][Next]_vars

(* Threads run on and engines answer; nothing is assumed of the rest. *)
FairSpec ==
  /\ Spec
  /\ WF_vars(Main)
  /\ \A s \in Stream : WF_vars(Offer(s))
  /\ \A e \in Engine : WF_vars(Obey(e) \/ Move(e))

-----------------------------------------------------------------------------
(* Properties. *)

(* The counter of the table agrees with its flags, and no check of the      *)
(* readers or of update() for an impossible case ends the client, as long   *)
(* as maxnum_child is no less than the number of streams (child.cpp:55-57,  *)
(* 93-94, 145-160, 225-234; play.cpp:417-421).                              *)
NoInternalError ==
  /\ nready = Cardinality({s \in Stream : ready[s]})
  /\ pc # "internal"

(* The engine is thinking, will be, or has been and the best move is unread.*)
Busy(e) ==
  \/ eng[e] = "think" \/ "go" \in ToSet(cmds[e])
  \/ "bestmove" \in ToSet(pipe[<<e, "in">>]) \/ line[<<e, "in">>] = "bestmove"

(* _num_thinking, and the engines' flags, agree with what the engines do,   *)
(* through every order of lines, games and networks, and the counter stays  *)
(* in its range: when it is zero and the network changes, no engine         *)
(* computes (play.cpp:649-673).                                             *)
ThinkingExact ==
  /\ TypeOK
  /\ pc \in {"loop", "turn", "update"} =>
       /\ nthinking = Cardinality({e \in Engine : flag[e].thinking})
       /\ \A e \in Engine : eng[e] # "gone" => flag[e].thinking = Busy(e)

(* An engine in a game gets its next move to think about, and an engine     *)
(* without one gets a game when a new network comes, if there is a          *)
(* connection: the others' moves, and networks that come meanwhile, only    *)
(* delay it (play.cpp:655-657, 669-683).  (Nothing starts an engine whose   *)
(* game ended without a connection before the next network.)                *)
PlaysOn ==
  LET Ends == pc \in {"wait", "died"} \/ \E e \in Engine : eng[e] = "gone" IN
  \A e \in Engine :
    /\ flag[e].playing ~> (flag[e].thinking \/ Ends)
    /\ (flag[e].ready /\ wid # arg.net) ~> (flag[e].thinking \/ Ends \/ ~arg.conn)

(* end() returns: every engine is read to the end of both streams, whatever *)
(* it was doing (play.cpp:608-626).                                         *)
EndReturns == pc = "wait" ~> ~Running
=============================================================================
