------------------------------ MODULE WghtSync ------------------------------
(***************************************************************************)
(* How a network gets from the server to a client: WghtKeep                *)
(* (src/server/datakeep.cpp) finds and publishes it, Listen                *)
(* (src/server/listen.cpp) serves it in blocks to a peer, and the client   *)
(* (src/autousi/client.cpp) keeps the blocks as files, puts them together  *)
(* and plays with the result.  The client's process and the server's may   *)
(* die between any two file operations, a connection may be lost at any    *)
(* moment, and newer networks arrive meanwhile.                            *)
(***************************************************************************)
EXTENDS Integers, FiniteSetsExt

CONSTANTS MaxNet,         \* bound: networks 0 .. MaxNet
          NBlock,         \* blocks of each network
          Aligned,        \* networks whose last block is a full one
          MaxRetry,       \* _max_retry
          MaxFault        \* bound: lost connections and deaths together

Network == 0 .. MaxNet
None    == -1             \* no network: _wght_id and _i64_now before the first

ASSUME NetAssumption   == MaxNet \in Nat
ASSUME BlockAssumption == NBlock \in [Network -> Nat \ {0}]
ASSUME AlignAssumption == Aligned \subseteq Network
ASSUME RetryAssumption == MaxRetry \in Nat /\ MaxFault \in Nat

Block == UNION {0 .. NBlock[n] - 1 : n \in Network}

VARIABLES
  dir,       \* DirWeight: what there is of each network's file
  list,      \* _map_wght and weight-list.cfg
  now,       \* _i64_now
  pwght,     \* _pwght; Listen runs from the moment it is set
  spc,       \* where the weight worker of the server is
  peer,      \* the client's connection and its Peer in the server
  cmd, msg,  \* what is on its way to the server and to the client
  info,      \* info.txt: WeightNo (0 if it cannot be read)
  temp,      \* tmp*.bi_: what each block file holds
  files,     \* w*.txt.xz: networks put together
  pc,        \* where the client is
  boot,      \* the client is in start(), not in reader()
  id,        \* _wght_id
  wght,      \* _wght
  want,      \* no_wght
  flags,     \* flags: blocks that need not be asked for
  fails,     \* retry_count, _retry_count
  faults,    \* lost connections and deaths so far
  tore       \* a client died while it wrote a block

server == <<dir, list, now, pwght, spc>>
wire   == <<peer, cmd, msg>>
disk   == <<info, temp, files>>
memory == <<pc, boot, id, wght, want, flags, fails>>
vars   == <<server, wire, disk, memory, faults, tore>>

NoBlock == [no |-> None, whole |-> FALSE]
NoPeer  == [open |-> FALSE, stat |-> "DoNothing", wght |-> None, iblock |-> 0]
NoMsg   == [type |-> "none", arg |-> 0]
Stats   == {"DoNothing", "SendHeader", "SendInfo", "SendWght"}

Steps == {"down", "connect", "header", "info", "clean", "note", "block",
          "recv", "write", "remove", "install", "idle", "corrupt"}

TypeOK ==
  /\ dir \in [Network -> {"none", "half", "whole"}]
  /\ list \subseteq Network
  /\ now \in Network \cup {None} /\ pwght \in Network \cup {None}
  /\ spc \in {"down", "idle", "list", "publish"}
  /\ peer \in [open : BOOLEAN, stat : Stats, wght : Network \cup {None},
               iblock : Block]
  /\ cmd \in [type : {"none", "info", "wght"}, arg : Block]
  /\ msg \in [type : {"none", "header", "info", "wght"}, arg : Network \cup Block]
  /\ info \in Network
  /\ temp \in [Block -> [no : Network \cup {None}, whole : BOOLEAN]]
  /\ files \subseteq [no : Network, whole : BOOLEAN]
  /\ pc \in Steps /\ boot \in BOOLEAN
  /\ id \in Network \cup {None} /\ wght \in Network \cup {None}
  /\ want \in Network \cup {None}
  /\ flags \subseteq Block
  /\ fails \in 0 .. MaxRetry
  /\ faults \in 0 .. MaxFault /\ tore \in BOOLEAN

-----------------------------------------------------------------------------
(* The server's weight keeper.                                             *)

Upload(n) ==
  /\ dir[n] # "whole"
  /\ \A k \in Network : dir[k] # "none" => k <= n
  /\ dir' = [dir EXCEPT ![n] = IF @ = "none" THEN "half" ELSE "whole"]
  /\ UNCHANGED <<list, now, pwght, spc, wire, disk, memory, faults, tore>>

(* Files whose name and content get_new_wght() accepts. *)
NewFiles_Skip == {n \in Network : n > now + 1 /\ dir[n] = "whole"} \* a mutant
NewFiles      == {n \in Network : n > now /\ dir[n] = "whole"}

(* get_new_wght(), at start() and from the worker: the newest good file. *)
FindWght ==
  /\ spc \in {"down", "idle"} /\ NewFiles # {}
  /\ now' = Max(NewFiles)
  /\ spc' = IF now' \in list THEN "publish" ELSE "list"
  /\ UNCHANGED <<dir, list, pwght, wire, disk, memory, faults, tore>>

ListWght ==
  /\ spc = "list"
  /\ spc' = "publish" /\ list' = list \cup {now}
  /\ UNCHANGED <<dir, now, pwght, wire, disk, memory, faults, tore>>

PublishWght ==
  /\ spc = "publish"
  /\ spc' = "idle" /\ pwght' = now
  /\ UNCHANGED <<dir, list, now, wire, disk, memory, faults, tore>>

-----------------------------------------------------------------------------
(* The server's side of a connection: Listen::wait() and its handlers.     *)

Accept ==
  /\ pc = "connect" /\ pwght # None
  /\ peer' = [NoPeer EXCEPT !.open = TRUE, !.stat = "SendHeader"]
  /\ cmd' = NoMsg /\ msg' = NoMsg
  /\ pc' = "header"
  /\ UNCHANGED <<server, disk, boot, id, wght, want, flags, fails, faults, tore>>

Close == peer' = NoPeer /\ cmd' = NoMsg /\ msg' = NoMsg

(* The network of a connection is fixed by its SendInfo. *)
BlockOf_Newest == pwght             \* a mutant
BlockOf        == peer.wght

(* The block starts beyond the end of the network.  One that starts exactly *)
(* at the end is not beyond it.                                             *)
Beyond(n, b) == b > NBlock[n] \/ (b = NBlock[n] /\ n \notin Aligned)

(* handle_recv(): commands out of place are refused. *)
Refused ==
  \/ peer.stat # "DoNothing"
  \/ cmd.type = "wght" /\ (peer.wght = None \/ Beyond(peer.wght, cmd.arg))

HandleRecv ==
  /\ peer.open /\ cmd # NoMsg
  /\ IF Refused THEN Close
     ELSE /\ peer' = IF cmd.type = "info"
                     THEN [peer EXCEPT !.stat = "SendInfo", !.wght = pwght]
                     ELSE [peer EXCEPT !.stat = "SendWght", !.wght = BlockOf,
                                       !.iblock = cmd.arg]
          /\ cmd' = NoMsg /\ UNCHANGED msg
  /\ UNCHANGED <<server, disk, memory, faults, tore>>

(* handle_send(); a block is on its way with the network it is of (at the   *)
(* end of a network there is none to send: NoEmptyBlock).                   *)
HandleSend ==
  /\ peer.open /\ peer.stat # "DoNothing"
  /\ msg' = CASE peer.stat = "SendHeader" -> [type |-> "header", arg |-> 0]
              [] peer.stat = "SendInfo"   -> [type |-> "info", arg |-> peer.wght]
              [] peer.stat = "SendWght"   -> [type |-> "wght", arg |-> peer.wght]
  /\ peer' = [peer EXCEPT !.stat = "DoNothing"]
  /\ UNCHANGED <<server, cmd, disk, memory, faults, tore>>

(* A time out of the peer (the server closes it TimeoutPlayer seconds after *)
(* it was accepted), a reset, a time out of the client.                     *)
Lose ==
  /\ peer.open /\ faults < MaxFault
  /\ faults' = faults + 1
  /\ Close
  /\ UNCHANGED <<server, disk, memory, tore>>

ServerCrash ==
  /\ spc # "down" /\ faults < MaxFault
  /\ faults' = faults + 1
  /\ now' = None /\ pwght' = None /\ spc' = "down"
  /\ Close
  /\ UNCHANGED <<dir, list, disk, memory, tore>>

-----------------------------------------------------------------------------
(* The client.                                                             *)

Temps == {b \in Block : temp[b] # NoBlock}

Goto(step) == pc' = step /\ UNCHANGED <<boot, id, wght, want, flags, fails>>

(* The end of its process. *)
Gone(step) ==
  /\ pc' = step /\ boot' = FALSE /\ id' = None /\ wght' = None
  /\ want' = None /\ flags' = {} /\ fails' = 0

Decodes_Any(file) == TRUE           \* a mutant
Decodes(file)     == file.whole     \* xzd.decode()

(* grab_max_file() *)
MaxFile == Max({f.no : f \in files} \cup {None})

Readable(n) == \A f \in files : f.no = n => Decodes(f)

(* start(): the newest file is unpacked; the client dies if it is damaged. *)
Start ==
  /\ pc = "down"
  /\ Readable(MaxFile)
  /\ pc' = "connect" /\ boot' = TRUE
  /\ id' = MaxFile /\ wght' = MaxFile
  /\ UNCHANGED <<want, flags, fails, server, wire, disk, faults, tore>>

RecvHeader ==
  /\ pc = "header" /\ msg.type = "header"
  /\ msg' = NoMsg /\ cmd' = [type |-> "info", arg |-> 0]
  /\ Goto("info")
  /\ UNCHANGED <<server, peer, disk, faults, tore>>

(* The block files on disk are of another network. *)
Stale_Older(n) == info > n          \* a mutant
Stale(n)       == info # n

(* get_new_wght() is through: back to reader(). *)
Done ==
  /\ pc' = "idle" /\ boot' = FALSE /\ fails' = 0
  /\ want' = None /\ flags' = {}
  /\ Close

RecvInfo ==
  /\ pc = "info" /\ msg.type = "info"
  /\ LET n == msg.arg IN
     \/ n = id /\ Done /\ UNCHANGED <<id, wght>>
     \/ /\ n # id
        /\ want' = n /\ msg' = NoMsg
        /\ pc' = IF n < id THEN "corrupt"
                 ELSE IF Stale(n) THEN "clean"
                 ELSE IF \E b \in Temps : NBlock[n] <= b THEN "corrupt"
                 ELSE "block"
        /\ flags' = IF Stale(n) THEN {} ELSE Temps
        /\ UNCHANGED <<peer, cmd, boot, id, wght, fails>>
  /\ UNCHANGED <<server, disk, faults, tore>>

(* remove() of the block files, the lowest first: before a download of      *)
(* another network, and after the blocks were put together.                 *)
RemoveTemp ==
  /\ pc \in {"clean", "remove"} /\ Temps # {}
  /\ temp' = [temp EXCEPT ![Min(Temps)] = NoBlock]
  /\ UNCHANGED <<server, wire, info, files, memory, faults, tore>>

(* The file is truncated, then written. *)
OpenInfo ==
  /\ pc = "clean" /\ Temps = {}
  /\ info' = 0
  /\ Goto("note")
  /\ UNCHANGED <<server, wire, temp, files, faults, tore>>

WriteInfo ==
  /\ pc = "note"
  /\ info' = want
  /\ Goto("block")
  /\ UNCHANGED <<server, wire, temp, files, faults, tore>>

Missing_Inclusive == (0 .. NBlock[want]) \ flags        \* a mutant
Missing           == (0 .. NBlock[want] - 1) \ flags

AskBlock ==
  /\ pc = "block" /\ Missing # {} /\ peer.open
  /\ cmd' = [type |-> "wght", arg |-> Min(Missing)]
  /\ Goto("recv")
  /\ UNCHANGED <<server, peer, msg, disk, faults, tore>>

(* The file is created, then written and closed. *)
OpenBlock ==
  /\ pc = "recv" /\ msg.type = "wght"
  /\ temp' = [temp EXCEPT ![Min(Missing)] = [no |-> msg.arg, whole |-> FALSE]]
  /\ msg' = NoMsg
  /\ Goto("write")
  /\ UNCHANGED <<server, peer, cmd, info, files, faults, tore>>

(* A block in start() does not reset start()'s own counter. *)
CloseBlock ==
  /\ pc = "write"
  /\ temp' = [temp EXCEPT ![Min(Missing)].whole = TRUE]
  /\ flags' = flags \cup {Min(Missing)}
  /\ fails' = IF boot THEN fails ELSE 0
  /\ pc' = "block"
  /\ UNCHANGED <<boot, id, wght, want, server, wire, info, files, faults, tore>>

(* The disk is full: the file is removed. *)
BlockFails ==
  /\ pc = "write" /\ faults < MaxFault
  /\ faults' = faults + 1
  /\ temp' = [temp EXCEPT ![Min(Missing)] = NoBlock]
  /\ Gone("down") /\ Close
  /\ UNCHANGED <<server, info, files, tore>>

(* The blocks are copied, in order, into tmp.bi_, which is renamed. *)
GatheredFile ==
  [no |-> want,
   whole |-> \A b \in 0 .. NBlock[want] - 1 : temp[b] = [no |-> want, whole |-> TRUE]]

Gather ==
  /\ pc = "block" /\ Missing = {}
  /\ IF Temps = 0 .. NBlock[want] - 1
     THEN files' = files \cup {GatheredFile} /\ Goto("remove")
     ELSE Goto("corrupt") /\ UNCHANGED files
  /\ UNCHANGED <<server, wire, info, temp, faults, tore>>

(* _wght_id and _wght are set.  The file is unpacked; if that fails the     *)
(* client dies, and every start() after it.                                 *)
Install ==
  /\ pc = "remove" /\ Temps = {}
  /\ IF Readable(want)
     THEN id' = want /\ wght' = want /\ Done
     ELSE Gone("down") /\ Close
  /\ UNCHANGED <<server, disk, faults, tore>>

(* reader(): the next poll. *)
Poll ==
  /\ pc = "idle"
  /\ Goto("connect")
  /\ UNCHANGED <<server, wire, disk, faults, tore>>

GivesUp == MaxRetry < fails + 1

(* An exception: no connection, or it is gone when the client uses it. *)
Fail ==
  /\ \/ pc = "connect" /\ pwght = None
     \/ pc \in {"header", "info", "recv"} /\ ~peer.open
     \/ pc = "block" /\ Missing # {} /\ ~peer.open
  /\ IF GivesUp
     THEN Gone("down")
     ELSE /\ pc' = "connect" /\ fails' = fails + 1
          /\ want' = None /\ flags' = {}
          /\ UNCHANGED <<boot, id, wght>>
  /\ UNCHANGED <<server, wire, disk, faults, tore>>

Crash ==
  /\ pc \notin {"down", "corrupt"} /\ faults < MaxFault
  /\ faults' = faults + 1 /\ tore' = (tore \/ pc = "write")
  /\ Gone("down") /\ Close
  /\ UNCHANGED <<server, disk>>

-----------------------------------------------------------------------------

Init ==
  /\ dir = [n \in Network |-> "none"] /\ list = {}
  /\ now = None /\ pwght = None /\ spc = "down"
  /\ peer = NoPeer /\ cmd = NoMsg /\ msg = NoMsg
  /\ info = 0 /\ temp = [b \in Block |-> NoBlock] /\ files = {}
  /\ pc = "down" /\ boot = FALSE /\ id = None /\ wght = None
  /\ want = None /\ flags = {} /\ fails = 0
  /\ faults = 0 /\ tore = FALSE

KeeperStep == FindWght \/ ListWght \/ PublishWght

ListenStep == HandleRecv \/ HandleSend

ClientStep ==
  \/ Start \/ Accept \/ RecvHeader \/ RecvInfo \/ RemoveTemp \/ OpenInfo
  \/ WriteInfo \/ AskBlock \/ OpenBlock \/ CloseBlock \/ Gather \/ Install
  \/ Poll \/ Fail

Next ==
  \/ \E n \in Network : Upload(n)
  \/ KeeperStep \/ ListenStep \/ ClientStep
  \/ Lose \/ ServerCrash \/ BlockFails \/ Crash

Spec == Init /\ [][Next]_vars

FairSpec ==
  Spec /\ WF_vars(KeeperStep) /\ WF_vars(ListenStep) /\ WF_vars(ClientStep)

-----------------------------------------------------------------------------

Damaged == \E f \in files : ~f.whole

(* A network file is put together from other than the complete blocks of    *)
(* its own network only if a client died while it wrote a block: reconnects,*)
(* restarts and networks that replace each other never mix their blocks     *)
(* (client.cpp:155-211).                                                    *)
DamageNeedsTear == Damaged => tore

(* Whatever happened before, the client does not stop with "Corruption of   *)
(* temporary files. Cleanup files" (client.cpp:136, 167, 210): the checks   *)
(* behind it hold.                                                          *)
NoManualCleanup == TypeOK /\ pc # "corrupt"

(* The server never answers with an empty block: the assertion 0 < len_rest *)
(* of handle_send() (listen.cpp:412) holds.  handle_recv() lets a block pass *)
(* that starts exactly at the end (listen.cpp:511), so it takes the client:  *)
(* it asks only below the number of blocks it was told, of the network the   *)
(* connection was given, whichever network is the newest by then.            *)
NoEmptyBlock == peer.stat = "SendWght" => peer.iblock < NBlock[peer.wght]

(* The client plays only with complete published networks, and never goes   *)
(* back to an older one (client.cpp, datakeep.cpp:334-364).                 *)
Feed == INSTANCE WghtFeed WITH
  published <- list,
  held <- Max({f.no : f \in {g \in files : g.whole}} \cup {None}),
  used <- wght
FeedSpec == Feed!Spec

(* When nothing is lost any more and both sides are started again, the      *)
(* client gets to play with the newest network, however a download was      *)
(* broken off, unless a damaged file keeps it from starting.                *)
EventuallyCurrent ==
  <>[](Damaged \/ \A n \in Network : dir[n] = "whole" => wght >= n)
=============================================================================
