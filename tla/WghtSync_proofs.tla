--------------------------- MODULE WghtSync_proofs --------------------------
(***************************************************************************)
(* Proofs about how a network gets to a client, for every number of        *)
(* networks, every number of blocks of each, and any number of lost        *)
(* connections, deaths and retries.                                        *)
(*                                                                         *)
(* The inductive invariant says of each part what the others rely on: what *)
(* the server has published (ListInv), whose turn it is on a connection    *)
(* (WireInv), that a client knows only published networks and none newer   *)
(* than the server's (KnownInv), what it believes of its files (ClientInv) *)
(* and of its blocks (TempInv).                                            *)
(***************************************************************************)
EXTENDS WghtSync, WellFoundedInduction, TLAPS

(* The client has chosen a network, and has not installed it yet. *)
Loading == {"clean", "note", "block", "recv", "write", "remove"}

(* What is listed is complete and no newer than the newest; between finding *)
(* a network and listing it the keeper is at "list".                        *)
ListInv ==
  /\ \A n \in list : dir[n] = "whole"
  /\ now # None => dir[now] = "whole" /\ \A n \in list : n <= now
  /\ spc = "down" => now = None /\ pwght = None
  /\ spc # "down" => now # None /\ (spc = "list" <=> now \notin list)
  /\ pwght # None => pwght \in list /\ pwght <= now

(* A connection carries one command, or one answer, at a time. *)
OneToken ==
  /\ cmd # NoMsg => peer.stat = "DoNothing" /\ msg = NoMsg
  /\ peer.stat # "DoNothing" => msg = NoMsg

CmdInv ==
  \/ cmd = NoMsg
  \/ cmd.type = "info" /\ pc = "info"
  \/ cmd.type = "wght" /\ pc = "recv"

StatInv ==
  \/ peer.stat = "DoNothing"
  \/ peer.stat = "SendHeader" /\ pc = "header"
  \/ peer.stat = "SendInfo" /\ pc = "info" /\ peer.wght # None
  \/ peer.stat = "SendWght" /\ pc = "recv"

MsgInv ==
  \/ msg = NoMsg
  \/ msg.type = "header" /\ pc = "header"
  \/ msg.type = "info" /\ pc = "info" /\ msg.arg = peer.wght /\ peer.wght # None
  \/ msg.type = "wght" /\ pc = "recv" /\ msg.arg = peer.wght

(* Both sides are at the same step, and mean the same network. *)
WireInv ==
  /\ ~peer.open => peer = NoPeer /\ cmd = NoMsg /\ msg = NoMsg
  /\ peer.open => pwght # None /\ pc \in {"header", "info"} \cup Loading
  /\ OneToken /\ CmdInv /\ StatInv /\ MsgInv
  /\ peer.open /\ pc \in Loading => peer.wght = want

(* What a client knows was published, and a server that runs is not behind. *)
KnownInv ==
  /\ {id, want, peer.wght} \subseteq list \cup {None}
  /\ \A f \in files : f.no \in list
  /\ pwght # None =>
       /\ id <= pwght /\ want <= pwght /\ peer.wght <= pwght
       /\ \A f \in files : f.no <= pwght
  /\ peer.wght # None => id <= peer.wght

(* The client plays with the newest of its files, but for the moment        *)
(* between putting a newer one together and installing it.                  *)
ClientInv ==
  /\ pc # "corrupt" /\ wght = id
  /\ pc \in Loading => want # None /\ id < want
  /\ \A f \in files : f.no <= id \/ pc = "down" \/ (pc = "remove" /\ f.no = want)
  /\ pc = "remove" => \E f \in files : f.no = want

(* A block file is of the network that info.txt names, and is whole unless  *)
(* it is being written or its writer died.                                  *)
BlockInv ==
  \A b \in Temps :
    /\ b < NBlock[info]
    /\ temp[b].no = info
    /\ temp[b].whole \/ tore \/ (pc = "write" /\ b = Min(Missing))

(* The client's flags are the block files that are there. *)
FlagInv ==
  /\ pc \in {"clean", "note"} => flags = {}
  /\ pc = "note" => Temps = {}
  /\ pc \in {"block", "recv", "write", "remove"} => info = want
  /\ pc \in {"block", "recv"} => flags = Temps
  /\ pc \in {"recv", "write"} => Missing # {}
  /\ pc = "write" => Temps = flags \cup {Min(Missing)}

TempInv == BlockInv /\ FlagInv /\ DamageNeedsTear

(* The inductive invariant. *)
IInv == TypeOK /\ ListInv /\ WireInv /\ KnownInv /\ ClientInv /\ TempInv

-----------------------------------------------------------------------------
(* Least and greatest elements. *)

LEMMA MinIs ==
  ASSUME NEW T \in SUBSET Int, NEW m \in T, \A x \in T : m <= x
  PROVE  Min(T) = m
<1>1. \E x \in T : \A y \in T : x <= y
  OBVIOUS
<1>2. Min(T) \in T /\ \A y \in T : Min(T) <= y
  BY <1>1, Zenon DEF Min
<1> DEFINE n == Min(T)
<1>3. n \in Int /\ m \in Int
  BY <1>2
<1>4. n <= m /\ m <= n
  BY <1>2, <1>3
<1> HIDE DEF n
<1>5. n = m
  BY <1>3, <1>4
<1> QED
  BY <1>5 DEF n

LEMMA MinExists ==
  ASSUME NEW T \in SUBSET Nat, T # {}
  PROVE  Min(T) \in T /\ \A x \in T : Min(T) <= x
<1>1. \E m \in T : \A y \in T : ~(<<y, m>> \in OpToRel(<, Nat))
  BY NatLessThanWellFounded, WFMin
<1>2. PICK m \in T : \A y \in T : ~(<<y, m>> \in OpToRel(<, Nat))
  BY <1>1
<1>3. \A y \in T : ~(y < m)
  BY <1>2 DEF OpToRel
<1>4. \A y \in T : m <= y
  BY <1>3
<1>5. Min(T) = m
  BY <1>4, MinIs
<1> QED
  BY <1>4, <1>5

LEMMA MaxIs ==
  ASSUME NEW T \in SUBSET Int, NEW m \in T, \A x \in T : x <= m
  PROVE  Max(T) = m
<1>1. \E x \in T : \A y \in T : x >= y
  OBVIOUS
<1>2. Max(T) \in T /\ \A y \in T : Max(T) >= y
  BY <1>1, Zenon DEF Max
<1> DEFINE n == Max(T)
<1>3. n \in Int /\ m \in Int
  BY <1>2
<1>4. n <= m /\ m <= n
  BY <1>2, <1>3
<1> HIDE DEF n
<1>5. n = m
  BY <1>3, <1>4
<1> QED
  BY <1>5 DEF n

(* A set of networks has a newest one: the least distance to MaxNet. *)
LEMMA MaxExists ==
  ASSUME NEW T \in SUBSET (Network \cup {None}), T # {}
  PROVE  Max(T) \in T /\ \A x \in T : x <= Max(T)
<1> DEFINE D == {d \in Nat : MaxNet - d \in T}
<1>1. MaxNet \in Nat /\ \A x \in T : x \in Int /\ x <= MaxNet
  BY NetAssumption DEF Network, None
<1>2. \A x \in T : MaxNet - x \in D
  BY <1>1
<1>3. D \in SUBSET Nat /\ D # {}
  BY <1>2
<1>4. Min(D) \in D /\ \A d \in D : Min(D) <= d
  BY <1>3, MinExists
<1> DEFINE least == Min(D)
           m == MaxNet - least
<1> HIDE DEF least
<1>5. least \in Nat /\ m \in T /\ \A d \in D : least <= d
  BY <1>4 DEF least
<1>6. \A x \in T : x <= m
  BY <1>1, <1>2, <1>5
<1>7. Max(T) = m
  <2>1. T \in SUBSET Int
    BY <1>1
  <2> HIDE DEF m
  <2> QED
    BY <1>5, <1>6, <2>1, MaxIs DEF m
<1> QED
  BY <1>5, <1>6, <1>7

-----------------------------------------------------------------------------
(* Blocks and files. *)

LEMMA BlockFacts ==
  /\ Block \in SUBSET Nat /\ 0 \in Block
  /\ \A n \in Network : NBlock[n] \in Nat \ {0} /\ 0 .. NBlock[n] - 1 \subseteq Block
<1>1. \A n \in Network : NBlock[n] \in Nat \ {0} /\ 0 .. NBlock[n] - 1 \subseteq Block
  BY BlockAssumption DEF Block
<1>2. 0 \in Network /\ 0 \in 0 .. NBlock[0] - 1
  BY <1>1, NetAssumption DEF Network
<1>3. Block \in SUBSET Nat
  BY BlockAssumption DEF Block
<1> QED
  BY <1>1, <1>2, <1>3

(* The next block to ask for. *)
LEMMA NextBlock ==
  ASSUME want \in Network, Missing # {}
  PROVE  /\ Min(Missing) \in Missing /\ Min(Missing) \in Block
         /\ Min(Missing) \in Nat /\ Min(Missing) < NBlock[want]
         /\ Min(Missing) \notin flags
<1>1. Missing \in SUBSET Nat
  BY BlockFacts DEF Missing
<1>2. Min(Missing) \in Missing
  BY <1>1, MinExists
<1> DEFINE b == Min(Missing)
<1> HIDE DEF b
<1>3. b \in 0 .. NBlock[want] - 1 /\ b \notin flags
  BY <1>2 DEF Missing, b
<1> QED
  BY <1>2, <1>3, BlockFacts DEF b

(* The newest file. *)
LEMMA NewestFile ==
  ASSUME TypeOK
  PROVE  /\ MaxFile \in Network \cup {None}
         /\ MaxFile = None \/ \E f \in files : f.no = MaxFile
         /\ \A f \in files : f.no <= MaxFile
<1> DEFINE T == {f.no : f \in files} \cup {None}
<1>1. T \in SUBSET (Network \cup {None}) /\ T # {}
  BY DEF TypeOK
<1> HIDE DEF T
<1>2. Max(T) \in T /\ \A x \in T : x <= Max(T)
  BY <1>1, MaxExists
<1> QED
  BY <1>1, <1>2 DEF MaxFile, T

-----------------------------------------------------------------------------
(* A part of the invariant holds on while what it speaks of is unchanged.  *)

LEMMA ListFrame ==
  ASSUME ListInv, UNCHANGED server
  PROVE  ListInv'
BY DEF ListInv, server

LEMMA ClientFrame ==
  ASSUME ClientInv, UNCHANGED <<disk, memory>>
  PROVE  ClientInv'
BY DEF ClientInv, disk, memory

LEMMA TempFrame ==
  ASSUME TempInv, UNCHANGED <<disk, memory, tore>>
  PROVE  TempInv'
BY DEF TempInv, BlockInv, FlagInv, DamageNeedsTear, Damaged, Temps, Missing,
       disk, memory

(* A connection that is closed. *)
LEMMA Closed ==
  /\ NoPeer \in [open : BOOLEAN, stat : Stats, wght : Network \cup {None},
                 iblock : Block]
  /\ NoMsg \in [type : {"none", "info", "wght"}, arg : Block]
  /\ NoMsg \in [type : {"none", "header", "info", "wght"}, arg : Network \cup Block]
BY BlockFacts DEF NoPeer, NoMsg, Stats

LEMMA CloseWire == ASSUME Close PROVE WireInv'
BY DEF Close, WireInv, OneToken, CmdInv, StatInv, MsgInv, NoPeer, NoMsg

LEMMA CloseKnown ==
  ASSUME TypeOK, KnownInv, Close, UNCHANGED <<server, files, id, want>>
  PROVE  KnownInv'
<1>1. peer'.wght = None /\ \A n \in Network : None <= n
  BY NetAssumption DEF Close, NoPeer, None, Network
<1> QED
  BY <1>1 DEF TypeOK, KnownInv, server

LEMMA InitInv == Init => IInv
<1> SUFFICES ASSUME Init PROVE IInv
  OBVIOUS
<1>1. TypeOK
  <2>1. 0 \in Network /\ NoBlock \in [no : Network \cup {None}, whole : BOOLEAN]
    BY NetAssumption DEF Network, NoBlock
  <2>2. 0 \in 0 .. MaxRetry /\ 0 \in 0 .. MaxFault
    BY RetryAssumption
  <2> QED
    BY <2>1, <2>2, Closed DEF Init, TypeOK, Steps
<1>2. ListInv /\ WireInv /\ KnownInv /\ ClientInv
  BY DEF Init, ListInv, WireInv, OneToken, CmdInv, StatInv, MsgInv, KnownInv,
         ClientInv, NoPeer, NoMsg, Loading, None
<1>3. TempInv
  BY DEF Init, TempInv, BlockInv, FlagInv, DamageNeedsTear, Damaged, Temps
<1> QED
  BY <1>1, <1>2, <1>3 DEF IInv

-----------------------------------------------------------------------------
(* The server. *)

LEMMA UploadStep == ASSUME IInv, NEW n \in Network, Upload(n) PROVE IInv'
<1>1. TypeOK'
  BY DEF IInv, TypeOK, Upload, server, wire, disk, memory
<1>2. ListInv'
  BY DEF IInv, TypeOK, ListInv, Upload
<1>3. WireInv' /\ KnownInv'
  BY DEF IInv, WireInv, OneToken, CmdInv, StatInv, MsgInv, KnownInv, Upload,
         wire, disk, memory
<1>4. ClientInv' /\ TempInv'
  BY ClientFrame, TempFrame DEF IInv, Upload
<1> QED
  BY <1>1, <1>2, <1>3, <1>4 DEF IInv

LEMMA FindWghtStep == ASSUME IInv, FindWght PROVE IInv'
<1>1. NewFiles \in SUBSET (Network \cup {None}) /\ NewFiles # {}
  BY DEF FindWght, NewFiles
<1> DEFINE m == Max(NewFiles)
<1>2. m \in NewFiles /\ \A x \in NewFiles : x <= m
  BY <1>1, MaxExists
<1>3. now' = m /\ spc' = IF now' \in list THEN "publish" ELSE "list"
  BY DEF FindWght
<1> HIDE DEF m
<1>4. m \in Network /\ now < m /\ dir[m] = "whole"
      /\ \A n \in Network : dir[n] = "whole" /\ now < n => n <= m
  BY <1>2 DEF NewFiles, IInv, TypeOK, Network, None
<1>5. TypeOK'
  BY <1>3, <1>4 DEF IInv, TypeOK, FindWght, server, wire, disk, memory
<1>6. ListInv'
  <2>1. \A n \in list : n \in Network /\ dir[n] = "whole"
    BY DEF IInv, TypeOK, ListInv
  <2>2. now \in Int /\ \A n \in list : n \in Int /\ n <= m
    BY <1>4, <2>1 DEF IInv, TypeOK, Network, None
  <2> QED
    BY <1>3, <1>4, <2>1, <2>2
       DEF IInv, TypeOK, ListInv, FindWght, Network, None
<1>7. WireInv' /\ KnownInv'
  BY DEF IInv, WireInv, OneToken, CmdInv, StatInv, MsgInv, KnownInv, FindWght,
         wire, disk, memory
<1>8. ClientInv' /\ TempInv'
  BY ClientFrame, TempFrame DEF IInv, FindWght
<1> QED
  BY <1>5, <1>6, <1>7, <1>8 DEF IInv

LEMMA ListWghtStep == ASSUME IInv, ListWght PROVE IInv'
<1>1. TypeOK'
  BY DEF IInv, TypeOK, ListInv, ListWght, server, wire, disk, memory
<1>2. ListInv'
  BY DEF IInv, TypeOK, ListInv, ListWght, Network, None
<1>3. WireInv' /\ KnownInv'
  BY DEF IInv, WireInv, OneToken, CmdInv, StatInv, MsgInv, KnownInv, ListWght,
         wire, disk, memory
<1>4. ClientInv' /\ TempInv'
  BY ClientFrame, TempFrame DEF IInv, ListWght
<1> QED
  BY <1>1, <1>2, <1>3, <1>4 DEF IInv

LEMMA PublishWghtStep == ASSUME IInv, PublishWght PROVE IInv'
<1>1. TypeOK'
  BY DEF IInv, TypeOK, PublishWght, server, wire, disk, memory
<1>2. ListInv'
  BY DEF IInv, TypeOK, ListInv, PublishWght, Network, None
<1>3. WireInv'
  BY DEF IInv, TypeOK, ListInv, WireInv, OneToken, CmdInv, StatInv, MsgInv,
         PublishWght, wire, disk, memory
<1>4. KnownInv'
  <2>1. now \in list /\ \A n \in list : n <= now
    BY DEF IInv, ListInv, PublishWght
  <2> QED
    BY <2>1 DEF IInv, TypeOK, KnownInv, PublishWght, wire, disk, memory,
                Network, None
<1>5. ClientInv' /\ TempInv'
  BY ClientFrame, TempFrame DEF IInv, PublishWght
<1> QED
  BY <1>1, <1>2, <1>3, <1>4, <1>5 DEF IInv

LEMMA ServerCrashStep == ASSUME IInv, ServerCrash PROVE IInv'
<1>1. TypeOK'
  BY Closed, RetryAssumption
     DEF IInv, TypeOK, ServerCrash, Close, disk, memory
<1>2. ListInv'
  BY DEF IInv, ListInv, ServerCrash
<1>3. WireInv' /\ KnownInv'
  BY DEF IInv, WireInv, OneToken, CmdInv, StatInv, MsgInv, KnownInv, ServerCrash,
         Close, NoPeer, NoMsg, disk, memory
<1>4. ClientInv' /\ TempInv'
  BY ClientFrame, TempFrame DEF IInv, ServerCrash
<1> QED
  BY <1>1, <1>2, <1>3, <1>4 DEF IInv

LEMMA LoseStep == ASSUME IInv, Lose PROVE IInv'
<1>1. TypeOK'
  BY Closed, RetryAssumption
     DEF IInv, TypeOK, Lose, Close, server, disk, memory
<1>2. ListInv' /\ ClientInv' /\ TempInv'
  BY ListFrame, ClientFrame, TempFrame DEF IInv, Lose
<1>3. WireInv' /\ KnownInv'
  BY CloseWire, CloseKnown DEF IInv, Lose, disk, memory
<1> QED
  BY <1>1, <1>2, <1>3 DEF IInv

-----------------------------------------------------------------------------
(* The connection. *)

LEMMA AcceptStep == ASSUME IInv, Accept PROVE IInv'
<1>1. peer' = [NoPeer EXCEPT !.open = TRUE, !.stat = "SendHeader"]
      /\ cmd' = NoMsg /\ msg' = NoMsg /\ pc = "connect" /\ pc' = "header"
      /\ pwght # None
  BY DEF Accept
<1>2. TypeOK'
  <2>1. peer' \in [open : BOOLEAN, stat : Stats, wght : Network \cup {None},
                   iblock : Block]
    BY <1>1, Closed DEF Stats
  <2> QED
    BY <1>1, <2>1, Closed DEF IInv, TypeOK, Accept, server, disk, Steps
<1>3. ListInv'
  BY ListFrame DEF IInv, Accept
<1>4. WireInv' /\ KnownInv'
  <2>1. peer'.open /\ peer'.wght = None /\ peer'.stat = "SendHeader"
    BY <1>1 DEF NoPeer
  <2> QED
    BY <1>1, <2>1 DEF IInv, WireInv, OneToken, CmdInv, StatInv, MsgInv,
       KnownInv, Accept, server, disk, Loading, TypeOK, Network, None
<1>5. ClientInv' /\ TempInv'
  BY DEF IInv, ClientInv, TempInv, BlockInv, FlagInv, DamageNeedsTear, Damaged,
         Temps, Accept, disk, Loading
<1> QED
  BY <1>2, <1>3, <1>4, <1>5 DEF IInv

LEMMA HandleRecvStep == ASSUME IInv, HandleRecv PROVE IInv'
<1>1. ListInv' /\ ClientInv' /\ TempInv'
  BY ListFrame, ClientFrame, TempFrame DEF IInv, HandleRecv
<1>2. CASE Refused
  <2>1. Close
    BY <1>2 DEF HandleRecv
  <2>2. TypeOK'
    BY <2>1, Closed DEF IInv, TypeOK, HandleRecv, Close, server, disk, memory
  <2>3. WireInv' /\ KnownInv'
    BY <2>1, CloseWire, CloseKnown DEF IInv, HandleRecv, disk, memory
  <2> QED
    BY <1>1, <2>2, <2>3 DEF IInv
<1>3. CASE ~Refused /\ cmd.type = "info"
  <2>1. /\ peer.open /\ cmd # NoMsg /\ peer.stat = "DoNothing"
        /\ peer' = [peer EXCEPT !.stat = "SendInfo", !.wght = pwght]
        /\ cmd' = NoMsg /\ msg' = msg
    BY <1>3 DEF HandleRecv, Refused
  <2>2. TypeOK'
    <3>1. peer' \in [open : BOOLEAN, stat : Stats, wght : Network \cup {None},
                     iblock : Block]
      BY <2>1 DEF IInv, TypeOK, Stats
    <3>2. UNCHANGED <<server, msg, disk, memory, faults, tore>>
      BY <2>1 DEF HandleRecv
    <3> QED
      BY <2>1, <3>1, <3>2, Closed DEF IInv, TypeOK, server, disk, memory
  <2>3. /\ peer'.open /\ peer'.stat = "SendInfo" /\ peer'.wght = pwght
        /\ msg = NoMsg /\ pwght # None /\ pc = "info"
    BY <1>3, <2>1 DEF IInv, TypeOK, WireInv, OneToken, CmdInv, NoMsg
  <2>4. WireInv'
    BY <2>1, <2>3 DEF IInv, WireInv, OneToken, CmdInv, StatInv, MsgInv,
       HandleRecv, server, disk, memory, Loading
  <2>5. KnownInv'
    BY <2>1, <2>3 DEF IInv, KnownInv, ListInv, TypeOK, HandleRecv,
       server, disk, memory, Network
  <2> QED
    BY <1>1, <2>2, <2>4, <2>5 DEF IInv
<1>4. CASE ~Refused /\ cmd.type # "info"
  <2>1. /\ peer.open /\ cmd # NoMsg /\ peer.stat = "DoNothing"
        /\ peer' = [peer EXCEPT !.stat = "SendWght", !.wght = peer.wght,
                                !.iblock = cmd.arg]
        /\ cmd' = NoMsg /\ msg' = msg
    BY <1>4 DEF HandleRecv, Refused, BlockOf
  <2>2. TypeOK'
    <3>1. peer' \in [open : BOOLEAN, stat : Stats, wght : Network \cup {None},
                     iblock : Block]
      BY <2>1 DEF IInv, TypeOK, Stats
    <3>2. UNCHANGED <<server, msg, disk, memory, faults, tore>>
      BY <2>1 DEF HandleRecv
    <3> QED
      BY <2>1, <3>1, <3>2, Closed DEF IInv, TypeOK, server, disk, memory
  <2>3. /\ peer'.open /\ peer'.stat = "SendWght" /\ peer'.wght = peer.wght
        /\ msg = NoMsg /\ pc = "recv"
    BY <1>4, <2>1 DEF IInv, TypeOK, WireInv, OneToken, CmdInv, NoMsg
  <2>4. WireInv' /\ KnownInv'
    BY <2>1, <2>3 DEF IInv, WireInv, OneToken, CmdInv, StatInv, MsgInv,
       HandleRecv, KnownInv, server, disk, memory, Loading
  <2> QED
    BY <1>1, <2>2, <2>4 DEF IInv
<1> QED
  BY <1>2, <1>3, <1>4

LEMMA HandleSendStep == ASSUME IInv, HandleSend PROVE IInv'
<1>1. ListInv' /\ ClientInv' /\ TempInv'
  BY ListFrame, ClientFrame, TempFrame DEF IInv, HandleSend
<1>2. /\ peer.open /\ peer.stat # "DoNothing" /\ msg = NoMsg /\ cmd = NoMsg
      /\ peer' = [peer EXCEPT !.stat = "DoNothing"] /\ cmd' = cmd
  BY DEF IInv, WireInv, OneToken, HandleSend
<1>3. \/ peer.stat = "SendHeader" /\ msg' = [type |-> "header", arg |-> 0]
      \/ peer.stat = "SendInfo" /\ msg' = [type |-> "info", arg |-> peer.wght]
      \/ peer.stat = "SendWght" /\ msg' = [type |-> "wght", arg |-> peer.wght]
  BY <1>2 DEF IInv, WireInv, StatInv, HandleSend
<1>4. /\ peer.stat = "SendHeader" => pc = "header"
      /\ peer.stat = "SendInfo" => pc = "info" /\ peer.wght \in Network
      /\ peer.stat = "SendWght" => pc = "recv" /\ peer.wght \in Network
  BY <1>2 DEF IInv, TypeOK, WireInv, StatInv, ClientInv, Loading
<1>5. TypeOK'
  BY <1>2, <1>3, <1>4, BlockFacts
     DEF IInv, TypeOK, HandleSend, server, disk, memory, Stats
<1>6. WireInv' /\ KnownInv'
  BY <1>2, <1>3, <1>4 DEF IInv, TypeOK, WireInv, OneToken, CmdInv, StatInv, MsgInv,
       HandleSend, KnownInv, server, disk, memory, Loading, Network, None
<1> QED
  BY <1>1, <1>5, <1>6 DEF IInv

-----------------------------------------------------------------------------
(* The client. *)

LEMMA StartStep == ASSUME IInv, Start PROVE IInv'
<1>1. ~peer.open /\ peer.wght = None
  BY DEF IInv, WireInv, Start, Loading, NoPeer
<1>2. MaxFile \in Network \cup {None}
  BY NewestFile DEF IInv
<1>3. \A f \in files : f.no <= MaxFile
  BY NewestFile DEF IInv
<1>4. MaxFile \in list \cup {None}
  BY NewestFile DEF IInv, KnownInv
<1>5. pwght # None => MaxFile <= pwght
  <2>1. MaxFile = None \/ \E f \in files : f.no = MaxFile
    BY NewestFile DEF IInv
  <2> QED
    BY <2>1, NetAssumption DEF IInv, TypeOK, KnownInv, None, Network
<1>6. TypeOK'
  BY <1>2 DEF IInv, TypeOK, Start, server, wire, disk, Steps
<1>7. ListInv'
  BY ListFrame DEF IInv, Start
<1>8. WireInv' /\ KnownInv'
  BY <1>1, <1>4, <1>5 DEF IInv, WireInv, OneToken, CmdInv, StatInv, MsgInv,
     NoMsg, NoPeer, KnownInv, Start, server, wire, disk
<1>9. ClientInv' /\ TempInv'
  BY <1>3 DEF IInv, ClientInv, TempInv, BlockInv, FlagInv, DamageNeedsTear,
     Damaged, Temps, Start, disk, Loading
<1> QED
  BY <1>6, <1>7, <1>8, <1>9 DEF IInv

LEMMA RecvHeaderStep == ASSUME IInv, RecvHeader PROVE IInv'
<1>1. /\ pc = "header" /\ pc' = "info" /\ peer.open /\ peer.stat = "DoNothing"
      /\ msg' = NoMsg /\ cmd' = [type |-> "info", arg |-> 0] /\ peer' = peer
      /\ UNCHANGED <<boot, id, wght, want, flags, fails>>
  BY DEF IInv, WireInv, OneToken, NoMsg, RecvHeader, Goto
<1>2. TypeOK'
  BY <1>1, Closed, BlockFacts DEF IInv, TypeOK, RecvHeader, server, disk, Steps
<1>3. ListInv'
  BY ListFrame DEF IInv, RecvHeader
<1>4. WireInv' /\ KnownInv'
  BY <1>1 DEF IInv, WireInv, OneToken, CmdInv, StatInv, MsgInv, KnownInv,
     RecvHeader, server, disk, Loading
<1>5. ClientInv' /\ TempInv'
  BY <1>1 DEF IInv, ClientInv, TempInv, BlockInv, FlagInv, DamageNeedsTear,
     Damaged, Temps, RecvHeader, disk, Loading
<1> QED
  BY <1>2, <1>3, <1>4, <1>5 DEF IInv

(* The client has what it needs, and closes: back to reader(). *)
LEMMA DoneTypes ==
  ASSUME Done
  PROVE  /\ pc' \in Steps /\ boot' \in BOOLEAN /\ want' \in Network \cup {None}
         /\ flags' \subseteq Block /\ fails' \in 0 .. MaxRetry
         /\ peer' = NoPeer /\ cmd' = NoMsg /\ msg' = NoMsg
<1>1. 0 \in 0 .. MaxRetry
  BY RetryAssumption
<1> QED
  BY <1>1 DEF Done, Close, Steps

LEMMA RecvInfoStep == ASSUME IInv, RecvInfo PROVE IInv'
<1>1. /\ pc = "info" /\ msg.arg = peer.wght /\ peer.wght \in Network
      /\ peer.open /\ peer.stat = "DoNothing" /\ cmd = NoMsg
      /\ UNCHANGED <<server, disk, faults, tore>>
  BY DEF IInv, TypeOK, WireInv, OneToken, MsgInv, NoMsg, RecvInfo
<1>2. ListInv'
  BY ListFrame DEF IInv, RecvInfo
<1>3. CASE peer.wght = id /\ Done /\ UNCHANGED <<id, wght>>
  <2>1. TypeOK'
    BY <1>1, <1>3, Closed, DoneTypes DEF IInv, TypeOK, server, disk
  <2>2. WireInv' /\ KnownInv'
    <3>1. KnownInv'
      BY <1>1, <1>3, NetAssumption DEF IInv, TypeOK, KnownInv, Done, Close,
         NoPeer, server, disk, None, Network
    <3> QED
      BY <1>3, <3>1, CloseWire DEF Done
  <2>3. ClientInv' /\ TempInv'
    BY <1>1, <1>3 DEF IInv, ClientInv, TempInv, BlockInv, FlagInv,
       DamageNeedsTear, Damaged, Temps, Done, disk, Loading
  <2> QED
    BY <1>2, <2>1, <2>2, <2>3 DEF IInv
<1>4. CASE ~(peer.wght = id /\ Done /\ UNCHANGED <<id, wght>>)
  <2> DEFINE n == peer.wght
  <2>1. /\ n # id /\ want' = n /\ msg' = NoMsg
        /\ pc' = IF n < id THEN "corrupt"
                 ELSE IF Stale(n) THEN "clean"
                 ELSE IF \E b \in Temps : NBlock[n] <= b THEN "corrupt"
                 ELSE "block"
        /\ flags' = IF Stale(n) THEN {} ELSE Temps
        /\ UNCHANGED <<peer, cmd, boot, id, wght, fails>>
    BY <1>1, <1>4 DEF RecvInfo
  <2>2. id < n
    BY <1>1, <2>1 DEF IInv, TypeOK, KnownInv, Network, None
  <2>3. ~Stale(n) => info = n /\ ~\E b \in Temps : NBlock[n] <= b
    BY BlockFacts DEF Stale, IInv, TempInv, BlockInv, Temps, TypeOK
  <2>4. /\ pc' = IF Stale(n) THEN "clean" ELSE "block"
        /\ ~(n < id)
    <3>1. ~(n < id)
      BY <1>1, <2>2 DEF IInv, TypeOK, Network, None
    <3> QED
      BY <2>1, <2>3, <3>1
  <2>5. Temps \subseteq Block
    BY DEF Temps
  <2>6. TypeOK'
    BY <1>1, <2>1, <2>4, <2>5, Closed
       DEF IInv, TypeOK, server, disk, Steps
  <2>7. WireInv' /\ KnownInv'
    BY <1>1, <2>1, <2>4 DEF IInv, TypeOK, WireInv, OneToken, CmdInv, StatInv,
       MsgInv, KnownInv, NoMsg, server, disk, Loading, Network, None
  <2>8. ClientInv'
    BY <1>1, <2>1, <2>2, <2>4 DEF IInv, ClientInv, disk, Loading, None, Network
  <2>9. TempInv'
    BY <1>1, <2>1, <2>3, <2>4 DEF IInv, TempInv, BlockInv, FlagInv,
       DamageNeedsTear, Damaged, Temps, disk
  <2> QED
    BY <1>2, <2>6, <2>7, <2>8, <2>9 DEF IInv
<1> QED
  BY <1>3, <1>4

(* While the connection is silent and the client goes on loading, both      *)
(* sides still mean the same network.                                       *)
LEMMA LoadingWire ==
  ASSUME WireInv, pc \in Loading \ {"recv"}, pc' \in Loading \ {"recv"},
         UNCHANGED <<server, wire, want>>
  PROVE  WireInv'
BY DEF WireInv, OneToken, CmdInv, StatInv, MsgInv, Loading, server, wire

LEMMA KnownFrame ==
  ASSUME KnownInv, UNCHANGED <<server, peer, files, id, want>>
  PROVE  KnownInv'
BY DEF KnownInv, server

LEMMA RemoveTempStep == ASSUME IInv, RemoveTemp PROVE IInv'
<1> DEFINE b == Min(Temps)
<1>1. b \in Temps /\ b \in Block
  <2>1. Temps \in SUBSET Nat /\ Temps # {}
    BY BlockFacts DEF Temps, RemoveTemp
  <2> QED
    BY <2>1, MinExists DEF Temps
<1>2. /\ pc \in {"clean", "remove"} /\ temp' = [temp EXCEPT ![b] = NoBlock]
      /\ UNCHANGED <<server, wire, info, files, memory, faults, tore>>
  BY DEF RemoveTemp
<1> HIDE DEF b
<1>3. TypeOK'
  BY <1>1, <1>2 DEF IInv, TypeOK, server, wire, memory, NoBlock
<1>4. ListInv' /\ WireInv' /\ KnownInv'
  BY <1>2, ListFrame, LoadingWire, KnownFrame
     DEF IInv, Loading, memory, wire
<1>5. ClientInv'
  BY <1>2 DEF IInv, ClientInv, memory
<1>6. TempInv'
  <2>1. Temps' \subseteq Temps /\ \A c \in Temps' : temp'[c] = temp[c]
    BY <1>1, <1>2 DEF IInv, TypeOK, Temps
  <2> QED
    BY <1>2, <2>1 DEF IInv, TempInv, BlockInv, FlagInv, DamageNeedsTear,
       Damaged, memory
<1> QED
  BY <1>3, <1>4, <1>5, <1>6 DEF IInv

LEMMA OpenInfoStep == ASSUME IInv, OpenInfo PROVE IInv'
<1>1. TypeOK'
  BY NetAssumption
     DEF IInv, TypeOK, OpenInfo, Goto, server, wire, Steps, Network
<1>2. ListInv' /\ WireInv' /\ KnownInv'
  BY ListFrame, LoadingWire, KnownFrame DEF IInv, OpenInfo, Goto, Loading, wire
<1>3. ClientInv' /\ TempInv'
  BY DEF IInv, ClientInv, TempInv, BlockInv, FlagInv, DamageNeedsTear, Damaged,
         Temps, OpenInfo, Goto, Loading
<1> QED
  BY <1>1, <1>2, <1>3 DEF IInv

LEMMA WriteInfoStep == ASSUME IInv, WriteInfo PROVE IInv'
<1>1. TypeOK'
  BY DEF IInv, TypeOK, ClientInv, WriteInfo, Goto, server, wire, Steps, Loading
<1>2. ListInv' /\ WireInv' /\ KnownInv'
  BY ListFrame, LoadingWire, KnownFrame DEF IInv, WriteInfo, Goto, Loading, wire
<1>3. ClientInv' /\ TempInv'
  BY DEF IInv, ClientInv, TempInv, BlockInv, FlagInv, DamageNeedsTear, Damaged,
         Temps, WriteInfo, Goto, Loading
<1> QED
  BY <1>1, <1>2, <1>3 DEF IInv

LEMMA AskBlockStep == ASSUME IInv, AskBlock PROVE IInv'
<1>1. want \in Network /\ Min(Missing) \in Block
  BY NextBlock DEF IInv, TypeOK, ClientInv, AskBlock, Loading
<1>2. /\ pc = "block" /\ pc' = "recv" /\ peer.open
      /\ cmd'.type = "wght"
      /\ cmd' \in [type : {"none", "info", "wght"}, arg : Block]
      /\ UNCHANGED <<boot, id, wght, want, flags, fails>>
      /\ UNCHANGED <<server, peer, msg, disk, faults, tore>>
  BY <1>1 DEF AskBlock, Goto
<1>3. TypeOK'
  BY <1>2 DEF IInv, TypeOK, server, disk, Steps
<1>4. ListInv' /\ KnownInv'
  BY <1>2, ListFrame, KnownFrame DEF IInv, disk
<1>5. WireInv'
  BY <1>2 DEF IInv, WireInv, OneToken, CmdInv, StatInv, MsgInv, server, disk,
     Loading
<1>6. ClientInv'
  BY <1>2 DEF IInv, ClientInv, disk, Loading
<1>7. TempInv'
  <2>1. Missing' = Missing /\ Temps' = Temps /\ Missing # {}
    BY <1>2 DEF AskBlock, Missing, Temps, disk
  <2> QED
    BY <1>2, <2>1 DEF IInv, TempInv, BlockInv, FlagInv, DamageNeedsTear,
       Damaged, disk
<1> QED
  BY <1>3, <1>4, <1>5, <1>6, <1>7 DEF IInv

LEMMA OpenBlockStep == ASSUME IInv, OpenBlock PROVE IInv'
<1> DEFINE b == Min(Missing)
<1>1. /\ pc = "recv" /\ msg.type = "wght"
      /\ temp' = [temp EXCEPT ![b] = [no |-> msg.arg, whole |-> FALSE]]
      /\ msg' = NoMsg /\ pc' = "write"
      /\ UNCHANGED <<boot, id, wght, want, flags, fails>>
      /\ UNCHANGED <<server, peer, cmd, info, files, faults, tore>>
  BY DEF OpenBlock, Goto
<1>2. want \in Network /\ Missing # {} /\ info = want
  BY <1>1 DEF IInv, TypeOK, ClientInv, TempInv, FlagInv, Loading
<1>3. b \in Block /\ b \in Nat /\ b < NBlock[want]
  BY <1>2, NextBlock
<1> HIDE DEF b
<1>4. peer.open /\ msg.arg = want /\ cmd = NoMsg /\ peer.stat = "DoNothing"
  BY <1>1 DEF IInv, WireInv, OneToken, MsgInv, NoMsg, Loading
<1>5. TypeOK'
  BY <1>1, <1>2, <1>3, <1>4, Closed DEF IInv, TypeOK, server, Steps
<1>6. ListInv' /\ KnownInv'
  BY <1>1, ListFrame, KnownFrame DEF IInv
<1>7. WireInv'
  BY <1>1, <1>4 DEF IInv, WireInv, OneToken, CmdInv, StatInv, MsgInv, server,
     Loading
<1>8. ClientInv'
  BY <1>1 DEF IInv, ClientInv, Loading
<1>9. TempInv'
  <2>1. Temps' = Temps \cup {b} /\ \A c \in Temps : c # b => temp'[c] = temp[c]
    BY <1>1, <1>2, <1>3, <1>4 DEF IInv, TypeOK, Temps, NoBlock, Network, None
  <2>2. Missing' = Missing /\ temp'[b] = [no |-> want, whole |-> FALSE]
    BY <1>1, <1>3, <1>4 DEF IInv, TypeOK, Missing
  <2>3. b = Min(Missing)'
    BY <2>2 DEF b
  <2>4. BlockInv'
    BY <1>1, <1>2, <1>3, <2>1, <2>2, <2>3 DEF IInv, TempInv, BlockInv
  <2>5. FlagInv'
    BY <1>1, <1>2, <2>1, <2>2, <2>3 DEF IInv, TempInv, FlagInv
  <2> QED
    BY <1>1, <2>4, <2>5 DEF IInv, TempInv, DamageNeedsTear, Damaged
<1> QED
  BY <1>5, <1>6, <1>7, <1>8, <1>9 DEF IInv

LEMMA CloseBlockStep == ASSUME IInv, CloseBlock PROVE IInv'
<1> DEFINE b == Min(Missing)
<1>1. /\ pc = "write" /\ temp' = [temp EXCEPT ![b].whole = TRUE]
      /\ flags' = flags \cup {b} /\ pc' = "block"
      /\ fails' = IF boot THEN fails ELSE 0
      /\ UNCHANGED <<boot, id, wght, want, server, wire, info, files, faults, tore>>
  BY DEF CloseBlock
<1>2. want \in Network /\ Missing # {} /\ info = want /\ Temps = flags \cup {b}
  BY <1>1 DEF IInv, TypeOK, ClientInv, TempInv, FlagInv, Loading
<1>3. b \in Block /\ b \in Temps
  BY <1>2, NextBlock
<1> HIDE DEF b
<1>4. TypeOK'
  <2>1. fails' \in 0 .. MaxRetry
    BY <1>1, RetryAssumption DEF IInv, TypeOK
  <2>2. temp' \in [Block -> [no : Network \cup {None}, whole : BOOLEAN]]
    BY <1>1, <1>3 DEF IInv, TypeOK
  <2>3. flags' \subseteq Block /\ pc' \in Steps
    BY <1>1, <1>3 DEF IInv, TypeOK, Steps
  <2> QED
    BY <1>1, <2>1, <2>2, <2>3 DEF IInv, TypeOK, server, wire
<1>5. ListInv' /\ KnownInv' /\ WireInv'
  BY <1>1, ListFrame, KnownFrame, LoadingWire DEF IInv, wire, Loading
<1>6. ClientInv'
  BY <1>1 DEF IInv, ClientInv, Loading
<1>7. TempInv'
  <2>1. /\ temp'[b] = [temp[b] EXCEPT !.whole = TRUE]
        /\ \A c \in Block : c # b => temp'[c] = temp[c]
    BY <1>1, <1>3 DEF IInv, TypeOK
  <2>2. temp'[b].no = temp[b].no /\ temp'[b].whole
    BY <1>3, <2>1 DEF IInv, TypeOK
  <2>3. Temps' = Temps
    BY <1>3, <2>1, <2>2 DEF Temps, NoBlock
  <2>4. BlockInv'
    <3>1. \A c \in Temps : c # b => temp[c].whole \/ tore
      BY <1>1 DEF IInv, TempInv, BlockInv, b
    <3>2. \A c \in Temps : c < NBlock[info] /\ temp[c].no = info
      BY DEF IInv, TempInv, BlockInv
    <3>3. Temps \subseteq Block
      BY DEF Temps
    <3> QED
      BY <1>1, <2>1, <2>2, <2>3, <3>1, <3>2, <3>3 DEF BlockInv
  <2>5. FlagInv'
    BY <1>1, <1>2, <2>3 DEF IInv, TempInv, FlagInv
  <2> QED
    BY <1>1, <2>4, <2>5 DEF IInv, TempInv, DamageNeedsTear, Damaged
<1> QED
  BY <1>4, <1>5, <1>6, <1>7 DEF IInv

(* Every block is there when none is missing: they are put together, and    *)
(* the result is damaged only if one of them was torn.                      *)
LEMMA GatherFile ==
  ASSUME IInv, Gather
  PROVE  /\ want \in Network /\ id < want /\ GatheredFile.no = want
         /\ GatheredFile \in [no : Network, whole : BOOLEAN]
         /\ files' = files \cup {GatheredFile}
         /\ pc' = "remove" /\ UNCHANGED <<boot, id, wght, want, flags, fails>>
         /\ (GatheredFile.whole \/ tore)
<1>1. want \in Network /\ id < want /\ info = want /\ flags = Temps
  BY DEF IInv, TypeOK, ClientInv, TempInv, FlagInv, Gather, Loading
<1>2. Temps = 0 .. NBlock[want] - 1
  <2>1. 0 .. NBlock[want] - 1 \subseteq Temps
    BY <1>1 DEF Gather, Missing
  <2>2. \A b \in Temps : b \in Nat /\ b < NBlock[want]
    BY <1>1, BlockFacts DEF IInv, TempInv, BlockInv, Temps
  <2> DEFINE N == NBlock[want]
  <2>3. N \in Nat
    BY <1>1, BlockFacts
  <2> HIDE DEF N
  <2>4. \A b \in Temps : b \in 0 .. N - 1
    BY <2>2, <2>3 DEF N
  <2> QED
    BY <2>1, <2>4 DEF N
<1>3. GatheredFile.whole \/ tore
  <2>1. SUFFICES ASSUME ~tore, NEW b \in Temps
                 PROVE  temp[b] = [no |-> want, whole |-> TRUE]
    BY <1>2 DEF GatheredFile
  <2>2. temp[b].no = want /\ temp[b].whole
    BY <1>1, <2>1 DEF IInv, TempInv, BlockInv, Gather
  <2>3. temp[b] \in [no : Network \cup {None}, whole : BOOLEAN]
    BY DEF IInv, TypeOK, Temps
  <2> QED
    BY <2>2, <2>3
<1>4. GatheredFile.no = want /\ GatheredFile \in [no : Network, whole : BOOLEAN]
  BY <1>1 DEF GatheredFile
<1> QED
  BY <1>1, <1>2, <1>3, <1>4 DEF Gather, Goto

LEMMA GatherStep == ASSUME IInv, Gather PROVE IInv'
<1>1. PICK f \in [no : Network, whole : BOOLEAN] :
        /\ want \in Network /\ id < want /\ f.no = want
        /\ files' = files \cup {f} /\ (f.whole \/ tore)
        /\ pc' = "remove" /\ UNCHANGED <<boot, id, wght, want, flags, fails>>
  BY GatherFile
<1>2. pc = "block" /\ UNCHANGED <<server, wire, info, temp, faults, tore>>
  BY DEF Gather
<1>3. TypeOK'
  <2>1. files' \subseteq [no : Network, whole : BOOLEAN] /\ pc' \in Steps
    BY <1>1 DEF IInv, TypeOK, Steps
  <2> QED
    BY <1>1, <1>2, <2>1 DEF IInv, TypeOK, server, wire
<1>4. ListInv' /\ WireInv'
  BY <1>1, <1>2, ListFrame, LoadingWire DEF IInv, Loading, wire
<1>5. KnownInv'
  <2>1. want \in list
    BY <1>1 DEF IInv, KnownInv, None, Network
  <2> QED
    BY <1>1, <1>2, <2>1 DEF IInv, KnownInv, server, wire
<1>6. ClientInv'
  BY <1>1, <1>2 DEF IInv, ClientInv, Loading
<1>7. TempInv'
  BY <1>1, <1>2 DEF IInv, TempInv, BlockInv, FlagInv, Temps, DamageNeedsTear,
     Damaged
<1> QED
  BY <1>3, <1>4, <1>5, <1>6, <1>7 DEF IInv

(* The client's process ends: what is on the disk stays. *)
LEMMA GoneInv ==
  ASSUME IInv, Gone("down"), peer' = NoPeer, cmd' = NoMsg, msg' = NoMsg,
         UNCHANGED <<server, info, files>>,
         faults' \in 0 .. MaxFault, tore' \in BOOLEAN, tore => tore',
         temp' \in [Block -> [no : Network \cup {None}, whole : BOOLEAN]],
         \A b \in Temps' : b \in Temps /\ temp'[b] = temp[b],
         pc # "write" \/ tore' \/ Min(Missing) \notin Temps'
  PROVE  IInv'
<1>1. TypeOK'
  <2>1. 0 \in 0 .. MaxRetry
    BY RetryAssumption
  <2> QED
    BY <2>1, Closed DEF IInv, TypeOK, Gone, server, Steps
<1>2. ListInv'
  BY ListFrame DEF IInv
<1>3. WireInv'
  BY CloseWire DEF Close
<1>4. KnownInv'
  BY NetAssumption
     DEF IInv, TypeOK, KnownInv, Gone, NoPeer, server, Network, None
<1>5. ClientInv'
  BY DEF IInv, ClientInv, Gone, Loading
<1>6. TempInv'
  BY DEF IInv, TempInv, BlockInv, FlagInv, DamageNeedsTear, Damaged, Gone
<1> QED
  BY <1>1, <1>2, <1>3, <1>4, <1>5, <1>6 DEF IInv

LEMMA BlockFailsStep == ASSUME IInv, BlockFails PROVE IInv'
<1> DEFINE b == Min(Missing)
<1>1. /\ pc = "write" /\ temp' = [temp EXCEPT ![b] = NoBlock]
      /\ Gone("down") /\ Close /\ faults' = faults + 1 /\ faults < MaxFault
      /\ UNCHANGED <<server, info, files, tore>>
  BY DEF BlockFails
<1>2. b \in Block
  BY <1>1, NextBlock DEF IInv, TypeOK, ClientInv, TempInv, FlagInv, Loading
<1> HIDE DEF b
<1>3. /\ temp' \in [Block -> [no : Network \cup {None}, whole : BOOLEAN]]
      /\ \A c \in Temps' : c \in Temps /\ temp'[c] = temp[c]
      /\ b \notin Temps'
  BY <1>1, <1>2 DEF IInv, TypeOK, Temps, NoBlock
<1>4. faults' \in 0 .. MaxFault
  BY <1>1, RetryAssumption DEF IInv, TypeOK
<1> QED
  BY <1>1, <1>3, <1>4, GoneInv DEF IInv, TypeOK, Close, b

LEMMA InstallStep == ASSUME IInv, Install PROVE IInv'
<1>1. CASE Readable(want)
  <2>1. /\ pc = "remove" /\ Temps = {} /\ id' = want /\ wght' = want /\ Done
        /\ UNCHANGED <<server, disk, faults, tore>>
    BY <1>1 DEF Install
  <2>2. want \in Network
    BY <2>1 DEF IInv, TypeOK, ClientInv, Loading
  <2>3. TypeOK'
    BY <2>1, <2>2, Closed, DoneTypes DEF IInv, TypeOK, server, disk
  <2>4. ListInv' /\ WireInv'
    BY <2>1, ListFrame, CloseWire DEF IInv, Done
  <2>5. KnownInv'
    BY <2>1, NetAssumption DEF IInv, TypeOK, KnownInv, Done, Close, NoPeer,
       server, disk, None, Network
  <2>6. ClientInv'
    <3>1. \A f \in files : f.no <= want
      BY <2>1, <2>2 DEF IInv, TypeOK, ClientInv, Loading, Network, None
    <3> QED
      BY <2>1, <3>1 DEF IInv, ClientInv, Done, disk, Loading
  <2>7. TempInv'
    BY <2>1 DEF IInv, TempInv, BlockInv, FlagInv, Temps, DamageNeedsTear,
       Damaged, Done, disk
  <2> QED
    BY <2>3, <2>4, <2>5, <2>6, <2>7 DEF IInv
<1>2. CASE ~Readable(want)
  <2>1. /\ Gone("down") /\ Close /\ pc = "remove"
        /\ UNCHANGED <<server, disk, faults, tore>>
    BY <1>2 DEF Install
  <2>2. Temps' = Temps
    BY <2>1 DEF Temps, disk
  <2> QED
    BY <2>1, <2>2, GoneInv DEF IInv, TypeOK, Close, disk
<1> QED
  BY <1>1, <1>2

LEMMA PollStep == ASSUME IInv, Poll PROVE IInv'
<1>1. TypeOK'
  BY DEF IInv, TypeOK, Poll, Goto, server, wire, disk, Steps
<1>2. ListInv' /\ KnownInv'
  BY ListFrame, KnownFrame DEF IInv, Poll, Goto, wire, disk
<1>3. WireInv'
  BY DEF IInv, WireInv, OneToken, CmdInv, StatInv, MsgInv, Poll, Goto, server,
         wire, NoPeer, NoMsg, Loading
<1>4. ClientInv' /\ TempInv'
  BY DEF IInv, ClientInv, TempInv, BlockInv, FlagInv, DamageNeedsTear, Damaged,
         Temps, Poll, Goto, disk, Loading
<1> QED
  BY <1>1, <1>2, <1>3, <1>4 DEF IInv

LEMMA FailStep == ASSUME IInv, Fail PROVE IInv'
<1>1. /\ peer = NoPeer /\ cmd = NoMsg /\ msg = NoMsg
      /\ pc \in {"connect", "header", "info", "recv", "block"}
      /\ UNCHANGED <<server, wire, disk, faults, tore>>
  BY DEF IInv, WireInv, Fail, Loading
<1>2. Temps' = Temps
  BY <1>1 DEF Temps, disk
<1>3. CASE GivesUp
  <2>1. Gone("down")
    BY <1>3 DEF Fail
  <2> QED
    BY <1>1, <1>2, <2>1, GoneInv DEF IInv, TypeOK, wire, disk
<1>4. CASE ~GivesUp
  <2>1. /\ pc' = "connect" /\ fails' = fails + 1 /\ want' = None /\ flags' = {}
        /\ UNCHANGED <<boot, id, wght>> /\ fails + 1 <= MaxRetry
    <3>1. ~(MaxRetry < fails + 1)
      BY <1>4 DEF GivesUp
    <3>2. fails + 1 <= MaxRetry
      BY <3>1, RetryAssumption DEF IInv, TypeOK
    <3> QED
      BY <1>4, <3>2 DEF Fail
  <2>2. TypeOK'
    BY <1>1, <2>1, RetryAssumption
       DEF IInv, TypeOK, server, wire, disk, Steps
  <2>3. ListInv' /\ WireInv'
    BY <1>1, ListFrame, CloseWire DEF IInv, Close, wire
  <2>4. KnownInv'
    BY <1>1, <2>1, NetAssumption
       DEF IInv, TypeOK, KnownInv, server, wire, disk, None, Network
  <2>5. ClientInv'
    BY <1>1, <2>1 DEF IInv, ClientInv, disk, Loading
  <2>6. TempInv'
    BY <1>1, <1>2, <2>1 DEF IInv, TempInv, BlockInv, FlagInv, DamageNeedsTear,
       Damaged, disk
  <2> QED
    BY <2>2, <2>3, <2>4, <2>5, <2>6 DEF IInv
<1> QED
  BY <1>3, <1>4

LEMMA CrashStep == ASSUME IInv, Crash PROVE IInv'
<1>1. /\ Gone("down") /\ Close /\ faults' = faults + 1 /\ faults < MaxFault
      /\ tore' = (tore \/ pc = "write") /\ UNCHANGED <<server, disk>>
  BY DEF Crash
<1>2. Temps' = Temps
  BY <1>1 DEF Temps, disk
<1>3. faults' \in 0 .. MaxFault
  BY <1>1, RetryAssumption DEF IInv, TypeOK
<1>4. tore' \in BOOLEAN /\ (tore => tore') /\ (pc # "write" \/ tore')
  BY <1>1 DEF IInv, TypeOK
<1> QED
  BY <1>1, <1>2, <1>3, <1>4, GoneInv DEF IInv, TypeOK, Close, disk

LEMMA StutterStep == ASSUME IInv, UNCHANGED vars PROVE IInv'
<1>1. TypeOK'
  BY DEF IInv, TypeOK, vars, server, wire, disk, memory
<1>2. WireInv' /\ KnownInv'
  BY DEF IInv, WireInv, OneToken, CmdInv, StatInv, MsgInv, KnownInv, vars,
         server, wire, disk, memory
<1> QED
  BY <1>1, <1>2, ListFrame, ClientFrame, TempFrame DEF IInv, vars

LEMMA Invariance == Spec => []IInv
<1>1. ASSUME IInv, [Next]_vars PROVE IInv'
  BY <1>1, UploadStep, FindWghtStep, ListWghtStep, PublishWghtStep,
     ServerCrashStep, LoseStep, AcceptStep, HandleRecvStep, HandleSendStep,
     StartStep, RecvHeaderStep, RecvInfoStep, RemoveTempStep, OpenInfoStep,
     WriteInfoStep, AskBlockStep, OpenBlockStep, CloseBlockStep,
     BlockFailsStep, GatherStep, InstallStep, PollStep, FailStep, CrashStep,
     StutterStep
     DEF Next, KeeperStep, ListenStep, ClientStep
<1> QED
  BY <1>1, InitInv, PTL DEF Spec

-----------------------------------------------------------------------------
(* Results. *)

(* The client never stops to ask for its temporary files to be removed by   *)
(* hand: the checks behind "Corruption of temporary files" and the order of *)
(* the networks hold whatever happened before (client.cpp:136, 167, 210).   *)
THEOREM NeverCorrupt == Spec => []NoManualCleanup
<1>1. IInv => NoManualCleanup
  BY DEF IInv, ClientInv, NoManualCleanup
<1> QED
  BY <1>1, Invariance, PTL

(* A network file holds something else than the blocks of its network only  *)
(* if a client died while it wrote a block (client.cpp:155-211).            *)
THEOREM DamageSafe == Spec => []DamageNeedsTear
<1>1. IInv => DamageNeedsTear
  BY DEF IInv, TempInv
<1> QED
  BY <1>1, Invariance, PTL

-----------------------------------------------------------------------------
(* What is asked for is there. *)

AskInv ==
  /\ cmd.type = "wght" => cmd.arg < NBlock[want]
  /\ NoEmptyBlock

LEMMA AskClosed == ASSUME Close PROVE AskInv'
BY DEF Close, AskInv, NoEmptyBlock, NoMsg, NoPeer

(* Outside of "recv" no block is under way. *)
LEMMA AskQuiet ==
  ASSUME IInv, UNCHANGED <<peer, cmd>>, pc # "recv" PROVE AskInv'
BY DEF IInv, WireInv, CmdInv, StatInv, NoMsg, AskInv, NoEmptyBlock

LEMMA AskFrame ==
  ASSUME AskInv, UNCHANGED <<peer, cmd, want>> PROVE AskInv'
BY DEF AskInv, NoEmptyBlock

LEMMA AskHandleRecv == ASSUME IInv, AskInv, HandleRecv PROVE AskInv'
<1>1. CASE Refused
  BY <1>1, AskClosed DEF HandleRecv
<1>2. CASE ~Refused /\ cmd.type = "info"
  <2>1. cmd' = NoMsg /\ peer'.stat = "SendInfo"
    BY <1>2 DEF HandleRecv, IInv, TypeOK
  <2> QED
    BY <2>1 DEF AskInv, NoEmptyBlock, NoMsg
<1>3. CASE ~Refused /\ cmd.type # "info"
  <2>1. cmd.type = "wght" /\ pc = "recv" /\ peer.wght = want
    BY <1>3 DEF HandleRecv, IInv, TypeOK, WireInv, CmdInv, NoMsg, Loading
  <2>2. cmd' = NoMsg /\ peer'.iblock = cmd.arg /\ peer'.wght = want
    BY <1>3, <2>1 DEF HandleRecv, BlockOf, IInv, TypeOK
  <2> QED
    BY <2>1, <2>2 DEF AskInv, NoEmptyBlock, NoMsg
<1> QED
  BY <1>1, <1>2, <1>3

LEMMA AskStep == ASSUME IInv, AskInv, [Next]_vars PROVE AskInv'
<1>1. CASE (\E n \in Network : Upload(n)) \/ KeeperStep \/ UNCHANGED vars
  BY <1>1, AskFrame DEF Upload, KeeperStep, FindWght, ListWght, PublishWght, vars,
     wire, memory
<1>2. CASE Lose \/ ServerCrash \/ BlockFails \/ Crash
  BY <1>2, AskClosed DEF Lose, ServerCrash, BlockFails, Crash
<1>3. CASE HandleSend
  <2>1. peer'.stat = "DoNothing" /\ UNCHANGED <<cmd, want>>
    BY <1>3 DEF HandleSend, memory, IInv, TypeOK
  <2> QED
    BY <2>1 DEF AskInv, NoEmptyBlock
<1>4. CASE Accept \/ RecvHeader
  <2>1. CASE Accept
    <3>1. cmd'.type = "none" /\ peer'.stat = "SendHeader"
      BY <2>1 DEF Accept, NoMsg, NoPeer
    <3> QED
      BY <3>1 DEF AskInv, NoEmptyBlock
  <2>2. CASE RecvHeader
    <3>1. cmd'.type = "info" /\ peer' = peer /\ pc = "header"
      BY <2>2 DEF RecvHeader
    <3>2. peer.stat # "SendWght"
      BY <3>1 DEF IInv, WireInv, StatInv
    <3> QED
      BY <3>1, <3>2 DEF AskInv, NoEmptyBlock
  <2> QED
    BY <1>4, <2>1, <2>2
<1>5. CASE Start \/ OpenInfo \/ WriteInfo \/ CloseBlock \/ Gather \/ Poll
  BY <1>5, AskQuiet DEF Start, OpenInfo, WriteInfo, CloseBlock, Gather, Poll, wire
<1>6. CASE RemoveTemp \/ OpenBlock
  BY <1>6, AskFrame DEF RemoveTemp, OpenBlock, Goto, wire, memory
<1>7. CASE RecvInfo
  <2>1. Close \/ UNCHANGED <<peer, cmd>>
    BY <1>7 DEF RecvInfo, Done
  <2> QED
    BY <1>7, <2>1, AskClosed, AskQuiet DEF RecvInfo
<1>8. CASE Install
  BY <1>8, AskClosed DEF Install, Done
<1>9. CASE AskBlock
  <2>1. want \in Network /\ Missing # {}
    BY <1>9 DEF AskBlock, IInv, TypeOK, ClientInv, Loading
  <2>2. cmd' = [type |-> "wght", arg |-> Min(Missing)] /\ UNCHANGED <<peer, want>>
    BY <1>9 DEF AskBlock, Goto
  <2>3. Min(Missing) < NBlock[want]
    BY <2>1, NextBlock
  <2> QED
    BY <2>2, <2>3 DEF AskInv, NoEmptyBlock
<1>10. CASE Fail
  <2>1. ~peer.open \/ pc # "recv"
    BY <1>10 DEF Fail
  <2>2. UNCHANGED <<peer, cmd>>
    BY <1>10 DEF Fail, wire
  <2>3. CASE ~peer.open
    BY <2>2, <2>3 DEF IInv, WireInv, NoPeer, NoMsg, AskInv, NoEmptyBlock
  <2> QED
    BY <2>1, <2>2, <2>3, AskQuiet
<1> QED
  BY <1>1, <1>2, <1>3, <1>4, <1>5, <1>6, <1>7, <1>8, <1>9, <1>10, AskHandleRecv
     DEF Next, ListenStep, ClientStep

(* The server never sends an empty block, although handle_recv() lets a     *)
(* block pass that starts exactly at the end of a network (listen.cpp:511): *)
(* the client asks only for blocks of the network the connection was given. *)
THEOREM BlocksThere == Spec => []NoEmptyBlock
<1>1. Init => AskInv
  BY DEF Init, AskInv, NoEmptyBlock, NoMsg, NoPeer
<1>2. IInv /\ AskInv /\ [Next]_vars => AskInv'
  BY AskStep
<1>3. AskInv => NoEmptyBlock
  BY DEF AskInv
<1> QED
  BY <1>1, <1>2, <1>3, Invariance, PTL DEF Spec

(* What the client holds, and plays with, follows the abstract feed. *)
Held == Max({f.no : f \in {g \in files : g.whole}} \cup {None})

HeldNewestWhole ==
  /\ Held \in Network \cup {None}
  /\ Held = None \/ \E f \in files : f.whole /\ f.no = Held
  /\ \A f \in files : f.whole => f.no <= Held

LEMMA HeldIs == TypeOK => HeldNewestWhole
<1> SUFFICES ASSUME TypeOK PROVE HeldNewestWhole
  OBVIOUS
<1> DEFINE T == {f.no : f \in {g \in files : g.whole}} \cup {None}
<1>1. T \in SUBSET (Network \cup {None}) /\ T # {}
  BY DEF TypeOK
<1> HIDE DEF T
<1>2. Max(T) \in T /\ \A x \in T : x <= Max(T)
  BY <1>1, MaxExists
<1> QED
  BY <1>1, <1>2 DEF HeldNewestWhole, Held, T

LEMMA HeldIsNext == TypeOK' => HeldNewestWhole'
  BY HeldIs, PTL

(* The newest whole file, when it is the newest of all. *)
LEMMA HeldNewest ==
  ASSUME TypeOK, NEW n \in Network \cup {None}, Readable(n),
         n = None \/ \E f \in files : f.no = n,
         \A f \in files : f.no <= n
  PROVE  Held = n
<1>1. n = None \/ \E f \in files : f.no = n /\ f.whole
  BY DEF Readable, Decodes
<1>2. HeldNewestWhole
  BY HeldIs
<1>3. n <= Held /\ Held <= n
  BY <1>1, <1>2, NetAssumption DEF HeldNewestWhole, Network, None
<1> QED
  BY <1>2, <1>3, NetAssumption DEF HeldNewestWhole, Network, None

(* The abstract actions, in terms of the system. *)
LEMMA FeedView ==
  /\ Feed!Init <=> list = {} /\ Held = None /\ wght = None
  /\ (UNCHANGED <<list, Held, wght>>) => UNCHANGED Feed!vars
  /\ \A n \in Network :
       /\ (\A p \in list : p < n) /\ list' = list \cup {n} /\ UNCHANGED <<Held, wght>>
            => Feed!Next
       /\ n \in list /\ Held < n /\ Held' = n /\ UNCHANGED <<list, wght>> => Feed!Next
  /\ Held # None /\ wght' = Held /\ UNCHANGED <<list, Held>> => Feed!Next
  /\ wght' = None /\ UNCHANGED <<list, Held>> => Feed!Next
BY DEF Feed!Init, Feed!vars, Feed!Next, Feed!Publish, Feed!Fetch, Feed!Use,
       Feed!Stop, Feed!Network, Feed!None, Held, Network, None

LEMMA HeldFrame == ASSUME files' = files PROVE Held' = Held
BY DEF Held

(* A network is published when it is listed. *)
LEMMA ListFeeds == ASSUME IInv, ListWght PROVE Feed!Next
<1>1. now \in Network /\ list' = list \cup {now} /\ wght' = wght /\ files' = files
  BY DEF IInv, TypeOK, ListInv, ListWght, memory, disk
<1>2. \A n \in list : n < now
  <2>1. \A n \in list : n \in Int /\ n <= now /\ n # now
    BY DEF IInv, TypeOK, ListInv, ListWght, Network
  <2> QED
    BY <1>1, <2>1 DEF Network
<1> QED
  BY <1>1, <1>2, HeldFrame, FeedView

(* It is held when the last of its blocks has been copied. *)
LEMMA GatherFeeds == ASSUME IInv, Gather PROVE Feed!Next \/ UNCHANGED Feed!vars
<1>1. PICK f \in [no : Network, whole : BOOLEAN] :
        want \in Network /\ id < want /\ f.no = want /\ files' = files \cup {f}
  BY GatherFile
<1>2. UNCHANGED <<list, wght>>
  BY GatherFile DEF Gather, server
<1>3. TypeOK'
  BY GatherStep DEF IInv
<1>4. \A g \in files : g.no < want
  BY <1>1 DEF IInv, TypeOK, ClientInv, Gather, Network, None
<1>5. CASE f.whole
  <2>1. Held' = want
    <3>1. /\ Held' \in Network \cup {None}
          /\ Held' = None \/ \E g \in files' : g.whole /\ g.no = Held'
          /\ \A g \in files' : g.whole => g.no <= Held'
      BY <1>3, HeldIsNext DEF HeldNewestWhole
    <3>2. want <= Held'
      BY <1>1, <1>5, <3>1
    <3>3. \A g \in files' : g.no <= want
      BY <1>1, <1>4 DEF IInv, TypeOK, Network
    <3> QED
      BY <1>1, <3>1, <3>2, <3>3 DEF Network, None
  <2>2. Held < want
    BY <1>1, <1>4, HeldIs DEF HeldNewestWhole, IInv, Network, None
  <2>3. want \in list
    BY <1>1 DEF IInv, KnownInv, Network, None
  <2> QED
    BY <1>1, <1>2, <2>1, <2>2, <2>3, FeedView
<1>6. CASE ~f.whole
  <2>1. {g \in files' : g.whole} = {g \in files : g.whole}
    BY <1>1, <1>6
  <2>2. Held' = Held
    BY <2>1 DEF Held
  <2> QED
    BY <1>2, <2>2, FeedView
<1> QED
  BY <1>5, <1>6

(* It is used when it is installed, and by a client that starts. *)
LEMMA InstallFeeds == ASSUME IInv, Install PROVE Feed!Next
<1>1. UNCHANGED <<list, files>>
  BY DEF Install, server, disk
<1>2. CASE Readable(want)
  <2>1. want \in Network /\ id < want /\ \E f \in files : f.no = want
    BY DEF IInv, TypeOK, ClientInv, Install, Loading
  <2>2. \A f \in files : f.no <= want
    BY <2>1 DEF IInv, TypeOK, ClientInv, Install, Network, None
  <2>3. Held = want
    BY <1>2, <2>1, <2>2, HeldNewest DEF IInv
  <2>4. wght' = want /\ want # None
    BY <1>2, <2>1 DEF Install, Network, None
  <2> QED
    BY <1>1, <2>3, <2>4, HeldFrame, FeedView
<1>3. CASE ~Readable(want)
  BY <1>1, <1>3, HeldFrame, FeedView DEF Install, Gone
<1> QED
  BY <1>2, <1>3

LEMMA StartFeeds == ASSUME IInv, Start PROVE Feed!Next
<1>1. wght' = MaxFile /\ Readable(MaxFile) /\ UNCHANGED <<list, files>>
  BY DEF Start, server, disk
<1>2. Held = MaxFile
  BY <1>1, NewestFile, HeldNewest DEF IInv
<1> QED
  BY <1>1, <1>2, HeldFrame, FeedView

(* Nothing else shows, but the end of a client. *)
LEMMA FeedStep ==
  ASSUME IInv, [Next]_vars
  PROVE  Feed!Next \/ UNCHANGED Feed!vars
<1>1. CASE UNCHANGED <<list, files>> /\ (wght' = wght \/ wght' = None)
  BY <1>1, HeldFrame, FeedView
<1>2. CASE (\E n \in Network : Upload(n)) \/ FindWght \/ PublishWght \/ ServerCrash
           \/ HandleRecv \/ HandleSend \/ Lose \/ UNCHANGED vars
  BY <1>1, <1>2 DEF Upload, FindWght, PublishWght, ServerCrash, HandleRecv,
     HandleSend, Lose, server, disk, memory, vars
<1>3. CASE Accept \/ RecvHeader \/ RecvInfo \/ RemoveTemp \/ OpenInfo \/ WriteInfo
           \/ AskBlock \/ OpenBlock \/ CloseBlock \/ Poll
  BY <1>1, <1>3 DEF Accept, RecvHeader, RecvInfo, RemoveTemp, OpenInfo,
     WriteInfo, AskBlock, OpenBlock, CloseBlock, Poll, Goto, server, disk, memory
<1>4. CASE BlockFails \/ Fail \/ Crash
  BY <1>1, <1>4 DEF BlockFails, Fail, Crash, Gone, server, disk
<1> QED
  BY <1>2, <1>3, <1>4, ListFeeds, GatherFeeds, InstallFeeds, StartFeeds
     DEF Next, KeeperStep, ListenStep, ClientStep

(* The client plays only with complete published networks and never goes    *)
(* back to an older one: the system implements WghtFeed (client.cpp,        *)
(* datakeep.cpp:334-364).                                                   *)
THEOREM FeedRefined == Spec => FeedSpec
<1>1. Init => Feed!Init
  <2>1. SUFFICES ASSUME Init PROVE Feed!Init
    OBVIOUS
  <2>2. IInv /\ files = {} /\ list = {} /\ wght = None
    BY <2>1, InitInv DEF Init
  <2>3. Held = None
    BY <2>2, HeldIs DEF HeldNewestWhole, IInv
  <2> QED
    BY <2>2, <2>3, FeedView
<1>2. IInv /\ [Next]_vars => [Feed!Next]_(Feed!vars)
  BY FeedStep
<1> QED
  BY <1>1, <1>2, Invariance, PTL DEF Spec, FeedSpec, Feed!Spec
=============================================================================
