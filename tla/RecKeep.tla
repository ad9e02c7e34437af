------------------------------ MODULE RecKeep -------------------------------
(***************************************************************************)
(* The record keeper of the server (src/server/datakeep.cpp, RecKeep): it  *)
(* numbers the game records clients send, keeps each as a file of its own  *)
(* in the pool directory and packs every SizeCluster consecutive records   *)
(* into one archive file.  The archive under construction is a temporary   *)
(* file that mirrors the pool; it is renamed when a cluster is full.       *)
(*                                                                         *)
(* One worker thread executes transact() for every job; start() runs       *)
(* before any job arrives.  Nothing else touches this state, so the model  *)
(* is sequential, but the process may crash between any two file system    *)
(* operations and be started again: an action is the code from one file    *)
(* system operation to the next, and pc names the operation to come.       *)
(* die() ends the process and is one of the crashes.                       *)
(***************************************************************************)
EXTENDS Integers, FiniteSets, SequencesExt

CONSTANTS Game,          \* the valid games clients may send (by crc64)
          NoResign,      \* those played without resignation (EMA samples)
          SizeCluster,   \* size_cluster: records in one archive (10000)
          RedunCap,      \* entries of _redundancy_table
          NoRec,         \* no record is being stored
          RemoveMayFail, \* start() may meet a file it cannot remove
          NDEBUG,        \* compiled without assertions (Makefile's default)
          MaxNo,         \* bound: record numbers stay below MaxNo
          MaxCrash       \* bound: number of crashes

ASSUME ClusterAssumption == SizeCluster \in Nat \ {0}
ASSUME RedunAssumption   == RedunCap \in Nat /\ 1 < RedunCap
ASSUME GameAssumption    == NoResign \subseteq Game
ASSUME RemoveAssumption  == RemoveMayFail \in BOOLEAN
ASSUME BuildAssumption   == NDEBUG \in BOOLEAN
ASSUME BoundAssumption   == MaxNo \in Nat /\ MaxCrash \in Nat

Record == [no : Nat, game : Game]

ASSUME NoRecAssumption == NoRec \notin Record

(* One entry of an archive stream: a record, and whether the separator was *)
(* written in front of it.                                                 *)
Entry == [rec : Record, sep : BOOLEAN]

Archive == [start : Nat, body : Seq(Entry), whole : BOOLEAN]

VARIABLES
  files,     \* the pool directory: records, each the file no<no>.csa.xz
  archs,     \* the archive directory: arch<start>.csa.xz, whole if complete
  archtmp,   \* contents written to the temporary archive so far
  emafile,   \* ema.cfg: number of samples its averages have absorbed
  pc,        \* the operation to come
  pool,      \* _pool: the numbers the process believes are in the pool
  rec,       \* pl_rec: the record being stored
  redun,     \* _redundancy_table: games, least recently used first
  ema,       \* EMAKeep in memory: number of samples absorbed
  first,     \* _bFirst: nothing was written to the archive stream yet
  enc,       \* _xze: "tmp" open on archtmp, "arch" open on an archive file,
             \* "ended" finished, "none" before its first start
  i64_end,   \* the local of that name: end of the cluster being moved
  crashes,   \* number of crashes so far
  skipped    \* history: start() passed over a file it could not remove

disk == <<files, archs, archtmp, emafile>>
mem  == <<pool, rec, redun, ema, first, enc, i64_end>>
past == <<crashes, skipped>>
vars == <<disk, pc, mem, past>>

Booting == {"trim", "boot", "bootwrite", "bootremove", "refill"}
Storing == {"rename", "ema", "emarename", "cluster", "archrename", "remove",
            "append"}

TypeOK ==
  /\ files \subseteq Record
  /\ archs \subseteq Archive
  /\ archtmp \in Seq(Entry)
  /\ emafile \in Nat
  /\ pc \in {"down", "idle", "dead", "hung", "aborted"}
              \cup Booting \cup Storing
  /\ pool \subseteq Nat
  /\ rec \in Record \cup {NoRec}
  /\ redun \in Seq(Game) /\ Len(redun) <= RedunCap
  /\ ema \in Nat
  /\ first \in BOOLEAN
  /\ enc \in {"none", "tmp", "arch", "ended"}
  /\ i64_end \in Nat
  /\ crashes \in 0 .. MaxCrash
  /\ skipped \in BOOLEAN

-----------------------------------------------------------------------------
(* Helpers. *)

Nos(S) == {r.no : r \in S}

NextNo(S) == IF S = {} THEN 0 ELSE Max(S) + 1

(* The file of the given number in the pool directory. *)
FileOf(no) == CHOOSE r \in files : r.no = no

(* The stream of n records from number lo on, in order, with separators    *)
(* between them.                                                           *)
Stream(lo, n) ==
  [i \in 1 .. n |-> [rec |-> FileOf(lo + i - 1), sep |-> i > 1]]

(* The sequence check of start(): the numbers have no gap. *)
Contiguous(S) == S = Min(S) .. Max(S)

Boundary(no) == (no \div SizeCluster + 1) * SizeCluster

Removed(no) == {r \in files : r.no # no}

(* A new file replaces one of the same name. *)
PutFile(r) == Removed(r.no) \cup {r}
PutArch(a) == {b \in archs : b.start # a.start} \cup {a}

(* Mutant: a full table ignores new entries. *)
Touch_NoEviction(s, g) ==
  IF g \in ToSet(s)   THEN Append(RemoveFirst(s, g), g)
  ELSE IF Len(s) < RedunCap THEN Append(s, g)
  ELSE s

(* Mutant: the table grows without limit. *)
Touch_Unlimited(s, g) ==
  IF g \in ToSet(s) THEN Append(RemoveFirst(s, g), g) ELSE Append(s, g)

(* HashTable::operator[]: the entry becomes the most recently used one; a  *)
(* new one takes the place of the least recently used one when full.       *)
Touch(s, g) ==
  IF g \in ToSet(s)   THEN Append(RemoveFirst(s, g), g)
  ELSE IF Len(s) < RedunCap THEN Append(s, g)
  ELSE Append(Tail(s), g)

-----------------------------------------------------------------------------
(* Parts that several operations share. *)

(* Mutant: _bFirst is not reset. *)
OpenArchTmp_KeepsFirst ==
  /\ archtmp' = <<>>
  /\ enc' = "tmp"
  /\ UNCHANGED first

(* open_arch_tmp() and close_arch_tmp(). *)
OpenArchTmp ==
  /\ archtmp' = <<>>
  /\ enc' = "tmp"
  /\ first' = TRUE

CloseArchTmp == enc' = "ended"

(* The loops that empty the pool up to i64_end go on ... *)
MoreToRemove_Inclusive == pool # {} /\ Min(pool) <= i64_end  \* a mutant

MoreToRemove == pool # {} /\ Min(pool) < i64_end

(* ... with the lowest number. *)
RemoveNext_Highest ==                                         \* a mutant
  LET no == Max({k \in pool : k < i64_end})
  IN  files' = Removed(no) /\ pool' = pool \ {no}

RemoveNext_FileOnly ==                                        \* a mutant
  files' = Removed(Min(pool)) /\ UNCHANGED pool

RemoveNext == files' = Removed(Min(pool)) /\ pool' = pool \ {Min(pool)}

(* "archive a cluster if possible" *)
ClusterDone == Min(pool) + SizeCluster <= Max(pool)

(* What EMAKeep's constructor reads. *)
LoadedEma_Fresh == 0                                          \* a mutant

LoadedEma == emafile

(* The records that the refilled temporary archive holds. *)
RefillStream_Short == Stream(Min(pool), Max(pool) - Min(pool)) \* a mutant

RefillStream == Stream(Min(pool), Max(pool) + 1 - Min(pool))

-----------------------------------------------------------------------------
(* start() *)

(* Up to the first change of the pool: the tables are new, the averages    *)
(* come from ema.cfg, the temporary archive is truncated, the pool         *)
(* directory is listed and its numbers are checked.                        *)
Start ==
  /\ pc \in {"down", "dead", "aborted"}
  /\ pool' = Nos(files)
  /\ ema' = LoadedEma
  /\ redun' = <<>>
  /\ OpenArchTmp
  /\ pc' = IF files = {} THEN "idle"
           ELSE IF ~Contiguous(pool') THEN "dead"
           ELSE IF /\ Min(pool') % SizeCluster # 0
                   /\ Boundary(Min(pool')) <= Max(pool') THEN "trim"
           ELSE "boot"
  /\ i64_end' = IF pc' = "trim" THEN Boundary(Min(pool')) ELSE i64_end
  /\ UNCHANGED <<files, archs, emafile, rec, past>>

(* "remove reminders": the files an interrupted removal left behind. *)
Trim ==
  /\ pc = "trim"
  /\ IF MoreToRemove
     THEN RemoveNext /\ UNCHANGED pc
     ELSE /\ pc' = IF pool = {} THEN "idle" ELSE "boot"
          /\ UNCHANGED <<files, pool>>
  /\ UNCHANGED <<archs, archtmp, emafile, rec, redun, ema, first, enc,
                 i64_end, past>>

(* "archive clusters": the head of the loop, up to the opening (and        *)
(* truncation) of the archive file.                                        *)
Boot ==
  /\ pc = "boot"
  /\ i64_end' = Min(pool) + SizeCluster
  /\ IF Max(pool) < i64_end'
     THEN pc' = "refill" /\ UNCHANGED <<archs, enc>>
     ELSE /\ archs' = PutArch([start |-> Min(pool), body |-> <<>>,
                               whole |-> FALSE])
          /\ enc' = "arch"
          /\ pc' = "bootwrite"
  /\ UNCHANGED <<files, archtmp, emafile, pool, rec, redun, ema, first,
                 past>>

(* The rest of the archive file, from the files in the pool (a missing one *)
(* would end the process, here: stop the model).                           *)
BootWrite ==
  /\ pc = "bootwrite"
  /\ Min(pool) .. i64_end - 1 \subseteq Nos(files)
  /\ archs' = PutArch([start |-> Min(pool),
                       body  |-> Stream(Min(pool), SizeCluster),
                       whole |-> TRUE])
  /\ enc' = "ended"
  /\ pc' = "bootremove"
  /\ UNCHANGED <<files, archtmp, emafile, pool, rec, redun, ema, first,
                 i64_end, past>>

(* The archived files leave the pool.  Unlike the other loops this one     *)
(* goes on when remove() fails: the error is built and dropped.            *)
BootRemove ==
  /\ pc = "bootremove"
  /\ IF Min(pool) < i64_end
     THEN /\ \/ files' = Removed(Min(pool)) /\ UNCHANGED skipped
             \/ RemoveMayFail /\ skipped' = TRUE /\ UNCHANGED files
          /\ pool' = pool \ {Min(pool)}
          /\ UNCHANGED pc
     ELSE /\ pc' = "boot"
          /\ UNCHANGED <<files, pool, skipped>>
  /\ UNCHANGED <<archs, archtmp, emafile, rec, redun, ema, first, enc,
                 i64_end, crashes>>

(* The assertions of "write to arch's temp file": the pool begins at a     *)
(* cluster, it is shorter than one, and the encoder has a stream           *)
(* (datakeep.cpp:534, datakeep.cpp:535, xzi.cpp:87).                       *)
RefillAsserts ==
  /\ Min(pool) % SizeCluster = 0
  /\ Max(pool) + 1 < Min(pool) + SizeCluster
  /\ enc = "tmp"

(* "write to arch's temp file": the records still in the pool.  The        *)
(* encoder is the one open_arch_tmp() started, unless a cluster was        *)
(* archived above: then it was started on that file and ended, and its     *)
(* append() never consumes its input (xzi.cpp:131).                        *)
Refill ==
  /\ pc = "refill"
  /\ i64_end' = Max(pool) + 1
  /\ Min(pool) .. i64_end' - 1 \subseteq Nos(files)
  /\ first' = FALSE
  /\ IF ~NDEBUG /\ ~RefillAsserts
     THEN pc' = "aborted" /\ UNCHANGED archtmp
     ELSE IF enc = "tmp"
     THEN archtmp' = RefillStream /\ pc' = "idle"
     ELSE pc' = "hung" /\ UNCHANGED archtmp
  /\ UNCHANGED <<files, archs, emafile, pool, rec, redun, ema, enc, past>>

-----------------------------------------------------------------------------
(* transact() *)

(* The job holds a game the table already counts: it is rejected. *)
Duplicate(g) ==
  /\ pc = "idle"
  /\ g \in ToSet(redun)
  /\ redun' = Touch(redun, g)
  /\ UNCHANGED <<disk, pc, pool, rec, ema, first, enc, i64_end, past>>

(* A new valid game: numbered and written to the pool's temporary file. *)
Receive(g) ==
  /\ pc = "idle"
  /\ g \notin ToSet(redun)
  /\ NextNo(pool) < MaxNo
  /\ redun' = Touch(redun, g)
  /\ rec' = [no |-> NextNo(pool), game |-> g]
  /\ pc' = "rename"
  /\ UNCHANGED <<disk, pool, ema, first, enc, i64_end, past>>

(* rename() publishes the temporary file under its number. *)
RenamePool ==
  /\ pc = "rename"
  /\ files' = PutFile(rec)
  /\ pool' = pool \cup {rec.no}
  /\ pc' = IF rec.game \in NoResign THEN "ema" ELSE "cluster"
  /\ UNCHANGED <<archs, archtmp, emafile, rec, redun, ema, first, enc,
                 i64_end, past>>

(* EMAKeep::update(): the averages in memory and their temporary file ... *)
UpdateEma ==
  /\ pc = "ema"
  /\ ema' = ema + 1
  /\ pc' = "emarename"
  /\ UNCHANGED <<disk, pool, rec, redun, first, enc, i64_end, past>>

(* ... which replaces ema.cfg. *)
RenameEma ==
  /\ pc = "emarename"
  /\ emafile' = ema
  /\ pc' = "cluster"
  /\ UNCHANGED <<files, archs, archtmp, mem, past>>

(* "archive a cluster if possible": the decision, and closing the stream. *)
Cluster ==
  /\ pc = "cluster"
  /\ i64_end' = Min(pool) + SizeCluster
  /\ IF ClusterDone
     THEN CloseArchTmp /\ pc' = "archrename"
     ELSE pc' = "append" /\ UNCHANGED enc
  /\ UNCHANGED <<disk, pool, rec, redun, ema, first, past>>

RenameArch ==
  /\ pc = "archrename"
  /\ archs' = PutArch([start |-> Min(pool), body |-> archtmp,
                       whole |-> TRUE])
  /\ archtmp' = <<>>
  /\ pc' = "remove"
  /\ UNCHANGED <<files, emafile, mem, past>>

(* The archived records leave the pool, lowest first; then the temporary   *)
(* archive of the next cluster is opened.                                  *)
RemovePool ==
  /\ pc = "remove"
  /\ IF MoreToRemove
     THEN RemoveNext /\ UNCHANGED <<pc, archtmp, enc, first>>
     ELSE /\ OpenArchTmp
          /\ pc' = "append"
          /\ UNCHANGED <<files, pool>>
  /\ UNCHANGED <<archs, emafile, rec, redun, ema, i64_end, past>>

AppendArch ==
  /\ pc = "append"
  /\ archtmp' = Append(archtmp, [rec |-> rec, sep |-> ~first])
  /\ first' = FALSE
  /\ rec' = NoRec
  /\ pc' = "idle"
  /\ UNCHANGED <<files, archs, emafile, pool, redun, ema, enc, i64_end,
                 past>>

-----------------------------------------------------------------------------
(* The end of the process: what it had in memory is gone. *)

Forget ==
  /\ pc' = "down"
  /\ pool' = {} /\ rec' = NoRec /\ redun' = <<>> /\ ema' = 0
  /\ first' = TRUE /\ enc' = "none" /\ i64_end' = 0
  /\ UNCHANGED disk

(* end(): the worker finishes its job, closes the stream and returns. *)
Quit == pc = "idle" /\ Forget /\ UNCHANGED past

(* The operator kills a server that hangs in start(). *)
Kill == pc = "hung" /\ Forget /\ UNCHANGED past

Crash ==
  /\ pc \in {"idle"} \cup Booting \cup Storing
  /\ crashes < MaxCrash
  /\ crashes' = crashes + 1
  /\ UNCHANGED skipped
  /\ Forget

-----------------------------------------------------------------------------

Init ==
  /\ files = {} /\ archs = {} /\ archtmp = <<>> /\ emafile = 0
  /\ pc = "down"
  /\ pool = {} /\ rec = NoRec /\ redun = <<>> /\ ema = 0
  /\ first = TRUE /\ enc = "none" /\ i64_end = 0
  /\ crashes = 0 /\ skipped = FALSE

BootStep == Start \/ Trim \/ Boot \/ BootWrite \/ BootRemove \/ Refill

StoreStep == \/ RenamePool \/ UpdateEma \/ RenameEma \/ Cluster
             \/ RenameArch \/ RemovePool \/ AppendArch

Next ==
  \/ BootStep
  \/ \E g \in Game : Duplicate(g) \/ Receive(g)
  \/ StoreStep
  \/ Quit \/ Kill \/ Crash

Spec == Init /\ [][Next]_vars

(* start() and transact() run to their end unless the process ends, an     *)
(* operator kills a hanging server and starts one that is down.  Nothing   *)
(* is assumed about clients, crashes and the quit file.                    *)
FairSpec == Spec /\ WF_vars(BootStep) /\ WF_vars(StoreStep) /\ WF_vars(Kill)

-----------------------------------------------------------------------------
(* Properties. *)

Whole == {a \in archs : a.whole}

(* The records that can be read back from the disk. *)
Kept == files \cup UNION {{e.rec : e \in ToSet(a.body)} : a \in Whole}

L == INSTANCE RecLog WITH log <- Kept

(* What the disk holds is an append-only log: every record renamed into    *)
(* the pool receives the next number, and from then on it is found, with   *)
(* its game, in the pool or in a complete archive - through archiving, the *)
(* removal of the pool files one by one, and a crash at any point.         *)
LogSpec == L!Spec

(* A complete archive holds exactly the records of its cluster, in order,  *)
(* a separator between them, and never a record of another cluster         *)
(* (transact() renames the temporary archive, start() writes the file).    *)
ArchivesExact ==
  \A a \in Whole :
    /\ a.start % SizeCluster = 0
    /\ Len(a.body) = SizeCluster
    /\ \A i \in 1 .. SizeCluster : /\ a.body[i].rec.no = a.start + i - 1
                                   /\ a.body[i].sep = (i > 1)

(* Between two jobs the temporary archive, open, mirrors the pool: it is   *)
(* what start() or the transactions since the last cluster left in it, and *)
(* it becomes the next archive without being read again.                   *)
ArchTmpMirrorsPool ==
  pc = "idle" =>
    /\ enc = "tmp"
    /\ first = (pool = {})
    /\ archtmp = IF pool = {} THEN <<>>
                 ELSE Stream(Min(pool), Max(pool) + 1 - Min(pool))

(* start() accepts whatever crashes of this program leave in the pool:     *)
(* "invalid files" (datakeep.cpp:476) is reported only after start() once  *)
(* passed over a file it could not remove (datakeep.cpp:529), and the pool *)
(* it ends with begins at a cluster (the assertion at datakeep.cpp:534;    *)
(* NeverAborts is about the one after it).                                 *)
StartAccepts ==
  /\ pc = "dead" => skipped
  /\ pc \in {"boot", "refill"} => Min(pool) % SizeCluster = 0

(* The assertion of "write to arch's temp file" that the pool is shorter   *)
(* than a cluster (datakeep.cpp:535): a server built with assertions is    *)
(* never aborted by what an orderly end left in the pool.                  *)
NeverAborts == pc # "aborted"

(* The averages behind the resignation threshold never count a sample      *)
(* twice, and miss at most one for every crash: the sample of a record     *)
(* that was stored just before it.                                         *)
EmaMissesOnlyCrashes ==
  LET lag == Cardinality({r \in Kept : r.game \in NoResign}) - emafile
  IN  /\ 0 <= lag
      /\ lag <= crashes + (IF pc \in {"ema", "emarename"} THEN 1 ELSE 0)

(* A record sent again right after it was stored is rejected, whatever     *)
(* duplicates were looked up in between, unless the server was restarted:  *)
(* the last record stored in this run is in the table.                     *)
ResentRecordKnown ==
  pc = "idle" /\ redun # <<>> =>
    \A r \in Kept : r.no = NextNo(pool) - 1 => r.game \in ToSet(redun)

(* However it was stopped - by the quit file, by crashes, by a kill while  *)
(* it hangs - a server that is started again eventually accepts records,   *)
(* as long as the files of an archived cluster can be removed.  (The       *)
(* default build: with assertions the one of NeverAborts stops it.)        *)
EventuallyServes == []<>(pc = "idle" \/ skipped)

(* The assertion of XZEncode::encode() (xzi.cpp:87), met by the appends of *)
(* "write to arch's temp file" (datakeep.cpp:531 and :693): the encoder    *)
(* has a stream to append to.                                              *)
AppendHasStream == pc \in {"refill", "append"} => enc = "tmp"
=============================================================================
