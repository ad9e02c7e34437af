# Formal models of AobaZero (MagicShogi)

This directory holds TLA+ specifications of the distributed self-play system in
this repository, the TLC configurations that check them, and machine-checked
proofs about them (TLAPS). The models are read from the code; when a comment or
a document says something else, the difference is a finding (see *Findings*).

## 1. The system

Volunteers run a **client** (`autousi`): it downloads the current network from
the **server**, lets **engines** (child processes, `aobaz`) play games against
themselves, and sends the game records back. The server numbers the records,
archives them, and publishes new networks.

```
 client process                                            server process
 ┌───────────────────────────────────────────┐            ┌────────────────────────────┐
 │ main thread: PlayManager ── JQueue ──► sender ── TCP ──► Listen (select loop)         │
 │   │  ▲ lines (Child readers)        reader ◄─ TCP ──  │   │ JQueue                    │
 │   ▼  │                               │  weight file   │   ▼                           │
 │ engines (processes)                  ▼                │ RecKeep worker ─► pool, archs │
 │   │  ▲ shared memory, semaphores  disk (blocks)       │ WghtKeep worker ─► weights    │
 │   ▼  │                                                │ Logger                        │
 │ NNetService: srv, push, wait threads ─► GPU/CPU       └────────────────────────────┘
 └───────────────────────────────────────────┘
```

### Components, their state and operations

| Component | State | Operations | What makes it hard |
|---|---|---|---|
| `RecKeep` (server/datakeep.cpp) | pool directory, archive directory, temporary archive, `ema.cfg`; in memory the pool's numbers, redundancy table, averages, encoder | `start()`, `add()`, `transact()`, `end()` | crash between any two file operations; three copies of the same records |
| `JQueue` (common/jqueue) | `MaxLen + 2` slots moved between four places | `get_free`, `push_free`, `pop`, `end` | two threads, one condition variable for both directions, slots used outside the lock |
| `NNetService`, `NNetIPC` (common) | job table in shared memory, counting semaphores, batch queues, the network | register, feed forward, reset, NOP, end; threads srv/push/wait | several processes and threads, batches, replacing the network in use, death of the parent |
| `WghtKeep` | map of networks, newest one | poll directory, publish | read by other threads while it changes |
| `Listen`, `Peer` | peers, receive buffers, rate limiter rings, deny list | accept, receive, answer, close | partial input, limits at boundaries |
| `Client` | weight file and its blocks on disk, record queue, connection flags | `get_new_wght`, reader, sender, `end` | reconnects, crash in the middle of a download, resending |
| `PlayManager`, `USIEngine` | engines, their flags, current network | `start`, `manage_play`, `end` | asynchronous lines of child processes, changing networks between games |
| `Child` | reader threads, ready flags and counter | `wait`, `getline_*`, `close` | flags shared with reader threads |
| `HashTable` (common/hashtbl.hpp) | chained entries in least-recently-used order | `operator[]` | linked lists by index |
| `Logger` | current log, archives | `out`, rotation | restart numbering |
| Engine search (usi-engine/bona/ysszero.cpp) | hash of positions with locks, counts, virtual losses | select, expand, back up | many threads, unlock during evaluation |
| `OpenCLScheduler`, `NNCache`, `ThreadPool` | batch queue, FIFO cache | forward, insert, lookup | timeouts, callers that still wait when it stops |

`RecKeep` and `Client` receive their work through a `JQueue`; `NNetService` is
driven by `PlayManager` and by the engines; `Listen` calls `RecKeep::add()` and
reads what `WghtKeep` publishes; `Client` and `Listen` speak a request/answer
protocol over TCP.

What should hold of each:

- *RecKeep*: no accepted record is lost, changed or given another's number, at
  whatever point the process dies; archives hold exactly their cluster; a
  restart is accepted unless the disk refused a removal.
- *JQueue*: no slot is used by two threads; a thread that could go on is woken;
  jobs come out once each.
- *NNetService*: every engine that asks is answered, with the evaluation of its
  own position by the network in service; the network is not replaced under a
  batch; everything ends when asked to, or when the parent dies.
- *WghtKeep/Listen/Client* (weight download): what the client puts together is a
  network the server published, complete, also after crashes and reconnects.
- *Client sender with Listen and RecKeep*: a record is stored once, whole, or counted as
  discarded; what counts as sent is lost only to a fault somebody can name or to
  the server's tests.
- *PlayManager*: an engine in a game gets its next move, the network changes at
  rest, the client ends when it is told to.
- *Child*: the ready counter equals the number of raised flags.
- *Engine search*: virtual losses return to zero, counts add up over the threads,
  the number of playouts is kept; a position has one entry in a search.

The hazards behind these properties are listed, each at its line, in
`PROJECT.json` under `hazards`.

## 2. Modules

| Module | Models |
|---|---|
| `RecLog` | abstract: an append-only log of records, numbered in sequence |
| `RecKeep` | `RecKeep` of the server; refines `RecLog` |
| `JobStack` | abstract: a bounded last-in first-out buffer with one job in hand |
| `JQueue` | `JQueue` with one producer and one consumer; refines `JobStack` |
| `NNEval` | abstract: questions, answers, and a network replaced only in silence |
| `NNetService` | `NNetService`, `NNetIPC` and the part of `PlayManager` that drives them; refines `NNEval` |
| `WghtFeed` | abstract: networks are published in order, a client holds and uses complete ones |
| `WghtSync` | `WghtKeep`, `Listen`'s reader peers and `Client`'s weight download; refines `WghtFeed` |
| `RecFate` | abstract: what may become of a record, from its game to the archives |
| `Delivery` | `Client`'s queue and sender, `Listen`'s peers and buffers, `RecKeep`'s queue; refines `RecFate` |
| `Play` | `PlayManager`, `USIEngine`, `Child` and the main loop of `autousi` |
| `UctSearch` | the engine's search threads in one tree |
| `NodeTable` | abstract: one record for a position in a search, one thread in it |
| `PosHash` | the engine's probing hash table; refines `NodeTable` |
| `..._proofs` | theorems about `RecKeep`, `JQueue`, `UctSearch`, `PosHash`, `WghtSync`, `Play`, `NNetService`, `Delivery` |
| `MC...` | model-checking values of each |

How they compose: `Delivery` takes the queues at the promise of `JobStack` and
leaves the disk to `RecKeep`; `UctSearch` takes its table at the promise of
`NodeTable`; `Play` and `NNetService` both hold the condition on which the
network is replaced, `Play` with the lines of the engines, `NNetService` with
their requests.

Definitions with a comment *mutant* are faulty variants of the definition that
follows them; no specification uses them. Each belongs to a property which must
fail when the variant takes the definition's place (`PROJECT.json`, `mutants`).

### RecKeep

The grain is one file-system operation: an action is the code from one `rename`,
`remove` or file creation to the next, `pc` says which one comes, and `Crash`
may come between any two. A crash or a `die()` keeps `files`, `archs`,
`archtmp`, `emafile` and forgets the rest. `start()` is `Start` (listing and
sequence check), `Trim` ("remove reminders"), `Boot`/`BootWrite`/`BootRemove`
("archive clusters") and `Refill` ("write to arch's temp file");
`transact()` is `Duplicate`/`Receive`, `RenamePool`, `UpdateEma`/`RenameEma`,
`Cluster`, `RenameArch`, `RemovePool`, `AppendArch`; `end()` is `Quit`.

Data: a record is its number and its game (identified by crc64 in the code); an
archive is a sequence of records with the separators written before them; an
average is the number of samples it has absorbed. The tests that turn a record
down are in `Delivery`; `Game` is the set of those that pass them. Power failures
are not modelled: what `rename` and `close` have done survives a crash of the
process.

Two things the code leaves to the build or to the disk are constants. `NDEBUG` says
whether `start()` tests its assertions (`RefillAsserts`; the Makefile's default is a
build without them). `RemoveMayFail` lets a `remove()` of `start()`'s archive loop
fail, which the code does not look at (datakeep.cpp:529): `skipped` is history, that
this has happened, and a later `start()` may then find a gap and refuse the pool.

### JQueue

A critical section is one action. Evaluating the predicate of a wait and
blocking are two actions, with the mutex held between them, because `end()` sets
its flag without the mutex and can come in between. Spurious wakeups are
possible at any time. The consumer's work on a job is the action `Handle`.

### NNetService

Every critical section of the job table or of `_m_entries` is one action; what
follows outside it (raising the semaphore, notifying) is another. NNReset is the
exception: `worker_srv()` holds `_m_entries` from the first look at the queues
until the network is loaded (`SrvReset`, `SrvResetIds`, `SrvSignal`, `SrvLoad`),
and the guards `spc \notin Resetting` of the other threads are that mutex.
`_m_srv` is held by the manager from the job it enqueues until it waits: srv's
guards `opc \in OwnerWaits`.

| Model | Code |
|---|---|
| `TakeId`, `Register`, `Post`, `PickUp` | `NNetIPC::start()` |
| `Ask`, `Post`, `PickUp`, `Orphan` | `submit_block()`, `sem_wait()` |
| `NNReset`, `OwnerPost`, `OwnerWoken` | `NNetService::nnreset()` |
| `WaitNop`, `OwnerPost`, `InService` | `NNetService::wait()` |
| `Update`, `Go`, `BestMove`, `Quit` | `PlayManager::manage_play()`, `end()` |
| `Destroy`, `SetQuit`, `EndNotify`, `Join` | `~NNetService()` |
| `Take`, `Srv...` | `worker_srv()` |
| `Push...` | `worker_push()` |
| `Wait...` | `worker_wait()` |

Data: positions and networks are values; what a network says of a position is
the pair of both, so that an answer tells which question it answers. Contents
of a page and of a job that nobody reads again are dropped from the state. The
pool of empty batches is not modelled (it grows when empty). An engine has one
`NNetIPC` and one request at a time, as the self-play engines do; the engine
that batches over its own threads (`flag_detach`) is not modelled. A process
that dies while it holds the semaphore of the table is not modelled either. The
manager's death is `ManagerDies`: a `die()`, as that of `manage_play()` at the end of
an engine (play.cpp:663-667), or a kill, at any moment.

### WghtSync

| Model | Code |
|---|---|
| `Upload` | a network's file is put into the directory, half first |
| `FindWght`, `ListWght`, `PublishWght` | `WghtKeep::get_new_wght()`: the file is in the list on disk, in the map, then the newest |
| `Accept`, `HandleRecv`, `HandleSend`, `Lose` | `Listen`: one reader peer |
| `Start`, `RecvHeader` | `Client::start()` up to the first network |
| `RecvInfo` ... `Install` | `get_new_wght()`, a step per file operation |
| `Poll`, `Fail` | `reader()` |
| `Crash`, `ServerCrash` | the end of a process at any step |

A network is its number and its number of blocks; a block file is the number of
the network its content is of, and whether it is whole. What makes a file
acceptable (it decodes, its crc is right) is modelled by what it tells apart: a
file of whole blocks of one network. A client that has put a damaged file together
is refused by it in every later `start()`; that takes a death in the middle of
a block's write (`DamageNeedsTear`). `start()` counts its failures over the
whole first download, `reader()` anew after each success; both are in the model.

`handle_recv()` lets a block pass that starts exactly at the end of the network
(listen.cpp:511), which `handle_send()` does not expect (listen.cpp:412). Such a block
exists when the last block is full: `Aligned` is the set of the networks of which this
is so, and `Beyond` the test as it is in the code. That nobody asks for it is a
property, `NoEmptyBlock`.

### Delivery

| Model | Code |
|---|---|
| `AddRec`, `EndClient` | `Client::add_rec()`, `end()` |
| `Pop` ... `Fail` | `Client::sender()`: header, head and body of a record, retries, giving up |
| `HandleConnect`, `SendHeader`, `HandleRecv`, `HandleEof`, `Lose` | `Listen`: accept into a free peer, greet, read commands as far as they are whole, end of file, time out or broken connection |
| `PushFree`, `Take`, `Transact` | `RecKeep::add()`, `worker()`, `transact()` with the redundancy table |
| `QuitServer`, `Exit`, `Crash`, `Start` | `main()` of the server, its death and restart |

A record is two chunks, so that half of one can be under way when a connection
breaks. The server refuses some records silently: those longer than `maxlen_rec`, at
which it closes the connection (`TooLarge`, listen.cpp:471-475), and those whose
text or length `transact()` turns down (`Unfit`, datakeep.cpp:598-635). Their
clients count them as sent all the same. `hit` is history: the records that a fault,
an end of the server or the ignore list took away. `LostOnlyIfHit` says that nothing
else loses a record that was sent, and that one that was not is lost only by a
client told to quit; `Settled` does not tell a loss with a reason from one without.
The server's configuration is the same after every restart; a `die()` of the server
(as at an unknown node type, examine_record()) is a crash like any other. On a clean
end, records still in the queues are dropped and not counted (client and server
alike): a record in the client's queue is then "lost", one in the server's is in
`hit`.

### Play

Each reader thread offers one line in the table of flags (`Offer`); the main
thread copies the flags (`Round`), takes a line of each stream that had one
(`Turn...`, `Drain`), replaces the network when no engine thinks (`Update`),
and ends (`Quit`, `Wait`, `Reap`). An engine obeys its commands one at a time
(`Obey`, `proce_usi()` of usi-engine/bona/proce.cpp) and ends a search with a best
move (`Move`, ysszero.cpp:353-392), in its own time; the mortal ones die anywhere.
Commands without an answer and lines that change no flag are left out. A game is a run
of best moves that may end at any of them; the record it makes is `Delivery`'s.
A consequence of the code that the model shows and `PlaysOn` respects: an engine
whose game ends while there is no connection stays idle until a new network
comes with a connection. (Not in the model: the record of a game names the
network the game was started with, also when the network is replaced within it,
play.cpp:368.)

### UctSearch

A step is what a thread does under one lock of an entry; uct_tree() gives the
entry of a position up while it evaluates a child and while it searches below it,
and other threads come in between. `stack` is the thread's calls of itself.
`Init` allows every tree that `hash_half_del()` and `fResetRootVisit` may leave of
a former search. The selection formula is left open (any legal move), so that what
is shown holds for every formula, noise and network. The value of a
move is kept as an exact sum where the code keeps a floating-point mean.
Mate search and exact values are off in the code and not modelled.

### PosHash

A step is one probe under the lock of the entry. The compromise of the scan
(it gives up after `TRY_MAX` probes once it has seen an unused entry) leaves
entries that are not found any more when `hash_half_del()` has made holes; such
states are reached, and within a search a position still has one record,
because nothing is deleted during a search. `LockAgain` is `uct_tree()` coming back
to an entry without a lookup. `record` is history: the entry a
position has been given in this search.

## 3. Runs

| Run | Configuration | What it shows |
|---|---|---|
| `reckeep_safe` | `RecKeepSafe.cfg` | with crashes anywhere and removals that fail: no record is lost or changed (refinement of `RecLog`), archives are exact, `start()` refuses a pool only after a failed removal, averages miss only what a crash took, and a server that is started again gets to serve |
| `reckeep_encoder` | `RecKeepEncoder.cfg` | finding 1 |
| `reckeep_full` | `RecKeepFull.cfg` | finding 4 |
| `jqueue` | `JQueue.cfg` | slots, wakeups, refinement of `JobStack`; a blocked producer and a sleeping consumer go on |
| `jqueue_end` | `JQueueEnd.cfg` | finding 2 |
| `nnet` | `NNetService.cfg` | no request is lost or doubled, answers are right (refinement of `NNEval`), a replacement disturbs nobody; answers, replacements and the destructor complete; when the manager's process dies, at any moment, the engines leave |
| `nnet_update` | `NNetServiceUpdate.cfg` | finding 3 |
| `wght_sync` | `WghtSync.cfg` | blocks are never mixed, none is asked for beyond the end, the client plays with complete networks in order (refinement of `WghtFeed`) and ends up with the newest |
| `delivery` | `Delivery.cfg` | a record is stored once, whole, or refused or given up (refinement of `RecFate`); what is sent is lost only to a refusal or a fault; no record waits for ever |
| `play` | `Play.cfg` | the shared counters are exact, engines move on, `end()` returns |
| `uct_search` | `UctSearch.cfg` | virtual losses return, counts and values add up, the budget is kept, the search ends |
| `pos_hash` | `PosHash.cfg` | one record and one owner for a position (refinement of `NodeTable`); every lookup returns |

### Bounds, and why they are enough

- `RecKeep`: `SizeCluster` is 10000 in the code and 3 (2 in `reckeep_encoder`)
  here: 3 has a first, a middle and a last record of a cluster, and the
  boundary cases `n - 1`, `n`, `n + 1` are all different. `MaxNo = 7` gives two
  full clusters and the record after them, so the archive of one cluster can
  meet what an interrupted removal left of the one before. `MaxCrash = 2`: a
  crash, and a crash during the restart that repairs it. `RedunCap = 2`
  with 3 games: eviction happens. Any removal of `start()`'s archive loop may fail.
  `ResentRecordKnown` speaks of the record stored last only: how far back the table
  reaches when other records come between is its capacity, which a run cannot judge.
- `JQueue`: `MaxLen = 3`, two kinds of jobs. Slots behave alike;
  3 gives a queue that is empty, partly filled and full, and a middle element.
- `NNetService`: two engines, two positions, batches of 2, so that a full batch and a
  partial one exist. Networks 1 and 2 give a replacement after a first network in
  service. `MaxWait` is 16 in the code and 0 here, so that the limit is met at all with
  so few engines; a wait queue that is not empty and below its limit, and a full
  batch behind another, take more of them and are covered by the theorems only, which
  hold for every number of engines, batch size and limit (safety; not liveness).
- `WghtSync`: networks of 2, 3 and 2 blocks, so that a successor has more and
  fewer blocks than the files left behind, the last one with a full last block
  (`Aligned`); three faults (lost connections, deaths)
  in one history. `MaxRetry = 1`: giving up happens.
- `Delivery`: two clients with a record each, two connections for one peer slot
  (in the code as many peers as `_max_accept`), queues of one entry, two faults.
  The slot is fought for and reused, both queues fill, and a retry meets a
  second fault. The first client's address may be ignored, the second's record may
  be too large or turned down.
- `Play`: two engines, one of which may die, four reader threads, two networks.
  `MaxNumChild = 4`: with fewer than the number of streams the client can die at
  child.cpp:56 without cause; `NoInternalError` holds from that number on, and says
  nothing of more engines than `maxnum_child / 2` (512 in the code).
- `UctSearch`: two threads; limit 4; a root with an ordinary move, a mating and an
  illegal one, below the first a move beyond the last ply and one that ends the
  game. Both threads can be at the same leaf, below the same move and at the
  limit together. `MaxBase = 1`: a former search has left games or none.
- `PosHash`: two threads, three positions that share their first probes, four
  entries, `TryMax = 1`, three visits of a thread per search and any number of
  searches. Deletions and the compromise happen; deadlock is checked.
- Deadlock is checked where the system never stops by itself (`RecKeep`,
  `JQueue`, `Play`, `PosHash`). It is not checked where it may: `NNetService` when
  the manager is done or dead, `WghtSync` when a damaged file keeps the client from
  starting or there is nothing left to fetch, `Delivery` when the clients have
  ended, `UctSearch` when the search has. There the liveness properties say what
  must not hang.

### Fairness

- `RecKeep`: start() and transact() run to the end unless the process dies; an
  operator restarts a server that is down and kills one that hangs (without the
  second, finding 1 is a permanent stop). Nothing is assumed of clients.
- `JQueue`: strong fairness on the two critical sections that need the mutex (the
  mutex starves nobody), weak on other steps of running threads. Nothing about
  arrivals, `end()` or spurious wakeups.
- `NNetService`: weak fairness for each thread and each engine, and for what the
  manager has begun; strong fairness of `BestMove`: a search asks only so many
  questions (its playouts are bounded). No fairness for `Update`, `Go`, `Quit`,
  deaths or spurious wakeups.

- `WghtSync`: weak fairness of the keeper's thread, of the select loop and of
  the client's thread (with restarts). Nothing of uploads and faults.
- `Delivery`: weak fairness of every sender, of each peer (the select loop serves
  every ready one in a turn), of the keeper's worker, of `Exit` and `Start`.
  Nothing of games, ends of clients and faults.
- `Play`: weak fairness of the main thread, each reader and each living engine.
- `UctSearch`, `PosHash`: weak fairness of each thread; in `PosHash` of lookups and
  releases. A thread that waits for a lock holds none, here as in the code
  (ysszero.cpp:1558-1570), so a holder always gets to release it.

### Environment assumptions

`EnginesFirst = TRUE` (run `nnet`) assumes that no
new network reaches the manager between the start of an engine and its
registration, seconds at the start of a client that runs for days. The code does
not ensure it (finding 3).

`ThreadsAssumption` of `UctSearch`: no more threads than playouts, which
`init_yss_zero()` ensures by going on with one thread (ysszero.cpp:1913-1917).
`MovesAssumption`: a position has finitely many moves (`generate_all_move()` stops
at more than `SHOGI_MOVES_MAX`, ysszero.cpp:267).

## 4. Proofs

All theorems are proved by `tlapm` for every value of the constants under the
named assumptions of the modules.

**RecKeep** (`RecKeep_proofs`). For every cluster size, every number of games,
any table capacity, and any number and position of crashes:

| Theorem | States |
|---|---|
| `TypeCorrect` | `[]TypeOK` |
| `ArchivesSafe` | `[]ArchivesExact`: a complete archive holds exactly its cluster |
| `StartSafe` | `[]StartAccepts`: a pool is refused only after a failed removal; what is kept begins at a cluster |
| `MirrorSafe` | `[]ArchTmpMirrorsPool` |
| `LogRefined` | `LogSpec`: the disk implements `RecLog` |
| `EmaSafe` | `[]EmaMissesOnlyCrashes` |
| `ResentSafe` | `[]ResentRecordKnown` |

None of the safety properties is inductive: that a removal is harmless needs to
know that the cluster it empties is archived, which needs to know what
`archtmp` held when it was renamed, which needs every append before. `IInv` adds

- of the disk (`DiskInv`): a number has one record wherever it is found
  (`Unique`), numbers have no gap and the newest is in the pool (`Numbers`), a
  cluster is archived only when a later record exists (`Behind`), and a file
  above a gap in its cluster belongs to an archived cluster (`Holes`). These
  hold in every state, so they survive any crash, and they are what `start()`
  needs;
- of the memory (`MemInv`): what each `pc` may believe of the pool, where the
  cluster being moved ends, where the record being stored is, and what prefix
  of the pool `archtmp` mirrors.

Each action is a lemma (`...Inv`), which rests on lemmas about the disk alone
(`ArchivePut`, `RenameAdds`, `RemoveKeeps`) and about arithmetic of clusters. The
refinement shows each step to accept the next record (`RenamePool`) or to leave
`Kept` unchanged. The last two theorems use this: `SampleInv` says that a stored
sample is counted in `ema.cfg`, about to be, or missed by one of the crashes, and
`TableInv` that from its number on a record is in the table.

**JQueue** (`JQueue_proofs`). For every capacity and set of jobs: `SlotsSafe`
(`TypeOK` and `SlotsPartition`), `WakeupsSafe` (`NoLostWakeup`), `QueueIsStack`
(`StackSpec`). The strengthening says that what a thread saw before it blocks
still holds (`PredicateHolds`: it keeps the mutex) and where the jobs are
(`JobsInPlace`).

**UctSearch** (`UctSearch_proofs`). For every tree, value, number of threads and
former search: `LossesExact` (`TypeOK`, `LossesAreThreads`), `Budget`
(`BudgetKept`) and `CountsExact` (`CountsAddUp`). A thread's `stack` is the path
from its position to the root (`PathOK`, by `Depth`), so that it goes down no move
twice; the number of threads below a move changes by one with each of `Down` and
`Back`. For the budget, a thread whose count has reached `Limit + 1 - T` never
returns to the tree: those that have left are as many as the counts from there on,
at most `T`.

`CountsAddUp` speaks of the tree at rest; `Books` is what holds while the threads
change it. A visit is counted in two places at two moments: in the position and,
by the return to it, in the move into it. `Due` is how far a thread has got with
that for one position (+1: it has counted the move into it and no move of it yet;
-1: it has made the evaluation and not counted the move), and `Owed` the value it
carries. Then the games of a move are its evaluation, the visits of its position
and the dues of all threads (`Balanced`), likewise its value without virtual losses
(`Valued`); at rest nothing is due. `NetOK` is what makes `Undone` right: a move
nobody has a result of has no value, so to start anew where the games reach 0
loses none. `EntryOK` is why an evaluation is counted once: a position that a
thread enters has its entry or games of the former search, and of two threads that
evaluate it only one makes the entry. The sums are the fold of the community
modules over a finite set: the library has no theorem about it, so the module
proves first that the fold exists, that any element may be taken first, and what
one changed value does to a sum (`FoldExists`, `SumTake`, `SumChange`), from the
least number of a set (`Least`) where one would use induction.

**PosHash** (`PosHash_proofs`). For every table, probe order and number of
threads: `TypesKept` (`TypeOK`) and `Implements` (`TableSpec`). The inductive
invariant says what a scan may believe of the entries it has passed although
they change behind it: entries are never deleted during a search, so an entry
in use stays so; the record of a position is the first match on its probe
sequence, within `TryMax` or with no unused entry before it; and before an
unused entry that is held there is neither an unused entry nor one of the
same position. So two threads that look for the same position meet in the same
unused entry, and the second finds it used.

**WghtSync** (`WghtSync_proofs`). For every set of networks, any number of blocks
and retries, lost connections and deaths of either side: `NeverCorrupt` (`TypeOK`,
`NoManualCleanup`), `DamageSafe` (`DamageNeedsTear`), `BlocksThere` (`NoEmptyBlock`)
and `FeedRefined` (`FeedSpec`). None of these is inductive: that what is installed
is whole needs to know that the blocks on disk are of one network, which needs to
know what a reply on its way answers. `IInv` says what the server's list holds
(`ListInv`), that at most one message is on the wire, and which command it answers,
for the same network (`WireInv`), that a client knows only networks that were
published (`KnownInv`), where the client is in its download (`ClientInv`), and of
the temporary files that those below the next block are this network's, with the
flags a death may leave (`TempInv`). In the refinement an entry into the server's
list publishes, the last block fetches, installing or starting uses, the end of a
client stops.

**Play** (`Play_proofs`). For any number of engines, of networks and of lines in
flight, and whichever engines die: `CountedThinkers` (`TypeOK`, `ThinkingExact`) and
`CountedFlags`; `NoFalseAlarm` (`NoInternalError`) under the hypothesis that the
table counts two flags for each engine (`2 * NEngine <= MaxNumChild`), without
which it is false: `Child::open()` admits `maxnum_child` children, the counter as
many flags (child.cpp:56, 191). `ThinkingExact` is not inductive: that a flag is
lowered by the right best move needs to know that there is only one. `EngInv` says
that the move an engine owes is in exactly one place (its orders, its head, the
pipe, the line its reader offers), and that an engine that has not said `usiok`
has nothing else to say; `ReaderInv`, that a copied flag is still raised when the
main thread uses it, although the readers run on.

**NNetService** (`NNetService_proofs`). For any number of engines, any batch size,
back-pressure limit and number of networks, under `EnginesFirst` (without which
finding 3 is a counterexample):

| Theorem | States |
|---|---|
| `JobsAnnounced` | `[]TicketsMatch`, with type correctness |
| `OneRequestEach` | `[]RequestOnce` |
| `NoBatchOnOldNet` | `[]NewNetInService` |
| `NoErrorInService` | `[]ResetUndisturbed`: no batch waits at an NNReset, no job behind it |
| `ServiceImplementsEval` | `EvalSpec`: the service implements `NNEval` |

All of them hold with deaths at any step. No property is inductive: that
an NNReset finds the queues empty needs to know that no engine has a request
under way, which needs to know where every request can be. `IInv` says

- of the manager (`MgrInv`): where its one job is for each of its steps, that
  while it replaces the network no engine waits and no request is anywhere, and
  which network it will find in service;
- of the ids (`IdInv`): those given out are below `idNext`, once each;
- of the requests (`OnePlace`, `OnceThere`, `PlaceInv`, `GoodInv`): seen as the set
  of places of the table, the batches and the semaphores, each id is at one place
  at most, there exactly when its engine waits, with the type and the
  position of its page. The counts of `RequestOnce` follow from these sets at
  the end, so that the steps are proved without cardinalities;
- of the pages and batches (`PageInv`, `BatchInv`): an answer in a page is the one
  its engine waits for; a batch on the network is of the network in
  service and within the buffers; and of the announcements (`TicketInv`).

Each actor's steps are lemmas by part of the invariant (`MgrStep`, `IdStep`,
`ReqStep`, `BatchStep`, `TicketStep`). In the refinement `Ask` asks, `WaitAnswer`
answers, `PickUp` picks up, `Orphan` gives up, the first step of an NNReset and the
loading replace, and the process' death kills; all other steps stutter.

**Delivery** (`Delivery_proofs`). For any number of clients, records, connections,
peers, retries and faults: `LostSafe` (`TypeOK`, `LostOnlyIfHit`), `NoGarbage` and
`FateRefined` (`FateSpec`). That a record is stored once at most is not
inductive: the table of stored records is empty after every start of the server,
so it is enough neither to look into the table nor into the archives. `IInv` says

- of a client (`ClientInv`): what it queues and holds is its own, once each, and
  neither sent nor discarded;
- of a connection (`LineInv`, `WireInv`, `OwnerInv`): it has one client and one peer
  at most, in step with its state; what its peer has received of it and what is
  on its way are together the beginning of one record, as far as its sender has
  come. So the buffer that the next user of a peer starts with matters, and
  `NoGarbage` follows;
- of the records sent (`PlaceInv`, `SentInv`): each is in one place at most (a wire,
  `add()`, the queue, the worker, the archives), and it leaves them for no
  place only by a step that adds it to `hit`, or because the server refuses it;
- of the records that are not (`KeptInv`): their client has them, unless it was told
  to quit; and of those too large (`SizeInv`): they do not get past the peer.

The lemmas follow the parts (`TypeStep`, `ClientStep`, `LinesStep`, `PlaceStep`). In
the refinement `AddRec` makes, `SendBody` sends, the last `Fail` discards,
`Transact` stores, and every other step loses records or stutters (`Disappear`).

**Only model-checked.** What a `NDEBUG = FALSE` build does is a run's question
(`reckeep_full`, finding 4), no theorem's. Liveness, which is outside the prover's
reach everywhere. Every invariant that a passing run checks is stated by a theorem.

## 5. Findings

1. `reckeep_encoder` (datakeep.cpp:531). After a crash at the right moment the
   next `start()` archives a cluster and then appends the rest of the pool with an
   encoder that has been ended; with `NDEBUG` (the default build) it loops for
   ever, without it the assertion of xzi.cpp:87 fails.
2. `jqueue_end` (jqueue.hpp:57). `end()` sets its flag and notifies without the
   mutex; the consumer may miss both and the join never returns.
3. `nnet_update` (nnet-srv.cpp:218, `ResetUndisturbed`). A network that arrives while an engine
   registers ends the client with "Internal Error", or, a step earlier or
   later, lets two engines share an id, and with it a page and a semaphore.
4. `reckeep_full` (datakeep.cpp:535). `start()` asserts that the pool it keeps is
   shorter than a cluster, and its archive loop (:497) keeps one of exactly
   `size_cluster` files; so does `transact()`, which archives only when one more record
   arrives (:677-679). After an orderly end in that state a server built with
   assertions aborts at every start; without them it goes on correctly
   (`reckeep_safe` reaches the state).

## 6. Plan

Modelled and checked: everything of section 2. Proved: `RecKeep`, `JQueue`,
`UctSearch`, `PosHash`, `WghtSync`, `Play`, `NNetService`, `Delivery`. Next, in this
order:

1. **HashTable** as a refinement of the bounded least-recently-used map that
   `RecKeep`'s `Touch` states, and the rate limiter's rings on top of it.
2. **OpenCLScheduler** with its time out and its stop, at which callers that wait
   are never answered, if the stand-alone engine is to be covered.

## 7. Not modelled, and why

- The rate limiter and the deny list of `Listen` (listen.cpp:301-333), except that
  peers may be full and connections fail: their limits are wall-clock times over
  rings of hundreds of entries. (A connection refused by the limits per second
  and minute is left open and unanswered.)
- The linked lists of `HashTable`; its promise is part of `RecKeep`.
- `Logger`: sequential text output that no other part reads.
- The header's threshold and handicap figures, which are advice to the engines.
- The stand-alone engine's OpenCL scheduler, cache and thread pool: engines of
  the self-play system ask the client's `NNetService`.
- The evaluation of networks (`NNetOCL`, `NNetCPU`, kernels) and training
  (`learn`) are numeric; move generation, the alpha-beta search, mate search and
  `shogibase` are pure functions over a state space out of TLC's reach. They are
  most of the repository's lines.
- `osi`, `iobase`, `err` are wrappers whose behaviour is modelled where they are
  used; the command line tools have no state beyond their input.

`PROJECT.json` lists every component with its status.
