------------------------------ MODULE UctSearch ------------------------------
(***************************************************************************)
(* The engine's tree search (src/usi-engine/bona/ysszero.cpp): several     *)
(* threads run uct_tree() from the root of one tree, each leaving a        *)
(* virtual loss on the moves it has gone down and taking it back on its    *)
(* way up, until the number of playouts or the main thread stops them all. *)
(*                                                                         *)
(* A position is named by the moves that lead to it (sequence_hash), so a  *)
(* node is also the move into it: Parent is the tree of the moves.         *)
(* HashShogiReadLock() is taken at its promise, stated in NodeTable: one   *)
(* entry for a position, and one thread at a time in it.  A step is what a *)
(* thread does under one lock of an entry.  The figures of an entry that   *)
(* is not in the table are zero, as create_node() leaves them.  The value  *)
(* of a move is kept as games * value, less what the former search left.   *)
(***************************************************************************)
EXTENDS Integers, FiniteSets, FiniteSetsExt, Functions

CONSTANTS Thread,      \* the search threads
          Main,        \* the one that looks at the input, the time, the table
          Limit,       \* nLimitUctLoop
          Node,        \* the positions of the tree
          Root,
          Parent,      \* the position a move is made in
          Depth,       \* ply
          MaxPly,      \* PLY_MAX - 11: from here on only evaluations
          Illegal,     \* moves that may not be made (perpetual check)
          Final,       \* moves that end the game: repetition, declaration
          Value,       \* of a position, for the side to move
          MaxBase      \* bound: games a move has from the former search

Edge == Node \ {Root}

ASSUME ThreadsAssumption ==
  IsFiniteSet(Thread) /\ Main \in Thread /\ Limit \in Nat /\ MaxBase \in Nat
    /\ Cardinality(Thread) <= Limit                   \* init_yss_zero()
ASSUME TreeAssumption ==
  /\ Root \in Node
  /\ Parent \in [Edge -> Node] /\ Depth \in [Node -> Nat \ {0}]
  /\ MaxPly \in Nat /\ Depth[Root] = 1
  /\ \A c \in Edge : Depth[c] = Depth[Parent[c]] + 1
  /\ Illegal \subseteq Edge /\ Final \subseteq Edge \ Illegal
  /\ Value \in [Node -> Int]

VARIABLES
  node,    \* the positions that have an entry (deleted = 0)
  marked,  \* moves whose value is ILLEGAL_MOVE
  games,   \* CHILD::games
  sum,     \* CHILD::games * CHILD::value, less that of the former search
  vl,      \* CHILD::acc_virtual_loss
  gs,      \* HASH_SHOGI::games_sum, less that of the former search
  pc,      \* where a thread is
  at,      \* the position it is in
  stack,   \* the moves it has gone down, its calls of uct_tree()
  win,     \* what the last call returned
  got,     \* what inc_uct_count() gave it last
  count,   \* uct_count
  stop,    \* stop_search_flag
  kept,    \* (fixed) the entries the former search left
  base     \* (fixed) the games the moves had then

table == <<node, marked, games, sum, vl, gs>>
place == <<pc, at, stack, win>>
ends  == <<got, count, stop>>
start == <<kept, base>>
vars  == <<table, place, ends, start>>

Children(n) == {c \in Edge : Parent[c] = n}
Legal(n) == Children(n) \ Illegal

ASSUME MovesAssumption ==             \* SHOGI_MOVES_MAX in generate_all_move()
  \A n \in Node : IsFiniteSet(Children(n))

TypeOK ==
  /\ node \subseteq Node /\ marked \subseteq Illegal
  /\ games \in [Edge -> Nat] /\ vl \in [Edge -> Nat]
  /\ sum \in [Edge -> Int] /\ gs \in [Node -> Nat]
  /\ pc \in [Thread -> {"enter", "eval", "leaf", "down", "back",
                        "count", "limit", "test", "done"}]
  /\ at \in [Thread -> Node] /\ stack \in [Thread -> SUBSET Edge]
  /\ win \in [Thread -> Int] /\ got \in [Thread -> Nat]
  /\ count \in Nat /\ stop \in BOOLEAN
  /\ kept \subseteq Node /\ base \in [Edge -> Nat]

\* What hash_half_del() may leave: an entry is as old as its youngest
\* descendant, so it goes after them; a move with an entry has been played,
\* unless uct_search_start() has reset the visits of the root.
Init ==
  /\ kept \in SUBSET (Node \ Final)
  /\ \A c \in kept \ {Root} : Parent[c] \in kept /\ c \notin Illegal
  /\ base \in [Edge -> 0..MaxBase]
  /\ \A c \in Edge : base[c] > 0 => Parent[c] \in kept /\ c \notin Illegal
  /\ \E reset \in BOOLEAN :
       /\ \A c \in Children(Root) : reset => base[c] = 0
       /\ \A c \in kept \ {Root} : base[c] = 0 => reset /\ Parent[c] = Root
  /\ node = kept \cup {Root}
  /\ marked \in SUBSET {c \in Illegal : Parent[c] \in kept}
  /\ games = base
  /\ sum = [c \in Edge |-> 0] /\ vl = [c \in Edge |-> 0]
  /\ gs = [n \in Node |-> 0]
  /\ pc = [t \in Thread |-> "enter"] /\ at = [t \in Thread |-> Root]
  /\ stack = [t \in Thread |-> {}] /\ win = [t \in Thread |-> 0]
  /\ got = [t \in Thread |-> 0] /\ count = 0 /\ stop = FALSE

-----------------------------------------------------------------------------
(* uct_tree *)

\* The end of a visit of Parent[c]: the move c is given the result w.
Score(c, w) ==
  /\ games' = [games EXCEPT ![c] = @ + 1]
  /\ sum' = [sum EXCEPT ![c] = @ + w]
  /\ gs' = [gs EXCEPT ![Parent[c]] = @ + 1]

\* uct_tree() returns w from n: to uct_tree_loop(), or to the call above.
Return(t, n, w) ==
  /\ win' = [win EXCEPT ![t] = w]
  /\ at' = [at EXCEPT ![t] = n]
  /\ pc' = [pc EXCEPT ![t] = IF n = Root THEN "count" ELSE "back"]

NoMove_Again(t) ==                               \* a mutant: select_again
  /\ Legal(at[t]) = {}
  /\ UNCHANGED <<games, sum, vl, gs, stack, pc, at, win>>

\* Nothing can be played: mated, and nothing is counted.
NoMove(t) ==
  /\ Legal(at[t]) = {}
  /\ Children(at[t]) \subseteq marked'
  /\ Return(t, at[t], -1)
  /\ UNCHANGED <<games, sum, vl, gs, stack>>

\* The move ends the game: its value is known.
EndsGame(t, c) ==
  /\ c \in Final
  /\ Score(c, -Value[c])
  /\ Return(t, at[t], -Value[c])
  /\ UNCHANGED <<vl, stack>>

\* pc->games == 0 || force_do_playout
ToEvaluate(c) == games[c] = 0 \/ Depth[Parent[c]] >= MaxPly

\* The move is to be evaluated: the lock of this entry is given up.
Fresh(t, c) ==
  /\ c \notin Final /\ ToEvaluate(c)
  /\ pc' = [pc EXCEPT ![t] = "eval"]
  /\ at' = [at EXCEPT ![t] = c]
  /\ UNCHANGED <<games, sum, vl, gs, stack, win>>

\* A virtual loss is left on the move and the search goes on below it.
Down(t, c) ==
  /\ games' = [games EXCEPT ![c] = @ + 1]
  /\ sum' = [sum EXCEPT ![c] = @ - 1]
  /\ gs' = [gs EXCEPT ![Parent[c]] = @ + 1]
  /\ vl' = [vl EXCEPT ![c] = @ + 1]
  /\ stack' = [stack EXCEPT ![t] = @ \cup {c}]
  /\ pc' = [pc EXCEPT ![t] = "enter"]
  /\ at' = [at EXCEPT ![t] = c]
  /\ UNCHANGED win

\* A visit: the entry is made if there is none, and the formula (left open)
\* picks a move; those that prove illegal are marked and it picks again.
Enter(t) ==
  /\ pc[t] = "enter"
  /\ node' = node \cup {at[t]}
  /\ \E skip \in SUBSET ((Children(at[t]) \cap Illegal) \ marked) :
       marked' = marked \cup skip
  /\ \/ NoMove(t)
     \/ \E c \in Legal(at[t]) :
          \/ EndsGame(t, c)
          \/ Fresh(t, c)
          \/ c \notin Final /\ ~ToEvaluate(c) /\ Down(t, c)
  /\ UNCHANGED <<ends, start>>

\* Under the lock of the child: a new entry is evaluated and is a leaf; one
\* another thread has made meanwhile is gone down into.
GoesDown_Never(c) == FALSE                                     \* a mutant
GoesDown(c) == c \in node /\ Depth[Parent[c]] < MaxPly

Evaluate(t) ==
  /\ pc[t] = "eval"
  /\ node' = node \cup {at[t]}
  /\ win' = [win EXCEPT ![t] = -Value[at[t]]]
  /\ pc' = [pc EXCEPT ![t] = IF GoesDown(at[t]) THEN "down" ELSE "leaf"]
  /\ UNCHANGED <<marked, games, sum, vl, gs, at, stack, ends, start>>

\* Back under the lock of the parent, down into a child made meanwhile.
DownAfter(t) ==
  /\ pc[t] = "down"
  /\ Down(t, at[t])
  /\ UNCHANGED <<node, marked, ends, start>>

\* Back under the lock of the parent with the evaluation of a leaf.
Leaf(t) ==
  /\ pc[t] = "leaf"
  /\ Score(at[t], win[t])
  /\ Return(t, Parent[at[t]], win[t])
  /\ UNCHANGED <<node, marked, vl, stack, ends, start>>

\* A call has returned: the virtual loss is taken back, the result counted.
\* The games go down and up again; the value starts anew where they reach 0.
Undone(c) == IF games[c] = 1 THEN 0 ELSE sum[c] + 1

Back_KeepsLoss(t) ==                           \* a mutant: not undone where
  /\ pc[t] = "back"                            \* no game would be left
  /\ vl' = [vl EXCEPT ![at[t]] = IF games[at[t]] = 1 THEN @ ELSE @ - 1]
  /\ sum' = [sum EXCEPT ![at[t]] = Undone(at[t]) - win[t]]
  /\ stack' = [stack EXCEPT ![t] = @ \ {at[t]}]
  /\ Return(t, Parent[at[t]], -win[t])
  /\ UNCHANGED <<node, marked, games, gs, ends, start>>
Back(t) ==
  /\ pc[t] = "back"
  /\ vl' = [vl EXCEPT ![at[t]] = @ - 1]
  /\ sum' = [sum EXCEPT ![at[t]] = Undone(at[t]) - win[t]]
  /\ stack' = [stack EXCEPT ![t] = @ \ {at[t]}]
  /\ Return(t, Parent[at[t]], -win[t])
  /\ UNCHANGED <<node, marked, games, gs, ends, start>>

-----------------------------------------------------------------------------
(* uct_tree_loop *)

\* inc_uct_count(): the atomic increment,
Count(t) ==
  /\ pc[t] = "count"
  /\ count' = count + 1
  /\ got' = [got EXCEPT ![t] = count + 1]
  /\ pc' = [pc EXCEPT ![t] = "limit"]
  /\ UNCHANGED <<table, at, stack, win, stop, start>>

\* and the test of what it gave; the main thread may also stop the search
\* (the input, the time, a full table, a search that no longer gains).
AtLimit_Late(n) == n > Limit + 1 - Cardinality(Thread)         \* a mutant
AtLimit(n) == n >= Limit + 1 - Cardinality(Thread)

CheckLimit(t) ==
  /\ pc[t] = "limit"
  /\ \E asked \in IF t = Main THEN BOOLEAN ELSE {FALSE} :
       stop' = (stop \/ AtLimit(got[t]) \/ asked)
  /\ pc' = [pc EXCEPT ![t] = "test"]
  /\ UNCHANGED <<table, at, stack, win, got, count, start>>

\* is_stop_search(): the thread leaves, or starts another playout.
TestStop(t) ==
  /\ pc[t] = "test"
  /\ pc' = [pc EXCEPT ![t] = IF stop THEN "done" ELSE "enter"]
  /\ UNCHANGED <<table, at, stack, win, ends, start>>

Step(t) ==
  \/ Enter(t) \/ Evaluate(t) \/ DownAfter(t) \/ Leaf(t) \/ Back(t)
  \/ Count(t) \/ CheckLimit(t) \/ TestStop(t)

Next == \E t \in Thread : Step(t)

Spec == Init /\ [][Next]_vars

FairSpec == Spec /\ \A t \in Thread : WF_vars(Step(t))

-----------------------------------------------------------------------------
(* Properties *)

Finished == \A t \in Thread : pc[t] = "done"

Sum(f, S) == FoldFunctionOnSet(LAMBDA x, y : x + y, 0, f, S)

\* The virtual losses on a move are the threads that are below it, whatever
\* the order in which they come back, and are part of its games: neither the
\* games nor the visits that are left without the losses are ever negative
\* (the two checks at ysszero.cpp:1593 and :1613).
LossesAreThreads ==
  /\ TypeOK
  /\ \A c \in Edge : /\ vl[c] = Cardinality({t \in Thread : c \in stack[t]})
                     /\ vl[c] <= games[c]

\* A position whose first visit was an evaluation in this search.
OneLeaf(c) == IF c \in node \ kept /\ base[c] = 0 THEN 1 ELSE 0

\* games_sum is the sum over the moves at all times.  When the threads have
\* left, the root has one visit for every playout, and the games and the
\* value of a move are those of its evaluation and of the moves below it: no
\* virtual loss is left in them, and a thread that found a leaf evaluated by
\* another went down (ysszero.cpp:1564) and did not count the evaluation
\* twice, unless the leaf is beyond the last ply.
CountsAddUp ==
  /\ \A n \in Node :
       gs[n] = Sum([c \in Edge |-> games[c] - base[c]], Children(n))
  /\ Finished =>
       /\ Legal(Root) # {} => gs[Root] = count
       /\ \A c \in Edge \ Final :
            Legal(c) # {} /\ Depth[c] <= MaxPly =>
              /\ games[c] - base[c] = OneLeaf(c) + gs[c]
              /\ sum[c] = -(OneLeaf(c) * Value[c] + Sum(sum, Children(c)))

\* The search never makes more playouts than it was given (nLimitUctLoop),
\* though each thread tests the limit after its playout and on its own
\* (ysszero.cpp:762).
BudgetKept == count <= Limit

\* Every search ends: all threads leave uct_tree_loop(), also those that
\* wait for an evaluation while another sets the flag.
SearchEnds == <>Finished
=============================================================================
