--------------------------- MODULE UctSearch_proofs ---------------------------
(***************************************************************************)
(* Proofs about UctSearch, for any tree and any number of threads: the     *)
(* playouts stay within the limit (BudgetKept), the virtual losses of a    *)
(* move are the threads below it (LossesAreThreads), and games and values  *)
(* add up over the tree (CountsAddUp).                                     *)
(***************************************************************************)
EXTENDS UctSearch, FiniteSetTheorems, NaturalsInduction, WellFoundedInduction,
        TLAPS

\* The threads whose last count has reached the limit.
Late == {t \in Thread : AtLimit(got[t])}

\* The threads that have gone down a move.
Below(c) == {t \in Thread : c \in stack[t]}

\* A thread counts at most once after the limit is reached: its own count
\* sends it away.
BudgetOK ==
  /\ \A t \in Late : /\ pc[t] \in {"limit", "test", "done"}
                     /\ pc[t] # "limit" => stop
  /\ count <= Limit - Cardinality(Thread) + Cardinality(Late)

\* A thread's calls are the path from the root to where it is: one move of
\* each ply, the last one that into its position (or into the parent of the
\* position, while it evaluates a move it has not gone down).
OnMove == {"eval", "leaf", "down"}
PathOK(t) ==
  /\ \A c \in stack[t] :
       /\ Depth[c] <= Depth[at[t]]
       /\ pc[t] \in OnMove => Depth[c] < Depth[at[t]]
       /\ \A d \in stack[t] : Depth[c] = Depth[d] => c = d
       /\ Parent[c] # Root => Parent[c] \in stack[t]
  /\ pc[t] \in OnMove =>
       /\ at[t] # Root
       /\ Parent[at[t]] # Root => Parent[at[t]] \in stack[t]
  /\ pc[t] \in {"enter", "back"} => (at[t] # Root => at[t] \in stack[t])
  /\ pc[t] = "back" => at[t] # Root
  /\ pc[t] \in {"count", "limit", "test", "done"} => at[t] = Root

StackOK == \A t \in Thread : PathOK(t)

LossOK == \A c \in Edge : vl[c] = Cardinality(Below(c)) /\ vl[c] <= games[c]

Inv == TypeOK /\ StackOK /\ LossOK /\ BudgetOK

-----------------------------------------------------------------------------
(* Counting threads *)

LEMMA CountedFinite ==
  ASSUME NEW S, S \subseteq Thread
  PROVE  IsFiniteSet(S) /\ Cardinality(S) \in Nat
           /\ Cardinality(S) <= Cardinality(Thread)
  BY FS_Subset, FS_CardinalityType, ThreadsAssumption

LEMMA OneMore ==
  ASSUME NEW S, S \subseteq Thread, NEW t \in Thread, t \notin S
  PROVE  Cardinality(S \cup {t}) = Cardinality(S) + 1
  BY CountedFinite, FS_AddElement

LEMMA OneLess ==
  ASSUME NEW S, S \subseteq Thread, NEW t \in S
  PROVE  Cardinality(S \ {t}) = Cardinality(S) - 1 /\ Cardinality(S) > 0
<1>1. IsFiniteSet(S) /\ Cardinality(S) \in Nat
  BY CountedFinite
<1>2. Cardinality(S \ {t}) = Cardinality(S) - 1
  BY <1>1, FS_RemoveElement
<1>3. Cardinality(S) # 0
  BY <1>1, FS_EmptySet
<1> QED
  BY <1>1, <1>2, <1>3

\* A move of depth one would be the root.
LEMMA MovesAreBelow ==
  \A c \in Edge : /\ c \in Node /\ Parent[c] \in Node
                  /\ Depth[c] \in Nat /\ Depth[Parent[c]] \in Nat
                  /\ Depth[c] = Depth[Parent[c]] + 1 /\ Depth[c] > 1
  BY TreeAssumption DEF Edge

-----------------------------------------------------------------------------
(* The initial states *)

LEMMA InitInv == Init => Inv
<1> SUFFICES ASSUME Init PROVE Inv
  OBVIOUS
<1> USE ThreadsAssumption, TreeAssumption
<1>1. TypeOK
  <2>1. node \subseteq Node /\ marked \subseteq Illegal /\ kept \subseteq Node
    BY DEF Init
  <2>2. base \in [Edge -> Nat] /\ games \in [Edge -> Nat]
    <3>1. base \in [Edge -> 0..MaxBase] /\ games = base
      BY DEF Init
    <3>2. 0..MaxBase \subseteq Nat
      OBVIOUS
    <3> QED
      BY <3>1, <3>2
  <2>3. vl \in [Edge -> Nat] /\ sum \in [Edge -> Int] /\ gs \in [Node -> Nat]
    BY DEF Init
  <2>4. /\ pc \in [Thread -> {"enter", "eval", "leaf", "down", "back",
                              "count", "limit", "test", "done"}]
        /\ at \in [Thread -> Node]
    BY DEF Init
  <2>5. /\ stack \in [Thread -> SUBSET Edge] /\ win \in [Thread -> Int]
        /\ got \in [Thread -> Nat] /\ count \in Nat /\ stop \in BOOLEAN
    <3>1. stack \in [Thread -> SUBSET Edge]
      BY DEF Init
    <3>2. win \in [Thread -> Int] /\ got \in [Thread -> Nat]
      BY DEF Init
    <3>3. count \in Nat /\ stop \in BOOLEAN
      BY DEF Init
    <3> QED
      BY <3>1, <3>2, <3>3
  <2> QED
    BY <2>1, <2>2, <2>3, <2>4, <2>5 DEF TypeOK
<1>2. StackOK
  BY DEF Init, StackOK, PathOK, OnMove
<1>3. LossOK
  <2> SUFFICES ASSUME NEW c \in Edge
               PROVE  vl[c] = Cardinality(Below(c)) /\ vl[c] <= games[c]
    BY DEF LossOK
  <2>1. Below(c) = {}
    BY DEF Below, Init
  <2>2. vl[c] = 0 /\ games[c] >= 0
    BY <1>1 DEF Init, TypeOK
  <2> QED
    BY <2>1, <2>2, <1>1, FS_EmptySet DEF TypeOK
<1>4. BudgetOK
  <2>1. Late = {}
    <3> SUFFICES ASSUME NEW t \in Thread PROVE ~AtLimit(got[t])
      BY DEF Late
    <3> QED
      BY CountedFinite DEF AtLimit, Init
  <2>2. Cardinality(Late) = 0 /\ count = 0
    BY <2>1, FS_EmptySet DEF Init
  <2> QED
    BY <2>1, <2>2, CountedFinite DEF BudgetOK
<1> QED
  BY <1>1, <1>2, <1>3, <1>4 DEF Inv
-----------------------------------------------------------------------------
(* What a step of one thread leaves alone *)

LEMMA OtherPaths ==
  ASSUME StackOK, NEW t \in Thread, PathOK(t)',
         \A u \in Thread \ {t} :
           pc'[u] = pc[u] /\ at'[u] = at[u] /\ stack'[u] = stack[u]
  PROVE  StackOK'
<1> SUFFICES ASSUME NEW u \in Thread, u # t PROVE PathOK(u)'
  BY DEF StackOK
<1> QED
  BY DEF StackOK, PathOK

LEMMA SameLosses ==
  ASSUME TypeOK, LossOK, UNCHANGED <<stack, vl>>,
         \A c \in Edge : games'[c] \in Nat /\ games'[c] >= games[c]
  PROVE  LossOK'
<1> SUFFICES ASSUME NEW c \in Edge
             PROVE  vl'[c] = Cardinality(Below(c)') /\ vl'[c] <= games'[c]
  BY DEF LossOK
<1>1. Below(c)' = Below(c)
  BY DEF Below
<1> QED
  BY <1>1 DEF LossOK, TypeOK

LEMMA SameBudget ==
  ASSUME BudgetOK, UNCHANGED ends,
         NEW t \in Thread, pc[t] \notin {"limit", "test", "done"},
         \A u \in Thread \ {t} : pc'[u] = pc[u]
  PROVE  BudgetOK'
<1>1. Late' = Late /\ t \notin Late
  BY DEF Late, AtLimit, ends, BudgetOK
<1> QED
  BY <1>1 DEF BudgetOK, ends, Late

LEMMA PushLosses ==
  ASSUME TypeOK, NEW t \in Thread, NEW c \in Edge, c \notin stack[t],
         stack' = [stack EXCEPT ![t] = @ \cup {c}], NEW e \in Edge
  PROVE  Cardinality(Below(e)')
           = Cardinality(Below(e)) + (IF e = c THEN 1 ELSE 0)
<1>1. Below(e)' = IF e = c THEN Below(e) \cup {t} ELSE Below(e)
  BY DEF Below, TypeOK
<1>2. e = c => t \notin Below(e)
  BY DEF Below
<1>3. Below(e) \subseteq Thread
  BY DEF Below
<1> QED
  BY <1>1, <1>2, <1>3, OneMore, CountedFinite

LEMMA PopLosses ==
  ASSUME TypeOK, NEW t \in Thread, NEW c \in stack[t],
         stack' = [stack EXCEPT ![t] = @ \ {c}], NEW e \in Edge
  PROVE  Cardinality(Below(e)')
           = Cardinality(Below(e)) - (IF e = c THEN 1 ELSE 0)
<1>1. Below(e)' = IF e = c THEN Below(e) \ {t} ELSE Below(e)
  BY DEF Below, TypeOK
<1>2. e = c => t \in Below(e)
  BY DEF Below
<1>3. Below(e) \subseteq Thread
  BY DEF Below
<1> QED
  BY <1>1, <1>2, <1>3, OneLess, CountedFinite

\* A thread that goes down a move of its position, or of the position its
\* move was made in, has that move on its path.
LEMMA DownStep ==
  ASSUME Inv, NEW t \in Thread, NEW c \in Edge, Down(t, c),
         \/ pc[t] = "enter" /\ Parent[c] = at[t]
         \/ pc[t] = "down" /\ c = at[t]
  PROVE  StackOK' /\ LossOK'
<1> USE DEF Inv
<1>1. \A d \in stack[t] : Depth[d] < Depth[c]
  BY MovesAreBelow DEF StackOK, PathOK, OnMove, TypeOK
<1>2. c \notin stack[t]
  BY <1>1, MovesAreBelow
<1>3. Parent[c] # Root => Parent[c] \in stack[t]
  BY DEF StackOK, PathOK, OnMove
<1>4. PathOK(t)'
  <2>1. /\ pc'[t] = "enter" /\ at'[t] = c /\ stack'[t] = stack[t] \cup {c}
        /\ stack[t] \subseteq Edge
    BY DEF Down, TypeOK
  <2>2. \A d \in stack[t] : Depth[d] \in Nat
    BY <2>1, MovesAreBelow
  <2>3. \A d \in stack[t] : /\ \A e \in stack[t] : Depth[d] = Depth[e] => d = e
                            /\ Parent[d] # Root => Parent[d] \in stack[t]
    BY DEF StackOK, PathOK
  <2>4. ASSUME NEW d \in stack'[t]
        PROVE  /\ Depth[d] <= Depth[c]
               /\ \A e \in stack'[t] : Depth[d] = Depth[e] => d = e
               /\ Parent[d] # Root => Parent[d] \in stack'[t]
    BY <1>1, <1>3, <2>1, <2>2, <2>3, MovesAreBelow
  <2> QED
    BY <2>1, <2>4 DEF PathOK, OnMove
<1>5. StackOK'
  BY <1>4, OtherPaths DEF Down, TypeOK
<1>6. LossOK'
  <2> SUFFICES ASSUME NEW e \in Edge
               PROVE  vl'[e] = Cardinality(Below(e)') /\ vl'[e] <= games'[e]
    BY DEF LossOK
  <2>1. Cardinality(Below(e)')
          = Cardinality(Below(e)) + (IF e = c THEN 1 ELSE 0)
    BY <1>2, PushLosses DEF Down
  <2>2. /\ vl'[e] = vl[e] + (IF e = c THEN 1 ELSE 0)
        /\ games'[e] = games[e] + (IF e = c THEN 1 ELSE 0)
    BY DEF Down, TypeOK
  <2>3. vl[e] = Cardinality(Below(e)) /\ vl[e] <= games[e]
           /\ vl[e] \in Nat /\ games[e] \in Nat
    BY DEF LossOK, TypeOK
  <2> QED
    BY <2>1, <2>2, <2>3
<1> QED
  BY <1>5, <1>6

\* A call that returns leaves the path to the parent of its position.
LEMMA PopPath ==
  ASSUME Inv, NEW t \in Thread, pc[t] = "back",
         pc' = [pc EXCEPT ![t] = IF Parent[at[t]] = Root
                                 THEN "count" ELSE "back"],
         at' = [at EXCEPT ![t] = Parent[at[t]]],
         stack' = [stack EXCEPT ![t] = @ \ {at[t]}]
  PROVE  StackOK'
<1> DEFINE n == at[t]
<1> USE DEF Inv
<1>1. n \in Edge /\ n \in stack[t] /\ stack[t] \subseteq Edge
  BY DEF StackOK, PathOK, TypeOK, Edge
<1>2. /\ stack'[t] = stack[t] \ {n} /\ at'[t] = Parent[n]
      /\ pc'[t] = IF Parent[n] = Root THEN "count" ELSE "back"
  BY DEF TypeOK
<1>3. \A d \in stack[t] : /\ Depth[d] <= Depth[n]
                          /\ \A e \in stack[t] : Depth[d] = Depth[e] => d = e
                          /\ Parent[d] # Root => Parent[d] \in stack[t]
  BY DEF StackOK, PathOK
<1>4. Parent[n] # n
  BY <1>1, MovesAreBelow
<1>5. ASSUME NEW d \in stack'[t]
      PROVE  /\ Depth[d] <= Depth[Parent[n]]
             /\ \A e \in stack'[t] : Depth[d] = Depth[e] => d = e
             /\ Parent[d] # Root => Parent[d] \in stack'[t]
  <2>1. d \in stack[t] /\ d # n /\ d \in Edge
    BY <1>1, <1>2, <1>5
  <2>2. Depth[d] <= Depth[Parent[n]]
    BY <1>1, <1>3, <2>1, MovesAreBelow
  <2>3. Parent[d] # n
    BY <1>1, <2>1, <2>2, MovesAreBelow
  <2> QED
    BY <1>2, <1>3, <2>1, <2>2, <2>3
<1>6. Parent[n] # Root => Parent[n] \in stack'[t]
  BY <1>1, <1>2, <1>3, <1>4
<1>7. PathOK(t)'
  <2> HIDE DEF n
  <2> QED
    BY <1>2, <1>5, <1>6 DEF PathOK, OnMove
<1> QED
  BY <1>7, OtherPaths DEF TypeOK

-----------------------------------------------------------------------------
(* One lemma for each step *)

ScoreTypes == /\ games' \in [Edge -> Nat] /\ sum' \in [Edge -> Int]
              /\ gs' \in [Node -> Nat] /\ vl' \in [Edge -> Nat]
PlaceTypes == /\ pc' \in [Thread -> {"enter", "eval", "leaf", "down", "back",
                                    "count", "limit", "test", "done"}]
              /\ at' \in [Thread -> Node] /\ stack' \in [Thread -> SUBSET Edge]
              /\ win' \in [Thread -> Int]

\* The end of a visit, of a thread that stays on its path.
LEMMA ScoreReturn ==
  ASSUME Inv, NEW t \in Thread, NEW c \in Edge, NEW w \in Int,
         Score(c, w), Return(t, Parent[c], w), UNCHANGED <<vl, stack>>,
         \/ pc[t] = "enter" /\ Parent[c] = at[t]
         \/ pc[t] = "leaf" /\ c = at[t]
  PROVE  ScoreTypes /\ PlaceTypes /\ StackOK' /\ LossOK'
<1> USE DEF Inv
<1>1. ScoreTypes
  BY MovesAreBelow DEF Score, ScoreTypes, TypeOK
<1>2. PlaceTypes
  BY MovesAreBelow DEF Return, PlaceTypes, TypeOK
<1>3. PathOK(t)'
  <2>1. /\ pc'[t] = IF Parent[c] = Root THEN "count" ELSE "back"
        /\ at'[t] = Parent[c] /\ stack'[t] = stack[t]
    BY DEF Return, TypeOK
  <2>2. \A d \in stack[t] :
          /\ Depth[d] <= Depth[Parent[c]]
          /\ \A e \in stack[t] : Depth[d] = Depth[e] => d = e
          /\ Parent[d] # Root => Parent[d] \in stack[t]
    <3>1. CASE pc[t] = "enter"
      BY <3>1 DEF StackOK, PathOK
    <3>2. CASE pc[t] = "leaf"
      BY <3>2, MovesAreBelow DEF StackOK, PathOK, OnMove, TypeOK
    <3> QED
      BY <3>1, <3>2
  <2>3. Parent[c] # Root => Parent[c] \in stack[t]
    BY DEF StackOK, PathOK, OnMove
  <2> QED
    BY <2>1, <2>2, <2>3 DEF PathOK, OnMove
<1>4. StackOK'
  BY <1>3, OtherPaths DEF Return, TypeOK
<1>5. LossOK'
  <2>1. \A e \in Edge : games'[e] \in Nat /\ games'[e] >= games[e]
    BY DEF Score, TypeOK
  <2> QED
    BY <2>1, SameLosses
<1> QED
  BY <1>1, <1>2, <1>4, <1>5

LEMMA EnterStep ==
  ASSUME Inv, NEW t \in Thread, Enter(t)
  PROVE  Inv'
<1> USE DEF Inv
<1> DEFINE n == at[t]
<1>1. /\ node' \subseteq Node /\ marked' \subseteq Illegal
      /\ UNCHANGED <<got, count, stop, kept, base>>
  BY DEF Enter, TypeOK, ends, start
<1>2. pc[t] = "enter" /\ n \in Node
  BY DEF Enter, TypeOK
<1>3. \A c \in Legal(n) : c \in Edge /\ Parent[c] = n
  BY DEF Legal, Children
<1>4. ScoreTypes /\ PlaceTypes /\ StackOK' /\ LossOK'
  <2>1. CASE NoMove(t)
    <3>1. ScoreTypes /\ PlaceTypes
      BY <2>1, <1>2 DEF NoMove, Return, ScoreTypes, PlaceTypes, TypeOK
    <3>2. PathOK(t)'
      BY <2>1, <1>2 DEF NoMove, Return, StackOK, PathOK, OnMove, TypeOK
    <3>3. StackOK'
      BY <2>1, <3>2, OtherPaths DEF NoMove, Return, TypeOK
    <3>4. \A e \in Edge : games'[e] \in Nat /\ games'[e] >= games[e]
      BY <2>1 DEF NoMove, TypeOK
    <3>5. LossOK'
      BY <2>1, <3>4, SameLosses DEF NoMove
    <3> QED
      BY <3>1, <3>3, <3>5
  <2>2. ASSUME NEW c \in Legal(n), EndsGame(t, c)
        PROVE  ScoreTypes /\ PlaceTypes /\ StackOK' /\ LossOK'
    <3>1. -Value[c] \in Int
      BY <1>3, TreeAssumption DEF Edge
    <3> QED
      BY <1>2, <1>3, <2>2, <3>1, ScoreReturn DEF EndsGame
  <2>3. ASSUME NEW c \in Legal(n), Fresh(t, c)
        PROVE  ScoreTypes /\ PlaceTypes /\ StackOK' /\ LossOK'
    <3>1. ScoreTypes /\ PlaceTypes
      BY <1>3, <2>3, MovesAreBelow DEF Fresh, ScoreTypes, PlaceTypes, TypeOK
    <3>2. pc'[t] = "eval" /\ at'[t] = c /\ stack'[t] = stack[t]
      BY <2>3 DEF Fresh, TypeOK
    <3>3. \A d \in stack[t] :
            /\ Depth[d] < Depth[c] /\ Depth[d] <= Depth[c]
            /\ \A e \in stack[t] : Depth[d] = Depth[e] => d = e
            /\ Parent[d] # Root => Parent[d] \in stack[t]
      <4>1. \A d \in stack[t] : d \in Edge
        BY DEF TypeOK
      <4> QED
        BY <1>2, <1>3, <4>1, MovesAreBelow DEF StackOK, PathOK
    <3>4. c # Root /\ (Parent[c] # Root => Parent[c] \in stack[t])
      BY <1>2, <1>3 DEF StackOK, PathOK, Edge
    <3>5. PathOK(t)'
      BY <3>2, <3>3, <3>4 DEF PathOK, OnMove
    <3>6. StackOK'
      BY <2>3, <3>5, OtherPaths DEF Fresh, TypeOK
    <3>7. \A e \in Edge : games'[e] \in Nat /\ games'[e] >= games[e]
      BY <2>3 DEF Fresh, TypeOK
    <3>8. LossOK'
      BY <2>3, <3>7, SameLosses DEF Fresh
    <3> QED
      BY <3>1, <3>6, <3>8
  <2>4. ASSUME NEW c \in Legal(n), Down(t, c)
        PROVE  ScoreTypes /\ PlaceTypes /\ StackOK' /\ LossOK'
    <3>1. ScoreTypes /\ PlaceTypes
      BY <1>3, <2>4, MovesAreBelow DEF Down, ScoreTypes, PlaceTypes, TypeOK
    <3> QED
      BY <1>2, <1>3, <2>4, <3>1, DownStep
  <2> QED
    BY <2>1, <2>2, <2>3, <2>4 DEF Enter
<1>5. TypeOK'
  BY <1>1, <1>4 DEF TypeOK, ScoreTypes, PlaceTypes
<1>6. BudgetOK'
  <2>1. \A u \in Thread \ {t} : pc'[u] = pc[u]
    BY DEF Enter, NoMove, EndsGame, Fresh, Down, Return, TypeOK
  <2> QED
    BY <1>2, <2>1, SameBudget DEF Enter
<1> QED
  BY <1>4, <1>5, <1>6

LEMMA EvaluateStep ==
  ASSUME Inv, NEW t \in Thread, Evaluate(t)
  PROVE  Inv'
<1> USE DEF Inv
<1>1. /\ pc'[t] \in {"down", "leaf"} /\ pc[t] = "eval"
      /\ \A u \in Thread \ {t} : pc'[u] = pc[u]
      /\ UNCHANGED <<at, stack, vl, games>>
  BY DEF Evaluate, TypeOK
<1>2. TypeOK'
  <2>1. win' \in [Thread -> Int]
    BY TreeAssumption DEF Evaluate, TypeOK
  <2> QED
    BY <2>1 DEF Evaluate, TypeOK, ends, start
<1>3. PathOK(t)'
  BY <1>1 DEF StackOK, PathOK, OnMove
<1>4. StackOK'
  BY <1>1, <1>3, OtherPaths
<1>5. LossOK'
  BY <1>1, SameLosses DEF TypeOK
<1>6. BudgetOK'
  BY <1>1, SameBudget DEF Evaluate
<1> QED
  BY <1>2, <1>4, <1>5, <1>6

LEMMA DownAfterStep ==
  ASSUME Inv, NEW t \in Thread, DownAfter(t)
  PROVE  Inv'
<1> USE DEF Inv
<1>1. pc[t] = "down" /\ at[t] \in Edge /\ Down(t, at[t])
  BY DEF DownAfter, StackOK, PathOK, OnMove, TypeOK, Edge
<1>2. StackOK' /\ LossOK'
  BY <1>1, DownStep
<1>3. ScoreTypes /\ PlaceTypes
  BY <1>1, MovesAreBelow DEF Down, ScoreTypes, PlaceTypes, TypeOK
<1>4. TypeOK'
  BY <1>3 DEF DownAfter, TypeOK, ScoreTypes, PlaceTypes, ends, start
<1>5. BudgetOK'
  BY <1>1, SameBudget DEF DownAfter, Down, TypeOK
<1> QED
  BY <1>2, <1>4, <1>5

LEMMA LeafStep ==
  ASSUME Inv, NEW t \in Thread, Leaf(t)
  PROVE  Inv'
<1> USE DEF Inv
<1>1. pc[t] = "leaf" /\ at[t] \in Edge /\ win[t] \in Int
  BY DEF Leaf, StackOK, PathOK, OnMove, TypeOK, Edge
<1>2. ScoreTypes /\ PlaceTypes /\ StackOK' /\ LossOK'
  BY <1>1, ScoreReturn DEF Leaf
<1>3. TypeOK'
  BY <1>2 DEF Leaf, TypeOK, ScoreTypes, PlaceTypes, ends, start
<1>4. BudgetOK'
  BY <1>1, SameBudget DEF Leaf, Return, TypeOK
<1> QED
  BY <1>2, <1>3, <1>4

LEMMA BackStep ==
  ASSUME Inv, NEW t \in Thread, Back(t)
  PROVE  Inv'
<1> USE DEF Inv
<1>1. pc[t] = "back" /\ at[t] \in Edge /\ at[t] \in stack[t]
  BY DEF Back, StackOK, PathOK, OnMove, TypeOK, Edge
<1>2. StackOK'
  BY <1>1, PopPath DEF Back, Return
<1>3. ASSUME NEW e \in Edge
      PROVE  /\ vl'[e] = Cardinality(Below(e)') /\ vl'[e] <= games'[e]
             /\ vl'[e] \in Nat
  <2>1. Cardinality(Below(e)')
          = Cardinality(Below(e)) - (IF e = at[t] THEN 1 ELSE 0)
    BY <1>1, PopLosses DEF Back
  <2>2. vl'[e] = vl[e] - (IF e = at[t] THEN 1 ELSE 0) /\ games'[e] = games[e]
    BY <1>1 DEF Back, TypeOK
  <2>3. vl[e] = Cardinality(Below(e)) /\ vl[e] <= games[e]
           /\ vl[e] \in Nat /\ games[e] \in Nat
    BY DEF LossOK, TypeOK
  <2>4. e = at[t] => Cardinality(Below(e)) > 0
    BY <1>1, OneLess DEF Below
  <2> QED
    BY <2>1, <2>2, <2>3, <2>4
<1>4. LossOK'
  BY <1>3 DEF LossOK
<1>5. TypeOK'
  <2>1. vl' \in [Edge -> Nat]
    BY <1>3 DEF Back, TypeOK
  <2>2. sum' \in [Edge -> Int] /\ win' \in [Thread -> Int]
    BY <1>1 DEF Back, Undone, Return, TypeOK
  <2>3. /\ pc' \in [Thread -> {"enter", "eval", "leaf", "down", "back",
                              "count", "limit", "test", "done"}]
        /\ at' \in [Thread -> Node] /\ stack' \in [Thread -> SUBSET Edge]
    BY <1>1, MovesAreBelow DEF Back, Return, TypeOK
  <2> QED
    BY <2>1, <2>2, <2>3 DEF Back, TypeOK, ends, start
<1>6. BudgetOK'
  BY <1>1, SameBudget DEF Back, Return, TypeOK
<1> QED
  BY <1>2, <1>4, <1>5, <1>6

LEMMA CountStep ==
  ASSUME Inv, NEW t \in Thread, Count(t)
  PROVE  Inv'
<1> USE DEF Inv
<1>1. /\ pc[t] = "count" /\ at[t] = Root /\ got'[t] = count + 1
      /\ pc'[t] = "limit" /\ count' = count + 1
      /\ \A u \in Thread \ {t} : pc'[u] = pc[u] /\ got'[u] = got[u]
      /\ UNCHANGED <<at, stack, vl, games, stop>>
  BY DEF Count, StackOK, PathOK, TypeOK, table
<1>2. TypeOK'
  BY DEF Count, TypeOK, table, start
<1>3. PathOK(t)'
  BY <1>1 DEF StackOK, PathOK, OnMove
<1>4. StackOK'
  BY <1>1, <1>3, OtherPaths
<1>5. LossOK'
  BY <1>1, SameLosses DEF TypeOK
<1>6. BudgetOK'
  <2>1. t \notin Late
    BY <1>1 DEF BudgetOK
  <2>2. Late' = IF AtLimit(count + 1) THEN Late \cup {t} ELSE Late
    BY <1>1, <2>1 DEF Late, AtLimit
  <2>3. Late \subseteq Thread /\ Cardinality(Late) \in Nat
          /\ Cardinality(Thread) \in Nat
    BY CountedFinite DEF Late
  <2>4. \A u \in Late' : /\ pc'[u] \in {"limit", "test", "done"}
                         /\ pc'[u] # "limit" => stop'
    <3> SUFFICES ASSUME NEW u \in Late'
                 PROVE  /\ pc'[u] \in {"limit", "test", "done"}
                        /\ pc'[u] # "limit" => stop'
      OBVIOUS
    <3>1. CASE u = t
      BY <1>1, <3>1
    <3>2. CASE u # t
      <4>1. u \in Late /\ u \in Thread
        BY <2>2, <2>3, <3>2
      <4> QED
        BY <1>1, <3>2, <4>1 DEF BudgetOK
    <3> QED
      BY <3>1, <3>2
  <2>5. count' <= Limit - Cardinality(Thread) + Cardinality(Late')
    <3>1. CASE AtLimit(count + 1)
      <4>1. Cardinality(Late') = Cardinality(Late) + 1
        BY <2>1, <2>2, <2>3, <3>1, OneMore
      <4> QED
        BY <1>1, <2>3, <4>1, ThreadsAssumption DEF BudgetOK, TypeOK
    <3>2. CASE ~AtLimit(count + 1)
      BY <1>1, <2>2, <2>3, <3>2, ThreadsAssumption DEF AtLimit, TypeOK
    <3> QED
      BY <3>1, <3>2
  <2> QED
    BY <2>4, <2>5 DEF BudgetOK
<1> QED
  BY <1>2, <1>4, <1>5, <1>6

LEMMA CheckLimitStep ==
  ASSUME Inv, NEW t \in Thread, CheckLimit(t)
  PROVE  Inv'
<1> USE DEF Inv
<1>1. /\ pc[t] = "limit" /\ pc'[t] = "test" /\ stop' \in BOOLEAN
      /\ stop => stop'
      /\ AtLimit(got[t]) => stop'
      /\ \A u \in Thread \ {t} : pc'[u] = pc[u]
      /\ UNCHANGED <<at, stack, vl, games, got, count>>
  BY DEF CheckLimit, TypeOK, table
<1>2. TypeOK'
  <2>1. pc' \in [Thread -> {"enter", "eval", "leaf", "down", "back",
                           "count", "limit", "test", "done"}]
    BY DEF CheckLimit, TypeOK
  <2> QED
    BY <1>1, <2>1 DEF CheckLimit, TypeOK, table, start
<1>3. PathOK(t)'
  BY <1>1 DEF StackOK, PathOK, OnMove
<1>4. StackOK'
  BY <1>1, <1>3, OtherPaths
<1>5. LossOK'
  BY <1>1, SameLosses DEF TypeOK
<1>6. BudgetOK'
  <2>1. Late' = Late
    BY <1>1 DEF Late, AtLimit
  <2>2. \A u \in Late : /\ pc'[u] \in {"limit", "test", "done"}
                        /\ pc'[u] # "limit" => stop'
    BY <1>1 DEF BudgetOK, Late
  <2> QED
    BY <1>1, <2>1, <2>2 DEF BudgetOK
<1> QED
  BY <1>2, <1>4, <1>5, <1>6

LEMMA TestStopStep ==
  ASSUME Inv, NEW t \in Thread, TestStop(t)
  PROVE  Inv'
<1> USE DEF Inv
<1>1. /\ pc[t] = "test" /\ pc'[t] = (IF stop THEN "done" ELSE "enter")
      /\ \A u \in Thread \ {t} : pc'[u] = pc[u]
      /\ UNCHANGED <<at, stack, vl, games, got, count, stop>>
  BY DEF TestStop, TypeOK, table, ends
<1>2. TypeOK'
  BY DEF TestStop, TypeOK, table, ends, start
<1>3. PathOK(t)'
  BY <1>1 DEF StackOK, PathOK, OnMove
<1>4. StackOK'
  BY <1>1, <1>3, OtherPaths
<1>5. LossOK'
  BY <1>1, SameLosses DEF TypeOK
<1>6. BudgetOK'
  <2>1. Late' = Late
    BY <1>1 DEF Late, AtLimit
  <2>2. \A u \in Late : /\ pc'[u] \in {"limit", "test", "done"}
                        /\ pc'[u] # "limit" => stop'
    <3> SUFFICES ASSUME NEW u \in Late
                 PROVE  /\ pc'[u] \in {"limit", "test", "done"}
                        /\ pc'[u] # "limit" => stop'
      OBVIOUS
    <3>1. /\ u \in Thread /\ pc[u] \in {"limit", "test", "done"}
          /\ pc[u] # "limit" => stop
      BY DEF BudgetOK, Late
    <3> QED
      BY <1>1, <3>1
  <2> QED
    BY <1>1, <2>1, <2>2 DEF BudgetOK
<1> QED
  BY <1>2, <1>4, <1>5, <1>6

-----------------------------------------------------------------------------
(* Virtual losses and playouts *)

LEMMA NextInv == Inv /\ [Next]_vars => Inv'
<1> SUFFICES ASSUME Inv, [Next]_vars PROVE Inv'
  OBVIOUS
<1>1. ASSUME NEW t \in Thread, Step(t) PROVE Inv'
  BY <1>1, EnterStep, EvaluateStep, DownAfterStep, LeafStep, BackStep,
     CountStep, CheckLimitStep, TestStopStep DEF Step
<1>2. CASE UNCHANGED vars
  BY <1>2 DEF vars, table, place, ends, start, Inv, TypeOK, StackOK, PathOK,
     OnMove, LossOK, Below, BudgetOK, Late, AtLimit
<1> QED
  BY <1>1, <1>2 DEF Next

LEMMA Invariance == Spec => []Inv
<1> QED
  BY InitInv, NextInv, PTL DEF Spec

\* At all times the virtual losses on a move are the threads that are below
\* it and are part of its games (the checks of uct_tree()), for every tree
\* and any number of threads.
THEOREM LossesExact == Spec => []LossesAreThreads
<1>1. Inv => LossesAreThreads
  BY DEF Inv, LossOK, Below, LossesAreThreads
<1> QED
  BY <1>1, Invariance, PTL

\* No search makes more playouts than its limit: every thread whose count
\* has reached limit + 1 - threads leaves (inc_uct_count()).
THEOREM Budget == Spec => []BudgetKept
<1>1. Inv => BudgetKept
  <2> SUFFICES ASSUME Inv PROVE BudgetKept
    OBVIOUS
  <2>1. Cardinality(Late) <= Cardinality(Thread) /\ Cardinality(Late) \in Nat
          /\ Cardinality(Thread) \in Nat
    BY CountedFinite DEF Late
  <2> QED
    BY <2>1, ThreadsAssumption DEF Inv, BudgetOK, BudgetKept, TypeOK
<1> QED
  BY <1>1, Invariance, PTL

-----------------------------------------------------------------------------
(* Sums over finite sets *)

\* The element the fold takes first, and one step of it.
One(s) == CHOOSE x \in s : TRUE
Fold(f, h, s) == IF s = {} THEN 0 ELSE f[One(s)] + h[s \ {One(s)}]

LEMMA OneIn == \A s : s # {} => One(s) \in s
  BY DEF One

LEMMA SumIs ==
  ASSUME NEW f, NEW S
  PROVE  \E g : /\ g = CHOOSE h : h = [s \in SUBSET S |-> Fold(f, h, s)]
                /\ Sum(f, S) = g[S]
  BY DEF Sum, FoldFunctionOnSet, MapThenFoldSet, Fold, One

\* A set of numbers that is not empty has a least one, and one that contains
\* zero and every successor contains them all.
LEMMA Least ==
  ASSUME NEW T \in SUBSET Nat, T # {}
  PROVE  \E m \in T : \A y \in T : m <= y
<1>1. \E m \in T : \A y \in T : ~(<<y, m>> \in OpToRel(<, Nat))
  BY NatLessThanWellFounded, WFMin
<1>2. PICK m \in T : \A y \in T : ~(<<y, m>> \in OpToRel(<, Nat))
  BY <1>1
<1>3. \A y \in T : ~(y < m)
  BY <1>2 DEF OpToRel
<1> QED
  BY <1>3

LEMMA AllNumbers ==
  ASSUME NEW P \in SUBSET Nat, 0 \in P, \A n \in P : n + 1 \in P
  PROVE  P = Nat
<1>1. SUFFICES ASSUME Nat \ P # {} PROVE FALSE
  OBVIOUS
<1>2. PICK m \in Nat \ P : \A y \in Nat \ P : m <= y
  BY <1>1, Least
<1>3. m - 1 \in Nat /\ m - 1 \notin Nat \ P
  BY <1>2
<1> QED
  BY <1>2, <1>3

\* What is left of a finite set without one of its elements.
LEMMA Without ==
  ASSUME NEW S, IsFiniteSet(S), NEW x \in S
  PROVE  /\ IsFiniteSet(S \ {x}) /\ Cardinality(S \ {x}) \in Nat
         /\ Cardinality(S) \in Nat
         /\ Cardinality(S) = Cardinality(S \ {x}) + 1
<1>1. /\ IsFiniteSet(S \ {x}) /\ Cardinality(S \ {x}) = Cardinality(S) - 1
  BY FS_RemoveElement
<1>2. Cardinality(S) \in Nat /\ Cardinality(S \ {x}) \in Nat
  BY <1>1, FS_CardinalityType
<1> QED
  BY <1>1, <1>2

\* Of some finite sets one is the smallest.
LEMMA Smallest ==
  ASSUME NEW S, IsFiniteSet(S), NEW Bad \in SUBSET SUBSET S, Bad # {}
  PROVE  \E R \in Bad : \A x \in R : R \ {x} \notin Bad
<1> DEFINE Sizes == {Cardinality(R) : R \in Bad}
<1>1. \A R \in SUBSET S : IsFiniteSet(R) /\ Cardinality(R) \in Nat
  BY FS_Subset, FS_CardinalityType
<1>2. Sizes \in SUBSET Nat /\ Sizes # {}
  BY <1>1
<1>3. PICK m \in Sizes : \A k \in Sizes : m <= k
  <2> HIDE DEF Sizes
  <2> QED
    BY <1>2, Least
<1>4. PICK R \in Bad : m = Cardinality(R)
  BY <1>3
<1>5. ASSUME NEW x \in R PROVE R \ {x} \notin Bad
  <2>1. IsFiniteSet(R)
    BY <1>1
  <2>2. /\ Cardinality(R \ {x}) \in Nat /\ Cardinality(R) \in Nat
        /\ Cardinality(R) = Cardinality(R \ {x}) + 1
    BY <2>1, Without
  <2>3. R \ {x} \in Bad => Cardinality(R) <= Cardinality(R \ {x})
    BY <1>3, <1>4
  <2> QED
    BY <2>2, <2>3
<1> QED
  BY <1>5

\* A fold of the subsets of S.
IsFold(f, h, S) ==
  /\ h = [s \in SUBSET S |-> h[s]]
  /\ \A s \in SUBSET S : h[s] = Fold(f, h, s)

\* One that is right on the subsets of up to n elements.
FoldUpTo(f, h, S, n) ==
  \A s \in SUBSET S : Cardinality(s) <= n => h[s] = Fold(f, h, s)

\* A finite set has a fold: one that is right on the subsets of up to n
\* elements gives one for n + 1.
LEMMA FoldExists ==
  ASSUME NEW S, IsFiniteSet(S), NEW f, \A x \in S : f[x] \in Int
  PROVE  \E h \in [SUBSET S -> Int] : IsFold(f, h, S)
<1> DEFINE P == {n \in Nat : \E h \in [SUBSET S -> Int] : FoldUpTo(f, h, S, n)}
           Again(h) == [s \in SUBSET S |-> Fold(f, h, s)]
<1>1. \A s \in SUBSET S : IsFiniteSet(s) /\ Cardinality(s) \in Nat
  BY FS_Subset, FS_CardinalityType
<1>2. ASSUME NEW h \in [SUBSET S -> Int], NEW s \in SUBSET S
      PROVE  Fold(f, h, s) \in Int
  <2>1. CASE s = {}
    BY <2>1 DEF Fold
  <2>2. CASE s # {}
    <3>1. One(s) \in S /\ s \ {One(s)} \in SUBSET S
      BY <2>2, OneIn
    <3>2. f[One(s)] \in Int /\ h[s \ {One(s)}] \in Int
      BY <3>1
    <3> QED
      BY <2>2, <3>2 DEF Fold
  <2> QED
    BY <2>1, <2>2
<1>3. ASSUME NEW h \in [SUBSET S -> Int]
      PROVE  Again(h) \in [SUBSET S -> Int]
  BY <1>2
<1>4. 0 \in P
  <2> DEFINE z == [s \in SUBSET S |-> 0]
  <2>1. z \in [SUBSET S -> Int]
    OBVIOUS
  <2>2. ASSUME NEW s \in SUBSET S, Cardinality(s) <= 0
        PROVE  z[s] = Fold(f, z, s)
    <3>1. Cardinality(s) = 0 /\ s = {}
      BY <1>1, <2>2, FS_EmptySet
    <3> QED
      BY <3>1 DEF Fold
  <2>3. FoldUpTo(f, z, S, 0)
    BY <2>2 DEF FoldUpTo
  <2> HIDE DEF z
  <2> QED
    BY <2>1, <2>3
<1>5. ASSUME NEW n \in P PROVE n + 1 \in P
  <2>1. PICK h \in [SUBSET S -> Int] : FoldUpTo(f, h, S, n)
    OBVIOUS
  <2>2. ASSUME NEW s \in SUBSET S, Cardinality(s) <= n + 1
        PROVE  Again(h)[s] = Fold(f, Again(h), s)
    <3>1. CASE s = {}
      BY <3>1 DEF Fold
    <3>2. CASE s # {}
      <4> DEFINE r == s \ {One(s)}
      <4>1. r \in SUBSET S /\ Cardinality(r) <= n
        BY <1>1, <2>2, <3>2, OneIn, Without
      <4>2. h[r] = Fold(f, h, r)
        BY <2>1, <4>1 DEF FoldUpTo
      <4>3. Again(h)[r] = h[r] /\ Again(h)[s] = Fold(f, h, s)
        BY <4>1, <4>2
      <4> HIDE DEF r, Again
      <4>4. r = s \ {One(s)}
        BY DEF r
      <4> QED
        BY <3>2, <4>3, <4>4 DEF Fold
    <3> QED
      BY <3>1, <3>2
  <2>3. FoldUpTo(f, Again(h), S, n + 1)
    BY <2>2 DEF FoldUpTo
  <2>4. Again(h) \in [SUBSET S -> Int]
    BY <1>3
  <2>5. n + 1 \in Nat
    OBVIOUS
  <2> DEFINE k == Again(h)
  <2>6. k \in [SUBSET S -> Int] /\ FoldUpTo(f, k, S, n + 1)
    BY <2>3, <2>4
  <2> HIDE DEF k
  <2> QED
    BY <2>5, <2>6
<1>6. Cardinality(S) \in P
  <2>1. P \in SUBSET Nat
    OBVIOUS
  <2> HIDE DEF P
  <2> QED
    BY <1>1, <1>4, <1>5, <2>1, AllNumbers
<1>7. PICK h \in [SUBSET S -> Int] : FoldUpTo(f, h, S, Cardinality(S))
  BY <1>6
<1>8. ASSUME NEW s \in SUBSET S PROVE h[s] = Fold(f, h, s)
  <2>1. Cardinality(s) <= Cardinality(S)
    BY FS_Subset
  <2> QED
    BY <1>7, <2>1 DEF FoldUpTo
<1> QED
  BY <1>8 DEF IsFold

\* Two folds agree where they are both defined.
LEMMA FoldsAgree ==
  ASSUME NEW S, IsFiniteSet(S), NEW R \in SUBSET S, NEW f,
         NEW g, NEW h, IsFold(f, g, S), IsFold(f, h, R)
  PROVE  g[R] = h[R]
<1> DEFINE Bad == {s \in SUBSET R : g[s] # h[s]}
<1>1. ASSUME NEW s \in SUBSET R
      PROVE  g[s] = Fold(f, g, s) /\ h[s] = Fold(f, h, s)
  <2>1. s \in SUBSET S
    OBVIOUS
  <2> QED
    BY <2>1 DEF IsFold
<1>2. SUFFICES ASSUME Bad # {} PROVE FALSE
  OBVIOUS
<1>3. IsFiniteSet(R) /\ Bad \in SUBSET SUBSET R
  BY FS_Subset
<1>4. PICK s \in Bad : \A x \in s : s \ {x} \notin Bad
  <2> HIDE DEF Bad
  <2> QED
    BY <1>2, <1>3, Smallest
<1>5. g[s] # h[s] /\ s \in SUBSET R
  BY <1>4
<1>6. s # {}
  BY <1>1, <1>5 DEF Fold
<1>7. One(s) \in s /\ s \ {One(s)} \in SUBSET R
  BY <1>5, <1>6, OneIn
<1>8. g[s \ {One(s)}] = h[s \ {One(s)}]
  BY <1>4, <1>7
<1> QED
  BY <1>1, <1>5, <1>6, <1>8 DEF Fold

\* The sum over a finite set is the value of a fold.
LEMMA SumIsFold ==
  ASSUME NEW R, IsFiniteSet(R), NEW f, \A x \in R : f[x] \in Int
  PROVE  \E h \in [SUBSET R -> Int] : IsFold(f, h, R) /\ Sum(f, R) = h[R]
<1> DEFINE Rec(h) == [s \in SUBSET R |-> Fold(f, h, s)]
           g == CHOOSE h : h = Rec(h)
<1>1. PICK h \in [SUBSET R -> Int] : IsFold(f, h, R)
  BY FoldExists
<1>2. h = Rec(h)
  BY <1>1 DEF IsFold
<1>3. g = Rec(g)
  <2> HIDE DEF Rec
  <2> QED
    BY <1>2
<1>4. IsFold(f, g, R)
  <2> HIDE DEF g
  <2> QED
    BY <1>3 DEF IsFold
<1>5. Sum(f, R) = g[R]
  <2>1. PICK k : /\ k = CHOOSE h_1 : h_1 = [s \in SUBSET R |-> Fold(f, h_1, s)]
                 /\ Sum(f, R) = k[R]
    BY SumIs
  <2> QED
    BY <2>1
<1> HIDE DEF g
<1>6. g[R] = h[R]
  BY <1>1, <1>4, FoldsAgree
<1> QED
  BY <1>1, <1>5, <1>6

\* What the sum is, by the element that is taken first.
LEMMA SumFold ==
  ASSUME NEW T, NEW f \in [T -> Int], NEW S \in SUBSET T, IsFiniteSet(S)
  PROVE  /\ Sum(f, S) \in Int
         /\ Sum(f, S) = IF S = {} THEN 0
                        ELSE f[One(S)] + Sum(f, S \ {One(S)})
<1>1. PICK h \in [SUBSET S -> Int] : IsFold(f, h, S) /\ Sum(f, S) = h[S]
  BY SumIsFold
<1>2. S \in SUBSET S /\ Sum(f, S) \in Int /\ Sum(f, S) = Fold(f, h, S)
  BY <1>1 DEF IsFold
<1>3. CASE S = {}
  BY <1>2, <1>3 DEF Fold
<1>4. CASE S # {}
  <2> DEFINE R == S \ {One(S)}
  <2>1. R \in SUBSET S /\ IsFiniteSet(R) /\ \A x \in R : f[x] \in Int
    BY FS_Subset
  <2> HIDE DEF R
  <2>2. PICK k \in [SUBSET R -> Int] : IsFold(f, k, R) /\ Sum(f, R) = k[R]
    BY <2>1, SumIsFold
  <2>3. h[R] = k[R]
    BY <1>1, <2>1, <2>2, FoldsAgree
  <2>4. Fold(f, h, S) = f[One(S)] + h[R]
    BY <1>4 DEF Fold, R
  <2> QED
    BY <1>2, <1>4, <2>2, <2>3, <2>4 DEF R
<1> QED
  BY <1>3, <1>4


LEMMA SumEmpty ==
  ASSUME NEW T, NEW f \in [T -> Int]
  PROVE  Sum(f, {}) = 0
  BY SumFold, FS_EmptySet

LEMMA SumType ==
  ASSUME NEW T, NEW f \in [T -> Int], NEW S \in SUBSET T, IsFiniteSet(S)
  PROVE  Sum(f, S) \in Int
  BY SumFold

\* Any element may be taken first: in a smallest set where it may not, take
\* the two in the other order.
LEMMA SumTake ==
  ASSUME NEW T, NEW f \in [T -> Int], NEW S \in SUBSET T, IsFiniteSet(S),
         NEW x \in S
  PROVE  Sum(f, S) = f[x] + Sum(f, S \ {x})
<1> DEFINE Good(R) == \A y \in R : Sum(f, R) = f[y] + Sum(f, R \ {y})
           Bad == {R \in SUBSET S : ~Good(R)}
<1>1. ASSUME NEW R \in SUBSET S
      PROVE  IsFiniteSet(R) /\ R \in SUBSET T /\ Sum(f, R) \in Int
  <2>1. IsFiniteSet(R) /\ R \in SUBSET T
    BY FS_Subset
  <2> QED
    BY <2>1, SumType
<1>2. ASSUME Bad # {} PROVE FALSE
  <2>1. PICK R \in Bad : \A y \in R : R \ {y} \notin Bad
    <3>1. Bad \in SUBSET SUBSET S
      OBVIOUS
    <3> HIDE DEF Bad
    <3> QED
      BY <1>2, <3>1, Smallest
  <2>2. R \in SUBSET S /\ \A y \in R : Good(R \ {y})
    <3>1. R \in SUBSET S /\ \A y \in R : R \ {y} \in SUBSET S
      BY <2>1
    <3> HIDE DEF Good
    <3> QED
      BY <2>1, <3>1
  <2>3. PICK y \in R : Sum(f, R) # f[y] + Sum(f, R \ {y})
    BY <2>1
  <2> DEFINE z == One(R)
  <2>4. z \in R /\ z \in T /\ y \in T
    BY <2>2, OneIn
  <2>5. Sum(f, R) = f[z] + Sum(f, R \ {z})
    BY <1>1, <2>2, <2>4, SumFold
  <2> HIDE DEF z
  <2>6. y # z
    BY <2>3, <2>5
  <2>7. /\ Sum(f, R \ {z}) = f[y] + Sum(f, (R \ {z}) \ {y})
        /\ Sum(f, R \ {y}) = f[z] + Sum(f, (R \ {y}) \ {z})
    BY <2>2, <2>4, <2>6
  <2>8. (R \ {z}) \ {y} = (R \ {y}) \ {z} /\ (R \ {y}) \ {z} \in SUBSET S
    BY <2>2
  <2>9. Sum(f, (R \ {y}) \ {z}) \in Int /\ f[y] \in Int /\ f[z] \in Int
    BY <1>1, <2>4, <2>8
  <2> HIDE DEF Bad, Good
  <2> DEFINE a == Sum(f, (R \ {y}) \ {z})
             b == Sum(f, R \ {z})
             c == Sum(f, R \ {y})
  <2>10. b = f[y] + a /\ c = f[z] + a /\ a \in Int
    BY <2>7, <2>8, <2>9
  <2>11. Sum(f, R) # f[y] + c /\ Sum(f, R) = f[z] + b
    BY <2>3, <2>5
  <2> HIDE DEF a, b, c
  <2> QED
    BY <2>9, <2>10, <2>11
<1>3. Good(S)
  <2> HIDE DEF Good
  <2>1. S \in SUBSET S
    OBVIOUS
  <2> QED
    BY <1>2, <2>1
<1> QED
  BY <1>3

\* Only what the functions are on the set matters.
LEMMA SumSame ==
  ASSUME NEW T, NEW f \in [T -> Int], NEW g \in [T -> Int],
         NEW S \in SUBSET T, IsFiniteSet(S), \A x \in S : f[x] = g[x]
  PROVE  Sum(f, S) = Sum(g, S)
<1> DEFINE Bad == {R \in SUBSET S : Sum(f, R) # Sum(g, R)}
<1>1. SUFFICES ASSUME Bad # {} PROVE FALSE
  <2>1. S \in SUBSET S
    OBVIOUS
  <2> QED
    BY <2>1
<1>2. PICK R \in Bad : \A y \in R : R \ {y} \notin Bad
  <2>1. Bad \in SUBSET SUBSET S
    OBVIOUS
  <2> HIDE DEF Bad
  <2> QED
    BY <1>1, <2>1, Smallest
<1>3. /\ R \in SUBSET S /\ R \in SUBSET T /\ IsFiniteSet(R)
      /\ Sum(f, R) # Sum(g, R)
  BY <1>2, FS_Subset
<1>4. R # {}
  BY <1>3, SumEmpty
<1>5. PICK x \in R : TRUE
  BY <1>4
<1>6. /\ Sum(f, R) = f[x] + Sum(f, R \ {x})
      /\ Sum(g, R) = g[x] + Sum(g, R \ {x})
  BY <1>3, SumTake
<1>7. Sum(f, R \ {x}) = Sum(g, R \ {x}) /\ f[x] = g[x]
  BY <1>2, <1>3
<1> QED
  BY <1>3, <1>6, <1>7

LEMMA SumZero ==
  ASSUME NEW T, NEW f \in [T -> Int], NEW S \in SUBSET T, IsFiniteSet(S),
         \A x \in S : f[x] = 0
  PROVE  Sum(f, S) = 0
<1> DEFINE Bad == {R \in SUBSET S : Sum(f, R) # 0}
<1>1. SUFFICES ASSUME Bad # {} PROVE FALSE
  <2>1. S \in SUBSET S
    OBVIOUS
  <2> QED
    BY <2>1
<1>2. PICK R \in Bad : \A y \in R : R \ {y} \notin Bad
  <2>1. Bad \in SUBSET SUBSET S
    OBVIOUS
  <2> HIDE DEF Bad
  <2> QED
    BY <1>1, <2>1, Smallest
<1>3. R \in SUBSET S /\ R \in SUBSET T /\ IsFiniteSet(R) /\ Sum(f, R) # 0
  BY <1>2, FS_Subset
<1>4. R # {}
  BY <1>3, SumEmpty
<1>5. PICK x \in R : TRUE
  BY <1>4
<1>6. Sum(f, R) = f[x] + Sum(f, R \ {x})
  BY <1>3, SumTake
<1>7. Sum(f, R \ {x}) = 0 /\ f[x] = 0
  BY <1>2, <1>3
<1> QED
  BY <1>3, <1>6, <1>7

\* A function that is changed at one place.
LEMMA SumChange ==
  ASSUME NEW T, NEW f \in [T -> Int], NEW g \in [T -> Int],
         NEW S \in SUBSET T, IsFiniteSet(S), NEW x \in T,
         \A y \in T \ {x} : g[y] = f[y]
  PROVE  Sum(g, S) = Sum(f, S) + (IF x \in S THEN g[x] - f[x] ELSE 0)
<1>1. CASE x \in S
  <2>1. IsFiniteSet(S \ {x}) /\ S \ {x} \in SUBSET T
    BY FS_Subset
  <2>2. Sum(f, S \ {x}) = Sum(g, S \ {x}) /\ Sum(f, S \ {x}) \in Int
    <3>1. \A y \in S \ {x} : f[y] = g[y]
      OBVIOUS
    <3> QED
      BY <2>1, <3>1, SumSame, SumType
  <2>3. Sum(f, S) = f[x] + Sum(f, S \ {x}) /\ Sum(g, S) = g[x] + Sum(g, S \ {x})
    BY <1>1, SumTake
  <2>4. f[x] \in Int /\ g[x] \in Int
    OBVIOUS
  <2> QED
    BY <1>1, <2>2, <2>3, <2>4
<1>2. CASE x \notin S
  <2>1. \A y \in S : f[y] = g[y]
    BY <1>2
  <2>2. Sum(f, S) = Sum(g, S) /\ Sum(f, S) \in Int
    BY <2>1, SumSame, SumType
  <2> QED
    BY <1>2, <2>2
<1> QED
  BY <1>1, <1>2

-----------------------------------------------------------------------------
(* The books: games, visits and values *)

Games == [c \in Edge |-> games[c] - base[c]]

\* The value of a move without the virtual losses.
Net == [c \in Edge |-> sum[c] + vl[c]]
NetBelow(n) == Sum(Net, Children(n))

LeafValue(c) == IF OneLeaf(c) = 1 THEN Value[c] ELSE 0

\* What a thread changes about a position c in several steps: it has counted
\* the move c and not yet one below it, or an evaluation of c and not the move.
Due(c, t) ==
  IF \/ pc[t] = "enter" /\ at[t] = c
     \/ pc[t] \in OnMove /\ Parent[at[t]] = c
  THEN 1 ELSE IF pc[t] = "leaf" /\ at[t] = c THEN -1 ELSE 0

\* And of its value: what a call returned from below is not in the move yet,
\* nor is its evaluation.
Owed(c, t) ==
  IF at[t] # c THEN 0
  ELSE IF pc[t] = "back" THEN win[t]
  ELSE IF pc[t] = "leaf" THEN Value[c] ELSE 0

DueOf(c) == [t \in Thread |-> Due(c, t)]
OwedOf(c) == [t \in Thread |-> Owed(c, t)]
Dues(c) == Sum(DueOf(c), Thread)
Owes(c) == Sum(OwedOf(c), Thread)

\* The threads that have counted a visit of the root and not their playout.
Inside == {t \in Thread : stack[t] # {} \/ pc[t] = "count"}

\* The moves CountsAddUp is about.
Inner == {c \in Edge \ Final : Legal(c) # {} /\ Depth[c] <= MaxPly}

VisitOK == \A n \in Node : gs[n] = Sum(Games, Children(n))

RootOK == Legal(Root) # {} => gs[Root] = count + Cardinality(Inside)

Balanced(c) == Games[c] = OneLeaf(c) + gs[c] + Dues(c)
GamesOK == \A c \in Inner : Balanced(c)

Valued(c) == Net[c] + NetBelow(c) + LeafValue(c) = Owes(c)
ValueOK == \A c \in Inner : Valued(c)

\* A move nobody has a result of has no value: it starts anew (Undone).
NetOK == \A c \in Edge : /\ base[c] + vl[c] <= games[c]
                         /\ base[c] + vl[c] = games[c] => Net[c] = 0

\* A move with games has an entry, or the former search left them; so a visit
\* makes the entry of a position it evaluates and of no other one.
EntryAt(t) ==
  /\ pc[t] = "enter" /\ at[t] # Root => at[t] \in node \/ base[at[t]] > 0
  /\ pc[t] \in OnMove => at[t] \notin Final
  /\ pc[t] = "eval" /\ Depth[at[t]] <= MaxPly => base[at[t]] = 0
  /\ pc[t] \in {"leaf", "down"} => at[t] \in node
  /\ pc[t] = "leaf" => win[t] = -Value[at[t]]
EntryOK ==
  /\ kept \cup {Root} \subseteq node
  /\ \A c \in Edge \ Final : games[c] > 0 => c \in node \/ base[c] > 0
  /\ \A t \in Thread : EntryAt(t)

Books == VisitOK /\ RootOK /\ GamesOK /\ ValueOK /\ NetOK /\ EntryOK

BooksTyped ==
  /\ Games \in [Edge -> Int] /\ Net \in [Edge -> Int]
  /\ \A c \in Edge : /\ DueOf(c) \in [Thread -> Int]
                     /\ OwedOf(c) \in [Thread -> Int]
                     /\ Dues(c) \in Int /\ Owes(c) \in Int
                     /\ Value[c] \in Int /\ LeafValue(c) \in Int
                     /\ OneLeaf(c) \in {0, 1} /\ OneLeaf(c) \in Int
                     /\ NetBelow(c) \in Int

LEMMA Branches ==
  \A n \in Node : Children(n) \in SUBSET Edge /\ IsFiniteSet(Children(n))
  BY MovesAssumption DEF Children

LEMMA BookTypes == TypeOK => BooksTyped
<1> SUFFICES ASSUME TypeOK PROVE BooksTyped
  OBVIOUS
<1>1. Games \in [Edge -> Int] /\ Net \in [Edge -> Int]
  BY DEF Games, Net, TypeOK
<1>3. ASSUME NEW c \in Edge
      PROVE  /\ DueOf(c) \in [Thread -> Int] /\ OwedOf(c) \in [Thread -> Int]
             /\ Value[c] \in Int /\ LeafValue(c) \in Int
             /\ OneLeaf(c) \in {0, 1} /\ OneLeaf(c) \in Int
  <2>1. Value[c] \in Int
    BY TreeAssumption DEF Edge
  <2>2. \A t \in Thread : Due(c, t) \in Int
    BY DEF Due
  <2>3. \A t \in Thread : Owed(c, t) \in Int
    BY <2>1 DEF Owed, TypeOK
  <2> QED
    BY <2>1, <2>2, <2>3 DEF DueOf, OwedOf, LeafValue, OneLeaf
<1>4. IsFiniteSet(Thread)
  BY ThreadsAssumption
<1>5. ASSUME NEW c \in Edge
      PROVE  Dues(c) \in Int /\ Owes(c) \in Int /\ NetBelow(c) \in Int
  <2>1. Dues(c) \in Int /\ Owes(c) \in Int
    BY <1>3, <1>4, SumType DEF Dues, Owes
  <2>2. c \in Node
    BY DEF Edge
  <2>3. NetBelow(c) \in Int
    BY <1>1, <2>2, Branches, SumType DEF NetBelow
  <2> QED
    BY <2>1, <2>3
<1> QED
  BY <1>1, <1>3, <1>5 DEF BooksTyped

LEMMA BookTypesNext == TypeOK' => BooksTyped'
  BY BookTypes, PTL

\* A step of a thread changes what it owes and what no other one does.
Others(t) ==
  \A u \in Thread \ {t} : /\ pc'[u] = pc[u] /\ at'[u] = at[u]
                          /\ stack'[u] = stack[u] /\ win'[u] = win[u]

LEMMA DuesStep ==
  ASSUME TypeOK, TypeOK', NEW t \in Thread, Others(t), NEW e \in Edge
  PROVE  /\ Dues(e)' = Dues(e) + (Due(e, t)' - Due(e, t))
         /\ Owes(e)' = Owes(e) + (Owed(e, t)' - Owed(e, t))
<1>1. /\ DueOf(e) \in [Thread -> Int] /\ OwedOf(e) \in [Thread -> Int]
      /\ DueOf(e)' \in [Thread -> Int] /\ OwedOf(e)' \in [Thread -> Int]
  BY BookTypes, BookTypesNext DEF BooksTyped
<1>2. \A u \in Thread \ {t} : /\ DueOf(e)'[u] = DueOf(e)[u]
                              /\ OwedOf(e)'[u] = OwedOf(e)[u]
  BY DEF Others, DueOf, OwedOf, Due, Owed
<1>3. /\ DueOf(e)[t] = Due(e, t) /\ DueOf(e)'[t] = Due(e, t)'
      /\ OwedOf(e)[t] = Owed(e, t) /\ OwedOf(e)'[t] = Owed(e, t)'
  BY DEF DueOf, OwedOf
<1>4. IsFiniteSet(Thread) /\ Thread \in SUBSET Thread
  BY ThreadsAssumption
<1>5. Sum(DueOf(e)', Thread)
        = Sum(DueOf(e), Thread) + (DueOf(e)'[t] - DueOf(e)[t])
  BY <1>1, <1>2, <1>4, SumChange
<1>6. Sum(OwedOf(e)', Thread)
        = Sum(OwedOf(e), Thread) + (OwedOf(e)'[t] - OwedOf(e)[t])
  BY <1>1, <1>2, <1>4, SumChange
<1> QED
  BY <1>3, <1>5, <1>6 DEF Dues, Owes

\* The value of one move is changed, if any.
LEMMA NetBelowStep ==
  ASSUME TypeOK, TypeOK', NEW c \in Edge, NEW n \in Node,
         \A e \in Edge \ {c} : Net'[e] = Net[e]
  PROVE  NetBelow(n)'
           = NetBelow(n) + (IF Parent[c] = n THEN Net'[c] - Net[c] ELSE 0)
<1>1. Net \in [Edge -> Int] /\ Net' \in [Edge -> Int]
  BY BookTypes, BookTypesNext DEF BooksTyped
<1>2. c \in Children(n) <=> Parent[c] = n
  BY DEF Children
<1>3. Sum(Net', Children(n))
        = Sum(Net, Children(n))
            + (IF c \in Children(n) THEN Net'[c] - Net[c] ELSE 0)
  BY <1>1, Branches, SumChange
<1> QED
  BY <1>2, <1>3 DEF NetBelow

LEMMA NetBelowSame ==
  ASSUME Net' = Net, NEW n \in Node
  PROVE  NetBelow(n)' = NetBelow(n)
  BY DEF NetBelow

LEMMA VisitStep ==
  ASSUME TypeOK, TypeOK', VisitOK, NEW c \in Edge, base' = base,
         games' = [games EXCEPT ![c] = @ + 1],
         gs' = [gs EXCEPT ![Parent[c]] = @ + 1]
  PROVE  VisitOK'
<1>1. Games \in [Edge -> Int] /\ Games' \in [Edge -> Int]
  BY BookTypes, BookTypesNext DEF BooksTyped
<1>2. /\ \A e \in Edge \ {c} : Games'[e] = Games[e]
      /\ Games'[c] = Games[c] + 1
  BY DEF Games, TypeOK
<1>3. ASSUME NEW n \in Node PROVE gs'[n] = Sum(Games', Children(n))
  <2>1. Sum(Games', Children(n))
          = Sum(Games, Children(n)) + (IF c \in Children(n) THEN 1 ELSE 0)
    <3>1. Sum(Games', Children(n))
            = Sum(Games, Children(n))
                + (IF c \in Children(n) THEN Games'[c] - Games[c] ELSE 0)
      BY <1>1, <1>2, Branches, SumChange
    <3>2. Games'[c] - Games[c] = 1
      BY <1>1, <1>2
    <3> QED
      BY <3>1, <3>2
  <2>2. c \in Children(n) <=> Parent[c] = n
    BY DEF Children
  <2>3. gs'[n] = gs[n] + (IF Parent[c] = n THEN 1 ELSE 0)
    BY DEF TypeOK
  <2>4. gs[n] = Sum(Games, Children(n))
    BY DEF VisitOK
  <2> QED
    BY <2>1, <2>2, <2>3, <2>4
<1> QED
  BY <1>3 DEF VisitOK

LEMMA VisitSame ==
  ASSUME VisitOK, UNCHANGED <<base, games, gs>>
  PROVE  VisitOK'
<1>1. Games' = Games
  BY DEF Games
<1> QED
  BY <1>1 DEF VisitOK

\* What a position has to show for its move, before and after a step.
LEMMA BalancedStep ==
  ASSUME TypeOK, TypeOK', NEW t \in Thread, Others(t), NEW e \in Edge,
         base' = base, Balanced(e),
         games'[e] - games[e]
           = (OneLeaf(e)' - OneLeaf(e)) + (gs'[e] - gs[e])
               + (Due(e, t)' - Due(e, t))
  PROVE  Balanced(e)'
<1>1. Dues(e)' = Dues(e) + (Due(e, t)' - Due(e, t))
  BY DuesStep
<1>2. /\ games[e] \in Int /\ games'[e] \in Int /\ base[e] \in Int
      /\ gs[e] \in Int /\ gs'[e] \in Int
  BY DEF TypeOK, Edge
<1>3. /\ OneLeaf(e) \in Int /\ OneLeaf(e)' \in Int
      /\ Dues(e) \in Int /\ Dues(e)' \in Int
      /\ Games[e] \in Int /\ Games'[e] \in Int
  BY BookTypes, BookTypesNext DEF BooksTyped
<1>4. Due(e, t) \in Int /\ Due(e, t)' \in Int
  BY DEF Due
<1>5. Games[e] = games[e] - base[e] /\ Games'[e] = games'[e] - base[e]
  BY DEF Games
<1>6. Games[e] = OneLeaf(e) + gs[e] + Dues(e)
  BY DEF Balanced
<1>7. Games'[e] = OneLeaf(e)' + gs'[e] + Dues(e)'
  BY <1>1, <1>2, <1>3, <1>4, <1>5, <1>6
<1> QED
  BY <1>7 DEF Balanced

LEMMA ValuedStep ==
  ASSUME TypeOK, TypeOK', NEW t \in Thread, Others(t), NEW e \in Edge,
         Valued(e),
         (Net'[e] - Net[e]) + (NetBelow(e)' - NetBelow(e))
             + (LeafValue(e)' - LeafValue(e))
           = Owed(e, t)' - Owed(e, t)
  PROVE  Valued(e)'
<1>1. Owes(e)' = Owes(e) + (Owed(e, t)' - Owed(e, t))
  BY DuesStep
<1>2. /\ Net[e] \in Int /\ Net'[e] \in Int
      /\ NetBelow(e) \in Int /\ NetBelow(e)' \in Int
      /\ LeafValue(e) \in Int /\ LeafValue(e)' \in Int /\ Owes(e) \in Int
  BY BookTypes, BookTypesNext DEF BooksTyped
<1>3. Owed(e, t) \in Int /\ Owed(e, t)' \in Int
  BY TreeAssumption DEF Owed, TypeOK, Edge
<1>4. Net[e] + NetBelow(e) + LeafValue(e) = Owes(e)
  BY DEF Valued
<1>5. Net'[e] + NetBelow(e)' + LeafValue(e)' = Owes(e)'
  BY <1>1, <1>2, <1>3, <1>4
<1> QED
  BY <1>5 DEF Valued

\* A visit that makes the entry of a position with games evaluates nothing.
LEMMA LeavesStay ==
  ASSUME NEW n, node' = node \cup {n}, UNCHANGED <<kept, base>>,
         n \in node \/ base[n] > 0, TypeOK, NEW e \in Edge
  PROVE  OneLeaf(e)' = OneLeaf(e) /\ LeafValue(e)' = LeafValue(e)
<1>1. base[e] \in Nat /\ (e = n => e \in node \/ base[e] # 0)
  BY DEF TypeOK
<1>2. OneLeaf(e)' = OneLeaf(e)
  BY <1>1 DEF OneLeaf
<1> QED
  BY <1>2 DEF LeafValue

LEMMA EntryStep ==
  ASSUME EntryOK, NEW t \in Thread, Others(t), EntryAt(t)',
         node \subseteq node', UNCHANGED <<kept, base>>,
         \A c \in Edge \ Final : games'[c] > 0 => c \in node' \/ base[c] > 0
  PROVE  EntryOK'
<1>1. ASSUME NEW u \in Thread \ {t} PROVE EntryAt(u)'
  <2>1. EntryAt(u)
    BY DEF EntryOK
  <2>2. pc'[u] = pc[u] /\ at'[u] = at[u] /\ win'[u] = win[u]
    BY DEF Others
  <2> QED
    BY <2>1, <2>2 DEF EntryAt
<1>2. kept' \cup {Root} \subseteq node'
  BY DEF EntryOK
<1> QED
  BY <1>1, <1>2 DEF EntryOK

LEMMA InsideStep ==
  ASSUME NEW t \in Thread, Others(t)
  PROVE  /\ Cardinality(Inside) \in Nat /\ Cardinality(Inside') \in Nat
         /\ Cardinality(Inside')
              = Cardinality(Inside) + (IF t \in Inside' THEN 1 ELSE 0)
                                    - (IF t \in Inside THEN 1 ELSE 0)
<1>1. Inside \subseteq Thread /\ Inside' \subseteq Thread
  BY DEF Inside
<1>2. Inside' \ {t} = Inside \ {t}
  BY DEF Inside, Others
<1>3. /\ Cardinality(Inside) \in Nat /\ Cardinality(Inside') \in Nat
      /\ Cardinality(Inside \ {t}) \in Nat
  BY <1>1, CountedFinite
<1>4. Cardinality(Inside)
        = Cardinality(Inside \ {t}) + (IF t \in Inside THEN 1 ELSE 0)
  <2>1. CASE t \in Inside
    BY <1>1, <1>3, <2>1, OneLess
  <2>2. CASE t \notin Inside
    <3>1. Inside \ {t} = Inside
      BY <2>2
    <3> QED
      BY <1>3, <2>2, <3>1
  <2> QED
    BY <2>1, <2>2
<1>5. Cardinality(Inside')
        = Cardinality(Inside' \ {t}) + (IF t \in Inside' THEN 1 ELSE 0)
  <2>1. CASE t \in Inside'
    BY <1>1, <1>2, <1>3, <2>1, OneLess
  <2>2. CASE t \notin Inside'
    <3>1. Inside' \ {t} = Inside'
      BY <2>2
    <3> QED
      BY <1>3, <2>2, <3>1
  <2> QED
    BY <2>1, <2>2
<1> QED
  BY <1>2, <1>3, <1>4, <1>5

\* A visit of the root is counted by a thread that enters, one of another
\* position by a thread that is inside.
LEMMA RootVisit ==
  ASSUME Inv, TypeOK', RootOK, NEW t \in Thread, Others(t), NEW c \in Edge,
         gs' = [gs EXCEPT ![Parent[c]] = @ + 1], count' = count,
         Parent[c] = Root => t \notin Inside,
         Parent[c] # Root => t \in Inside,
         t \in Inside'
  PROVE  RootOK'
<1>1. gs'[Root] = gs[Root] + (IF Parent[c] = Root THEN 1 ELSE 0)
  BY TreeAssumption DEF Inv, TypeOK
<1>2. /\ Cardinality(Inside) \in Nat /\ Cardinality(Inside') \in Nat
      /\ Cardinality(Inside')
           = Cardinality(Inside) + 1 - (IF t \in Inside THEN 1 ELSE 0)
  BY InsideStep
<1>3. gs[Root] \in Int /\ count \in Int
  BY TreeAssumption DEF Inv, TypeOK
<1>4. Legal(Root) # {} => gs'[Root] = count' + Cardinality(Inside')
  BY <1>1, <1>2, <1>3 DEF RootOK
<1> QED
  BY <1>4 DEF RootOK

LEMMA RootSame ==
  ASSUME Inv, RootOK, NEW t \in Thread, Others(t), UNCHANGED <<gs, count>>,
         t \in Inside' <=> t \in Inside
  PROVE  RootOK'
<1>1. Cardinality(Inside') = Cardinality(Inside)
  BY InsideStep
<1> QED
  BY <1>1 DEF RootOK

\* The calls below a thread, where it makes a visit.
LEMMA VisitPath ==
  ASSUME Inv, NEW t \in Thread, NEW c \in Edge,
         \/ pc[t] = "enter" /\ Parent[c] = at[t]
         \/ pc[t] \in OnMove /\ c = at[t]
  PROVE  /\ Parent[c] = Root => stack[t] = {}
         /\ Parent[c] # Root => Parent[c] \in stack[t]
<1>1. Parent[c] # Root => Parent[c] \in stack[t]
  BY DEF Inv, StackOK, PathOK
<1>2. ASSUME Parent[c] = Root, NEW d \in stack[t] PROVE FALSE
  <2>1. d \in Edge
    BY DEF Inv, TypeOK
  <2>2. Depth[c] = 2 /\ Depth[Root] = 1
    BY <1>2, MovesAreBelow, TreeAssumption
  <2>3. /\ Depth[d] <= Depth[at[t]]
        /\ pc[t] \in OnMove => Depth[d] < Depth[at[t]]
    BY DEF Inv, StackOK, PathOK
  <2>4. Depth[d] \in Nat /\ Depth[d] > 1
    BY <2>1, MovesAreBelow
  <2> QED
    BY <1>2, <2>2, <2>3, <2>4
<1> QED
  BY <1>1, <1>2

\* A thread goes down a move: a visit of the position it leaves, which the
\* move and the position below it still have to show.
LEMMA DownBooks ==
  ASSUME Inv, TypeOK', Books, NEW t \in Thread, NEW c \in Edge, Down(t, c),
         \/ pc[t] = "enter" /\ Parent[c] = at[t]
         \/ pc[t] = "down" /\ c = at[t],
         UNCHANGED <<kept, base, count>>,
         \A e \in Edge : /\ OneLeaf(e)' = OneLeaf(e)
                         /\ LeafValue(e)' = LeafValue(e)
  PROVE  VisitOK' /\ RootOK' /\ GamesOK' /\ ValueOK' /\ NetOK' /\ Others(t)
<1> USE DEF Inv
<1>1. Others(t)
  BY DEF Down, Others, TypeOK
<1>2. /\ pc'[t] = "enter" /\ at'[t] = c /\ stack'[t] = stack[t] \cup {c}
      /\ \A e \in Edge : /\ games'[e] = games[e] + (IF e = c THEN 1 ELSE 0)
                         /\ vl'[e] = vl[e] + (IF e = c THEN 1 ELSE 0)
                         /\ sum'[e] = sum[e] - (IF e = c THEN 1 ELSE 0)
                         /\ gs'[e] = gs[e] + (IF e = Parent[c] THEN 1 ELSE 0)
  BY DEF Down, TypeOK, Edge
<1>3. Net' = Net
  <2>1. ASSUME NEW e \in Edge PROVE sum'[e] + vl'[e] = sum[e] + vl[e]
    <3>1. sum[e] \in Int /\ vl[e] \in Int
      BY DEF TypeOK
    <3> QED
      BY <1>2, <3>1
  <2> QED
    BY <2>1 DEF Net
<1>4. VisitOK'
  BY VisitStep DEF Down, Books
<1>5. ASSUME NEW e \in Edge
      PROVE  /\ Due(e, t) = IF e = Parent[c] THEN 1 ELSE 0
             /\ Due(e, t)' = IF e = c THEN 1 ELSE 0
             /\ Owed(e, t) = 0 /\ Owed(e, t)' = 0
  BY <1>2 DEF Due, Owed, OnMove
<1>6. ASSUME NEW e \in Inner PROVE Balanced(e)' /\ Valued(e)'
  <2>1. e \in Edge /\ e \in Node /\ Balanced(e) /\ Valued(e)
    BY DEF Inner, Books, GamesOK, ValueOK, Edge
  <2>2. /\ games[e] \in Int /\ gs[e] \in Int /\ OneLeaf(e) \in Int
        /\ Net[e] \in Int /\ NetBelow(e) \in Int /\ LeafValue(e) \in Int
    BY <2>1, BookTypes DEF BooksTyped, TypeOK
  <2>3. Balanced(e)'
    <3>1. games'[e] - games[e]
            = (OneLeaf(e)' - OneLeaf(e)) + (gs'[e] - gs[e])
                + (Due(e, t)' - Due(e, t))
      BY <1>2, <1>5, <2>1, <2>2
    <3> QED
      BY <1>1, <2>1, <3>1, BalancedStep
  <2>4. Valued(e)'
    <3>1. NetBelow(e)' = NetBelow(e)
      BY <1>3, <2>1, NetBelowSame
    <3>2. (Net'[e] - Net[e]) + (NetBelow(e)' - NetBelow(e))
              + (LeafValue(e)' - LeafValue(e))
            = Owed(e, t)' - Owed(e, t)
      BY <1>3, <1>5, <2>1, <2>2, <3>1
    <3> QED
      BY <1>1, <2>1, <3>2, ValuedStep
  <2> QED
    BY <2>3, <2>4
<1>7. NetOK'
  <2> SUFFICES ASSUME NEW e \in Edge
               PROVE  /\ base'[e] + vl'[e] <= games'[e]
                      /\ base'[e] + vl'[e] = games'[e] => Net'[e] = 0
    BY DEF NetOK
  <2>1. base[e] \in Nat /\ vl[e] \in Nat /\ games[e] \in Nat
    BY DEF TypeOK
  <2>2. /\ base[e] + vl[e] <= games[e]
        /\ base[e] + vl[e] = games[e] => Net[e] = 0
    BY DEF Books, NetOK
  <2> QED
    BY <1>2, <1>3, <2>1, <2>2
<1>8. RootOK'
  <2>1. /\ Parent[c] = Root => stack[t] = {}
        /\ Parent[c] # Root => Parent[c] \in stack[t]
    BY VisitPath DEF OnMove
  <2>2. /\ Parent[c] = Root => t \notin Inside
        /\ Parent[c] # Root => t \in Inside
        /\ t \in Inside'
    BY <1>2, <2>1 DEF Inside
  <2>3. gs' = [gs EXCEPT ![Parent[c]] = @ + 1]
    BY DEF Down
  <2> QED
    BY <1>1, <2>2, <2>3, RootVisit DEF Books
<1> QED
  BY <1>1, <1>4, <1>6, <1>7, <1>8 DEF GamesOK, ValueOK

\* The end of a visit: the move is counted, the call above it will be.
LEMMA ScoreBooks ==
  ASSUME Inv, TypeOK', Books, NEW t \in Thread, NEW c \in Edge, NEW w \in Int,
         Score(c, w), Return(t, Parent[c], w), UNCHANGED <<vl, stack>>,
         \/ pc[t] = "enter" /\ Parent[c] = at[t] /\ c \in Final
         \/ pc[t] = "leaf" /\ c = at[t] /\ w = -Value[c],
         UNCHANGED <<kept, base, count>>,
         \A e \in Edge : /\ OneLeaf(e)' = OneLeaf(e)
                         /\ LeafValue(e)' = LeafValue(e)
  PROVE  VisitOK' /\ RootOK' /\ GamesOK' /\ ValueOK' /\ NetOK' /\ Others(t)
<1> USE DEF Inv
<1>1. Others(t)
  BY DEF Return, Others, TypeOK
<1>2. /\ pc'[t] = (IF Parent[c] = Root THEN "count" ELSE "back")
      /\ at'[t] = Parent[c] /\ win'[t] = w /\ stack'[t] = stack[t]
      /\ \A e \in Edge : /\ games'[e] = games[e] + (IF e = c THEN 1 ELSE 0)
                         /\ vl'[e] = vl[e]
                         /\ sum'[e] = sum[e] + (IF e = c THEN w ELSE 0)
                         /\ gs'[e] = gs[e] + (IF e = Parent[c] THEN 1 ELSE 0)
  BY DEF Return, Score, TypeOK, Edge
<1>3. \A e \in Edge : Net'[e] = Net[e] + (IF e = c THEN w ELSE 0)
  BY <1>2 DEF Net, TypeOK
<1>4. VisitOK'
  BY VisitStep DEF Score, Books
<1>5. Parent[c] # c
  BY MovesAreBelow
<1>6. ASSUME NEW e \in Inner PROVE Balanced(e)' /\ Valued(e)'
  <2>1. e \in Edge /\ e \in Node /\ Balanced(e) /\ Valued(e) /\ e \notin Final
    BY DEF Inner, Books, GamesOK, ValueOK, Edge
  <2>2. /\ games[e] \in Int /\ gs[e] \in Int /\ OneLeaf(e) \in Int
        /\ Net[e] \in Int /\ NetBelow(e) \in Int /\ LeafValue(e) \in Int
        /\ Value[e] \in Int
    BY <2>1, BookTypes DEF BooksTyped, TypeOK
  <2>3. /\ Due(e, t) = IF e = Parent[c] THEN 1 ELSE IF e = c THEN -1 ELSE 0
        /\ Owed(e, t) = IF e = c THEN Value[c] ELSE 0
    BY <1>5, <2>1 DEF Due, Owed, OnMove
  <2>4. /\ Due(e, t)' = 0
        /\ Owed(e, t)' = IF e = Parent[c] THEN w ELSE 0
    BY <1>2, <2>1 DEF Due, Owed, OnMove, Edge
  <2>5. Balanced(e)'
    <3>1. games'[e] - games[e]
            = (OneLeaf(e)' - OneLeaf(e)) + (gs'[e] - gs[e])
                + (Due(e, t)' - Due(e, t))
      BY <1>2, <1>5, <2>1, <2>2, <2>3, <2>4
    <3> QED
      BY <1>1, <2>1, <3>1, BalancedStep
  <2>6. Valued(e)'
    <3>1. NetBelow(e)' = NetBelow(e) + (IF Parent[c] = e THEN w ELSE 0)
      <4>1. \A d \in Edge \ {c} : Net'[d] = Net[d]
        BY <1>3, BookTypes DEF BooksTyped
      <4>2. Net'[c] - Net[c] = w
        BY <1>3, BookTypes DEF BooksTyped
      <4>3. NetBelow(e)'
              = NetBelow(e) + (IF Parent[c] = e THEN Net'[c] - Net[c] ELSE 0)
        BY <2>1, <4>1, NetBelowStep
      <4> QED
        BY <4>2, <4>3
    <3>2. e = c => w = -Value[c]
      BY <2>1
    <3>3. (Net'[e] - Net[e]) + (NetBelow(e)' - NetBelow(e))
              + (LeafValue(e)' - LeafValue(e))
            = Owed(e, t)' - Owed(e, t)
      BY <1>3, <1>5, <2>1, <2>2, <2>3, <2>4, <3>1, <3>2
    <3> QED
      BY <1>1, <2>1, <3>3, ValuedStep
  <2> QED
    BY <2>5, <2>6
<1>7. NetOK'
  <2> SUFFICES ASSUME NEW e \in Edge
               PROVE  /\ base'[e] + vl'[e] <= games'[e]
                      /\ base'[e] + vl'[e] = games'[e] => Net'[e] = 0
    BY DEF NetOK
  <2>1. base[e] \in Nat /\ vl[e] \in Nat /\ games[e] \in Nat /\ Net[e] \in Int
    BY BookTypes DEF TypeOK, BooksTyped
  <2>2. /\ base[e] + vl[e] <= games[e]
        /\ base[e] + vl[e] = games[e] => Net[e] = 0
    BY DEF Books, NetOK
  <2> QED
    BY <1>2, <1>3, <2>1, <2>2
<1>8. RootOK'
  <2>1. /\ Parent[c] = Root => stack[t] = {}
        /\ Parent[c] # Root => Parent[c] \in stack[t]
    BY VisitPath DEF OnMove
  <2>2. /\ Parent[c] = Root => t \notin Inside
        /\ Parent[c] # Root => t \in Inside
        /\ t \in Inside'
    BY <1>2, <2>1 DEF Inside
  <2>3. gs' = [gs EXCEPT ![Parent[c]] = @ + 1]
    BY DEF Score
  <2> QED
    BY <1>1, <2>2, <2>3, RootVisit DEF Books
<1> QED
  BY <1>1, <1>4, <1>6, <1>7, <1>8 DEF GamesOK, ValueOK

\* A step that counts nothing.
LEMMA QuietBooks ==
  ASSUME Inv, TypeOK', Books, NEW t \in Thread, Others(t),
         UNCHANGED <<games, sum, vl, gs, kept, base>>,
         \A e \in Inner :
           /\ OneLeaf(e)' - OneLeaf(e) = Due(e, t) - Due(e, t)'
           /\ LeafValue(e)' - LeafValue(e) = Owed(e, t)' - Owed(e, t)
  PROVE  VisitOK' /\ GamesOK' /\ ValueOK' /\ NetOK'
<1> USE DEF Inv
<1>1. VisitOK'
  BY VisitSame DEF Books
<1>2. Net' = Net
  BY DEF Net
<1>3. NetOK'
  BY <1>2 DEF Books, NetOK
<1>4. ASSUME NEW e \in Inner PROVE Balanced(e)' /\ Valued(e)'
  <2>1. e \in Edge /\ e \in Node /\ Balanced(e) /\ Valued(e)
    BY DEF Inner, Books, GamesOK, ValueOK, Edge
  <2>2. /\ games[e] \in Int /\ gs[e] \in Int
        /\ OneLeaf(e) \in Int /\ OneLeaf(e)' \in Int
        /\ Net[e] \in Int /\ NetBelow(e) \in Int
        /\ LeafValue(e) \in Int /\ LeafValue(e)' \in Int
    BY <2>1, BookTypes, BookTypesNext DEF BooksTyped, TypeOK
  <2>3. Due(e, t) \in Int /\ Due(e, t)' \in Int
    BY DEF Due
  <2>4. Balanced(e)'
    <3>1. OneLeaf(e)' - OneLeaf(e) = Due(e, t) - Due(e, t)'
      OBVIOUS
    <3>2. games'[e] - games[e] = 0 /\ gs'[e] - gs[e] = 0
      BY <2>2
    <3>3. games'[e] - games[e]
            = (OneLeaf(e)' - OneLeaf(e)) + (gs'[e] - gs[e])
                + (Due(e, t)' - Due(e, t))
      BY <2>2, <2>3, <3>1, <3>2
    <3> QED
      BY <2>1, <3>3, BalancedStep
  <2>5. Valued(e)'
    <3>1. NetBelow(e)' = NetBelow(e)
      BY <1>2, <2>1, NetBelowSame
    <3>2. LeafValue(e)' - LeafValue(e) = Owed(e, t)' - Owed(e, t)
      OBVIOUS
    <3>3. (Net'[e] - Net[e]) + (NetBelow(e)' - NetBelow(e)) = 0
      BY <1>2, <2>2, <3>1
    <3>4. (Net'[e] - Net[e]) + (NetBelow(e)' - NetBelow(e))
              + (LeafValue(e)' - LeafValue(e))
            = Owed(e, t)' - Owed(e, t)
      BY <2>2, <3>2, <3>3
    <3> QED
      BY <2>1, <3>4, ValuedStep
  <2> QED
    BY <2>4, <2>5
<1> QED
  BY <1>1, <1>3, <1>4 DEF GamesOK, ValueOK

LEMMA EnterBooks ==
  ASSUME Inv, TypeOK', Books, NEW t \in Thread, Enter(t)
  PROVE  Books'
<1> DEFINE n == at[t]
<1> USE DEF Inv
<1>1. /\ pc[t] = "enter" /\ n \in Node /\ node' = node \cup {n}
      /\ UNCHANGED <<kept, base, count>> /\ node \subseteq node'
  BY DEF Enter, TypeOK, ends, start
<1>2. \A c \in Legal(n) : c \in Edge /\ Parent[c] = n
  BY DEF Legal, Children
<1>3. n \in node \/ base[n] > 0
  BY <1>1 DEF Books, EntryOK, EntryAt
<1>4. \A e \in Edge : OneLeaf(e)' = OneLeaf(e) /\ LeafValue(e)' = LeafValue(e)
  <2> HIDE DEF n
  <2> QED
    BY <1>1, <1>3, LeavesStay
<1>5. \A c \in Edge \ Final : games[c] > 0 => c \in node' \/ base[c] > 0
  BY <1>1 DEF Books, EntryOK
<1>6. \A e \in Edge : OneLeaf(e) \in Int /\ LeafValue(e) \in Int
  BY BookTypes DEF BooksTyped
<1>7. CASE NoMove(t)
  <2>1. /\ pc'[t] = (IF n = Root THEN "count" ELSE "back") /\ at'[t] = n
        /\ UNCHANGED <<games, sum, vl, gs, stack>> /\ Legal(n) = {}
    BY <1>7 DEF NoMove, Return, TypeOK
  <2>2. Others(t)
    BY <1>7 DEF NoMove, Return, Others, TypeOK
  <2>3. \A e \in Inner : /\ Due(e, t) = 0 /\ Due(e, t)' = 0
                         /\ Owed(e, t) = 0 /\ Owed(e, t)' = 0
    BY <1>1, <2>1 DEF Due, Owed, OnMove, Inner
  <2>4. VisitOK' /\ GamesOK' /\ ValueOK' /\ NetOK'
    <3>1. \A e \in Inner :
            /\ OneLeaf(e)' - OneLeaf(e) = Due(e, t) - Due(e, t)'
            /\ LeafValue(e)' - LeafValue(e) = Owed(e, t)' - Owed(e, t)
      BY <1>4, <1>6, <2>3 DEF Inner
    <3> QED
      BY <1>1, <2>1, <2>2, <3>1, QuietBooks
  <2>5. RootOK'
    <3>1. CASE n = Root
      BY <2>1, <3>1 DEF RootOK
    <3>2. CASE n # Root
      <4>1. n \in stack[t]
        BY <1>1, <3>2 DEF StackOK, PathOK
      <4>2. t \in Inside /\ t \in Inside'
        BY <2>1, <4>1 DEF Inside
      <4> QED
        BY <1>1, <2>1, <2>2, <4>2, RootSame DEF Books
    <3> QED
      BY <3>1, <3>2
  <2>6. EntryOK'
    <3>1. EntryAt(t)'
      BY <2>1 DEF EntryAt, OnMove
    <3> QED
      BY <1>1, <1>5, <2>1, <2>2, <3>1, EntryStep DEF Books
  <2> QED
    BY <2>4, <2>5, <2>6 DEF Books
<1>8. ASSUME NEW c \in Legal(n), EndsGame(t, c) PROVE Books'
  <2>1. c \in Edge /\ Parent[c] = n /\ -Value[c] \in Int /\ c \in Final
    BY <1>2, <1>8, TreeAssumption DEF Edge, EndsGame
  <2>2. VisitOK' /\ RootOK' /\ GamesOK' /\ ValueOK' /\ NetOK' /\ Others(t)
    BY <1>1, <1>4, <1>8, <2>1, ScoreBooks DEF EndsGame
  <2>3. EntryOK'
    <3>1. pc'[t] \in {"count", "back"}
      BY <1>8 DEF EndsGame, Return, TypeOK
    <3>2. EntryAt(t)'
      BY <3>1 DEF EntryAt, OnMove
    <3>3. \A e \in Edge \ Final : games'[e] = games[e]
      BY <1>8, <2>1 DEF EndsGame, Score, TypeOK
    <3> QED
      BY <1>1, <1>5, <2>2, <3>2, <3>3, EntryStep DEF Books
  <2> QED
    BY <2>2, <2>3 DEF Books
<1>9. ASSUME NEW c \in Legal(n), Fresh(t, c) PROVE Books'
  <2>1. /\ c \in Edge /\ Parent[c] = n /\ c \notin Final
        /\ pc'[t] = "eval" /\ at'[t] = c
        /\ UNCHANGED <<games, sum, vl, gs, stack>>
    BY <1>2, <1>9 DEF Fresh, TypeOK
  <2>2. Others(t)
    BY <1>9 DEF Fresh, Others, TypeOK
  <2>3. \A e \in Edge : /\ Due(e, t) = IF e = n THEN 1 ELSE 0
                        /\ Due(e, t)' = IF e = n THEN 1 ELSE 0
                        /\ Owed(e, t) = 0 /\ Owed(e, t)' = 0
    BY <1>1, <2>1 DEF Due, Owed, OnMove
  <2>4. VisitOK' /\ GamesOK' /\ ValueOK' /\ NetOK'
    <3>1. \A e \in Inner :
            /\ OneLeaf(e)' - OneLeaf(e) = Due(e, t) - Due(e, t)'
            /\ LeafValue(e)' - LeafValue(e) = Owed(e, t)' - Owed(e, t)
      <4> HIDE DEF n
      <4> QED
        BY <1>4, <1>6, <2>3 DEF Inner
    <3> QED
      BY <1>1, <2>1, <2>2, <3>1, QuietBooks
  <2>5. RootOK'
    <3>1. t \in Inside' <=> t \in Inside
      BY <1>1, <2>1 DEF Inside
    <3> QED
      BY <1>1, <2>1, <2>2, <3>1, RootSame DEF Books
  <2>6. EntryOK'
    <3>1. Depth[c] <= MaxPly => base[c] = 0
      <4>1. games[c] = 0 \/ Depth[Parent[c]] >= MaxPly
        BY <1>9 DEF Fresh, ToEvaluate
      <4>2. /\ base[c] \in Nat /\ vl[c] \in Nat /\ games[c] \in Nat
            /\ base[c] + vl[c] <= games[c]
        BY <2>1 DEF TypeOK, Books, NetOK
      <4>3. Depth[c] = Depth[Parent[c]] + 1 /\ Depth[Parent[c]] \in Nat
              /\ MaxPly \in Nat
        BY <2>1, MovesAreBelow, TreeAssumption
      <4> QED
        BY <4>1, <4>2, <4>3
    <3>2. EntryAt(t)'
      BY <1>1, <2>1, <3>1 DEF EntryAt, OnMove
    <3> QED
      BY <1>1, <1>5, <2>1, <2>2, <3>2, EntryStep DEF Books
  <2> QED
    BY <2>4, <2>5, <2>6 DEF Books
<1>10. ASSUME NEW c \in Legal(n), c \notin Final, ~ToEvaluate(c), Down(t, c)
       PROVE  Books'
  <2>1. c \in Edge /\ Parent[c] = n /\ games[c] \in Nat /\ games[c] # 0
    BY <1>2, <1>10 DEF ToEvaluate, TypeOK
  <2>2. VisitOK' /\ RootOK' /\ GamesOK' /\ ValueOK' /\ NetOK' /\ Others(t)
    BY <1>1, <1>4, <1>10, <2>1, DownBooks
  <2>3. EntryOK'
    <3>1. pc'[t] = "enter" /\ at'[t] = c
      BY <1>10 DEF Down, TypeOK
    <3>2. c \in node \/ base[c] > 0
      BY <1>10, <2>1 DEF Books, EntryOK
    <3>3. EntryAt(t)'
      BY <1>1, <3>1, <3>2 DEF EntryAt, OnMove
    <3>4. \A e \in Edge \ Final : games'[e] > 0 => e \in node' \/ base[e] > 0
      <4>1. \A e \in Edge \ {c} : games'[e] = games[e]
        BY <1>10, <2>1 DEF Down, TypeOK
      <4> QED
        BY <1>1, <1>5, <3>2, <4>1
    <3> QED
      BY <1>1, <2>2, <3>3, <3>4, EntryStep DEF Books
  <2> QED
    BY <2>2, <2>3 DEF Books
<1> QED
  BY <1>7, <1>8, <1>9, <1>10 DEF Enter

LEMMA EvaluateBooks ==
  ASSUME Inv, TypeOK', Books, NEW t \in Thread, Evaluate(t)
  PROVE  Books'
<1> DEFINE c == at[t]
<1> USE DEF Inv
<1>1. /\ pc[t] = "eval" /\ node' = node \cup {c} /\ at' = at /\ stack' = stack
      /\ win'[t] = -Value[c]
      /\ pc'[t] = IF GoesDown(c) THEN "down" ELSE "leaf"
      /\ UNCHANGED <<games, sum, vl, gs, kept, base, count>>
  BY DEF Evaluate, TypeOK, ends, start
<1>2. Others(t)
  BY DEF Evaluate, Others, TypeOK
<1>3. /\ c \in Edge /\ c \notin Final
      /\ Depth[c] <= MaxPly => base[c] = 0
  BY <1>1 DEF StackOK, PathOK, OnMove, Books, EntryOK, EntryAt, TypeOK, Edge
<1>4. Parent[c] # c /\ (Depth[c] <= MaxPly => Depth[Parent[c]] < MaxPly)
  BY <1>3, MovesAreBelow, TreeAssumption
<1>5. ASSUME NEW e \in Inner
      PROVE  /\ OneLeaf(e)' - OneLeaf(e) = Due(e, t) - Due(e, t)'
             /\ LeafValue(e)' - LeafValue(e) = Owed(e, t)' - Owed(e, t)
  <2>1. e \in Edge /\ Depth[e] <= MaxPly
    BY DEF Inner
  <2>2. OneLeaf(e) \in Int /\ LeafValue(e) \in Int /\ Value[e] \in Int
    BY <2>1, BookTypes DEF BooksTyped
  <2>3. CASE e # c
    <3>1. OneLeaf(e)' = OneLeaf(e) /\ LeafValue(e)' = LeafValue(e)
      BY <1>1, <2>3 DEF OneLeaf, LeafValue
    <3>2. /\ Due(e, t) = IF e = Parent[c] THEN 1 ELSE 0
          /\ Due(e, t)' = IF e = Parent[c] THEN 1 ELSE 0
          /\ Owed(e, t) = 0 /\ Owed(e, t)' = 0
      BY <1>1, <2>3 DEF Due, Owed, OnMove
    <3> QED
      BY <2>2, <3>1, <3>2
  <2>4. CASE e = c /\ c \in node
    <3>1. pc'[t] = "down"
      BY <1>1, <1>4, <2>1, <2>4 DEF GoesDown
    <3>2. OneLeaf(e)' = OneLeaf(e) /\ LeafValue(e)' = LeafValue(e)
      BY <1>1, <2>4 DEF OneLeaf, LeafValue
    <3>3. /\ Due(e, t) = 0 /\ Due(e, t)' = 0
          /\ Owed(e, t) = 0 /\ Owed(e, t)' = 0
      BY <1>1, <1>4, <2>4, <3>1 DEF Due, Owed, OnMove
    <3> QED
      BY <2>2, <3>2, <3>3
  <2>5. CASE e = c /\ c \notin node
    <3>1. pc'[t] = "leaf"
      BY <1>1, <2>5 DEF GoesDown
    <3>2. /\ OneLeaf(e) = 0 /\ OneLeaf(e)' = 1
          /\ LeafValue(e) = 0 /\ LeafValue(e)' = Value[e]
      <4>1. c \notin kept /\ base[c] = 0
        BY <1>3, <2>1, <2>5 DEF Books, EntryOK
      <4> QED
        BY <1>1, <2>5, <4>1 DEF OneLeaf, LeafValue
    <3>3. /\ Due(e, t) = 0 /\ Due(e, t)' = -1
          /\ Owed(e, t) = 0 /\ Owed(e, t)' = Value[e]
      BY <1>1, <1>4, <2>5, <3>1 DEF Due, Owed, OnMove
    <3> QED
      BY <2>2, <3>2, <3>3
  <2> QED
    BY <2>3, <2>4, <2>5
<1>6. VisitOK' /\ GamesOK' /\ ValueOK' /\ NetOK'
  BY <1>1, <1>2, <1>5, QuietBooks
<1>7. RootOK'
  <2>1. t \in Inside' <=> t \in Inside
    BY <1>1 DEF Inside
  <2> QED
    BY <1>1, <1>2, <2>1, RootSame DEF Books
<1>8. EntryOK'
  <2>1. EntryAt(t)'
    BY <1>1, <1>3 DEF EntryAt, OnMove
  <2>2. \A e \in Edge \ Final : games'[e] > 0 => e \in node' \/ base[e] > 0
    BY <1>1 DEF Books, EntryOK
  <2> QED
    BY <1>1, <1>2, <2>1, <2>2, EntryStep DEF Books
<1> QED
  BY <1>6, <1>7, <1>8 DEF Books

LEMMA DownAfterBooks ==
  ASSUME Inv, TypeOK', Books, NEW t \in Thread, DownAfter(t)
  PROVE  Books'
<1> DEFINE c == at[t]
<1> USE DEF Inv
<1>1. /\ pc[t] = "down" /\ c \in Edge /\ c \in node /\ Down(t, c)
      /\ UNCHANGED <<node, kept, base, count>>
  BY DEF DownAfter, StackOK, PathOK, OnMove, TypeOK, Edge, ends, start,
         Books, EntryOK, EntryAt
<1>2. \A e \in Edge : OneLeaf(e)' = OneLeaf(e) /\ LeafValue(e)' = LeafValue(e)
  BY <1>1 DEF OneLeaf, LeafValue
<1>3. VisitOK' /\ RootOK' /\ GamesOK' /\ ValueOK' /\ NetOK' /\ Others(t)
  <2> HIDE DEF c
  <2>1. c = at[t]
    BY DEF c
  <2> QED
    BY <1>1, <1>2, <2>1, DownBooks
<1>4. EntryOK'
  <2>1. pc'[t] = "enter" /\ at'[t] = c
    BY <1>1 DEF Down, TypeOK
  <2>2. EntryAt(t)'
    BY <1>1, <2>1 DEF EntryAt, OnMove
  <2>3. \A e \in Edge \ Final : games'[e] > 0 => e \in node' \/ base[e] > 0
    <3>1. \A e \in Edge \ {c} : games'[e] = games[e]
      BY <1>1 DEF Down, TypeOK
    <3> QED
      BY <1>1, <3>1 DEF Books, EntryOK
  <2> QED
    BY <1>1, <1>3, <2>2, <2>3, EntryStep DEF Books
<1> QED
  BY <1>3, <1>4 DEF Books

LEMMA LeafBooks ==
  ASSUME Inv, TypeOK', Books, NEW t \in Thread, Leaf(t)
  PROVE  Books'
<1> DEFINE c == at[t]
<1> USE DEF Inv
<1>1. /\ pc[t] = "leaf" /\ c \in Edge /\ c \in node /\ win[t] = -Value[c]
      /\ win[t] \in Int
      /\ UNCHANGED <<node, kept, base, count, vl, stack>>
      /\ Score(c, win[t]) /\ Return(t, Parent[c], win[t])
  BY DEF Leaf, StackOK, PathOK, OnMove, TypeOK, Edge, ends, start,
         Books, EntryOK, EntryAt
<1>2. \A e \in Edge : OneLeaf(e)' = OneLeaf(e) /\ LeafValue(e)' = LeafValue(e)
  BY <1>1 DEF OneLeaf, LeafValue
<1>3. VisitOK' /\ RootOK' /\ GamesOK' /\ ValueOK' /\ NetOK' /\ Others(t)
  <2> HIDE DEF c
  <2>1. c = at[t]
    BY DEF c
  <2> QED
    BY <1>1, <1>2, <2>1, ScoreBooks
<1>4. EntryOK'
  <2>1. pc'[t] \in {"count", "back"}
    BY <1>1 DEF Return, TypeOK
  <2>2. EntryAt(t)'
    BY <2>1 DEF EntryAt, OnMove
  <2>3. \A e \in Edge \ Final : games'[e] > 0 => e \in node' \/ base[e] > 0
    <3>1. \A e \in Edge \ {c} : games'[e] = games[e]
      BY <1>1 DEF Score, TypeOK
    <3> QED
      BY <1>1, <3>1 DEF Books, EntryOK
  <2> QED
    BY <1>1, <1>3, <2>2, <2>3, EntryStep DEF Books
<1> QED
  BY <1>3, <1>4 DEF Books

\* The virtual loss goes and the result comes: where no game is left without
\* the loss there was no value, so starting anew loses nothing.
LEMMA BackBooks ==
  ASSUME Inv, TypeOK', Books, NEW t \in Thread, Back(t)
  PROVE  Books'
<1> DEFINE c == at[t]
           w == win[t]
<1> USE DEF Inv
<1>1. /\ pc[t] = "back" /\ c \in Edge /\ c \in stack[t] /\ w \in Int
      /\ Parent[c] # Root => Parent[c] \in stack[t]
  BY DEF Back, StackOK, PathOK, OnMove, TypeOK, Edge
<1>2. /\ pc'[t] = (IF Parent[c] = Root THEN "count" ELSE "back")
      /\ at'[t] = Parent[c] /\ win'[t] = -w /\ stack'[t] = stack[t] \ {c}
      /\ UNCHANGED <<node, games, gs, kept, base, count>>
  BY DEF Back, Return, TypeOK, ends, start
<1>3. \A e \in Edge : /\ vl'[e] = vl[e] - (IF e = c THEN 1 ELSE 0)
                      /\ sum'[e] = IF e = c THEN Undone(c) - w ELSE sum[e]
  BY DEF Back, TypeOK
<1>4. Others(t)
  BY DEF Back, Return, Others, TypeOK
<1>5. Parent[c] # c
  BY <1>1, MovesAreBelow
<1>6. /\ base[c] \in Nat /\ vl[c] \in Nat /\ games[c] \in Nat /\ sum[c] \in Int
      /\ base[c] + vl[c] <= games[c]
      /\ base[c] + vl[c] = games[c] => Net[c] = 0
      /\ Net[c] = sum[c] + vl[c]
  BY <1>1 DEF TypeOK, Books, NetOK, Net
<1>7. vl[c] > 0
  <2>1. t \in Below(c) /\ Below(c) \subseteq Thread
    BY <1>1 DEF Below
  <2> QED
    BY <1>1, <2>1, OneLess DEF LossOK
<1>8. Undone(c) = sum[c] + 1
  BY <1>6, <1>7 DEF Undone
<1> HIDE DEF c, w
<1>9. \A e \in Edge : Net'[e] = IF e = c THEN Net[e] - w ELSE Net[e]
  <2> SUFFICES ASSUME NEW e \in Edge
               PROVE  Net'[e] = IF e = c THEN Net[e] - w ELSE Net[e]
    OBVIOUS
  <2>1. Net[e] = sum[e] + vl[e] /\ Net'[e] = sum'[e] + vl'[e]
    BY DEF Net
  <2>2. sum[e] \in Int /\ vl[e] \in Int
    BY DEF TypeOK
  <2> QED
    BY <1>1, <1>3, <1>8, <2>1, <2>2
<1>10. VisitOK'
  BY <1>2, VisitSame DEF Books
<1>11. ASSUME NEW e \in Inner PROVE Balanced(e)' /\ Valued(e)'
  <2>1. e \in Edge /\ e \in Node /\ Balanced(e) /\ Valued(e) /\ e # Root
    BY DEF Inner, Books, GamesOK, ValueOK, Edge
  <2>2. /\ games[e] \in Int /\ gs[e] \in Int /\ OneLeaf(e) \in Int
        /\ Net[e] \in Int /\ NetBelow(e) \in Int /\ LeafValue(e) \in Int
    BY <2>1, BookTypes DEF BooksTyped, TypeOK
  <2>3. OneLeaf(e)' = OneLeaf(e) /\ LeafValue(e)' = LeafValue(e)
    BY <1>2 DEF OneLeaf, LeafValue
  <2>4. /\ Due(e, t) = 0 /\ Due(e, t)' = 0
        /\ Owed(e, t) = IF e = c THEN w ELSE 0
        /\ Owed(e, t)' = IF e = Parent[c] THEN -w ELSE 0
    BY <1>1, <1>2, <2>1 DEF Due, Owed, OnMove, c, w
  <2>5. Balanced(e)'
    <3>1. games'[e] - games[e]
            = (OneLeaf(e)' - OneLeaf(e)) + (gs'[e] - gs[e])
                + (Due(e, t)' - Due(e, t))
      BY <1>2, <2>2, <2>3, <2>4
    <3> QED
      BY <1>2, <1>4, <2>1, <3>1, BalancedStep
  <2>6. Valued(e)'
    <3>1. \A d \in Edge \ {c} : Net'[d] = Net[d]
      BY <1>9
    <3>2. Net[c] \in Int /\ Net'[c] = Net[c] - w
      BY <1>1, <1>9, BookTypes DEF BooksTyped
    <3>3. NetBelow(e)'
            = NetBelow(e) + (IF Parent[c] = e THEN Net'[c] - Net[c] ELSE 0)
      BY <1>1, <2>1, <3>1, NetBelowStep
    <3>4. NetBelow(e)' = NetBelow(e) - (IF e = Parent[c] THEN w ELSE 0)
      BY <1>1, <2>2, <3>2, <3>3
    <3>5. (Net'[e] - Net[e]) + (NetBelow(e)' - NetBelow(e))
              + (LeafValue(e)' - LeafValue(e))
            = Owed(e, t)' - Owed(e, t)
      BY <1>1, <1>5, <1>9, <2>1, <2>2, <2>3, <2>4, <3>4
    <3> QED
      BY <1>4, <2>1, <3>5, ValuedStep
  <2> QED
    BY <2>5, <2>6
<1>12. NetOK'
  <2> SUFFICES ASSUME NEW e \in Edge
               PROVE  /\ base'[e] + vl'[e] <= games'[e]
                      /\ base'[e] + vl'[e] = games'[e] => Net'[e] = 0
    BY DEF NetOK
  <2>1. base[e] \in Nat /\ vl[e] \in Nat /\ games[e] \in Nat
    BY DEF TypeOK
  <2>2. /\ base[e] + vl[e] <= games[e]
        /\ base[e] + vl[e] = games[e] => Net[e] = 0
    BY DEF Books, NetOK
  <2> QED
    BY <1>2, <1>3, <1>9, <2>1, <2>2
<1>13. RootOK'
  <2>1. t \in Inside /\ t \in Inside'
    BY <1>1, <1>2, <1>5 DEF Inside
  <2> QED
    BY <1>2, <1>4, <2>1, RootSame DEF Books
<1>14. EntryOK'
  <2>1. EntryAt(t)'
    BY <1>2 DEF EntryAt, OnMove
  <2>2. \A e \in Edge \ Final : games'[e] > 0 => e \in node' \/ base[e] > 0
    BY <1>2 DEF Books, EntryOK
  <2> QED
    BY <1>2, <1>4, <2>1, <2>2, EntryStep DEF Books
<1> QED
  BY <1>10, <1>11, <1>12, <1>13, <1>14 DEF Books, GamesOK, ValueOK

\* The loop: a thread is at the root, with nothing to show.
LEMMA LoopBooks ==
  ASSUME Inv, TypeOK', Books, NEW t \in Thread,
         Count(t) \/ CheckLimit(t) \/ TestStop(t)
  PROVE  Books'
<1> USE DEF Inv
<1>1. /\ pc[t] \in {"count", "limit", "test"}
      /\ pc'[t] \in {"limit", "test", "done", "enter"} /\ at[t] = Root
      /\ UNCHANGED <<node, games, sum, vl, gs, kept, base, at, stack, win>>
  <2>1. CASE Count(t)
    BY <2>1 DEF Count, StackOK, PathOK, TypeOK, table, start
  <2>2. CASE CheckLimit(t)
    BY <2>2 DEF CheckLimit, StackOK, PathOK, TypeOK, table, start
  <2>3. CASE TestStop(t)
    BY <2>3 DEF TestStop, StackOK, PathOK, TypeOK, table, start
  <2> QED
    BY <2>1, <2>2, <2>3
<1>2. Others(t)
  BY DEF Count, CheckLimit, TestStop, Others, TypeOK
<1>3. ASSUME NEW e \in Inner
      PROVE  /\ OneLeaf(e)' - OneLeaf(e) = Due(e, t) - Due(e, t)'
             /\ LeafValue(e)' - LeafValue(e) = Owed(e, t)' - Owed(e, t)
  <2>1. e \in Edge /\ e # Root
    BY DEF Inner, Edge
  <2>2. OneLeaf(e) \in Int /\ LeafValue(e) \in Int
    BY <2>1, BookTypes DEF BooksTyped
  <2>3. OneLeaf(e)' = OneLeaf(e) /\ LeafValue(e)' = LeafValue(e)
    BY <1>1 DEF OneLeaf, LeafValue
  <2>4. /\ Due(e, t) = 0 /\ Due(e, t)' = 0
        /\ Owed(e, t) = 0 /\ Owed(e, t)' = 0
    BY <1>1, <2>1 DEF Due, Owed, OnMove
  <2> QED
    BY <2>2, <2>3, <2>4
<1>4. VisitOK' /\ GamesOK' /\ ValueOK' /\ NetOK'
  BY <1>1, <1>2, <1>3, QuietBooks
<1>5. EntryOK'
  <2>1. EntryAt(t)'
    BY <1>1 DEF EntryAt, OnMove
  <2>2. \A e \in Edge \ Final : games'[e] > 0 => e \in node' \/ base[e] > 0
    BY <1>1 DEF Books, EntryOK
  <2> QED
    BY <1>1, <1>2, <2>1, <2>2, EntryStep DEF Books
<1>6. stack[t] = {}
  <2> SUFFICES ASSUME NEW d \in stack[t] PROVE FALSE
    OBVIOUS
  <2>1. d \in Edge /\ Depth[d] <= Depth[Root]
    BY <1>1 DEF StackOK, PathOK, TypeOK
  <2>2. Depth[d] > 1 /\ Depth[d] \in Nat /\ Depth[Root] = 1
    BY <2>1, MovesAreBelow, TreeAssumption
  <2> QED
    BY <2>1, <2>2
<1>7. RootOK'
  <2>1. CASE Count(t)
    <3>1. pc[t] = "count" /\ pc'[t] = "limit" /\ count' = count + 1
      BY <2>1 DEF Count, TypeOK
    <3>2. t \in Inside /\ t \notin Inside'
      BY <1>1, <1>6, <3>1 DEF Inside
    <3>3. /\ Cardinality(Inside) \in Nat /\ Cardinality(Inside') \in Nat
          /\ Cardinality(Inside') = Cardinality(Inside) + 0 - 1
      BY <1>2, <3>2, InsideStep
    <3>4. gs[Root] \in Int /\ count \in Int
      BY TreeAssumption DEF TypeOK
    <3>5. Legal(Root) # {} => gs'[Root] = count' + Cardinality(Inside')
      BY <1>1, <3>1, <3>3, <3>4 DEF Books, RootOK
    <3> QED
      BY <3>5 DEF RootOK
  <2>2. CASE CheckLimit(t) \/ TestStop(t)
    <3>1. pc[t] # "count" /\ pc'[t] # "count" /\ count' = count
      BY <1>1, <2>2 DEF CheckLimit, TestStop, TypeOK, ends
    <3>2. t \in Inside' <=> t \in Inside
      BY <1>1, <3>1 DEF Inside
    <3> QED
      BY <1>1, <1>2, <3>1, <3>2, RootSame DEF Books
  <2> QED
    BY <2>1, <2>2
<1> QED
  BY <1>4, <1>5, <1>7 DEF Books

LEMMA InitBooks == Init => Books
<1> SUFFICES ASSUME Init PROVE Books
  OBVIOUS
<1>1. Inv
  BY InitInv
<1>2. /\ games = base /\ sum = [c \in Edge |-> 0] /\ vl = [c \in Edge |-> 0]
      /\ gs = [n \in Node |-> 0] /\ pc = [t \in Thread |-> "enter"]
      /\ at = [t \in Thread |-> Root] /\ stack = [t \in Thread |-> {}]
      /\ count = 0 /\ node = kept \cup {Root}
  BY DEF Init
<1>3. base \in [Edge -> Nat] /\ IsFiniteSet(Thread)
  BY <1>1, ThreadsAssumption DEF Inv, TypeOK
<1>4. Games \in [Edge -> Int] /\ Net \in [Edge -> Int]
        /\ \A c \in Edge : Games[c] = 0 /\ Net[c] = 0
  BY <1>2, <1>3 DEF Games, Net
<1>5. ASSUME NEW n \in Node
      PROVE  Sum(Games, Children(n)) = 0 /\ NetBelow(n) = 0
  <2>1. \A c \in Children(n) : Games[c] = 0 /\ Net[c] = 0
    BY <1>4, Branches
  <2>2. Sum(Games, Children(n)) = 0
    BY <1>4, <2>1, Branches, SumZero
  <2>3. Sum(Net, Children(n)) = 0
    BY <1>4, <2>1, Branches, SumZero
  <2> QED
    BY <2>2, <2>3 DEF NetBelow
<1>6. VisitOK
  BY <1>2, <1>5 DEF VisitOK
<1>7. RootOK
  <2>1. Inside = {}
    BY <1>2 DEF Inside
  <2>2. Cardinality(Inside) = 0
    BY <2>1, FS_EmptySet
  <2>3. gs[Root] = 0
    BY <1>2, TreeAssumption
  <2> QED
    BY <1>2, <2>2, <2>3 DEF RootOK
<1>8. ASSUME NEW c \in Inner PROVE Balanced(c) /\ Valued(c)
  <2>1. c \in Edge /\ c \in Node /\ c # Root
    BY DEF Inner, Edge
  <2>2. OneLeaf(c) = 0 /\ LeafValue(c) = 0
    BY <1>2, <2>1 DEF OneLeaf, LeafValue
  <2>3. DueOf(c) \in [Thread -> Int] /\ OwedOf(c) \in [Thread -> Int]
    BY <1>1, <2>1, BookTypes DEF BooksTyped, Inv
  <2>4. \A t \in Thread : DueOf(c)[t] = 0 /\ OwedOf(c)[t] = 0
    BY <1>2, <2>1 DEF DueOf, OwedOf, Due, Owed, OnMove
  <2>5. Dues(c) = 0
    BY <1>3, <2>3, <2>4, SumZero DEF Dues
  <2>6. Owes(c) = 0
    BY <1>3, <2>3, <2>4, SumZero DEF Owes
  <2>7. Games[c] = 0 /\ Net[c] = 0 /\ gs[c] = 0 /\ NetBelow(c) = 0
    BY <1>2, <1>4, <1>5, <2>1
  <2> QED
    BY <2>2, <2>5, <2>6, <2>7 DEF Balanced, Valued
<1>9. NetOK
  BY <1>2, <1>3, <1>4 DEF NetOK
<1>10. EntryOK
  <2>1. \A t \in Thread : EntryAt(t)
    BY <1>2 DEF EntryAt, OnMove
  <2> QED
    BY <1>2, <2>1 DEF EntryOK
<1> QED
  BY <1>6, <1>7, <1>8, <1>9, <1>10 DEF Books, GamesOK, ValueOK

LEMMA SameBooks ==
  ASSUME Books, UNCHANGED vars
  PROVE  Books'
<1>1. UNCHANGED <<node, games, sum, vl, gs, pc, at, stack, win, count, kept,
                  base>>
  BY DEF vars, table, place, ends, start
<1>2. Games' = Games /\ Net' = Net /\ Inside' = Inside
  BY <1>1 DEF Games, Net, Inside
<1>3. VisitOK' /\ RootOK' /\ NetOK'
  BY <1>1, <1>2 DEF Books, VisitOK, RootOK, NetOK
<1>4. ASSUME NEW c \in Inner PROVE Balanced(c)' /\ Valued(c)'
  <2>1. DueOf(c)' = DueOf(c) /\ OwedOf(c)' = OwedOf(c)
    BY <1>1 DEF DueOf, OwedOf, Due, Owed
  <2>2. Dues(c)' = Dues(c) /\ Owes(c)' = Owes(c) /\ NetBelow(c)' = NetBelow(c)
    BY <1>2, <2>1 DEF Dues, Owes, NetBelow
  <2>3. OneLeaf(c)' = OneLeaf(c) /\ LeafValue(c)' = LeafValue(c)
    BY <1>1 DEF OneLeaf, LeafValue
  <2>4. Balanced(c) /\ Valued(c)
    BY DEF Books, GamesOK, ValueOK
  <2> QED
    BY <1>1, <1>2, <2>2, <2>3, <2>4 DEF Balanced, Valued
<1>5. EntryOK'
  BY <1>1 DEF Books, EntryOK, EntryAt
<1> QED
  BY <1>3, <1>4, <1>5 DEF Books, GamesOK, ValueOK

LEMMA BooksKept == Inv /\ Books /\ [Next]_vars => Books'
<1> SUFFICES ASSUME Inv, Books, [Next]_vars PROVE Books'
  OBVIOUS
<1>1. TypeOK'
  BY NextInv DEF Inv
<1>2. ASSUME NEW t \in Thread, Step(t) PROVE Books'
  BY <1>1, <1>2, EnterBooks, EvaluateBooks, DownAfterBooks, LeafBooks,
     BackBooks, LoopBooks DEF Step
<1>3. CASE UNCHANGED vars
  BY <1>3, SameBooks
<1> QED
  BY <1>2, <1>3 DEF Next

\* games_sum is the sum of the games at all times, and when the threads have
\* left, the root shows every playout and every other position its first
\* evaluation and the moves below it, in games and in value (uct_tree()):
\* for every tree and any number of threads.
THEOREM CountsExact == Spec => []CountsAddUp
<1>1. Spec => [](Inv /\ Books)
  BY InitInv, NextInv, InitBooks, BooksKept, PTL DEF Spec
<1>2. Inv /\ Books => CountsAddUp
  <2> SUFFICES ASSUME Inv, Books PROVE CountsAddUp
    OBVIOUS
  <2>1. \A n \in Node :
          gs[n] = Sum([c \in Edge |-> games[c] - base[c]], Children(n))
    BY DEF Books, VisitOK, Games
  <2>2. ASSUME Finished, Legal(Root) # {} PROVE gs[Root] = count
    <3>1. ASSUME NEW t \in Thread PROVE t \notin Inside
      <4>1. pc[t] = "done" /\ at[t] = Root
        BY <2>2 DEF Finished, Inv, StackOK, PathOK
      <4>2. ASSUME NEW d \in stack[t] PROVE FALSE
        <5>1. d \in Edge /\ Depth[d] <= Depth[Root]
          BY <4>1 DEF Inv, StackOK, PathOK, TypeOK
        <5>2. Depth[d] > 1 /\ Depth[d] \in Nat /\ Depth[Root] = 1
          BY <5>1, MovesAreBelow, TreeAssumption
        <5> QED
          BY <5>1, <5>2
      <4> QED
        BY <4>1, <4>2 DEF Inside
    <3>2. Inside = {}
      BY <3>1 DEF Inside
    <3>3. Cardinality(Inside) = 0 /\ count \in Int
      BY <3>2, FS_EmptySet DEF Inv, TypeOK
    <3> QED
      BY <2>2, <3>3 DEF Books, RootOK
  <2>3. ASSUME Finished, NEW c \in Edge \ Final,
               Legal(c) # {} /\ Depth[c] <= MaxPly
        PROVE  /\ games[c] - base[c] = OneLeaf(c) + gs[c]
               /\ sum[c] = -(OneLeaf(c) * Value[c] + Sum(sum, Children(c)))
    <3>1. c \in Inner /\ c \in Edge /\ c \in Node /\ IsFiniteSet(Thread)
      BY <2>3, ThreadsAssumption DEF Inner, Edge
    <3>2. Balanced(c) /\ Valued(c)
      BY <3>1 DEF Books, GamesOK, ValueOK
    <3>3. /\ DueOf(c) \in [Thread -> Int] /\ OwedOf(c) \in [Thread -> Int]
          /\ Value[c] \in Int /\ OneLeaf(c) \in {0, 1}
      BY <3>1, BookTypes DEF BooksTyped, Inv
    <3>4. \A t \in Thread : DueOf(c)[t] = 0 /\ OwedOf(c)[t] = 0
      BY <2>3 DEF Finished, DueOf, OwedOf, Due, Owed, OnMove
    <3>5. Dues(c) = 0
      BY <3>1, <3>3, <3>4, SumZero DEF Dues
    <3>6. Owes(c) = 0
      BY <3>1, <3>3, <3>4, SumZero DEF Owes
    <3>7. \A e \in Edge : vl[e] = 0
      <4> SUFFICES ASSUME NEW e \in Edge PROVE vl[e] = 0
        OBVIOUS
      <4>1. ASSUME NEW t \in Thread PROVE e \notin stack[t]
        <5>1. at[t] = Root
          BY <2>3 DEF Finished, Inv, StackOK, PathOK
        <5>2. e \in stack[t] => Depth[e] <= Depth[Root]
          BY <5>1 DEF Inv, StackOK, PathOK
        <5>3. Depth[e] > 1 /\ Depth[e] \in Nat /\ Depth[Root] = 1
          BY MovesAreBelow, TreeAssumption
        <5> QED
          BY <5>2, <5>3
      <4>2. Below(e) = {}
        BY <4>1 DEF Below
      <4> QED
        BY <4>2, FS_EmptySet DEF Inv, LossOK
    <3>8. Games[c] = games[c] - base[c] /\ \A e \in Edge : Net[e] = sum[e]
      BY <3>1, <3>7 DEF Games, Net, Inv, TypeOK
    <3>9. Sum(sum, Children(c)) = NetBelow(c) /\ NetBelow(c) \in Int
      <4>1. sum \in [Edge -> Int] /\ Net \in [Edge -> Int]
              /\ NetBelow(c) \in Int
        BY <3>1, BookTypes DEF BooksTyped, Inv, TypeOK
      <4>2. Children(c) \in SUBSET Edge /\ IsFiniteSet(Children(c))
        BY <3>1, Branches
      <4>3. \A e \in Children(c) : sum[e] = Net[e]
        BY <3>8, <4>2
      <4>4. Sum(sum, Children(c)) = Sum(Net, Children(c))
        BY <4>1, <4>2, <4>3, SumSame
      <4> QED
        BY <4>1, <4>4 DEF NetBelow
    <3>10. LeafValue(c) = OneLeaf(c) * Value[c] /\ LeafValue(c) \in Int
      <4>1. CASE OneLeaf(c) = 0
        BY <3>3, <4>1 DEF LeafValue
      <4>2. CASE OneLeaf(c) = 1
        BY <3>3, <4>2 DEF LeafValue
      <4> QED
        BY <3>3, <4>1, <4>2
    <3>11. gs[c] \in Int /\ sum[c] \in Int
      BY <3>1 DEF Inv, TypeOK
    <3>12. games[c] - base[c] = OneLeaf(c) + gs[c]
      BY <3>2, <3>3, <3>5, <3>8, <3>11 DEF Balanced
    <3>13. sum[c] + NetBelow(c) + LeafValue(c) = 0
      BY <3>1, <3>2, <3>6, <3>8 DEF Valued
    <3>14. sum[c] = -(LeafValue(c) + NetBelow(c))
      BY <3>9, <3>10, <3>11, <3>13
    <3> QED
      BY <3>9, <3>10, <3>12, <3>14
  <2> QED
    BY <2>1, <2>2, <2>3 DEF CountsAddUp
<1> QED
  BY <1>1, <1>2, PTL
=============================================================================
