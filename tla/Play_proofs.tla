----------------------------- MODULE Play_proofs ----------------------------
(***************************************************************************)
(* Proofs about the play manager, for every number of engines, of networks *)
(* and of lines in flight, and whichever engines die.                      *)
(*                                                                         *)
(* The inductive invariant says how a reader's variables hang together     *)
(* (ReaderInv), that the two counters count (CountInv), and that the move  *)
(* an engine owes is in exactly one place: in the orders it has not read,  *)
(* in its head, in the pipe, or in the line its reader offers (EngInv).    *)
(***************************************************************************)
EXTENDS Play, FiniteSetTheorems, SequenceTheorems, TLAPS

(* A reader offers what it has read, and reads on when it has been taken;  *)
(* a copied flag is still raised when the main thread uses it.             *)
ReaderInv ==
  \A s \in Stream :
    /\ ready[s] => ~doread[s] /\ line[s] \in Line
    /\ doread[s] => line[s] = NoLine
    /\ snap[s] /\ pc \in {"turn", "reap"} => ready[s]

CountInv ==
  /\ nready = Cardinality({s \in Stream : ready[s]})
  /\ nthinking = Cardinality({e \in Engine : flag[e].thinking})

(* manage_play() is called: the flags of the engines are kept. *)
Playing == pc \in {"loop", "turn", "update"}

In(e) == <<e, "in">>

Once(s, x) == \A i, j \in DOMAIN s : s[i] = x /\ s[j] = x => i = j

(* One move at most is asked for, thought about, or on its way. *)
OneMove(e) ==
  /\ Once(cmds[e], "go") /\ Once(pipe[In(e)], "bestmove")
  /\ eng[e] = "think" => "go" \notin ToSet(cmds[e])
  /\ eng[e] = "think" \/ "go" \in ToSet(cmds[e]) =>
       "bestmove" \notin ToSet(pipe[In(e)])
  /\ line[In(e)] = "bestmove" =>
       /\ eng[e] # "think" /\ "go" \notin ToSet(cmds[e])
       /\ "bestmove" \notin ToSet(pipe[In(e)])

(* An engine that is not known to be ready has nothing to say but "usiok". *)
Fresh(e) ==
  /\ eng[e] # "think"
  /\ "isready" \notin ToSet(cmds[e]) /\ "go" \notin ToSet(cmds[e])
  /\ "info" \notin ToSet(pipe[In(e)]) /\ line[In(e)] # "info"
  /\ "bestmove" \notin ToSet(pipe[In(e)]) /\ line[In(e)] # "bestmove"

EngInv(e) ==
  /\ OneMove(e)
  /\ Busy(e) => flag[e].thinking
  /\ eng[e] # "gone" /\ flag[e].thinking => Busy(e)
  /\ ~flag[e].ready => Fresh(e)

PlayInv == Playing => \A e \in Engine : EngInv(e)

(* A line can be offered for each stream at a time. *)
RoomInv == 2 * NEngine <= MaxNumChild => pc # "internal"

(* The inductive invariant. *)
IInv == TypeOK /\ ReaderInv /\ CountInv /\ PlayInv /\ RoomInv

-----------------------------------------------------------------------------
(* Sequences. *)

LEMMA AppendFacts ==
  ASSUME NEW T, NEW s \in Seq(T), NEW x \in T
  PROVE  /\ Append(s, x) \in Seq(T)
         /\ \A y : y \in ToSet(Append(s, x)) <=> y \in ToSet(s) \/ y = x
         /\ \A y : Once(s, y) /\ (y # x \/ y \notin ToSet(s))
                     => Once(Append(s, x), y)
<1>1. /\ Append(s, x) \in Seq(T) /\ Len(Append(s, x)) = Len(s) + 1
      /\ \A i \in 1 .. Len(s) : Append(s, x)[i] = s[i]
      /\ Append(s, x)[Len(s) + 1] = x
  OBVIOUS
<1>2. /\ Len(s) \in Nat /\ DOMAIN s = 1 .. Len(s)
      /\ DOMAIN Append(s, x) = 1 .. Len(s) + 1
  BY <1>1, LenProperties
<1> DEFINE t == Append(s, x)
           n == Len(s)
<1> HIDE DEF t, n
<1>3. \A y : y \in ToSet(t) <=> y \in ToSet(s) \/ y = x
  BY <1>1, <1>2 DEF ToSet, t, n
<1>4. ASSUME NEW y, Once(s, y), y # x \/ y \notin ToSet(s)
      PROVE  Once(t, y)
  <2>1. SUFFICES ASSUME NEW i \in 1 .. n + 1, NEW j \in 1 .. n + 1,
                        t[i] = y, t[j] = y
                 PROVE  i = j
    BY <1>2 DEF Once, t, n
  <2>2. \A k \in 1 .. n + 1 : k \in 1 .. n \/ k = n + 1
    BY <1>2 DEF n
  <2>3. \A k \in 1 .. n : t[k] = y => s[k] = y /\ y \in ToSet(s)
    BY <1>1, <1>2 DEF ToSet, t, n
  <2> QED
    BY <1>1, <1>2, <1>4, <2>1, <2>2, <2>3 DEF Once, t, n
<1> QED
  BY <1>1, <1>3, <1>4 DEF t

LEMMA TailFacts ==
  ASSUME NEW T, NEW s \in Seq(T), s # <<>>
  PROVE  /\ Head(s) \in T /\ Tail(s) \in Seq(T)
         /\ \A y : y \in ToSet(s) <=> y = Head(s) \/ y \in ToSet(Tail(s))
         /\ \A y : Once(s, y) => Once(Tail(s), y)
         /\ Once(s, Head(s)) => Head(s) \notin ToSet(Tail(s))
<1> DEFINE t == Tail(s)
           n == Len(s)
<1>1. /\ Head(s) = s[1] /\ Head(s) \in T /\ t \in Seq(T) /\ Len(t) = n - 1
      /\ \A i \in 1 .. n - 1 : t[i] = s[i + 1]
  BY HeadTailProperties
<1>2. n \in Nat /\ n > 0 /\ DOMAIN s = 1 .. n /\ DOMAIN t = 1 .. n - 1
  BY <1>1, LenProperties, EmptySeq
<1> HIDE DEF t, n
<1>3. \A y : y \in ToSet(s) <=> y = Head(s) \/ y \in ToSet(t)
  <2>1. ASSUME NEW i \in 1 .. n
        PROVE  s[i] = Head(s) \/ s[i] \in ToSet(t)
    <3>1. CASE i = 1
      BY <1>1, <3>1
    <3>2. CASE i # 1
      <4>1. i - 1 \in 1 .. n - 1 /\ (i - 1) + 1 = i
        BY <1>2, <3>2
      <4>2. t[i - 1] = s[i]
        BY <1>1, <4>1
      <4> QED
        BY <1>2, <4>1, <4>2 DEF ToSet
    <3> QED
      BY <3>1, <3>2
  <2>2. ASSUME NEW i \in 1 .. n - 1
        PROVE  t[i] \in ToSet(s)
    <3>1. i + 1 \in 1 .. n
      BY <1>2
    <3> QED
      BY <1>1, <1>2, <3>1 DEF ToSet
  <2>3. Head(s) \in ToSet(s)
    BY <1>1, <1>2 DEF ToSet
  <2> QED
    BY <1>2, <2>1, <2>2, <2>3 DEF ToSet
<1>4. ASSUME NEW y, Once(s, y)
      PROVE  Once(t, y)
  <2>1. SUFFICES ASSUME NEW i \in 1 .. n - 1, NEW j \in 1 .. n - 1,
                        t[i] = y, t[j] = y
                 PROVE  i = j
    BY <1>2 DEF Once
  <2>2. i + 1 \in 1 .. n /\ j + 1 \in 1 .. n /\ s[i + 1] = y /\ s[j + 1] = y
    BY <1>1, <1>2, <2>1
  <2>3. i + 1 = j + 1
    BY <1>2, <1>4, <2>2 DEF Once
  <2> QED
    BY <2>3
<1>5. ASSUME Once(s, Head(s)), Head(s) \in ToSet(t)
      PROVE  FALSE
  <2>1. PICK i \in 1 .. n - 1 : t[i] = Head(s)
    BY <1>2, <1>5 DEF ToSet
  <2>2. i + 1 \in 1 .. n /\ i + 1 # 1 /\ 1 \in 1 .. n /\ s[i + 1] = Head(s)
    BY <1>1, <1>2, <2>1
  <2> QED
    BY <1>1, <1>2, <1>5, <2>2 DEF Once
<1> QED
  BY <1>1, <1>3, <1>4, <1>5 DEF t

LEMMA ConcatFacts ==
  ASSUME NEW T, NEW s \in Seq(T), NEW t \in Seq(T)
  PROVE  /\ s \o t \in Seq(T)
         /\ \A y : y \in ToSet(s \o t) <=> y \in ToSet(s) \/ y \in ToSet(t)
         /\ \A y : Once(s, y) /\ Once(t, y)
                    /\ (y \notin ToSet(s) \/ y \notin ToSet(t)) => Once(s \o t, y)
<1> DEFINE u == s \o t
           m == Len(s)
           n == Len(t)
<1>1. /\ u \in Seq(T) /\ Len(u) = m + n
      /\ \A i \in 1 .. m + n : u[i] = IF i <= m THEN s[i] ELSE t[i - m]
  BY ConcatProperties
<1>2. /\ m \in Nat /\ n \in Nat /\ DOMAIN s = 1 .. m /\ DOMAIN t = 1 .. n
      /\ DOMAIN u = 1 .. m + n
  BY <1>1, LenProperties
<1> HIDE DEF u, m, n
<1>3. \A i \in 1 .. m + n : \/ i \in 1 .. m /\ u[i] = s[i]
                            \/ i - m \in 1 .. n /\ ~(i <= m) /\ u[i] = t[i - m]
  BY <1>1, <1>2
<1>4. \A i \in 1 .. m : i \in 1 .. m + n /\ u[i] = s[i]
  BY <1>1, <1>2
<1>5. \A i \in 1 .. n : i + m \in 1 .. m + n /\ u[i + m] = t[i]
  <2>1. ASSUME NEW i \in 1 .. n
        PROVE  i + m \in 1 .. m + n /\ ~(i + m <= m) /\ (i + m) - m = i
    BY <1>2
  <2> QED
    BY <1>1, <2>1
<1>6. \A y : y \in ToSet(u) <=> y \in ToSet(s) \/ y \in ToSet(t)
  BY <1>2, <1>3, <1>4, <1>5 DEF ToSet
<1>7. ASSUME NEW y, Once(s, y), Once(t, y), y \notin ToSet(s) \/ y \notin ToSet(t)
      PROVE  Once(u, y)
  <2>1. SUFFICES ASSUME NEW i \in 1 .. m + n, NEW j \in 1 .. m + n,
                        u[i] = y, u[j] = y
                 PROVE  i = j
    BY <1>2 DEF Once
  <2>2. CASE y \notin ToSet(s)
    <3>1. i - m \in 1 .. n /\ j - m \in 1 .. n /\ t[i - m] = y /\ t[j - m] = y
      BY <1>2, <1>3, <2>1, <2>2 DEF ToSet
    <3>2. i - m = j - m
      BY <1>2, <1>7, <3>1 DEF Once
    <3> QED
      BY <1>2, <3>2
  <2>3. CASE y \notin ToSet(t)
    <3>1. i \in 1 .. m /\ j \in 1 .. m /\ s[i] = y /\ s[j] = y
      BY <1>2, <1>3, <2>1, <2>3 DEF ToSet
    <3> QED
      BY <1>2, <1>7, <3>1 DEF Once
  <2> QED
    BY <1>7, <2>2, <2>3
<1> QED
  BY <1>1, <1>6, <1>7 DEF u

LEMMA EmptyFacts == \A y : y \notin ToSet(<<>>) /\ Once(<<>>, y)
BY DEF ToSet, Once

LEMMA SingleFacts ==
  \A x : /\ \A y : y \in ToSet(<<x>>) <=> y = x
         /\ \A y : Once(<<x>>, y)
BY DEF ToSet, Once

-----------------------------------------------------------------------------
(* Streams, flags and counters. *)

LEMMA StreamFacts ==
  /\ \A e \in Engine : In(e) \in Stream /\ Streams(e) \subseteq Stream
                        /\ In(e) \in Streams(e)
  /\ \A d, e \in Engine : In(d) \in Streams(e) => d = e
  /\ \A d, e \in Engine : In(d) = In(e) => d = e
BY DEF In, Stream, Streams

LEMMA Finite ==
  /\ IsFiniteSet(Engine) /\ Cardinality(Engine) = NEngine
  /\ IsFiniteSet(Stream) /\ Cardinality(Stream) = 2 * NEngine
<1>1. NEngine \in Nat /\ NEngine > 0
  BY EngineAssumption
<1>2. IsFiniteSet(Engine) /\ Cardinality(Engine) = NEngine
  <2>1. IsFiniteSet(1 .. NEngine) /\ Cardinality(1 .. NEngine) =
          IF 1 > NEngine THEN 0 ELSE NEngine - 1 + 1
    BY <1>1, FS_Interval
  <2> QED
    BY <1>1, <2>1 DEF Engine
<1>3. IsFiniteSet({"in", "err"}) /\ Cardinality({"in", "err"}) = 2
  <2>1. IsFiniteSet({"in"}) /\ Cardinality({"in"}) = 1
    BY FS_Singleton
  <2>2. {"in"} \cup {"err"} = {"in", "err"} /\ "err" \notin {"in"}
    OBVIOUS
  <2> QED
    BY <2>1, <2>2, FS_AddElement
<1>4. IsFiniteSet(Stream) /\ Cardinality(Stream) = NEngine * 2
  BY <1>2, <1>3, FS_Product DEF Stream
<1> QED
  BY <1>1, <1>2, <1>4

(* The number of engines that think, when one engine's flags change. *)
Thinking(f) == {e \in Engine : f[e].thinking}

LEMMA DeltaCounts ==
  ASSUME NEW f, NEW g, NEW e \in Engine,
         f[e].thinking \in BOOLEAN, g[e].thinking \in BOOLEAN,
         \A d \in Engine \ {e} : g[d] = f[d]
  PROVE  Cardinality(Thinking(g)) = Cardinality(Thinking(f)) + Delta(f[e], g[e])
<1>1. IsFiniteSet(Thinking(f)) /\ Cardinality(Thinking(f)) \in Nat
  BY Finite, FS_Subset, FS_CardinalityType DEF Thinking
<1>2. CASE f[e].thinking /\ ~g[e].thinking
  <2>1. Thinking(g) = Thinking(f) \ {e} /\ e \in Thinking(f)
    BY <1>2 DEF Thinking
  <2>2. Cardinality(Thinking(g)) = Cardinality(Thinking(f)) - 1
    BY <1>1, <2>1, FS_RemoveElement
  <2>3. Delta(f[e], g[e]) = -1
    BY <1>2 DEF Delta
  <2> QED
    BY <1>1, <2>2, <2>3
<1>3. CASE ~f[e].thinking /\ g[e].thinking
  <2>1. Thinking(g) = Thinking(f) \cup {e} /\ e \notin Thinking(f)
    BY <1>3 DEF Thinking
  <2>2. Cardinality(Thinking(g)) = Cardinality(Thinking(f)) + 1
    BY <1>1, <2>1, FS_AddElement
  <2>3. Delta(f[e], g[e]) = 1
    BY <1>3 DEF Delta
  <2> QED
    BY <1>1, <2>2, <2>3
<1>4. CASE f[e].thinking <=> g[e].thinking
  <2>1. Thinking(g) = Thinking(f)
    BY <1>4 DEF Thinking
  <2> QED
    BY <1>1, <1>4, <2>1 DEF Delta
<1> QED
  BY <1>2, <1>3, <1>4

Flags == [ready : BOOLEAN, playing : BOOLEAN, thinking : BOOLEAN]

LEMMA StartedFacts ==
  ASSUME NEW f \in Flags, NEW w
  PROVE  /\ Started(f, w) \in Flags /\ Started(f, w).ready = f.ready
         /\ f.thinking => Started(f, w).thinking
         /\ ~f.ready => Started(f, w).thinking = f.thinking
BY DEF Started, MayStart, Flags

(* What an engine is told: "go" once, if its flag is raised. *)
LEMMA OrdersFacts ==
  ASSUME NEW f \in Flags, NEW w
  PROVE  /\ Orders(f, w) \in Seq(Command)
         /\ "isready" \notin ToSet(Orders(f, w)) /\ Once(Orders(f, w), "go")
         /\ "go" \in ToSet(Orders(f, w)) <=> Started(f, w).thinking # f.thinking
<1> DEFINE a == IF Started(f, w).playing # f.playing THEN <<"usinewgame">> ELSE <<>>
           b == IF Started(f, w).thinking # f.thinking THEN <<"go">> ELSE <<>>
<1>1. a \in Seq(Command) /\ \A y : y \in ToSet(a) => y = "usinewgame"
  <2>1. <<"usinewgame">> \in Seq(Command) /\ <<>> \in Seq(Command)
    BY DEF Command
  <2> QED
    BY <2>1, EmptyFacts, SingleFacts
<1>2. /\ b \in Seq(Command) /\ Once(b, "go")
      /\ \A y : y \in ToSet(b) <=> y = "go" /\ Started(f, w).thinking # f.thinking
  <2>1. CASE Started(f, w).thinking # f.thinking
    BY <2>1, SingleFacts DEF Command
  <2>2. CASE Started(f, w).thinking = f.thinking
    BY <2>2, EmptyFacts
  <2> QED
    BY <2>1, <2>2
<1>3. Once(a, "go")
  BY EmptyFacts, SingleFacts
<1>4. Orders(f, w) = a \o b
  BY DEF Orders
<1> HIDE DEF a, b
<1> QED
  BY <1>1, <1>2, <1>3, <1>4, ConcatFacts

-----------------------------------------------------------------------------
(* An engine nothing happens to. *)
LEMMA EngFrame ==
  ASSUME NEW e, EngInv(e), eng'[e] = eng[e], cmds'[e] = cmds[e],
         pipe'[In(e)] = pipe[In(e)], line'[In(e)] = line[In(e)],
         flag'[e] = flag[e]
  PROVE  EngInv(e)'
BY DEF EngInv, OneMove, Fresh, Busy, In

LEMMA InitInv == Init => IInv
<1> SUFFICES ASSUME Init PROVE IInv
  OBVIOUS
<1>1. <<"usi">> \in Seq(Command) /\ <<>> \in Seq(Line)
  BY DEF Command
<1>2. Cardinality({}) = 0
  BY FS_EmptySet
<1>3. 1 \in Engine /\ 0 \in Network /\ 0 \in 0 .. MaxNumChild /\ 0 \in 0 .. NEngine
  BY EngineAssumption, NetAssumption DEF Engine, Network
<1>4. TypeOK
  BY <1>1, <1>3 DEF Init, TypeOK, Pc, NoLine
<1>5. ReaderInv
  BY DEF Init, ReaderInv
<1>6. CountInv
  <2>1. {s \in Stream : ready[s]} = {} /\ {e \in Engine : flag[e].thinking} = {}
    BY DEF Init
  <2> QED
    BY <1>2, <2>1 DEF Init, CountInv
<1>7. ASSUME NEW e \in Engine PROVE EngInv(e)
  <2>1. /\ eng[e] = "idle" /\ cmds[e] = <<"usi">> /\ pipe[In(e)] = <<>>
        /\ line[In(e)] = NoLine /\ ~flag[e].thinking
    BY StreamFacts DEF Init
  <2>2. Once(<<"usi">>, "go") /\ "go" \notin ToSet(<<"usi">>)
        /\ "isready" \notin ToSet(<<"usi">>)
    BY SingleFacts
  <2> QED
    BY <2>1, <2>2, EmptyFacts DEF EngInv, OneMove, Fresh, Busy, NoLine, In
<1> QED
  BY <1>4, <1>5, <1>6, <1>7 DEF IInv, PlayInv, RoomInv, Init

LEMMA ReaderFrame ==
  ASSUME ReaderInv, UNCHANGED <<line, doread, ready, snap>>,
         pc' \in {"turn", "reap"} => pc \in {"turn", "reap"}
  PROVE  ReaderInv'
BY DEF ReaderInv

LEMMA CountFrame ==
  ASSUME CountInv, UNCHANGED <<ready, nready, flag, nthinking>>
  PROVE  CountInv'
BY DEF CountInv

-----------------------------------------------------------------------------
(* The engines. *)

(* What a line in the pipe, other than a move, changes for its engine. *)
LEMMA WriteFacts ==
  ASSUME TypeOK, NEW e \in Engine, NEW l \in Line
  PROVE  /\ Write(e, "in", l) \in [Stream -> Seq(Line)]
         /\ Write(e, "in", l)[In(e)] = Append(pipe[In(e)], l)
         /\ \A d \in Engine \ {e} : Write(e, "in", l)[In(d)] = pipe[In(d)]
<1>1. pipe \in [Stream -> Seq(Line)] /\ In(e) \in Stream
  BY StreamFacts DEF TypeOK
<1>2. Append(pipe[In(e)], l) \in Seq(Line)
  BY <1>1, AppendFacts
<1>3. Write(e, "in", l) = [pipe EXCEPT ![In(e)] = Append(pipe[In(e)], l)]
  BY DEF Write, In
<1> QED
  BY <1>1, <1>2, <1>3, StreamFacts

LEMMA ClosedFacts ==
  ASSUME TypeOK, NEW e \in Engine
  PROVE  /\ Closed(e) \in [Stream -> Seq(Line)]
         /\ Closed(e)[In(e)] = Append(pipe[In(e)], "eof")
         /\ \A d \in Engine \ {e} : Closed(e)[In(d)] = pipe[In(d)]
<1>1. pipe \in [Stream -> Seq(Line)] /\ "eof" \in Line
  BY DEF TypeOK, Line
<1>2. \A s \in Stream : Append(pipe[s], "eof") \in Seq(Line)
  BY <1>1, AppendFacts
<1> QED
  BY <1>1, <1>2, StreamFacts DEF Closed

LEMMA ObeyStep == ASSUME IInv, NEW e \in Engine, Obey(e) PROVE IInv'
<1> DEFINE c == Head(cmds[e])
           C == cmds[e]
           P == pipe[In(e)]
<1>1. /\ Running /\ eng[e] = "idle" /\ cmds' = [cmds EXCEPT ![e] = Tail(@)]
      /\ eng' = [eng EXCEPT ![e] = CASE c = "go"   -> "think"
                                     [] c = "quit" -> "gone"
                                     [] OTHER      -> "idle"]
      /\ pipe' = CASE c = "usi"     -> Write(e, "in", "usiok")
                   [] c = "isready" -> Write(e, "in", "info")
                   [] c = "quit"    -> Closed(e)
                   [] OTHER         -> pipe
      /\ UNCHANGED <<line, doread, ready, nready, main>>
  BY DEF Obey
<1>2. C \in Seq(Command) /\ C # <<>> /\ P \in Seq(Line)
  BY StreamFacts DEF IInv, TypeOK, Obey
<1>3. /\ c \in Command /\ Tail(C) \in Seq(Command)
      /\ \A y : y \in ToSet(C) <=> y = c \/ y \in ToSet(Tail(C))
      /\ \A y : Once(C, y) => Once(Tail(C), y)
      /\ Once(C, c) => c \notin ToSet(Tail(C))
  BY <1>2, TailFacts
<1>4. eng \in [Engine -> {"idle", "think", "gone"}] /\ cmds \in [Engine -> Seq(Command)]
      /\ pipe \in [Stream -> Seq(Line)] /\ TypeOK
  BY DEF IInv, TypeOK
<1> HIDE DEF c
<1>5. eng'[e] = CASE c = "go" -> "think" [] c = "quit" -> "gone" [] OTHER -> "idle"
  BY <1>1, <1>4
<1>6. /\ pipe' \in [Stream -> Seq(Line)]
      /\ \A d \in Engine \ {e} : pipe'[In(d)] = pipe[In(d)]
      /\ \/ pipe'[In(e)] = P
         \/ pipe'[In(e)] = Append(P, "usiok") \/ pipe'[In(e)] = Append(P, "eof")
         \/ pipe'[In(e)] = Append(P, "info") /\ c = "isready"
  <2>1. CASE c = "usi"
    BY <1>1, <1>4, <2>1, WriteFacts DEF Line
  <2>2. CASE c = "isready"
    BY <1>1, <1>4, <2>2, WriteFacts DEF Line
  <2>3. CASE c = "quit"
    BY <1>1, <1>4, <2>3, ClosedFacts
  <2>4. CASE c \notin {"usi", "isready", "quit"}
    BY <1>1, <1>4, <2>4
  <2> QED
    BY <2>1, <2>2, <2>3, <2>4
<1> DEFINE Q == pipe'[In(e)]
<1>7. /\ "bestmove" \in ToSet(Q) <=> "bestmove" \in ToSet(P)
      /\ "info" \in ToSet(Q) => "info" \in ToSet(P) \/ c = "isready"
      /\ Once(P, "bestmove") => Once(Q, "bestmove")
  <2>1. "usiok" \in Line /\ "eof" \in Line /\ "info" \in Line
    BY DEF Line
  <2>2. ASSUME NEW l \in Line, l # "bestmove"
        PROVE  /\ "bestmove" \in ToSet(Append(P, l)) <=> "bestmove" \in ToSet(P)
               /\ "info" \in ToSet(Append(P, l)) => "info" \in ToSet(P) \/ l = "info"
               /\ Once(P, "bestmove") => Once(Append(P, l), "bestmove")
    BY <1>2, <2>2, AppendFacts
  <2> HIDE DEF P, Q
  <2>3. CASE Q = P
    BY <2>3
  <2>4. CASE Q = Append(P, "usiok")
    BY <2>1, <2>2, <2>4
  <2>5. CASE Q = Append(P, "eof")
    BY <2>1, <2>2, <2>5
  <2>6. CASE Q = Append(P, "info") /\ c = "isready"
    BY <2>1, <2>2, <2>6
  <2> QED
    BY <1>6, <2>3, <2>4, <2>5, <2>6 DEF P, Q
<1>8. TypeOK'
  <2>1. cmds' \in [Engine -> Seq(Command)]
    BY <1>1, <1>3, <1>4
  <2>2. eng' \in [Engine -> {"idle", "think", "gone"}]
    BY <1>1, <1>4
  <2> QED
    BY <1>1, <1>6, <2>1, <2>2 DEF IInv, TypeOK, main
<1>9. ReaderInv' /\ CountInv' /\ RoomInv'
  BY <1>1, ReaderFrame, CountFrame DEF IInv, RoomInv, main
<1>10. PlayInv'
  <2> SUFFICES ASSUME Playing, NEW d \in Engine PROVE EngInv(d)'
    BY <1>1 DEF PlayInv, Playing, main
  <2>1. EngInv(d) /\ EngInv(e)
    BY DEF IInv, PlayInv
  <2>2. CASE d # e
    <3>1. /\ eng'[d] = eng[d] /\ cmds'[d] = cmds[d] /\ line' = line /\ flag' = flag
          /\ pipe'[In(d)] = pipe[In(d)]
      BY <1>1, <1>4, <1>6, <2>2 DEF main
    <3> QED
      BY <2>1, <3>1, EngFrame
  <2>3. CASE d = e
    <3>1. cmds'[e] = Tail(C) /\ line' = line /\ flag' = flag /\ eng[e] = "idle"
      BY <1>1, <1>4 DEF main
    <3>2. OneMove(e)'
      BY <1>3, <1>5, <1>7, <2>1, <3>1 DEF EngInv, OneMove
    <3>3. Busy(e)' => Busy(e)
      BY <1>3, <1>5, <1>7, <3>1 DEF Busy, In
    <3>4. Busy(e) /\ eng'[e] # "gone" => Busy(e)'
      BY <1>3, <1>5, <1>7, <3>1 DEF Busy, In
    <3>5. Fresh(e) => Fresh(e)'
      BY <1>3, <1>5, <1>7, <3>1 DEF Fresh
    <3> QED
      BY <2>1, <2>3, <3>1, <3>2, <3>3, <3>4, <3>5 DEF EngInv
  <2> QED
    BY <2>2, <2>3
<1> QED
  BY <1>8, <1>9, <1>10 DEF IInv

LEMMA MoveStep == ASSUME IInv, NEW e \in Engine, Move(e) PROVE IInv'
<1> DEFINE P == pipe[In(e)]
<1>1. /\ eng[e] = "think" /\ eng' = [eng EXCEPT ![e] = "idle"]
      /\ pipe' = Write(e, "in", "bestmove")
      /\ UNCHANGED <<cmds, line, doread, ready, nready, main>>
  BY DEF Move
<1>2. /\ pipe' \in [Stream -> Seq(Line)] /\ pipe'[In(e)] = Append(P, "bestmove")
      /\ \A d \in Engine \ {e} : pipe'[In(d)] = pipe[In(d)]
  BY <1>1, WriteFacts DEF IInv, Line
<1>3. /\ \A y : y \in ToSet(pipe'[In(e)]) <=> y \in ToSet(P) \/ y = "bestmove"
      /\ "bestmove" \notin ToSet(P) /\ Once(P, "bestmove")
           => Once(pipe'[In(e)], "bestmove")
  <2>1. P \in Seq(Line) /\ "bestmove" \in Line
    BY StreamFacts DEF IInv, TypeOK, Line
  <2> QED
    BY <1>2, <2>1, AppendFacts
<1>4. eng \in [Engine -> {"idle", "think", "gone"}] /\ eng'[e] = "idle"
  BY <1>1 DEF IInv, TypeOK
<1>5. TypeOK'
  BY <1>1, <1>2 DEF IInv, TypeOK, main
<1>6. ReaderInv' /\ CountInv' /\ RoomInv'
  BY <1>1, ReaderFrame, CountFrame DEF IInv, RoomInv, main
<1>7. PlayInv'
  <2> SUFFICES ASSUME Playing, NEW d \in Engine PROVE EngInv(d)'
    BY <1>1 DEF PlayInv, Playing, main
  <2>1. EngInv(d) /\ EngInv(e)
    BY DEF IInv, PlayInv
  <2>2. CASE d # e
    <3>1. /\ eng'[d] = eng[d] /\ cmds' = cmds /\ line' = line /\ flag' = flag
          /\ pipe'[In(d)] = pipe[In(d)]
      BY <1>1, <1>2, <1>4, <2>2 DEF main
    <3> QED
      BY <2>1, <3>1, EngFrame
  <2>3. CASE d = e
    BY <1>1, <1>3, <1>4, <2>1, <2>3 DEF EngInv, OneMove, Busy, Fresh, In, main
  <2> QED
    BY <2>2, <2>3
<1> QED
  BY <1>5, <1>6, <1>7 DEF IInv

LEMMA DieStep == ASSUME IInv, NEW e \in Engine, Die(e) PROVE IInv'
<1> DEFINE P == pipe[In(e)]
<1>1. /\ eng' = [eng EXCEPT ![e] = "gone"] /\ cmds' = [cmds EXCEPT ![e] = <<>>]
      /\ pipe' = Closed(e)
      /\ UNCHANGED <<line, doread, ready, nready, main>>
  BY DEF Die
<1>2. /\ pipe' \in [Stream -> Seq(Line)] /\ pipe'[In(e)] = Append(P, "eof")
      /\ \A d \in Engine \ {e} : pipe'[In(d)] = pipe[In(d)]
  BY <1>1, ClosedFacts DEF IInv
<1>3. /\ \A y : y \in ToSet(pipe'[In(e)]) <=> y \in ToSet(P) \/ y = "eof"
      /\ Once(P, "bestmove") => Once(pipe'[In(e)], "bestmove")
  <2>1. P \in Seq(Line) /\ "eof" \in Line
    BY StreamFacts DEF IInv, TypeOK, Line
  <2> QED
    BY <1>2, <2>1, AppendFacts
<1>4. /\ eng \in [Engine -> {"idle", "think", "gone"}] /\ eng'[e] = "gone"
      /\ cmds \in [Engine -> Seq(Command)] /\ cmds'[e] = <<>>
  BY <1>1 DEF IInv, TypeOK
<1>5. TypeOK'
  BY <1>1, <1>2 DEF IInv, TypeOK, main
<1>6. ReaderInv' /\ CountInv' /\ RoomInv'
  BY <1>1, ReaderFrame, CountFrame DEF IInv, RoomInv, main
<1>7. PlayInv'
  <2> SUFFICES ASSUME Playing, NEW d \in Engine PROVE EngInv(d)'
    BY <1>1 DEF PlayInv, Playing, main
  <2>1. EngInv(d) /\ EngInv(e)
    BY DEF IInv, PlayInv
  <2>2. CASE d # e
    <3>1. /\ eng'[d] = eng[d] /\ cmds'[d] = cmds[d] /\ line' = line /\ flag' = flag
          /\ pipe'[In(d)] = pipe[In(d)]
      BY <1>1, <1>2, <1>4, <2>2 DEF main
    <3> QED
      BY <2>1, <3>1, EngFrame
  <2>3. CASE d = e
    BY <1>1, <1>3, <1>4, <2>1, <2>3, EmptyFacts
       DEF EngInv, OneMove, Busy, Fresh, In, main
  <2> QED
    BY <2>2, <2>3
<1> QED
  BY <1>5, <1>6, <1>7 DEF IInv

-----------------------------------------------------------------------------
(* The readers. *)

(* The streams that offer something. *)
Raised == {s \in Stream : ready[s]}

LEMMA RaisedFinite ==
  /\ IsFiniteSet(Raised) /\ Cardinality(Raised) \in Nat
  /\ Cardinality(Raised) <= 2 * NEngine
  /\ Cardinality(Raised) = 2 * NEngine => Raised = Stream
<1>1. Raised \in SUBSET Stream
  BY DEF Raised
<1> QED
  BY <1>1, Finite, FS_Subset, FS_CardinalityType

LEMMA OfferStep == ASSUME IInv, NEW s \in Stream, Offer(s) PROVE IInv'
<1>1. /\ doread[s] /\ pipe[s] # <<>> /\ ~ready[s] /\ line[s] = NoLine
      /\ UNCHANGED <<eng, cmds, snap, alive, flag, nthinking, wid, nnet, arg, at>>
  BY DEF IInv, ReaderInv, Offer
<1>2. CASE nready = MaxNumChild
  <2>1. pc' = "internal" /\ UNCHANGED readers
    BY <1>2 DEF Offer
  <2>2. TypeOK' /\ ReaderInv' /\ CountInv' /\ PlayInv'
    BY <1>1, <2>1, ReaderFrame, CountFrame
       DEF IInv, TypeOK, PlayInv, Playing, Pc, readers
  <2>3. ~(2 * NEngine <= MaxNumChild)
    <3>1. Cardinality(Raised) # 2 * NEngine
      BY <1>1, RaisedFinite DEF Raised
    <3>2. Cardinality(Raised) = MaxNumChild
      BY <1>2 DEF IInv, CountInv, Raised
    <3> QED
      BY <3>1, <3>2, RaisedFinite, EngineAssumption
  <2> QED
    BY <2>2, <2>3 DEF IInv, RoomInv
<1>3. CASE nready # MaxNumChild
  <2> DEFINE P == pipe[s]
  <2>1. /\ line' = [line EXCEPT ![s] = Head(P)] /\ pipe' = [pipe EXCEPT ![s] = Tail(P)]
        /\ doread' = [doread EXCEPT ![s] = FALSE]
        /\ ready' = [ready EXCEPT ![s] = TRUE]
        /\ nready' = nready + 1 /\ pc' = pc
    BY <1>1, <1>3 DEF Offer
  <2>2. /\ Head(P) \in Line /\ Tail(P) \in Seq(Line)
        /\ \A y : y \in ToSet(P) <=> y = Head(P) \/ y \in ToSet(Tail(P))
        /\ \A y : Once(P, y) => Once(Tail(P), y)
        /\ Once(P, Head(P)) => Head(P) \notin ToSet(Tail(P))
    BY <1>1, TailFacts DEF IInv, TypeOK
  <2>3. nready' \in 0 .. MaxNumChild
    BY <1>3, <2>1, EngineAssumption DEF IInv, TypeOK
  <2>4. TypeOK'
    BY <1>1, <2>1, <2>2, <2>3 DEF IInv, TypeOK
  <2>5. ReaderInv'
    BY <1>1, <2>1, <2>2 DEF IInv, TypeOK, ReaderInv
  <2>6. CountInv'
    <3>1. Raised' = Raised \cup {s} /\ s \notin Raised
      BY <1>1, <2>1 DEF IInv, TypeOK, Raised
    <3>2. Cardinality(Raised') = Cardinality(Raised) + 1
      BY <3>1, RaisedFinite, FS_AddElement
    <3> QED
      BY <1>1, <2>1, <3>2 DEF IInv, CountInv, Raised
  <2>7. PlayInv'
    <3> SUFFICES ASSUME Playing, NEW d \in Engine PROVE EngInv(d)'
      BY <2>1 DEF PlayInv, Playing
    <3>1. EngInv(d) /\ In(d) \in Stream
      BY StreamFacts DEF IInv, PlayInv
    <3>2. CASE s # In(d)
      <4>1. line'[In(d)] = line[In(d)] /\ pipe'[In(d)] = pipe[In(d)]
        BY <2>1, <3>1, <3>2 DEF IInv, TypeOK
      <4> QED
        BY <1>1, <3>1, <4>1, EngFrame
    <3>3. CASE s = In(d)
      <4>1. line'[In(d)] = Head(P) /\ pipe'[In(d)] = Tail(P) /\ P = pipe[In(d)]
        BY <2>1, <3>1, <3>3 DEF IInv, TypeOK
      <4>2. /\ eng' = eng /\ cmds' = cmds /\ flag' = flag
            /\ line[In(d)] # "bestmove" /\ line[In(d)] # "info"
        BY <1>1, <3>3 DEF NoLine
      <4> HIDE DEF P
      <4> QED
        BY <2>2, <3>1, <4>1, <4>2 DEF EngInv, OneMove, Busy, Fresh, In
    <3> QED
      BY <3>2, <3>3
  <2>8. RoomInv'
    BY <2>1 DEF IInv, RoomInv
  <2> QED
    BY <2>4, <2>5, <2>6, <2>7, <2>8 DEF IInv
<1> QED
  BY <1>2, <1>3

(* Some raised flags are lowered: what the counter needs. *)
LEMMA FewerFacts ==
  ASSUME IInv, NEW X \in SUBSET Raised, Raised' = Raised \ X, nready' = Fewer(X)
  PROVE  nready' = Cardinality(Raised') /\ nready' \in 0 .. MaxNumChild
<1>1. Raised \cap X = X
  OBVIOUS
<1>2. /\ IsFiniteSet(Raised \ X) /\ Cardinality(Raised \ X) \in Nat
      /\ Cardinality(Raised \ X) = Cardinality(Raised) - Cardinality(X)
  <2>1. IsFiniteSet(Raised \ X)
        /\ Cardinality(Raised \ X) = Cardinality(Raised) - Cardinality(Raised \cap X)
    BY RaisedFinite, FS_Difference
  <2> QED
    BY <1>1, <2>1, FS_CardinalityType
<1>3. Cardinality(X) \in Nat
  BY RaisedFinite, FS_Subset, FS_CardinalityType
<1>4. nready = Cardinality(Raised) /\ nready \in 0 .. MaxNumChild
  BY DEF IInv, TypeOK, CountInv, Raised
<1> QED
  BY <1>2, <1>3, <1>4, RaisedFinite, EngineAssumption DEF Fewer

(* getline() from streams that offer something. *)
LEMMA TakeFacts ==
  ASSUME IInv, NEW S \in SUBSET Raised, TakeLines(S)
  PROVE  /\ line' \in [Stream -> Line \cup {NoLine}]
         /\ doread' \in [Stream -> BOOLEAN] /\ ready' \in [Stream -> BOOLEAN]
         /\ pipe' = pipe /\ nready' \in 0 .. MaxNumChild
         /\ nready' = Cardinality({s \in Stream : ready'[s]})
         /\ \A s \in Stream : /\ ready'[s] => ~doread'[s] /\ line'[s] \in Line
                              /\ doread'[s] => line'[s] = NoLine
         /\ \A s \in Stream \ S : ready'[s] = ready[s] /\ line'[s] = line[s]
         /\ \A s \in S : line[s] # "eof" => line'[s] = NoLine
<1> DEFINE X == Lines(S)
<1>1. /\ line' = [s \in Stream |-> IF s \in X THEN NoLine ELSE line[s]]
      /\ doread' = [s \in Stream |-> doread[s] \/ s \in X]
      /\ ready' = [s \in Stream |-> ready[s] /\ s \notin X]
      /\ nready' = Fewer(X) /\ pipe' = pipe
  BY DEF TakeLines
<1>2. X \in SUBSET Raised /\ \A s \in S : s \in X <=> line[s] # "eof"
  BY DEF Lines
<1> HIDE DEF X
<1>3. Raised' = Raised \ X
  BY <1>1, <1>2 DEF IInv, TypeOK, Raised
<1>4. nready' = Cardinality(Raised') /\ nready' \in 0 .. MaxNumChild
  BY <1>1, <1>2, <1>3, FewerFacts
<1>5. /\ line' \in [Stream -> Line \cup {NoLine}]
      /\ doread' \in [Stream -> BOOLEAN] /\ ready' \in [Stream -> BOOLEAN]
  BY <1>1 DEF IInv, TypeOK
<1>6. \A s \in Stream : /\ ready'[s] => ~doread'[s] /\ line'[s] \in Line
                        /\ doread'[s] => line'[s] = NoLine
  BY <1>1, <1>2 DEF IInv, TypeOK, ReaderInv
<1>7. /\ \A s \in Stream \ S : ready'[s] = ready[s] /\ line'[s] = line[s]
      /\ \A s \in S : line[s] # "eof" => line'[s] = NoLine
  <2>1. X \subseteq S /\ S \subseteq Stream
    BY DEF X, Lines, Raised
  <2> QED
    BY <1>1, <1>2, <2>1 DEF IInv, TypeOK
<1> QED
  BY <1>1, <1>4, <1>5, <1>6, <1>7 DEF Raised

-----------------------------------------------------------------------------
(* The main thread. *)

LEMMA NextEngineFacts ==
  ASSUME TypeOK, NEW p \in Pc, NEW q \in Pc, NextEngine(p, q)
  PROVE  pc' \in {p, q} /\ at' \in Engine
<1>1. CASE at = NEngine
  BY <1>1, EngineAssumption DEF NextEngine, Goto, Engine
<1>2. CASE at # NEngine
  <2>1. pc' = p /\ at' = at + 1
    BY <1>2 DEF NextEngine
  <2>2. at + 1 \in 1 .. NEngine
    BY <1>2, EngineAssumption DEF TypeOK, Engine
  <2> QED
    BY <2>1, <2>2 DEF Engine
<1> QED
  BY <1>1, <1>2

LEMMA GotoFacts ==
  ASSUME NEW p, Goto(p)
  PROVE  pc' = p /\ at' \in Engine
BY EngineAssumption DEF Goto, Engine

LEMMA RoundStep == ASSUME IInv, Round PROVE IInv'
<1>1. /\ pc = "loop" /\ snap' = ready /\ pc' = "turn" /\ at' \in Engine
      /\ UNCHANGED <<eng, cmds, readers, alive, flag, nthinking, wid, nnet>>
  BY GotoFacts DEF Round, Snapshot
<1>2. arg' \in [conn : BOOLEAN, net : Network]
  <2>1. arg.net .. MaxNet \subseteq Network
    BY NetAssumption DEF IInv, TypeOK, Network
  <2> QED
    BY <2>1 DEF Round
<1>3. TypeOK'
  BY <1>1, <1>2 DEF IInv, TypeOK, readers, Pc
<1>4. ReaderInv' /\ CountInv' /\ RoomInv'
  BY <1>1, CountFrame DEF IInv, ReaderInv, RoomInv, readers
<1>5. PlayInv'
  <2>1. ASSUME NEW d \in Engine PROVE EngInv(d)'
    BY <1>1, EngFrame DEF IInv, PlayInv, Playing, readers
  <2> QED
    BY <2>1 DEF PlayInv
<1> QED
  BY <1>3, <1>4, <1>5 DEF IInv

LEMMA QuitStep == ASSUME IInv, Quit PROVE IInv'
<1>1. /\ pc' \in {"died", "wait"} /\ at' \in Engine
      /\ cmds' = [e \in Engine |-> Append(cmds[e], "quit")]
      /\ UNCHANGED <<eng, readers, snap, alive, flag, nthinking, wid, nnet, arg>>
  BY GotoFacts DEF Quit
<1>2. cmds' \in [Engine -> Seq(Command)]
  <2>1. \A e \in Engine : Append(cmds[e], "quit") \in Seq(Command)
    BY AppendFacts DEF IInv, TypeOK, Command
  <2> QED
    BY <1>1, <2>1
<1>3. TypeOK'
  BY <1>1, <1>2 DEF IInv, TypeOK, readers, Pc
<1> QED
  BY <1>1, <1>3, ReaderFrame, CountFrame
     DEF IInv, PlayInv, Playing, RoomInv, readers

(* Of the copied flags, those of the engine whose turn it was are used up. *)
LEMMA UsedFacts ==
  ASSUME IInv, pc \in {"turn", "reap"}, Used,
         \A s \in Stream \ Streams(at) : ready'[s] = ready[s]
  PROVE  /\ snap' \in [Stream -> BOOLEAN]
         /\ \A s \in Stream : snap'[s] => ready'[s]
BY DEF IInv, TypeOK, ReaderInv, Used

LEMMA OfferedFacts ==
  ASSUME IInv, pc \in {"turn", "reap"}
  PROVE  Offered(at) \in SUBSET Raised /\ Offered(at) \subseteq Streams(at)
BY StreamFacts DEF IInv, TypeOK, ReaderInv, Offered, Raised

(* A turn that takes an engine's lines, and what is left to show of it. *)
LEMMA TurnTakes ==
  ASSUME IInv, Turn, TakeLines(Offered(at)), pc' \in Pc \ {"internal"},
         at' \in Engine, cmds' \in [Engine -> Seq(Command)],
         flag' \in [Engine -> Flags],
         nthinking' = Cardinality(Thinking(flag')),
         PlayInv'
  PROVE  IInv'
<1>1. pc = "turn" /\ Used /\ UNCHANGED <<eng, alive, wid, nnet, arg>>
  BY DEF Turn
<1>2. Offered(at) \in SUBSET Raised /\ Offered(at) \subseteq Streams(at)
  BY <1>1, OfferedFacts
<1>3. /\ line' \in [Stream -> Line \cup {NoLine}]
      /\ doread' \in [Stream -> BOOLEAN] /\ ready' \in [Stream -> BOOLEAN]
      /\ pipe' = pipe /\ nready' \in 0 .. MaxNumChild
      /\ nready' = Cardinality({s \in Stream : ready'[s]})
      /\ \A s \in Stream : /\ ready'[s] => ~doread'[s] /\ line'[s] \in Line
                           /\ doread'[s] => line'[s] = NoLine
      /\ \A s \in Stream \ Offered(at) : ready'[s] = ready[s] /\ line'[s] = line[s]
  BY <1>2, TakeFacts
<1>4. /\ snap' \in [Stream -> BOOLEAN]
      /\ \A s \in Stream : snap'[s] => ready'[s]
  BY <1>1, <1>2, <1>3, UsedFacts
<1>5. nthinking' \in 0 .. NEngine
  <2>1. Thinking(flag') \in SUBSET Engine
    BY DEF Thinking
  <2>2. Cardinality(Thinking(flag')) \in Nat
        /\ Cardinality(Thinking(flag')) <= NEngine
    BY <2>1, Finite, FS_Subset, FS_CardinalityType
  <2> QED
    BY <2>2, EngineAssumption
<1>6. TypeOK'
  BY <1>1, <1>3, <1>4, <1>5 DEF IInv, TypeOK, Flags
<1>7. ReaderInv' /\ CountInv' /\ RoomInv'
  BY <1>3, <1>4 DEF ReaderInv, CountInv, RoomInv, Thinking
<1> QED
  BY <1>6, <1>7 DEF IInv

LEMMA TurnEndStep == ASSUME IInv, Turn, TurnEnd PROVE IInv'
<1>1. /\ TakeLines(Offered(at)) /\ pc' = "drain"
      /\ UNCHANGED <<cmds, flag, nthinking, at>>
  BY DEF TurnEnd
<1>2. /\ at' \in Engine /\ cmds' \in [Engine -> Seq(Command)]
      /\ flag' \in [Engine -> Flags]
      /\ nthinking' = Cardinality(Thinking(flag'))
      /\ pc' \in Pc \ {"internal"} /\ PlayInv'
  BY <1>1 DEF IInv, TypeOK, CountInv, Thinking, Flags, PlayInv, Playing, Pc
<1> QED
  BY <1>1, <1>2, TurnTakes

LEMMA TurnNoneStep == ASSUME IInv, Turn, TurnNone PROVE IInv'
<1>1. /\ TakeLines(Offered(at)) /\ NextEngine("turn", "update") /\ pc = "turn"
      /\ ~snap[In(at)] /\ UNCHANGED <<cmds, flag, nthinking, eng>>
  BY DEF Turn, TurnNone, In
<1>2. pc' \in {"turn", "update"} /\ at' \in Engine
  BY <1>1, NextEngineFacts DEF IInv, Pc
<1>3. /\ cmds' \in [Engine -> Seq(Command)] /\ flag' \in [Engine -> Flags]
      /\ nthinking' = Cardinality(Thinking(flag'))
      /\ pc' \in Pc \ {"internal"}
  BY <1>1, <1>2 DEF IInv, TypeOK, CountInv, Thinking, Flags, Pc
<1>4. ASSUME NEW d \in Engine PROVE EngInv(d)'
  <2>1. In(d) \in Stream /\ In(d) \notin Offered(at)
    BY <1>1, StreamFacts DEF IInv, TypeOK, Offered
  <2>2. line'[In(d)] = line[In(d)] /\ pipe' = pipe
    BY <1>1, <2>1, OfferedFacts, TakeFacts
  <2> QED
    BY <1>1, <2>2, EngFrame DEF IInv, PlayInv, Playing
<1> QED
  BY <1>1, <1>2, <1>3, <1>4, TurnTakes DEF PlayInv

(* A line of an engine that plays is one it may write. *)
LEMMA NeverBad ==
  ASSUME IInv, pc = "turn", NEW e \in Engine, line[In(e)] \in Line \ {"eof"}
  PROVE  /\ ~Bad(flag[e], line[In(e)])
         /\ line[In(e)] # "usiok" => flag[e].ready
BY DEF IInv, PlayInv, Playing, EngInv, Fresh, Busy, Bad, Line, In

LEMMA UpdatedFacts ==
  ASSUME NEW f \in Flags, NEW l, NEW g \in Updated(f, l)
  PROVE  /\ g \in Flags
         /\ g.thinking = (f.thinking /\ l # "bestmove")
         /\ g.ready = (f.ready \/ l = "usiok")
BY DEF Updated, Flags

LEMMA TurnLineStep == ASSUME IInv, Turn, TurnLine PROVE IInv'
<1>e. PICK e \in Engine : e = at
  BY DEF IInv, TypeOK
<1> DEFINE F == flag[e]
           C == cmds[e]
           l == line[In(e)]
<1>1. /\ pc = "turn" /\ snap[In(e)] /\ In(e) \in Offered(at) /\ l # "eof"
      /\ TakeLines(Offered(at)) /\ UNCHANGED eng
  BY <1>e, StreamFacts DEF Turn, TurnLine, In, Offered, IInv, TypeOK
<1>2. PICK f \in Updated(F, l) :
        /\ flag' = [flag EXCEPT ![e] = Started(f, wid)]
        /\ nthinking' = nthinking + Delta(F, Started(f, wid))
        /\ cmds' = [cmds EXCEPT ![e] = @
                      \o (IF l = "usiok" THEN <<"isready">> ELSE <<>>)
                      \o Orders(f, wid)]
        /\ IF Bad(F, l) THEN Goto("internal")
           ELSE IF eng[e] = "gone" /\ cmds' # cmds THEN Goto("died")
           ELSE NextEngine("turn", "update")
  BY <1>e DEF TurnLine, In
<1> DEFINE A == IF l = "usiok" THEN <<"isready">> ELSE <<>>
           O == Orders(f, wid)
           g == Started(f, wid)
<1>3. F \in Flags /\ C \in Seq(Command) /\ l \in Line \ {"eof"}
  BY <1>1, StreamFacts DEF IInv, TypeOK, ReaderInv, Flags
<1>4. ~Bad(F, l) /\ (l # "usiok" => F.ready)
  BY <1>1, <1>3, NeverBad
<1>5. /\ f \in Flags /\ f.thinking = (F.thinking /\ l # "bestmove")
      /\ f.ready = (F.ready \/ l = "usiok")
  BY <1>3, UpdatedFacts
<1>6. /\ g \in Flags /\ g.ready /\ (f.thinking => g.thinking)
      /\ g.thinking \in BOOLEAN
  BY <1>4, <1>5, StartedFacts DEF Flags
<1>7. /\ O \in Seq(Command) /\ Once(O, "go")
      /\ "go" \in ToSet(O) <=> g.thinking /\ ~f.thinking
  <2>1. f.thinking \in BOOLEAN
    BY <1>5 DEF Flags
  <2>2. g.thinking # f.thinking <=> g.thinking /\ ~f.thinking
    BY <1>6, <2>1
  <2>3. /\ O \in Seq(Command) /\ Once(O, "go")
        /\ "go" \in ToSet(O) <=> g.thinking # f.thinking
    BY <1>5, OrdersFacts
  <2> HIDE DEF g, O
  <2> QED
    BY <2>2, <2>3
<1>8. A \in Seq(Command) /\ "go" \notin ToSet(A) /\ Once(A, "go")
  <2>1. CASE l = "usiok"
    BY <2>1, SingleFacts DEF Command
  <2>2. CASE l # "usiok"
    BY <2>2, EmptyFacts
  <2> QED
    BY <2>1, <2>2
<1>9. flag'[e] = g /\ cmds'[e] = C \o A \o O /\ cmds' \in [Engine -> Seq(Command)]
      /\ flag' \in [Engine -> Flags]
      /\ \A d \in Engine \ {e} : flag'[d] = flag[d] /\ cmds'[d] = cmds[d]
  <2>1. C \o A \in Seq(Command)
    BY <1>3, <1>8, ConcatFacts
  <2>2. C \o A \o O \in Seq(Command)
    BY <1>7, <2>1, ConcatFacts
  <2>3. cmds' = [cmds EXCEPT ![e] = C \o A \o O] /\ flag' = [flag EXCEPT ![e] = g]
    BY <1>2
  <2>4. cmds \in [Engine -> Seq(Command)] /\ flag \in [Engine -> Flags]
    BY DEF IInv, TypeOK, Flags
  <2> HIDE DEF C, A, O, g
  <2> QED
    BY <1>3, <1>6, <2>2, <2>3, <2>4
<1>10. pc' \in Pc \ {"internal"} /\ at' \in Engine
  <2>1. CASE Goto("died")
    BY <2>1, GotoFacts DEF Pc
  <2>2. CASE NextEngine("turn", "update")
    BY <2>2, NextEngineFacts DEF IInv, Pc
  <2> QED
    BY <1>2, <1>4, <2>1, <2>2
<1>11. nthinking' = Cardinality(Thinking(flag'))
  <2>1. nthinking = Cardinality(Thinking(flag))
    BY DEF IInv, CountInv, Thinking
  <2>2. flag[e].thinking \in BOOLEAN /\ flag'[e].thinking \in BOOLEAN
    BY <1>3, <1>6, <1>9 DEF Flags
  <2>3. Cardinality(Thinking(flag'))
          = Cardinality(Thinking(flag)) + Delta(flag[e], flag'[e])
    BY <1>9, <2>2, DeltaCounts
  <2> QED
    BY <1>2, <1>9, <2>1, <2>3
<1>12. /\ line'[In(e)] = NoLine /\ pipe' = pipe
       /\ \A d \in Engine \ {e} : line'[In(d)] = line[In(d)]
  <2>1. /\ \A s \in Stream \ Offered(at) : line'[s] = line[s]
        /\ \A s \in Offered(at) : line[s] # "eof" => line'[s] = NoLine
        /\ pipe' = pipe
    BY <1>1, OfferedFacts, TakeFacts
  <2>2. \A d \in Engine \ {e} : In(d) \in Stream \ Offered(at)
    BY <1>e, StreamFacts DEF Offered
  <2> QED
    BY <1>1, <2>1, <2>2
<1>13. /\ "go" \in ToSet(cmds'[e])
            <=> "go" \in ToSet(C) \/ (g.thinking /\ ~f.thinking)
       /\ Once(C, "go") /\ ("go" \notin ToSet(C) \/ f.thinking)
            => Once(cmds'[e], "go")
  <2>1. /\ C \o A \in Seq(Command)
        /\ "go" \in ToSet(C \o A) <=> "go" \in ToSet(C)
        /\ Once(C, "go") => Once(C \o A, "go")
    <3> HIDE DEF A, C
    <3> QED
      BY <1>3, <1>8, ConcatFacts
  <2> DEFINE B == C \o A
  <2>2. B \in Seq(Command) /\ cmds'[e] = B \o O
    BY <1>9, <2>1
  <2> HIDE DEF B, C, A, O, g
  <2>3. /\ "go" \in ToSet(B \o O) <=> "go" \in ToSet(B) \/ "go" \in ToSet(O)
        /\ Once(B, "go") /\ Once(O, "go") /\ ("go" \notin ToSet(B) \/ "go" \notin ToSet(O))
             => Once(B \o O, "go")
    BY <1>7, <2>2, ConcatFacts
  <2>4. /\ "go" \in ToSet(B) <=> "go" \in ToSet(C)
        /\ Once(C, "go") => Once(B, "go")
    BY <2>1 DEF B
  <2> QED
    BY <1>7, <2>2, <2>3, <2>4
<1>14. EngInv(e)'
  <2>1. EngInv(e)
    BY <1>1, <1>3 DEF IInv, PlayInv, Playing
  <2>2. line'[In(e)] # "bestmove" /\ eng' = eng /\ flag'[e] = g
    BY <1>1, <1>9, <1>12 DEF NoLine
  <2>3. CASE l = "bestmove"
    <3>1. /\ eng[e] # "think" /\ "go" \notin ToSet(C)
          /\ "bestmove" \notin ToSet(pipe[In(e)]) /\ ~f.thinking
          /\ Once(C, "go") /\ Once(pipe[In(e)], "bestmove")
      BY <1>5, <2>1, <2>3 DEF EngInv, OneMove
    <3> HIDE DEF g, C, F
    <3>2. Once(cmds'[e], "go") /\ ("go" \in ToSet(cmds'[e]) <=> g.thinking)
      BY <1>6, <1>13, <3>1
    <3> QED
      BY <1>6, <1>12, <2>2, <3>1, <3>2 DEF EngInv, OneMove, Busy, In
  <2>4. CASE l # "bestmove"
    <3>1. f.thinking = F.thinking /\ (Busy(e) => F.thinking)
          /\ (eng[e] # "gone" /\ F.thinking => Busy(e)) /\ OneMove(e)
      BY <1>3, <1>5, <2>1, <2>4 DEF EngInv, Flags
    <3>2. Busy(e) <=> \/ eng[e] = "think" \/ "go" \in ToSet(C)
                       \/ "bestmove" \in ToSet(pipe[In(e)])
      BY <2>4 DEF Busy, In
    <3>3. Busy(e)' <=> \/ eng[e] = "think" \/ "go" \in ToSet(cmds'[e])
                        \/ "bestmove" \in ToSet(pipe[In(e)])
      BY <1>12, <2>2 DEF Busy, In
    <3>4. /\ Once(C, "go") /\ Once(pipe[In(e)], "bestmove")
          /\ eng[e] = "think" => "go" \notin ToSet(C)
          /\ eng[e] = "think" \/ "go" \in ToSet(C) =>
               "bestmove" \notin ToSet(pipe[In(e)])
      BY <3>1 DEF OneMove
    <3> HIDE DEF g, C, F, l
    <3>5. OneMove(e)'
      BY <1>6, <1>12, <1>13, <2>2, <3>1, <3>2, <3>4 DEF OneMove
    <3>6. (Busy(e)' => g.thinking) /\ (eng[e] # "gone" /\ g.thinking => Busy(e)')
      BY <1>6, <1>13, <3>1, <3>2, <3>3
    <3> QED
      BY <1>6, <2>2, <3>5, <3>6 DEF EngInv
  <2> QED
    BY <2>3, <2>4
<1>15. \A d \in Engine : EngInv(d)'
  <2>1. ASSUME NEW d \in Engine, d # e PROVE EngInv(d)'
    BY <1>1, <1>9, <1>12, <2>1, EngFrame DEF IInv, PlayInv, Playing
  <2> QED
    BY <1>14, <2>1
<1> QED
  BY <1>1, <1>9, <1>10, <1>11, <1>15, TurnTakes DEF PlayInv

LEMMA DrainStep == ASSUME IInv, Drain PROVE IInv'
<1> DEFINE S == {s \in Streams(at) : ready[s]}
<1>1. /\ pc = "drain"
      /\ UNCHANGED <<eng, cmds, snap, alive, flag, nthinking, wid, nnet, arg, at>>
  BY DEF Drain
<1>2. S \in SUBSET Raised
  BY StreamFacts DEF IInv, TypeOK, Raised
<1>3. CASE TakeLines(S) /\ UNCHANGED pc
  <2>1. /\ line' \in [Stream -> Line \cup {NoLine}]
        /\ doread' \in [Stream -> BOOLEAN] /\ ready' \in [Stream -> BOOLEAN]
        /\ pipe' = pipe /\ nready' \in 0 .. MaxNumChild
        /\ nready' = Cardinality({s \in Stream : ready'[s]})
        /\ \A s \in Stream : /\ ready'[s] => ~doread'[s] /\ line'[s] \in Line
                             /\ doread'[s] => line'[s] = NoLine
    BY <1>2, <1>3, TakeFacts
  <2>2. TypeOK'
    BY <1>1, <1>3, <2>1 DEF IInv, TypeOK
  <2>3. ReaderInv' /\ CountInv' /\ PlayInv' /\ RoomInv'
    BY <1>1, <1>3, <2>1
       DEF IInv, ReaderInv, CountInv, PlayInv, Playing, RoomInv
  <2> QED
    BY <2>2, <2>3 DEF IInv
<1>4. CASE pc' = "died" /\ UNCHANGED readers
  BY <1>1, <1>4, ReaderFrame, CountFrame
     DEF IInv, TypeOK, PlayInv, Playing, RoomInv, readers, Pc
<1> QED
  BY <1>3, <1>4 DEF Drain

(* The engines get to know a new network when none thinks. *)
LEMMA NewNetStep ==
  ASSUME IInv, Update, wid # arg.net, AtRest
  PROVE  IInv'
<1> DEFINE g(e) == Started(flag[e], wid')
           O(e) == Orders(flag[e], wid')
           D(e) == cmds[e] \o <<"weight">> \o O(e)
<1>1. /\ pc = "update" /\ wid' = arg.net /\ nnet' = arg.net
      /\ flag' = [e \in Engine |-> g(e)] /\ cmds' = [e \in Engine |-> D(e)]
      /\ nthinking' = nthinking +
           Cardinality({e \in Engine : Delta(flag[e], flag'[e]) = 1})
      /\ pc' \in {"died", "loop"} /\ at' \in Engine
      /\ UNCHANGED <<eng, readers, snap, alive, arg>>
  BY GotoFacts DEF Update
<1>2. \A e \in Engine : flag[e] \in Flags /\ ~flag[e].thinking
  <2>1. Thinking(flag) = {}
    <3>1. IsFiniteSet(Thinking(flag)) /\ Cardinality(Thinking(flag)) = 0
      BY Finite, FS_Subset DEF IInv, CountInv, AtRest, Thinking
    <3> QED
      BY <3>1, FS_EmptySet
  <2> QED
    BY <2>1 DEF IInv, TypeOK, Thinking, Flags
<1>3. ASSUME NEW e \in Engine
      PROVE  /\ g(e) \in Flags /\ g(e).ready = flag[e].ready
             /\ ~flag[e].ready => ~g(e).thinking
  BY <1>2, StartedFacts
<1>4. ASSUME NEW e \in Engine
      PROVE  /\ D(e) \in Seq(Command)
             /\ "go" \in ToSet(D(e)) <=> "go" \in ToSet(cmds[e]) \/ g(e).thinking
             /\ "isready" \in ToSet(D(e)) => "isready" \in ToSet(cmds[e])
             /\ "go" \notin ToSet(cmds[e]) => Once(D(e), "go")
  <2>1. /\ O(e) \in Seq(Command) /\ Once(O(e), "go") /\ "isready" \notin ToSet(O(e))
        /\ "go" \in ToSet(O(e)) <=> g(e).thinking
    <3>1. /\ O(e) \in Seq(Command) /\ Once(O(e), "go")
          /\ "isready" \notin ToSet(O(e))
          /\ "go" \in ToSet(O(e)) <=> g(e).thinking # flag[e].thinking
      BY <1>2, OrdersFacts
    <3>2. g(e).thinking \in BOOLEAN /\ flag[e].thinking = FALSE
      BY <1>2, <1>3 DEF Flags
    <3> HIDE DEF g, O
    <3> QED
      BY <3>1, <3>2
  <2>2. cmds[e] \in Seq(Command) /\ <<"weight">> \in Seq(Command)
    BY DEF IInv, TypeOK, Command
  <2> DEFINE B == cmds[e] \o <<"weight">>
  <2> HIDE DEF g, O
  <2>3. /\ B \in Seq(Command)
        /\ \A y : y \in ToSet(B) <=> y \in ToSet(cmds[e]) \/ y = "weight"
        /\ "go" \notin ToSet(cmds[e]) => Once(B, "go")
    <3>1. \A y : y \in ToSet(<<"weight">>) <=> y = "weight"
      BY SingleFacts
    <3>2. "go" \notin ToSet(cmds[e]) => Once(cmds[e], "go")
      BY DEF Once, ToSet
    <3> QED
      BY <2>2, <3>1, <3>2, SingleFacts, ConcatFacts
  <2>4. D(e) = B \o O(e)
    OBVIOUS
  <2> HIDE DEF B, D
  <2> QED
    BY <2>1, <2>3, <2>4, ConcatFacts
<1> HIDE DEF g, O, D
<1>5. /\ flag' \in [Engine -> Flags] /\ cmds' \in [Engine -> Seq(Command)]
      /\ \A e \in Engine : flag'[e] = g(e) /\ cmds'[e] = D(e)
  BY <1>1, <1>3, <1>4
<1>6. nthinking' = Cardinality(Thinking(flag')) /\ nthinking' \in 0 .. NEngine
  <2>1. {e \in Engine : Delta(flag[e], flag'[e]) = 1} = Thinking(flag')
    <3>1. ASSUME NEW e \in Engine
          PROVE  Delta(flag[e], flag'[e]) = 1 <=> flag'[e].thinking
      BY <1>2, <1>5 DEF Delta
    <3> QED
      BY <3>1 DEF Thinking
  <2>2. Cardinality(Thinking(flag')) \in Nat
        /\ Cardinality(Thinking(flag')) <= NEngine
    <3>1. Thinking(flag') \in SUBSET Engine
      BY DEF Thinking
    <3> QED
      BY <3>1, Finite, FS_Subset, FS_CardinalityType
  <2> QED
    BY <1>1, <2>1, <2>2, EngineAssumption DEF AtRest
<1>7. TypeOK'
  BY <1>1, <1>5, <1>6 DEF IInv, TypeOK, readers, Pc, Flags
<1>8. ReaderInv' /\ CountInv' /\ RoomInv'
  <2>1. ReaderInv' /\ RoomInv'
    BY <1>1 DEF IInv, ReaderInv, RoomInv, readers
  <2>2. CountInv'
    BY <1>1, <1>6 DEF IInv, CountInv, readers, Thinking
  <2> QED
    BY <2>1, <2>2
<1>9. PlayInv'
  <2>1. ASSUME NEW e \in Engine PROVE EngInv(e)'
    <3>1. EngInv(e) /\ ~Busy(e)
      BY <1>1, <1>2 DEF IInv, PlayInv, Playing, EngInv
    <3>2. /\ eng' = eng /\ pipe' = pipe /\ line' = line /\ flag'[e] = g(e)
          /\ cmds'[e] = D(e)
      BY <1>1, <1>5 DEF readers
    <3>3. /\ "go" \in ToSet(cmds'[e]) <=> g(e).thinking
          /\ "isready" \in ToSet(cmds'[e]) => "isready" \in ToSet(cmds[e])
          /\ Once(cmds'[e], "go")
      BY <1>4, <3>1, <3>2 DEF Busy
    <3> QED
      BY <1>3, <3>1, <3>2, <3>3 DEF EngInv, OneMove, Busy, Fresh, In
  <2> QED
    BY <2>1 DEF PlayInv
<1> QED
  BY <1>7, <1>8, <1>9 DEF IInv

LEMMA UpdateStep == ASSUME IInv, Update PROVE IInv'
<1>1. CASE wid # arg.net /\ AtRest
  BY <1>1, NewNetStep
<1>2. CASE ~(wid # arg.net /\ AtRest)
  <2>1. /\ pc = "update" /\ pc' = "loop" /\ at' \in Engine
        /\ UNCHANGED <<cmds, flag, nthinking, wid, nnet, eng, readers, snap, alive, arg>>
    BY <1>2, GotoFacts DEF Update
  <2>2. TypeOK'
    BY <2>1 DEF IInv, TypeOK, readers, Pc
  <2>3. ReaderInv' /\ CountInv' /\ RoomInv'
    BY <2>1, ReaderFrame, CountFrame DEF IInv, RoomInv, readers
  <2>4. ASSUME NEW d \in Engine PROVE EngInv(d)'
    BY <2>1, EngFrame DEF IInv, PlayInv, Playing, readers
  <2> QED
    BY <2>2, <2>3, <2>4 DEF IInv, PlayInv
<1> QED
  BY <1>1, <1>2

-----------------------------------------------------------------------------
(* end(). *)

LEMMA WaitStep == ASSUME IInv, Wait PROVE IInv'
<1>1. /\ snap' \in {snap, ready} /\ at' \in Engine
      /\ \/ pc' = "done"
         \/ pc' = "reap" /\ snap' = ready
      /\ UNCHANGED <<eng, cmds, readers, alive, flag, nthinking, wid, nnet, arg>>
  BY GotoFacts DEF Wait, Snapshot
<1>2. TypeOK'
  BY <1>1 DEF IInv, TypeOK, readers, Pc
<1>3. ReaderInv' /\ CountInv' /\ PlayInv' /\ RoomInv'
  BY <1>1, CountFrame
     DEF IInv, ReaderInv, PlayInv, Playing, RoomInv, readers
<1> QED
  BY <1>2, <1>3 DEF IInv

LEMMA ReapStep == ASSUME IInv, Reap PROVE IInv'
<1>1. /\ pc = "reap" /\ NextEngine("reap", "wait") /\ Used
      /\ UNCHANGED <<eng, cmds, flag, nthinking, wid, nnet, arg>>
  BY DEF Reap
<1>2. pc' \in {"reap", "wait"} /\ at' \in Engine
  BY <1>1, NextEngineFacts DEF IInv, Pc
<1>3. SUFFICES
        /\ line' \in [Stream -> Line \cup {NoLine}]
        /\ doread' \in [Stream -> BOOLEAN] /\ ready' \in [Stream -> BOOLEAN]
        /\ pipe' = pipe /\ nready' \in 0 .. MaxNumChild /\ alive' \subseteq Engine
        /\ nready' = Cardinality({s \in Stream : ready'[s]})
        /\ \A s \in Stream : /\ ready'[s] => ~doread'[s] /\ line'[s] \in Line
                             /\ doread'[s] => line'[s] = NoLine
        /\ \A s \in Stream \ Streams(at) : ready'[s] = ready[s]
  <2>1. /\ snap' \in [Stream -> BOOLEAN]
        /\ \A s \in Stream : snap'[s] => ready'[s]
    BY <1>1, <1>3, UsedFacts
  <2>2. TypeOK'
    BY <1>1, <1>2, <1>3, <2>1 DEF IInv, TypeOK, Pc
  <2>3. ReaderInv' /\ CountInv' /\ PlayInv' /\ RoomInv'
    BY <1>1, <1>2, <1>3, <2>1
       DEF IInv, ReaderInv, CountInv, PlayInv, Playing, RoomInv
  <2> QED
    BY <2>2, <2>3 DEF IInv
<1>4. CASE at \in alive /\ Ended(at)
  <2> DEFINE X == {s \in Streams(at) : ready[s]}
  <2>1. /\ alive' = alive \ {at} /\ UNCHANGED <<pipe, line, doread>>
        /\ ready' = [s \in Stream |-> ready[s] /\ s \notin Streams(at)]
        /\ nready' = Fewer(X)
    BY <1>4 DEF Reap
  <2>2. X \in SUBSET Raised /\ Raised' = Raised \ X
    BY <2>1, StreamFacts DEF IInv, TypeOK, Raised
  <2>3. nready' = Cardinality(Raised') /\ nready' \in 0 .. MaxNumChild
    BY <2>1, <2>2, FewerFacts
  <2> QED
    BY <2>1, <2>3 DEF IInv, TypeOK, ReaderInv, Raised
<1>5. CASE ~(at \in alive /\ Ended(at))
  <2> DEFINE S == IF at \in alive THEN Offered(at) ELSE {}
  <2>1. TakeLines(S) /\ UNCHANGED alive
    BY <1>5 DEF Reap
  <2>2. S \in SUBSET Raised /\ S \subseteq Streams(at)
    BY <1>1, OfferedFacts
  <2> HIDE DEF S
  <2> QED
    BY <2>1, <2>2, TakeFacts DEF IInv, TypeOK
<1> QED
  BY <1>4, <1>5

-----------------------------------------------------------------------------
LEMMA NextStep == ASSUME IInv, [Next]_vars PROVE IInv'
<1>1. CASE Next
  <2>1. ASSUME NEW e \in Engine, Obey(e) \/ Move(e) \/ Die(e) PROVE IInv'
    BY <2>1, ObeyStep, MoveStep, DieStep
  <2>2. ASSUME NEW s \in Stream, Offer(s) PROVE IInv'
    BY <2>2, OfferStep
  <2>3. ASSUME Turn PROVE IInv'
    BY <2>3, TurnEndStep, TurnLineStep, TurnNoneStep DEF Turn
  <2>4. ASSUME Main PROVE IInv'
    BY <2>3, <2>4, RoundStep, QuitStep, DrainStep, UpdateStep, WaitStep, ReapStep
       DEF Main
  <2>5. CASE Stopped
    <3>1. UNCHANGED vars
      BY <2>5 DEF Stopped
    <3> QED
      BY <3>1 DEF vars, readers, main, IInv, TypeOK, ReaderInv, CountInv, PlayInv,
                  Playing, EngInv, OneMove, Fresh, Busy, RoomInv
  <2> QED
    BY <1>1, <2>1, <2>2, <2>4, <2>5 DEF Next
<1>2. CASE UNCHANGED vars
  BY <1>2 DEF vars, readers, main, IInv, TypeOK, ReaderInv, CountInv, PlayInv,
              Playing, EngInv, OneMove, Fresh, Busy, RoomInv
<1> QED
  BY <1>1, <1>2

LEMMA Invariance == Spec => []IInv
BY InitInv, NextStep, PTL DEF Spec

(* While the client plays, _num_thinking is the number of engines whose    *)
(* flag says that they think, and an engine's flag says so exactly when it *)
(* was told to, is thinking, or has written a move that nobody has taken:  *)
(* whatever number of engines there are, however far the readers and the   *)
(* orders lag behind, and whichever engines die (play.cpp:649-683).        *)
THEOREM CountedThinkers == Spec => []ThinkingExact
<1>1. ASSUME IInv PROVE ThinkingExact
  <2>1. ASSUME Playing, NEW e \in Engine, eng[e] # "gone"
        PROVE  flag[e].thinking = Busy(e)
    <3>1. flag[e].thinking <=> Busy(e)
      BY <1>1, <2>1 DEF IInv, PlayInv, EngInv
    <3>2. flag[e].thinking \in BOOLEAN /\ Busy(e) \in BOOLEAN
      BY <1>1 DEF IInv, TypeOK, Busy
    <3> QED
      BY <3>1, <3>2
  <2> QED
    BY <1>1, <2>1 DEF IInv, CountInv, Playing, ThinkingExact
<1> QED
  BY <1>1, Invariance, PTL

(* As long as the flags the table counts (maxnum_child, 1024) are enough   *)
(* for the two streams of every engine, none of the tests for a case that  *)
(* cannot be ends the client: no reader finds its flag raised or the table *)
(* full (child.cpp:55-57, 93-94), and no engine is taken to answer before  *)
(* it is ready, or to move when nobody asked it to (play.cpp:417-421).     *)
(* Child::open() refuses the client's engines at twice that number only    *)
(* (child.cpp:191), which is why the hypothesis is needed.                 *)
THEOREM NoFalseAlarm ==
  ASSUME 2 * NEngine <= MaxNumChild
  PROVE  Spec => []NoInternalError
<1>1. IInv => NoInternalError
  BY DEF IInv, CountInv, RoomInv, NoInternalError
<1> QED
  BY <1>1, Invariance, PTL

(* Whatever the room, the table's counter is the number of raised flags.   *)
THEOREM CountedFlags ==
  Spec => [](nready = Cardinality({s \in Stream : ready[s]}))
<1>1. IInv => nready = Cardinality({s \in Stream : ready[s]})
  BY DEF IInv, CountInv
<1> QED
  BY <1>1, Invariance, PTL
=============================================================================
