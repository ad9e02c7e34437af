-------------------------- MODULE Delivery_proofs --------------------------
(***************************************************************************)
(* Proofs about the delivery of records, for any number of clients,        *)
(* records, connections, peers, retries and faults.                        *)
(*                                                                         *)
(* The inductive invariant says where the records of a client are          *)
(* (ClientInv), that whatever has come over a connection so far is the     *)
(* beginning of one record, at whatever point it broke and whoever used    *)
(* the peer before (LineInv, WireInv, OwnerInv), that a record that was    *)
(* sent is in one place until it is stored, hit or refused (PlaceInv,      *)
(* SizeInv, SentInv), and that one that was not is still with its client,  *)
(* unless that has to end (KeptInv).                                       *)
(***************************************************************************)
EXTENDS Delivery, SequenceTheorems, TLAPS

HeadOf(r) == [rec |-> r, part |-> "head"]
BodyOf(r) == [rec |-> r, part |-> "body"]

Once(s) == \A i, j \in DOMAIN s : s[i] = s[j] => i = j

(* The records of a client are its own, and not sent yet. *)
Fresh(c, r) == /\ r.by = c /\ r \in made
               /\ r \notin sent /\ r \notin discarded

OwnInv(c) ==
  /\ \A r \in ToSet(queue[c]) : Fresh(c, r)
  /\ Once(queue[c])
  /\ hand[c] = NoRec <=> pc[c] \in {"pop", "done"}
  /\ hand[c] # NoRec => Fresh(c, hand[c]) /\ hand[c] \notin ToSet(queue[c])
  /\ mine[c] = NoConn <=> pc[c] \in {"pop", "try", "done"}

ClientInv ==
  /\ \A c \in Client : OwnInv(c)
  /\ (sent \cup discarded) \subseteq made
  /\ sent \cap discarded = {}

(* A record that is gone without a trace was dropped by a client's end. *)
KeptInv ==
  \A r \in made : r \in sent \/ r \in discarded \/ r \in Waiting \/ quit[r.by]

(* Who uses a connection. *)
LineOK(x) ==
  /\ x.stat = "none" => x = NoLine
  /\ x.stat = "backlog" => x.wire = <<>> /\ ~x.header
  /\ x.stat = "dead" => x.wire = <<>> /\ ~x.eof

LineInv ==
  /\ \A k \in Conn :
       /\ LineOK(conn[k])
       /\ conn[k].stat = "open" <=> \E s \in Slot : slot[s] = k
       /\ (\E c \in Client : mine[c] = k) <=> conn[k].stat # "none" /\ ~conn[k].eof
  /\ \A c, d \in Client : mine[c] = mine[d] /\ mine[c] # NoConn => c = d
  /\ \A s, t \in Slot : slot[s] = slot[t] /\ slot[s] # NoConn => s = t

(* What a peer has received and what is on the way to it are the beginning *)
(* of one record.                                                          *)
Rest(b, w) ==
  \/ b = <<>> /\ w = <<>>
  \/ \E r \in Record :
       \/ b = <<>> /\ w = <<HeadOf(r)>>
       \/ b = <<>> /\ w = <<HeadOf(r), BodyOf(r)>>
       \/ b = <<HeadOf(r)>> /\ w = <<>>
       \/ b = <<HeadOf(r)>> /\ w = <<BodyOf(r)>>

WireInv ==
  /\ \A s \in Slot : buf[s] = <<>> \/ \E r \in Record : buf[s] = <<HeadOf(r)>>
  /\ \A s \in Slot : slot[s] # NoConn => Rest(buf[s], conn[slot[s]].wire)

(* How far the sender has come. *)
Begun(c, b, w) ==
  IF pc[c] = "body"
  THEN \/ b = <<>> /\ w = <<HeadOf(hand[c])>>
       \/ b = <<HeadOf(hand[c])>> /\ w = <<>>
  ELSE b = <<>> /\ w = <<>>

OwnerInv ==
  \A c \in Client :
    /\ pc[c] \in {"head", "body"} => conn[mine[c]].header
    /\ \A s \in Slot : mine[c] # NoConn /\ slot[s] = mine[c] =>
         Begun(c, buf[s], conn[mine[c]].wire)

(* Where a record is that was sent. *)
Wire(k) == Bodies(conn[k].wire)
Wires   == UNION {Wire(k) : k \in Conn}

PlaceInv ==
  /\ pend # Garbage /\ work # Garbage /\ Garbage \notin ToSet(squeue)
  /\ Once(squeue)
  /\ \A j, k \in Conn : j # k => Wire(j) \cap Wire(k) = {}
  /\ \A r \in Record :
       /\ r \in Wires => /\ r # pend /\ r # work
                         /\ r \notin ToSet(squeue) /\ r \notin ToSet(log)
       /\ r = pend => /\ r # work
                      /\ r \notin ToSet(squeue) /\ r \notin ToSet(log)
       /\ r = work => r \notin ToSet(squeue) /\ r \notin ToSet(log)
       /\ r \in ToSet(squeue) => r \notin ToSet(log)

(* What is too large never gets past the parser of a peer. *)
SizeInv ==
  pend \notin TooLarge /\ work \notin TooLarge /\ ToSet(squeue) \cap TooLarge = {}

Under == Wires \cup Held(pend) \cup Held(work) \cup ToSet(squeue)

SentInv ==
  /\ Under \cup ToSet(log) \subseteq sent
  /\ sent \subseteq Under \cup ToSet(log) \cup hit \cup Refused
  /\ known \subseteq ToSet(log)

(* The inductive invariant. *)
IInv == /\ TypeOK /\ ClientInv /\ KeptInv /\ LineInv /\ WireInv /\ OwnerInv
        /\ PlaceInv /\ SizeInv /\ SentInv

-----------------------------------------------------------------------------
(* Sequences, chunks and records. *)

LEMMA EmptySequence ==
  ToSet(<<>>) = {} /\ Once(<<>>) /\ Bodies(<<>>) = {}
BY DEF ToSet, Once, Bodies

LEMMA AppendSet ==
  ASSUME NEW T, NEW s \in Seq(T), NEW x \in T
  PROVE  /\ Append(s, x) \in Seq(T) /\ Len(Append(s, x)) = Len(s) + 1
         /\ ToSet(Append(s, x)) = ToSet(s) \cup {x}
         /\ Once(s) /\ x \notin ToSet(s) => Once(Append(s, x))
<1> DEFINE t == Append(s, x)
           n == Len(s)
<1>1. /\ t \in Seq(T) /\ Len(t) = n + 1
      /\ \A k \in 1 .. n : t[k] = s[k]
      /\ t[n + 1] = x
  OBVIOUS
<1>2. n \in Nat /\ DOMAIN s = 1 .. n /\ DOMAIN t = 1 .. n + 1
  BY <1>1, LenProperties
<1> HIDE DEF t, n
<1>3. /\ \A k \in 1 .. n + 1 : k \in 1 .. n \/ k = n + 1
      /\ \A k \in 1 .. n : k \in 1 .. n + 1
      /\ n + 1 \in 1 .. n + 1
  BY <1>2
<1>4. ToSet(t) = ToSet(s) \cup {x}
  <2>1. ASSUME NEW y \in ToSet(t) PROVE y \in ToSet(s) \cup {x}
    BY <1>1, <1>2, <1>3, <2>1 DEF ToSet
  <2>2. ASSUME NEW y \in ToSet(s) \cup {x} PROVE y \in ToSet(t)
    BY <1>1, <1>2, <1>3, <2>2 DEF ToSet
  <2> QED
    BY <2>1, <2>2
<1>5. ASSUME Once(s), x \notin ToSet(s) PROVE Once(t)
  <2>1. \A k \in 1 .. n : s[k] # x
    BY <1>2, <1>5 DEF ToSet
  <2>2. ASSUME NEW j \in 1 .. n + 1, NEW k \in 1 .. n + 1, t[j] = t[k]
        PROVE  j = k
    BY <1>1, <1>2, <1>3, <1>5, <2>1, <2>2 DEF Once
  <2> QED
    BY <1>2, <2>2 DEF Once
<1> QED
  BY <1>1, <1>4, <1>5 DEF t, n

LEMMA FrontSet ==
  ASSUME NEW T, NEW s \in Seq(T), s # <<>>
  PROVE  /\ Last(s) \in T /\ Front(s) \in Seq(T) /\ Len(Front(s)) = Len(s) - 1
         /\ ToSet(s) = ToSet(Front(s)) \cup {Last(s)}
         /\ Once(s) => Once(Front(s)) /\ Last(s) \notin ToSet(Front(s))
<1> DEFINE t == SubSeq(s, 1, Len(s) - 1)
           n == Len(s)
<1>1. n \in Nat /\ n > 0 /\ DOMAIN s = 1 .. n /\ \A k \in 1 .. n : s[k] \in T
  BY LenProperties, EmptySeq
<1>2. /\ t \in Seq(T) /\ Len(t) = n - 1 /\ DOMAIN t = 1 .. n - 1
      /\ \A k \in 1 .. n - 1 : t[k] = s[k]
  BY <1>1
<1>3. Front(s) = t /\ Last(s) = s[n]
  BY DEF Front, Last
<1> HIDE DEF t, n
<1>4. /\ \A k \in 1 .. n : k \in 1 .. n - 1 \/ k = n
      /\ \A k \in 1 .. n - 1 : k \in 1 .. n /\ k # n
      /\ n \in 1 .. n
  BY <1>1
<1>5. ToSet(s) = ToSet(t) \cup {s[n]}
  <2>1. ASSUME NEW y \in ToSet(s) PROVE y \in ToSet(t) \cup {s[n]}
    BY <1>1, <1>2, <1>4, <2>1 DEF ToSet
  <2>2. ASSUME NEW y \in ToSet(t) \cup {s[n]} PROVE y \in ToSet(s)
    BY <1>1, <1>2, <1>4, <2>2 DEF ToSet
  <2> QED
    BY <2>1, <2>2
<1>6. ASSUME Once(s) PROVE Once(t) /\ s[n] \notin ToSet(t)
  <2>1. ASSUME NEW j \in 1 .. n - 1, NEW k \in 1 .. n - 1, t[j] = t[k]
        PROVE  j = k
    BY <1>1, <1>2, <1>4, <1>6, <2>1 DEF Once
  <2>2. ASSUME NEW k \in 1 .. n - 1, t[k] = s[n] PROVE FALSE
    BY <1>1, <1>2, <1>4, <1>6, <2>2 DEF Once
  <2> QED
    BY <1>2, <2>1, <2>2 DEF Once, ToSet
<1> QED
  BY <1>1, <1>2, <1>3, <1>4, <1>5, <1>6

(* The two records that are none are none. *)
LEMMA RecordForm ==
  /\ NoRec \notin Record /\ Garbage \notin Record /\ NoRec # Garbage
  /\ NoRec \notin TooLarge /\ TooLarge \subseteq Record /\ Unfit \subseteq Record
<1>1. NoRec.by = "none" /\ Garbage.by = "garbage"
  BY DEF NoRec, Garbage
<1> QED
  BY <1>1, RecordAssumption, RefusedAssumption

(* Sequences of one or two elements. *)
LEMMA Pairs ==
  ASSUME NEW x, NEW y
  PROVE  /\ Append(<<>>, x) = <<x>> /\ Append(<<x>>, y) = <<x, y>>
         /\ Len(<<x>>) = 1 /\ Len(<<x, y>>) = 2
         /\ <<x>>[1] = x /\ <<x, y>>[1] = x /\ <<x, y>>[2] = y
         /\ Head(<<x>>) = x /\ Head(<<x, y>>) = x
         /\ Tail(<<x>>) = <<>> /\ Tail(<<x, y>>) = <<y>>
         /\ SubSeq(<<x, y>>, 3, 2) = <<>>
         /\ <<x>> # <<>> /\ <<x, y>> # <<>> /\ <<x>> # <<x, y>>
<1> DEFINE s == Append(<<x>>, y)
           t == <<x, y>>
<1>1. <<x>> \in Seq({x, y}) /\ t \in Seq({x, y}) /\ Len(<<x>>) = 1 /\ <<x>>[1] = x
  OBVIOUS
<1>2. s \in Seq({x, y}) /\ Len(s) = 2 /\ s[1] = x /\ s[2] = y
  BY <1>1, AppendProperties
<1>3. Len(t) = 2 /\ t[1] = x /\ t[2] = y
  OBVIOUS
<1>4. s = t
  <2> HIDE DEF s, t
  <2>1. \A i \in 1 .. Len(s) : s[i] = t[i]
    BY <1>2, <1>3
  <2> QED
    BY <1>1, <1>2, <1>3, <2>1, SeqEqual
<1>5. Append(<<>>, x) = <<x>>
  OBVIOUS
<1>6. Tail(<<x>>) = <<>> /\ Tail(<<x, y>>) = <<y>> /\ SubSeq(<<x, y>>, 3, 2) = <<>>
  OBVIOUS
<1>7. Len(<<x, y>>) = 2 /\ <<x, y>>[1] = x /\ <<x, y>>[2] = y
      /\ Head(<<x>>) = x /\ Head(<<x, y>>) = x
  OBVIOUS
<1>8. <<x>> # <<>> /\ <<x, y>> # <<>> /\ <<x>> # <<x, y>>
  OBVIOUS
<1> QED
  BY <1>1, <1>4, <1>5, <1>6, <1>7, <1>8

(* The chunks of one record. *)
LEMMA OneRecord ==
  ASSUME NEW r \in Record
  PROVE  /\ HeadOf(r) \in Chunk /\ BodyOf(r) \in Chunk
         /\ HeadOf(r).part = "head" /\ BodyOf(r).part = "body"
         /\ HeadOf(r).rec = r /\ BodyOf(r).rec = r
         /\ Bodies(<<>>) = {} /\ Bodies(<<HeadOf(r)>>) = {}
         /\ Bodies(<<BodyOf(r)>>) = {r} /\ Bodies(<<HeadOf(r), BodyOf(r)>>) = {r}
<1>1. /\ HeadOf(r) \in Chunk /\ BodyOf(r) \in Chunk
      /\ HeadOf(r).part = "head" /\ BodyOf(r).part = "body"
      /\ HeadOf(r).rec = r /\ BodyOf(r).rec = r
  BY DEF HeadOf, BodyOf, Chunk
<1>2. /\ ToSet(<<HeadOf(r)>>) = {HeadOf(r)}
      /\ ToSet(<<BodyOf(r)>>) = {BodyOf(r)}
      /\ ToSet(<<HeadOf(r), BodyOf(r)>>) = {HeadOf(r), BodyOf(r)}
  BY DEF ToSet
<1> QED
  BY <1>1, <1>2, EmptySequence DEF Bodies

-----------------------------------------------------------------------------
(* What the steps do. *)

(* The parser of a peer gets the head of a record, or its body. *)
RecvHead(s, r) ==
  /\ buf[s] = <<>>
  /\ \/ /\ conn[slot[s]].wire = <<HeadOf(r)>>
        /\ conn' = [conn EXCEPT ![slot[s]].wire = <<>>]
     \/ /\ conn[slot[s]].wire = <<HeadOf(r), BodyOf(r)>>
        /\ conn' = [conn EXCEPT ![slot[s]].wire = <<BodyOf(r)>>]
  /\ buf' = [buf EXCEPT ![s] = <<HeadOf(r)>>]
  /\ UNCHANGED <<slot, pend, hit>>

RecvBody(s, r) ==
  /\ r \notin TooLarge /\ UNCHANGED slot
  /\ buf[s] = <<HeadOf(r)>> /\ conn[slot[s]].wire = <<BodyOf(r)>>
  /\ conn' = [conn EXCEPT ![slot[s]].wire = <<>>]
  /\ buf' = [buf EXCEPT ![s] = <<>>]
  /\ \/ pend' = r /\ UNCHANGED hit
     \/ hit' = hit \cup {r} /\ UNCHANGED pend

(* A record that is announced too large ends the connection. *)
RecvBreak(s, r) ==
  /\ r \in TooLarge /\ Bodies(conn[slot[s]].wire) \subseteq {r}
  /\ Clear(s) /\ UNCHANGED <<buf, pend, hit>>

(* It never gets anything else: no record is garbage, no body comes first. *)
LEMMA RecvCases ==
  ASSUME TypeOK, WireInv, NEW s \in Slot, HandleRecv(s)
  PROVE  /\ slot[s] \in Conn /\ slot[s] # NoConn /\ pend = NoRec
         /\ UNCHANGED <<client, spc, squeue, work, known, log, faults>>
         /\ \E r \in Record : RecvHead(s, r) \/ RecvBody(s, r) \/ RecvBreak(s, r)
<1>1. /\ slot[s] \in Conn /\ slot[s] # NoConn /\ pend = NoRec
      /\ conn[slot[s]].wire # <<>>
      /\ UNCHANGED <<client, spc, squeue, work, known, log, faults>>
  BY DEF HandleRecv, Listening, TypeOK
<1> DEFINE k == slot[s]
           w == conn[k].wire
           b == Append(buf[s], Head(w))
<1>2. Rest(buf[s], w)
  BY <1>1 DEF WireInv
<1>3. PICK r \in Record :
        \/ buf[s] = <<>> /\ w = <<HeadOf(r)>>
        \/ buf[s] = <<>> /\ w = <<HeadOf(r), BodyOf(r)>>
        \/ buf[s] = <<HeadOf(r)>> /\ w = <<BodyOf(r)>>
  BY <1>1, <1>2 DEF Rest
<1> DEFINE h == HeadOf(r)
           d == BodyOf(r)
<1>6. /\ Append(<<>>, h) = <<h>> /\ Append(<<h>>, d) = <<h, d>>
      /\ Len(<<h>>) = 1 /\ Len(<<h, d>>) = 2
      /\ <<h>>[1] = h /\ <<h, d>>[1] = h /\ <<h, d>>[2] = d
      /\ Head(<<h>>) = h /\ Head(<<h, d>>) = h /\ Head(<<d>>) = d
      /\ Tail(<<h>>) = <<>> /\ Tail(<<h, d>>) = <<d>> /\ Tail(<<d>>) = <<>>
      /\ SubSeq(<<h, d>>, 3, 2) = <<>> /\ <<h>> # <<>>
  BY Pairs
<1>4. CASE buf[s] = <<>>
  <2>0. w = <<h>> \/ w = <<h, d>>
    BY <1>3, <1>4, <1>6
  <2>1. b = <<HeadOf(r)>> /\ Len(b) = 1 /\ b[1].part = "head"
    <3>1. Head(w) = h
      BY <1>6, <2>0
    <3>2. b = <<h>>
      BY <1>4, <1>6, <3>1
    <3>3. h.part = "head"
      BY OneRecord
    <3> HIDE DEF b, h
    <3>4. Len(b) = 1 /\ b[1].part = "head"
      BY <1>6, <3>2, <3>3
    <3> QED
      BY <3>2, <3>4 DEF h
  <2>2. \/ /\ conn' = [conn EXCEPT ![k].wire = Tail(@)]
           /\ buf' = [buf EXCEPT ![s] = b]
           /\ UNCHANGED <<slot, pend, hit>>
        \/ Breaks(b) /\ Clear(s) /\ UNCHANGED <<buf, pend, hit>>
    <3> HIDE DEF b
    <3>1. Len(b) < 2 /\ ~ (Len(b) > 1)
      BY <2>1
    <3> QED
      BY <3>1 DEF HandleRecv, b, k
  <2>3. \/ w = <<HeadOf(r)>> /\ Tail(w) = <<>>
        \/ w = <<HeadOf(r), BodyOf(r)>> /\ Tail(w) = <<BodyOf(r)>>
    BY <1>6, <2>0
  <2>4. ASSUME Breaks(b), Clear(s), UNCHANGED <<buf, pend, hit>>
        PROVE  RecvBreak(s, r)
    <3>1. Bodies(w) \subseteq {r}
      <4>1. Bodies(<<h>>) = {} /\ Bodies(<<h, d>>) = {r}
        BY OneRecord
      <4> HIDE DEF h, d, w
      <4> QED
        BY <2>0, <4>1
    <3>2. b[1] = h /\ h.part = "head" /\ h.rec = r
      BY <1>6, <2>1, OneRecord
    <3> HIDE DEF b, h, w
    <3>3. r \in TooLarge
      BY <2>4, <3>2 DEF Breaks
    <3> QED
      BY <2>4, <3>1, <3>3 DEF RecvBreak, w, k
  <2>5. ASSUME conn' = [conn EXCEPT ![k].wire = Tail(@)],
               buf' = [buf EXCEPT ![s] = b], UNCHANGED <<slot, pend, hit>>
        PROVE  RecvHead(s, r)
    BY <1>4, <2>1, <2>3, <2>5 DEF RecvHead
  <2> QED
    BY <1>1, <2>2, <2>4, <2>5
<1>5. CASE buf[s] # <<>>
  <2>1. buf[s] = <<HeadOf(r)>> /\ w = <<BodyOf(r)>> /\ Head(w) = BodyOf(r)
        /\ Tail(w) = <<>>
    BY <1>3, <1>5, <1>6
  <2>2. /\ b = <<HeadOf(r), BodyOf(r)>> /\ Len(b) = 2
        /\ b[1] = HeadOf(r) /\ b[2] = BodyOf(r) /\ SubSeq(b, 3, Len(b)) = <<>>
    BY <2>1, <1>6
  <2>3. b[1].part # "body" /\ b[1].rec = r /\ b[2] = [rec |-> r, part |-> "body"]
        /\ Bodies(b) = {r}
    BY <2>2, OneRecord DEF BodyOf
  <2>4. Parsed(b) = r
    BY <2>3 DEF Parsed
  <2>5. \/ /\ ~Breaks(b)
           /\ conn' = [conn EXCEPT ![k].wire = Tail(@)]
           /\ buf' = [buf EXCEPT ![s] = <<>>]
           /\ UNCHANGED slot
           /\ \/ pend' = Parsed(b) /\ UNCHANGED hit
              \/ hit' = hit \cup Bodies(b) /\ UNCHANGED pend
        \/ Breaks(b) /\ Clear(s) /\ UNCHANGED <<buf, pend, hit>>
    <3>1. Len(b) > 1 /\ ~ (Len(b) < 2)
      BY <2>2
    <3>2. SubSeq(b, 3, Len(b)) = <<>>
      BY <2>2
    <3> HIDE DEF b
    <3> QED
      BY <3>1, <3>2 DEF HandleRecv, b, k
  <2>6. Breaks(b) <=> r \in TooLarge
    <3> HIDE DEF b
    <3> QED
      BY <2>3 DEF Breaks
  <2>7. ASSUME r \notin TooLarge, conn' = [conn EXCEPT ![k].wire = Tail(@)],
               buf' = [buf EXCEPT ![s] = <<>>], UNCHANGED slot,
               \/ pend' = Parsed(b) /\ UNCHANGED hit
               \/ hit' = hit \cup Bodies(b) /\ UNCHANGED pend
        PROVE  RecvBody(s, r)
    <3>1. conn' = [conn EXCEPT ![k].wire = <<>>]
      BY <2>1, <2>7
    <3> HIDE DEF b
    <3> QED
      BY <2>1, <2>3, <2>4, <2>7, <3>1 DEF RecvBody
  <2>8. ASSUME r \in TooLarge, Clear(s), UNCHANGED <<buf, pend, hit>>
        PROVE  RecvBreak(s, r)
    <3>1. Bodies(w) \subseteq {r}
      BY <2>1, OneRecord
    <3> HIDE DEF w
    <3> QED
      BY <2>8, <3>1 DEF RecvBreak, w, k
  <2> HIDE DEF b
  <2> QED
    BY <1>1, <2>5, <2>6, <2>7, <2>8
<1> QED
  BY <1>4, <1>5

LEMMA CutLine ==
  ASSUME NEW line \in Line
  PROVE  /\ NoLine \in Line /\ Cut(line) \in Line
         /\ Cut(line).wire = <<>>
         /\ Cut(line).stat \in {"none", "dead"}
         /\ Cut(line).stat = "none" => Cut(line) = NoLine
         /\ Cut(line).stat = "dead" => ~Cut(line).eof
         /\ Cut(line).stat # "none" <=> line.stat # "none" /\ ~line.eof
         /\ Cut(line).header => line.header
         /\ Cut(line).stat = "dead" => Cut(line).header = line.header
<1>1. NoLine \in Line /\ NoLine.wire = <<>> /\ NoLine.stat = "none"
      /\ ~NoLine.header /\ ~NoLine.eof
  BY DEF NoLine, Line
<1>2. CASE line.stat = "none" \/ line.eof
  BY <1>1, <1>2 DEF Cut
<1>3. CASE ~ (line.stat = "none" \/ line.eof)
  <2>1. Cut(line) = [line EXCEPT !.stat = "dead", !.wire = <<>>]
    BY <1>3 DEF Cut
  <2>2. <<>> \in Seq(Chunk)
    OBVIOUS
  <2>3. /\ Cut(line) \in Line /\ Cut(line).stat = "dead" /\ Cut(line).wire = <<>>
        /\ Cut(line).eof = line.eof /\ Cut(line).header = line.header
    BY <2>1, <2>2 DEF Line
  <2> QED
    BY <1>1, <1>3, <2>3
<1> QED
  BY <1>2, <1>3

(* The end of a process leaves the wires and the peers empty. *)
LEMMA DownCases ==
  ASSUME TypeOK, Down
  PROVE  /\ conn' \in [Conn -> Line]
         /\ \A k \in Conn : conn'[k] = Cut(conn[k])
         /\ \A s \in Slot : slot'[s] = NoConn /\ buf'[s] = <<>>
         /\ slot' \in [Slot -> Conn \cup {NoConn}] /\ buf' \in [Slot -> Seq(Chunk)]
         /\ UNCHANGED <<client, log>>
<1>1. \A k \in Conn : conn[k] \in Line /\ Cut(conn[k]) \in Line
  BY CutLine DEF TypeOK
<1>2. <<>> \in Seq(Chunk)
  OBVIOUS
<1> QED
  BY <1>1, <1>2 DEF Down

-----------------------------------------------------------------------------
(* Types. *)

LEMMA ConnForm ==
  /\ MaxConn \in Nat /\ Conn \subseteq Nat /\ NoConn \notin Conn
  /\ \A k \in Conn : \A j \in 1 .. k - 1 : j \in Conn
  /\ Slot \subseteq Nat
BY BoundAssumption DEF Conn, NoConn, Slot

(* One connection changes. *)
LEMMA SetLine ==
  ASSUME conn \in [Conn -> Line], NEW k \in Conn, NEW x \in Line,
         conn' = [conn EXCEPT ![k] = x]
  PROVE  /\ conn' \in [Conn -> Line] /\ conn'[k] = x
         /\ \A j \in Conn : j # k => conn'[j] = conn[j]
OBVIOUS

(* What the client's steps do to its connection. *)
LEMMA PutLine ==
  ASSUME NEW line \in Line, NEW r \in Record, NEW c \in Client, hand[c] = r,
         NEW part \in {"head", "body"}
  PROVE  /\ Put(line, part, c) \in Line
         /\ line.stat = "dead" => Put(line, part, c) = line
         /\ line.stat # "dead" =>
              /\ Put(line, part, c).stat = line.stat
              /\ Put(line, part, c).eof = line.eof
              /\ Put(line, part, c).header = line.header
              /\ Put(line, part, c).wire = Append(line.wire, [rec |-> r, part |-> part])
<1>1. [rec |-> r, part |-> part] \in Chunk
  BY DEF Chunk
<1>2. line.wire \in Seq(Chunk)
  BY DEF Line
<1>3. Append(line.wire, [rec |-> r, part |-> part]) \in Seq(Chunk)
  BY <1>1, <1>2
<1> DEFINE w == Append(line.wire, [rec |-> r, part |-> part])
<1> HIDE DEF w
<1>4. Put(line, part, c) = IF line.stat = "dead" THEN line
                           ELSE [line EXCEPT !.wire = w]
  BY DEF Put, w
<1>5. CASE line.stat = "dead"
  BY <1>4, <1>5
<1>6. CASE line.stat # "dead"
  <2>1. Put(line, part, c) = [line EXCEPT !.wire = w]
    BY <1>4, <1>6
  <2> QED
    BY <1>3, <1>6, <2>1 DEF Line, w
<1> QED
  BY <1>5, <1>6

(* The client's end is closed. *)
LEMMA CloseLine ==
  ASSUME conn \in [Conn -> Line], NEW k \in Conn, ClientCloses(k)
  PROVE  /\ conn' \in [Conn -> Line]
         /\ \A j \in Conn : j # k => conn'[j] = conn[j]
         /\ conn[k].stat = "dead" => conn'[k] = NoLine
         /\ conn[k].stat # "dead" =>
              /\ conn'[k].stat = conn[k].stat /\ conn'[k].wire = conn[k].wire
              /\ conn'[k].header = conn[k].header /\ conn'[k].eof
<1> DEFINE x == IF conn[k].stat = "dead" THEN NoLine
                ELSE [conn[k] EXCEPT !.eof = TRUE]
<1>1. conn' = [conn EXCEPT ![k] = x]
  BY DEF ClientCloses
<1>2. NoLine \in Line
  BY CutLine
<1>3. x \in Line
  BY <1>2 DEF Line
<1>4. conn' \in [Conn -> Line] /\ conn'[k] = x /\ \A j \in Conn : j # k => conn'[j] = conn[j]
  <2> HIDE DEF x
  <2> QED
    BY <1>1, <1>3
<1>5. conn[k] \in Line
  OBVIOUS
<1>6. CASE conn[k].stat = "dead"
  BY <1>4, <1>6
<1>7. CASE conn[k].stat # "dead"
  <2>1. conn'[k] = [conn[k] EXCEPT !.eof = TRUE]
    BY <1>4, <1>7
  <2> QED
    BY <1>4, <1>5, <1>7, <2>1 DEF Line
<1> QED
  BY <1>6, <1>7

(* The record in hand. *)
LEMMA InHand ==
  ASSUME TypeOK, ClientInv, NEW c \in Client, pc[c] \notin {"pop", "done"}
  PROVE  hand[c] \in Record /\ hand[c] # NoRec /\ Fresh(c, hand[c])
BY DEF TypeOK, ClientInv, OwnInv

LEMMA MyLine ==
  ASSUME TypeOK, ClientInv, NEW c \in Client, pc[c] \in {"header", "head", "body"}
  PROVE  mine[c] \in Conn /\ mine[c] # NoConn /\ conn[mine[c]] \in Line
BY DEF TypeOK, ClientInv, OwnInv

(* The whole of SendBody: the connection is closed behind the body. *)
LEMMA SendBodyCases ==
  ASSUME IInv, NEW c \in Client, SendBody(c)
  PROVE  LET k == mine[c] IN
         /\ k \in Conn /\ hand[c] \in Record
         /\ conn' \in [Conn -> Line]
         /\ \A j \in Conn : j # k => conn'[j] = conn[j]
         /\ conn[k].stat = "dead" => conn'[k] = NoLine /\ hit' = hit \cup {hand[c]}
         /\ conn[k].stat # "dead" =>
              /\ conn'[k].stat = conn[k].stat /\ conn'[k].eof
              /\ conn'[k].header = conn[k].header
              /\ conn'[k].wire = Append(conn[k].wire, BodyOf(hand[c]))
              /\ UNCHANGED hit
<1> DEFINE k == mine[c]
           line == Put(conn[k], "body", c)
           x == IF line.stat = "dead" THEN NoLine ELSE [line EXCEPT !.eof = TRUE]
<1>1. pc[c] = "body" /\ conn' = [conn EXCEPT ![k] = x]
      /\ hit' = IF conn[k].stat = "dead" THEN hit \cup {hand[c]} ELSE hit
  BY DEF SendBody
<1>2. k \in Conn /\ conn[k] \in Line /\ hand[c] \in Record
  BY <1>1, InHand, MyLine DEF IInv
<1>3. /\ line \in Line
      /\ conn[k].stat = "dead" => line = conn[k]
      /\ conn[k].stat # "dead" =>
           /\ line.stat = conn[k].stat /\ line.eof = conn[k].eof
           /\ line.header = conn[k].header
           /\ line.wire = Append(conn[k].wire, BodyOf(hand[c]))
  BY <1>2, PutLine DEF BodyOf
<1> HIDE DEF line
<1>4. NoLine \in Line
  BY <1>2, CutLine
<1>5. x \in Line
  BY <1>3, <1>4 DEF Line
<1>6. /\ conn' \in [Conn -> Line] /\ conn'[k] = x
      /\ \A j \in Conn : j # k => conn'[j] = conn[j]
  <2>1. conn \in [Conn -> Line]
    BY DEF IInv, TypeOK
  <2> HIDE DEF x, k
  <2> QED
    BY <1>1, <1>2, <1>5, <2>1, SetLine
<1>7. CASE conn[k].stat = "dead"
  BY <1>1, <1>2, <1>3, <1>6, <1>7
<1>8. CASE conn[k].stat # "dead"
  <2>1. conn'[k] = [line EXCEPT !.eof = TRUE]
    BY <1>3, <1>6, <1>8
  <2>2. /\ conn'[k].stat = line.stat /\ conn'[k].eof /\ conn'[k].wire = line.wire
        /\ conn'[k].header = line.header
    BY <1>3, <2>1 DEF Line
  <2> QED
    BY <1>1, <1>2, <1>3, <1>6, <1>8, <2>2
<1> QED
  BY <1>7, <1>8

LEMMA SendHeadCases ==
  ASSUME IInv, NEW c \in Client, SendHead(c)
  PROVE  LET k == mine[c] IN
         /\ k \in Conn /\ hand[c] \in Record
         /\ conn' \in [Conn -> Line]
         /\ \A j \in Conn : j # k => conn'[j] = conn[j]
         /\ conn'[k].stat = conn[k].stat /\ conn'[k].eof = conn[k].eof
         /\ conn'[k].header = conn[k].header
         /\ conn[k].stat = "dead" => conn'[k].wire = conn[k].wire
         /\ conn[k].stat # "dead" =>
              conn'[k].wire = Append(conn[k].wire, HeadOf(hand[c]))
<1> DEFINE k == mine[c]
           x == Put(conn[k], "head", c)
<1>1. pc[c] = "head" /\ conn' = [conn EXCEPT ![k] = x]
  BY DEF SendHead
<1>2. k \in Conn /\ conn[k] \in Line /\ hand[c] \in Record
  BY <1>1, InHand, MyLine DEF IInv
<1>3. /\ x \in Line
      /\ conn[k].stat = "dead" => x = conn[k]
      /\ conn[k].stat # "dead" =>
           /\ x.stat = conn[k].stat /\ x.eof = conn[k].eof
           /\ x.header = conn[k].header
           /\ x.wire = Append(conn[k].wire, HeadOf(hand[c]))
  BY <1>2, PutLine DEF HeadOf
<1>4. conn \in [Conn -> Line]
  BY DEF IInv, TypeOK
<1> HIDE DEF x, k
<1>5. /\ conn' \in [Conn -> Line] /\ conn'[k] = x
      /\ \A j \in Conn : j # k => conn'[j] = conn[j]
  BY <1>1, <1>2, <1>3, <1>4, SetLine
<1> QED
  BY <1>2, <1>3, <1>5 DEF k

(* The other steps change one connection, or none. *)
LEMMA ConnectCases ==
  ASSUME TypeOK, NEW c \in Client, Connect(c)
  PROVE  \E k \in Conn :
           /\ conn[k].stat = "none" /\ mine' = [mine EXCEPT ![c] = k]
           /\ conn' \in [Conn -> Line]
           /\ \A j \in Conn : j # k => conn'[j] = conn[j]
           /\ conn'[k].stat = "backlog" /\ conn'[k].wire = <<>>
           /\ ~conn'[k].header /\ ~conn'[k].eof
<1>1. PICK k \in Conn :
        /\ conn[k].stat = "none" /\ mine' = [mine EXCEPT ![c] = k]
        /\ conn' = [conn EXCEPT ![k] = [NoLine EXCEPT !.stat = "backlog"]]
  BY DEF Connect
<1>2. /\ [NoLine EXCEPT !.stat = "backlog"] \in Line
      /\ [NoLine EXCEPT !.stat = "backlog"].stat = "backlog"
      /\ [NoLine EXCEPT !.stat = "backlog"].wire = <<>>
      /\ ~[NoLine EXCEPT !.stat = "backlog"].header
      /\ ~[NoLine EXCEPT !.stat = "backlog"].eof
  <2>1. <<>> \in Seq(Chunk)
    OBVIOUS
  <2> QED
    BY <2>1 DEF NoLine, Line
<1> DEFINE x == [NoLine EXCEPT !.stat = "backlog"]
<1> HIDE DEF x
<1>3. conn \in [Conn -> Line] /\ conn' = [conn EXCEPT ![k] = x]
      /\ x \in Line /\ x.stat = "backlog" /\ x.wire = <<>> /\ ~x.header /\ ~x.eof
  BY <1>1, <1>2 DEF TypeOK, x
<1>4. conn' \in [Conn -> Line] /\ conn'[k] = x
      /\ \A j \in Conn : j # k => conn'[j] = conn[j]
  BY <1>3, SetLine
<1> QED
  BY <1>1, <1>3, <1>4

LEMMA FailCases ==
  ASSUME TypeOK, ClientInv, NEW c \in Client, Fail(c)
  PROVE  /\ conn' \in [Conn -> Line]
         /\ mine[c] = NoConn => conn' = conn
         /\ mine[c] # NoConn => mine[c] \in Conn /\ ClientCloses(mine[c])
         /\ mine' = [mine EXCEPT ![c] = NoConn]
         /\ hand[c] \in Record
         /\ \/ discarded' = discarded \cup {hand[c]} /\ NextJob(c)
            \/ /\ pc' = [pc EXCEPT ![c] = "try"] /\ UNCHANGED <<hand, discarded>>
               /\ tries' = [tries EXCEPT ![c] = @ + 1] /\ tries[c] + 1 <= MaxRetry
         /\ UNCHANGED <<made, queue, quit, sent, peers, keeper, hit, faults>>
<1>1. pc[c] \notin {"pop", "done"}
  BY DEF Fail
<1>2. hand[c] \in Record
  BY <1>1, InHand
<1>3. conn \in [Conn -> Line] /\ mine \in [Client -> Conn \cup {NoConn}]
      /\ tries[c] \in Nat /\ MaxRetry \in Nat
  BY RetryAssumption DEF TypeOK
<1>4. mine[c] # NoConn => mine[c] \in Conn /\ ClientCloses(mine[c])
  BY <1>3 DEF Fail
<1>5. mine[c] = NoConn => conn' = conn
  BY DEF Fail
<1>6. conn' \in [Conn -> Line]
  <2>1. CASE mine[c] = NoConn
    BY <1>3, <1>5, <2>1
  <2>2. CASE mine[c] # NoConn
    BY <1>3, <1>4, <2>2, CloseLine
  <2> QED
    BY <2>1, <2>2
<1>7. \/ discarded' = discarded \cup {hand[c]} /\ NextJob(c)
      \/ /\ pc' = [pc EXCEPT ![c] = "try"] /\ UNCHANGED <<hand, discarded>>
         /\ tries' = [tries EXCEPT ![c] = @ + 1] /\ tries[c] + 1 <= MaxRetry
  BY <1>3 DEF Fail, GivesUp
<1> QED
  BY <1>2, <1>4, <1>5, <1>6, <1>7 DEF Fail

(* A connection is accepted, or refused when every peer is in use. *)
LEMMA AcceptCases ==
  ASSUME TypeOK, NEW k \in Conn, HandleConnect(k)
  PROVE  /\ conn[k].stat = "backlog" /\ conn' \in [Conn -> Line]
         /\ \A j \in Conn : j # k => conn'[j] = conn[j]
         /\ UNCHANGED <<client, keeper, hit, faults>>
         /\ \/ conn'[k] = Cut(conn[k]) /\ UNCHANGED peers
            \/ /\ conn'[k].stat = "open" /\ conn'[k].wire = conn[k].wire
               /\ conn'[k].eof = conn[k].eof /\ conn'[k].header = conn[k].header
               /\ \E s \in Slot : /\ slot[s] = NoConn
                                  /\ slot' = [slot EXCEPT ![s] = k]
                                  /\ buf' = [buf EXCEPT ![s] = <<>>]
<1>1. conn \in [Conn -> Line] /\ conn[k] \in Line
  BY DEF TypeOK
<1>2. conn[k].stat = "backlog" /\ UNCHANGED <<client, keeper, hit, faults>>
  BY DEF HandleConnect
<1>3. CASE FreeSlots = {}
  <2>1. conn' = [conn EXCEPT ![k] = Cut(conn[k])] /\ UNCHANGED peers
    BY <1>3 DEF HandleConnect
  <2>2. Cut(conn[k]) \in Line
    BY <1>1, CutLine
  <2>3. /\ conn' \in [Conn -> Line] /\ conn'[k] = Cut(conn[k])
        /\ \A j \in Conn : j # k => conn'[j] = conn[j]
    BY <1>1, <2>1, <2>2, SetLine
  <2> QED
    BY <1>2, <2>1, <2>3
<1>4. CASE FreeSlots # {}
  <2>1. PICK s \in FreeSlots :
          /\ conn' = [conn EXCEPT ![k].stat = "open"]
          /\ slot' = [slot EXCEPT ![s] = k]
          /\ buf' = [buf EXCEPT ![s] = <<>>]
    BY <1>4 DEF HandleConnect, ClearBuf
  <2>2. s \in Slot /\ slot[s] = NoConn
    BY DEF FreeSlots
  <2> DEFINE x == [conn[k] EXCEPT !.stat = "open"]
  <2>3. /\ x \in Line /\ x.stat = "open" /\ x.wire = conn[k].wire
        /\ x.eof = conn[k].eof /\ x.header = conn[k].header
    BY <1>1 DEF Line
  <2>4. conn' = [conn EXCEPT ![k] = x]
    BY <1>1, <2>1
  <2> HIDE DEF x
  <2>5. /\ conn' \in [Conn -> Line] /\ conn'[k] = x
        /\ \A j \in Conn : j # k => conn'[j] = conn[j]
    BY <1>1, <2>3, <2>4, SetLine
  <2> QED
    BY <1>2, <2>1, <2>2, <2>3, <2>5
<1> QED
  BY <1>3, <1>4

LEMMA GreetCases ==
  ASSUME TypeOK, NEW s \in Slot, SendHeader(s)
  PROVE  /\ slot[s] \in Conn /\ conn' \in [Conn -> Line]
         /\ \A j \in Conn : j # slot[s] => conn'[j] = conn[j]
         /\ conn'[slot[s]].header
         /\ conn'[slot[s]].stat = conn[slot[s]].stat
         /\ conn'[slot[s]].wire = conn[slot[s]].wire
         /\ conn'[slot[s]].eof = conn[slot[s]].eof
         /\ UNCHANGED <<client, peers, keeper, hit, faults>>
<1> DEFINE k == slot[s]
           x == [conn[k] EXCEPT !.header = TRUE]
<1>1. k \in Conn /\ conn \in [Conn -> Line] /\ conn[k] \in Line
  BY DEF SendHeader, TypeOK
<1>2. conn' = [conn EXCEPT ![k] = x] /\ UNCHANGED <<client, peers, keeper, hit, faults>>
  BY <1>1 DEF SendHeader
<1>3. /\ x \in Line /\ x.stat = conn[k].stat /\ x.wire = conn[k].wire
      /\ x.eof = conn[k].eof /\ x.header
  BY <1>1 DEF Line
<1> HIDE DEF x, k
<1>4. /\ conn' \in [Conn -> Line] /\ conn'[k] = x
      /\ \A j \in Conn : j # k => conn'[j] = conn[j]
  BY <1>1, <1>2, <1>3, SetLine
<1> QED
  BY <1>1, <1>2, <1>3, <1>4 DEF k

(* A peer is given up: its connection has ended, or broke. *)
LEMMA ClearCases ==
  ASSUME TypeOK, NEW s \in Slot, slot[s] # NoConn, Clear(s)
  PROVE  /\ slot[s] \in Conn /\ conn' \in [Conn -> Line]
         /\ \A j \in Conn : j # slot[s] => conn'[j] = conn[j]
         /\ conn'[slot[s]] = Cut(conn[slot[s]])
         /\ slot' = [slot EXCEPT ![s] = NoConn]
<1>1. slot[s] \in Conn /\ conn \in [Conn -> Line] /\ conn[slot[s]] \in Line
  BY DEF TypeOK
<1>2. Cut(conn[slot[s]]) \in Line
  BY <1>1, CutLine
<1>3. conn' = [conn EXCEPT ![slot[s]] = Cut(conn[slot[s]])]
      /\ slot' = [slot EXCEPT ![s] = NoConn]
  BY DEF Clear
<1> QED
  BY <1>1, <1>2, <1>3, SetLine

LEMMA RecvLine ==
  ASSUME TypeOK, NEW s \in Slot, NEW r \in Record, slot[s] \in Conn,
         RecvHead(s, r) \/ RecvBody(s, r)
  PROVE  /\ conn' \in [Conn -> Line]
         /\ \A j \in Conn : j # slot[s] => conn'[j] = conn[j]
         /\ conn'[slot[s]].header = conn[slot[s]].header
         /\ conn'[slot[s]].stat = conn[slot[s]].stat
         /\ conn'[slot[s]].eof = conn[slot[s]].eof
         /\ \/ conn'[slot[s]].wire = <<>>
            \/ conn'[slot[s]].wire = <<BodyOf(r)>>
<1> DEFINE k == slot[s]
<1>1. conn \in [Conn -> Line] /\ conn[k] \in Line
  BY DEF TypeOK
<1>2. PICK w \in {<<>>, <<BodyOf(r)>>} : conn' = [conn EXCEPT ![k].wire = w]
  BY DEF RecvHead, RecvBody
<1>3. w \in Seq(Chunk)
  <2>1. BodyOf(r) \in Chunk
    BY OneRecord
  <2>2. <<>> \in Seq(Chunk) /\ <<BodyOf(r)>> \in Seq(Chunk)
    BY <2>1
  <2> QED
    BY <2>2
<1> DEFINE x == [conn[k] EXCEPT !.wire = w]
<1>4. /\ x \in Line /\ x.stat = conn[k].stat /\ x.wire = w
      /\ x.eof = conn[k].eof /\ x.header = conn[k].header
  BY <1>1, <1>3 DEF Line
<1>5. conn' = [conn EXCEPT ![k] = x]
  BY <1>1, <1>2
<1> HIDE DEF x, k
<1>6. /\ conn' \in [Conn -> Line] /\ conn'[k] = x
      /\ \A j \in Conn : j # k => conn'[j] = conn[j]
  BY <1>1, <1>4, <1>5, SetLine DEF k
<1> QED
  BY <1>2, <1>4, <1>6 DEF k

-----------------------------------------------------------------------------
(* Type correctness. *)

ClientTypes ==
  /\ made \subseteq Record /\ queue \in [Client -> Seq(Record)]
  /\ \A c \in Client : Len(queue[c]) <= ClientQueue
  /\ hand \in [Client -> Record \cup {NoRec}]
  /\ pc \in [Client -> ClientPc]
  /\ tries \in [Client -> 0 .. MaxRetry]
  /\ quit \in [Client -> BOOLEAN]
  /\ mine \in [Client -> Conn \cup {NoConn}]
  /\ sent \subseteq Record /\ discarded \subseteq Record

PeerTypes ==
  /\ conn \in [Conn -> Line]
  /\ slot \in [Slot -> Conn \cup {NoConn}]
  /\ buf \in [Slot -> Seq(Chunk)]

KeeperTypes ==
  /\ spc \in {"up", "stopping", "down"}
  /\ pend \in Record \cup {NoRec, Garbage}
  /\ squeue \in Seq(Record \cup {Garbage}) /\ Len(squeue) <= ServerQueue
  /\ work \in Record \cup {NoRec, Garbage}
  /\ known \subseteq Record /\ log \in Seq(Record)
  /\ hit \subseteq Record /\ faults \in 0 .. MaxFault

LEMMA NextJobTypes ==
  ASSUME TypeOK, NEW c \in Client, NextJob(c)
  PROVE  /\ pc' \in [Client -> ClientPc] /\ hand' \in [Client -> Record \cup {NoRec}]
         /\ tries' \in [Client -> 0 .. MaxRetry]
<1>1. 0 \in 0 .. MaxRetry /\ "pop" \in ClientPc
  BY RetryAssumption DEF ClientPc
<1> QED
  BY <1>1 DEF NextJob, TypeOK

LEMMA ClientTypesKept ==
  ASSUME IInv, NEW c \in Client, AddRec(c) \/ EndClient(c) \/ Sender(c)
  PROVE  ClientTypes'
<1> USE DEF ClientTypes
<1>1. TypeOK /\ ClientInv
  BY DEF IInv
<1>2. CASE AddRec(c)
  <2>1. /\ ClientQueue \in Nat /\ Len(queue[c]) \in Nat /\ queue[c] \in Seq(Record)
        /\ Len(queue[c]) < ClientQueue
    BY <1>1, <1>2, BoundAssumption, LenProperties DEF TypeOK, AddRec
  <2>2. PICK r \in Record : /\ queue' = [queue EXCEPT ![c] = Append(@, r)]
                            /\ made' = made \cup {r}
    BY <1>2 DEF AddRec
  <2>3. Append(queue[c], r) \in Seq(Record) /\ Len(Append(queue[c], r)) = Len(queue[c]) + 1
    BY <2>1, AppendSet
  <2>4. /\ made' \subseteq Record /\ queue' \in [Client -> Seq(Record)]
        /\ Len(queue'[c]) <= ClientQueue
        /\ \A d \in Client : d # c => queue'[d] = queue[d]
    BY <1>1, <2>1, <2>2, <2>3 DEF TypeOK
  <2> QED
    BY <1>1, <1>2, <2>4 DEF AddRec, TypeOK
<1>3. CASE EndClient(c)
  BY <1>1, <1>3 DEF EndClient, TypeOK
<1>4. CASE Pop(c)
  <2>1. CASE quit[c] /\ queue' = [queue EXCEPT ![c] = <<>>]
             /\ pc' = [pc EXCEPT ![c] = "done"] /\ UNCHANGED <<hand, tries>>
    <3>1. <<>> \in Seq(Record) /\ Len(<<>>) <= ClientQueue
      BY BoundAssumption
    <3>2. \A d \in Client : queue'[d] \in Seq(Record) /\ Len(queue'[d]) <= ClientQueue
      BY <1>1, <2>1, <3>1 DEF TypeOK
    <3> QED
      BY <1>1, <1>4, <2>1, <3>2 DEF Pop, TypeOK, ClientPc
  <2>2. CASE /\ queue[c] # <<>> /\ pc' = [pc EXCEPT ![c] = "try"]
             /\ hand' = [hand EXCEPT ![c] = Last(queue[c])]
             /\ queue' = [queue EXCEPT ![c] = Front(@)]
             /\ tries' = [tries EXCEPT ![c] = 0]
    <3>1. queue[c] \in Seq(Record) /\ Len(queue[c]) <= ClientQueue /\ ClientQueue \in Nat
          /\ Len(queue[c]) \in Nat
      BY <1>1, BoundAssumption, LenProperties DEF TypeOK
    <3>2. Last(queue[c]) \in Record /\ Front(queue[c]) \in Seq(Record)
          /\ Len(Front(queue[c])) = Len(queue[c]) - 1
      BY <2>2, <3>1, FrontSet
    <3>3. \A d \in Client : queue'[d] \in Seq(Record) /\ Len(queue'[d]) <= ClientQueue
      BY <1>1, <2>2, <3>1, <3>2 DEF TypeOK
    <3>4. hand' \in [Client -> Record \cup {NoRec}] /\ pc' \in [Client -> ClientPc]
      BY <1>1, <2>2, <3>2 DEF TypeOK, ClientPc
    <3>5. tries' \in [Client -> 0 .. MaxRetry]
      BY <1>1, <2>2, RetryAssumption DEF TypeOK
    <3>6. queue' \in [Client -> Seq(Record)]
      BY <1>1, <2>2, <3>3 DEF TypeOK
    <3> QED
      BY <1>1, <1>4, <3>3, <3>4, <3>5, <3>6 DEF Pop, TypeOK
  <2> QED
    BY <1>4, <2>1, <2>2 DEF Pop
<1>5. CASE GiveUp(c)
  BY <1>1, <1>5, NextJobTypes DEF GiveUp, TypeOK
<1>6. CASE Connect(c)
  <2>1. PICK k \in Conn : mine' = [mine EXCEPT ![c] = k]
    BY <1>1, <1>6, ConnectCases
  <2> QED
    BY <1>1, <1>6, <2>1 DEF Connect, TypeOK, ClientPc
<1>7. CASE RecvHeader(c)
  BY <1>1, <1>7 DEF RecvHeader, TypeOK, ClientPc
<1>8. CASE SendHead(c)
  BY <1>1, <1>8 DEF SendHead, TypeOK, ClientPc
<1>9. CASE SendBody(c)
  <2>1. hand[c] \in Record
    BY <1>9, SendBodyCases
  <2> QED
    BY <1>1, <1>9, <2>1, NextJobTypes DEF SendBody, TypeOK
<1>10. CASE Fail(c)
  <2>1. /\ mine' = [mine EXCEPT ![c] = NoConn] /\ hand[c] \in Record
        /\ \/ discarded' = discarded \cup {hand[c]} /\ NextJob(c)
           \/ /\ pc' = [pc EXCEPT ![c] = "try"] /\ UNCHANGED <<hand, discarded>>
              /\ tries' = [tries EXCEPT ![c] = @ + 1] /\ tries[c] + 1 <= MaxRetry
        /\ UNCHANGED <<made, queue, quit, sent>>
    BY <1>1, <1>10, FailCases
  <2>2. mine' \in [Client -> Conn \cup {NoConn}]
    BY <1>1, <2>1 DEF TypeOK
  <2>3. CASE discarded' = discarded \cup {hand[c]} /\ NextJob(c)
    BY <1>1, <2>1, <2>2, <2>3, NextJobTypes DEF TypeOK
  <2>4. CASE /\ pc' = [pc EXCEPT ![c] = "try"] /\ UNCHANGED <<hand, discarded>>
             /\ tries' = [tries EXCEPT ![c] = @ + 1] /\ tries[c] + 1 <= MaxRetry
    <3>1. tries[c] + 1 \in 0 .. MaxRetry
      BY <1>1, <2>4, RetryAssumption DEF TypeOK
    <3>2. tries' \in [Client -> 0 .. MaxRetry]
      BY <1>1, <2>4, <3>1 DEF TypeOK
    <3> QED
      BY <1>1, <2>1, <2>2, <2>4, <3>2 DEF TypeOK, ClientPc
  <2> QED
    BY <2>1, <2>3, <2>4
<1> QED
  BY <1>2, <1>3, <1>4, <1>5, <1>6, <1>7, <1>8, <1>9, <1>10 DEF Sender

LEMMA BodiesRecords ==
  ASSUME NEW w \in Seq(Chunk) PROVE Bodies(w) \subseteq Record
<1>1. \A x \in ToSet(w) : x \in Chunk
  BY LenProperties DEF ToSet
<1>2. \A x \in Chunk : x.rec \in Record
  BY DEF Chunk
<1> QED
  BY <1>1, <1>2 DEF Bodies

LEMMA PeerTypesKept ==
  ASSUME IInv, [Next]_vars
  PROVE  PeerTypes'
<1> USE DEF PeerTypes
<1>1. TypeOK /\ ClientInv /\ WireInv /\ PeerTypes
  BY DEF IInv, TypeOK
<1>2. ASSUME NEW c \in Client, Sender(c) PROVE PeerTypes'
  <2>1. CASE Pop(c) \/ GiveUp(c) \/ RecvHeader(c)
    BY <1>1, <2>1 DEF Pop, GiveUp, RecvHeader, peers
  <2>2. CASE Connect(c)
    BY <1>1, <2>2, ConnectCases DEF Connect, peers
  <2>3. CASE SendHead(c)
    BY <1>1, <2>3, SendHeadCases DEF SendHead, peers
  <2>4. CASE SendBody(c)
    BY <1>1, <2>4, SendBodyCases DEF SendBody, peers
  <2>5. CASE Fail(c)
    BY <1>1, <2>5, FailCases DEF peers
  <2> QED
    BY <1>2, <2>1, <2>2, <2>3, <2>4, <2>5 DEF Sender
<1>3. ASSUME NEW k \in Conn, HandleConnect(k) PROVE PeerTypes'
  <2>1. conn' \in [Conn -> Line]
    BY <1>1, <1>3, AcceptCases
  <2>2. CASE UNCHANGED peers
    BY <1>1, <2>1, <2>2 DEF peers
  <2>3. ASSUME NEW s \in Slot, slot' = [slot EXCEPT ![s] = k],
               buf' = [buf EXCEPT ![s] = <<>>]
        PROVE  PeerTypes'
    <3>1. <<>> \in Seq(Chunk)
      OBVIOUS
    <3> QED
      BY <1>1, <2>1, <2>3, <3>1
  <2> QED
    BY <1>1, <1>3, <2>2, <2>3, AcceptCases
<1>4. ASSUME NEW s \in Slot, SendHeader(s) PROVE PeerTypes'
  BY <1>1, <1>4, GreetCases DEF peers
<1>5. ASSUME NEW s \in Slot, HandleRecv(s) PROVE PeerTypes'
  <2>1. slot[s] \in Conn /\ slot[s] # NoConn
    BY <1>1, <1>5, RecvCases
  <2>2. PICK r \in Record : RecvHead(s, r) \/ RecvBody(s, r) \/ RecvBreak(s, r)
    BY <1>1, <1>5, RecvCases
  <2>3. CASE RecvHead(s, r) \/ RecvBody(s, r)
    <3>1. conn' \in [Conn -> Line]
      BY <1>1, <2>1, <2>3, RecvLine
    <3>2. <<>> \in Seq(Chunk) /\ <<HeadOf(r)>> \in Seq(Chunk)
      <4>1. HeadOf(r) \in Chunk
        BY OneRecord
      <4> QED
        BY <4>1
    <3>3. /\ buf' = [buf EXCEPT ![s] = <<>>] \/ buf' = [buf EXCEPT ![s] = <<HeadOf(r)>>]
          /\ UNCHANGED slot
      BY <2>3 DEF RecvHead, RecvBody
    <3>4. buf' \in [Slot -> Seq(Chunk)]
      BY <1>1, <3>2, <3>3
    <3> QED
      BY <1>1, <3>1, <3>3, <3>4
  <2>4. CASE RecvBreak(s, r)
    <3>1. Clear(s) /\ UNCHANGED buf
      BY <2>4 DEF RecvBreak
    <3> QED
      BY <1>1, <2>1, <3>1, ClearCases
  <2> QED
    BY <2>2, <2>3, <2>4
<1>6. ASSUME NEW s \in Slot, HandleEof(s) \/ Lose(s) PROVE PeerTypes'
  <2>1. slot[s] # NoConn /\ Clear(s) /\ UNCHANGED buf
    BY <1>6 DEF HandleEof, Lose
  <2> QED
    BY <1>1, <2>1, ClearCases
<1>7. CASE Down
  BY <1>1, <1>7, DownCases
<1>8. CASE UNCHANGED <<conn, peers>>
  BY <1>1, <1>8 DEF peers
<1>9. ASSUME NEW c \in Client, AddRec(c) \/ EndClient(c) PROVE UNCHANGED <<conn, peers>>
  BY <1>9 DEF AddRec, EndClient
<1>10. ASSUME PushFree \/ Worker \/ QuitServer \/ Start PROVE UNCHANGED <<conn, peers>>
  BY <1>10 DEF PushFree, Worker, Take, Transact, QuitServer, Start
<1>11. ASSUME UNCHANGED vars PROVE UNCHANGED <<conn, peers>>
  BY <1>11 DEF vars
<1> QED
  BY <1>2, <1>3, <1>4, <1>5, <1>6, <1>7, <1>8, <1>9, <1>10, <1>11
  DEF Next, Serve, Exit, Crash

LEMMA HeldRecords ==
  \A x : Held(x) \subseteq Record /\ (x \in Record => Held(x) = {x})
         /\ (x \notin Record => Held(x) = {})
BY DEF Held

LEMMA KeeperTypesKept ==
  ASSUME IInv, [Next]_vars
  PROVE  KeeperTypes'
<1> USE DEF KeeperTypes
<1>1. TypeOK /\ ClientInv /\ WireInv /\ KeeperTypes /\ MaxFault \in Nat
  BY RetryAssumption DEF IInv, TypeOK
<1>2. CASE UNCHANGED <<keeper, hit, faults>>
  BY <1>1, <1>2 DEF keeper
<1>3. ASSUME NEW c \in Client, AddRec(c) \/ EndClient(c) PROVE UNCHANGED <<keeper, hit, faults>>
  BY <1>3 DEF AddRec, EndClient
<1>4. ASSUME NEW c \in Client, Sender(c) PROVE KeeperTypes'
  <2>1. CASE SendBody(c)
    <3>1. UNCHANGED <<keeper, faults>>
      BY <2>1 DEF SendBody
    <3>2. hit' = hit \/ hit' = hit \cup {hand[c]}
      BY <2>1 DEF SendBody
    <3>3. hand[c] \in Record
      BY <2>1, SendBodyCases
    <3> QED
      BY <1>1, <3>1, <3>2, <3>3 DEF keeper
  <2>2. CASE Fail(c)
    BY <1>1, <1>2, <2>2, FailCases
  <2>3. CASE Pop(c) \/ GiveUp(c) \/ Connect(c) \/ RecvHeader(c) \/ SendHead(c)
    BY <1>2, <2>3 DEF Pop, GiveUp, Connect, RecvHeader, SendHead
  <2> QED
    BY <1>4, <2>1, <2>2, <2>3 DEF Sender
<1>5. ASSUME NEW k \in Conn, HandleConnect(k) PROVE UNCHANGED <<keeper, hit, faults>>
  BY <1>5 DEF HandleConnect
<1>6. ASSUME NEW s \in Slot, SendHeader(s) \/ HandleEof(s)
      PROVE  UNCHANGED <<keeper, hit, faults>>
  BY <1>6 DEF SendHeader, HandleEof
<1>7. ASSUME NEW s \in Slot, HandleRecv(s) PROVE KeeperTypes'
  <2>1. UNCHANGED <<spc, squeue, work, known, log, faults>>
    BY <1>1, <1>7, RecvCases DEF client
  <2>2. PICK r \in Record : RecvHead(s, r) \/ RecvBody(s, r) \/ RecvBreak(s, r)
    BY <1>1, <1>7, RecvCases
  <2>3. pend' \in Record \cup {NoRec, Garbage} /\ hit' \subseteq Record
    BY <1>1, <2>2 DEF RecvHead, RecvBody, RecvBreak
  <2> QED
    BY <1>1, <2>1, <2>3
<1>8. ASSUME NEW s \in Slot, Lose(s) PROVE KeeperTypes'
  <2>1. slot[s] \in Conn /\ conn[slot[s]] \in Line
    BY <1>1, <1>8 DEF Lose, TypeOK
  <2>2. Bodies(conn[slot[s]].wire) \subseteq Record
    BY <2>1, BodiesRecords DEF Line
  <2>3. faults' \in 0 .. MaxFault
    BY <1>1, <1>8 DEF Lose
  <2> QED
    BY <1>1, <1>8, <2>2, <2>3 DEF Lose, keeper
<1>9. CASE PushFree
  <2>1. ServerQueue \in Nat /\ Len(squeue) < ServerQueue
        /\ squeue \in Seq(Record \cup {Garbage}) /\ pend \in Record \cup {Garbage}
        /\ Len(squeue) \in Nat
    BY <1>1, <1>9, BoundAssumption, LenProperties DEF PushFree, HasRoom
  <2>2. squeue' = Append(squeue, pend) /\ pend' = NoRec
        /\ UNCHANGED <<spc, work, known, log, hit, faults>>
    BY <1>9 DEF PushFree
  <2>3. squeue' \in Seq(Record \cup {Garbage}) /\ Len(squeue') = Len(squeue) + 1
    BY <2>1, <2>2, AppendSet
  <2> QED
    BY <1>1, <2>1, <2>2, <2>3
<1>10. CASE Take
  <2>1. squeue \in Seq(Record \cup {Garbage}) /\ squeue # <<>> /\ Len(squeue) \in Nat
        /\ Len(squeue) <= ServerQueue /\ ServerQueue \in Nat
    BY <1>1, <1>10, BoundAssumption, LenProperties DEF Take
  <2>2. work' = Last(squeue) /\ squeue' = Front(squeue)
        /\ UNCHANGED <<spc, pend, known, log, hit, faults>>
    BY <1>10 DEF Take
  <2>3. work' \in Record \cup {Garbage} /\ squeue' \in Seq(Record \cup {Garbage})
        /\ Len(squeue') = Len(squeue) - 1
    BY <2>1, <2>2, FrontSet
  <2> QED
    BY <1>1, <2>1, <2>2, <2>3
<1>11. CASE Transact
  <2>1. UNCHANGED <<spc, pend, squeue, hit, faults>> /\ work' = NoRec
    BY <1>11 DEF Transact
  <2>2. known' \subseteq Record /\ log' \in Seq(Record)
    <3>1. CASE TurnedDown
      BY <1>1, <1>11, <3>1 DEF Transact
    <3>2. CASE ~TurnedDown
      <4>1. work \in Record
        BY <1>1, <1>11, <3>2 DEF Transact, TurnedDown
      <4>2. known' = known \cup {work} /\ log' = Append(log, work)
        BY <1>11, <3>2 DEF Transact
      <4> QED
        BY <1>1, <4>1, <4>2, AppendSet
    <3> QED
      BY <3>1, <3>2
  <2> QED
    BY <1>1, <2>1, <2>2
<1>12. CASE QuitServer
  <2>1. <<>> \in Seq(Record \cup {Garbage}) /\ Len(<<>>) <= ServerQueue
    BY BoundAssumption
  <2>2. faults' \in 0 .. MaxFault
    BY <1>1, <1>12 DEF QuitServer
  <2> QED
    BY <1>1, <1>12, <2>1, <2>2 DEF QuitServer
<1>13. ASSUME Down, faults' \in 0 .. MaxFault PROVE KeeperTypes'
  <2>1. <<>> \in Seq(Record \cup {Garbage}) /\ Len(<<>>) <= ServerQueue
    BY BoundAssumption
  <2>2. InFlight(Conn, Slot) \subseteq Record
    <3>1. \A k \in Conn : Bodies(conn[k].wire) \subseteq Record
      BY <1>1, BodiesRecords DEF TypeOK, Line
    <3>2. \A s \in Slot : Bodies(buf[s]) \subseteq Record
      BY <1>1, BodiesRecords DEF TypeOK
    <3> DEFINE W == UNION {Bodies(conn[k].wire) : k \in Conn}
               B == UNION {Bodies(buf[s]) : s \in Slot}
    <3>3. W \subseteq Record /\ B \subseteq Record
      BY <3>1, <3>2
    <3>4. InFlight(Conn, Slot) = W \cup B
      BY DEF InFlight
    <3> HIDE DEF W, B
    <3> QED
      BY <3>3, <3>4
  <2>3. hit' \subseteq Record
    BY <1>1, <1>13, <2>2, HeldRecords DEF Down
  <2> QED
    BY <1>1, <1>13, <2>1, <2>3 DEF Down
<1>14. CASE Exit
  BY <1>1, <1>13, <1>14 DEF Exit
<1>15. CASE Crash
  <2>1. faults' \in 0 .. MaxFault
    BY <1>1, <1>15 DEF Crash
  <2> QED
    BY <1>13, <1>15, <2>1 DEF Crash
<1>16. CASE Start
  BY <1>1, <1>16 DEF Start
<1>17. CASE UNCHANGED vars
  BY <1>2, <1>17 DEF vars
<1> QED
  BY <1>2, <1>3, <1>4, <1>5, <1>6, <1>7, <1>8, <1>9, <1>10, <1>11, <1>12,
     <1>14, <1>15, <1>16, <1>17
  DEF Next, Serve, Worker

LEMMA OthersKeepClients ==
  ASSUME TypeOK, WireInv, [Next]_vars
  PROVE  \/ \E c \in Client : AddRec(c) \/ EndClient(c) \/ Sender(c)
         \/ UNCHANGED client
<1>1. ASSUME NEW s \in Slot, Serve(s) \/ Lose(s) PROVE UNCHANGED client
  <2>1. CASE HandleRecv(s)
    BY <2>1, RecvCases
  <2> QED
    BY <1>1, <2>1 DEF Serve, SendHeader, HandleEof, Lose
<1>2. ASSUME NEW k \in Conn, HandleConnect(k) PROVE UNCHANGED client
  BY <1>2 DEF HandleConnect
<1>3. ASSUME PushFree \/ Worker \/ QuitServer \/ Exit \/ Crash \/ Start
      PROVE  UNCHANGED client
  BY <1>3 DEF PushFree, Worker, Take, Transact, QuitServer, Exit, Crash, Down, Start
<1> QED
  BY <1>1, <1>2, <1>3 DEF Next, vars

LEMMA TypeStep == ASSUME IInv, [Next]_vars PROVE TypeOK'
<1>1. ClientTypes'
  <2>1. TypeOK /\ WireInv /\ ClientTypes
    BY DEF IInv, TypeOK, ClientTypes
  <2>2. CASE UNCHANGED client
    BY <2>1, <2>2 DEF client, ClientTypes
  <2> QED
    BY <2>1, <2>2, ClientTypesKept, OthersKeepClients
<1> QED
  BY <1>1, PeerTypesKept, KeeperTypesKept DEF TypeOK, ClientTypes, PeerTypes, KeeperTypes

-----------------------------------------------------------------------------
(* The records of the clients. *)

(* A step of one client leaves the others' records alone. *)
LEMMA OtherClients ==
  ASSUME TypeOK, ClientInv, NEW c \in Client, NEW d \in Client, d # c,
         queue'[d] = queue[d], hand'[d] = hand[d], pc'[d] = pc[d],
         mine'[d] = mine[d], made \subseteq made',
         \A r \in (sent' \ sent) \cup (discarded' \ discarded) : r.by = c
  PROVE  OwnInv(d)'
<1>1. OwnInv(d)
  BY DEF ClientInv
<1>2. ASSUME NEW r, Fresh(d, r) PROVE Fresh(d, r)'
  BY <1>2 DEF Fresh
<1> QED
  BY <1>1, <1>2 DEF OwnInv

LEMMA NextJobFields ==
  ASSUME TypeOK, NEW c \in Client, NextJob(c)
  PROVE  /\ pc'[c] = "pop" /\ hand'[c] = NoRec
         /\ \A d \in Client : d # c => pc'[d] = pc[d] /\ hand'[d] = hand[d]
BY DEF NextJob, TypeOK

(* The record in hand is done with. *)
LEMMA DoneWith ==
  ASSUME TypeOK, ClientInv, NEW c \in Client, pc[c] \notin {"pop", "done"},
         NextJob(c), UNCHANGED <<made, queue>>, mine'[c] = NoConn,
         \A d \in Client : d # c => mine'[d] = mine[d],
         \/ UNCHANGED <<sent, discarded>>
         \/ sent' = sent \cup {hand[c]} /\ UNCHANGED discarded
         \/ discarded' = discarded \cup {hand[c]} /\ UNCHANGED sent
  PROVE  ClientInv'
<1>1. hand[c] \in Record /\ hand[c] # NoRec /\ Fresh(c, hand[c]) /\ OwnInv(c)
      /\ hand[c] \notin ToSet(queue[c])
  BY InHand DEF ClientInv, OwnInv
<1>2. /\ pc'[c] = "pop" /\ hand'[c] = NoRec
      /\ \A d \in Client : d # c => pc'[d] = pc[d] /\ hand'[d] = hand[d]
  BY NextJobFields
<1>3. \A r \in (sent' \ sent) \cup (discarded' \ discarded) : r = hand[c] /\ r.by = c
  BY <1>1 DEF Fresh
<1>4. ASSUME NEW d \in Client, d # c PROVE OwnInv(d)'
  BY <1>2, <1>3, <1>4, OtherClients
<1>5. OwnInv(c)'
  <2>1. ASSUME NEW r \in ToSet(queue[c]) PROVE Fresh(c, r)'
    <3>1. Fresh(c, r) /\ r # hand[c]
      BY <1>1, <2>1 DEF OwnInv
    <3>2. r \notin sent' /\ r \notin discarded'
      BY <1>3, <3>1 DEF Fresh
    <3> QED
      BY <3>1, <3>2 DEF Fresh
  <2>2. Once(queue[c])
    BY <1>1 DEF OwnInv
  <2> QED
    BY <1>1, <1>2, <2>1, <2>2 DEF OwnInv
<1>6. (sent' \cup discarded') \subseteq made'
  BY <1>1, <1>3 DEF ClientInv, Fresh
<1>7. sent' \cap discarded' = {}
  BY <1>1 DEF ClientInv, Fresh
<1> QED
  BY <1>4, <1>5, <1>6, <1>7 DEF ClientInv

(* The thread of the sender moves on with the same record. *)
LEMMA SameRecord ==
  ASSUME TypeOK, ClientInv, NEW c \in Client, pc[c] \notin {"pop", "done"},
         UNCHANGED <<made, queue, hand, sent, discarded>>,
         pc'[c] \notin {"pop", "done"},
         \A d \in Client : d # c => mine'[d] = mine[d] /\ pc'[d] = pc[d],
         mine'[c] = NoConn <=> pc'[c] \in {"pop", "try", "done"}
  PROVE  ClientInv'
<1>1. ASSUME NEW d \in Client, d # c PROVE OwnInv(d)'
  BY <1>1, OtherClients
<1>2. OwnInv(c)'
  <2>1. OwnInv(c)
    BY DEF ClientInv
  <2>2. \A r : Fresh(c, r) => Fresh(c, r)'
    BY DEF Fresh
  <2> QED
    BY <2>1, <2>2 DEF OwnInv
<1> QED
  BY <1>1, <1>2 DEF ClientInv

LEMMA AddRecClient ==
  ASSUME TypeOK, ClientInv, NEW c \in Client, AddRec(c)
  PROVE  ClientInv'
<1>1. PICK r \in Record \ made :
        /\ r.by = c /\ made' = made \cup {r}
        /\ queue' = [queue EXCEPT ![c] = Append(@, r)]
        /\ UNCHANGED <<hand, pc, mine, sent, discarded>>
  BY DEF AddRec
<1>2. queue[c] \in Seq(Record)
  BY DEF TypeOK
<1>3. /\ queue'[c] = Append(queue[c], r)
      /\ \A d \in Client : d # c => queue'[d] = queue[d]
  BY <1>1 DEF TypeOK
<1>4. OwnInv(c)
  BY DEF ClientInv
<1>5. r \notin sent /\ r \notin discarded /\ r # hand[c] /\ r \notin ToSet(queue[c])
  <2>1. r # NoRec
    BY RecordForm
  <2> QED
    BY <1>4, <2>1 DEF ClientInv, OwnInv, Fresh
<1>6. ToSet(queue'[c]) = ToSet(queue[c]) \cup {r} /\ Once(queue'[c])
  BY <1>2, <1>3, <1>4, <1>5, AppendSet DEF OwnInv
<1>7. ASSUME NEW d \in Client, d # c PROVE OwnInv(d)'
  BY <1>1, <1>3, <1>7, OtherClients
<1>8. \A q : Fresh(c, q) => Fresh(c, q)'
  BY <1>1 DEF Fresh
<1>9. OwnInv(c)'
  <2>1. Fresh(c, r)'
    BY <1>1, <1>5 DEF Fresh
  <2>2. \A q \in ToSet(queue'[c]) : Fresh(c, q)'
    BY <1>4, <1>6, <1>8, <2>1 DEF OwnInv
  <2>3. hand'[c] # NoRec => Fresh(c, hand[c])' /\ hand'[c] \notin ToSet(queue'[c])
    <3>1. PICK h : h = hand[c]
      OBVIOUS
    <3>2. h # NoRec => Fresh(c, h) /\ h \notin ToSet(queue[c]) /\ h # r
      BY <1>4, <1>5, <3>1 DEF OwnInv
    <3>3. h # NoRec => Fresh(c, h)' /\ h \notin ToSet(queue'[c])
      BY <1>6, <1>8, <3>2
    <3>4. hand'[c] = h
      BY <1>1, <3>1
    <3> QED
      BY <3>3, <3>4
  <2> QED
    BY <1>1, <1>4, <1>6, <2>2, <2>3 DEF OwnInv
<1> QED
  BY <1>1, <1>7, <1>9 DEF ClientInv

LEMMA PopClient ==
  ASSUME TypeOK, ClientInv, NEW c \in Client, Pop(c)
  PROVE  ClientInv'
<1>1. pc[c] = "pop" /\ UNCHANGED <<made, mine, sent, discarded>> /\ OwnInv(c)
  BY DEF Pop, ClientInv
<1>2. hand[c] = NoRec /\ mine[c] = NoConn /\ queue[c] \in Seq(Record)
  BY <1>1 DEF OwnInv, TypeOK
<1>3. \A d \in Client : d # c =>
        pc'[d] = pc[d] /\ hand'[d] = hand[d] /\ queue'[d] = queue[d]
  BY DEF Pop, TypeOK
<1>4. ASSUME NEW d \in Client, d # c PROVE OwnInv(d)'
  BY <1>1, <1>3, <1>4, OtherClients
<1>5. \A r : Fresh(c, r) => Fresh(c, r)'
  BY <1>1 DEF Fresh
<1>6. OwnInv(c)'
  <2>1. CASE pc'[c] = "done" /\ queue'[c] = <<>> /\ hand'[c] = hand[c]
    BY <1>1, <1>2, <2>1, EmptySequence DEF OwnInv
  <2>2. CASE /\ queue[c] # <<>> /\ pc'[c] = "try" /\ hand'[c] = Last(queue[c])
             /\ queue'[c] = Front(queue[c])
    <3>1. /\ Last(queue[c]) \in Record
          /\ ToSet(queue[c]) = ToSet(Front(queue[c])) \cup {Last(queue[c])}
          /\ Once(Front(queue[c])) /\ Last(queue[c]) \notin ToSet(Front(queue[c]))
      BY <1>1, <1>2, <2>2, FrontSet DEF OwnInv
    <3>2. Last(queue[c]) # NoRec
      BY <3>1, RecordForm
    <3>3. \A r \in ToSet(queue[c]) : Fresh(c, r)'
      BY <1>1, <1>5 DEF OwnInv
    <3> QED
      BY <1>1, <1>2, <2>2, <3>1, <3>2, <3>3 DEF OwnInv
  <2> QED
    BY <2>1, <2>2 DEF Pop, TypeOK
<1> QED
  BY <1>1, <1>4, <1>6 DEF ClientInv

LEMMA ClientStep == ASSUME IInv, [Next]_vars PROVE ClientInv'
<1>1. TypeOK /\ ClientInv /\ WireInv
  BY DEF IInv
<1>2. ASSUME NEW c \in Client, Sender(c) PROVE ClientInv'
  <2>1. CASE Pop(c)
    BY <1>1, <2>1, PopClient
  <2>2. CASE GiveUp(c)
    <3>1. pc[c] = "try" /\ NextJob(c) /\ UNCHANGED <<made, queue, mine, sent, discarded>>
      BY <2>2 DEF GiveUp
    <3>2. mine[c] = NoConn
      BY <1>1, <3>1 DEF ClientInv, OwnInv
    <3> QED
      BY <1>1, <3>1, <3>2, DoneWith
  <2>3. CASE Connect(c)
    <3>1. PICK k \in Conn : mine' = [mine EXCEPT ![c] = k]
      BY <1>1, <2>3, ConnectCases
    <3>2. mine'[c] # NoConn /\ \A d \in Client : d # c => mine'[d] = mine[d] /\ pc'[d] = pc[d]
      BY <1>1, <2>3, <3>1, ConnForm DEF TypeOK, Connect
    <3>3. pc[c] = "try" /\ pc'[c] = "header" /\ UNCHANGED <<made, queue, hand, sent, discarded>>
      BY <1>1, <2>3 DEF TypeOK, Connect
    <3> QED
      BY <1>1, <3>2, <3>3, SameRecord
  <2>4. CASE RecvHeader(c) \/ SendHead(c)
    <3>1. /\ pc[c] \in {"header", "head"} /\ pc'[c] \in {"head", "body"}
          /\ UNCHANGED <<made, queue, hand, mine, sent, discarded>>
          /\ \A d \in Client : d # c => pc'[d] = pc[d]
      BY <1>1, <2>4 DEF TypeOK, RecvHeader, SendHead
    <3>2. mine[c] # NoConn
      BY <1>1, <3>1 DEF ClientInv, OwnInv
    <3> QED
      BY <1>1, <3>1, <3>2, SameRecord
  <2>5. CASE SendBody(c)
    <3>1. /\ pc[c] = "body" /\ NextJob(c) /\ UNCHANGED <<made, queue, discarded>>
          /\ mine' = [mine EXCEPT ![c] = NoConn] /\ sent' = sent \cup {hand[c]}
      BY <2>5 DEF SendBody
    <3>2. mine'[c] = NoConn /\ \A d \in Client : d # c => mine'[d] = mine[d]
      BY <1>1, <3>1 DEF TypeOK
    <3> QED
      BY <1>1, <3>1, <3>2, DoneWith
  <2>6. CASE Fail(c)
    <3>1. /\ mine' = [mine EXCEPT ![c] = NoConn] /\ UNCHANGED <<made, queue, sent>>
          /\ \/ discarded' = discarded \cup {hand[c]} /\ NextJob(c)
             \/ pc' = [pc EXCEPT ![c] = "try"] /\ UNCHANGED <<hand, discarded>>
      BY <1>1, <2>6, FailCases
    <3>2. mine'[c] = NoConn /\ \A d \in Client : d # c => mine'[d] = mine[d]
      BY <1>1, <3>1 DEF TypeOK
    <3>3. pc[c] \notin {"pop", "done"}
      BY <2>6 DEF Fail
    <3>4. CASE discarded' = discarded \cup {hand[c]} /\ NextJob(c)
      BY <1>1, <3>1, <3>2, <3>3, <3>4, DoneWith
    <3>5. CASE pc' = [pc EXCEPT ![c] = "try"] /\ UNCHANGED <<hand, discarded>>
      <4>1. pc'[c] = "try" /\ \A d \in Client : d # c => pc'[d] = pc[d]
        BY <1>1, <3>5 DEF TypeOK
      <4> QED
        BY <1>1, <3>1, <3>2, <3>3, <3>5, <4>1, SameRecord
    <3> QED
      BY <3>1, <3>4, <3>5
  <2> QED
    BY <1>2, <2>1, <2>2, <2>3, <2>4, <2>5, <2>6 DEF Sender
<1>3. ASSUME NEW c \in Client, EndClient(c) PROVE ClientInv'
  BY <1>1, <1>3 DEF EndClient, ClientInv, OwnInv, Fresh
<1>4. CASE UNCHANGED client
  BY <1>1, <1>4 DEF client, ClientInv, OwnInv, Fresh
<1> QED
  BY <1>1, <1>2, <1>3, <1>4, AddRecClient, OthersKeepClients

(* Apart from the record in hand, NextJob leaves everything waiting. *)
LEMMA WaitingNext ==
  ASSUME TypeOK, NEW c \in Client, NextJob(c), UNCHANGED queue
  PROVE  \A q \in Record : /\ q \in Waiting' => q \in Waiting
                           /\ q \in Waiting /\ q # hand[c] => q \in Waiting'
<1>1. NoRec \notin Record
  BY RecordForm
<1>2. hand'[c] = NoRec /\ \A d \in Client : d # c => hand'[d] = hand[d]
  BY NextJobFields
<1> QED
  BY <1>1, <1>2 DEF Waiting

(* A record leaves a client's hands when it counts, or at the end. *)
LEMMA KeptStep == ASSUME IInv, [Next]_vars PROVE KeptInv'
<1> DEFINE Kept(r) ==
      r \in sent \/ r \in discarded \/ r \in Waiting \/ quit[r.by]
<1>1. /\ TypeOK /\ ClientInv /\ WireInv /\ made \subseteq Record
      /\ \A r \in made : Kept(r)
  BY DEF IInv, TypeOK, KeptInv
<1>2. CASE UNCHANGED client
  BY <1>1, <1>2 DEF client, KeptInv, Waiting
<1>3. ASSUME UNCHANGED <<made, queue, hand, sent, discarded>>,
             \A r : quit[r.by] => quit'[r.by]
      PROVE  KeptInv'
  BY <1>1, <1>3 DEF KeptInv, Waiting
<1>4. ASSUME NEW c \in Client, AddRec(c) PROVE KeptInv'
  <2>1. PICK x \in Record :
          /\ made' = made \cup {x} /\ queue' = [queue EXCEPT ![c] = Append(@, x)]
          /\ UNCHANGED <<hand, sent, discarded, quit>>
    BY <1>4 DEF AddRec
  <2>2. /\ ToSet(queue'[c]) = ToSet(queue[c]) \cup {x}
        /\ \A d \in Client : d # c => queue'[d] = queue[d]
    BY <1>1, <2>1, AppendSet DEF TypeOK
  <2>3. Waiting' = Waiting \cup {x}
    BY <2>1, <2>2 DEF Waiting
  <2> QED
    BY <1>1, <2>1, <2>3 DEF KeptInv
<1>5. ASSUME NEW c \in Client, EndClient(c) PROVE KeptInv'
  <2>1. UNCHANGED <<made, queue, hand, sent, discarded>>
    BY <1>5 DEF EndClient
  <2>2. \A r \in made : quit[r.by] => quit'[r.by]
    BY <1>1, <1>5 DEF EndClient, TypeOK
  <2>3. Waiting' = Waiting
    BY <2>1 DEF Waiting
  <2> QED
    BY <1>1, <2>1, <2>2, <2>3 DEF KeptInv
<1>6. ASSUME NEW c \in Client, Pop(c) PROVE KeptInv'
  <2>1. /\ pc[c] = "pop" /\ UNCHANGED <<made, sent, discarded, quit>>
        /\ queue \in [Client -> Seq(Record)] /\ hand \in [Client -> Record \cup {NoRec}]
    BY <1>1, <1>6 DEF Pop, TypeOK
  <2>2. hand[c] = NoRec
    BY <1>1, <2>1 DEF ClientInv, OwnInv
  <2>3. CASE quit[c] /\ queue' = [queue EXCEPT ![c] = <<>>] /\ UNCHANGED hand
    <3>1. ASSUME NEW r \in made, r \in Waiting, r \notin Waiting' PROVE quit[r.by]
      <4>1. r \in ToSet(queue[c])
        BY <2>1, <2>3, <3>1 DEF Waiting
      <4> QED
        BY <1>1, <2>3, <4>1 DEF ClientInv, OwnInv, Fresh
    <3> QED
      BY <1>1, <2>1, <3>1 DEF KeptInv
  <2>4. CASE /\ queue[c] # <<>> /\ hand' = [hand EXCEPT ![c] = Last(queue[c])]
             /\ queue' = [queue EXCEPT ![c] = Front(@)]
    <3>1. ToSet(queue[c]) = ToSet(Front(queue[c])) \cup {Last(queue[c])}
      BY <2>1, <2>4, FrontSet
    <3>2. /\ queue'[c] = Front(queue[c]) /\ hand'[c] = Last(queue[c])
          /\ \A d \in Client : d # c => queue'[d] = queue[d] /\ hand'[d] = hand[d]
      BY <2>1, <2>4
    <3>3. \A r \in Record : r \in Waiting => r \in Waiting'
      BY <2>2, <3>1, <3>2, RecordForm DEF Waiting
    <3> QED
      BY <1>1, <2>1, <3>3 DEF KeptInv
  <2> QED
    BY <1>6, <2>3, <2>4 DEF Pop
<1>7. ASSUME NEW c \in Client, NextJob(c), UNCHANGED <<made, queue, quit>>,
             pc[c] \notin {"pop", "done"},
             sent \subseteq sent', discarded \subseteq discarded',
             quit[c] \/ hand[c] \in sent' \/ hand[c] \in discarded'
      PROVE  KeptInv'
  <2>1. hand[c].by = c
    BY <1>1, <1>7, InHand DEF Fresh
  <2>2. \A r \in Record : r \in Waiting /\ r # hand[c] => r \in Waiting'
    BY <1>1, <1>7, WaitingNext
  <2> QED
    BY <1>1, <1>7, <2>1, <2>2 DEF KeptInv
<1>8. ASSUME NEW c \in Client, GiveUp(c) \/ SendBody(c) PROVE KeptInv'
  <2>1. CASE GiveUp(c)
    BY <1>7, <2>1 DEF GiveUp
  <2>2. CASE SendBody(c)
    BY <1>7, <2>2 DEF SendBody
  <2> QED
    BY <1>8, <2>1, <2>2
<1>9. ASSUME NEW c \in Client, Connect(c) \/ RecvHeader(c) \/ SendHead(c) PROVE KeptInv'
  BY <1>3, <1>9 DEF Connect, RecvHeader, SendHead
<1>10. ASSUME NEW c \in Client, Fail(c) PROVE KeptInv'
  <2>1. /\ pc[c] \notin {"pop", "done"} /\ UNCHANGED <<made, queue, quit, sent>>
        /\ \/ discarded' = discarded \cup {hand[c]} /\ NextJob(c)
           \/ UNCHANGED <<hand, discarded>>
    <3>1. pc[c] \notin {"pop", "done"}
      BY <1>10 DEF Fail
    <3> QED
      BY <1>1, <1>10, <3>1, FailCases
  <2>2. CASE discarded' = discarded \cup {hand[c]} /\ NextJob(c)
    BY <1>7, <2>1, <2>2
  <2>3. CASE UNCHANGED <<hand, discarded>>
    BY <1>3, <2>1, <2>3
  <2> QED
    BY <2>1, <2>2, <2>3
<1> QED
  BY <1>1, <1>2, <1>4, <1>5, <1>6, <1>8, <1>9, <1>10, OthersKeepClients DEF Sender

-----------------------------------------------------------------------------
(* The connections and what is on them. *)

LinesInv == LineInv /\ WireInv /\ OwnerInv

(* Only what does not concern the users of a connection has changed. *)
LEMMA SameUse ==
  ASSUME LineInv, UNCHANGED <<mine, slot>>,
         \A k \in Conn : /\ conn'[k].stat = conn[k].stat
                         /\ conn'[k].eof = conn[k].eof
                         /\ LineOK(conn'[k])
  PROVE  LineInv'
<1>1. ASSUME NEW k \in Conn
      PROVE  /\ LineOK(conn'[k])
             /\ conn'[k].stat = "open" <=> \E s \in Slot : slot'[s] = k
             /\ (\E c \in Client : mine'[c] = k)
                  <=> conn'[k].stat # "none" /\ ~conn'[k].eof
  BY DEF LineInv
<1> QED
  BY <1>1 DEF LineInv, LineOK

(* A client that speaks is connected to a peer, or was cut off. *)
LEMMA Speaking ==
  ASSUME TypeOK, ClientInv, LineInv, OwnerInv, NEW c \in Client,
         pc[c] \in {"head", "body"}
  PROVE  /\ mine[c] \in Conn /\ mine[c] # NoConn
         /\ conn[mine[c]].stat \in {"open", "dead"} /\ ~conn[mine[c]].eof
         /\ conn[mine[c]].header
<1>1. mine[c] \in Conn /\ mine[c] # NoConn /\ conn[mine[c]] \in Line
  BY MyLine
<1>2. conn[mine[c]].header
  BY DEF OwnerInv
<1>3. conn[mine[c]].stat # "none" /\ ~conn[mine[c]].eof
  BY <1>1 DEF LineInv
<1>4. conn[mine[c]].stat # "backlog"
  BY <1>1, <1>2 DEF LineInv, LineOK
<1> QED
  BY <1>1, <1>2, <1>3, <1>4 DEF Line

LEMMA ConnectLines ==
  ASSUME TypeOK, ClientInv, LinesInv, NEW c \in Client, Connect(c)
  PROVE  LinesInv'
<1> USE DEF LinesInv
<1>1. PICK k \in Conn :
        /\ conn[k].stat = "none" /\ mine' = [mine EXCEPT ![c] = k]
        /\ \A j \in Conn : j # k => conn'[j] = conn[j]
        /\ conn'[k].stat = "backlog" /\ conn'[k].wire = <<>>
        /\ ~conn'[k].header /\ ~conn'[k].eof
  BY ConnectCases
<1>2. /\ pc[c] = "try" /\ pc' = [pc EXCEPT ![c] = "header"]
      /\ UNCHANGED <<hand, slot, buf>>
  BY DEF Connect, peers
<1>3. mine[c] = NoConn
  BY <1>2 DEF ClientInv, OwnInv
<1>4. /\ mine'[c] = k /\ pc'[c] = "header"
      /\ \A d \in Client : d # c => mine'[d] = mine[d] /\ pc'[d] = pc[d]
  BY <1>1, <1>2 DEF TypeOK
<1>5. /\ \A d \in Client : mine[d] # k
      /\ \A s \in Slot : slot[s] # k
  BY <1>1 DEF LineInv
<1>6. k # NoConn
  BY ConnForm
<1>7. ASSUME NEW j \in Conn
      PROVE  /\ LineOK(conn'[j])
             /\ conn'[j].stat = "open" <=> \E s \in Slot : slot'[s] = j
             /\ (\E d \in Client : mine'[d] = j)
                  <=> conn'[j].stat # "none" /\ ~conn'[j].eof
  <2>1. CASE j = k
    BY <1>1, <1>2, <1>4, <1>5, <2>1 DEF LineOK
  <2>2. CASE j # k
    <3>1. (\E d \in Client : mine'[d] = j) <=> \E d \in Client : mine[d] = j
      BY <1>3, <1>4, <2>2, ConnForm
    <3> QED
      BY <1>1, <1>2, <2>2, <3>1 DEF LineInv
  <2> QED
    BY <2>1, <2>2
<1>8. LineInv'
  <2>1. \A a, b \in Client : mine'[a] = mine'[b] /\ mine'[a] # NoConn => a = b
    BY <1>4, <1>5 DEF LineInv
  <2>2. \A s, t \in Slot : slot'[s] = slot'[t] /\ slot'[s] # NoConn => s = t
    BY <1>2 DEF LineInv
  <2> QED
    BY <1>7, <2>1, <2>2 DEF LineInv, LineOK
<1>9. WireInv'
  <2>1. \A s \in Slot : slot[s] # NoConn => conn'[slot[s]] = conn[slot[s]]
    BY <1>1, <1>5 DEF TypeOK
  <2> QED
    BY <1>2, <2>1 DEF WireInv
<1>10. OwnerInv'
  <2>1. ASSUME NEW d \in Client, d # c
        PROVE  /\ pc'[d] \in {"head", "body"} => conn'[mine'[d]].header
               /\ \A s \in Slot : mine'[d] # NoConn /\ slot'[s] = mine'[d] =>
                    Begun(d, buf[s], conn[mine[d]].wire)'
    <3>1. mine[d] # NoConn => conn'[mine[d]] = conn[mine[d]]
      BY <1>1, <1>5 DEF TypeOK
    <3>2. pc[d] \in {"head", "body"} => mine[d] # NoConn
      BY DEF ClientInv, OwnInv
    <3> QED
      BY <1>2, <1>4, <2>1, <3>1, <3>2 DEF OwnerInv, Begun
  <2>2. \A s \in Slot : slot'[s] # mine'[c]
    BY <1>2, <1>4, <1>5
  <2> QED
    BY <1>4, <2>1, <2>2 DEF OwnerInv
<1> QED
  BY <1>8, <1>9, <1>10

(* A client and its connection that a step leaves alone. *)
LEMMA OwnerStays ==
  ASSUME OwnerInv, NEW d \in Client, UNCHANGED <<slot, buf>>,
         pc'[d] = pc[d], hand'[d] = hand[d], mine'[d] = mine[d],
         pc[d] \in {"head", "body"} => mine[d] # NoConn,
         mine[d] # NoConn => conn'[mine[d]] = conn[mine[d]]
  PROVE  /\ pc'[d] \in {"head", "body"} => conn'[mine'[d]].header
         /\ \A s \in Slot : mine'[d] # NoConn /\ slot'[s] = mine'[d] =>
              Begun(d, buf[s], conn[mine[d]].wire)'
<1>1. pc'[d] \in {"head", "body"} => conn'[mine'[d]].header
  BY DEF OwnerInv
<1>2. ASSUME NEW s \in Slot, mine'[d] # NoConn, slot'[s] = mine'[d]
      PROVE  Begun(d, buf[s], conn[mine[d]].wire)'
  <2>1. Begun(d, buf[s], conn[mine[d]].wire)
    BY <1>2 DEF OwnerInv
  <2> QED
    BY <1>2, <2>1 DEF Begun
<1> QED
  BY <1>1, <1>2

(* A client leaves its connection. *)
LEMMA ClosedLines ==
  ASSUME TypeOK, ClientInv, LinesInv, NEW c \in Client, NEW k \in Conn,
         mine[c] = k, mine' = [mine EXCEPT ![c] = NoConn],
         UNCHANGED <<slot, buf>>, pc'[c] \in {"pop", "try"},
         \A d \in Client : d # c => pc'[d] = pc[d] /\ hand'[d] = hand[d],
         \A j \in Conn : j # k => conn'[j] = conn[j],
         conn[k].stat = "dead" => conn'[k] = NoLine,
         conn[k].stat # "dead" =>
           /\ conn'[k].stat = conn[k].stat /\ conn'[k].eof
           /\ conn'[k].header = conn[k].header
           /\ conn[k].stat = "backlog" => conn'[k].wire = <<>>
           /\ \A s \in Slot : slot[s] = k => Rest(buf[s], conn'[k].wire)
  PROVE  LinesInv'
<1> USE DEF LinesInv
<1>1. /\ mine'[c] = NoConn
      /\ \A d \in Client : d # c => mine'[d] = mine[d] /\ mine[d] # k
  BY ConnForm DEF TypeOK, LineInv
<1>2. conn[k].stat # "none" /\ ~conn[k].eof /\ k # NoConn
  BY ConnForm DEF LineInv
<1>3. NoLine.stat = "none" /\ NoLine.wire = <<>>
  BY DEF NoLine
<1>4. \A s \in Slot : slot[s] = k => conn[k].stat = "open"
  BY DEF LineInv
<1>5. ASSUME NEW j \in Conn
      PROVE  /\ LineOK(conn'[j])
             /\ conn'[j].stat = "open" <=> \E s \in Slot : slot'[s] = j
             /\ (\E d \in Client : mine'[d] = j)
                  <=> conn'[j].stat # "none" /\ ~conn'[j].eof
  <2>1. CASE j = k
    <3>1. ~ \E d \in Client : mine'[d] = k
      BY <1>1, <1>2
    <3>2. LineOK(conn[k]) /\ (conn[k].stat = "open" <=> \E s \in Slot : slot[s] = k)
      BY DEF LineInv
    <3>3. CASE conn[k].stat = "dead"
      BY <1>3, <2>1, <3>1, <3>2, <3>3 DEF LineOK
    <3>4. CASE conn[k].stat # "dead"
      BY <1>2, <2>1, <3>1, <3>2, <3>4 DEF LineOK
    <3> QED
      BY <3>3, <3>4
  <2>2. CASE j # k
    <3>1. (\E d \in Client : mine'[d] = j) <=> \E d \in Client : mine[d] = j
      BY <1>1, <2>2, ConnForm
    <3> QED
      BY <2>2, <3>1 DEF LineInv
  <2> QED
    BY <2>1, <2>2
<1>6. LineInv'
  <2>1. \A a, b \in Client : mine'[a] = mine'[b] /\ mine'[a] # NoConn => a = b
    BY <1>1 DEF LineInv
  <2>2. \A s, t \in Slot : slot'[s] = slot'[t] /\ slot'[s] # NoConn => s = t
    BY DEF LineInv
  <2> QED
    BY <1>5, <2>1, <2>2 DEF LineInv, LineOK
<1>7. WireInv'
  <2>1. ASSUME NEW s \in Slot, slot[s] # NoConn
        PROVE  Rest(buf[s], conn'[slot[s]].wire)
    <3>1. CASE slot[s] = k
      BY <1>4, <3>1
    <3>2. CASE slot[s] # k
      BY <2>1, <3>2 DEF WireInv, TypeOK
    <3> QED
      BY <3>1, <3>2
  <2>2. \A s \in Slot : Rest(buf[s], conn'[slot[s]].wire) = Rest(buf[s], conn[slot[s]].wire)'
    BY DEF Rest
  <2> QED
    BY <2>1, <2>2 DEF WireInv
<1>8. OwnerInv'
  <2>1. ASSUME NEW d \in Client, d # c
        PROVE  /\ pc'[d] \in {"head", "body"} => conn'[mine'[d]].header
               /\ \A s \in Slot : mine'[d] # NoConn /\ slot'[s] = mine'[d] =>
                    Begun(d, buf[s], conn[mine[d]].wire)'
    <3>1. mine[d] # NoConn => conn'[mine[d]] = conn[mine[d]]
      BY <1>1, <2>1 DEF TypeOK
    <3>2. pc[d] \in {"head", "body"} => mine[d] # NoConn
      BY DEF ClientInv, OwnInv
    <3> QED
      BY <1>1, <2>1, <3>1, <3>2, OwnerStays
  <2> QED
    BY <1>1, <2>1 DEF OwnerInv
<1> QED
  BY <1>6, <1>7, <1>8

LEMMA FailLines ==
  ASSUME TypeOK, ClientInv, LinesInv, NEW c \in Client, Fail(c)
  PROVE  LinesInv'
<1> USE DEF LinesInv
<1>1. /\ mine' = [mine EXCEPT ![c] = NoConn] /\ UNCHANGED <<slot, buf>>
      /\ mine[c] = NoConn => conn' = conn
      /\ mine[c] # NoConn => mine[c] \in Conn /\ ClientCloses(mine[c])
  BY FailCases DEF peers
<1>2. /\ pc'[c] \in {"pop", "try"}
      /\ \A d \in Client : d # c => pc'[d] = pc[d] /\ hand'[d] = hand[d]
  BY FailCases, NextJobFields DEF TypeOK
<1>3. CASE mine[c] = NoConn
  <2>1. mine' = mine /\ conn' = conn
    BY <1>1, <1>3 DEF TypeOK
  <2>2. LineInv'
    BY <1>1, <2>1, SameUse DEF LineInv
  <2>3. WireInv'
    BY <1>1, <2>1 DEF WireInv, Rest
  <2>4. \A d \in Client : mine[d] # NoConn => d # c
    BY <1>3
  <2>5. OwnerInv'
    <3>1. \A d \in Client : pc[d] \in {"head", "body"} => mine[d] # NoConn
      BY DEF ClientInv, OwnInv
    <3>2. ASSUME NEW d \in Client, d # c
          PROVE  /\ pc'[d] \in {"head", "body"} => conn'[mine'[d]].header
                 /\ \A s \in Slot : mine'[d] # NoConn /\ slot'[s] = mine'[d] =>
                      Begun(d, buf[s], conn[mine[d]].wire)'
      BY <1>1, <1>2, <2>1, <3>1, <3>2, OwnerStays
    <3> QED
      BY <1>2, <1>3, <2>1, <3>2 DEF OwnerInv
  <2> QED
    BY <2>2, <2>3, <2>5
<1>4. CASE mine[c] # NoConn
  <2>1. mine[c] \in Conn /\ ClientCloses(mine[c]) /\ conn \in [Conn -> Line]
    BY <1>1, <1>4 DEF TypeOK
  <2>2. /\ \A j \in Conn : j # mine[c] => conn'[j] = conn[j]
        /\ conn[mine[c]].stat = "dead" => conn'[mine[c]] = NoLine
        /\ conn[mine[c]].stat # "dead" =>
             /\ conn'[mine[c]].stat = conn[mine[c]].stat
             /\ conn'[mine[c]].wire = conn[mine[c]].wire
             /\ conn'[mine[c]].header = conn[mine[c]].header /\ conn'[mine[c]].eof
    BY <2>1, CloseLine
  <2>3. /\ conn[mine[c]].stat = "backlog" => conn[mine[c]].wire = <<>>
        /\ \A s \in Slot : slot[s] = mine[c] => Rest(buf[s], conn[mine[c]].wire)
    BY <1>4, <2>1 DEF LineInv, LineOK, WireInv
  <2> QED
    BY <1>1, <1>2, <2>1, <2>2, <2>3, ClosedLines
<1> QED
  BY <1>3, <1>4

LEMMA SendBodyLines ==
  ASSUME IInv, NEW c \in Client, SendBody(c)
  PROVE  LinesInv'
<1> DEFINE k == mine[c]
           r == hand[c]
<1>1. TypeOK /\ ClientInv /\ LinesInv /\ LineInv /\ OwnerInv
  BY DEF IInv, LinesInv
<1>2. /\ pc[c] = "body" /\ mine' = [mine EXCEPT ![c] = NoConn] /\ NextJob(c)
      /\ UNCHANGED <<slot, buf>>
  BY DEF SendBody, peers
<1>3. /\ pc'[c] = "pop"
      /\ \A d \in Client : d # c => pc'[d] = pc[d] /\ hand'[d] = hand[d]
  BY <1>1, <1>2, NextJobFields
<1>4. /\ k \in Conn /\ k # NoConn /\ conn[k].stat \in {"open", "dead"}
  BY <1>1, <1>2, Speaking
<1>5. /\ r \in Record
      /\ \A j \in Conn : j # k => conn'[j] = conn[j]
      /\ conn[k].stat = "dead" => conn'[k] = NoLine
      /\ conn[k].stat # "dead" =>
           /\ conn'[k].stat = conn[k].stat /\ conn'[k].eof
           /\ conn'[k].header = conn[k].header
           /\ conn'[k].wire = Append(conn[k].wire, BodyOf(r))
  BY SendBodyCases
<1>6. ASSUME conn[k].stat # "dead", NEW s \in Slot, slot[s] = k
      PROVE  Rest(buf[s], conn'[k].wire)
  <2>1. Begun(c, buf[s], conn[k].wire)
    BY <1>1, <1>4, <1>6 DEF OwnerInv
  <2>2. /\ Append(<<>>, BodyOf(r)) = <<BodyOf(r)>>
        /\ Append(<<HeadOf(r)>>, BodyOf(r)) = <<HeadOf(r), BodyOf(r)>>
        /\ Tail(<<HeadOf(r), BodyOf(r)>>) = <<BodyOf(r)>>
    BY Pairs
  <2>3. CASE buf[s] = <<>> /\ conn[k].wire = <<HeadOf(r)>>
    BY <1>5, <1>6, <2>2, <2>3 DEF Rest
  <2>4. CASE buf[s] = <<HeadOf(r)>> /\ conn[k].wire = <<>>
    BY <1>5, <1>6, <2>2, <2>4 DEF Rest
  <2> QED
    BY <1>2, <2>1, <2>3, <2>4 DEF Begun
<1> HIDE DEF k, r
<1>7. k = mine[c]
  BY DEF k
<1> QED
  BY <1>1, <1>2, <1>3, <1>4, <1>5, <1>6, <1>7, ClosedLines

LEMMA SendHeadLines ==
  ASSUME IInv, NEW c \in Client, SendHead(c)
  PROVE  LinesInv'
<1> DEFINE k == mine[c]
           r == hand[c]
<1>1. TypeOK /\ ClientInv /\ LineInv /\ OwnerInv /\ WireInv
  BY DEF IInv
<1>2. /\ pc[c] = "head" /\ pc' = [pc EXCEPT ![c] = "body"]
      /\ UNCHANGED <<mine, hand, slot, buf>>
  BY DEF SendHead, peers
<1>3. /\ k \in Conn /\ k # NoConn /\ conn[k].stat \in {"open", "dead"} /\ conn[k].header
  BY <1>1, <1>2, Speaking
<1>4. /\ r \in Record
      /\ \A j \in Conn : j # k => conn'[j] = conn[j]
      /\ conn'[k].stat = conn[k].stat /\ conn'[k].eof = conn[k].eof
      /\ conn'[k].header = conn[k].header
      /\ conn[k].stat = "dead" => conn'[k].wire = conn[k].wire
      /\ conn[k].stat # "dead" => conn'[k].wire = Append(conn[k].wire, HeadOf(r))
  BY SendHeadCases
<1>5. LineInv'
  <2>1. ASSUME NEW j \in Conn
        PROVE  conn'[j].stat = conn[j].stat /\ conn'[j].eof = conn[j].eof /\ LineOK(conn'[j])
    <3>1. LineOK(conn[j])
      BY <1>1 DEF LineInv
    <3>2. CASE j = k
      BY <1>3, <1>4, <3>1, <3>2 DEF LineOK
    <3> QED
      BY <1>4, <3>1, <3>2
  <2> QED
    BY <1>1, <1>2, <2>1, SameUse
<1>6. ASSUME NEW s \in Slot, slot[s] = k
      PROVE  buf[s] = <<>> /\ conn'[k].wire = <<HeadOf(r)>>
  <2>1. Begun(c, buf[s], conn[k].wire) /\ conn[k].stat = "open"
    BY <1>1, <1>3, <1>6 DEF OwnerInv, LineInv
  <2>2. buf[s] = <<>> /\ conn[k].wire = <<>>
    BY <1>2, <2>1 DEF Begun
  <2>3. Append(<<>>, HeadOf(r)) = <<HeadOf(r)>>
    BY Pairs
  <2> QED
    BY <1>4, <2>1, <2>2, <2>3
<1>7. WireInv'
  <2>1. ASSUME NEW s \in Slot, slot[s] # NoConn
        PROVE  Rest(buf[s], conn'[slot[s]].wire)
    <3>1. CASE slot[s] = k
      BY <1>4, <1>6, <3>1 DEF Rest
    <3>2. CASE slot[s] # k
      BY <1>1, <1>4, <2>1, <3>2 DEF WireInv, TypeOK
    <3> QED
      BY <3>1, <3>2
  <2> QED
    BY <1>1, <1>2, <2>1 DEF WireInv, Rest
<1>8. OwnerInv'
  <2>1. ASSUME NEW d \in Client, d # c
        PROVE  /\ pc'[d] \in {"head", "body"} => conn'[mine'[d]].header
               /\ \A s \in Slot : mine'[d] # NoConn /\ slot'[s] = mine'[d] =>
                    Begun(d, buf[s], conn[mine[d]].wire)'
    <3>1. mine[d] # NoConn => conn'[mine[d]] = conn[mine[d]]
      BY <1>1, <1>3, <1>4, <2>1 DEF TypeOK, LineInv
    <3>2. pc[d] \in {"head", "body"} => mine[d] # NoConn
      BY <1>1 DEF ClientInv, OwnInv
    <3>3. pc'[d] = pc[d]
      BY <1>1, <1>2, <2>1 DEF TypeOK
    <3> QED
      BY <1>1, <1>2, <2>1, <3>1, <3>2, <3>3 DEF OwnerInv, Begun
  <2>2. pc'[c] = "body"
    BY <1>1, <1>2 DEF TypeOK
  <2>3. conn'[mine'[c]].header
    BY <1>2, <1>3, <1>4
  <2>4. ASSUME NEW s \in Slot, slot'[s] = mine'[c]
        PROVE  Begun(c, buf[s], conn[mine[c]].wire)'
    BY <1>2, <1>6, <2>2, <2>4 DEF Begun
  <2> QED
    BY <2>1, <2>3, <2>4 DEF OwnerInv
<1> QED
  BY <1>5, <1>7, <1>8 DEF LinesInv

(* What a step of the server does to a client that keeps its connection. *)
LEMMA OwnersStay ==
  ASSUME TypeOK, ClientInv, OwnerInv, UNCHANGED client,
         \A c \in Client : mine[c] # NoConn =>
           /\ pc[c] \in {"head", "body"} => conn'[mine[c]].header
           /\ \A s \in Slot : slot'[s] = mine[c] =>
                Begun(c, buf[s], conn[mine[c]].wire)'
  PROVE  OwnerInv'
<1>1. \A c \in Client : pc[c] \in {"head", "body"} => mine[c] # NoConn
  BY DEF ClientInv, OwnInv
<1> QED
  BY <1>1 DEF OwnerInv, client

LEMMA AcceptLines ==
  ASSUME TypeOK, ClientInv, LinesInv, NEW k \in Conn, HandleConnect(k)
  PROVE  LinesInv'
<1> USE DEF LinesInv
<1>1. /\ conn[k].stat = "backlog" /\ UNCHANGED client
      /\ \A j \in Conn : j # k => conn'[j] = conn[j]
  BY AcceptCases
<1>2. /\ LineOK(conn[k]) /\ conn[k] \in Line /\ conn[k].wire = <<>> /\ ~conn[k].header
      /\ \A s \in Slot : slot[s] # k
      /\ k # NoConn /\ UNCHANGED <<mine, pc, hand>>
  BY <1>1, ConnForm DEF LineInv, LineOK, TypeOK, client
<1>3. \A c \in Client : mine[c] = k => pc[c] \notin {"head", "body"} /\ ~conn[k].eof
  BY <1>1, <1>2 DEF OwnerInv, LineInv
<1>4. CASE conn'[k] = Cut(conn[k]) /\ UNCHANGED peers
  <2>1. /\ slot' = slot /\ buf' = buf
        /\ conn'[k].wire = <<>> /\ conn'[k].stat \in {"none", "dead"}
        /\ conn'[k].stat = "none" => conn'[k] = NoLine
        /\ conn'[k].stat = "dead" => ~conn'[k].eof
        /\ conn'[k].stat # "none" <=> ~conn[k].eof
    BY <1>1, <1>2, <1>4, CutLine DEF peers
  <2>2. ASSUME NEW j \in Conn
        PROVE  /\ LineOK(conn'[j])
               /\ conn'[j].stat = "open" <=> \E s \in Slot : slot'[s] = j
               /\ (\E d \in Client : mine'[d] = j)
                    <=> conn'[j].stat # "none" /\ ~conn'[j].eof
    <3>1. CASE j = k
      <4>1. (\E d \in Client : mine[d] = k) <=> ~conn[k].eof
        BY <1>1 DEF LineInv
      <4>2. LineOK(conn'[k])
        BY <2>1 DEF LineOK
      <4>3. conn'[k].stat # "none" <=> conn'[k].stat # "none" /\ ~conn'[k].eof
        BY <2>1
      <4> QED
        BY <1>2, <2>1, <3>1, <4>1, <4>2, <4>3
    <3>2. CASE j # k
      BY <1>1, <1>2, <2>1, <3>2 DEF LineInv
    <3> QED
      BY <3>1, <3>2
  <2>3. LineInv'
    BY <1>2, <2>1, <2>2 DEF LineInv, LineOK
  <2>4. \A s \in Slot : slot[s] # NoConn => conn'[slot[s]] = conn[slot[s]]
    BY <1>1, <1>2 DEF TypeOK
  <2>5. WireInv'
    BY <2>1, <2>4 DEF WireInv
  <2>6. OwnerInv'
    <3>1. ASSUME NEW c \in Client, mine[c] # NoConn
          PROVE  /\ pc[c] \in {"head", "body"} => conn'[mine[c]].header
                 /\ \A s \in Slot : slot'[s] = mine[c] =>
                      Begun(c, buf[s], conn[mine[c]].wire)'
      <4>1. CASE mine[c] = k
        BY <1>2, <1>3, <2>1, <4>1
      <4>2. CASE mine[c] # k
        <5>1. conn'[mine[c]] = conn[mine[c]]
          BY <1>1, <3>1, <4>2 DEF TypeOK
        <5> QED
          BY <1>2, <2>1, <3>1, <5>1 DEF OwnerInv, Begun
      <4> QED
        BY <4>1, <4>2
    <3> QED
      BY <1>1, <3>1, OwnersStay
  <2> QED
    BY <2>3, <2>5, <2>6
<1>5. ASSUME NEW s \in Slot, slot[s] = NoConn, slot' = [slot EXCEPT ![s] = k],
             buf' = [buf EXCEPT ![s] = <<>>],
             conn'[k].stat = "open", conn'[k].wire = conn[k].wire,
             conn'[k].eof = conn[k].eof, conn'[k].header = conn[k].header
      PROVE  LinesInv'
  <2>1. /\ slot'[s] = k /\ buf'[s] = <<>>
        /\ \A t \in Slot : t # s => slot'[t] = slot[t] /\ buf'[t] = buf[t]
    BY <1>5 DEF TypeOK
  <2>2. ASSUME NEW j \in Conn
        PROVE  /\ LineOK(conn'[j])
               /\ conn'[j].stat = "open" <=> \E t \in Slot : slot'[t] = j
               /\ (\E d \in Client : mine'[d] = j)
                    <=> conn'[j].stat # "none" /\ ~conn'[j].eof
    <3>1. CASE j = k
      BY <1>1, <1>2, <1>5, <2>1, <3>1 DEF LineInv, LineOK
    <3>2. CASE j # k
      <4>1. (\E t \in Slot : slot'[t] = j) <=> \E t \in Slot : slot[t] = j
        BY <1>5, <2>1, <3>2, ConnForm
      <4> QED
        BY <1>1, <1>2, <3>2, <4>1 DEF LineInv
    <3> QED
      BY <3>1, <3>2
  <2>3. \A t, u \in Slot : slot'[t] = slot'[u] /\ slot'[t] # NoConn => t = u
    BY <1>2, <2>1 DEF LineInv
  <2>4. LineInv'
    BY <1>2, <2>2, <2>3 DEF LineInv, LineOK
  <2>5. WireInv'
    <3>1. \A t \in Slot : buf'[t] = <<>> \/ \E r \in Record : buf'[t] = <<HeadOf(r)>>
      BY <2>1 DEF WireInv
    <3>2. ASSUME NEW t \in Slot, slot'[t] # NoConn
          PROVE  Rest(buf'[t], conn'[slot'[t]].wire)
      <4>1. CASE t = s
        BY <1>2, <1>5, <2>1, <4>1 DEF Rest
      <4>2. CASE t # s
        <5>1. conn'[slot[t]] = conn[slot[t]] /\ slot[t] # NoConn
          BY <1>1, <1>2, <2>1, <3>2, <4>2 DEF TypeOK
        <5> QED
          BY <2>1, <4>2, <5>1 DEF WireInv
      <4> QED
        BY <4>1, <4>2
    <3> QED
      BY <3>1, <3>2 DEF WireInv, Rest
  <2>6. OwnerInv'
    <3>1. ASSUME NEW c \in Client, mine[c] # NoConn
          PROVE  /\ pc[c] \in {"head", "body"} => conn'[mine[c]].header
                 /\ \A t \in Slot : slot'[t] = mine[c] =>
                      Begun(c, buf[t], conn[mine[c]].wire)'
      <4>1. CASE mine[c] = k
        <5>1. \A t \in Slot : slot'[t] = k => t = s
          BY <1>2, <2>1
        <5> QED
          BY <1>2, <1>3, <1>5, <2>1, <4>1, <5>1 DEF Begun
      <4>2. CASE mine[c] # k
        <5>1. conn'[mine[c]] = conn[mine[c]]
          BY <1>1, <3>1, <4>2 DEF TypeOK
        <5>2. \A t \in Slot : slot'[t] = mine[c] => t # s
          BY <2>1, <4>2
        <5> QED
          BY <1>2, <2>1, <3>1, <5>1, <5>2 DEF OwnerInv, Begun
      <4> QED
        BY <4>1, <4>2
    <3> QED
      BY <1>1, <3>1, OwnersStay
  <2> QED
    BY <2>4, <2>5, <2>6
<1> QED
  BY <1>4, <1>5, AcceptCases

LEMMA GreetLines ==
  ASSUME TypeOK, ClientInv, LinesInv, NEW s \in Slot, SendHeader(s)
  PROVE  LinesInv'
<1> USE DEF LinesInv
<1>1. /\ slot[s] \in Conn /\ UNCHANGED <<client, mine, pc, hand, slot, buf>>
      /\ \A j \in Conn : j # slot[s] => conn'[j] = conn[j]
      /\ conn'[slot[s]].header
      /\ conn'[slot[s]].stat = conn[slot[s]].stat
      /\ conn'[slot[s]].wire = conn[slot[s]].wire
      /\ conn'[slot[s]].eof = conn[slot[s]].eof
  BY GreetCases DEF client, peers
<1>2. conn[slot[s]].stat = "open"
  BY <1>1 DEF LineInv
<1>3. \A j \in Conn : /\ conn'[j].stat = conn[j].stat /\ conn'[j].eof = conn[j].eof
                      /\ conn'[j].wire = conn[j].wire
                      /\ conn[j].header => conn'[j].header
  BY <1>1
<1>4. LineInv'
  <2>1. ASSUME NEW j \in Conn PROVE LineOK(conn'[j])
    <3>1. LineOK(conn[j])
      BY DEF LineInv
    <3>2. CASE j = slot[s]
      BY <1>1, <1>2, <3>2 DEF LineOK
    <3> QED
      BY <1>1, <3>1, <3>2
  <2> QED
    BY <1>1, <1>3, <2>1, SameUse
<1>5. WireInv'
  BY <1>1, <1>3 DEF WireInv, TypeOK
<1>6. OwnerInv'
  <2>1. ASSUME NEW c \in Client, mine[c] # NoConn
        PROVE  /\ pc[c] \in {"head", "body"} => conn'[mine[c]].header
               /\ \A t \in Slot : slot'[t] = mine[c] =>
                    Begun(c, buf[t], conn[mine[c]].wire)'
    <3>1. mine[c] \in Conn
      BY <2>1 DEF TypeOK
    <3> QED
      BY <1>1, <1>3, <2>1, <3>1 DEF OwnerInv, Begun
  <2> QED
    BY <1>1, <2>1, OwnersStay
<1> QED
  BY <1>4, <1>5, <1>6

LEMMA ClearLines ==
  ASSUME TypeOK, ClientInv, LinesInv, UNCHANGED <<client, buf>>,
         NEW s \in Slot, slot[s] # NoConn, Clear(s)
  PROVE  LinesInv'
<1> USE DEF LinesInv
<1> DEFINE k == slot[s]
<1>1. /\ k \in Conn /\ conn[k] \in Line
      /\ \A j \in Conn : j # k => conn'[j] = conn[j]
      /\ conn'[k] = Cut(conn[k])
      /\ slot' = [slot EXCEPT ![s] = NoConn]
      /\ UNCHANGED <<mine, pc, hand>>
  BY ClearCases DEF client, TypeOK
<1>2. /\ slot'[s] = NoConn /\ \A t \in Slot : t # s => slot'[t] = slot[t] /\ slot[t] # k
  BY <1>1 DEF TypeOK, LineInv
<1>3. /\ conn'[k].wire = <<>> /\ conn'[k].stat \in {"none", "dead"}
      /\ conn'[k].stat = "none" => conn'[k] = NoLine
      /\ conn'[k].stat = "dead" => ~conn'[k].eof /\ conn'[k].header = conn[k].header
      /\ conn'[k].stat # "none" <=> conn[k].stat # "none" /\ ~conn[k].eof
  BY <1>1, CutLine
<1>4. k # NoConn /\ \A t \in Slot : slot'[t] # k
  BY <1>1, <1>2, ConnForm
<1>5. ASSUME NEW j \in Conn
      PROVE  /\ LineOK(conn'[j])
             /\ conn'[j].stat = "open" <=> \E t \in Slot : slot'[t] = j
             /\ (\E d \in Client : mine'[d] = j)
                  <=> conn'[j].stat # "none" /\ ~conn'[j].eof
  <2>1. CASE j = k
    <3>1. (\E d \in Client : mine[d] = k) <=> conn[k].stat # "none" /\ ~conn[k].eof
      BY <1>1 DEF LineInv
    <3>2. LineOK(conn'[k])
      BY <1>3 DEF LineOK
    <3>3. conn'[k].stat # "none" <=> conn'[k].stat # "none" /\ ~conn'[k].eof
      BY <1>3
    <3>4. ~(conn'[k].stat = "open")
      BY <1>3
    <3> QED
      BY <1>1, <1>3, <1>4, <2>1, <3>1, <3>2, <3>3, <3>4
  <2>2. CASE j # k
    <3>1. (\E t \in Slot : slot'[t] = j) <=> \E t \in Slot : slot[t] = j
      BY <1>2, <2>2, ConnForm
    <3> QED
      BY <1>1, <2>2, <3>1 DEF LineInv
  <2> QED
    BY <2>1, <2>2
<1>6. LineInv'
  <2>1. \A t, u \in Slot : slot'[t] = slot'[u] /\ slot'[t] # NoConn => t = u
    BY <1>2 DEF LineInv
  <2> QED
    BY <1>1, <1>5, <2>1 DEF LineInv, LineOK
<1>7. WireInv'
  <2>1. ASSUME NEW t \in Slot, slot'[t] # NoConn
        PROVE  Rest(buf[t], conn'[slot'[t]].wire)
    <3>1. t # s /\ slot'[t] = slot[t] /\ slot[t] # k /\ slot[t] # NoConn
      BY <1>2, <2>1
    <3>2. conn'[slot[t]] = conn[slot[t]]
      BY <1>1, <3>1 DEF TypeOK
    <3> QED
      BY <3>1, <3>2 DEF WireInv
  <2> QED
    BY <2>1 DEF WireInv, Rest
<1>8. OwnerInv'
  <2>1. ASSUME NEW c \in Client, mine[c] # NoConn
        PROVE  /\ pc[c] \in {"head", "body"} => conn'[mine[c]].header
               /\ \A t \in Slot : slot'[t] = mine[c] =>
                    Begun(c, buf[t], conn[mine[c]].wire)'
    <3>1. CASE mine[c] = k
      <4>1. conn[k].stat # "none" /\ ~conn[k].eof
        BY <1>1, <3>1 DEF LineInv
      <4>2. conn'[k].header = conn[k].header
        BY <1>3, <4>1
      <4>3. pc[c] \in {"head", "body"} => conn[k].header
        BY <3>1 DEF OwnerInv
      <4> QED
        BY <1>4, <3>1, <4>2, <4>3
    <3>2. CASE mine[c] # k
      <4>1. conn'[mine[c]] = conn[mine[c]]
        BY <1>1, <2>1, <3>2 DEF TypeOK
      <4>2. \A t \in Slot : slot'[t] = mine[c] => slot[t] = mine[c]
        BY <1>2, <2>1
      <4> QED
        BY <1>1, <2>1, <4>1, <4>2 DEF OwnerInv, Begun
    <3> QED
      BY <3>1, <3>2
  <2> QED
    BY <2>1, OwnersStay
<1> QED
  BY <1>6, <1>7, <1>8

LEMMA RecvLines ==
  ASSUME TypeOK, ClientInv, LinesInv, NEW s \in Slot, HandleRecv(s)
  PROVE  LinesInv'
<1> USE DEF LinesInv
<1> DEFINE k == slot[s]
<1>0. PICK r \in Record : RecvHead(s, r) \/ RecvBody(s, r) \/ RecvBreak(s, r)
  BY RecvCases
<1>9. CASE RecvBreak(s, r)
  BY <1>9, RecvCases, ClearLines DEF RecvBreak
<1> SUFFICES ASSUME RecvHead(s, r) \/ RecvBody(s, r) PROVE LinesInv'
  BY <1>0, <1>9
<1>1. /\ k \in Conn /\ k # NoConn
      /\ UNCHANGED <<client, mine, pc, hand, slot>>
  <2>1. UNCHANGED slot
    BY DEF RecvHead, RecvBody
  <2> QED
    BY <2>1, RecvCases DEF client
<1>2. RecvHead(s, r) \/ RecvBody(s, r)
  OBVIOUS
<1>3. /\ \A j \in Conn : j # k => conn'[j] = conn[j]
      /\ conn'[k].header = conn[k].header
      /\ conn'[k].stat = conn[k].stat /\ conn'[k].eof = conn[k].eof
      /\ conn[k].stat = "open"
  BY <1>1, <1>2, RecvLine DEF LineInv
<1>4. /\ buf[s] = <<>> /\ buf'[s] = <<HeadOf(r)>> /\ conn[k].wire # <<>>
         /\ \/ conn[k].wire = <<HeadOf(r)>> /\ conn'[k].wire = <<>>
            \/ /\ conn[k].wire = <<HeadOf(r), BodyOf(r)>>
               /\ conn'[k].wire = <<BodyOf(r)>>
      \/ /\ buf[s] = <<HeadOf(r)>> /\ buf'[s] = <<>>
         /\ conn[k].wire = <<BodyOf(r)>> /\ conn'[k].wire = <<>>
  <2>1. conn[k] \in Line /\ conn \in [Conn -> Line] /\ buf \in [Slot -> Seq(Chunk)]
    BY <1>1 DEF TypeOK
  <2>2. <<HeadOf(r)>> # <<>> /\ <<HeadOf(r), BodyOf(r)>> # <<>>
    BY Pairs
  <2>3. CASE RecvHead(s, r)
    <3>1. buf'[s] = <<HeadOf(r)>>
      BY <2>1, <2>3 DEF RecvHead
    <3>2. \A w : conn' = [conn EXCEPT ![k].wire = w] => conn'[k].wire = w
      BY <1>1, <2>1 DEF Line
    <3> QED
      BY <2>2, <2>3, <3>1, <3>2 DEF RecvHead
  <2>4. CASE RecvBody(s, r)
    <3>1. buf'[s] = <<>>
      BY <2>1, <2>4 DEF RecvBody
    <3>2. \A w : conn' = [conn EXCEPT ![k].wire = w] => conn'[k].wire = w
      BY <1>1, <2>1 DEF Line
    <3> QED
      BY <2>4, <3>1, <3>2 DEF RecvBody
  <2> QED
    BY <1>2, <2>3, <2>4
<1>5. \A t \in Slot : t # s => buf'[t] = buf[t] /\ slot[t] # k
  <2>1. \A t \in Slot : t # s => slot[t] # k
    BY <1>1 DEF LineInv
  <2>2. \A t \in Slot : t # s => buf'[t] = buf[t]
    BY <1>2 DEF TypeOK, RecvHead, RecvBody
  <2> QED
    BY <2>1, <2>2
<1>6. LineInv'
  <2>1. ASSUME NEW j \in Conn
        PROVE  conn'[j].stat = conn[j].stat /\ conn'[j].eof = conn[j].eof /\ LineOK(conn'[j])
    <3>1. LineOK(conn[j])
      BY DEF LineInv
    <3>2. CASE j = k
      BY <1>3, <3>2 DEF LineOK
    <3> QED
      BY <1>3, <3>1, <3>2
  <2> QED
    BY <1>1, <2>1, SameUse
<1>7. WireInv'
  <2>1. \A t \in Slot : buf'[t] = <<>> \/ \E q \in Record : buf'[t] = <<HeadOf(q)>>
    BY <1>4, <1>5 DEF WireInv
  <2>2. ASSUME NEW t \in Slot, slot[t] # NoConn
        PROVE  Rest(buf'[t], conn'[slot[t]].wire)
    <3>1. CASE t = s
      BY <1>4, <3>1 DEF Rest
    <3>2. CASE t # s
      <4>1. conn'[slot[t]] = conn[slot[t]]
        BY <1>3, <1>5, <2>2, <3>2 DEF TypeOK
      <4> QED
        BY <1>5, <2>2, <3>2, <4>1 DEF WireInv
    <3> QED
      BY <3>1, <3>2
  <2> QED
    BY <1>1, <2>1, <2>2 DEF WireInv, Rest
<1>8. OwnerInv'
  <2>1. ASSUME NEW c \in Client, mine[c] # NoConn
        PROVE  /\ pc[c] \in {"head", "body"} => conn'[mine[c]].header
               /\ \A t \in Slot : slot'[t] = mine[c] =>
                    Begun(c, buf[t], conn[mine[c]].wire)'
    <3>1. CASE mine[c] = k
      <4>1. Begun(c, buf[s], conn[k].wire)
        BY <1>1, <3>1 DEF OwnerInv
      <4>2. <<HeadOf(r)>> # <<>> /\ <<BodyOf(r)>> # <<>>
        BY Pairs
      <4>3. <<HeadOf(hand[c])>> # <<HeadOf(r), BodyOf(r)>>
        <5>1. Len(<<HeadOf(hand[c])>>) = 1 /\ Len(<<HeadOf(r), BodyOf(r)>>) = 2
          BY Pairs
        <5> QED
          BY <5>1
      <4>4. /\ pc[c] = "body" /\ buf[s] = <<>> /\ conn[k].wire = <<HeadOf(hand[c])>>
            /\ conn'[k].wire = <<>> /\ buf'[s] = <<HeadOf(hand[c])>>
        BY <1>4, <4>1, <4>2, <4>3 DEF Begun
      <4>5. \A t \in Slot : slot[t] = k => t = s
        BY <1>5
      <4>6. pc[c] \in {"head", "body"} => conn'[mine[c]].header
        BY <1>3, <3>1 DEF OwnerInv
      <4>7. ASSUME NEW t \in Slot, slot'[t] = mine[c]
            PROVE  Begun(c, buf[t], conn[mine[c]].wire)'
        <5>1. t = s
          BY <1>1, <3>1, <4>5, <4>7
        <5> QED
          BY <1>1, <3>1, <4>4, <5>1 DEF Begun
      <4> QED
        BY <4>6, <4>7
    <3>2. CASE mine[c] # k
      <4>1. conn'[mine[c]] = conn[mine[c]]
        BY <1>3, <2>1, <3>2 DEF TypeOK
      <4>2. \A t \in Slot : slot'[t] = mine[c] => t # s /\ slot[t] = mine[c]
        BY <1>1, <3>2
      <4> QED
        BY <1>1, <1>5, <2>1, <4>1, <4>2 DEF OwnerInv, Begun
    <3> QED
      BY <3>1, <3>2
  <2> QED
    BY <1>1, <2>1, OwnersStay
<1> QED
  BY <1>6, <1>7, <1>8

LEMMA DownLines ==
  ASSUME TypeOK, ClientInv, LinesInv, Down
  PROVE  LinesInv'
<1> USE DEF LinesInv
<1>1. /\ \A k \in Conn : conn'[k] = Cut(conn[k])
      /\ \A s \in Slot : slot'[s] = NoConn /\ buf'[s] = <<>>
      /\ UNCHANGED <<client, mine, pc, hand>>
  BY DownCases DEF client
<1>2. ASSUME NEW k \in Conn
      PROVE  /\ LineOK(conn'[k])
             /\ conn'[k].stat = "open" <=> \E s \in Slot : slot'[s] = k
             /\ (\E c \in Client : mine'[c] = k)
                  <=> conn'[k].stat # "none" /\ ~conn'[k].eof
  <2>1. /\ conn'[k].wire = <<>> /\ conn'[k].stat \in {"none", "dead"}
        /\ conn'[k].stat = "none" => conn'[k] = NoLine
        /\ conn'[k].stat = "dead" => ~conn'[k].eof
        /\ conn'[k].stat # "none" <=> conn[k].stat # "none" /\ ~conn[k].eof
    BY <1>1, CutLine DEF TypeOK
  <2>2. LineOK(conn'[k])
    BY <2>1 DEF LineOK
  <2>3. conn'[k].stat # "none" <=> conn'[k].stat # "none" /\ ~conn'[k].eof
    BY <2>1
  <2>4. (\E c \in Client : mine[c] = k) <=> conn[k].stat # "none" /\ ~conn[k].eof
    BY DEF LineInv
  <2>5. ~(conn'[k].stat = "open") /\ \A s \in Slot : slot'[s] # k
    BY <1>1, <2>1, ConnForm
  <2> QED
    BY <1>1, <2>1, <2>2, <2>3, <2>4, <2>5
<1>3. LineInv'
  BY <1>1, <1>2 DEF LineInv, LineOK
<1>4. WireInv'
  BY <1>1 DEF WireInv
<1>5. OwnerInv'
  <2>1. ASSUME NEW c \in Client, mine[c] # NoConn
        PROVE  /\ pc[c] \in {"head", "body"} => conn'[mine[c]].header
               /\ \A t \in Slot : slot'[t] = mine[c] =>
                    Begun(c, buf[t], conn[mine[c]].wire)'
    <3>1. mine[c] \in Conn /\ conn[mine[c]] \in Line
      BY <2>1 DEF TypeOK
    <3>2. conn[mine[c]].stat # "none" /\ ~conn[mine[c]].eof
      BY <3>1 DEF LineInv
    <3>3. conn'[mine[c]].header = conn[mine[c]].header
      BY <1>1, <3>1, <3>2, CutLine
    <3>4. pc[c] \in {"head", "body"} => conn[mine[c]].header
      BY DEF OwnerInv
    <3> QED
      BY <1>1, <2>1, <3>3, <3>4
  <2> QED
    BY <1>1, <2>1, OwnersStay
<1> QED
  BY <1>3, <1>4, <1>5

(* A client between two connections, or told to speak. *)
LEMMA IdleLines ==
  ASSUME TypeOK, ClientInv, LinesInv, NEW c \in Client,
         UNCHANGED <<mine, conn, slot, buf>>,
         \A d \in Client : d # c => pc'[d] = pc[d] /\ hand'[d] = hand[d],
         \/ mine[c] = NoConn /\ pc'[c] \notin {"head", "body"}
         \/ /\ mine[c] # NoConn /\ pc[c] = "header" /\ pc'[c] = "head"
            /\ conn[mine[c]].header
  PROVE  LinesInv'
<1> USE DEF LinesInv
<1>1. LineInv'
  BY DEF LineInv
<1>2. WireInv'
  BY DEF WireInv
<1>3. OwnerInv'
  <2>1. ASSUME NEW d \in Client, d # c
        PROVE  /\ pc'[d] \in {"head", "body"} => conn'[mine'[d]].header
               /\ \A s \in Slot : mine'[d] # NoConn /\ slot'[s] = mine'[d] =>
                    Begun(d, buf[s], conn[mine[d]].wire)'
    BY <2>1 DEF OwnerInv, Begun
  <2>2. /\ pc'[c] \in {"head", "body"} => conn'[mine'[c]].header
        /\ \A s \in Slot : mine'[c] # NoConn /\ slot'[s] = mine'[c] =>
             Begun(c, buf[s], conn[mine[c]].wire)'
    BY DEF OwnerInv, Begun
  <2> QED
    BY <2>1, <2>2 DEF OwnerInv
<1> QED
  BY <1>1, <1>2, <1>3

LEMMA LinesStep == ASSUME IInv, [Next]_vars PROVE LinesInv'
<1>1. TypeOK /\ ClientInv /\ LinesInv
  BY DEF IInv, LinesInv
<1>2. ASSUME UNCHANGED <<mine, conn, slot, buf, pc, hand>> PROVE LinesInv'
  BY <1>1, <1>2 DEF LinesInv, LineInv, WireInv, OwnerInv, Begun
<1>3. ASSUME NEW c \in Client, Sender(c) PROVE LinesInv'
  <2>1. CASE Pop(c) \/ GiveUp(c)
    <3>1. pc[c] \in {"pop", "try"} /\ UNCHANGED <<mine, conn, slot, buf>>
      BY <2>1 DEF Pop, GiveUp, peers
    <3>2. mine[c] = NoConn
      BY <1>1, <3>1 DEF ClientInv, OwnInv
    <3>3. /\ pc'[c] \notin {"head", "body"}
          /\ \A d \in Client : d # c => pc'[d] = pc[d] /\ hand'[d] = hand[d]
      BY <1>1, <2>1, NextJobFields DEF Pop, GiveUp, TypeOK
    <3> QED
      BY <1>1, <3>1, <3>2, <3>3, IdleLines
  <2>2. CASE RecvHeader(c)
    <3>1. /\ pc[c] = "header" /\ conn[mine[c]].header /\ pc'[c] = "head"
          /\ UNCHANGED <<mine, conn, slot, buf, hand>>
          /\ \A d \in Client : d # c => pc'[d] = pc[d]
      BY <1>1, <2>2 DEF RecvHeader, peers, TypeOK
    <3>2. mine[c] # NoConn
      BY <1>1, <3>1 DEF ClientInv, OwnInv
    <3> QED
      BY <1>1, <3>1, <3>2, IdleLines
  <2> QED
    BY <1>1, <1>3, <2>1, <2>2, ConnectLines, SendHeadLines, SendBodyLines, FailLines
    DEF Sender
<1>4. ASSUME NEW s \in Slot, HandleEof(s) \/ Lose(s) PROVE LinesInv'
  <2>1. slot[s] # NoConn /\ Clear(s) /\ UNCHANGED <<client, buf>>
    BY <1>4 DEF HandleEof, Lose
  <2> QED
    BY <1>1, <2>1, ClearLines
<1>5. ASSUME Exit \/ Crash PROVE LinesInv'
  BY <1>1, <1>5, DownLines DEF Exit, Crash
<1>6. ASSUME NEW c \in Client, AddRec(c) \/ EndClient(c) PROVE LinesInv'
  BY <1>2, <1>6 DEF AddRec, EndClient, peers
<1>7. ASSUME PushFree \/ Worker \/ QuitServer \/ Start \/ UNCHANGED vars PROVE LinesInv'
  BY <1>2, <1>7 DEF PushFree, Worker, Take, Transact, QuitServer, Start, vars, client, peers
<1>8. ASSUME NEW k \in Conn, HandleConnect(k) PROVE LinesInv'
  BY <1>1, <1>8, AcceptLines
<1>9. ASSUME NEW s \in Slot, SendHeader(s) \/ HandleRecv(s) PROVE LinesInv'
  BY <1>1, <1>9, GreetLines, RecvLines
<1> QED
  BY <1>3, <1>4, <1>5, <1>6, <1>7, <1>8, <1>9 DEF Next, Serve

-----------------------------------------------------------------------------
(* Where the records are that were sent. *)

LEMMA BodiesOfAppend ==
  ASSUME NEW w \in Seq(Chunk), NEW r \in Record
  PROVE  /\ Bodies(Append(w, HeadOf(r))) = Bodies(w)
         /\ Bodies(Append(w, BodyOf(r))) = Bodies(w) \cup {r}
<1>1. HeadOf(r) \in Chunk /\ BodyOf(r) \in Chunk /\ HeadOf(r).part # "body"
      /\ BodyOf(r).part = "body" /\ BodyOf(r).rec = r
  BY OneRecord
<1>2. /\ ToSet(Append(w, HeadOf(r))) = ToSet(w) \cup {HeadOf(r)}
      /\ ToSet(Append(w, BodyOf(r))) = ToSet(w) \cup {BodyOf(r)}
  BY <1>1, AppendSet
<1> QED
  BY <1>1, <1>2 DEF Bodies

(* A head is none of the records on the wire: what peers have in their    *)
(* buffers are heads.                                                      *)
LEMMA UnderIsTransit ==
  ASSUME TypeOK, WireInv
  PROVE  /\ InFlight(Conn, Slot) = Wires
         /\ Transit \cap Record = Under \cap Record
<1>1. ASSUME NEW s \in Slot PROVE Bodies(buf[s]) = {}
  <2>1. CASE buf[s] = <<>>
    BY <2>1, EmptySequence
  <2>2. ASSUME NEW r \in Record, buf[s] = <<HeadOf(r)>> PROVE Bodies(buf[s]) = {}
    BY <2>2, OneRecord
  <2> QED
    BY <2>1, <2>2 DEF WireInv
<1> DEFINE W == UNION {Bodies(conn[k].wire) : k \in Conn}
           B == UNION {Bodies(buf[s]) : s \in Slot}
<1>2. InFlight(Conn, Slot) = W \cup B
  BY DEF InFlight
<1>3. B = {}
  BY <1>1
<1>4. Wires = W
  BY DEF Wires, Wire
<1> HIDE DEF W, B
<1> QED
  BY <1>2, <1>3, <1>4 DEF Transit, Under

(* Nothing is in a place where it was not before. *)
LEMMA PlacesShrink ==
  ASSUME PlaceInv, \A k \in Conn : Wire(k)' \subseteq Wire(k),
         pend' = pend \/ pend' = NoRec, work' = work \/ work' = NoRec,
         squeue' = squeue \/ squeue' = <<>>, UNCHANGED log
  PROVE  PlaceInv'
<1>1. NoRec \notin Record /\ NoRec # Garbage
  BY RecordForm
<1>2. ToSet(squeue') \subseteq ToSet(squeue) /\ Once(squeue')
  BY EmptySequence DEF PlaceInv
<1>3. Wires' \subseteq Wires
  BY DEF Wires
<1>4. \A j, k \in Conn : j # k => Wire(j)' \cap Wire(k)' = {}
  BY DEF PlaceInv
<1>5. pend' # Garbage /\ work' # Garbage /\ Garbage \notin ToSet(squeue')
  BY <1>1, <1>2 DEF PlaceInv
<1>6. ASSUME NEW r \in Record
      PROVE  /\ r \in Wires' => /\ r # pend' /\ r # work'
                                /\ r \notin ToSet(squeue') /\ r \notin ToSet(log')
             /\ r = pend' => /\ r # work'
                             /\ r \notin ToSet(squeue') /\ r \notin ToSet(log')
             /\ r = work' => r \notin ToSet(squeue') /\ r \notin ToSet(log')
             /\ r \in ToSet(squeue') => r \notin ToSet(log')
  BY <1>1, <1>2, <1>3 DEF PlaceInv
<1> QED
  BY <1>2, <1>4, <1>5, <1>6 DEF PlaceInv

(* Nothing moves. *)
LEMMA PlacesStay ==
  ASSUME PlaceInv, SentInv, \A k \in Conn : Wire(k)' = Wire(k),
         UNCHANGED <<pend, work, squeue, known, log, sent, hit>>
  PROVE  PlaceInv' /\ SentInv' /\ Under' = Under
<1>1. PlaceInv'
  BY PlacesShrink
<1>2. Wires' = Wires
  BY DEF Wires
<1>3. Under' = Under
  BY <1>2 DEF Under, Held
<1> QED
  BY <1>1, <1>3 DEF SentInv

(* Records that disappear are hit, or refused. *)
LEMMA PlacesHit ==
  ASSUME PlaceInv, SentInv, \A k \in Conn : Wire(k)' \subseteq Wire(k),
         pend' = pend \/ pend' = NoRec, work' = work \/ work' = NoRec,
         squeue' = squeue \/ squeue' = <<>>, UNCHANGED <<log, sent>>,
         known' \subseteq known, hit \subseteq hit',
         \A r \in Record : r \in Under /\ r \notin Under' => r \in hit' \cup Refused,
         sent \subseteq Record
  PROVE  PlaceInv' /\ SentInv' /\ Under' \subseteq Under
<1>1. PlaceInv'
  BY PlacesShrink
<1>2. Wires' \subseteq Wires
  BY DEF Wires
<1>3. NoRec \notin Record
  BY RecordForm
<1>4. Held(pend') \subseteq Held(pend) /\ Held(work') \subseteq Held(work)
      /\ ToSet(squeue') \subseteq ToSet(squeue)
  BY <1>3, EmptySequence DEF Held
<1>5. Under' \subseteq Under
  BY <1>2, <1>4 DEF Under, Held
<1>6. sent' \subseteq Under' \cup ToSet(log') \cup hit' \cup Refused
  BY DEF SentInv
<1> QED
  BY <1>1, <1>5, <1>6 DEF SentInv

LEMMA SendBodyPlaces ==
  ASSUME IInv, NEW c \in Client, SendBody(c)
  PROVE  /\ PlaceInv' /\ SentInv'
         /\ Under' = IF conn[mine[c]].stat = "dead" THEN Under
                     ELSE Under \cup {hand[c]}
<1>1. TypeOK /\ ClientInv /\ LineInv /\ PlaceInv /\ SentInv
  BY DEF IInv
<1>2. PICK k : k = mine[c]
  OBVIOUS
<1>3. PICK h : h = hand[c]
  OBVIOUS
<1>4. /\ k \in Conn /\ h \in Record
      /\ \A j \in Conn : j # k => conn'[j] = conn[j]
      /\ conn[k].stat = "dead" => conn'[k] = NoLine /\ hit' = hit \cup {h}
      /\ conn[k].stat # "dead" =>
           /\ conn'[k].wire = Append(conn[k].wire, BodyOf(h))
           /\ UNCHANGED hit
  BY <1>2, <1>3, SendBodyCases
<1>5. /\ sent' = sent \cup {h} /\ pc[c] = "body"
      /\ UNCHANGED <<pend, work, squeue, known, log>>
  BY <1>3 DEF SendBody, keeper
<1>6. h \notin sent
  BY <1>1, <1>3, <1>5, InHand DEF Fresh
<1>7. h \notin Wires /\ h # pend /\ h # work /\ h \notin ToSet(squeue) /\ h \notin ToSet(log)
  BY <1>1, <1>4, <1>6 DEF SentInv, Under, Held
<1>8. \A j \in Conn : j # k => Wire(j)' = Wire(j)
  BY <1>4 DEF Wire
<1>9. CASE conn[k].stat = "dead"
  <2>1. Wire(k)' = {} /\ Wire(k) = {}
    BY <1>1, <1>4, <1>9, EmptySequence DEF Wire, LineInv, LineOK, NoLine
  <2>2. PlaceInv'
    BY <1>1, <1>5, <1>8, <2>1, PlacesShrink
  <2>3. Wires' = Wires
    BY <1>8, <2>1 DEF Wires
  <2>4. Under' = Under
    BY <1>5, <2>3 DEF Under, Held
  <2> QED
    BY <1>1, <1>2, <1>4, <1>5, <1>9, <2>2, <2>4 DEF SentInv
<1>10. CASE conn[k].stat # "dead"
  <2>1. conn[k].wire \in Seq(Chunk)
    BY <1>1, <1>4 DEF TypeOK, Line
  <2>2. Wire(k)' = Wire(k) \cup {h}
    BY <1>4, <1>10, <2>1, BodiesOfAppend DEF Wire
  <2>3. Wires' = Wires \cup {h}
    BY <1>4, <1>8, <2>2 DEF Wires
  <2>4. \A i, j \in Conn : i # j => Wire(i)' \cap Wire(j)' = {}
    <3>1. \A j \in Conn : h \notin Wire(j)
      BY <1>7 DEF Wires
    <3> QED
      BY <1>1, <1>4, <1>8, <2>2, <3>1 DEF PlaceInv
  <2>5. PlaceInv'
    BY <1>1, <1>5, <1>7, <2>3, <2>4 DEF PlaceInv
  <2>6. Under' = Under \cup {h}
    BY <1>5, <2>3 DEF Under, Held
  <2> QED
    BY <1>1, <1>2, <1>3, <1>4, <1>5, <1>10, <2>5, <2>6 DEF SentInv
<1> QED
  BY <1>9, <1>10


LEMMA ClientPlaces ==
  ASSUME IInv, NEW c \in Client, AddRec(c) \/ EndClient(c) \/ Sender(c),
         ~SendBody(c)
  PROVE  PlaceInv' /\ SentInv' /\ Under' = Under
<1>1. TypeOK /\ ClientInv /\ LineInv /\ PlaceInv /\ SentInv
  BY DEF IInv
<1>2. ASSUME AddRec(c) \/ EndClient(c) \/ Pop(c) \/ GiveUp(c) \/ RecvHeader(c)
      PROVE  PlaceInv' /\ SentInv' /\ Under' = Under
  <2>1. UNCHANGED <<conn, pend, work, squeue, known, log, sent, hit>>
    BY <1>2 DEF AddRec, EndClient, Pop, GiveUp, RecvHeader, keeper
  <2>2. \A j \in Conn : Wire(j)' = Wire(j)
    BY <2>1 DEF Wire
  <2> QED
    BY <1>1, <2>1, <2>2, PlacesStay
<1>3. ASSUME Connect(c) \/ SendHead(c) \/ Fail(c)
      PROVE  UNCHANGED <<pend, work, squeue, known, log, sent, hit>>
  BY <1>3 DEF Connect, SendHead, Fail, keeper
<1>4. ASSUME Connect(c) PROVE PlaceInv' /\ SentInv' /\ Under' = Under
  <2>1. PICK k \in Conn :
          /\ conn[k].stat = "none" /\ conn'[k].wire = <<>>
          /\ \A j \in Conn : j # k => conn'[j] = conn[j]
    BY <1>1, <1>4, ConnectCases
  <2>2. conn[k].wire = <<>>
    BY <1>1, <2>1 DEF LineInv, LineOK, NoLine
  <2>3. \A j \in Conn : Wire(j)' = Wire(j)
    BY <2>1, <2>2 DEF Wire
  <2> QED
    BY <1>1, <1>3, <1>4, <2>3, PlacesStay
<1>5. ASSUME SendHead(c) PROVE PlaceInv' /\ SentInv' /\ Under' = Under
  <2>1. PICK k : k = mine[c]
    OBVIOUS
  <2>2. PICK h : h = hand[c]
    OBVIOUS
  <2>3. /\ k \in Conn /\ h \in Record
        /\ \A j \in Conn : j # k => conn'[j] = conn[j]
        /\ conn[k].stat = "dead" => conn'[k].wire = conn[k].wire
        /\ conn[k].stat # "dead" => conn'[k].wire = Append(conn[k].wire, HeadOf(h))
    BY <1>5, <2>1, <2>2, SendHeadCases
  <2>4. conn[k].wire \in Seq(Chunk)
    BY <1>1, <2>3 DEF TypeOK, Line
  <2>5. Wire(k)' = Wire(k)
    BY <2>3, <2>4, BodiesOfAppend DEF Wire
  <2>6. \A j \in Conn : Wire(j)' = Wire(j)
    BY <2>3, <2>5 DEF Wire
  <2> QED
    BY <1>1, <1>3, <1>5, <2>6, PlacesStay
<1>6. ASSUME Fail(c) PROVE PlaceInv' /\ SentInv' /\ Under' = Under
  <2>1. PICK k : k = mine[c]
    OBVIOUS
  <2>2. /\ k = NoConn => conn' = conn
        /\ k # NoConn => k \in Conn /\ ClientCloses(k)
    BY <1>1, <1>6, <2>1, FailCases
  <2>3. CASE k = NoConn
    <3>1. \A j \in Conn : Wire(j)' = Wire(j)
      BY <2>2, <2>3 DEF Wire
    <3> QED
      BY <1>1, <1>3, <1>6, <3>1, PlacesStay
  <2>4. CASE k # NoConn
    <3>1. /\ k \in Conn
          /\ \A j \in Conn : j # k => conn'[j] = conn[j]
          /\ conn[k].stat = "dead" => conn'[k] = NoLine
          /\ conn[k].stat # "dead" => conn'[k].wire = conn[k].wire
      BY <1>1, <2>2, <2>4, CloseLine DEF TypeOK
    <3>2. conn[k].stat = "dead" => conn'[k].wire = <<>> /\ conn[k].wire = <<>>
      BY <1>1, <3>1 DEF LineInv, LineOK, NoLine
    <3>3. \A j \in Conn : Wire(j)' = Wire(j)
      BY <3>1, <3>2 DEF Wire
    <3> QED
      BY <1>1, <1>3, <1>6, <3>3, PlacesStay
  <2> QED
    BY <2>3, <2>4
<1> QED
  BY <1>2, <1>4, <1>5, <1>6 DEF Sender

LEMMA AcceptPlaces ==
  ASSUME IInv, NEW k \in Conn, HandleConnect(k)
  PROVE  PlaceInv' /\ SentInv' /\ Under' \subseteq Under
<1>1. TypeOK /\ LineInv /\ PlaceInv /\ SentInv
  BY DEF IInv
<1>2. /\ conn[k].stat = "backlog" /\ conn[k] \in Line
      /\ \A j \in Conn : j # k => conn'[j] = conn[j]
      /\ conn'[k] = Cut(conn[k]) \/ conn'[k].wire = conn[k].wire
      /\ UNCHANGED <<pend, work, squeue, known, log, sent, hit>>
  BY <1>1, AcceptCases DEF client, keeper, TypeOK
<1>3. conn[k].wire = <<>> /\ conn'[k].wire = <<>>
  BY <1>1, <1>2, CutLine DEF LineInv, LineOK
<1>4. \A j \in Conn : Wire(j)' = Wire(j)
  BY <1>2, <1>3 DEF Wire
<1> QED
  BY <1>1, <1>2, <1>4, PlacesStay

LEMMA GreetPlaces ==
  ASSUME IInv, NEW s \in Slot, SendHeader(s)
  PROVE  PlaceInv' /\ SentInv' /\ Under' \subseteq Under
<1>1. TypeOK /\ PlaceInv /\ SentInv
  BY DEF IInv
<1>2. PICK k : k = slot[s]
  OBVIOUS
<1>3. /\ \A j \in Conn : j # k => conn'[j] = conn[j]
      /\ conn'[k].wire = conn[k].wire
      /\ UNCHANGED <<pend, work, squeue, known, log, sent, hit>>
  BY <1>1, <1>2, GreetCases DEF client, keeper
<1>4. \A j \in Conn : Wire(j)' = Wire(j)
  BY <1>3 DEF Wire
<1> QED
  BY <1>1, <1>3, <1>4, PlacesStay

(* What is on the wire of a connection that the server closes is gone. *)
LEMMA CutPlaces ==
  ASSUME IInv, NEW s \in Slot, slot[s] # NoConn, Clear(s),
         hit \subseteq hit', Wire(slot[s]) \subseteq hit' \cup Refused,
         UNCHANGED <<pend, work, squeue, known, log, sent>>
  PROVE  PlaceInv' /\ SentInv' /\ Under' \subseteq Under
<1>1. TypeOK /\ PlaceInv /\ SentInv /\ sent \subseteq Record
  BY DEF IInv, TypeOK
<1>2. PICK k : k = slot[s]
  OBVIOUS
<1>3. /\ k \in Conn
      /\ \A j \in Conn : j # k => conn'[j] = conn[j]
      /\ conn'[k] = Cut(conn[k])
  BY <1>1, <1>2, ClearCases
<1>4. conn'[k].wire = <<>>
  BY <1>1, <1>3, CutLine DEF TypeOK
<1>5. Wire(k)' = {} /\ Wire(k) \subseteq hit' \cup Refused
  BY <1>2, <1>4, EmptySequence DEF Wire
<1>6. \A j \in Conn : j # k => Wire(j)' = Wire(j)
  BY <1>3 DEF Wire
<1>7. Wires \subseteq Wires' \cup Wire(k)
  BY <1>6 DEF Wires
<1>8. \A r \in Record : r \in Under /\ r \notin Under' => r \in hit' \cup Refused
  BY <1>5, <1>7 DEF Under, Held
<1>9. \A j \in Conn : Wire(j)' \subseteq Wire(j)
  BY <1>5, <1>6
<1> QED
  BY <1>1, <1>8, <1>9, PlacesHit

LEMMA ClearPlaces ==
  ASSUME IInv, NEW s \in Slot, HandleEof(s) \/ Lose(s)
  PROVE  PlaceInv' /\ SentInv' /\ Under' \subseteq Under
<1>1. /\ slot[s] # NoConn /\ Clear(s)
      /\ \/ conn[slot[s]].wire = <<>> /\ UNCHANGED hit
         \/ hit' = hit \cup Wire(slot[s])
      /\ UNCHANGED <<pend, work, squeue, known, log, sent>>
  BY DEF HandleEof, Lose, keeper, client, Wire
<1>2. hit \subseteq hit' /\ Wire(slot[s]) \subseteq hit' \cup Refused
  BY <1>1, EmptySequence DEF Wire
<1> QED
  BY <1>1, <1>2, CutPlaces

LEMMA RecvPlaces ==
  ASSUME IInv, NEW s \in Slot, HandleRecv(s)
  PROVE  PlaceInv' /\ SentInv' /\ Under' \subseteq Under
<1>1. TypeOK /\ WireInv /\ PlaceInv /\ SentInv /\ sent \subseteq Record
  BY DEF IInv, TypeOK
<1>2. PICK k : k = slot[s]
  OBVIOUS
<1>3. /\ k \in Conn /\ pend = NoRec /\ slot[s] # NoConn
      /\ UNCHANGED <<work, squeue, known, log, sent>>
  BY <1>1, <1>2, RecvCases DEF client
<1>0. PICK r \in Record : RecvHead(s, r) \/ RecvBody(s, r) \/ RecvBreak(s, r)
  BY <1>1, RecvCases
<1>10. CASE RecvBreak(s, r)
  <2>1. /\ r \in TooLarge /\ Wire(slot[s]) \subseteq {r}
        /\ Clear(s) /\ UNCHANGED <<pend, hit>>
    BY <1>10 DEF RecvBreak, Wire
  <2>2. Wire(slot[s]) \subseteq hit' \cup Refused
    BY <2>1 DEF Refused
  <2> QED
    BY <1>3, <2>1, <2>2, CutPlaces
<1> SUFFICES ASSUME RecvHead(s, r) \/ RecvBody(s, r)
             PROVE  PlaceInv' /\ SentInv' /\ Under' \subseteq Under
  BY <1>0, <1>10
<1>4. RecvHead(s, r) \/ RecvBody(s, r)
  OBVIOUS
<1>5. \A j \in Conn : j # k => conn'[j] = conn[j]
  BY <1>1, <1>2, <1>3, <1>4, RecvLine
<1>6. \A j \in Conn : j # k => Wire(j)' = Wire(j)
  BY <1>5 DEF Wire
<1>7. \A w : conn' = [conn EXCEPT ![k].wire = w] => conn'[k].wire = w
  BY <1>1, <1>3 DEF TypeOK, Line
<1>8. CASE RecvHead(s, r)
  <2>1. \/ conn[k].wire = <<HeadOf(r)>> /\ conn'[k].wire = <<>>
        \/ conn[k].wire = <<HeadOf(r), BodyOf(r)>> /\ conn'[k].wire = <<BodyOf(r)>>
    BY <1>2, <1>7, <1>8 DEF RecvHead
  <2>2. Bodies(conn[k].wire) = Bodies(conn'[k].wire)
    BY <2>1, OneRecord
  <2>3. Wire(k)' = Wire(k)
    BY <2>2 DEF Wire
  <2> QED
    BY <1>1, <1>3, <1>6, <1>8, <2>3, PlacesStay DEF RecvHead
<1>9. CASE RecvBody(s, r)
  <2>1. Wire(k) = {r} /\ Wire(k)' = {}
    BY <1>2, <1>7, <1>9, OneRecord DEF RecvBody, Wire
  <2>2. Wires = Wires' \cup {r} /\ r \notin Wires'
    <3>1. \A j \in Conn : j # k => r \notin Wire(j)
      BY <1>1, <1>3, <2>1 DEF PlaceInv
    <3> QED
      BY <1>3, <1>6, <2>1, <3>1 DEF Wires
  <2>3. \A j \in Conn : Wire(j)' \subseteq Wire(j)
    BY <1>6, <2>1
  <2>4. CASE hit' = hit \cup {r} /\ UNCHANGED pend
    <3>1. \A q \in Record : q \in Under /\ q \notin Under' => q \in hit'
      BY <1>3, <2>2, <2>4 DEF Under, Held
    <3> QED
      BY <1>1, <1>3, <2>3, <2>4, <3>1, PlacesHit
  <2>5. CASE pend' = r /\ UNCHANGED hit
    <3>1. r # Garbage /\ NoRec \notin Record
      BY RecordForm
    <3>2. r # work /\ r \notin ToSet(squeue) /\ r \notin ToSet(log)
      BY <1>1, <2>2 DEF PlaceInv
    <3>3. \A i, j \in Conn : i # j => Wire(i)' \cap Wire(j)' = {}
      BY <1>1, <2>3 DEF PlaceInv
    <3>4. PlaceInv'
      BY <1>1, <1>3, <2>2, <2>5, <3>1, <3>2, <3>3 DEF PlaceInv
    <3>5. Under' = Under
      <4>1. Held(pend') = {r} /\ Held(pend) = {}
        BY <1>3, <2>5, <3>1 DEF Held
      <4>2. Under = Wires \cup {} \cup Held(work) \cup ToSet(squeue)
        BY <4>1 DEF Under
      <4>3. Under' = Wires' \cup {r} \cup Held(work) \cup ToSet(squeue)
        BY <1>3, <4>1 DEF Under, Held
      <4> QED
        BY <2>2, <4>2, <4>3
    <3> QED
      BY <1>1, <1>3, <2>5, <3>4, <3>5 DEF SentInv
  <2> QED
    BY <1>9, <2>4, <2>5 DEF RecvBody
<1> QED
  BY <1>4, <1>8, <1>9

LEMMA PushPlaces ==
  ASSUME IInv, PushFree
  PROVE  PlaceInv' /\ SentInv' /\ Under' \subseteq Under
<1>1. TypeOK /\ PlaceInv /\ SentInv
  BY DEF IInv
<1>2. PICK r : r = pend
  OBVIOUS
<1>3. /\ squeue' = Append(squeue, r) /\ pend' = NoRec
      /\ UNCHANGED <<conn, work, known, log, hit, sent>>
  BY <1>2 DEF PushFree, client
<1>4. r \in Record
  BY <1>1, <1>2 DEF PushFree, TypeOK, PlaceInv
<1>5. /\ r # work /\ r \notin ToSet(squeue) /\ r \notin ToSet(log) /\ r \notin Wires
  BY <1>1, <1>2, <1>4 DEF PlaceInv
<1>6. ToSet(squeue') = ToSet(squeue) \cup {r} /\ Once(squeue')
  BY <1>1, <1>3, <1>4, <1>5, AppendSet DEF TypeOK, PlaceInv
<1>7. NoRec \notin Record /\ Garbage \notin Record /\ NoRec # Garbage
  BY RecordForm
<1>8. Wires' = Wires /\ \A k \in Conn : Wire(k)' = Wire(k)
  BY <1>3 DEF Wires, Wire
<1>9. PlaceInv'
  BY <1>1, <1>3, <1>4, <1>5, <1>6, <1>7, <1>8 DEF PlaceInv
<1>10. Under' = Under
  <2>1. Held(pend) = {r} /\ Held(pend') = {} /\ Held(work') = Held(work)
    BY <1>2, <1>3, <1>4, <1>7 DEF Held
  <2> QED
    BY <1>6, <1>8, <2>1 DEF Under
<1> QED
  BY <1>1, <1>3, <1>9, <1>10 DEF SentInv

LEMMA TakePlaces ==
  ASSUME IInv, Take
  PROVE  PlaceInv' /\ SentInv' /\ Under' \subseteq Under
<1>1. TypeOK /\ PlaceInv /\ SentInv
  BY DEF IInv
<1>2. PICK r : r = Last(squeue)
  OBVIOUS
<1>3. /\ work = NoRec /\ squeue # <<>> /\ work' = r /\ squeue' = Front(squeue)
      /\ UNCHANGED <<conn, pend, known, log, hit, sent>>
  BY <1>2 DEF Take, client
<1>4. /\ ToSet(squeue) = ToSet(squeue') \cup {r}
      /\ Once(squeue') /\ r \notin ToSet(squeue') /\ r \in Record \cup {Garbage}
  BY <1>1, <1>2, <1>3, FrontSet DEF TypeOK, PlaceInv
<1>5. r \in Record
  BY <1>1, <1>4 DEF PlaceInv
<1>6. r # pend /\ r \notin ToSet(log) /\ r \notin Wires
  BY <1>1, <1>4, <1>5 DEF PlaceInv
<1>7. NoRec \notin Record /\ Garbage \notin Record
  BY RecordForm
<1>8. Wires' = Wires /\ \A k \in Conn : Wire(k)' = Wire(k)
  BY <1>3 DEF Wires, Wire
<1>9. PlaceInv'
  BY <1>1, <1>3, <1>4, <1>5, <1>6, <1>7, <1>8 DEF PlaceInv
<1>10. Under' = Under
  <2>1. Held(work) = {} /\ Held(work') = {r} /\ Held(pend') = Held(pend)
    BY <1>3, <1>5, <1>7 DEF Held
  <2> QED
    BY <1>4, <1>8, <2>1 DEF Under
<1> QED
  BY <1>1, <1>3, <1>9, <1>10 DEF SentInv

(* The worker never sees a record that is in the table already. *)
LEMMA TransactCases ==
  ASSUME IInv, Transact
  PROVE  /\ work \in Record /\ work \notin ToSet(log) /\ work \notin Under'
         /\ work' = NoRec /\ UNCHANGED <<client, conn, pend, squeue, hit>>
         /\ \/ work \in Unfit /\ UNCHANGED <<known, log>>
            \/ /\ work \notin Unfit
               /\ log' = Append(log, work) /\ known' = known \cup {work}
<1>1. TypeOK /\ PlaceInv /\ SentInv
  BY DEF IInv
<1>2. work # NoRec /\ work \in Record
  BY <1>1 DEF Transact, TypeOK, PlaceInv
<1>3. work \notin ToSet(log) /\ work # Garbage /\ work \notin known
  BY <1>1, <1>2 DEF PlaceInv, SentInv
<1>4. /\ work' = NoRec /\ UNCHANGED <<client, conn, pend, squeue, hit>>
      /\ \/ work \in Unfit /\ UNCHANGED <<known, log>>
         \/ /\ work \notin Unfit
            /\ log' = Append(log, work) /\ known' = known \cup {work}
  BY <1>3 DEF Transact, TurnedDown
<1>5. PICK r : r = work
  OBVIOUS
<1>6. Wires' = Wires /\ Held(pend)' = Held(pend) /\ Held(work') = {}
  BY <1>4, RecordForm DEF Wires, Wire, Held
<1>7. r \notin Wires /\ r # pend /\ r \notin ToSet(squeue)
  BY <1>1, <1>2, <1>5 DEF PlaceInv
<1>8. r \notin Under'
  BY <1>4, <1>6, <1>7 DEF Under, Held
<1> QED
  BY <1>2, <1>3, <1>4, <1>5, <1>8

LEMMA TransactPlaces ==
  ASSUME IInv, Transact
  PROVE  PlaceInv' /\ SentInv' /\ Under = Under' \cup {work}
<1>1. TypeOK /\ PlaceInv /\ SentInv /\ sent \subseteq Record
  BY DEF IInv, TypeOK
<1>2. PICK r : r = work
  OBVIOUS
<1>3. /\ r \in Record /\ r \notin ToSet(log) /\ r \notin Under'
      /\ work' = NoRec /\ UNCHANGED <<conn, pend, squeue, hit, sent>>
      /\ \/ r \in Unfit /\ UNCHANGED <<known, log>>
         \/ log' = Append(log, r) /\ known' = known \cup {r}
  BY <1>2, TransactCases DEF client
<1>5. NoRec \notin Record /\ Garbage \notin Record /\ NoRec # Garbage
  BY RecordForm
<1>6. Wires' = Wires /\ \A k \in Conn : Wire(k)' = Wire(k)
  BY <1>3 DEF Wires, Wire
<1>9. Under = Under' \cup {r}
  <2>1. Held(work) = {r} /\ Held(work') = {} /\ Held(pend') = Held(pend)
    BY <1>2, <1>3, <1>5 DEF Held
  <2> QED
    BY <1>3, <1>6, <2>1 DEF Under
<1>10. CASE log' = Append(log, r) /\ known' = known \cup {r}
  <2>1. ToSet(log') = ToSet(log) \cup {r}
    BY <1>1, <1>3, <1>10, AppendSet DEF TypeOK
  <2>2. r \notin Wires /\ r # pend /\ r \notin ToSet(squeue)
    BY <1>1, <1>2, <1>3 DEF PlaceInv
  <2>3. PlaceInv'
    BY <1>1, <1>3, <1>5, <1>6, <2>1, <2>2 DEF PlaceInv
  <2> QED
    BY <1>1, <1>2, <1>3, <1>9, <1>10, <2>1, <2>3 DEF SentInv
<1>11. CASE r \in Unfit /\ UNCHANGED <<known, log>>
  <2>1. \A q \in Record : q \in Under /\ q \notin Under' => q \in hit' \cup Refused
    BY <1>9, <1>11 DEF Refused
  <2>2. PlaceInv' /\ SentInv'
    BY <1>1, <1>3, <1>6, <1>11, <2>1, PlacesHit
  <2> QED
    BY <1>2, <1>9, <2>2
<1> QED
  BY <1>3, <1>10, <1>11

LEMMA QuitPlaces ==
  ASSUME IInv, QuitServer
  PROVE  PlaceInv' /\ SentInv' /\ Under' \subseteq Under
<1>1. TypeOK /\ PlaceInv /\ SentInv /\ sent \subseteq Record
  BY DEF IInv, TypeOK
<1>2. /\ squeue' = <<>> /\ hit' = hit \cup (ToSet(squeue) \cap Record)
      /\ UNCHANGED <<conn, pend, work, known, log, sent>>
  BY DEF QuitServer, client
<1>3. Wires' = Wires /\ \A k \in Conn : Wire(k)' = Wire(k)
  BY <1>2 DEF Wires, Wire
<1>4. \A r \in Record : r \in Under /\ r \notin Under' => r \in hit'
  BY <1>2, <1>3 DEF Under, Held
<1> QED
  BY <1>1, <1>2, <1>3, <1>4, PlacesHit

LEMMA DownPlaces ==
  ASSUME IInv, Down
  PROVE  PlaceInv' /\ SentInv' /\ Under' \subseteq Under
<1>1. TypeOK /\ WireInv /\ PlaceInv /\ SentInv /\ sent \subseteq Record
  BY DEF IInv, TypeOK
<1>2. \A k \in Conn : conn'[k] = Cut(conn[k])
  BY <1>1, DownCases
<1>3. ASSUME NEW k \in Conn PROVE Wire(k)' = {}
  <2>1. conn'[k].wire = <<>>
    BY <1>1, <1>2, CutLine DEF TypeOK
  <2> QED
    BY <2>1, EmptySequence DEF Wire
<1>4. InFlight(Conn, Slot) = Wires
  BY <1>1, UnderIsTransit
<1>5. /\ hit' = hit \cup Wires \cup Held(pend) \cup Held(work) \cup (ToSet(squeue) \cap Record)
      /\ pend' = NoRec /\ squeue' = <<>> /\ work' = NoRec /\ known' = {}
      /\ UNCHANGED <<log, sent>>
  BY <1>4 DEF Down, client
<1>6. \A r \in Record : r \in Under => r \in hit'
  BY <1>5 DEF Under
<1> QED
  BY <1>1, <1>3, <1>5, <1>6, PlacesHit

LEMMA PlaceStep == ASSUME IInv, [Next]_vars PROVE PlaceInv' /\ SentInv'
<1>1. PlaceInv /\ SentInv
  BY DEF IInv
<1>2. ASSUME Start \/ UNCHANGED vars PROVE PlaceInv' /\ SentInv'
  <2>1. UNCHANGED <<conn, pend, work, squeue, known, log, sent, hit>>
    BY <1>2 DEF Start, vars, client, keeper
  <2>2. \A k \in Conn : Wire(k)' = Wire(k)
    BY <2>1 DEF Wire
  <2> QED
    BY <1>1, <2>1, <2>2, PlacesStay
<1>3. ASSUME Exit \/ Crash PROVE PlaceInv' /\ SentInv'
  BY <1>3, DownPlaces DEF Exit, Crash
<1> QED
  BY <1>2, <1>3, ClientPlaces, SendBodyPlaces, AcceptPlaces, GreetPlaces, ClearPlaces, RecvPlaces,
     PushPlaces, TakePlaces, TransactPlaces, QuitPlaces
  DEF Next, Serve, Worker

LEMMA SizeStep == ASSUME IInv, [Next]_vars PROVE SizeInv'
<1>1. TypeOK /\ WireInv /\ SizeInv /\ NoRec \notin TooLarge
  BY RecordForm DEF IInv
<1>2. ASSUME UNCHANGED <<pend, work, squeue>> PROVE SizeInv'
  BY <1>1, <1>2 DEF SizeInv
<1>3. ASSUME NEW s \in Slot, HandleRecv(s) PROVE SizeInv'
  <2>1. PICK r \in Record : RecvHead(s, r) \/ RecvBody(s, r) \/ RecvBreak(s, r)
    BY <1>1, <1>3, RecvCases
  <2>2. pend' = pend \/ pend' \notin TooLarge
    BY <2>1 DEF RecvHead, RecvBody, RecvBreak
  <2>3. UNCHANGED <<work, squeue>>
    BY <1>1, <1>3, RecvCases
  <2> QED
    BY <1>1, <2>2, <2>3 DEF SizeInv
<1>4. CASE PushFree
  <2>1. /\ squeue \in Seq(Record \cup {Garbage}) /\ pend \in Record \cup {Garbage}
        /\ squeue' = Append(squeue, pend) /\ pend' = NoRec /\ work' = work
    BY <1>1, <1>4 DEF PushFree, TypeOK
  <2>2. ToSet(squeue') = ToSet(squeue) \cup {pend}
    BY <2>1, AppendSet
  <2> QED
    BY <1>1, <2>1, <2>2 DEF SizeInv
<1>5. CASE Take
  <2>1. ToSet(squeue) = ToSet(squeue') \cup {work'} /\ pend' = pend
    BY <1>1, <1>5, FrontSet DEF Take, TypeOK
  <2> QED
    BY <1>1, <2>1 DEF SizeInv
<1>6. CASE Transact
  BY <1>1, <1>6 DEF Transact, SizeInv
<1>7. CASE QuitServer
  BY <1>1, <1>7, EmptySequence DEF QuitServer, SizeInv
<1>8. CASE Exit \/ Crash
  BY <1>1, <1>8, EmptySequence DEF Exit, Crash, Down, SizeInv
<1>9. ASSUME NEW c \in Client, AddRec(c) \/ EndClient(c) \/ Sender(c)
      PROVE  UNCHANGED <<pend, work, squeue>>
  BY <1>9 DEF AddRec, EndClient, Sender, Pop, GiveUp, Connect, RecvHeader, SendHead,
              SendBody, Fail, keeper
<1>10. ASSUME NEW k \in Conn, HandleConnect(k) PROVE UNCHANGED <<pend, work, squeue>>
  BY <1>10 DEF HandleConnect, keeper
<1>11. ASSUME NEW s \in Slot, SendHeader(s) \/ HandleEof(s) \/ Lose(s)
       PROVE  UNCHANGED <<pend, work, squeue>>
  BY <1>11 DEF SendHeader, HandleEof, Lose, keeper
<1>12. ASSUME Start \/ UNCHANGED vars PROVE UNCHANGED <<pend, work, squeue>>
  BY <1>12 DEF Start, vars, keeper
<1> QED
  BY <1>2, <1>3, <1>4, <1>5, <1>6, <1>7, <1>8, <1>9, <1>10, <1>11, <1>12
  DEF Next, Serve, Worker

-----------------------------------------------------------------------------
(* The theorems. *)

LEMMA InitInv == Init => IInv
<1> SUFFICES ASSUME Init PROVE IInv
  OBVIOUS
<1>1. NoLine \in Line /\ NoLine.stat = "none" /\ NoLine.wire = <<>> /\ ~NoLine.eof
      /\ ~NoLine.header
  BY CutLine DEF NoLine, Line
<1>2. TypeOK
  BY <1>1, BoundAssumption, RetryAssumption DEF Init, TypeOK, ClientPc
<1>3. ClientInv /\ KeptInv
  BY EmptySequence DEF Init, ClientInv, OwnInv, KeptInv
<1>4. LineInv
  BY <1>1, ConnForm DEF Init, LineInv, LineOK
<1>5. WireInv /\ OwnerInv
  BY DEF Init, WireInv, OwnerInv
<1>6. Wires = {} /\ \A k \in Conn : Wire(k) = {}
  BY <1>1, EmptySequence DEF Init, Wires, Wire
<1>7. PlaceInv /\ SizeInv /\ SentInv
  <2>1. /\ pend = NoRec /\ work = NoRec /\ squeue = <<>> /\ log = <<>>
        /\ known = {} /\ sent = {} /\ hit = {}
    BY DEF Init
  <2>2. NoRec \notin Record /\ NoRec # Garbage
    BY RecordForm
  <2>3. PlaceInv
    BY <1>6, <2>1, <2>2, EmptySequence DEF PlaceInv
  <2>4. Under = {}
    BY <1>6, <2>1, <2>2, EmptySequence DEF Under, Held
  <2>5. SizeInv
    BY <2>1, RecordForm, EmptySequence DEF SizeInv
  <2> QED
    BY <2>1, <2>3, <2>4, <2>5, EmptySequence DEF SentInv
<1> QED
  BY <1>2, <1>3, <1>4, <1>5, <1>7 DEF IInv

LEMMA Invariance == Spec => []IInv
<1>1. IInv /\ [Next]_vars => IInv'
  BY TypeStep, ClientStep, KeptStep, LinesStep, PlaceStep, SizeStep DEF IInv, LinesInv
<1> QED
  BY <1>1, InitInv, PTL DEF Spec

-----------------------------------------------------------------------------
(* What becomes of the records. *)

(* The fate of a record, by the place it is in. *)
Placed(r) ==
  /\ Fate(r) = IF r \notin made THEN "none"
              ELSE IF r \in ToSet(log) THEN "stored"
              ELSE IF r \in Under THEN "sent"
              ELSE IF r \in discarded THEN "discarded"
              ELSE IF r \in Waiting THEN "waiting"
              ELSE "lost"
  /\ r \in Under => r \in sent /\ r \notin ToSet(log)
  /\ r \in ToSet(log) => r \in sent
  /\ r \in sent => r \notin discarded /\ r \notin Waiting
  /\ r \in discarded => r \notin Waiting
  /\ r \in sent \/ r \in discarded \/ r \in Waiting => r \in made

AllPlaced == \A r \in Record : Placed(r)

LEMMA FateByPlace == IInv => AllPlaced
<1> SUFFICES ASSUME IInv, NEW r \in Record PROVE Placed(r)
  BY DEF AllPlaced
<1>1. TypeOK /\ ClientInv /\ WireInv /\ PlaceInv /\ SentInv
  BY DEF IInv
<1>2. (r \in Transit <=> r \in Under) /\ (r \in Under => r \in sent)
      /\ (r \in ToSet(log) => r \in sent)
  BY <1>1, UnderIsTransit DEF SentInv
<1>3. r \in Under => r \notin ToSet(log)
  BY <1>1, RecordForm DEF PlaceInv, Under, Held
<1>4. ASSUME r \in Waiting
      PROVE  r \notin sent /\ r \notin discarded /\ r \in made
  <2>1. PICK c \in Client : r \in ToSet(queue[c]) \/ r = hand[c]
    BY <1>4 DEF Waiting
  <2>2. Fresh(c, r)
    BY <1>1, <2>1, RecordForm DEF ClientInv, OwnInv
  <2> QED
    BY <2>2 DEF Fresh
<1>6. r \in sent \/ r \in discarded => r \in made
  BY <1>1 DEF ClientInv
<1>7. r \in sent => r \notin discarded
  BY <1>1 DEF ClientInv
<1>8. Fate(r) = IF r \notin made THEN "none"
                ELSE IF r \in ToSet(log) THEN "stored"
                ELSE IF r \in Under THEN "sent"
                ELSE IF r \in discarded THEN "discarded"
                ELSE IF r \in Waiting THEN "waiting"
                ELSE "lost"
  BY <1>2 DEF Fate
<1> QED
  BY <1>2, <1>3, <1>4, <1>6, <1>7, <1>8 DEF Placed

LEMMA FateByPlaceNext == IInv' => AllPlaced'
BY FateByPlace, PTL

LEMMA FatesPlaced ==
  ASSUME IInv, IInv', NEW r \in Record PROVE Placed(r) /\ Placed(r)'
BY FateByPlace, FateByPlaceNext DEF AllPlaced

(* A record moves: the step is one of RecFate's. *)
LEMMA OneMoves ==
  ASSUME NEW r \in Record, NEW to, Fate(r)' = to,
         \A q \in Record : q # r => Fate(q)' = Fate(q)
  PROVE  [q \in Record |-> Fate(q)]' = [[q \in Record |-> Fate(q)] EXCEPT ![r] = to]
OBVIOUS

(* Records disappear, if anything: nothing is made, stored or discarded. *)
LEMMA Disappear ==
  ASSUME IInv, IInv', UNCHANGED <<made, log, discarded>>,
         \A r \in Record : r \in Under' => r \in Under,
         \A r \in Record : r \in Waiting' => r \in Waiting
  PROVE  Fates!Lose
<1>1. ASSUME NEW r \in Record
      PROVE  Fate(r)' = Fate(r) \/ (Fate(r) \in {"waiting", "sent"} /\ Fate(r)' = "lost")
  BY FatesPlaced DEF Placed
<1> DEFINE f == [r \in Record |-> Fate(r)]
<1>2. /\ DOMAIN f' = Record
      /\ \A r \in Record : f[r] = Fate(r) /\ f'[r] = Fate(r)'
  OBVIOUS
<1> QED
  BY <1>1, <1>2 DEF Fates!Lose

LEMMA MakeStep ==
  ASSUME IInv, IInv', NEW c \in Client, AddRec(c)
  PROVE  \E r \in Record : Fates!Make(r)
<1>1. TypeOK
  BY DEF IInv
<1>2. PICK x \in Record \ made :
        /\ made' = made \cup {x} /\ queue' = [queue EXCEPT ![c] = Append(@, x)]
        /\ UNCHANGED <<hand, sent, discarded, conn, pend, work, squeue, log>>
  BY DEF AddRec, keeper
<1>3. /\ ToSet(queue'[c]) = ToSet(queue[c]) \cup {x}
      /\ \A d \in Client : d # c => queue'[d] = queue[d]
  BY <1>1, <1>2, AppendSet DEF TypeOK
<1>4. Waiting' = Waiting \cup {x}
  BY <1>2, <1>3 DEF Waiting
<1>5. Under' = Under
  BY <1>2 DEF Under, Wires, Wire, Held
<1>6. Fate(x) = "none"
  BY <1>2, FatesPlaced DEF Placed
<1>7. Fate(x)' = "waiting"
  BY <1>2, <1>4, <1>5, FatesPlaced DEF Placed
<1>8. ASSUME NEW q \in Record, q # x PROVE Fate(q)' = Fate(q)
  BY <1>2, <1>4, <1>5, <1>8, FatesPlaced DEF Placed
<1>9. [q \in Record |-> Fate(q)]' = [[q \in Record |-> Fate(q)] EXCEPT ![x] = "waiting"]
  BY <1>7, <1>8, OneMoves
<1> QED
  BY <1>2, <1>6, <1>9 DEF Fates!Make, Fates!Move

LEMMA SendStep ==
  ASSUME IInv, IInv', NEW c \in Client, SendBody(c)
  PROVE  Fates!Lose \/ \E r \in Record : Fates!Send(r)
<1>1. TypeOK /\ ClientInv
  BY DEF IInv
<1>2. PICK h : h = hand[c]
  OBVIOUS
<1>3. /\ pc[c] = "body" /\ NextJob(c) /\ sent' = sent \cup {h}
      /\ UNCHANGED <<made, queue, discarded, log>>
  BY <1>2 DEF SendBody, keeper
<1>4. h \in Record /\ h \in Waiting /\ h \notin sent
  BY <1>1, <1>2, <1>3, InHand DEF Waiting, Fresh
<1>5. \A q \in Record : /\ q \in Waiting' => q \in Waiting
                        /\ q \in Waiting /\ q # h => q \in Waiting'
  BY <1>1, <1>2, <1>3, WaitingNext
<1>6. CASE conn[mine[c]].stat = "dead"
  <2>1. Under' = Under
    BY <1>6, SendBodyPlaces
  <2> QED
    BY <1>3, <1>5, <2>1, Disappear
<1>7. CASE conn[mine[c]].stat # "dead"
  <2>1. Under' = Under \cup {h}
    BY <1>2, <1>7, SendBodyPlaces
  <2>2. Fate(h) = "waiting"
    BY <1>4, FatesPlaced DEF Placed
  <2>3. Fate(h)' = "sent"
    BY <1>4, <2>1, FatesPlaced DEF Placed
  <2>4. \A q \in Record : q # h => Fate(q)' = Fate(q)
    BY <1>3, <1>5, <2>1, FatesPlaced DEF Placed
  <2>5. [q \in Record |-> Fate(q)]' = [[q \in Record |-> Fate(q)] EXCEPT ![h] = "sent"]
    BY <1>4, <2>3, <2>4, OneMoves
  <2> QED
    BY <1>3, <1>4, <2>2, <2>5 DEF Fates!Send, Fates!Move
<1> QED
  BY <1>6, <1>7

LEMMA FailStep ==
  ASSUME IInv, IInv', NEW c \in Client, Fail(c)
  PROVE  Fates!Lose \/ \E r \in Record : Fates!Discard(r)
<1>1. TypeOK /\ ClientInv
  BY DEF IInv
<1>2. PICK h : h = hand[c]
  OBVIOUS
<1>3. /\ pc[c] \notin {"pop", "done"}
      /\ UNCHANGED <<made, queue, sent, log>>
      /\ \/ discarded' = discarded \cup {h} /\ NextJob(c)
         \/ UNCHANGED <<hand, discarded>>
  <2>1. pc[c] \in {"try", "header", "head", "body"} /\ UNCHANGED <<made, queue, sent, log>>
    BY DEF Fail, keeper
  <2> QED
    BY <1>1, <1>2, <2>1, FailCases
<1>4. h \in Record /\ h \in Waiting /\ h \notin sent /\ h \notin discarded
  BY <1>1, <1>2, <1>3, InHand DEF Waiting, Fresh
<1>5. Under' = Under
  <2>1. ~SendBody(c)
    BY <1>2, <1>3, <1>4 DEF SendBody
  <2> QED
    BY <2>1, ClientPlaces DEF Sender
<1>7. CASE UNCHANGED <<hand, discarded>>
  <2>1. Waiting' = Waiting
    BY <1>3, <1>7 DEF Waiting
  <2> QED
    BY <1>3, <1>5, <1>7, <2>1, Disappear
<1>8. CASE discarded' = discarded \cup {h} /\ NextJob(c)
  <2>1. \A q \in Record : /\ q \in Waiting' => q \in Waiting
                          /\ q \in Waiting /\ q # h => q \in Waiting'
    BY <1>1, <1>2, <1>3, <1>8, WaitingNext
  <2>2. Fate(h) = "waiting"
    BY <1>4, FatesPlaced DEF Placed
  <2>3. Fate(h)' = "discarded"
    BY <1>3, <1>4, <1>5, <1>8, FatesPlaced DEF Placed
  <2>4. \A q \in Record : q # h => Fate(q)' = Fate(q)
    BY <1>3, <1>5, <1>8, <2>1, FatesPlaced DEF Placed
  <2>5. [q \in Record |-> Fate(q)]'
          = [[q \in Record |-> Fate(q)] EXCEPT ![h] = "discarded"]
    BY <1>4, <2>3, <2>4, OneMoves
  <2> QED
    BY <1>3, <1>4, <2>2, <2>5 DEF Fates!Discard, Fates!Move
<1> QED
  BY <1>3, <1>7, <1>8

(* Every other step of a client leaves its records where they are, or      *)
(* drops them from the queue or the hand.                                  *)
LEMMA IdleStep ==
  ASSUME IInv, IInv', NEW c \in Client,
         EndClient(c) \/ Pop(c) \/ GiveUp(c) \/ Connect(c) \/ RecvHeader(c) \/ SendHead(c)
  PROVE  Fates!Lose
<1>1. TypeOK /\ ClientInv
  BY DEF IInv
<1>2. UNCHANGED <<made, log, discarded>>
  BY DEF EndClient, Pop, GiveUp, Connect, RecvHeader, SendHead, keeper
<1>3. Under' = Under
  <2>1. UNCHANGED sent
    BY DEF EndClient, Pop, GiveUp, Connect, RecvHeader, SendHead
  <2>2. ~SendBody(c)
    BY <1>1, <2>1, InHand DEF SendBody, Fresh
  <2> QED
    BY <2>2, ClientPlaces DEF Sender
<1>4. ASSUME NEW r \in Record, r \in Waiting' PROVE r \in Waiting
  <2>1. CASE UNCHANGED <<queue, hand>>
    BY <1>4, <2>1 DEF Waiting
  <2>2. CASE Pop(c)
    <3>1. queue \in [Client -> Seq(Record)] /\ hand \in [Client -> Record \cup {NoRec}]
      BY <1>1 DEF TypeOK
    <3>2. /\ \A d \in Client : d # c => queue'[d] = queue[d] /\ hand'[d] = hand[d]
          /\ \/ queue'[c] = <<>> /\ hand'[c] = hand[c]
             \/ /\ queue[c] # <<>> /\ queue'[c] = Front(queue[c])
                /\ hand'[c] = Last(queue[c])
      BY <2>2, <3>1 DEF Pop
    <3>3. /\ ToSet(queue'[c]) \subseteq ToSet(queue[c])
          /\ hand'[c] = hand[c] \/ hand'[c] \in ToSet(queue[c])
      <4>1. queue[c] # <<>> =>
              ToSet(queue[c]) = ToSet(Front(queue[c])) \cup {Last(queue[c])}
        BY <3>1, FrontSet
      <4>2. CASE queue'[c] = <<>> /\ hand'[c] = hand[c]
        BY <4>2, EmptySequence
      <4>3. CASE queue[c] # <<>> /\ queue'[c] = Front(queue[c]) /\ hand'[c] = Last(queue[c])
        BY <4>1, <4>3
      <4> QED
        BY <3>2, <4>2, <4>3
    <3> QED
      BY <1>4, <3>2, <3>3 DEF Waiting
  <2>3. CASE GiveUp(c)
    BY <1>1, <1>4, <2>3, WaitingNext DEF GiveUp
  <2> QED
    BY <2>1, <2>2, <2>3 DEF EndClient, Connect, RecvHeader, SendHead
<1> QED
  BY <1>2, <1>3, <1>4, Disappear

LEMMA ServerStep ==
  ASSUME IInv, IInv', UNCHANGED client, UNCHANGED log, Under' \subseteq Under
  PROVE  Fates!Lose
<1>1. UNCHANGED <<made, discarded>> /\ Waiting' = Waiting
  BY DEF client, Waiting
<1> QED
  BY <1>1, Disappear

LEMMA TransactStep ==
  ASSUME IInv, IInv', Transact
  PROVE  Fates!Lose \/ \E r \in Record : Fates!Store(r)
<1>1. PICK x : x = work
  OBVIOUS
<1>2. /\ x \in Record /\ x \notin ToSet(log) /\ x \notin Under'
      /\ Under = Under' \cup {x} /\ UNCHANGED <<client, made, queue, hand, discarded>>
      /\ \/ x \in Unfit /\ UNCHANGED log
         \/ x \notin Unfit /\ log' = Append(log, x)
  BY <1>1, TransactCases, TransactPlaces DEF client
<1>3. CASE x \in Unfit /\ UNCHANGED log
  BY <1>2, <1>3, ServerStep
<1>4. CASE x \notin Unfit /\ log' = Append(log, x)
  <2>1. ToSet(log') = ToSet(log) \cup {x}
    BY <1>2, <1>4, AppendSet DEF IInv, TypeOK
  <2>2. Waiting' = Waiting
    BY <1>2 DEF Waiting
  <2>3. Fate(x) = "sent"
    BY <1>2, FatesPlaced DEF Placed
  <2>4. Fate(x)' = "stored"
    BY <1>2, <2>1, FatesPlaced DEF Placed
  <2>5. \A q \in Record : q # x => Fate(q)' = Fate(q)
    BY <1>2, <2>1, <2>2, FatesPlaced DEF Placed
  <2>6. [q \in Record |-> Fate(q)]' = [[q \in Record |-> Fate(q)] EXCEPT ![x] = "stored"]
    BY <1>2, <2>4, <2>5, OneMoves
  <2>7. x \notin Refused
    BY <1>1, <1>4 DEF IInv, SizeInv, Refused
  <2> QED
    BY <1>2, <1>4, <2>3, <2>6, <2>7 DEF Fates!Store, Fates!Move
<1> QED
  BY <1>2, <1>3, <1>4

LEMMA FateStep ==
  ASSUME IInv, IInv', [Next]_vars
  PROVE  [Fates!Next]_(Fates!vars)
<1> SUFFICES Fates!Next
  OBVIOUS
<1>1. ASSUME NEW c \in Client, AddRec(c) \/ EndClient(c) \/ Sender(c) PROVE Fates!Next
  BY <1>1, MakeStep, SendStep, FailStep, IdleStep DEF Sender, Fates!Next
<1>2. ASSUME NEW k \in Conn, HandleConnect(k) PROVE Fates!Next
  <2>1. UNCHANGED <<client, log>>
    BY <1>2 DEF HandleConnect, keeper
  <2> QED
    BY <1>2, <2>1, AcceptPlaces, ServerStep DEF Fates!Next
<1>3. ASSUME NEW s \in Slot, Serve(s) \/ Lose(s) PROVE Fates!Next
  <2>1. UNCHANGED <<client, log>>
    BY <1>3 DEF Serve, SendHeader, HandleRecv, HandleEof, Lose, keeper
  <2>2. Under' \subseteq Under
    BY <1>3, GreetPlaces, RecvPlaces, ClearPlaces DEF Serve
  <2> QED
    BY <2>1, <2>2, ServerStep DEF Fates!Next
<1>4. ASSUME PushFree \/ Take \/ QuitServer \/ Exit \/ Crash PROVE Fates!Next
  <2>1. UNCHANGED <<client, log>>
    BY <1>4 DEF PushFree, Take, QuitServer, Exit, Crash, Down
  <2>2. Under' \subseteq Under
    BY <1>4, PushPlaces, TakePlaces, QuitPlaces, DownPlaces DEF Exit, Crash
  <2> QED
    BY <2>1, <2>2, ServerStep DEF Fates!Next
<1>5. ASSUME Transact PROVE Fates!Next
  BY <1>5, TransactStep DEF Fates!Next
<1>6. ASSUME Start \/ UNCHANGED vars PROVE Fates!Next
  <2>1. UNCHANGED <<client, log, conn, pend, work, squeue>>
    BY <1>6 DEF Start, vars, keeper
  <2>2. Under' = Under
    BY <2>1 DEF Under, Wires, Wire, Held
  <2> QED
    BY <2>1, <2>2, ServerStep DEF Fates!Next
<1> QED
  BY <1>1, <1>2, <1>3, <1>4, <1>5, <1>6 DEF Next, Worker

LEMMA FateInit == Init => Fates!Init
<1> SUFFICES ASSUME Init PROVE Fates!Init
  OBVIOUS
<1>1. \A r \in Record : Fate(r) = "none"
  BY RecordForm DEF Init, Fate
<1> QED
  BY <1>1 DEF Init, Fates!Init

(* What a client counts as sent is stored in the end, unless the server's  *)
(* tests refuse it, it was under way when the server closed the connection *)
(* or ended, or the client is ignored; what it counts neither as sent nor  *)
(* as discarded it still has, unless it is told to quit: no other step of  *)
(* client and server loses a record (client.cpp:277-325,                   *)
(* listen.cpp:335-347, 469-475, datakeep.cpp:572-644).                     *)
THEOREM LostSafe == Spec => []LostOnlyIfHit
<1>1. IInv => LostOnlyIfHit
  <2> SUFFICES ASSUME IInv, NEW r \in Record, Fate(r) = "lost"
               PROVE  IF r \in sent THEN r \in hit \cup Refused ELSE quit[r.by]
    BY DEF LostOnlyIfHit, IInv
  <2>1. Placed(r) /\ SentInv /\ KeptInv
    BY FateByPlace DEF IInv, AllPlaced
  <2>2. /\ r \in made /\ r \notin ToSet(log) /\ r \notin Under
        /\ r \notin discarded /\ r \notin Waiting
    BY <2>1 DEF Placed
  <2> QED
    BY <2>1, <2>2 DEF SentInv, KeptInv
<1> QED
  BY <1>1, Invariance, PTL

(* The parser of a peer never meets half a record, or a body without its   *)
(* head, whoever used the peer before: what RecKeep takes from it is a     *)
(* record (listen.cpp:335-347, 443-483).                                   *)
THEOREM NoGarbage ==
  Spec => [](/\ pend # Garbage /\ work # Garbage /\ Garbage \notin ToSet(squeue)
             /\ \A s \in Slot : buf[s] = <<>> \/ \E r \in Record : buf[s] = <<HeadOf(r)>>)
<1>1. IInv => /\ pend # Garbage /\ work # Garbage /\ Garbage \notin ToSet(squeue)
              /\ \A s \in Slot : buf[s] = <<>> \/ \E r \in Record : buf[s] = <<HeadOf(r)>>
  BY DEF IInv, PlaceInv, WireInv
<1> QED
  BY <1>1, Invariance, PTL

(* Clients and server together do to a record what RecFate allows: it is   *)
(* stored once at most, and only after its client counted it as sent; a    *)
(* record counted as discarded, too large or turned down is never stored,  *)
(* and what is stored stays (client.cpp:277-325, listen.cpp:342-347,       *)
(* 469-475, datakeep.cpp:585-644).                                         *)
THEOREM FateRefined == Spec => FateSpec
<1>1. IInv /\ IInv' /\ [Next]_vars => [Fates!Next]_(Fates!vars)
  BY FateStep
<1> QED
  BY <1>1, FateInit, Invariance, PTL DEF Spec, FateSpec, Fates!Spec
=============================================================================
