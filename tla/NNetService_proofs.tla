--------------------------- MODULE NNetService_proofs -------------------------
(***************************************************************************)
(* Proofs about the network service, for any number of engines, every set  *)
(* of positions and of networks, every size of a batch, and the death of   *)
(* the manager at any moment.                                              *)
(*                                                                         *)
(* The inductive invariant says where the manager's job is and what has    *)
(* become of the network it asked for (MgrInv), that ids are given to one  *)
(* engine each (IdInv), that the request of an engine is in one place, once*)
(* (OnePlace, OnceThere, PlaceInv), and is the one its engine waits for    *)
(* (GoodInv, PageInv), and what the batches are (BatchInv).                *)
(***************************************************************************)
EXTENDS NNetService, FiniteSetTheorems, SequenceTheorems, TLAPS

(* The manager replaces the network. *)
NewNet == {"reset", "reset-post", "reset-wait", "nop", "nop-post", "nop-wait"}
Ending == {"end-flag", "end-notify", "join", "done"}

(* The engines that have not started, and that wait for the service. *)
Unborn  == {"none", "off"}
Waiting == {"reg", "reg-wait"} \cup Asking

-----------------------------------------------------------------------------
(* The manager: where its job is, and what has become of the network.      *)

Own(type) == [type |-> type, id |-> Owner]
Idle      == spc \in {"take", "notify"}
Loaded    == (spc = "load" /\ fn = wid) \/ (spc = "take" /\ net = wid)

ResetInv ==
  /\ opc = "reset" => jobs = <<>> /\ Idle
  /\ opc = "reset-post" => jobs = <<Own("NNReset")>> /\ Idle
  /\ opc = "reset-wait" =>
       \/ jobs = <<Own("NNReset")>> /\ Idle /\ ~flagSrv
       \/ /\ jobs = <<>> /\ ~flagSrv
          /\ spc \in {"ids", "signal"} \/ (spc = "job" /\ job = Own("NNReset"))
       \/ jobs = <<>> /\ flagSrv /\ Loaded

NopInv ==
  /\ opc = "nop" => jobs = <<>> /\ Loaded
  /\ opc = "nop-post" => jobs = <<Own("NOP")>> /\ Loaded
  /\ opc = "nop-wait" =>
       \/ jobs = <<Own("NOP")>> /\ Loaded /\ ~flagSrv
       \/ /\ jobs = <<>> /\ ~flagSrv
          /\ spc = "job" /\ job = Own("NOP") /\ net = wid
       \/ jobs = <<>> /\ flagSrv /\ spc = "take" /\ net = wid

RunInv ==
  opc \in {"run", "quit"} =>
    /\ Idle \/ (spc = "job" /\ job.id # Owner)
    /\ net = wid
    /\ \A k \in DOMAIN jobs : jobs[k].id # Owner

EndInv ==
  /\ opc = "end-post" => jobs = <<Own("End")>> /\ Idle
  /\ opc \in Ending =>
       \/ jobs = <<Own("End")>> /\ Idle
       \/ jobs = <<>> /\ (spc = "stop" \/ (spc = "job" /\ job = Own("End")))

(* What the engines do meanwhile. *)
PhaseInv ==
  /\ opc \in NewNet => \/ \A c \in Client : cpc[c] = "none"
                       \/ \A c \in Client : cpc[c] = "ready"
  /\ opc = "run" => \A c \in Client : cpc[c] \notin {"none", "gone"}
  /\ opc = "quit" => \A c \in Client : cpc[c] # "none"
  /\ opc \in {"end-post"} \cup Ending => \A c \in Client : cpc[c] = "gone"

MgrInv ==
  /\ ResetInv /\ NopInv /\ RunInv /\ EndInv /\ PhaseInv
  /\ opc = "dead" => spc = "dead" /\ ppc = "dead" /\ wpc = "dead"
  /\ opc \in NewNet \ {"reset"} => fname = wid
  /\ flagSrv => opc \in {"reset-wait", "nop-wait", "dead"}
  /\ spc = "job" => job \in Job

-----------------------------------------------------------------------------
(* Ids are given in order, to one engine each. *)

UniqueIds ==
  \A c, d \in Client :
    c # d /\ cid[c] # Nothing /\ cid[d] # Nothing => cid[c] # cid[d]

IdInv ==
  /\ \A c \in Client : cid[c] = Nothing <=> cpc[c] \in Unborn
  /\ UniqueIds
  /\ (\E c \in Client : cpc[c] \in Unborn) =>
       /\ idNext = Cardinality({c \in Client : cid[c] # Nothing})
       /\ \A c \in Client : cid[c] # Nothing => cid[c] < idNext

-----------------------------------------------------------------------------
(* Where requests are. *)

Ids(s)  == {s[k].id : k \in DOMAIN s}
QIds(q) == UNION {Ids(q[b]) : b \in DOMAIN q}

Distinct(s) == \A j, k \in DOMAIN s : s[j].id = s[k].id => j = k

QDistinct(q) ==
  /\ \A b \in DOMAIN q : Distinct(q[b])
  /\ \A a, b \in DOMAIN q : a # b => Ids(q[a]) \cap Ids(q[b]) = {}

HandIds  == IF spc = "job" THEN {job.id} ELSE {}
WokenIds == {i \in Id : wakeups[i] > 0}

(* A request is in one place. *)
OnePlace ==
  \A i \in Id :
    /\ i \in Ids(jobs) =>
         /\ i \notin HandIds /\ i \notin QIds(pushq) /\ i \notin Ids(pe.items)
         /\ i \notin QIds(WaitItems) /\ i \notin Ids(we.items) /\ i \notin WokenIds
    /\ i \in HandIds =>
         /\ i \notin QIds(pushq) /\ i \notin Ids(pe.items)
         /\ i \notin QIds(WaitItems) /\ i \notin Ids(we.items) /\ i \notin WokenIds
    /\ i \in QIds(pushq) =>
         /\ i \notin Ids(pe.items)
         /\ i \notin QIds(WaitItems) /\ i \notin Ids(we.items) /\ i \notin WokenIds
    /\ i \in Ids(pe.items) =>
         /\ i \notin QIds(WaitItems) /\ i \notin Ids(we.items) /\ i \notin WokenIds
    /\ i \in QIds(WaitItems) => i \notin Ids(we.items) /\ i \notin WokenIds
    /\ i \in Ids(we.items) => i \notin WokenIds

(* And once. *)
OnceThere ==
  /\ Distinct(jobs) /\ QDistinct(pushq) /\ Distinct(pe.items)
  /\ QDistinct(WaitItems) /\ Distinct(we.items)
  /\ \A i \in Id : wakeups[i] <= 1

BatchIds == QIds(pushq) \cup Ids(pe.items) \cup QIds(WaitItems) \cup Ids(we.items)
Places   == Ids(jobs) \cup HandIds \cup BatchIds \cup WokenIds

(* An engine that waits has a request, one that does not has none.  (The    *)
(* death of the manager leaves requests of engines that are gone.)         *)
Owes(c) == cpc[c] \in Waiting \/ (cpc[c] = "gone" /\ opc = "dead")

PlaceInv ==
  /\ \A i \in Places : i = Owner \/ \E c \in Client : cid[c] = i
  /\ \A c \in Client : cid[c] \in Places => Owes(c)
  /\ \A c \in Client : opc # "dead" /\ cpc[c] \in Waiting => cid[c] \in Places

(* The request is the one its engine waits for. *)
GoodJob(x) ==
  \A c \in Client : cid[c] = x.id =>
    \/ x.type = "Register" /\ cpc[c] \in {"reg", "reg-wait", "gone"}
    \/ x.type = "FeedForward" /\ cpc[c] \in Asking \cup {"gone"}

GoodItem(x) ==
  \A c \in Client :
    cid[c] = x.id /\ cpc[c] # "gone" =>
      cpc[c] \in Asking /\ x.pos = page[x.id].pos

QRange(q)  == UNION {Range(q[b]) : b \in DOMAIN q}
JobsThere  == Range(jobs) \cup (IF spc = "job" THEN {job} ELSE {})
ItemsThere == QRange(pushq) \cup Range(pe.items)
                \cup QRange(WaitItems) \cup Range(we.items)

GoodInv ==
  /\ \A x \in JobsThere : GoodJob(x)
  /\ \A x \in ItemsThere : GoodItem(x)

PageInv ==
  \A c \in Client : cpc[c] \in Asking =>
    /\ page[cid[c]].pos \in Position
    /\ wakeups[cid[c]] > 0 => page[cid[c]].val \in Value

-----------------------------------------------------------------------------
(* Batches are full up to the last one, and on the network in service. *)

BatchInv ==
  /\ BatchesFit
  /\ opc # "dead" =>
       /\ IF ppc \in {"push", "append"} THEN Len(pe.items) \in 1 .. SizeBatch
          ELSE pe.items = <<>>
       /\ wpc # "answer" => we.items = <<>>
  /\ \A b \in DOMAIN waitq : waitq[b].net = net
  /\ ppc = "append" => pe.net = net
  /\ we.items # <<>> => we.net = net

TicketInv == opc # "dead" => Len(jobs) = tickets + Unannounced

(* The inductive invariant. *)
IInv ==
  /\ TypeOK /\ MgrInv /\ IdInv /\ OnePlace /\ OnceThere /\ PlaceInv /\ GoodInv
  /\ PageInv /\ BatchInv /\ TicketInv

-----------------------------------------------------------------------------
(* Sequences of things with an id, and queues of them. *)

LEMMA EmptyIds ==
  /\ Ids(<<>>) = {} /\ Distinct(<<>>) /\ QIds(<<>>) = {} /\ QDistinct(<<>>)
  /\ \A T : \A s \in Seq(T) : Ids(s) = {} => s = <<>>
<1>1. /\ Ids(<<>>) = {} /\ Distinct(<<>>) /\ QIds(<<>>) = {} /\ QDistinct(<<>>)
  BY DEF Ids, Distinct, QIds, QDistinct
<1>2. ASSUME NEW T, NEW s \in Seq(T), Ids(s) = {} PROVE s = <<>>
  <2>1. DOMAIN s = {}
    BY <1>2 DEF Ids
  <2> QED
    BY <2>1, LenProperties, EmptySeq
<1> QED
  BY <1>1, <1>2

LEMMA AppendIds ==
  ASSUME NEW T, NEW s \in Seq(T), NEW x \in T
  PROVE  /\ Append(s, x) \in Seq(T) /\ Len(Append(s, x)) = Len(s) + 1
         /\ Ids(Append(s, x)) = Ids(s) \cup {x.id}
         /\ Distinct(s) /\ x.id \notin Ids(s) => Distinct(Append(s, x))
         /\ \A k \in DOMAIN Append(s, x) :
              \/ k \in DOMAIN s /\ Append(s, x)[k] = s[k]
              \/ k = Len(s) + 1 /\ Append(s, x)[k] = x
<1> DEFINE t == Append(s, x)
           n == Len(s)
<1>1. /\ t \in Seq(T) /\ Len(t) = n + 1
      /\ \A k \in 1 .. n : t[k] = s[k]
      /\ t[n + 1] = x
  OBVIOUS
<1>2. n \in Nat /\ DOMAIN s = 1 .. n /\ DOMAIN t = 1 .. n + 1
  BY <1>1, LenProperties
<1> HIDE DEF t, n
<1>3. \A k \in 1 .. n + 1 : k \in 1 .. n \/ k = n + 1
  BY <1>2
<1>4. Ids(t) = Ids(s) \cup {x.id}
  BY <1>1, <1>2, <1>3 DEF Ids
<1>5. ASSUME Distinct(s), x.id \notin Ids(s) PROVE Distinct(t)
  <2>1. \A k \in 1 .. n : s[k].id # x.id
    BY <1>2, <1>5 DEF Ids
  <2>2. ASSUME NEW j \in 1 .. n + 1, NEW k \in 1 .. n + 1, t[j].id = t[k].id
        PROVE  j = k
    BY <1>1, <1>2, <1>3, <1>5, <2>1, <2>2 DEF Distinct
  <2> QED
    BY <1>2, <2>2 DEF Distinct
<1>6. \A k \in DOMAIN t : \/ k \in DOMAIN s /\ t[k] = s[k]
                          \/ k = n + 1 /\ t[k] = x
  BY <1>1, <1>2, <1>3
<1> QED
  BY <1>1, <1>4, <1>5, <1>6 DEF t, n

LEMMA TailIds ==
  ASSUME NEW T, NEW s \in Seq(T), s # <<>>
  PROVE  /\ Head(s) \in T /\ Tail(s) \in Seq(T) /\ Len(Tail(s)) = Len(s) - 1
         /\ Head(s) = s[1] /\ 1 \in DOMAIN s /\ Len(s) > 0
         /\ \A k \in DOMAIN Tail(s) : k + 1 \in DOMAIN s /\ Tail(s)[k] = s[k + 1]
         /\ Ids(s) = Ids(Tail(s)) \cup {Head(s).id}
         /\ Distinct(s) => Distinct(Tail(s)) /\ Head(s).id \notin Ids(Tail(s))
<1> DEFINE t == Tail(s)
           n == Len(s)
<1>1. /\ Head(s) = s[1] /\ Head(s) \in T /\ t \in Seq(T) /\ Len(t) = n - 1
      /\ \A i \in 1 .. n - 1 : t[i] = s[i + 1]
  BY HeadTailProperties
<1>2. n \in Nat /\ n > 0 /\ DOMAIN s = 1 .. n /\ DOMAIN t = 1 .. n - 1
  BY <1>1, LenProperties, EmptySeq
<1> HIDE DEF t, n
<1>3. \A k \in 1 .. n - 1 : k + 1 \in 1 .. n /\ k + 1 # 1 /\ t[k] = s[k + 1]
  BY <1>1, <1>2
<1>4. \A k \in 1 .. n : k = 1 \/ (k - 1 \in 1 .. n - 1 /\ s[k] = t[k - 1])
  <2>1. ASSUME NEW k \in 1 .. n, k # 1
        PROVE  k - 1 \in 1 .. n - 1 /\ (k - 1) + 1 = k
    BY <1>2, <2>1
  <2> QED
    BY <1>1, <2>1
<1>5. Ids(s) = Ids(t) \cup {s[1].id}
  <2>1. ASSUME NEW i \in Ids(s) PROVE i \in Ids(t) \cup {s[1].id}
    BY <1>2, <1>4, <2>1 DEF Ids
  <2>2. ASSUME NEW i \in Ids(t) \cup {s[1].id} PROVE i \in Ids(s)
    <3>1. 1 \in 1 .. n
      BY <1>2
    <3> QED
      BY <1>2, <1>3, <2>2, <3>1 DEF Ids
  <2> QED
    BY <2>1, <2>2
<1>6. ASSUME Distinct(s) PROVE Distinct(t) /\ s[1].id \notin Ids(t)
  <2>1. ASSUME NEW j \in 1 .. n - 1, NEW k \in 1 .. n - 1, t[j].id = t[k].id
        PROVE  j = k
    <3>1. j + 1 \in DOMAIN s /\ k + 1 \in DOMAIN s /\ s[j + 1].id = s[k + 1].id
      BY <1>2, <1>3, <2>1
    <3>2. j + 1 = k + 1
      BY <1>6, <3>1 DEF Distinct
    <3> QED
      BY <3>2
  <2>2. ASSUME NEW k \in 1 .. n - 1, t[k].id = s[1].id PROVE FALSE
    <3>1. 1 \in 1 .. n
      BY <1>2
    <3>2. k + 1 \in 1 .. n /\ k + 1 # 1 /\ s[k + 1].id = s[1].id
      BY <1>3, <2>2
    <3> QED
      BY <1>2, <1>6, <3>1, <3>2 DEF Distinct
  <2> QED
    BY <1>2, <2>1, <2>2 DEF Distinct, Ids
<1>7. 1 \in DOMAIN s
  BY <1>2
<1> QED
  BY <1>1, <1>2, <1>3, <1>5, <1>6, <1>7 DEF t, n

LEMMA AppendQueue ==
  ASSUME NEW T, NEW q \in Seq(Seq(T)), NEW b \in Seq(T)
  PROVE  /\ Append(q, b) \in Seq(Seq(T))
         /\ QIds(Append(q, b)) = QIds(q) \cup Ids(b)
         /\ QDistinct(q) /\ Distinct(b) /\ QIds(q) \cap Ids(b) = {}
              => QDistinct(Append(q, b))
<1> DEFINE r == Append(q, b)
           n == Len(q)
<1>1. /\ r \in Seq(Seq(T)) /\ Len(r) = n + 1
      /\ \A k \in 1 .. n : r[k] = q[k]
      /\ r[n + 1] = b
  OBVIOUS
<1>2. n \in Nat /\ DOMAIN q = 1 .. n /\ DOMAIN r = 1 .. n + 1
  BY <1>1, LenProperties
<1> HIDE DEF r, n
<1>3. /\ \A k \in 1 .. n + 1 : k \in 1 .. n \/ k = n + 1
      /\ \A k \in 1 .. n : k \in 1 .. n + 1
      /\ n + 1 \in 1 .. n + 1
  BY <1>2
<1>4. QIds(r) = QIds(q) \cup Ids(b)
  <2>1. ASSUME NEW i \in QIds(r) PROVE i \in QIds(q) \cup Ids(b)
    BY <1>1, <1>2, <1>3, <2>1 DEF QIds
  <2>2. ASSUME NEW i \in QIds(q) \cup Ids(b) PROVE i \in QIds(r)
    BY <1>1, <1>2, <1>3, <2>2 DEF QIds
  <2> QED
    BY <2>1, <2>2
<1>5. ASSUME QDistinct(q), Distinct(b), QIds(q) \cap Ids(b) = {}
      PROVE  QDistinct(r)
  <2>1. \A k \in 1 .. n : Ids(q[k]) \cap Ids(b) = {}
    BY <1>2, <1>5 DEF QIds
  <2>2. \A k \in 1 .. n + 1 : Distinct(r[k])
    BY <1>1, <1>2, <1>3, <1>5 DEF QDistinct
  <2>3. ASSUME NEW j \in 1 .. n + 1, NEW k \in 1 .. n + 1, j # k
        PROVE  Ids(r[j]) \cap Ids(r[k]) = {}
    BY <1>1, <1>2, <1>3, <1>5, <2>1, <2>3 DEF QDistinct
  <2> QED
    BY <1>2, <2>2, <2>3 DEF QDistinct
<1> QED
  BY <1>1, <1>4, <1>5 DEF r

LEMMA TailQueue ==
  ASSUME NEW T, NEW q \in Seq(Seq(T)), q # <<>>
  PROVE  /\ QIds(q) = QIds(Tail(q)) \cup Ids(Head(q))
         /\ QDistinct(q) => /\ QDistinct(Tail(q)) /\ Distinct(Head(q))
                            /\ QIds(Tail(q)) \cap Ids(Head(q)) = {}
<1> DEFINE r == Tail(q)
           n == Len(q)
<1>1. /\ Head(q) = q[1] /\ r \in Seq(Seq(T)) /\ Len(r) = n - 1
      /\ \A i \in 1 .. n - 1 : r[i] = q[i + 1]
  BY HeadTailProperties
<1>2. n \in Nat /\ n > 0 /\ DOMAIN q = 1 .. n /\ DOMAIN r = 1 .. n - 1
  BY <1>1, LenProperties, EmptySeq
<1> HIDE DEF r, n
<1>3. /\ \A k \in 1 .. n - 1 : k + 1 \in 1 .. n /\ k + 1 # 1 /\ r[k] = q[k + 1]
      /\ 1 \in 1 .. n
  BY <1>1, <1>2
<1>4. \A k \in 1 .. n : k = 1 \/ (k - 1 \in 1 .. n - 1 /\ q[k] = r[k - 1])
  <2>1. ASSUME NEW k \in 1 .. n, k # 1
        PROVE  k - 1 \in 1 .. n - 1 /\ (k - 1) + 1 = k
    BY <1>2, <2>1
  <2> QED
    BY <1>1, <2>1
<1>5. QIds(q) = QIds(r) \cup Ids(q[1])
  <2>1. ASSUME NEW i \in QIds(q) PROVE i \in QIds(r) \cup Ids(q[1])
    BY <1>2, <1>4, <2>1 DEF QIds
  <2>2. ASSUME NEW i \in QIds(r) \cup Ids(q[1]) PROVE i \in QIds(q)
    BY <1>2, <1>3, <2>2 DEF QIds
  <2> QED
    BY <2>1, <2>2
<1>6. ASSUME QDistinct(q)
      PROVE  QDistinct(r) /\ Distinct(q[1]) /\ QIds(r) \cap Ids(q[1]) = {}
  <2>1. \A k \in 1 .. n - 1 : Distinct(r[k]) /\ Ids(r[k]) \cap Ids(q[1]) = {}
    BY <1>2, <1>3, <1>6 DEF QDistinct
  <2>2. ASSUME NEW j \in 1 .. n - 1, NEW k \in 1 .. n - 1, j # k
        PROVE  Ids(r[j]) \cap Ids(r[k]) = {}
    <3>1. j + 1 # k + 1
      BY <2>2
    <3> QED
      BY <1>2, <1>3, <1>6, <3>1 DEF QDistinct
  <2>3. Distinct(q[1])
    BY <1>2, <1>3, <1>6 DEF QDistinct
  <2> QED
    BY <1>2, <2>1, <2>2, <2>3 DEF QDistinct, QIds
<1> QED
  BY <1>1, <1>5, <1>6 DEF r

(* The last batch grows. *)
LEMMA GrowQueue ==
  ASSUME NEW T, NEW q \in Seq(Seq(T)), NEW x \in T, q # <<>>
  PROVE  LET r == [q EXCEPT ![Len(q)] = Append(@, x)] IN
         /\ r \in Seq(Seq(T)) /\ Len(r) = Len(q) /\ DOMAIN r = DOMAIN q
         /\ Len(q) \in DOMAIN q /\ r[Len(q)] = Append(q[Len(q)], x)
         /\ \A k \in DOMAIN q : k # Len(q) => r[k] = q[k]
         /\ QIds(r) = QIds(q) \cup {x.id}
         /\ QDistinct(q) /\ x.id \notin QIds(q) => QDistinct(r)
<1> DEFINE n == Len(q)
           r == [q EXCEPT ![n] = Append(@, x)]
           b == Append(q[n], x)
<1>1. n \in Nat /\ n > 0 /\ DOMAIN q = 1 .. n /\ n \in 1 .. n
  BY LenProperties, EmptySeq
<1>2. /\ b \in Seq(T) /\ Ids(b) = Ids(q[n]) \cup {x.id}
      /\ Distinct(q[n]) /\ x.id \notin Ids(q[n]) => Distinct(b)
  <2>1. q[n] \in Seq(T)
    BY <1>1, ElementOfSeq
  <2> QED
    BY <2>1, AppendIds
<1>3. /\ r \in Seq(Seq(T)) /\ Len(r) = n /\ DOMAIN r = 1 .. n
      /\ r[n] = b /\ \A k \in 1 .. n : k # n => r[k] = q[k]
  <2>1. r \in Seq(Seq(T)) /\ Len(r) = n
    BY <1>1, <1>2, ExceptSeq
  <2> QED
    BY <1>1, <2>1
<1> HIDE DEF n, r, b
<1>4. QIds(r) = QIds(q) \cup {x.id}
  <2>1. ASSUME NEW i \in QIds(r) PROVE i \in QIds(q) \cup {x.id}
    <3>1. PICK k \in 1 .. n : i \in Ids(r[k])
      BY <1>3 DEF QIds
    <3> QED
      BY <1>1, <1>2, <1>3, <3>1 DEF QIds
  <2>2. ASSUME NEW i \in QIds(q) PROVE i \in QIds(r)
    <3>1. PICK k \in 1 .. n : i \in Ids(q[k])
      BY <1>1 DEF QIds
    <3>2. i \in Ids(r[k])
      BY <1>2, <1>3, <3>1
    <3> QED
      BY <1>3, <3>1, <3>2 DEF QIds
  <2>3. x.id \in QIds(r)
    BY <1>1, <1>2, <1>3 DEF QIds
  <2> QED
    BY <2>1, <2>2, <2>3
<1>5. ASSUME QDistinct(q), x.id \notin QIds(q) PROVE QDistinct(r)
  <2>1. \A k \in 1 .. n : x.id \notin Ids(q[k])
    BY <1>1, <1>5 DEF QIds
  <2>2. \A k \in 1 .. n : Distinct(r[k])
    BY <1>1, <1>2, <1>3, <1>5, <2>1 DEF QDistinct
  <2>3. ASSUME NEW j \in 1 .. n, NEW k \in 1 .. n, j # k
        PROVE  Ids(r[j]) \cap Ids(r[k]) = {}
    <3>1. Ids(q[j]) \cap Ids(q[k]) = {}
      BY <1>1, <1>5, <2>3 DEF QDistinct
    <3>2. \A i \in Ids(r[j]) : i \in Ids(q[j]) \/ (i = x.id /\ j = n)
      BY <1>2, <1>3
    <3>3. \A i \in Ids(r[k]) : i \in Ids(q[k]) \/ (i = x.id /\ k = n)
      BY <1>2, <1>3
    <3> QED
      BY <2>1, <2>3, <3>1, <3>2, <3>3
  <2> QED
    BY <1>3, <2>2, <2>3 DEF QDistinct
<1> QED
  BY <1>1, <1>3, <1>4, <1>5 DEF n, r, b

-----------------------------------------------------------------------------
(* Batches on the network, as a queue of items. *)

ItemsOf(w) == [k \in DOMAIN w |-> w[k].items]

LEMMA ItemsFacts ==
  ASSUME NEW w \in Seq(Batch)
  PROVE  /\ ItemsOf(w) \in Seq(Seq(Item)) /\ Len(ItemsOf(w)) = Len(w)
         /\ DOMAIN ItemsOf(w) = DOMAIN w
         /\ \A k \in DOMAIN w : ItemsOf(w)[k] = w[k].items
         /\ w = <<>> <=> ItemsOf(w) = <<>>
<1>1. Len(w) \in Nat /\ DOMAIN w = 1 .. Len(w)
  BY LenProperties
<1>2. \A k \in 1 .. Len(w) : w[k].items \in Seq(Item)
  <2>1. ASSUME NEW k \in 1 .. Len(w) PROVE w[k] \in Batch
    BY ElementOfSeq
  <2> QED
    BY <2>1 DEF Batch
<1>3. ItemsOf(w) = [k \in 1 .. Len(w) |-> w[k].items]
  BY <1>1 DEF ItemsOf
<1>4. ItemsOf(w) \in Seq(Seq(Item)) /\ Len(ItemsOf(w)) = Len(w)
  BY <1>1, <1>2, <1>3, IsASeq
<1>5. w = <<>> <=> ItemsOf(w) = <<>>
  BY <1>4, EmptySeq
<1> QED
  BY <1>1, <1>3, <1>4, <1>5

LEMMA ItemsAppend ==
  ASSUME NEW w \in Seq(Batch), NEW e \in Batch
  PROVE  ItemsOf(Append(w, e)) = Append(ItemsOf(w), e.items)
<1> DEFINE v == Append(w, e)
           s == Append(ItemsOf(w), e.items)
<1>1. /\ v \in Seq(Batch) /\ Len(v) = Len(w) + 1 /\ Len(w) \in Nat
      /\ \A k \in 1 .. Len(w) : v[k] = w[k]
      /\ v[Len(w) + 1] = e
  BY LenProperties
<1>2. /\ s \in Seq(Seq(Item)) /\ Len(s) = Len(w) + 1
      /\ \A k \in 1 .. Len(w) : s[k] = w[k].items
      /\ s[Len(w) + 1] = e.items
  <2>1. e.items \in Seq(Item) /\ ItemsOf(w) \in Seq(Seq(Item))
        /\ Len(ItemsOf(w)) = Len(w)
    BY ItemsFacts DEF Batch
  <2>2. \A k \in 1 .. Len(w) : ItemsOf(w)[k] = w[k].items
    BY LenProperties, ItemsFacts
  <2> HIDE DEF ItemsOf
  <2> QED
    BY <2>1, <2>2
<1> HIDE DEF v, s
<1>3. /\ ItemsOf(v) \in Seq(Seq(Item)) /\ Len(ItemsOf(v)) = Len(w) + 1
      /\ \A k \in 1 .. Len(w) + 1 : ItemsOf(v)[k] = v[k].items
  BY <1>1, LenProperties, ItemsFacts
<1>4. \A k \in 1 .. Len(w) + 1 : ItemsOf(v)[k] = s[k]
  <2>1. \A k \in 1 .. Len(w) + 1 : k \in 1 .. Len(w) \/ k = Len(w) + 1
    BY <1>1
  <2> QED
    BY <1>1, <1>2, <1>3, <2>1
<1>5. ItemsOf(v) = s
  BY <1>2, <1>3, <1>4, SeqEqual
<1> QED
  BY <1>5 DEF v, s

LEMMA ItemsTail ==
  ASSUME NEW w \in Seq(Batch), w # <<>>
  PROVE  /\ ItemsOf(Tail(w)) = Tail(ItemsOf(w)) /\ ItemsOf(w) # <<>>
         /\ Head(w) \in Batch /\ Head(ItemsOf(w)) = Head(w).items
<1> DEFINE v == Tail(w)
           s == Tail(ItemsOf(w))
           n == Len(w)
<1>1. /\ Head(w) = w[1] /\ Head(w) \in Batch /\ v \in Seq(Batch)
      /\ Len(v) = n - 1
      /\ \A i \in 1 .. n - 1 : v[i] = w[i + 1]
  BY HeadTailProperties
<1>2. n \in Nat /\ n > 0
  BY LenProperties, EmptySeq
<1>3. /\ ItemsOf(w) \in Seq(Seq(Item)) /\ Len(ItemsOf(w)) = n
      /\ \A k \in 1 .. n : ItemsOf(w)[k] = w[k].items
      /\ ItemsOf(w) # <<>>
  BY LenProperties, ItemsFacts
<1>4. /\ Head(ItemsOf(w)) = ItemsOf(w)[1] /\ s \in Seq(Seq(Item)) /\ Len(s) = n - 1
      /\ \A i \in 1 .. n - 1 : s[i] = ItemsOf(w)[i + 1]
  BY <1>3, HeadTailProperties
<1> HIDE DEF v, s, n
<1>5. /\ ItemsOf(v) \in Seq(Seq(Item)) /\ Len(ItemsOf(v)) = n - 1
      /\ \A k \in 1 .. n - 1 : ItemsOf(v)[k] = v[k].items
  BY <1>1, LenProperties, ItemsFacts
<1>6. \A k \in 1 .. n - 1 : ItemsOf(v)[k] = s[k]
  <2>1. \A k \in 1 .. n - 1 : k + 1 \in 1 .. n
    BY <1>2
  <2> QED
    BY <1>1, <1>3, <1>4, <1>5, <2>1
<1>7. ItemsOf(v) = s
  BY <1>4, <1>5, <1>6, SeqEqual
<1>8. 1 \in 1 .. n
  BY <1>2
<1> QED
  BY <1>1, <1>3, <1>4, <1>7, <1>8 DEF v, s

-----------------------------------------------------------------------------
(* Engines are counted. *)

LEMMA ClientFacts ==
  /\ IsFiniteSet(Client) /\ Cardinality(Client) \in Nat
  /\ Owner \in Nat /\ Owner \notin Id /\ Id \subseteq Nat /\ Nothing \notin Nat
  /\ Owner = Cardinality(Client)
<1>1. IsFiniteSet(Client) /\ Cardinality(Client) \in Nat
  BY ClientAssumption, FS_CardinalityType
<1> QED
  BY <1>1, NothingAssumption DEF Owner, Id

LEMMA CountNat ==
  ASSUME NEW S \in SUBSET Client
  PROVE  IsFiniteSet(S) /\ Cardinality(S) \in Nat
BY ClientFacts, FS_Subset, FS_CardinalityType

(* When one engine is added to or taken from a set of them. *)
LEMMA CountOne ==
  ASSUME NEW S \in SUBSET Client, NEW c \in Client
  PROVE  /\ c \notin S => Cardinality(S \cup {c}) = Cardinality(S) + 1
                          /\ Cardinality(S) < Cardinality(Client)
         /\ c \in S => Cardinality(S \ {c}) = Cardinality(S) - 1
<1>1. IsFiniteSet(S) /\ Cardinality(S) \in Nat
  BY CountNat
<1>2. ASSUME c \notin S
      PROVE  /\ Cardinality(S \cup {c}) = Cardinality(S) + 1
             /\ Cardinality(S) < Cardinality(Client)
  <2>1. Cardinality(S \cup {c}) = Cardinality(S) + 1
    BY <1>1, <1>2, FS_AddElement
  <2>2. Cardinality(S \cup {c}) <= Cardinality(Client)
    <3>1. S \cup {c} \subseteq Client
      OBVIOUS
    <3> QED
      BY <3>1, ClientFacts, FS_Subset
  <2> QED
    BY <1>1, <2>1, <2>2, ClientFacts
<1>3. c \in S => Cardinality(S \ {c}) = Cardinality(S) - 1
  BY <1>1, FS_RemoveElement
<1> QED
  BY <1>1, <1>2, <1>3

(* The table has room for a job of each engine and one of the manager. *)
LEMMA TableFits ==
  ASSUME NEW s \in Seq(Job), Distinct(s)
  PROVE  Len(s) <= Cardinality(Client) + 1
<1> DEFINE N == Cardinality(Client)
           f == [k \in 1 .. Len(s) |-> s[k].id]
<1>1. Len(s) \in Nat /\ DOMAIN s = 1 .. Len(s) /\ N \in Nat
  BY LenProperties, ClientFacts
<1>2. ASSUME NEW k \in 1 .. Len(s) PROVE s[k].id \in 0 .. N
  <2>1. s[k] \in Job
    BY ElementOfSeq
  <2>2. s[k].id \in Id \cup {Owner}
    BY <2>1 DEF Job
  <2> QED
    BY <1>1, <2>2 DEF Id, Owner
<1>3. f \in [1 .. Len(s) -> 0 .. N]
      /\ \A j, k \in 1 .. Len(s) : f[j] = f[k] => j = k
  BY <1>1, <1>2 DEF Distinct
<1>4. IsFiniteSet(0 .. N) /\ Cardinality(0 .. N) = N + 1
  <2>1. 0 \in Int /\ N \in Int /\ ~(0 > N)
    BY <1>1
  <2>2. IsFiniteSet(0 .. N) /\ Cardinality(0 .. N) = IF 0 > N THEN 0 ELSE N - 0 + 1
    BY <2>1, FS_Interval
  <2> QED
    BY <1>1, <2>2
<1>5. IsFiniteSet(1 .. Len(s)) /\ Cardinality(1 .. Len(s)) = Len(s)
  <2>1. IsFiniteSet(1 .. Len(s))
        /\ Cardinality(1 .. Len(s)) = IF 1 > Len(s) THEN 0 ELSE Len(s) - 1 + 1
    <3>1. 1 \in Int /\ Len(s) \in Int
      BY <1>1
    <3> QED
      BY <3>1, FS_Interval
  <2> QED
    BY <1>1, <2>1
<1> HIDE DEF f
<1>6. ASSUME N + 1 < Len(s) PROVE FALSE
  <2>1. Cardinality(0 .. N) < Cardinality(1 .. Len(s))
    BY <1>4, <1>5, <1>6
  <2>2. \E j, k \in 1 .. Len(s) : j # k /\ f[j] = f[k]
    BY <1>3, <1>4, <1>5, <2>1, FS_PigeonHole
  <2> QED
    BY <1>3, <2>2
<1> QED
  BY <1>1, <1>6

-----------------------------------------------------------------------------
(* What each thread leaves alone. *)

LEMMA PushKeeps ==
  ASSUME PushThread
  PROVE  UNCHANGED <<jobs, tickets, idNext, wakeups, page, cpc, cid, opc, wid,
                     fname, flagSrv, flagQuit, spc, job, fn, net>>
BY DEF PushThread, PushQuit, PushTake, PushSleep, PushRun, PushAppend, PushNotify,
       shared, clients, owner, srv

LEMMA WaitKeeps ==
  ASSUME WaitThread
  PROVE  UNCHANGED <<jobs, tickets, idNext, cpc, cid, opc, wid, fname, flagSrv,
                     flagQuit, spc, job, fn, pushq, pe, net>>
BY DEF WaitThread, WaitQuit, WaitTake, WaitSleep, WaitAnswer, WaitDone,
       shared, clients, owner, srv, push

LEMMA SpuriousKeeps ==
  ASSUME Spurious
  PROVE  UNCHANGED <<jobs, tickets, idNext, wakeups, page, cpc, cid, opc, wid,
                     fname, flagSrv, flagQuit, spc, job, fn, pushq, waitq, pe, we,
                     net>>
BY DEF Spurious, shared, clients, owner, srv

LEMMA EngineKeeps ==
  ASSUME NEW c \in Client, Engine(c)
  PROVE  UNCHANGED <<opc, wid, fname, flagSrv, flagQuit, spc, job, fn, pushq,
                     waitq, ppc, pe, wpc, we, net>>
BY DEF Engine, TakeId, Register, Post, PickUp, BestMove, Exit, Orphan, Ask,
       owner, service, srv, push, wait

LEMMA ManagerKeeps ==
  ASSUME Manager
  PROVE  UNCHANGED <<idNext, wakeups, page, cid, spc, job, fn, pushq, waitq, pe,
                     we, net>>
BY DEF Manager, NNReset, WaitNop, OwnerPost, OwnerWoken, InService, Update, Quit,
       Destroy, SetQuit, EndNotify, Join, Go, shared, clients, service, srv, push,
       wait

LEMMA SrvKeeps ==
  ASSUME Srv
  PROVE  UNCHANGED <<page, cpc, cid, wid, fname, flagQuit, waitq, pe, we>>
BY DEF Srv, Take, SrvRegister, SrvNop, SrvReset, SrvResetIds, SrvSignal, SrvLoad,
       SrvFeedForward, SrvNotify, SrvEnd, Die, shared, clients, owner, srv, push, wait

-----------------------------------------------------------------------------
(* Announcements. *)

Posting   == {c \in Client : cpc[c] \in {"reg", "ask"}}
OwnerPosts == {"reset-post", "nop-post", "end-post"}

LEMMA EngineTickets == ASSUME IInv, NEW c \in Client, Engine(c) PROVE TicketInv'
<1>1. /\ opc' = opc /\ jobs \in Seq(Job) /\ tickets \in Nat
      /\ cpc \in [Client -> {"none", "ready", "gone"} \cup Registering \cup Thinking]
      /\ Posting \in SUBSET Client /\ Cardinality(Posting) \in Nat
  BY EngineKeeps, CountNat DEF IInv, TypeOK, Posting
<1>2. opc # "dead" => Len(jobs) = tickets + Cardinality(Posting)
                                    + (IF opc \in OwnerPosts THEN 1 ELSE 0)
  BY <1>1 DEF IInv, TicketInv, Unannounced, Posting, OwnerPosts
<1>3. SUFFICES opc # "dead" =>
                 Len(jobs') = tickets' + (Cardinality(Posting')
                                    + (IF opc \in OwnerPosts THEN 1 ELSE 0))
  <2>1. TicketInv' <=> (opc # "dead" =>
          Len(jobs') = tickets' + (Cardinality(Posting')
                                    + (IF opc \in OwnerPosts THEN 1 ELSE 0)))
    BY <1>1 DEF TicketInv, Unannounced, Posting, OwnerPosts
  <2> QED
    BY <1>3, <2>1
<1>4. CASE jobs' = jobs /\ tickets' = tickets /\ Posting' = Posting
  BY <1>1, <1>2, <1>4
<1>5. CASE /\ \E j : jobs' = Append(jobs, j)
           /\ tickets' = tickets /\ Posting' = Posting \cup {c} /\ c \notin Posting
  <2>1. Len(jobs') = Len(jobs) + 1 /\ Cardinality(Posting') = Cardinality(Posting) + 1
    BY <1>1, <1>5, CountOne
  <2> QED
    BY <1>1, <1>2, <1>5, <2>1, LenProperties
<1>6. CASE jobs' = jobs /\ tickets' = tickets + 1 /\ Posting' = Posting \ {c}
           /\ c \in Posting
  <2>1. Cardinality(Posting') = Cardinality(Posting) - 1
    BY <1>1, <1>6, CountOne
  <2> QED
    BY <1>1, <1>2, <1>6, <2>1, LenProperties
<1>7. CASE TakeId(c) \/ PickUp(c) \/ BestMove(c) \/ Exit(c) \/ Orphan(c)
  BY <1>1, <1>4, <1>7
     DEF TakeId, PickUp, BestMove, Exit, Orphan, Posting, shared
<1>8. CASE Register(c) \/ \E p \in Position : Ask(c, p)
  BY <1>1, <1>5, <1>8 DEF Register, Ask, Enqueue, Posting
<1>9. CASE Post(c)
  BY <1>1, <1>6, <1>9 DEF Post, Announce, Posting
<1> QED
  BY <1>7, <1>8, <1>9 DEF Engine

LEMMA ManagerTickets == ASSUME IInv, Manager PROVE TicketInv'
<1>1. /\ jobs \in Seq(Job) /\ tickets \in Nat /\ Len(jobs) \in Nat
      /\ cpc \in [Client -> {"none", "ready", "gone"} \cup Registering \cup Thinking]
      /\ Posting \in SUBSET Client /\ Cardinality(Posting) \in Nat
  BY CountNat, LenProperties DEF IInv, TypeOK, Posting
<1>2. opc # "dead" => Len(jobs) = tickets + Cardinality(Posting)
                                    + (IF opc \in OwnerPosts THEN 1 ELSE 0)
  BY <1>1 DEF IInv, TicketInv, Unannounced, Posting, OwnerPosts
<1>3. SUFFICES
        /\ opc # "dead" /\ Posting' = Posting
        /\ \/ /\ jobs' = jobs /\ tickets' = tickets
              /\ opc' \in OwnerPosts <=> opc \in OwnerPosts
           \/ /\ \E j : jobs' = Append(jobs, j)
              /\ tickets' = tickets /\ opc \notin OwnerPosts /\ opc' \in OwnerPosts
           \/ /\ jobs' = jobs /\ tickets' = tickets + 1
              /\ opc \in OwnerPosts /\ opc' \notin OwnerPosts
  <2>1. TicketInv' <=> (opc' # "dead" =>
          Len(jobs') = tickets' + (Cardinality(Posting')
                                    + (IF opc' \in OwnerPosts THEN 1 ELSE 0)))
    BY DEF TicketInv, Unannounced, Posting, OwnerPosts
  <2>2. (\E j : jobs' = Append(jobs, j)) => Len(jobs') = Len(jobs) + 1
    BY <1>1
  <2> QED
    BY <1>1, <1>2, <1>3, <2>1, <2>2
<1>4. CASE NNReset \/ WaitNop \/ Destroy
  BY <1>3, <1>4
     DEF NNReset, WaitNop, Destroy, Enqueue, Posting, OwnerPosts, clients
<1>5. CASE OwnerPost
  BY <1>3, <1>5 DEF OwnerPost, Announce, Posting, OwnerPosts, clients
<1>6. CASE OwnerWoken \/ Update \/ Quit \/ SetQuit \/ EndNotify \/ Join
  BY <1>3, <1>6
     DEF OwnerWoken, AfterReset, Update, Quit, SetQuit, EndNotify, Join, shared,
         clients, Posting, OwnerPosts
<1>7. CASE InService
  BY <1>1, <1>3, <1>7 DEF InService, Posting, OwnerPosts, shared
<1>8. CASE \E c \in Client : Go(c)
  BY <1>1, <1>3, <1>8 DEF Go, Posting, OwnerPosts, shared, owner
<1> QED
  BY <1>4, <1>5, <1>6, <1>7, <1>8 DEF Manager

LEMMA TicketStep == ASSUME IInv, [Next]_vars PROVE TicketInv'
<1>1. CASE UNCHANGED <<jobs, tickets, cpc, opc>>
  BY <1>1 DEF IInv, TicketInv, Unannounced
<1>2. CASE opc' = "dead"
  BY <1>2 DEF TicketInv
<1>3. ASSUME NEW c \in Client, Engine(c) PROVE TicketInv'
  BY <1>3, EngineTickets
<1>4. CASE Manager
  BY <1>4, ManagerTickets
<1>5. CASE ManagerDies
  BY <1>2, <1>5 DEF ManagerDies, Die
<1>6. CASE Take
  <2>1. /\ jobs # <<>> /\ jobs' = Tail(jobs) /\ tickets' = tickets - 1
        /\ UNCHANGED <<cpc, opc>>
    BY <1>6 DEF Take, clients, owner
  <2>2. jobs \in Seq(Job) /\ tickets \in Nat
    BY DEF IInv, TypeOK
  <2>3. Len(jobs) \in Nat /\ Len(jobs') = Len(jobs) - 1
    BY <2>1, <2>2, LenProperties, TailIds
  <2>4. Unannounced' = Unannounced /\ Unannounced \in Nat
    <3>1. Cardinality({c \in Client : cpc[c] \in {"reg", "ask"}}) \in Nat
      BY CountNat
    <3> QED
      BY <2>1, <3>1 DEF Unannounced
  <2> QED
    BY <2>1, <2>2, <2>3, <2>4 DEF IInv, TicketInv
<1>7. CASE Srv /\ ~Take
  BY <1>1, <1>2, <1>7 DEF Srv, SrvRegister, SrvNop, SrvReset, SrvResetIds, SrvSignal,
     SrvLoad, SrvFeedForward, SrvNotify, SrvEnd, Die, shared, clients, owner
<1>8. CASE PushThread \/ WaitThread \/ Spurious
  BY <1>1, <1>8, PushKeeps, WaitKeeps, SpuriousKeeps
<1>9. CASE UNCHANGED vars
  BY <1>1, <1>9 DEF vars, shared, clients, owner
<1> QED
  BY <1>3, <1>4, <1>5, <1>6, <1>7, <1>8, <1>9 DEF Next

-----------------------------------------------------------------------------
(* Ids. *)

(* While the network is replaced the engines have not started, or are idle. *)
LEMMA ResetPhase ==
  ASSUME IInv, spc \in Resetting
  PROVE  /\ opc \in NewNet \ {"reset", "reset-post"}
         /\ spc \in {"ids", "signal"} => opc = "reset-wait" /\ ~flagSrv
         /\ \/ \A c \in Client : cpc[c] = "none"
            \/ \A c \in Client : cpc[c] = "ready"
BY DEF IInv, TypeOK, MgrInv, ResetInv, NopInv, RunInv, EndInv, PhaseInv, NewNet,
       Ending, Idle, Loaded, Resetting, OwnerWaits

LEMMA IdFrame ==
  ASSUME IInv, UNCHANGED <<cid, idNext>>,
         \A c \in Client : cpc'[c] \in Unborn <=> cpc[c] \in Unborn
  PROVE  IdInv'
BY DEF IInv, IdInv, UniqueIds

LEMMA TakeIdInv ==
  ASSUME IInv, NEW c \in Client, TakeId(c)
  PROVE  /\ IdInv' /\ idNext \in Id /\ idNext' \in 0 .. Cardinality(Client)
         /\ \A d \in Client : cid[d] # idNext
<1> DEFINE S == {d \in Client : cid[d] # Nothing}
<1>1. /\ cpc[c] = "off" /\ cid' = [cid EXCEPT ![c] = idNext] /\ idNext' = idNext + 1
      /\ cpc' = [cpc EXCEPT ![c] = "id"]
  BY DEF TakeId
<1>2. /\ cid[c] = Nothing /\ idNext = Cardinality(S)
      /\ \A d \in Client : cid[d] # Nothing => cid[d] < idNext
  BY <1>1 DEF IInv, IdInv, Unborn
<1>3. /\ Cardinality(S \cup {c}) = idNext + 1 /\ idNext < Cardinality(Client)
      /\ idNext \in Nat
  <2>1. S \in SUBSET Client /\ c \notin S
    BY <1>2
  <2> QED
    BY <1>2, <2>1, CountOne, CountNat
<1>4. /\ idNext \in Id /\ idNext' \in 0 .. Cardinality(Client) /\ idNext # Nothing
      /\ idNext' # Nothing
  BY <1>1, <1>3, ClientFacts DEF Id
<1>5. \A d \in Client : cid[d] # idNext
  BY <1>2, <1>3, <1>4
<1>6. /\ cid'[c] = idNext /\ cpc'[c] = "id"
      /\ \A d \in Client \ {c} : cid'[d] = cid[d] /\ cpc'[d] = cpc[d]
  BY <1>1 DEF IInv, TypeOK
<1>7. S' = S \cup {c}
  BY <1>4, <1>6
<1>8. ASSUME NEW d \in Client, cid'[d] # Nothing
      PROVE  cid'[d] < idNext'
  <2>1. CASE d = c
    BY <1>1, <1>3, <1>6, <2>1
  <2>2. CASE d # c
    <3>1. cid'[d] = cid[d] /\ cid[d] \in Id \cup {Nothing}
      BY <1>6, <2>2 DEF IInv, TypeOK
    <3>2. cid[d] \in Nat /\ cid[d] < idNext
      BY <1>2, <1>8, <3>1, ClientFacts
    <3>3. \A x, y \in Nat : x < y => x < y + 1
      OBVIOUS
    <3> QED
      BY <1>1, <1>3, <3>1, <3>2, <3>3
  <2> QED
    BY <2>1, <2>2
<1>9. \A d \in Client : cid'[d] = Nothing <=> cpc'[d] \in Unborn
  BY <1>2, <1>4, <1>6 DEF IInv, IdInv, Unborn
<1>10. UniqueIds'
  BY <1>5, <1>6 DEF IInv, IdInv, UniqueIds
<1>11. idNext' = Cardinality(S')
  BY <1>1, <1>3, <1>7
<1> QED
  BY <1>4, <1>5, <1>8, <1>9, <1>10, <1>11 DEF IdInv

LEMMA IdStep == ASSUME IInv, [Next]_vars PROVE IdInv'
<1>1. cpc \in [Client -> {"none", "ready", "gone"} \cup Registering \cup Thinking]
  BY DEF IInv, TypeOK
<1>2. CASE UNCHANGED <<cid, idNext, cpc>>
  BY <1>2, IdFrame
<1>3. ASSUME NEW c \in Client, Engine(c) PROVE IdInv'
  <2>1. CASE TakeId(c)
    BY <2>1, TakeIdInv
  <2>2. CASE \/ Register(c) \/ Post(c) \/ PickUp(c) \/ BestMove(c) \/ Exit(c)
             \/ Orphan(c) \/ \E p \in Position : Ask(c, p)
    <3>1. /\ UNCHANGED <<cid, idNext>>
          /\ \E x \in {"reg", "reg-wait", "ask-wait", "ready", "think", "gone", "ask"} :
               cpc[c] \notin Unborn /\ cpc' = [cpc EXCEPT ![c] = x]
      BY <1>1, <2>2
         DEF Register, Post, PickUp, BestMove, Exit, Orphan, Ask, shared, Unborn
    <3> QED
      BY <1>1, <3>1, IdFrame DEF Unborn
  <2> QED
    BY <1>3, <2>1, <2>2 DEF Engine
<1>4. CASE Manager
  <2>1. UNCHANGED <<cid, idNext>>
    BY <1>4, ManagerKeeps
  <2>2. CASE InService
    BY <1>1, <2>1, <2>2, IdFrame DEF InService, Unborn
  <2>3. CASE \E c \in Client : Go(c)
    BY <1>1, <2>1, <2>3, IdFrame DEF Go, Unborn
  <2>4. CASE \/ NNReset \/ WaitNop \/ OwnerPost \/ OwnerWoken \/ Update \/ Quit
             \/ Destroy \/ SetQuit \/ EndNotify \/ Join
    BY <1>2, <2>1, <2>4 DEF NNReset, WaitNop, OwnerPost, OwnerWoken, Update, Quit,
       Destroy, SetQuit, EndNotify, Join, clients
  <2> QED
    BY <1>4, <2>2, <2>3, <2>4 DEF Manager
<1>5. CASE SrvResetIds
  <2>1. idNext' = 0 /\ UNCHANGED <<cid, cpc>> /\ spc = "ids"
    BY <1>5 DEF SrvResetIds, clients
  <2>2. \/ \A c \in Client : cpc[c] = "none"
        \/ \A c \in Client : cpc[c] = "ready"
    BY <2>1, ResetPhase DEF Resetting
  <2>3. CASE \A c \in Client : cpc[c] = "none"
    <3>1. \A c \in Client : cid[c] = Nothing
      BY <2>3 DEF IInv, IdInv, Unborn
    <3>2. {c \in Client : cid'[c] # Nothing} = {}
      BY <2>1, <3>1
    <3> QED
      BY <2>1, <3>1, <3>2, FS_EmptySet DEF IInv, IdInv, UniqueIds
  <2>4. CASE \A c \in Client : cpc[c] = "ready"
    BY <2>1, <2>4 DEF IInv, IdInv, UniqueIds, Unborn
  <2> QED
    BY <2>2, <2>3, <2>4
<1>6. CASE Srv /\ ~SrvResetIds
  <2>1. UNCHANGED <<cid, idNext, cpc>>
    BY <1>6 DEF Srv, Take, SrvRegister, SrvNop, SrvReset, SrvSignal, SrvLoad,
       SrvFeedForward, SrvNotify, SrvEnd, shared, clients
  <2> QED
    BY <1>2, <2>1
<1>7. CASE PushThread \/ WaitThread \/ Spurious \/ ManagerDies
  BY <1>2, <1>7, PushKeeps, WaitKeeps, SpuriousKeeps
     DEF ManagerDies, shared, clients
<1>8. CASE UNCHANGED vars
  BY <1>2, <1>8 DEF vars, shared, clients
<1> QED
  BY <1>3, <1>4, <1>5, <1>6, <1>7, <1>8 DEF Next

-----------------------------------------------------------------------------
(* The manager and the thread that handles its jobs. *)

(* What the thread handles tells where the manager is. *)
LEMMA JobFacts ==
  ASSUME IInv, spc = "job"
  PROVE  /\ job \in Job /\ opc # "dead"
         /\ job.type \in {"Register", "FeedForward"} =>
              opc \in {"run", "quit"} /\ job.id \in Id
         /\ job.type = "NNReset" =>
              opc = "reset-wait" /\ jobs = <<>> /\ ~flagSrv /\ job.id = Owner
         /\ job.type = "NOP" =>
              opc = "nop-wait" /\ jobs = <<>> /\ net = wid /\ job.id = Owner
         /\ job.type = "End" => opc \in Ending /\ jobs = <<>> /\ job.id = Owner
<1>1. job \in Job /\ opc # "dead"
  BY DEF IInv, MgrInv
<1>2. \/ opc = "reset-wait" /\ jobs = <<>> /\ ~flagSrv /\ job = Own("NNReset")
      \/ opc = "nop-wait" /\ jobs = <<>> /\ job = Own("NOP") /\ net = wid
      \/ opc \in {"run", "quit"} /\ job.id # Owner
      \/ opc \in Ending /\ jobs = <<>> /\ job = Own("End")
  BY <1>1 DEF IInv, TypeOK, MgrInv, ResetInv, NopInv, RunInv, EndInv, Idle, Loaded,
     Ending, OwnerWaits
<1>3. ASSUME job.id # Owner
      PROVE  job.id \in Id /\ job.type \in {"Register", "FeedForward"}
  <2>1. job.id \in Id
    BY <1>1, <1>3 DEF Job
  <2>2. job.id \in Places
    BY DEF Places, HandIds
  <2>3. PICK c \in Client : cid[c] = job.id
    BY <1>3, <2>2 DEF IInv, PlaceInv
  <2> QED
    BY <2>1, <2>3 DEF IInv, GoodInv, JobsThere, GoodJob
<1> QED
  BY <1>1, <1>2, <1>3 DEF Own

(* Where no engine waits, nothing is on its way but the manager's job. *)
LEMMA NothingOpen ==
  ASSUME IInv, opc # "dead", \A c \in Client : cpc[c] \notin Waiting
  PROVE  /\ Places \subseteq {Owner}
         /\ pushq = <<>> /\ waitq = <<>> /\ pe.items = <<>> /\ we.items = <<>>
         /\ ppc \notin {"push", "append"}
<1>1. Places \subseteq {Owner}
  BY DEF IInv, PlaceInv, Owes
<1>2. ASSUME NEW s \in Seq(Item), Ids(s) \subseteq Places PROVE s = <<>>
  <2>1. \A k \in DOMAIN s : s[k].id \in Id
    <3>1. ASSUME NEW k \in DOMAIN s PROVE s[k] \in Item
      BY <3>1, LenProperties, ElementOfSeq
    <3> QED
      BY <3>1 DEF Item
  <2>2. Ids(s) = {}
    BY <1>1, <1>2, <2>1, ClientFacts DEF Ids
  <2> QED
    BY <2>2, EmptyIds
<1>3. pe.items = <<>> /\ we.items = <<>>
  <2>1. pe.items \in Seq(Item) /\ we.items \in Seq(Item)
    BY DEF IInv, TypeOK, Batch
  <2> QED
    BY <1>2, <2>1 DEF Places, BatchIds
<1>4. pushq = <<>>
  <2>1. pushq \in Seq(Seq(Item))
    BY DEF IInv, TypeOK
  <2>2. ASSUME NEW k \in DOMAIN pushq PROVE FALSE
    <3>1. pushq[k] \in Seq(Item)
      BY <2>1, <2>2, LenProperties, ElementOfSeq
    <3>2. Ids(pushq[k]) \subseteq Places
      BY DEF Places, BatchIds, QIds
    <3>3. pushq[k] = <<>>
      BY <1>2, <3>1, <3>2
    <3> QED
      BY <3>3, BatchAssumption DEF IInv, BatchInv, BatchesFit
  <2>3. pushq # <<>> => 1 \in DOMAIN pushq
    BY <2>1, TailIds
  <2> QED
    BY <2>2, <2>3
<1>5. waitq = <<>>
  <2>1. waitq \in Seq(Batch)
    BY DEF IInv, TypeOK
  <2>2. ASSUME NEW k \in DOMAIN waitq PROVE FALSE
    <3>1. waitq[k] \in Batch
      BY <2>1, <2>2, LenProperties, ElementOfSeq
    <3>2. Ids(waitq[k].items) \subseteq Places
      BY DEF Places, BatchIds, QIds, WaitItems
    <3>3. waitq[k].items = <<>>
      BY <1>2, <3>1, <3>2 DEF Batch
    <3> QED
      BY <3>3, BatchAssumption DEF IInv, BatchInv, BatchesFit
  <2>3. waitq # <<>> => 1 \in DOMAIN waitq
    BY <2>1, TailIds
  <2> QED
    BY <2>2, <2>3
<1>6. ppc \notin {"push", "append"}
  BY <1>3, BatchAssumption DEF IInv, BatchInv
<1> QED
  BY <1>1, <1>3, <1>4, <1>5, <1>6

(* Engines act while games are played, and after the manager's death. *)
LEMMA EnginePhase ==
  ASSUME IInv, NEW c \in Client, Engine(c)
  PROVE  /\ opc \in {"run", "quit", "dead"}
         /\ cpc[c] # "off" => cid[c] \in Id
<1>1. /\ cpc[c] \notin {"none", "gone"}
      /\ cpc[c] = "ready" => opc \in {"quit", "dead"}
  BY DEF Engine, TakeId, Register, Post, PickUp, BestMove, Exit, Orphan, Ask
<1>2. opc \in {"run", "quit", "dead"}
  BY <1>1 DEF IInv, TypeOK, MgrInv, PhaseInv, NewNet, Ending, OwnerWaits
<1>3. cpc[c] # "off" => cid[c] \in Id
  BY <1>1 DEF IInv, TypeOK, IdInv, Unborn
<1> QED
  BY <1>2, <1>3

LEMMA EngineMgr == ASSUME IInv, NEW c \in Client, Engine(c) PROVE MgrInv'
<1>1. UNCHANGED <<opc, wid, fname, flagSrv, flagQuit, spc, job, fn, ppc, wpc, net>>
  BY EngineKeeps
<1>2. opc \in {"run", "quit", "dead"}
  BY EnginePhase
<1>3. ASSUME opc # "dead", NEW k \in DOMAIN jobs' PROVE jobs'[k].id # Owner
  <2>1. \A j \in DOMAIN jobs : jobs[j].id # Owner
    BY <1>2, <1>3 DEF IInv, MgrInv, RunInv
  <2>2. CASE jobs' = jobs
    BY <1>3, <2>1, <2>2
  <2>3. CASE Register(c) \/ \E p \in Position : Ask(c, p)
    <3>1. PICK x \in Job : jobs' = Append(jobs, x) /\ x.id = cid[c] /\ cid[c] \in Id
      <4>1. cid[c] \in Id /\ Owner \notin Id
        BY <2>3, EnginePhase, ClientFacts DEF Register, Ask
      <4> QED
        BY <2>3, <4>1 DEF Register, Ask, Enqueue, Job
    <3>2. jobs \in Seq(Job)
      BY DEF IInv, TypeOK
    <3>3. \/ k \in DOMAIN jobs /\ jobs'[k] = jobs[k]
          \/ jobs'[k] = x
      BY <1>3, <3>1, <3>2, AppendIds
    <3> QED
      BY <2>1, <3>1, <3>3, ClientFacts
  <2>4. CASE \/ TakeId(c) \/ Post(c) \/ PickUp(c) \/ BestMove(c) \/ Exit(c)
             \/ Orphan(c)
    BY <2>2, <2>4 DEF TakeId, Post, PickUp, BestMove, Exit, Orphan, shared
  <2> QED
    BY <2>3, <2>4 DEF Engine
<1>4. ASSUME opc = "run", NEW d \in Client PROVE cpc'[d] \notin {"none", "gone"}
  <2>1. cpc[d] \notin {"none", "gone"}
    BY <1>4 DEF IInv, MgrInv, PhaseInv
  <2> QED
    BY <1>4, <2>1 DEF Engine, TakeId, Register, Post, PickUp, BestMove, Exit, Orphan,
       Ask, NoParent, IInv, TypeOK
<1>5. ASSUME opc = "quit", NEW d \in Client PROVE cpc'[d] # "none"
  <2>1. cpc[d] # "none"
    BY <1>5 DEF IInv, MgrInv, PhaseInv
  <2> QED
    BY <1>5, <2>1 DEF Engine, TakeId, Register, Post, PickUp, BestMove, Exit, Orphan,
       Ask, NoParent, IInv, TypeOK
<1> QED
  BY <1>1, <1>2, <1>3, <1>4, <1>5 DEF IInv, MgrInv, ResetInv, NopInv, RunInv, EndInv,
     PhaseInv, NewNet, Ending, Idle

LEMMA ManagerMgr == ASSUME IInv, Manager, EnginesFirst PROVE MgrInv'
<1>1. /\ UNCHANGED <<spc, job, fn, net>>
      /\ jobs \in Seq(Job) /\ cpc \in [Client -> {"none", "ready", "gone"}
                                          \cup Registering \cup Thinking]
  BY ManagerKeeps DEF IInv, TypeOK
<1>2. opc # "dead"
  BY DEF Manager, NNReset, WaitNop, OwnerPost, OwnerWoken, InService, Update, Quit,
     Destroy, SetQuit, EndNotify, Join, Go
<1>3. CASE NNReset
  <2>1. jobs' = <<Own("NNReset")>> /\ opc = "reset" /\ opc' = "reset-post"
        /\ fname' = wid /\ UNCHANGED <<wid, flagSrv, cpc>>
    BY <1>3 DEF NNReset, Enqueue, Own, IInv, MgrInv, ResetInv, clients
  <2> QED
    BY <1>1, <2>1 DEF IInv, MgrInv, ResetInv, NopInv, RunInv, EndInv, PhaseInv,
       NewNet, Ending, Idle
<1>4. CASE WaitNop
  <2>1. jobs' = <<Own("NOP")>> /\ opc = "nop" /\ opc' = "nop-post"
        /\ UNCHANGED <<wid, fname, flagSrv, cpc>>
    BY <1>4 DEF WaitNop, Enqueue, Own, IInv, MgrInv, NopInv, clients
  <2> QED
    BY <1>1, <2>1 DEF IInv, MgrInv, ResetInv, NopInv, RunInv, EndInv, PhaseInv,
       NewNet, Ending, Idle, Loaded
<1>5. CASE OwnerPost
  <2>1. /\ UNCHANGED <<jobs, wid, fname, flagSrv, cpc>>
        /\ \/ opc = "reset-post" /\ opc' = "reset-wait"
           \/ opc = "nop-post" /\ opc' = "nop-wait"
           \/ opc = "end-post" /\ opc' = "end-flag"
    BY <1>5 DEF OwnerPost, clients
  <2> QED
    BY <1>1, <2>1 DEF IInv, MgrInv, ResetInv, NopInv, RunInv, EndInv, PhaseInv,
       NewNet, Ending, Idle, Loaded
<1>6. CASE OwnerWoken
  <2>1. /\ opc = "reset-wait" /\ flagSrv /\ flagSrv' = FALSE /\ opc' = "nop"
        /\ UNCHANGED <<jobs, wid, fname, cpc>>
    BY <1>6 DEF OwnerWoken, AfterReset, shared, clients
  <2> QED
    BY <1>1, <2>1 DEF IInv, MgrInv, ResetInv, NopInv, RunInv, EndInv, PhaseInv,
       NewNet, Ending, Loaded
<1>7. CASE InService
  <2>1. /\ opc = "nop-wait" /\ flagSrv /\ flagSrv' = FALSE /\ opc' = "run"
        /\ UNCHANGED <<jobs, wid, fname>>
        /\ \A c \in Client : cpc'[c] = IF cpc[c] = "none" THEN "off" ELSE cpc[c]
    BY <1>7 DEF InService, shared
  <2>2. \A c \in Client : cpc[c] \in {"none", "ready"}
    BY <2>1 DEF IInv, MgrInv, PhaseInv, NewNet
  <2>3. \A c \in Client : cpc'[c] \notin {"none", "gone"}
    BY <2>1, <2>2
  <2>4. jobs = <<>> /\ spc = "take" /\ net = wid
    BY <2>1 DEF IInv, MgrInv, NopInv
  <2>5. \A k \in DOMAIN jobs' : jobs'[k].id # Owner
    BY <2>1, <2>4
  <2> QED
    BY <1>1, <2>1, <2>3, <2>4, <2>5 DEF IInv, MgrInv, ResetInv, NopInv, RunInv,
       EndInv, PhaseInv, NewNet, Ending, Idle
<1>8. CASE \E c \in Client : Go(c)
  <2>1. /\ opc = "run" /\ UNCHANGED <<jobs, opc, wid, fname, flagSrv>>
        /\ \A c \in Client : cpc'[c] \in {"think", cpc[c]}
    BY <1>1, <1>8 DEF Go, shared, owner
  <2>2. \A c \in Client : cpc'[c] \notin {"none", "gone"}
    BY <2>1 DEF IInv, MgrInv, PhaseInv
  <2> QED
    BY <1>1, <2>1, <2>2 DEF IInv, MgrInv, ResetInv, NopInv, RunInv, EndInv, PhaseInv,
       NewNet, Ending, Idle
<1>9. CASE Update
  <2>1. /\ opc = "run" /\ opc' = "reset"
        /\ UNCHANGED <<jobs, fname, flagSrv, cpc>>
        /\ \A c \in Client : cpc[c] \notin Thinking \cup Registering
    BY <1>9 DEF Update, MayUpdate, shared, clients
  <2>2. \A c \in Client : cpc[c] = "ready" /\ cpc[c] \notin Waiting
    BY <1>1, <2>1 DEF IInv, MgrInv, PhaseInv, Waiting, Thinking, Registering
  <2>3. Places \subseteq {Owner}
    BY <2>1, <2>2, NothingOpen
  <2>4. jobs = <<>> /\ Idle
    <3>1. Ids(jobs) = {}
      BY <2>1, <2>3 DEF IInv, MgrInv, RunInv, Places, Ids
    <3> QED
      BY <1>1, <2>1, <2>3, <3>1, EmptyIds DEF IInv, MgrInv, RunInv, Places, HandIds
  <2>5. ~flagSrv
    BY <2>1 DEF IInv, MgrInv
  <2> QED
    BY <1>1, <2>1, <2>2, <2>4, <2>5 DEF IInv, MgrInv, ResetInv, NopInv, RunInv,
       EndInv, PhaseInv, NewNet, Ending, Idle
<1>10. CASE Quit
  <2>1. opc = "run" /\ opc' = "quit" /\ UNCHANGED <<jobs, wid, fname, flagSrv, cpc>>
    BY <1>10 DEF Quit, shared, clients
  <2> QED
    BY <1>1, <2>1 DEF IInv, MgrInv, ResetInv, NopInv, RunInv, EndInv, PhaseInv,
       NewNet, Ending, Idle
<1>11. CASE Destroy
  <2>1. /\ opc = "quit" /\ opc' = "end-post" /\ jobs' = Append(jobs, Own("End"))
        /\ UNCHANGED <<wid, fname, flagSrv, cpc>>
        /\ \A c \in Client : cpc[c] = "gone"
    BY <1>11 DEF Destroy, Enqueue, Own, clients
  <2>2. Places \subseteq {Owner}
    BY <2>1, NothingOpen DEF Waiting, Asking
  <2>3. jobs = <<>> /\ Idle
    <3>1. Ids(jobs) = {}
      BY <2>1, <2>2 DEF IInv, MgrInv, RunInv, Places, Ids
    <3> QED
      BY <1>1, <2>1, <2>2, <3>1, EmptyIds DEF IInv, MgrInv, RunInv, Places, HandIds
  <2>4. jobs' = <<Own("End")>>
    BY <2>1, <2>3
  <2> QED
    BY <1>1, <2>1, <2>3, <2>4 DEF IInv, MgrInv, ResetInv, NopInv, RunInv, EndInv,
       PhaseInv, NewNet, Ending, Idle
<1>12. CASE SetQuit \/ EndNotify \/ Join
  <2>1. /\ opc \in Ending /\ opc' \in Ending
        /\ UNCHANGED <<jobs, wid, fname, flagSrv, cpc>>
    BY <1>12 DEF SetQuit, EndNotify, Join, shared, clients, Ending
  <2> QED
    BY <1>1, <2>1 DEF IInv, MgrInv, ResetInv, NopInv, RunInv, EndInv, PhaseInv,
       NewNet, Ending, Idle
<1> QED
  BY <1>3, <1>4, <1>5, <1>6, <1>7, <1>8, <1>9, <1>10, <1>11, <1>12 DEF Manager

(* A job that is not announced yet is not taken. *)
LEMMA TakeMgr == ASSUME IInv, Take PROVE MgrInv'
<1>1. /\ spc = "take" /\ tickets > 0 /\ jobs # <<>> /\ job' = Head(jobs)
      /\ jobs' = Tail(jobs) /\ spc' = "job"
      /\ UNCHANGED <<fn, cpc, opc, wid, fname, flagSrv, net, ppc, wpc>>
  BY DEF Take, clients, owner, push, wait
<1>2. jobs \in Seq(Job) /\ tickets \in Nat
  BY DEF IInv, TypeOK
<1>3. opc \notin OwnerPosts
  <2>1. ASSUME opc \in OwnerPosts PROVE FALSE
    <3>1. Len(jobs) = 1
      BY <1>2, <2>1 DEF IInv, MgrInv, ResetInv, NopInv, EndInv, OwnerPosts
    <3>2. Cardinality({c \in Client : cpc[c] \in {"reg", "ask"}}) \in Nat
      BY CountNat
    <3> QED
      BY <1>1, <1>2, <2>1, <3>1, <3>2 DEF IInv, TicketInv, Unannounced, OwnerPosts
  <2> QED
    BY <2>1
<1>4. /\ job' \in Job /\ 1 \in DOMAIN jobs /\ job' = jobs[1]
      /\ \A k \in DOMAIN jobs' : k + 1 \in DOMAIN jobs /\ jobs'[k] = jobs[k + 1]
  BY <1>1, <1>2, TailIds
<1>5. ASSUME NEW x, jobs = <<x>> PROVE job' = x /\ jobs' = <<>>
  BY <1>1, <1>5
<1>6. CASE opc \in {"run", "quit"}
  <2>1. \A k \in DOMAIN jobs : jobs[k].id # Owner
    BY <1>6 DEF IInv, MgrInv, RunInv
  <2>2. job'.id # Owner /\ \A k \in DOMAIN jobs' : jobs'[k].id # Owner
    BY <1>4, <2>1
  <2> QED
    BY <1>1, <1>4, <1>6, <2>2 DEF IInv, MgrInv, ResetInv, NopInv, RunInv, EndInv,
       PhaseInv, NewNet, Ending
<1>7. CASE opc = "reset-wait"
  <2>1. jobs = <<Own("NNReset")>> /\ ~flagSrv
    BY <1>1, <1>7 DEF IInv, MgrInv, ResetInv
  <2>2. job' = Own("NNReset") /\ jobs' = <<>>
    BY <1>5, <2>1
  <2> QED
    BY <1>1, <1>4, <1>7, <2>1, <2>2 DEF IInv, MgrInv, ResetInv, NopInv, RunInv, EndInv,
       PhaseInv, NewNet, Ending
<1>8. CASE opc = "nop-wait"
  <2>1. jobs = <<Own("NOP")>> /\ ~flagSrv /\ net = wid
    BY <1>1, <1>8 DEF IInv, MgrInv, NopInv, Loaded
  <2>2. job' = Own("NOP") /\ jobs' = <<>>
    BY <1>5, <2>1
  <2> QED
    BY <1>1, <1>4, <1>8, <2>1, <2>2 DEF IInv, MgrInv, ResetInv, NopInv, RunInv, EndInv,
       PhaseInv, NewNet, Ending
<1>9. CASE opc \in Ending
  <2>1. jobs = <<Own("End")>>
    BY <1>1, <1>9 DEF IInv, MgrInv, EndInv
  <2>2. job' = Own("End") /\ jobs' = <<>>
    BY <1>5, <2>1
  <2> QED
    BY <1>1, <1>4, <1>9, <2>1, <2>2 DEF IInv, MgrInv, ResetInv, NopInv, RunInv, EndInv,
       PhaseInv, NewNet, Ending
<1>10. opc \in {"run", "quit", "reset-wait", "nop-wait"} \cup Ending
  BY <1>1, <1>3 DEF IInv, TypeOK, MgrInv, ResetInv, NopInv, Ending, OwnerPosts,
     OwnerWaits
<1> QED
  BY <1>6, <1>7, <1>8, <1>9, <1>10

LEMMA SrvMgr == ASSUME IInv, Srv PROVE MgrInv'
<1>1. UNCHANGED <<cpc, wid, fname>>
  BY SrvKeeps
<1>2. CASE opc' = "dead" /\ spc' = "dead" /\ ppc' = "dead" /\ wpc' = "dead"
  BY <1>2 DEF MgrInv, ResetInv, NopInv, RunInv, EndInv, PhaseInv, NewNet, Ending
<1>3. CASE Take
  BY <1>3, TakeMgr
<1>4. CASE SrvRegister \/ SrvFeedForward
  <2>1. opc \in {"run", "quit"}
    BY <1>4, JobFacts DEF SrvRegister, SrvFeedForward, Handling
  <2>2. /\ spc' \in {"take", "notify"}
        /\ UNCHANGED <<jobs, opc, flagSrv, net>>
    BY <1>4 DEF SrvRegister, SrvFeedForward, shared, owner
  <2> QED
    BY <1>1, <2>1, <2>2 DEF IInv, MgrInv, ResetInv, NopInv, RunInv, EndInv, PhaseInv,
       NewNet, Ending, Idle
<1>5. CASE SrvNop
  <2>1. opc = "nop-wait" /\ jobs = <<>> /\ net = wid
    BY <1>5, JobFacts DEF SrvNop, Handling
  <2>2. spc' = "take" /\ flagSrv' = TRUE /\ UNCHANGED <<jobs, opc, net>>
    BY <1>5 DEF SrvNop, Signal, shared
  <2> QED
    BY <1>1, <2>1, <2>2 DEF IInv, MgrInv, ResetInv, NopInv, RunInv, EndInv, PhaseInv,
       NewNet, Ending
<1>6. CASE SrvReset
  <2>1. opc = "reset-wait" /\ jobs = <<>> /\ ~flagSrv
    BY <1>6, JobFacts DEF SrvReset, Handling
  <2>2. CASE pushq # <<>> \/ waitq # <<>>
    BY <1>2, <1>6, <2>2 DEF SrvReset, Die
  <2>3. CASE ~(pushq # <<>> \/ waitq # <<>>)
    <3>1. spc' = "ids" /\ UNCHANGED <<jobs, opc, flagSrv>>
      BY <1>6, <2>3 DEF SrvReset, shared, owner
    <3> QED
      BY <1>1, <2>1, <3>1 DEF IInv, MgrInv, ResetInv, NopInv, RunInv, EndInv, PhaseInv,
         NewNet, Ending
  <2> QED
    BY <2>2, <2>3
<1>7. CASE SrvResetIds
  <2>1. spc = "ids" /\ opc = "reset-wait" /\ ~flagSrv
    BY <1>7, ResetPhase DEF SrvResetIds, Resetting
  <2>2. jobs = <<>>
    BY <2>1 DEF IInv, MgrInv, ResetInv, Idle
  <2>3. spc' = "signal" /\ UNCHANGED <<jobs, opc, flagSrv>>
    BY <1>7, <2>2 DEF SrvResetIds, owner
  <2> QED
    BY <1>1, <2>1, <2>2, <2>3 DEF IInv, MgrInv, ResetInv, NopInv, RunInv, EndInv,
       PhaseInv, NewNet, Ending
<1>8. CASE SrvSignal
  <2>1. spc = "signal" /\ opc = "reset-wait"
    BY <1>8, ResetPhase DEF SrvSignal, Resetting
  <2>2. jobs = <<>> /\ fname = wid
    BY <2>1 DEF IInv, MgrInv, ResetInv, Idle, NewNet
  <2>3. spc' = "load" /\ fn' = fname /\ flagSrv' = TRUE /\ UNCHANGED <<jobs, opc>>
    BY <1>8 DEF SrvSignal, Signal, shared
  <2> QED
    BY <1>1, <2>1, <2>2, <2>3 DEF IInv, MgrInv, ResetInv, NopInv, RunInv, EndInv,
       PhaseInv, NewNet, Ending, Loaded
<1>9. CASE SrvLoad
  <2>1. spc = "load" /\ spc' = "take" /\ net' = fn /\ UNCHANGED <<jobs, opc, flagSrv>>
    BY <1>9 DEF SrvLoad, shared, owner
  <2>2. opc \in {"reset-wait", "nop", "nop-post", "nop-wait"}
    BY <2>1, ResetPhase DEF Resetting, NewNet
  <2>3. fn = wid
    BY <2>1, <2>2 DEF IInv, MgrInv, ResetInv, NopInv, Idle, Loaded
  <2> QED
    BY <1>1, <2>1, <2>2, <2>3 DEF IInv, MgrInv, ResetInv, NopInv, RunInv, EndInv,
       PhaseInv, NewNet, Ending, Loaded, Idle
<1>10. CASE SrvNotify
  <2>1. spc = "notify" /\ spc' = "take"
        /\ UNCHANGED <<jobs, opc, flagSrv, net, wpc>>
    BY <1>10 DEF SrvNotify, shared, owner, wait
  <2>2. opc # "dead"
    BY <2>1 DEF IInv, MgrInv
  <2> QED
    BY <1>1, <2>1, <2>2 DEF IInv, MgrInv, ResetInv, NopInv, RunInv, EndInv, PhaseInv,
       NewNet, Ending, Loaded, Idle
<1>11. CASE SrvEnd
  <2>1. opc \in Ending /\ jobs = <<>>
    BY <1>11, JobFacts DEF SrvEnd, Handling
  <2>2. spc' = "stop" /\ UNCHANGED <<jobs, opc, flagSrv>>
    BY <1>11 DEF SrvEnd, shared, owner
  <2> QED
    BY <1>1, <2>1, <2>2 DEF IInv, MgrInv, ResetInv, NopInv, RunInv, EndInv, PhaseInv,
       NewNet, Ending
<1> QED
  BY <1>3, <1>4, <1>5, <1>6, <1>7, <1>8, <1>9, <1>10, <1>11 DEF Srv

LEMMA MgrStep == ASSUME IInv, [Next]_vars, EnginesFirst PROVE MgrInv'
<1>1. CASE /\ UNCHANGED <<jobs, cpc, opc, wid, fname, flagSrv, spc, job, fn, net>>
           /\ opc # "dead" \/ (ppc' = "dead" /\ wpc' = "dead")
  BY <1>1 DEF IInv, MgrInv, ResetInv, NopInv, RunInv, EndInv, PhaseInv, Loaded, Idle
<1>2. CASE PushThread \/ WaitThread \/ Spurious
  <2>1. opc # "dead"
    <3>1. CASE PushThread
      BY <3>1 DEF IInv, MgrInv, PushThread, PushQuit, PushTake, PushSleep, PushRun,
         PushAppend, PushNotify
    <3>2. CASE WaitThread
      BY <3>2 DEF IInv, MgrInv, WaitThread, WaitQuit, WaitTake, WaitSleep,
         WaitAnswer, WaitDone
    <3>3. CASE Spurious
      BY <3>3 DEF IInv, MgrInv, Spurious
    <3> QED
      BY <1>2, <3>1, <3>2, <3>3
  <2> QED
    BY <1>1, <1>2, <2>1, PushKeeps, WaitKeeps, SpuriousKeeps
<1>3. CASE ManagerDies
  BY <1>3 DEF ManagerDies, Die, MgrInv, ResetInv, NopInv, RunInv, EndInv, PhaseInv,
     NewNet, Ending
<1>4. CASE UNCHANGED vars
  <2>1. UNCHANGED <<jobs, cpc, opc, wid, fname, flagSrv, spc, job, fn, net, ppc, wpc>>
    BY <1>4 DEF vars, shared, clients, owner, service, srv, push, wait
  <2>2. opc = "dead" => ppc = "dead" /\ wpc = "dead"
    BY DEF IInv, MgrInv
  <2> QED
    BY <1>1, <2>1, <2>2
<1> QED
  BY <1>2, <1>3, <1>4, EngineMgr, ManagerMgr, SrvMgr DEF Next

-----------------------------------------------------------------------------
(* The things that move. *)

LEMMA RangeMoves ==
  ASSUME NEW T, NEW s \in Seq(T)
  PROVE  /\ \A x \in T : Range(Append(s, x)) = Range(s) \cup {x}
         /\ s # <<>> => Range(s) = Range(Tail(s)) \cup {Head(s)}
         /\ Range(<<>>) = {} /\ QRange(<<>>) = {}
         /\ \A x \in Range(s) : x.id \in Ids(s)
<1>1. ASSUME NEW x \in T PROVE Range(Append(s, x)) = Range(s) \cup {x}
  <2> DEFINE t == Append(s, x)
             n == Len(s)
  <2>1. /\ Len(t) = n + 1 /\ \A k \in 1 .. n : t[k] = s[k]
        /\ t[n + 1] = x /\ t \in Seq(T)
    OBVIOUS
  <2>2. n \in Nat /\ DOMAIN s = 1 .. n /\ DOMAIN t = 1 .. n + 1
    BY <2>1, LenProperties
  <2> HIDE DEF t, n
  <2>3. /\ \A k \in 1 .. n + 1 : k \in 1 .. n \/ k = n + 1
        /\ \A k \in 1 .. n : k \in 1 .. n + 1
        /\ n + 1 \in 1 .. n + 1
    BY <2>2
  <2>4. Range(t) = Range(s) \cup {x}
    BY <2>1, <2>2, <2>3 DEF Range
  <2> QED
    BY <2>4 DEF t
<1>2. ASSUME s # <<>> PROVE Range(s) = Range(Tail(s)) \cup {Head(s)}
  <2> DEFINE t == Tail(s)
             n == Len(s)
  <2>1. /\ Head(s) = s[1] /\ t \in Seq(T) /\ Len(t) = n - 1
        /\ \A i \in 1 .. n - 1 : t[i] = s[i + 1]
    BY <1>2, HeadTailProperties
  <2>2. n \in Nat /\ n > 0 /\ DOMAIN s = 1 .. n /\ DOMAIN t = 1 .. n - 1
    BY <1>2, <2>1, LenProperties, EmptySeq
  <2> HIDE DEF t, n
  <2>3. /\ \A k \in 1 .. n - 1 : k + 1 \in 1 .. n /\ t[k] = s[k + 1]
        /\ 1 \in 1 .. n
    BY <2>1, <2>2
  <2>4. \A k \in 1 .. n : k = 1 \/ (k - 1 \in 1 .. n - 1 /\ s[k] = t[k - 1])
    <3>1. ASSUME NEW k \in 1 .. n, k # 1
          PROVE  k - 1 \in 1 .. n - 1 /\ (k - 1) + 1 = k
      BY <2>2, <3>1
    <3> QED
      BY <2>1, <3>1
  <2>5. ASSUME NEW x \in Range(s) PROVE x \in Range(t) \cup {s[1]}
    <3>1. PICK k \in 1 .. n : x = s[k]
      BY <2>2 DEF Range
    <3> QED
      BY <2>2, <2>4, <3>1 DEF Range
  <2>6. ASSUME NEW x \in Range(t) \cup {s[1]} PROVE x \in Range(s)
    BY <2>2, <2>3 DEF Range
  <2>7. Range(s) = Range(t) \cup {s[1]}
    BY <2>5, <2>6
  <2> QED
    BY <2>1, <2>7 DEF t
<1>3. Range(<<>>) = {} /\ QRange(<<>>) = {} /\ \A x \in Range(s) : x.id \in Ids(s)
  BY DEF Range, QRange, Ids
<1> QED
  BY <1>1, <1>2, <1>3

LEMMA QRangeMoves ==
  ASSUME NEW T, NEW q \in Seq(Seq(T))
  PROVE  /\ \A b \in Seq(T) : QRange(Append(q, b)) = QRange(q) \cup Range(b)
         /\ q # <<>> => QRange(q) = QRange(Tail(q)) \cup Range(Head(q))
<1>1. ASSUME NEW b \in Seq(T) PROVE QRange(Append(q, b)) = QRange(q) \cup Range(b)
  <2> DEFINE r == Append(q, b)
             n == Len(q)
  <2>1. /\ Len(r) = n + 1 /\ \A k \in 1 .. n : r[k] = q[k]
        /\ r[n + 1] = b /\ r \in Seq(Seq(T))
    OBVIOUS
  <2>2. n \in Nat /\ DOMAIN q = 1 .. n /\ DOMAIN r = 1 .. n + 1
    BY <2>1, LenProperties
  <2> HIDE DEF r, n
  <2>3. /\ \A k \in 1 .. n + 1 : k \in 1 .. n \/ k = n + 1
        /\ \A k \in 1 .. n : k \in 1 .. n + 1
        /\ n + 1 \in 1 .. n + 1
    BY <2>2
  <2>4. ASSUME NEW x \in QRange(r) PROVE x \in QRange(q) \cup Range(b)
    BY <2>1, <2>2, <2>3 DEF QRange
  <2>5. ASSUME NEW x \in QRange(q) \cup Range(b) PROVE x \in QRange(r)
    BY <2>1, <2>2, <2>3 DEF QRange
  <2>6. QRange(r) = QRange(q) \cup Range(b)
    BY <2>4, <2>5
  <2> QED
    BY <2>6 DEF r
<1>2. ASSUME q # <<>> PROVE QRange(q) = QRange(Tail(q)) \cup Range(Head(q))
  <2> DEFINE r == Tail(q)
             n == Len(q)
  <2>1. /\ Head(q) = q[1] /\ r \in Seq(Seq(T)) /\ Len(r) = n - 1
        /\ \A i \in 1 .. n - 1 : r[i] = q[i + 1]
    BY <1>2, HeadTailProperties
  <2>2. n \in Nat /\ n > 0 /\ DOMAIN q = 1 .. n /\ DOMAIN r = 1 .. n - 1
    BY <1>2, <2>1, LenProperties, EmptySeq
  <2> HIDE DEF r, n
  <2>3. /\ \A k \in 1 .. n - 1 : k + 1 \in 1 .. n /\ r[k] = q[k + 1]
        /\ 1 \in 1 .. n
    BY <2>1, <2>2
  <2>4. \A k \in 1 .. n : k = 1 \/ (k - 1 \in 1 .. n - 1 /\ q[k] = r[k - 1])
    <3>1. ASSUME NEW k \in 1 .. n, k # 1
          PROVE  k - 1 \in 1 .. n - 1 /\ (k - 1) + 1 = k
      BY <2>2, <3>1
    <3> QED
      BY <2>1, <3>1
  <2>5. ASSUME NEW x \in QRange(q) PROVE x \in QRange(r) \cup Range(q[1])
    <3>1. PICK k \in 1 .. n : x \in Range(q[k])
      BY <2>2 DEF QRange
    <3> QED
      BY <2>2, <2>4, <3>1 DEF QRange
  <2>6. ASSUME NEW x \in QRange(r) \cup Range(q[1]) PROVE x \in QRange(q)
    BY <2>2, <2>3 DEF QRange
  <2>7. QRange(q) = QRange(r) \cup Range(q[1])
    BY <2>5, <2>6
  <2> QED
    BY <2>1, <2>7 DEF r
<1> QED
  BY <1>1, <1>2

LEMMA QRangeGrow ==
  ASSUME NEW T, NEW q \in Seq(Seq(T)), NEW x \in T, q # <<>>
  PROVE  QRange([q EXCEPT ![Len(q)] = Append(@, x)]) = QRange(q) \cup {x}
<1> DEFINE n == Len(q)
           r == [q EXCEPT ![n] = Append(@, x)]
<1>1. /\ DOMAIN r = DOMAIN q /\ n \in DOMAIN q /\ r[n] = Append(q[n], x)
      /\ \A k \in DOMAIN q : k # n => r[k] = q[k]
  BY GrowQueue
<1>2. q[n] \in Seq(T)
  BY <1>1, LenProperties, ElementOfSeq
<1>3. Range(r[n]) = Range(q[n]) \cup {x}
  BY <1>1, <1>2, RangeMoves
<1> HIDE DEF n, r
<1>4. ASSUME NEW y \in QRange(r) PROVE y \in QRange(q) \cup {x}
  <2>1. PICK k \in DOMAIN q : y \in Range(r[k])
    BY <1>1 DEF QRange
  <2> QED
    BY <1>1, <1>3, <2>1 DEF QRange
<1>5. ASSUME NEW y \in QRange(q) PROVE y \in QRange(r)
  <2>1. PICK k \in DOMAIN q : y \in Range(q[k])
    BY DEF QRange
  <2>2. y \in Range(r[k])
    BY <1>1, <1>3, <2>1
  <2> QED
    BY <1>1, <2>2 DEF QRange
<1>6. x \in QRange(r)
  BY <1>1, <1>3 DEF QRange
<1>7. QRange(r) = QRange(q) \cup {x}
  BY <1>4, <1>5, <1>6
<1> QED
  BY <1>7 DEF n, r

(* Things on the way and their ids. *)
LEMMA ThereIds ==
  /\ \A x \in JobsThere : x.id \in Ids(jobs) \cup HandIds
  /\ \A x \in ItemsThere : x.id \in BatchIds
<1>1. \A q : \A x \in QRange(q) : x.id \in QIds(q)
  BY DEF QRange, QIds, Range, Ids
<1>2. \A s : \A x \in Range(s) : x.id \in Ids(s)
  BY DEF Range, Ids
<1> QED
  BY <1>1, <1>2 DEF JobsThere, ItemsThere, HandIds, BatchIds

(* Nothing changes for the request i but that it is announced. *)
Same(i) ==
  \A d \in Client : cid'[d] = i =>
    /\ cid[d] = i /\ page'[i].pos = page[i].pos
    /\ \/ cpc'[d] \in {cpc[d], "gone"}
       \/ cpc[d] = "reg" /\ cpc'[d] = "reg-wait"
       \/ cpc[d] = "ask" /\ cpc'[d] = "ask-wait"

LEMMA GoodStays ==
  /\ \A x : Same(x.id) /\ GoodJob(x) => GoodJob(x)'
  /\ \A x : Same(x.id) /\ GoodItem(x) => GoodItem(x)'
BY DEF Same, GoodJob, GoodItem, Asking

(* What was there is still good; so is what is new. *)
LEMMA GoodFrame ==
  ASSUME IInv, \A i \in Ids(jobs) \cup HandIds \cup BatchIds : Same(i),
         \A x \in JobsThere' : x \in JobsThere \/ GoodJob(x)',
         \A x \in ItemsThere' : x \in ItemsThere \/ GoodItem(x)'
  PROVE  GoodInv'
<1>1. \A x \in JobsThere : GoodJob(x)'
  BY ThereIds, GoodStays DEF IInv, GoodInv
<1>2. \A x \in ItemsThere : GoodItem(x)'
  BY ThereIds, GoodStays DEF IInv, GoodInv
<1> QED
  BY <1>1, <1>2 DEF GoodInv

ReqInv == OnePlace /\ OnceThere /\ PlaceInv /\ GoodInv /\ PageInv

(* Nothing moves. *)
LEMMA ReqFrame ==
  ASSUME IInv, UNCHANGED <<jobs, pushq, waitq, wakeups, page, cid>>,
         pe'.items = pe.items, we'.items = we.items,
         spc' = "job" => spc = "job" /\ job' = job,
         opc' # "dead" => opc # "dead" /\ HandIds \subseteq HandIds' \cup {Owner},
         \A c \in Client :
           \/ cpc'[c] = cpc[c]
           \/ cpc[c] = "reg" /\ cpc'[c] = "reg-wait"
           \/ cpc[c] = "ask" /\ cpc'[c] = "ask-wait"
           \/ cpc[c] \notin Waiting \cup {"gone"} /\ cpc'[c] \notin Waiting
           \/ cpc[c] \in Waiting /\ cpc'[c] = "gone" /\ opc' = "dead"
  PROVE  ReqInv'
<1>1. /\ Ids(jobs)' = Ids(jobs) /\ QIds(pushq)' = QIds(pushq)
      /\ Ids(pe.items)' = Ids(pe.items) /\ QIds(WaitItems)' = QIds(WaitItems)
      /\ Ids(we.items)' = Ids(we.items) /\ WokenIds' = WokenIds
      /\ BatchIds' = BatchIds /\ HandIds' \subseteq HandIds
  BY DEF WaitItems, WokenIds, BatchIds, HandIds
<1>2. Places' \subseteq Places
      /\ (opc' # "dead" => Places \subseteq Places' \cup {Owner})
  BY <1>1 DEF Places
<1>3. OnePlace'
  BY <1>1 DEF IInv, OnePlace
<1>4. OnceThere'
  BY DEF IInv, OnceThere, WaitItems
<1>5. ASSUME NEW c \in Client, cid[c] \in Places
      PROVE  /\ Owes(c)'
             /\ cpc'[c] \in {cpc[c], "gone"} \/ (cpc[c] = "reg" /\ cpc'[c] = "reg-wait")
                  \/ (cpc[c] = "ask" /\ cpc'[c] = "ask-wait")
  <2>1. Owes(c)
    BY <1>5 DEF IInv, PlaceInv
  <2> QED
    BY <2>1 DEF Owes, Waiting, Asking
<1>6. PlaceInv'
  <2>1. ASSUME NEW c \in Client, opc' # "dead", cpc'[c] \in Waiting
        PROVE  cid[c] \in Places'
    <3>1. cpc[c] \in Waiting /\ opc # "dead"
      BY <2>1 DEF Waiting, Asking
    <3>2. cid[c] \in Places /\ cid[c] # Owner
      <4>1. cid[c] \in Id \cup {Nothing}
        BY DEF IInv, TypeOK
      <4> QED
        BY <3>1, <4>1, ClientFacts DEF IInv, PlaceInv
    <3> QED
      BY <1>2, <2>1, <3>2
  <2>2. \A i \in Places' : i = Owner \/ \E c \in Client : cid'[c] = i
    BY <1>2 DEF IInv, PlaceInv
  <2> QED
    BY <1>2, <1>5, <2>1, <2>2 DEF PlaceInv
<1>7. GoodInv'
  <2>1. \A i \in Ids(jobs) \cup HandIds \cup BatchIds : Same(i)
    BY <1>5 DEF Same, Places
  <2>2. JobsThere' \subseteq JobsThere /\ ItemsThere' \subseteq ItemsThere
    BY DEF JobsThere, ItemsThere, WaitItems
  <2> QED
    BY <2>1, <2>2, GoodFrame
<1>8. PageInv'
  <2>1. \A c \in Client : cpc'[c] \in Asking => cpc[c] \in Asking
    BY DEF Asking, Waiting
  <2> QED
    BY <2>1 DEF IInv, PageInv
<1> QED
  BY <1>3, <1>4, <1>6, <1>7, <1>8 DEF ReqInv

-----------------------------------------------------------------------------
(* A request starts and ends with its engine. *)

LEMMA PlacesType == ASSUME IInv PROVE Places \subseteq Id \cup {Owner}
<1>1. /\ jobs \in Seq(Job) /\ pushq \in Seq(Seq(Item)) /\ waitq \in Seq(Batch)
      /\ pe.items \in Seq(Item) /\ we.items \in Seq(Item)
  BY DEF IInv, TypeOK, Batch
<1>2. \A s \in Seq(Item) : Ids(s) \subseteq Id
  <2>1. ASSUME NEW s \in Seq(Item), NEW k \in DOMAIN s PROVE s[k].id \in Id
    <3>1. s[k] \in Item
      BY <2>1, LenProperties, ElementOfSeq
    <3> QED
      BY <3>1 DEF Item
  <2> QED
    BY <2>1 DEF Ids
<1>3. \A q \in Seq(Seq(Item)) : QIds(q) \subseteq Id
  <2>1. ASSUME NEW q \in Seq(Seq(Item)), NEW k \in DOMAIN q PROVE q[k] \in Seq(Item)
    BY <2>1, LenProperties, ElementOfSeq
  <2> QED
    BY <1>2, <2>1 DEF QIds
<1>4. Ids(jobs) \subseteq Id \cup {Owner}
  <2>1. ASSUME NEW k \in DOMAIN jobs PROVE jobs[k].id \in Id \cup {Owner}
    <3>1. jobs[k] \in Job
      BY <1>1, LenProperties, ElementOfSeq
    <3> QED
      BY <3>1 DEF Job
  <2> QED
    BY <2>1 DEF Ids
<1>5. HandIds \subseteq Id \cup {Owner}
  BY DEF HandIds, IInv, MgrInv, Job
<1>6. WaitItems \in Seq(Seq(Item))
  BY <1>1, ItemsFacts DEF ItemsOf, WaitItems
<1>7. WokenIds \subseteq Id
  BY DEF WokenIds
<1> QED
  BY <1>1, <1>2, <1>3, <1>4, <1>5, <1>6, <1>7 DEF Places, BatchIds

LEMMA OtherIds ==
  ASSUME IInv, NEW c \in Client, cid[c] \in Id, NEW d \in Client, d # c
  PROVE  cid[d] # cid[c]
BY ClientFacts DEF IInv, IdInv, UniqueIds

LEMMA EnterReq ==
  ASSUME IInv, NEW c \in Client, Register(c) \/ \E p \in Position : Ask(c, p)
  PROVE  ReqInv'
<1> DEFINE i == cid[c]
<1>1. /\ i \in Id /\ cpc[c] \in {"id", "think"} /\ i # Owner
      /\ UNCHANGED <<wakeups, cid, opc, spc, job, pushq, waitq, pe, we>>
  <2>1. cpc[c] \in {"id", "think"}
    BY DEF Register, Ask
  <2>2. i \in Id
    <3>1. Engine(c)
      BY DEF Engine
    <3> QED
      BY <2>1, <3>1, EnginePhase
  <2> QED
    BY <2>1, <2>2, ClientFacts
       DEF Register, Ask, owner, service, srv, push, wait
<1>2. PICK x \in Job :
        /\ x.id = i /\ jobs' = Append(jobs, x)
        /\ \/ /\ x.type = "Register" /\ cpc' = [cpc EXCEPT ![c] = "reg"]
              /\ page' = page
           \/ /\ x.type = "FeedForward" /\ cpc' = [cpc EXCEPT ![c] = "ask"]
              /\ \E p \in Position : page' = [page EXCEPT ![i].pos = p]
  <2>1. CASE Register(c)
    BY <1>1, <2>1 DEF Register, Enqueue, Job
  <2>2. CASE \E p \in Position : Ask(c, p)
    <3>1. PICK p \in Position : Ask(c, p)
      BY <2>2
    <3>2. /\ jobs' = Append(jobs, [type |-> "FeedForward", id |-> i])
          /\ cpc' = [cpc EXCEPT ![c] = "ask"] /\ page' = [page EXCEPT ![i].pos = p]
      BY <3>1 DEF Ask, Enqueue
    <3>3. [type |-> "FeedForward", id |-> i] \in Job
      BY <1>1 DEF Job
    <3> QED
      BY <3>2, <3>3
  <2> QED
    BY <2>1, <2>2
<1>3. i \notin Places
  BY <1>1 DEF IInv, PlaceInv, Owes, Waiting, Asking
<1>4. /\ jobs \in Seq(Job) /\ page \in [Id -> [pos : Position \cup {Nothing},
                                                val : Value \cup {Nothing}]]
      /\ cpc \in [Client -> {"none", "ready", "gone"} \cup Registering \cup Thinking]
      /\ cid \in [Client -> Id \cup {Nothing}]
  BY DEF IInv, TypeOK
<1>5. /\ cpc'[c] \in {"reg", "ask"}
      /\ x.type = "Register" <=> cpc'[c] = "reg"
      /\ x.type \in {"Register", "FeedForward"}
      /\ \A d \in Client : d # c => cpc'[d] = cpc[d] /\ cid[d] # i
  BY <1>1, <1>2, <1>4, OtherIds
<1>6. /\ \A j \in Id : j # i => page'[j] = page[j]
      /\ cpc'[c] = "ask" => page'[i].pos \in Position
  BY <1>1, <1>2, <1>4, <1>5
<1>7. Ids(jobs') = Ids(jobs) \cup {i} /\ Distinct(jobs')
      /\ Range(jobs') = Range(jobs) \cup {x}
  BY <1>2, <1>3, <1>4, AppendIds, RangeMoves DEF IInv, OnceThere, Places
<1>8. /\ HandIds' = HandIds /\ QIds(pushq)' = QIds(pushq)
      /\ Ids(pe.items)' = Ids(pe.items) /\ QIds(WaitItems)' = QIds(WaitItems)
      /\ Ids(we.items)' = Ids(we.items) /\ WokenIds' = WokenIds
      /\ BatchIds' = BatchIds /\ Places' = Places \cup {i}
      /\ ItemsThere' = ItemsThere /\ JobsThere' = JobsThere \cup {x}
  BY <1>1, <1>7 DEF HandIds, WaitItems, WokenIds, BatchIds, Places, ItemsThere,
     JobsThere
<1> HIDE DEF i
<1>9. OnePlace'
  BY <1>3, <1>7, <1>8 DEF IInv, OnePlace, Places, BatchIds
<1>10. OnceThere'
  BY <1>1, <1>7 DEF IInv, OnceThere, WaitItems
<1>11. PlaceInv'
  BY <1>1, <1>3, <1>5, <1>8 DEF IInv, PlaceInv, Owes, Waiting, Asking, i
<1>12. GoodInv'
  <2>1. \A j \in Ids(jobs) \cup HandIds \cup BatchIds : Same(j)
    <3>1. ASSUME NEW j \in Ids(jobs) \cup HandIds \cup BatchIds, NEW d \in Client,
                 cid[d] = j
          PROVE  j \in Id /\ j # i /\ d # c
      BY <1>3, <1>4, <3>1, PlacesType, ClientFacts DEF Places, i
    <3>2. \A d \in Client : cid'[d] = cid[d]
      BY <1>1
    <3> QED
      BY <1>5, <1>6, <3>1, <3>2 DEF Same
  <2>2. GoodJob(x)'
    BY <1>1, <1>2, <1>5 DEF GoodJob, i, Asking
  <2> QED
    BY <1>8, <2>1, <2>2, GoodFrame
<1>13. PageInv'
  <2>1. ASSUME NEW d \in Client, cpc'[d] \in Asking
        PROVE  /\ page'[cid'[d]].pos \in Position
               /\ wakeups'[cid'[d]] > 0 => page'[cid'[d]].val \in Value
    <3>1. CASE d = c
      BY <1>1, <1>3, <1>5, <1>6, <2>1, <3>1 DEF i, Places, WokenIds, Asking
    <3>2. CASE d # c
      <4>1. cpc[d] \in Asking /\ cid[d] # i
        BY <1>5, <2>1, <3>2
      <4>2. cid[d] \in Id
        BY <1>4, <4>1 DEF IInv, IdInv, Unborn, Asking
      <4> QED
        BY <1>1, <1>6, <4>1, <4>2 DEF IInv, PageInv
    <3> QED
      BY <3>1, <3>2
  <2> QED
    BY <2>1 DEF PageInv
<1> QED
  BY <1>9, <1>10, <1>11, <1>12, <1>13 DEF ReqInv

LEMMA PickUpReq == ASSUME IInv, NEW c \in Client, PickUp(c) PROVE ReqInv'
<1> DEFINE i == cid[c]
<1>1. /\ cpc[c] \in {"reg-wait", "ask-wait"} /\ wakeups[i] > 0
      /\ wakeups' = [wakeups EXCEPT ![i] = @ - 1]
      /\ page' = [page EXCEPT ![i] = NoPage]
      /\ \E w \in {"ready", "think"} : cpc' = [cpc EXCEPT ![c] = w]
      /\ UNCHANGED <<jobs, cid, opc, spc, job, pushq, waitq, pe, we>>
  BY DEF PickUp, Woken, owner, service, srv, push, wait
<1>2. i \in Id
  <2>1. Engine(c)
    BY DEF Engine
  <2> QED
    BY <1>1, <2>1, EnginePhase
<1>3. /\ page \in [Id -> [pos : Position \cup {Nothing}, val : Value \cup {Nothing}]]
      /\ cpc \in [Client -> {"none", "ready", "gone"} \cup Registering \cup Thinking]
      /\ cid \in [Client -> Id \cup {Nothing}] /\ wakeups \in [Id -> Nat]
  BY DEF IInv, TypeOK
<1>4. wakeups[i] = 1
  BY <1>1, <1>2, <1>3 DEF IInv, OnceThere
<1>5. /\ cpc'[c] \in {"ready", "think"} /\ wakeups'[i] = 0
      /\ \A d \in Client : d # c => cpc'[d] = cpc[d] /\ cid[d] # i
      /\ \A j \in Id : j # i => page'[j] = page[j] /\ wakeups'[j] = wakeups[j]
  BY <1>1, <1>2, <1>3, <1>4, OtherIds
<1>6. WokenIds' = WokenIds \ {i} /\ i \in WokenIds
  BY <1>1, <1>2, <1>5 DEF WokenIds
<1>7. /\ Ids(jobs)' = Ids(jobs) /\ HandIds' = HandIds /\ QIds(pushq)' = QIds(pushq)
      /\ Ids(pe.items)' = Ids(pe.items) /\ QIds(WaitItems)' = QIds(WaitItems)
      /\ Ids(we.items)' = Ids(we.items) /\ BatchIds' = BatchIds
      /\ ItemsThere' = ItemsThere /\ JobsThere' = JobsThere
  BY <1>1 DEF HandIds, WaitItems, BatchIds, ItemsThere, JobsThere
<1> HIDE DEF i
<1>8. i \notin Ids(jobs) \cup HandIds \cup BatchIds
  BY <1>2, <1>6 DEF IInv, OnePlace, BatchIds
<1>9. Places' = Places \ {i}
  BY <1>6, <1>7, <1>8 DEF Places
<1>10. OnePlace'
  BY <1>6, <1>7 DEF IInv, OnePlace
<1>11. OnceThere'
  BY <1>1, <1>2, <1>5 DEF IInv, OnceThere, WaitItems
<1>12. PlaceInv'
  BY <1>1, <1>5, <1>9 DEF IInv, PlaceInv, Owes, Waiting, Asking, i
<1>13. GoodInv'
  <2>1. \A j \in Ids(jobs) \cup HandIds \cup BatchIds : Same(j)
    BY <1>1, <1>3, <1>5, <1>8, PlacesType, ClientFacts DEF Same, Places, i
  <2> QED
    BY <1>7, <2>1, GoodFrame
<1>14. PageInv'
  <2>1. ASSUME NEW d \in Client, cpc'[d] \in Asking
        PROVE  d # c /\ cpc[d] \in Asking /\ cid[d] \in Id /\ cid[d] # i
    <3>1. d # c /\ cpc[d] \in Asking /\ cid[d] # i
      BY <1>5, <2>1 DEF Asking
    <3> QED
      BY <1>3, <3>1 DEF IInv, IdInv, Unborn, Asking
  <2> QED
    BY <1>1, <1>5, <2>1 DEF IInv, PageInv
<1> QED
  BY <1>10, <1>11, <1>12, <1>13, <1>14 DEF ReqInv

LEMMA TakeIdReq == ASSUME IInv, NEW c \in Client, TakeId(c) PROVE ReqInv'
<1>1. /\ cpc[c] = "off" /\ cid' = [cid EXCEPT ![c] = idNext]
      /\ cpc' = [cpc EXCEPT ![c] = "id"]
      /\ UNCHANGED <<jobs, wakeups, page, opc, spc, job, pushq, waitq, pe, we>>
  BY DEF TakeId, owner, service, srv, push, wait
<1>2. idNext \in Id /\ \A d \in Client : cid[d] # idNext
  BY TakeIdInv
<1>3. /\ cpc \in [Client -> {"none", "ready", "gone"} \cup Registering \cup Thinking]
      /\ cid \in [Client -> Id \cup {Nothing}] /\ cid[c] = Nothing
  BY <1>1 DEF IInv, TypeOK, IdInv, Unborn
<1>4. /\ cpc'[c] = "id" /\ cid'[c] = idNext
      /\ \A d \in Client : d # c => cpc'[d] = cpc[d] /\ cid'[d] = cid[d]
  BY <1>1, <1>3
<1>5. idNext \notin Places /\ Nothing \notin Places
  BY <1>2, PlacesType, ClientFacts DEF IInv, PlaceInv
<1>6. /\ Ids(jobs)' = Ids(jobs) /\ HandIds' = HandIds /\ QIds(pushq)' = QIds(pushq)
      /\ Ids(pe.items)' = Ids(pe.items) /\ QIds(WaitItems)' = QIds(WaitItems)
      /\ Ids(we.items)' = Ids(we.items) /\ BatchIds' = BatchIds
      /\ WokenIds' = WokenIds /\ Places' = Places
      /\ ItemsThere' = ItemsThere /\ JobsThere' = JobsThere
  BY <1>1 DEF HandIds, WaitItems, WokenIds, BatchIds, Places, ItemsThere, JobsThere
<1>7. OnePlace'
  BY <1>6 DEF IInv, OnePlace
<1>8. OnceThere'
  BY <1>1 DEF IInv, OnceThere, WaitItems
<1>9. PlaceInv'
  <2>1. \A i \in Places : i = Owner \/ \E d \in Client : cid'[d] = i
    BY <1>3, <1>4, <1>5 DEF IInv, PlaceInv
  <2>2. \A d \in Client : cid'[d] \in Places => Owes(d)'
    BY <1>1, <1>4, <1>5 DEF IInv, PlaceInv, Owes
  <2>3. \A d \in Client : opc # "dead" /\ cpc'[d] \in Waiting => cid'[d] \in Places
    BY <1>4 DEF IInv, PlaceInv, Waiting, Asking
  <2> QED
    BY <1>1, <1>6, <2>1, <2>2, <2>3 DEF PlaceInv
<1>10. GoodInv'
  <2>1. \A i \in Ids(jobs) \cup HandIds \cup BatchIds : Same(i)
    BY <1>1, <1>4, <1>5 DEF Same, Places
  <2> QED
    BY <1>6, <2>1, GoodFrame
<1>11. PageInv'
  BY <1>1, <1>4 DEF IInv, PageInv, Asking
<1> QED
  BY <1>7, <1>8, <1>9, <1>10, <1>11 DEF ReqInv

-----------------------------------------------------------------------------
(* A request moves from place to place. *)

LEMMA MoveFrame ==
  ASSUME IInv, UNCHANGED <<cpc, cid, opc>>,
         \A i \in Id : page'[i].pos = page[i].pos,
         Places' = Places, JobsThere' \subseteq JobsThere,
         \A x \in ItemsThere' : x \in ItemsThere \/ GoodItem(x)'
  PROVE  PlaceInv' /\ GoodInv'
<1>1. PlaceInv'
  BY DEF IInv, PlaceInv, Owes
<1>2. \A i \in Ids(jobs) \cup HandIds \cup BatchIds : Same(i)
  <2>1. ASSUME NEW i \in Places, NEW d \in Client, cid[d] = i PROVE i \in Id
    <3>1. cid[d] \in Id \cup {Nothing} /\ i \in Id \cup {Owner}
      BY <2>1, PlacesType DEF IInv, TypeOK
    <3> QED
      BY <2>1, <3>1, ClientFacts
  <2> QED
    BY <2>1 DEF Same, Places
<1>3. GoodInv'
  BY <1>2, GoodFrame
<1> QED
  BY <1>1, <1>3

(* The manager's job enters an empty table. *)
LEMMA OwnerAsks ==
  ASSUME IInv, MgrInv', NNReset \/ WaitNop \/ Destroy
  PROVE  ReqInv'
<1>1. /\ UNCHANGED <<wakeups, page, cpc, cid, spc, job, pushq, waitq, pe, we>>
      /\ opc # "dead" /\ opc' # "dead"
  BY DEF NNReset, WaitNop, Destroy, clients, service, srv, push, wait
<1>2. PICK t \in {"NNReset", "NOP", "End"} : jobs' = Append(jobs, Own(t))
  BY DEF NNReset, WaitNop, Destroy, Enqueue, Own
<1>3. jobs' = <<Own(t)>> /\ jobs = <<>>
  <2>1. \E u : jobs' = <<u>>
    BY DEF NNReset, WaitNop, Destroy, MgrInv, ResetInv, NopInv, EndInv
  <2>2. jobs \in Seq(Job)
    BY DEF IInv, TypeOK
  <2>3. Len(jobs) = 0
    <3>1. Own(t) \in Job
      BY DEF Own, Job
    <3>2. Len(jobs') = Len(jobs) + 1 /\ Len(jobs) \in Nat
      BY <1>2, <2>2, <3>1, AppendIds, LenProperties
    <3>3. Len(jobs') = 1
      BY <2>1
    <3>4. \A m \in Nat : m + 1 = 1 => m = 0
      OBVIOUS
    <3>5. Len(jobs) + 1 = 1
      BY <3>2, <3>3, Zenon
    <3> QED
      BY <3>2, <3>4, <3>5, Zenon
  <2> QED
    BY <1>2, <2>2, <2>3, EmptySeq
<1>4. /\ Ids(jobs') = {Owner} /\ Range(jobs') = {Own(t)} /\ Distinct(jobs')
      /\ Ids(jobs) = {}
  BY <1>3 DEF Ids, Range, Distinct, Own
<1>5. /\ HandIds' = HandIds /\ QIds(pushq)' = QIds(pushq)
      /\ Ids(pe.items)' = Ids(pe.items) /\ QIds(WaitItems)' = QIds(WaitItems)
      /\ Ids(we.items)' = Ids(we.items) /\ BatchIds' = BatchIds
      /\ WokenIds' = WokenIds /\ Places' = Places \cup {Owner}
      /\ ItemsThere' = ItemsThere /\ JobsThere' \subseteq JobsThere \cup {Own(t)}
  BY <1>1, <1>4 DEF HandIds, WaitItems, WokenIds, BatchIds, Places, ItemsThere,
     JobsThere
<1>6. \A c \in Client : cid[c] # Owner
  BY ClientFacts DEF IInv, TypeOK
<1>7. OnePlace'
  BY <1>4, <1>5, ClientFacts DEF IInv, OnePlace
<1>8. OnceThere'
  BY <1>1, <1>4 DEF IInv, OnceThere, WaitItems
<1>9. PlaceInv'
  BY <1>1, <1>5, <1>6 DEF IInv, PlaceInv, Owes
<1>10. GoodInv'
  <2>1. \A i \in Ids(jobs) \cup HandIds \cup BatchIds : Same(i)
    BY <1>1 DEF Same
  <2>2. GoodJob(Own(t))'
    BY <1>1, <1>6 DEF GoodJob, Own
  <2> QED
    BY <1>5, <2>1, <2>2, GoodFrame
<1>11. PageInv'
  BY <1>1 DEF IInv, PageInv
<1> QED
  BY <1>7, <1>8, <1>9, <1>10, <1>11 DEF ReqInv

LEMMA TakeReq == ASSUME IInv, Take PROVE ReqInv'
<1>1. /\ spc = "take" /\ jobs # <<>> /\ job' = Head(jobs) /\ jobs' = Tail(jobs)
      /\ spc' = "job"
      /\ UNCHANGED <<wakeups, page, cpc, cid, opc, pushq, waitq, pe, we>>
  BY DEF Take, clients, owner, push, wait
<1>2. jobs \in Seq(Job)
  BY DEF IInv, TypeOK
<1>3. /\ Ids(jobs) = Ids(jobs') \cup {job'.id} /\ Distinct(jobs')
      /\ job'.id \notin Ids(jobs') /\ Range(jobs) = Range(jobs') \cup {job'}
  BY <1>1, <1>2, TailIds, RangeMoves DEF IInv, OnceThere
<1>4. /\ HandIds = {} /\ HandIds' = {job'.id} /\ QIds(pushq)' = QIds(pushq)
      /\ Ids(pe.items)' = Ids(pe.items) /\ QIds(WaitItems)' = QIds(WaitItems)
      /\ Ids(we.items)' = Ids(we.items) /\ BatchIds' = BatchIds
      /\ WokenIds' = WokenIds /\ Places' = Places
      /\ ItemsThere' = ItemsThere /\ JobsThere' = JobsThere
  BY <1>1, <1>3 DEF HandIds, WaitItems, WokenIds, BatchIds, Places, ItemsThere,
     JobsThere
<1>5. OnePlace'
  BY <1>3, <1>4 DEF IInv, OnePlace
<1>6. OnceThere'
  BY <1>1, <1>3 DEF IInv, OnceThere, WaitItems
<1>7. PlaceInv' /\ GoodInv'
  BY <1>1, <1>4, MoveFrame
<1>8. PageInv'
  BY <1>1 DEF IInv, PageInv
<1> QED
  BY <1>5, <1>6, <1>7, <1>8 DEF ReqInv

LEMMA SrvRegisterReq == ASSUME IInv, SrvRegister PROVE ReqInv'
<1> DEFINE i == job.id
<1>1. /\ spc = "job" /\ job.type = "Register" /\ spc' = "take"
      /\ wakeups' = [wakeups EXCEPT ![i] = @ + 1]
      /\ UNCHANGED <<jobs, page, cpc, cid, opc, pushq, waitq, pe, we>>
  BY DEF SrvRegister, Handling, Wake, clients, owner, push, wait
<1>2. i \in Id /\ opc \in {"run", "quit"} /\ wakeups \in [Id -> Nat]
  BY <1>1, JobFacts DEF IInv, TypeOK
<1>3. HandIds = {i} /\ HandIds' = {} /\ i \notin WokenIds
  <2>1. HandIds = {i} /\ HandIds' = {}
    BY <1>1 DEF HandIds
  <2> QED
    BY <1>2, <2>1 DEF IInv, OnePlace
<1>4. /\ wakeups[i] = 0 /\ wakeups'[i] = 1
      /\ \A j \in Id : j # i => wakeups'[j] = wakeups[j]
  BY <1>1, <1>2, <1>3 DEF WokenIds
<1>5. WokenIds' = WokenIds \cup {i}
  BY <1>2, <1>4 DEF WokenIds
<1>6. /\ Ids(jobs)' = Ids(jobs) /\ QIds(pushq)' = QIds(pushq)
      /\ Ids(pe.items)' = Ids(pe.items) /\ QIds(WaitItems)' = QIds(WaitItems)
      /\ Ids(we.items)' = Ids(we.items) /\ BatchIds' = BatchIds
      /\ Places' = Places
      /\ ItemsThere' = ItemsThere /\ JobsThere' \subseteq JobsThere
  BY <1>1, <1>3, <1>5 DEF WaitItems, BatchIds, Places, ItemsThere, JobsThere
<1>7. OnePlace'
  BY <1>3, <1>5, <1>6 DEF IInv, OnePlace
<1>8. OnceThere'
  BY <1>1, <1>4 DEF IInv, OnceThere, WaitItems
<1>9. PlaceInv' /\ GoodInv'
  BY <1>1, <1>6, MoveFrame
<1>10. PageInv'
  <2>1. ASSUME NEW c \in Client, cpc[c] \in Asking
        PROVE  cid[c] \in Id /\ cid[c] # i
    <3>1. cid[c] \in Id
      BY <2>1 DEF IInv, TypeOK, IdInv, Unborn, Asking
    <3>2. cid[c] # i
      BY <1>1, <2>1 DEF IInv, GoodInv, JobsThere, GoodJob, Asking
    <3> QED
      BY <3>1, <3>2
  <2> QED
    BY <1>1, <1>4, <2>1 DEF IInv, PageInv
<1> QED
  BY <1>7, <1>8, <1>9, <1>10 DEF ReqInv

(* The position is in the page, and goes into the last batch. *)
LEMMA FeedFacts ==
  ASSUME IInv, SrvFeedForward
  PROVE  LET x == [id |-> job.id, pos |-> page[job.id].pos] IN
         /\ x \in Item /\ GoodItem(x) /\ job.id \in Id /\ opc \in {"run", "quit"}
         /\ pushq' = IF NeedsBatch THEN Append(pushq, <<x>>)
                     ELSE [pushq EXCEPT ![Len(pushq)] = Append(@, x)]
         /\ pushq' \in Seq(Seq(Item)) /\ <<x>> \in Seq(Item)
         /\ QIds(pushq') = QIds(pushq) \cup {job.id}
         /\ QRange(pushq') = QRange(pushq) \cup {x}
         /\ QDistinct(pushq')
<1> DEFINE i == job.id
           x == [id |-> i, pos |-> page[i].pos]
<1>1. spc = "job" /\ job.type = "FeedForward"
  BY DEF SrvFeedForward, Handling
<1>2. i \in Id /\ opc \in {"run", "quit"} /\ HandIds = {i}
  BY <1>1, JobFacts DEF HandIds
<1>3. PICK c \in Client : cid[c] = i
  BY <1>2, ClientFacts DEF IInv, PlaceInv, Places
<1>4. cpc[c] \in Asking /\ page[i].pos \in Position
  <2>1. Owes(c)
    BY <1>2, <1>3 DEF IInv, PlaceInv, Places
  <2>2. cpc[c] # "gone"
    BY <1>2, <2>1 DEF Owes, Waiting, Asking
  <2>3. cpc[c] \in Asking
    BY <1>1, <1>3, <2>2 DEF IInv, GoodInv, JobsThere, GoodJob
  <2> QED
    BY <1>3, <2>3 DEF IInv, PageInv
<1>5. x \in Item
  BY <1>2, <1>4 DEF Item
<1>6. GoodItem(x)
  <2>1. ASSUME NEW d \in Client, cid[d] = i PROVE cpc[d] \in Asking
    BY <1>2, <1>3, <1>4, <2>1, OtherIds
  <2> QED
    BY <2>1 DEF GoodItem
<1>7. pushq' = IF NeedsBatch THEN Append(pushq, <<x>>)
               ELSE [pushq EXCEPT ![Len(pushq)] = Append(@, x)]
  BY DEF SrvFeedForward, AddItem
<1>8. i \notin QIds(pushq) /\ QDistinct(pushq) /\ pushq \in Seq(Seq(Item))
  BY <1>2 DEF IInv, TypeOK, OnePlace, OnceThere
<1>9. /\ <<x>> \in Seq(Item) /\ Ids(<<x>>) = {i} /\ Range(<<x>>) = {x}
      /\ Distinct(<<x>>)
  BY <1>5 DEF Ids, Range, Distinct
<1> HIDE DEF x, i
<1>10. CASE NeedsBatch
  <2>1. pushq' = Append(pushq, <<x>>)
    BY <1>7, <1>10
  <2>2. /\ Append(pushq, <<x>>) \in Seq(Seq(Item))
        /\ QIds(Append(pushq, <<x>>)) = QIds(pushq) \cup Ids(<<x>>)
        /\ QDistinct(Append(pushq, <<x>>))
    <3>1. QIds(pushq) \cap Ids(<<x>>) = {}
      BY <1>8, <1>9
    <3> QED
      BY <1>8, <1>9, <3>1, AppendQueue
  <2>3. \A b \in Seq(Item) : QRange(Append(pushq, b)) = QRange(pushq) \cup Range(b)
    BY <1>8, QRangeMoves
  <2> QED
    BY <1>2, <1>5, <1>6, <1>7, <1>9, <2>1, <2>2, <2>3 DEF x, i
<1>11. CASE ~NeedsBatch
  <2>1. pushq' = [pushq EXCEPT ![Len(pushq)] = Append(@, x)] /\ pushq # <<>>
    BY <1>7, <1>11 DEF NeedsBatch
  <2>2. x.id = i
    BY DEF x
  <2>3. /\ pushq' \in Seq(Seq(Item)) /\ QIds(pushq') = QIds(pushq) \cup {i}
        /\ QDistinct(pushq')
    BY <1>5, <1>8, <2>1, <2>2, GrowQueue
  <2>4. QRange(pushq') = QRange(pushq) \cup {x}
    <3>1. QRange([pushq EXCEPT ![Len(pushq)] = Append(@, x)]) = QRange(pushq) \cup {x}
      BY <1>5, <1>8, <2>1, QRangeGrow
    <3> QED
      BY <2>1, <3>1
  <2> QED
    BY <1>2, <1>5, <1>6, <1>7, <1>9, <2>1, <2>3, <2>4 DEF x, i
<1> QED
  BY <1>10, <1>11

LEMMA SrvFeedForwardReq == ASSUME IInv, SrvFeedForward PROVE ReqInv'
<1>1. /\ spc = "job" /\ spc' # "job"
      /\ UNCHANGED <<jobs, wakeups, page, cpc, cid, opc, waitq, pe, we>>
  BY DEF SrvFeedForward, Handling, shared, clients, owner, push, wait
<1>2. PICK i, x :
      /\ i = job.id /\ i \in Id /\ GoodItem(x) /\ QIds(pushq') = QIds(pushq) \cup {i}
      /\ QRange(pushq') = QRange(pushq) \cup {x} /\ QDistinct(pushq')
  BY FeedFacts
<1>3. HandIds = {i} /\ HandIds' = {}
  BY <1>1, <1>2 DEF HandIds
<1>4. /\ Ids(jobs)' = Ids(jobs)
      /\ Ids(pe.items)' = Ids(pe.items) /\ QIds(WaitItems)' = QIds(WaitItems)
      /\ Ids(we.items)' = Ids(we.items) /\ BatchIds' = BatchIds \cup {i}
      /\ WokenIds' = WokenIds /\ Places' = Places
      /\ ItemsThere' = ItemsThere \cup {x} /\ JobsThere' \subseteq JobsThere
  BY <1>1, <1>2, <1>3 DEF WaitItems, WokenIds, BatchIds, Places, ItemsThere, JobsThere
<1>5. OnePlace'
  BY <1>2, <1>3, <1>4 DEF IInv, OnePlace
<1>6. OnceThere'
  BY <1>1, <1>2 DEF IInv, OnceThere, WaitItems
<1>7. PlaceInv' /\ GoodInv'
  <2>1. GoodItem(x)'
    BY <1>1, <1>2 DEF GoodItem
  <2> QED
    BY <1>1, <1>4, <2>1, MoveFrame
<1>8. PageInv'
  BY <1>1 DEF IInv, PageInv
<1> QED
  BY <1>5, <1>6, <1>7, <1>8 DEF ReqInv

(* The threads push and wait run while the process lives; what they hold. *)
LEMMA ThreadFacts ==
  ASSUME IInv
  PROVE  /\ PushThread \/ WaitThread => opc # "dead"
         /\ opc # "dead" /\ ppc \notin {"push", "append"} => pe.items = <<>>
         /\ opc # "dead" /\ wpc # "answer" => we.items = <<>>
<1>1. ASSUME PushThread PROVE opc # "dead"
  BY <1>1 DEF IInv, MgrInv, PushThread, PushQuit, PushTake, PushSleep, PushRun,
     PushAppend, PushNotify
<1>2. ASSUME WaitThread PROVE opc # "dead"
  BY <1>2 DEF IInv, MgrInv, WaitThread, WaitQuit, WaitTake, WaitSleep, WaitAnswer,
     WaitDone
<1> QED
  BY <1>1, <1>2 DEF IInv, BatchInv

LEMMA PushTakeReq == ASSUME IInv, PushTake PROVE ReqInv'
<1>1. /\ pushq # <<>> /\ pushq' = Tail(pushq) /\ pe'.items = Head(pushq)
      /\ pe.items = <<>>
      /\ UNCHANGED <<jobs, wakeups, page, cpc, cid, opc, spc, job, waitq, we>>
  BY ThreadFacts DEF PushThread, PushTake, MayPush, RestToPush, shared, clients,
     owner, srv, wait
<1>2. pushq \in Seq(Seq(Item))
  BY DEF IInv, TypeOK
<1>3. /\ QIds(pushq) = QIds(pushq') \cup Ids(pe'.items)
      /\ QDistinct(pushq') /\ Distinct(pe'.items)
      /\ QIds(pushq') \cap Ids(pe'.items) = {}
  BY <1>1, <1>2, TailQueue DEF IInv, OnceThere
<1>4. QRange(pushq) = QRange(pushq') \cup Range(pe'.items)
  BY <1>1, <1>2, QRangeMoves
<1>5. Ids(pe.items) = {} /\ Range(pe.items) = {}
  BY <1>1 DEF Ids, Range
<1>6. /\ Ids(jobs)' = Ids(jobs) /\ HandIds' = HandIds
      /\ QIds(WaitItems)' = QIds(WaitItems)
      /\ Ids(we.items)' = Ids(we.items) /\ BatchIds' = BatchIds
      /\ WokenIds' = WokenIds /\ Places' = Places
      /\ ItemsThere' = ItemsThere /\ JobsThere' = JobsThere
  BY <1>1, <1>3, <1>4, <1>5 DEF HandIds, WaitItems, WokenIds, BatchIds, Places,
     ItemsThere, JobsThere
<1>7. OnePlace'
  BY <1>3, <1>5, <1>6 DEF IInv, OnePlace
<1>8. OnceThere'
  BY <1>1, <1>3 DEF IInv, OnceThere, WaitItems
<1>9. PlaceInv' /\ GoodInv'
  BY <1>1, <1>6, MoveFrame
<1>10. PageInv'
  BY <1>1 DEF IInv, PageInv
<1> QED
  BY <1>7, <1>8, <1>9, <1>10 DEF ReqInv

LEMMA PushAppendReq == ASSUME IInv, PushAppend PROVE ReqInv'
<1>1. /\ waitq' = Append(waitq, pe) /\ pe'.items = <<>>
      /\ UNCHANGED <<jobs, wakeups, page, cpc, cid, opc, spc, job, pushq, we>>
  BY DEF PushAppend, NoBatch, shared, clients, owner, srv, wait
<1>2. /\ waitq \in Seq(Batch) /\ pe \in Batch /\ pe.items \in Seq(Item)
      /\ WaitItems \in Seq(Seq(Item))
  BY ItemsFacts DEF IInv, TypeOK, Batch, WaitItems, ItemsOf
<1>3. WaitItems' = Append(WaitItems, pe.items)
  <2>1. ItemsOf(waitq') = Append(ItemsOf(waitq), pe.items)
    BY <1>1, <1>2, ItemsAppend
  <2> QED
    BY <2>1 DEF ItemsOf, WaitItems
<1>4. /\ QDistinct(WaitItems) /\ Distinct(pe.items)
      /\ QIds(WaitItems) \cap Ids(pe.items) = {}
  <2>1. Ids(pe.items) \subseteq Places /\ Owner \notin Ids(pe.items)
    <3>1. ASSUME NEW k \in DOMAIN pe.items PROVE pe.items[k].id \in Id
      <4>1. pe.items[k] \in Item
        BY <1>2, <3>1, LenProperties, ElementOfSeq
      <4> QED
        BY <4>1 DEF Item
    <3> QED
      BY <3>1, ClientFacts DEF Ids, Places, BatchIds
  <2> QED
    BY <2>1, PlacesType DEF IInv, OnceThere, OnePlace
<1>5. QIds(WaitItems') = QIds(WaitItems) \cup Ids(pe.items) /\ QDistinct(WaitItems')
  BY <1>2, <1>3, <1>4, AppendQueue
<1>6. QRange(WaitItems') = QRange(WaitItems) \cup Range(pe.items)
  <2>1. \A b \in Seq(Item) :
          QRange(Append(WaitItems, b)) = QRange(WaitItems) \cup Range(b)
    BY <1>2, QRangeMoves
  <2> QED
    BY <1>2, <1>3, <2>1
<1>7. Ids(pe'.items) = {} /\ Range(pe'.items) = {} /\ Distinct(pe'.items)
  BY <1>1 DEF Ids, Range, Distinct
<1>8. /\ Ids(jobs)' = Ids(jobs) /\ HandIds' = HandIds /\ QIds(pushq)' = QIds(pushq)
      /\ Ids(we.items)' = Ids(we.items) /\ BatchIds' = BatchIds
      /\ WokenIds' = WokenIds /\ Places' = Places
      /\ ItemsThere' = ItemsThere /\ JobsThere' = JobsThere
  <2>1. /\ Ids(jobs)' = Ids(jobs) /\ HandIds' = HandIds
        /\ QIds(pushq)' = QIds(pushq) /\ QRange(pushq)' = QRange(pushq)
        /\ Ids(we.items)' = Ids(we.items) /\ Range(we.items)' = Range(we.items)
        /\ WokenIds' = WokenIds /\ JobsThere' = JobsThere
    BY <1>1 DEF HandIds, WokenIds, JobsThere
  <2>2. BatchIds' = BatchIds /\ ItemsThere' = ItemsThere
    BY <1>5, <1>6, <1>7, <2>1 DEF BatchIds, ItemsThere
  <2> QED
    BY <2>1, <2>2 DEF Places
<1>9. OnePlace'
  BY <1>5, <1>7, <1>8 DEF IInv, OnePlace
<1>10. OnceThere'
  BY <1>1, <1>5, <1>7 DEF IInv, OnceThere
<1>11. PlaceInv' /\ GoodInv'
  BY <1>1, <1>8, MoveFrame
<1>12. PageInv'
  BY <1>1 DEF IInv, PageInv
<1> QED
  BY <1>9, <1>10, <1>11, <1>12 DEF ReqInv

LEMMA WaitTakeReq == ASSUME IInv, WaitTake PROVE ReqInv'
<1>1. /\ waitq # <<>> /\ waitq' = Tail(waitq) /\ we' = Head(waitq)
      /\ we.items = <<>>
      /\ UNCHANGED <<jobs, wakeups, page, cpc, cid, opc, spc, job, pushq, pe>>
  BY ThreadFacts DEF WaitThread, WaitTake, shared, clients, owner, srv, push
<1>2. waitq \in Seq(Batch) /\ WaitItems \in Seq(Seq(Item))
  BY ItemsFacts DEF IInv, TypeOK, WaitItems, ItemsOf
<1>3. /\ WaitItems' = Tail(WaitItems) /\ WaitItems # <<>>
      /\ Head(WaitItems) = we'.items
  <2>1. /\ ItemsOf(waitq') = Tail(ItemsOf(waitq)) /\ ItemsOf(waitq) # <<>>
        /\ Head(ItemsOf(waitq)) = we'.items
    BY <1>1, <1>2, ItemsTail
  <2> QED
    BY <2>1 DEF ItemsOf, WaitItems
<1>4. /\ QIds(WaitItems) = QIds(WaitItems') \cup Ids(we'.items)
      /\ QDistinct(WaitItems') /\ Distinct(we'.items)
      /\ QIds(WaitItems') \cap Ids(we'.items) = {}
  <2>1. QDistinct(WaitItems)
    BY DEF IInv, OnceThere
  <2> QED
    BY <1>2, <1>3, <2>1, TailQueue
<1>5. QRange(WaitItems) = QRange(WaitItems') \cup Range(we'.items)
  BY <1>2, <1>3, QRangeMoves
<1>6. Ids(we.items) = {} /\ Range(we.items) = {}
  BY <1>1 DEF Ids, Range
<1>7. /\ Ids(jobs)' = Ids(jobs) /\ HandIds' = HandIds /\ QIds(pushq)' = QIds(pushq)
      /\ Ids(pe.items)' = Ids(pe.items) /\ BatchIds' = BatchIds
      /\ WokenIds' = WokenIds /\ Places' = Places
      /\ ItemsThere' = ItemsThere /\ JobsThere' = JobsThere
  <2>1. /\ Ids(jobs)' = Ids(jobs) /\ HandIds' = HandIds
        /\ QIds(pushq)' = QIds(pushq) /\ QRange(pushq)' = QRange(pushq)
        /\ Ids(pe.items)' = Ids(pe.items) /\ Range(pe.items)' = Range(pe.items)
        /\ WokenIds' = WokenIds /\ JobsThere' = JobsThere
    BY <1>1 DEF HandIds, WokenIds, JobsThere
  <2>2. BatchIds' = BatchIds /\ ItemsThere' = ItemsThere
    BY <1>4, <1>5, <1>6, <2>1 DEF BatchIds, ItemsThere
  <2> QED
    BY <2>1, <2>2 DEF Places
<1>8. OnePlace'
  BY <1>4, <1>6, <1>7 DEF IInv, OnePlace
<1>9. OnceThere'
  BY <1>1, <1>4 DEF IInv, OnceThere
<1>10. PlaceInv' /\ GoodInv'
  BY <1>1, <1>7, MoveFrame
<1>11. PageInv'
  BY <1>1 DEF IInv, PageInv
<1> QED
  BY <1>8, <1>9, <1>10, <1>11 DEF ReqInv

(* The network in service is the one the manager wants while engines wait. *)
LEMMA AnswerFacts ==
  ASSUME IInv, WaitAnswer
  PROVE  LET x == Head(we.items) IN
         /\ x \in Item /\ x \in ItemsThere /\ x.id \in Id /\ x.id \in Ids(we.items)
         /\ we' = [we EXCEPT !.items = Tail(@)] /\ we'.items = Tail(we.items)
         /\ we'.net = we.net /\ we.items \in Seq(Item) /\ we.items # <<>>
         /\ opc \in {"run", "quit"} /\ we.net = net /\ net = wid
         /\ Result = [pos |-> x.pos, net |-> net] /\ Result \in Value
         /\ \E c \in Client : cid[c] = x.id
         /\ \A c \in Client : cid[c] = x.id =>
              /\ cpc[c] \in Asking /\ page[x.id].pos = x.pos
              /\ wakeups[x.id] = 0
<1> DEFINE x == Head(we.items)
<1>1. /\ we.items # <<>> /\ we' = [we EXCEPT !.items = Tail(@)] /\ opc # "dead"
  BY ThreadFacts DEF WaitThread, WaitAnswer
<1>2. we.items \in Seq(Item) /\ we \in Batch
  BY DEF IInv, TypeOK, Batch
<1>3. x \in Item /\ x.id \in Id /\ x.id \in Ids(we.items) /\ x \in Range(we.items)
  <2>1. /\ x \in Item /\ Ids(we.items) = Ids(Tail(we.items)) \cup {x.id}
        /\ Range(we.items) = Range(Tail(we.items)) \cup {x}
    BY <1>1, <1>2, TailIds, RangeMoves
  <2> QED
    BY <2>1 DEF Item
<1>4. we'.items = Tail(we.items) /\ we'.net = we.net
  BY <1>1, <1>2 DEF Batch
<1> HIDE DEF x
<1>5. x \in ItemsThere /\ GoodItem(x)
  BY <1>3 DEF IInv, GoodInv, ItemsThere
<1>6. wakeups[x.id] = 0
  <2>1. x.id \notin WokenIds
    BY <1>3 DEF IInv, OnePlace
  <2> QED
    BY <1>3, <2>1 DEF WokenIds, IInv, TypeOK
<1>7. ASSUME NEW c \in Client, cid[c] = x.id
      PROVE  cpc[c] \in Asking /\ page[x.id].pos = x.pos
  <2>1. Owes(c)
    BY <1>3, <1>7 DEF IInv, PlaceInv, Places, BatchIds
  <2>2. cpc[c] # "gone"
    BY <1>1, <2>1 DEF Owes, Waiting, Asking
  <2> QED
    BY <1>5, <1>7, <2>2 DEF GoodItem
<1>8. PICK c \in Client : cid[c] = x.id
  BY <1>3, ClientFacts DEF IInv, PlaceInv, Places, BatchIds
<1>9. opc \in {"run", "quit"} /\ net = wid /\ net \in Network
  <2>1. opc \in {"run", "quit"}
    BY <1>1, <1>7, <1>8 DEF IInv, TypeOK, MgrInv, PhaseInv, NewNet, Ending, OwnerWaits,
       Asking
  <2> QED
    BY <2>1 DEF IInv, TypeOK, MgrInv, RunInv
<1>10. we.net = net
  BY <1>1 DEF IInv, BatchInv
<1>11. Result = [pos |-> x.pos, net |-> net] /\ Result \in Value
  BY <1>3, <1>9, <1>10 DEF Result, Value, Item, x
<1> QED
  BY <1>1, <1>2, <1>3, <1>4, <1>5, <1>6, <1>7, <1>8, <1>9, <1>10, <1>11 DEF x

LEMMA WaitAnswerReq == ASSUME IInv, WaitAnswer PROVE ReqInv'
<1>1. PICK x \in Item :
        /\ x = Head(we.items) /\ x.id \in Id /\ we'.items = Tail(we.items)
        /\ we.items \in Seq(Item) /\ we.items # <<>>
        /\ \A c \in Client : cid[c] = x.id =>
             cpc[c] \in Asking /\ page[x.id].pos = x.pos /\ wakeups[x.id] = 0
        /\ \E c \in Client : cid[c] = x.id
        /\ Result \in Value
  BY AnswerFacts
<1>2. /\ page' = [page EXCEPT ![x.id].val = Result]
      /\ wakeups' = [wakeups EXCEPT ![x.id] = @ + 1]
      /\ UNCHANGED <<jobs, cpc, cid, opc, spc, job, pushq, waitq, pe>>
  BY <1>1 DEF WaitAnswer, Wake, clients, owner, srv, push
<1>3. /\ page \in [Id -> [pos : Position \cup {Nothing}, val : Value \cup {Nothing}]]
      /\ wakeups \in [Id -> Nat]
  BY DEF IInv, TypeOK
<1>4. /\ wakeups[x.id] = 0 /\ wakeups'[x.id] = 1
      /\ page'[x.id].val = Result
      /\ \A i \in Id : /\ page'[i].pos = page[i].pos
                       /\ i # x.id => page'[i] = page[i] /\ wakeups'[i] = wakeups[i]
  BY <1>1, <1>2, <1>3
<1>5. WokenIds' = WokenIds \cup {x.id}
  BY <1>1, <1>4 DEF WokenIds
<1>6. /\ Ids(we.items) = Ids(we'.items) \cup {x.id} /\ x.id \notin Ids(we'.items)
      /\ Distinct(we'.items) /\ Range(we.items) = Range(we'.items) \cup {x}
  BY <1>1, TailIds, RangeMoves DEF IInv, OnceThere
<1>7. /\ Ids(jobs)' = Ids(jobs) /\ HandIds' = HandIds /\ QIds(pushq)' = QIds(pushq)
      /\ Ids(pe.items)' = Ids(pe.items) /\ QIds(WaitItems)' = QIds(WaitItems)
      /\ Places' = Places
      /\ ItemsThere' \subseteq ItemsThere /\ JobsThere' = JobsThere
  BY <1>2, <1>5, <1>6 DEF HandIds, WaitItems, BatchIds, Places, ItemsThere, JobsThere
<1>8. OnePlace'
  BY <1>5, <1>6, <1>7 DEF IInv, OnePlace
<1>9. OnceThere'
  BY <1>2, <1>4, <1>6 DEF IInv, OnceThere, WaitItems
<1>10. PlaceInv' /\ GoodInv'
  BY <1>2, <1>4, <1>7, MoveFrame
<1>11. PageInv'
  <2>1. ASSUME NEW c \in Client, cpc[c] \in Asking
        PROVE  /\ page'[cid[c]].pos \in Position
               /\ wakeups'[cid[c]] > 0 => page'[cid[c]].val \in Value
    <3>1. cid[c] \in Id
      BY <2>1 DEF IInv, TypeOK, IdInv, Unborn, Asking
    <3> QED
      BY <1>1, <1>4, <2>1, <3>1 DEF IInv, PageInv
  <2> QED
    BY <1>2, <2>1 DEF PageInv
<1> QED
  BY <1>8, <1>9, <1>10, <1>11 DEF ReqInv

LEMMA ReqStep == ASSUME IInv, [Next]_vars, MgrInv' PROVE ReqInv'
<1>1. ASSUME NEW c \in Client, Engine(c) PROVE ReqInv'
  <2>1. CASE \/ TakeId(c) \/ Register(c) \/ PickUp(c) \/ \E p \in Position : Ask(c, p)
    BY <2>1, TakeIdReq, EnterReq, PickUpReq
  <2>2. CASE Post(c) \/ BestMove(c) \/ Exit(c) \/ Orphan(c)
    <3>1. /\ UNCHANGED <<jobs, wakeups, page, cid, opc, spc, job, pushq, waitq, pe, we>>
      BY <1>1, <2>2, EngineKeeps DEF Post, BestMove, Exit, Orphan, shared
    <3>2. ASSUME NEW d \in Client
          PROVE  \/ cpc'[d] = cpc[d]
                 \/ cpc[d] = "reg" /\ cpc'[d] = "reg-wait"
                 \/ cpc[d] = "ask" /\ cpc'[d] = "ask-wait"
                 \/ cpc[d] \notin Waiting \cup {"gone"} /\ cpc'[d] \notin Waiting
                 \/ cpc[d] \in Waiting /\ cpc'[d] = "gone" /\ opc' = "dead"
      <4>1. cpc \in [Client -> {"none", "ready", "gone"} \cup Registering \cup Thinking]
        BY DEF IInv, TypeOK
      <4> QED
        BY <2>2, <3>1, <4>1 DEF Post, BestMove, Exit, Orphan, NoParent, Waiting, Asking
    <3>3. HandIds' = HandIds
      BY <3>1 DEF HandIds
    <3> QED
      BY <3>1, <3>2, <3>3, ReqFrame
  <2> QED
    BY <1>1, <2>1, <2>2 DEF Engine
<1>2. CASE Manager
  <2>1. CASE NNReset \/ WaitNop \/ Destroy
    BY <2>1, OwnerAsks
  <2>2. CASE \/ OwnerPost \/ OwnerWoken \/ InService \/ Update \/ Quit \/ SetQuit
             \/ EndNotify \/ Join \/ \E c \in Client : Go(c)
    <3>1. UNCHANGED <<jobs, wakeups, page, cid, spc, job, pushq, waitq, pe, we>>
      BY <1>2, <2>2, ManagerKeeps DEF OwnerPost, OwnerWoken, InService, Update, Quit,
         SetQuit, EndNotify, Join, Go, shared
    <3>2. opc # "dead" /\ HandIds' = HandIds
      BY <2>2, <3>1 DEF OwnerPost, OwnerWoken, InService, Update, Quit, SetQuit,
         EndNotify, Join, Go, HandIds
    <3>3. ASSUME NEW d \in Client
          PROVE  \/ cpc'[d] = cpc[d]
                 \/ cpc[d] \notin Waiting \cup {"gone"} /\ cpc'[d] \notin Waiting
      <4>1. cpc \in [Client -> {"none", "ready", "gone"} \cup Registering \cup Thinking]
        BY DEF IInv, TypeOK
      <4> QED
        BY <2>2, <4>1 DEF OwnerPost, OwnerWoken, InService, Update, Quit, SetQuit,
           EndNotify, Join, Go, clients, Waiting, Asking
    <3> QED
      BY <3>1, <3>2, <3>3, ReqFrame
  <2> QED
    BY <1>2, <2>1, <2>2 DEF Manager
<1>3. CASE ManagerDies
  BY <1>3, ReqFrame DEF ManagerDies, Die, shared, clients
<1>4. CASE Srv
  <2>1. CASE Take \/ SrvRegister \/ SrvFeedForward
    BY <2>1, TakeReq, SrvRegisterReq, SrvFeedForwardReq
  <2>2. CASE \/ SrvNop \/ SrvReset \/ SrvResetIds \/ SrvSignal \/ SrvLoad
             \/ SrvNotify \/ SrvEnd
    <3>1. UNCHANGED <<jobs, wakeups, page, cpc, cid, pushq, waitq, pe, we>>
      BY <1>4, <2>2, SrvKeeps DEF SrvNop, SrvReset, SrvResetIds, SrvSignal, SrvLoad,
         SrvNotify, SrvEnd, shared
    <3>2. HandIds \subseteq {Owner} /\ opc # "dead" /\ spc' # "job"
      <4>1. CASE SrvNop \/ SrvReset \/ SrvEnd
        BY <4>1, JobFacts DEF SrvNop, SrvReset, SrvEnd, Handling, HandIds, Die
      <4>2. CASE SrvResetIds \/ SrvSignal \/ SrvLoad \/ SrvNotify
        BY <4>2 DEF SrvResetIds, SrvSignal, SrvLoad, SrvNotify, HandIds, Die, IInv,
           MgrInv
      <4> QED
        BY <2>2, <4>1, <4>2
    <3> QED
      BY <3>1, <3>2, ReqFrame
  <2> QED
    BY <1>4, <2>1, <2>2 DEF Srv
<1>5. CASE PushThread
  <2>1. CASE PushTake \/ PushAppend
    BY <2>1, PushTakeReq, PushAppendReq
  <2>2. CASE PushQuit \/ PushSleep \/ PushRun \/ PushNotify
    <3>1. /\ UNCHANGED <<jobs, wakeups, page, cpc, cid, opc, spc, job, pushq, waitq, we>>
          /\ pe'.items = pe.items
      <4>1. pe \in Batch
        BY DEF IInv, TypeOK
      <4> QED
        BY <1>5, <2>2, <4>1, PushKeeps
           DEF PushQuit, PushSleep, PushRun, PushNotify, wait, Batch
    <3>2. opc # "dead" /\ HandIds' = HandIds
      BY <1>5, <3>1, ThreadFacts DEF HandIds
    <3> QED
      BY <3>1, <3>2, ReqFrame
  <2> QED
    BY <1>5, <2>1, <2>2 DEF PushThread
<1>6. CASE WaitThread
  <2>1. CASE WaitTake \/ WaitAnswer
    BY <2>1, WaitTakeReq, WaitAnswerReq
  <2>2. CASE WaitQuit \/ WaitSleep \/ WaitDone
    <3>1. /\ UNCHANGED <<jobs, wakeups, page, cpc, cid, opc, spc, job, pushq, waitq, pe>>
          /\ we'.items = we.items
      BY <1>6, <2>2, WaitKeeps DEF WaitQuit, WaitSleep, WaitDone, NoBatch, shared
    <3>2. opc # "dead" /\ HandIds' = HandIds
      BY <1>6, <3>1, ThreadFacts DEF HandIds
    <3> QED
      BY <3>1, <3>2, ReqFrame
  <2> QED
    BY <1>6, <2>1, <2>2 DEF WaitThread
<1>7. CASE Spurious
  <2>1. UNCHANGED <<jobs, wakeups, page, cpc, cid, opc, spc, job, pushq, waitq, pe, we>>
    BY <1>7, SpuriousKeeps
  <2>2. opc # "dead" /\ HandIds' = HandIds
    BY <1>7, <2>1 DEF Spurious, IInv, MgrInv, HandIds
  <2> QED
    BY <2>1, <2>2, ReqFrame
<1>8. CASE UNCHANGED vars
  <2>1. UNCHANGED <<jobs, wakeups, page, cpc, cid, opc, spc, job, pushq, waitq, pe, we>>
    BY <1>8 DEF vars, shared, clients, owner, service, srv, push, wait
  <2>2. HandIds' = HandIds
    BY <2>1 DEF HandIds
  <2> QED
    BY <2>1, <2>2, ReqFrame
<1> QED
  BY <1>1, <1>2, <1>3, <1>4, <1>5, <1>6, <1>7, <1>8 DEF Next

-----------------------------------------------------------------------------
(* Batches. *)

LEMMA BatchFrame ==
  ASSUME IInv, UNCHANGED <<pushq, waitq, pe, we, net>>,
         opc' # "dead" => opc # "dead",
         \/ ppc' = ppc
         \/ /\ ppc' \notin {"push", "append"}
            /\ opc' # "dead" => ppc \notin {"push", "append"},
         \/ wpc' = wpc
         \/ opc' # "dead" => wpc # "answer"
  PROVE  BatchInv'
BY DEF IInv, BatchInv, BatchesFit, Full

(* The network changes while there is no batch. *)
LEMMA NetBatch ==
  ASSUME IInv, opc # "dead",
         \/ \A c \in Client : cpc[c] = "none"
         \/ \A c \in Client : cpc[c] = "ready",
         UNCHANGED <<pushq, waitq, pe, we, opc, ppc, wpc>>
  PROVE  BatchInv'
<1>1. \A c \in Client : cpc[c] \notin Waiting
  BY DEF Waiting, Asking
<1>2. /\ pushq = <<>> /\ waitq = <<>> /\ pe.items = <<>> /\ we.items = <<>>
      /\ ppc \notin {"push", "append"}
  BY <1>1, NothingOpen
<1> QED
  BY <1>2 DEF BatchInv, BatchesFit

LEMMA FeedBatch == ASSUME IInv, SrvFeedForward PROVE BatchInv'
<1>1. /\ UNCHANGED <<waitq, pe, we, net, opc, ppc, wpc>>
  BY DEF SrvFeedForward, owner, push, wait
<1>2. PICK x \in Item :
        /\ pushq' = IF NeedsBatch THEN Append(pushq, <<x>>)
                    ELSE [pushq EXCEPT ![Len(pushq)] = Append(@, x)]
        /\ pushq' \in Seq(Seq(Item)) /\ <<x>> \in Seq(Item)
  BY FeedFacts
<1>3. /\ pushq \in Seq(Seq(Item)) /\ SizeBatch \in Nat /\ SizeBatch > 0
      /\ Len(pushq) \in Nat /\ DOMAIN pushq = 1 .. Len(pushq)
  BY BatchAssumption, LenProperties DEF IInv, TypeOK
<1>4. \A k \in DOMAIN pushq :
        /\ pushq[k] \in Seq(Item) /\ Len(pushq[k]) \in 1 .. SizeBatch
        /\ k < Len(pushq) => Len(pushq[k]) = SizeBatch
  <2>1. \A k \in 1 .. Len(pushq) : pushq[k] \in Seq(Item)
    BY <1>3, ElementOfSeq
  <2> QED
    BY <1>3, <2>1 DEF IInv, BatchInv, BatchesFit, Full
<1>5. \A k \in DOMAIN pushq' :
        /\ Len(pushq'[k]) \in 1 .. SizeBatch
        /\ k < Len(pushq') => Len(pushq'[k]) = SizeBatch
  <2>1. CASE NeedsBatch
    <3>1. pushq' = Append(pushq, <<x>>)
      BY <1>2, <2>1
    <3>2. /\ Len(pushq') = Len(pushq) + 1
          /\ \A k \in DOMAIN pushq' :
               \/ k \in DOMAIN pushq /\ pushq'[k] = pushq[k]
               \/ k = Len(pushq) + 1 /\ pushq'[k] = <<x>>
      <4>1. ASSUME NEW T, NEW q \in Seq(T), NEW b \in T
            PROVE  /\ Len(Append(q, b)) = Len(q) + 1
                   /\ \A k \in DOMAIN Append(q, b) :
                        \/ k \in DOMAIN q /\ Append(q, b)[k] = q[k]
                        \/ k = Len(q) + 1 /\ Append(q, b)[k] = b
        BY <4>1, AppendIds
      <4>2. pushq \in Seq(Seq(Item)) /\ <<x>> \in Seq(Item)
        BY <1>2, <1>3
      <4> HIDE DEF NeedsBatch
      <4> QED
        BY <3>1, <4>1, <4>2
    <3>3. pushq # <<>> => Len(pushq[Len(pushq)]) = SizeBatch
      BY <2>1 DEF NeedsBatch, Full, Last
    <3>4. Len(<<x>>) = 1 /\ 1 \in 1 .. SizeBatch
      BY <1>3
    <3>5. ASSUME NEW k \in DOMAIN pushq'
          PROVE  /\ Len(pushq'[k]) \in 1 .. SizeBatch
                 /\ k < Len(pushq') => Len(pushq'[k]) = SizeBatch
      <4>1. CASE k = Len(pushq) + 1 /\ pushq'[k] = <<x>>
        <5>1. ~(k < Len(pushq'))
          BY <1>3, <3>2, <4>1
        <5> QED
          BY <3>4, <4>1, <5>1
      <4>2. CASE k \in DOMAIN pushq /\ pushq'[k] = pushq[k]
        <5>1. pushq # <<>> /\ (k = Len(pushq) \/ k < Len(pushq))
          BY <1>3, <4>2
        <5> QED
          BY <1>4, <3>3, <4>2, <5>1
      <4> QED
        BY <3>2, <3>5, <4>1, <4>2
    <3> QED
      BY <3>5
  <2>2. CASE ~NeedsBatch
    <3>1. pushq # <<>> /\ Len(pushq[Len(pushq)]) # SizeBatch
      BY <2>2 DEF NeedsBatch, Full, Last
    <3>2. /\ Len(pushq') = Len(pushq) /\ DOMAIN pushq' = DOMAIN pushq
          /\ Len(pushq) \in DOMAIN pushq
          /\ pushq'[Len(pushq)] = Append(pushq[Len(pushq)], x)
          /\ \A k \in DOMAIN pushq : k # Len(pushq) => pushq'[k] = pushq[k]
      <4>1. pushq' = [pushq EXCEPT ![Len(pushq)] = Append(@, x)]
        BY <1>2, <2>2
      <4> QED
        BY <1>3, <3>1, <4>1, GrowQueue
    <3>3. Len(pushq'[Len(pushq)]) = Len(pushq[Len(pushq)]) + 1
      BY <1>4, <3>2, AppendIds
    <3>4. Len(pushq'[Len(pushq)]) \in 1 .. SizeBatch
      <4>1. Len(pushq[Len(pushq)]) \in 1 .. SizeBatch
        BY <1>4, <3>2
      <4>2. \A m \in 1 .. SizeBatch : m # SizeBatch => m + 1 \in 1 .. SizeBatch
        BY <1>3
      <4> QED
        BY <3>1, <3>3, <4>1, <4>2
    <3> QED
      BY <1>3, <1>4, <3>2, <3>4
  <2> QED
    BY <2>1, <2>2
<1> QED
  BY <1>1, <1>5 DEF IInv, BatchInv, BatchesFit, Full

LEMMA PushBatch == ASSUME IInv, PushThread PROVE BatchInv'
<1>1. opc # "dead" /\ UNCHANGED <<opc, net>>
  BY PushKeeps, ThreadFacts
<1>2. CASE PushQuit \/ PushSleep \/ PushNotify
  BY <1>1, <1>2, BatchFrame DEF PushQuit, PushSleep, PushNotify, NotifyWait, wait
<1>3. CASE PushTake
  <2>1. /\ pushq # <<>> /\ pushq' = Tail(pushq) /\ pe'.items = Head(pushq)
        /\ ppc' = "push" /\ UNCHANGED <<waitq, we, wpc>>
    BY <1>3 DEF PushTake, MayPush, RestToPush, wait
  <2>2. /\ pushq \in Seq(Seq(Item)) /\ Len(pushq) \in Nat /\ Len(pushq) > 0
        /\ 1 \in DOMAIN pushq /\ Head(pushq) = pushq[1]
        /\ Len(Tail(pushq)) = Len(pushq) - 1
        /\ \A k \in DOMAIN Tail(pushq) :
             k + 1 \in DOMAIN pushq /\ Tail(pushq)[k] = pushq[k + 1]
    BY <2>1, TailIds, LenProperties DEF IInv, TypeOK
  <2>3. ASSUME NEW k \in DOMAIN pushq'
        PROVE  /\ Len(pushq'[k]) \in 1 .. SizeBatch
               /\ k < Len(pushq') => Len(pushq'[k]) = SizeBatch
    <3>1. k + 1 \in DOMAIN pushq /\ pushq'[k] = pushq[k + 1]
      BY <2>1, <2>2
    <3>2. k \in Int /\ Len(pushq') = Len(pushq) - 1
      <4>1. pushq' \in Seq(Seq(Item))
        BY <2>1, <2>2, TailIds
      <4> QED
        BY <2>1, <2>2, <2>3, <4>1, LenProperties
    <3>3. k < Len(pushq') => k + 1 < Len(pushq)
      BY <2>2, <3>2
    <3> QED
      BY <3>1, <3>3 DEF IInv, BatchInv, BatchesFit, Full
  <2>4. Len(pe'.items) \in 1 .. SizeBatch
    BY <2>1, <2>2 DEF IInv, BatchInv, BatchesFit
  <2> QED
    BY <1>1, <2>1, <2>3, <2>4 DEF IInv, BatchInv, BatchesFit, Full
<1>4. CASE PushRun
  <2>1. /\ ppc = "push" /\ ppc' = "append" /\ pe'.items = pe.items /\ pe'.net = net
        /\ UNCHANGED <<pushq, waitq, we, wpc>>
    BY <1>4 DEF PushRun, wait, IInv, TypeOK, Batch
  <2> QED
    BY <1>1, <2>1 DEF IInv, BatchInv, BatchesFit, Full
<1>5. CASE PushAppend
  <2>1. /\ ppc = "append" /\ ppc' = "notify" /\ waitq' = Append(waitq, pe)
        /\ pe'.items = <<>> /\ UNCHANGED <<pushq, we, wpc>>
    BY <1>5 DEF PushAppend, NoBatch, wait
  <2>2. /\ pe.net = net /\ Len(pe.items) \in 1 .. SizeBatch
    BY <1>1, <2>1 DEF IInv, BatchInv
  <2>3. \A k \in DOMAIN waitq' : waitq'[k] = pe \/ (k \in DOMAIN waitq
                                                    /\ waitq'[k] = waitq[k])
    BY <2>1, AppendIds DEF IInv, TypeOK
  <2>4. \A k \in DOMAIN waitq' : /\ Len(waitq'[k].items) \in 1 .. SizeBatch
                                 /\ waitq'[k].net = net
    BY <2>2, <2>3 DEF IInv, BatchInv, BatchesFit
  <2> QED
    BY <1>1, <2>1, <2>4 DEF IInv, BatchInv, BatchesFit, Full
<1> QED
  BY <1>2, <1>3, <1>4, <1>5 DEF PushThread

LEMMA WaitBatch == ASSUME IInv, WaitThread PROVE BatchInv'
<1>1. opc # "dead" /\ UNCHANGED <<opc, net, pe, pushq>>
  BY WaitKeeps, ThreadFacts
<1>2. CASE WaitQuit \/ WaitSleep
  BY <1>1, <1>2, BatchFrame DEF WaitQuit, WaitSleep, push
<1>3. CASE WaitTake
  <2>1. /\ waitq # <<>> /\ waitq' = Tail(waitq) /\ we' = Head(waitq)
        /\ wpc' = "answer" /\ UNCHANGED ppc
    BY <1>3 DEF WaitTake, push
  <2>2. /\ Head(waitq) = waitq[1] /\ 1 \in DOMAIN waitq
        /\ \A k \in DOMAIN waitq' : k + 1 \in DOMAIN waitq /\ waitq'[k] = waitq[k + 1]
    BY <2>1, TailIds DEF IInv, TypeOK
  <2>3. \A k \in DOMAIN waitq' : /\ Len(waitq'[k].items) \in 1 .. SizeBatch
                                 /\ waitq'[k].net = net
    BY <2>2 DEF IInv, BatchInv, BatchesFit
  <2>4. we'.net = net
    BY <2>1, <2>2 DEF IInv, BatchInv
  <2> QED
    BY <1>1, <2>1, <2>3, <2>4 DEF IInv, BatchInv, BatchesFit, Full
<1>4. CASE WaitAnswer
  <2>1. we'.net = we.net /\ we.items # <<>> /\ we.net = net
    BY <1>4, AnswerFacts
  <2>2. wpc' = "answer" /\ UNCHANGED <<ppc, waitq>>
    BY <1>4 DEF WaitAnswer, push
  <2> QED
    BY <1>1, <2>1, <2>2 DEF IInv, BatchInv, BatchesFit, Full
<1>5. CASE WaitDone
  <2>1. /\ we'.items = <<>> /\ wpc' = "test" /\ UNCHANGED waitq
        /\ ppc' = ppc \/ (ppc' = "test" /\ ppc = "sleep")
    BY <1>5 DEF WaitDone, NotifyPush, NoBatch
  <2> QED
    BY <1>1, <2>1 DEF IInv, BatchInv, BatchesFit, Full
<1> QED
  BY <1>2, <1>3, <1>4, <1>5 DEF WaitThread

LEMMA BatchStep == ASSUME IInv, [Next]_vars PROVE BatchInv'
<1>1. ASSUME NEW c \in Client, Engine(c) PROVE BatchInv'
  BY <1>1, EngineKeeps, BatchFrame
<1>2. CASE Manager
  <2>1. opc # "dead" /\ UNCHANGED <<pushq, waitq, pe, we, net>>
    BY <1>2, ManagerKeeps DEF Manager, NNReset, WaitNop, OwnerPost, OwnerWoken,
       InService, Update, Quit, Destroy, SetQuit, EndNotify, Join, Go
  <2>2. /\ ppc' = ppc \/ (ppc = "sleep" /\ ppc' = "test")
        /\ wpc' = wpc \/ (wpc = "sleep" /\ wpc' = "test")
    BY <1>2 DEF Manager, NNReset, WaitNop, OwnerPost, OwnerWoken, InService, Update,
       Quit, Destroy, SetQuit, EndNotify, Join, Go, NotifyBoth, NotifyPush, NotifyWait,
       service, push, wait
  <2> QED
    BY <2>1, <2>2, BatchFrame
<1>3. CASE ManagerDies
  BY <1>3, BatchFrame DEF ManagerDies, Die
<1>4. CASE Srv
  <2>1. CASE SrvFeedForward
    BY <2>1, FeedBatch
  <2>2. CASE SrvReset /\ ~(pushq # <<>> \/ waitq # <<>>)
    <3>1. opc = "reset-wait" /\ UNCHANGED <<pushq, waitq, pe, we, opc, ppc, wpc>>
      BY <2>2, JobFacts DEF SrvReset, Handling, owner, push, wait
    <3> QED
      BY <3>1, NetBatch DEF IInv, MgrInv, PhaseInv, NewNet
  <2>3. CASE SrvLoad
    <3>1. spc \in Resetting /\ UNCHANGED <<pushq, waitq, pe, we, opc, ppc, wpc>>
      BY <2>3 DEF SrvLoad, Resetting, owner, push, wait
    <3> QED
      BY <3>1, ResetPhase, NetBatch DEF NewNet
  <2>4. CASE SrvReset /\ (pushq # <<>> \/ waitq # <<>>)
    BY <2>4, BatchFrame DEF SrvReset, Die
  <2>5. CASE SrvResetIds
    BY <2>5, BatchFrame DEF SrvResetIds, Die, owner, push, wait
  <2>6. CASE SrvNotify
    BY <2>6, BatchFrame DEF SrvNotify, NotifyPush, owner, wait
  <2>7. CASE Take \/ SrvRegister \/ SrvNop \/ SrvSignal \/ SrvEnd
    <3>1. /\ UNCHANGED <<pushq, waitq, pe, we, net, ppc, wpc, opc>>
      BY <2>7 DEF Take, SrvRegister, SrvNop, SrvSignal, SrvEnd, owner, push, wait
    <3> QED
      BY <3>1, BatchFrame
  <2> QED
    BY <1>4, <2>1, <2>2, <2>3, <2>4, <2>5, <2>6, <2>7 DEF Srv
<1>5. CASE PushThread \/ WaitThread
  BY <1>5, PushBatch, WaitBatch
<1>6. CASE Spurious
  <2>1. UNCHANGED <<opc, pushq, waitq, pe, we, net>>
    BY <1>6, SpuriousKeeps
  <2>2. /\ ppc' = ppc \/ (ppc = "sleep" /\ ppc' = "test")
        /\ wpc' = wpc \/ (wpc = "sleep" /\ wpc' = "test")
    BY <1>6 DEF Spurious
  <2> QED
    BY <2>1, <2>2, BatchFrame
<1>7. CASE UNCHANGED vars
  <2>1. UNCHANGED <<opc, pushq, waitq, pe, we, net, ppc, wpc>>
    BY <1>7 DEF vars, owner, service, push, wait
  <2> QED
    BY <2>1, BatchFrame
<1> QED
  BY <1>1, <1>2, <1>3, <1>4, <1>5, <1>6, <1>7 DEF Next

-----------------------------------------------------------------------------
(* Types. *)

Pages == [Id -> [pos : Position \cup {Nothing}, val : Value \cup {Nothing}]]

LEMMA PageType ==
  ASSUME NEW f \in Pages, NEW i \in Id
  PROVE  /\ \A p \in Position : [f EXCEPT ![i].pos = p] \in Pages
         /\ \A v \in Value : [f EXCEPT ![i].val = v] \in Pages
<1>1. f[i] \in [pos : Position \cup {Nothing}, val : Value \cup {Nothing}]
  BY DEF Pages
<1>2. ASSUME NEW p \in Position PROVE [f EXCEPT ![i].pos = p] \in Pages
  <2>1. [f[i] EXCEPT !.pos = p]
          \in [pos : Position \cup {Nothing}, val : Value \cup {Nothing}]
    BY <1>1
  <2> QED
    BY <2>1 DEF Pages
<1>3. ASSUME NEW v \in Value PROVE [f EXCEPT ![i].val = v] \in Pages
  <2>1. [f[i] EXCEPT !.val = v]
          \in [pos : Position \cup {Nothing}, val : Value \cup {Nothing}]
    BY <1>1
  <2> QED
    BY <2>1 DEF Pages
<1> QED
  BY <1>2, <1>3

LEMMA EngineType ==
  ASSUME IInv, NEW c \in Client, Engine(c), OnceThere'
  PROVE  TypeOK'
<1>1. /\ jobs \in Seq(Job) /\ tickets \in Nat /\ wakeups \in [Id -> Nat]
      /\ page \in [Id -> [pos : Position \cup {Nothing}, val : Value \cup {Nothing}]]
      /\ cpc \in [Client -> {"none", "ready", "gone"} \cup Registering \cup Thinking]
      /\ cid \in [Client -> Id \cup {Nothing}]
      /\ idNext \in 0 .. Cardinality(Client)
  BY DEF IInv, TypeOK
<1>2. cpc[c] # "off" => cid[c] \in Id
  BY EnginePhase
<1>3. jobs' \in Seq(Job)
  <2>1. CASE jobs' = jobs
    BY <1>1, <2>1
  <2>2. CASE Register(c) \/ \E p \in Position : Ask(c, p)
    <3>1. \E x \in Job : jobs' = Append(jobs, x)
      <4>1. cid[c] \in Id
        BY <1>2, <2>2 DEF Register, Ask
      <4>2. \A t \in {"Register", "FeedForward"} : [type |-> t, id |-> cid[c]] \in Job
        BY <4>1 DEF Job
      <4> QED
        BY <2>2, <4>2 DEF Register, Ask, Enqueue
    <3> QED
      BY <1>1, <3>1, AppendIds
  <2>3. CASE \/ TakeId(c) \/ Post(c) \/ PickUp(c) \/ BestMove(c) \/ Exit(c)
             \/ Orphan(c)
    BY <2>1, <2>3 DEF TakeId, Post, PickUp, BestMove, Exit, Orphan, shared
  <2> QED
    BY <2>2, <2>3 DEF Engine
<1>4. Len(jobs') <= Cardinality(Client) + 1
  BY <1>3, TableFits DEF OnceThere
<1>5. tickets' \in Nat
  BY <1>1 DEF Engine, TakeId, Register, Post, PickUp, BestMove, Exit, Orphan, Ask,
     Announce, shared
<1>6. idNext' \in 0 .. Cardinality(Client) /\ cid' \in [Client -> Id \cup {Nothing}]
  <2>1. CASE TakeId(c)
    BY <1>1, <2>1, TakeIdInv DEF TakeId
  <2>2. CASE UNCHANGED <<idNext, cid>>
    BY <1>1, <2>2
  <2> QED
    BY <2>1, <2>2 DEF Engine, Register, Post, PickUp, BestMove, Exit, Orphan, Ask, shared
<1>7. wakeups' \in [Id -> Nat]
      /\ page' \in [Id -> [pos : Position \cup {Nothing}, val : Value \cup {Nothing}]]
  <2>1. CASE PickUp(c)
    <3>1. cid[c] \in Id /\ wakeups[cid[c]] > 0
      BY <1>2, <2>1 DEF PickUp, Woken
    <3>2. wakeups[cid[c]] - 1 \in Nat
      BY <1>1, <3>1
    <3> QED
      BY <1>1, <2>1, <3>1, <3>2 DEF PickUp, NoPage
  <2>2. CASE \E p \in Position : Ask(c, p)
    <3>1. PICK p \in Position : Ask(c, p)
      BY <2>2
    <3>2. page' = [page EXCEPT ![cid[c]].pos = p] /\ cid[c] \in Id
          /\ wakeups' = wakeups
      BY <1>2, <3>1 DEF Ask
    <3> QED
      BY <1>1, <3>2, PageType DEF Pages
  <2>3. CASE UNCHANGED <<wakeups, page>>
    BY <1>1, <2>3
  <2> QED
    BY <2>1, <2>2, <2>3 DEF Engine, TakeId, Register, Post, BestMove, Exit, Orphan,
       shared
<1>8. cpc' \in [Client -> {"none", "ready", "gone"} \cup Registering \cup Thinking]
  BY <1>1 DEF Engine, TakeId, Register, Post, PickUp, BestMove, Exit, Orphan, Ask,
     Registering, Thinking, Asking
<1> QED
  BY <1>3, <1>4, <1>5, <1>6, <1>7, <1>8, EngineKeeps DEF IInv, TypeOK

LEMMA ManagerType == ASSUME IInv, Manager, OnceThere' PROVE TypeOK'
<1>1. UNCHANGED <<idNext, wakeups, page, cid, spc, job, fn, pushq, waitq, pe, we, net>>
  BY ManagerKeeps
<1>2. /\ jobs \in Seq(Job) /\ tickets \in Nat /\ wid \in 1 .. MaxNet
      /\ cpc \in [Client -> {"none", "ready", "gone"} \cup Registering \cup Thinking]
      /\ MaxNet \in Nat
  BY NetAssumption DEF IInv, TypeOK, Network
<1>3. jobs' \in Seq(Job)
  <2>1. CASE NNReset \/ WaitNop \/ Destroy
    <3>1. \E x \in Job : jobs' = Append(jobs, x)
      BY <2>1 DEF NNReset, WaitNop, Destroy, Enqueue, Job
    <3> QED
      BY <1>2, <3>1, AppendIds
  <2>2. CASE jobs' = jobs
    BY <1>2, <2>2
  <2> QED
    BY <2>1, <2>2 DEF Manager, OwnerPost, OwnerWoken, InService, Update, Quit, SetQuit,
       EndNotify, Join, Go, shared
<1>4. Len(jobs') <= Cardinality(Client) + 1
  BY <1>3, TableFits DEF OnceThere
<1>5. tickets' \in Nat
  BY <1>2 DEF Manager, NNReset, WaitNop, OwnerPost, OwnerWoken, InService, Update, Quit,
     Destroy, SetQuit, EndNotify, Join, Go, Announce, shared
<1>6. cpc' \in [Client -> {"none", "ready", "gone"} \cup Registering \cup Thinking]
  BY <1>2 DEF Manager, NNReset, WaitNop, OwnerPost, OwnerWoken, InService, Update, Quit,
     Destroy, SetQuit, EndNotify, Join, Go, clients, Registering, Thinking
<1>7. wid' \in Network
  BY <1>2 DEF Manager, NNReset, WaitNop, OwnerPost, OwnerWoken, InService, Update, Quit,
     Destroy, SetQuit, EndNotify, Join, Go, owner, Network
<1>8. /\ opc' \in {"reset", "reset-post", "nop", "nop-post", "run", "quit", "end-post",
                   "end-flag", "end-notify", "join", "done", "dead"} \cup OwnerWaits
      /\ fname' \in Network \cup {Nothing} /\ flagSrv' \in BOOLEAN
      /\ flagQuit' \in BOOLEAN
  BY DEF IInv, TypeOK, OwnerWaits, Manager, NNReset, WaitNop, OwnerPost, OwnerWoken,
     AfterReset, InService, Update, Quit, Destroy, SetQuit, EndNotify, Join, Go, owner
<1>9. /\ ppc' \in {"test", "sleep", "push", "append", "notify", "stop", "dead"}
      /\ wpc' \in {"test", "sleep", "answer", "stop", "dead"}
  BY DEF IInv, TypeOK, Manager, NNReset, WaitNop, OwnerPost, OwnerWoken, InService,
     Update, Quit, Destroy, SetQuit, EndNotify, Join, Go, NotifyBoth, NotifyPush,
     NotifyWait, service, push, wait
<1> QED
  BY <1>1, <1>3, <1>4, <1>5, <1>6, <1>7, <1>8, <1>9 DEF IInv, TypeOK

LEMMA SrvType == ASSUME IInv, Srv, OnceThere' PROVE TypeOK'
<1>1. UNCHANGED <<page, cpc, cid, wid, fname, flagQuit, waitq, pe, we>>
  BY SrvKeeps
<1>2. /\ jobs \in Seq(Job) /\ tickets \in Nat /\ wakeups \in [Id -> Nat]
      /\ idNext \in 0 .. Cardinality(Client) /\ pushq \in Seq(Seq(Item))
      /\ job \in Job \cup {Nothing}
  BY DEF IInv, TypeOK
<1>3. jobs' \in Seq(Job) /\ tickets' \in Nat /\ job' \in Job \cup {Nothing}
  <2>1. CASE Take
    <3>1. jobs # <<>> /\ job' = Head(jobs) /\ jobs' = Tail(jobs) /\ tickets > 0
          /\ tickets' = tickets - 1
      BY <2>1 DEF Take
    <3>2. Head(jobs) \in Job /\ Tail(jobs) \in Seq(Job)
      BY <1>2, <3>1, TailIds
    <3> QED
      BY <1>2, <3>1, <3>2
  <2>2. CASE UNCHANGED <<jobs, tickets>> /\ job' \in {job, Nothing}
    BY <1>2, <2>2
  <2> QED
    BY <2>1, <2>2 DEF Srv, SrvRegister, SrvNop, SrvReset, SrvResetIds, SrvSignal, SrvLoad,
       SrvFeedForward, SrvNotify, SrvEnd, Die, shared
<1>4. Len(jobs') <= Cardinality(Client) + 1
  BY <1>3, TableFits DEF OnceThere
<1>5. wakeups' \in [Id -> Nat]
  <2>1. CASE SrvRegister
    <3>1. job.id \in Id
      BY <2>1, JobFacts DEF SrvRegister, Handling
    <3> QED
      BY <1>2, <2>1, <3>1 DEF SrvRegister, Wake
  <2>2. CASE wakeups' = wakeups
    BY <1>2, <2>2
  <2> QED
    BY <2>1, <2>2 DEF Srv, Take, SrvNop, SrvReset, SrvResetIds, SrvSignal, SrvLoad,
       SrvFeedForward, SrvNotify, SrvEnd, shared
<1>6. idNext' \in 0 .. Cardinality(Client)
  BY <1>2, ClientFacts DEF Srv, Take, SrvRegister, SrvNop, SrvReset, SrvResetIds,
     SrvSignal, SrvLoad, SrvFeedForward, SrvNotify, SrvEnd, shared
<1>7. pushq' \in Seq(Seq(Item))
  <2>1. CASE SrvFeedForward
    BY <2>1, FeedFacts
  <2>2. CASE pushq' = pushq
    BY <1>2, <2>2
  <2> QED
    BY <2>1, <2>2 DEF Srv, Take, SrvRegister, SrvNop, SrvReset, SrvResetIds, SrvSignal,
       SrvLoad, SrvNotify, SrvEnd
<1>8. /\ opc' \in {"dead", opc} /\ flagSrv' \in BOOLEAN
      /\ spc' \in {"take", "job", "notify", "stop", "dead"} \cup Resetting
      /\ ppc' \in {"test", "dead", ppc} /\ wpc' \in {"dead", wpc}
  BY DEF IInv, TypeOK, Srv, Take, SrvRegister, SrvNop, SrvReset, SrvResetIds, SrvSignal,
     SrvLoad, SrvFeedForward, SrvNotify, SrvEnd, Die, Signal, NotifyPush, Resetting,
     owner, push, wait
<1>9. fn' \in {fn, fname, Nothing} /\ net' \in {net, fn, Nothing}
  BY DEF Srv, Take, SrvRegister, SrvNop, SrvReset, SrvResetIds, SrvSignal, SrvLoad,
     SrvFeedForward, SrvNotify, SrvEnd, Die
<1>10. fn' \in Network \cup {Nothing} /\ net' \in Network \cup {Nothing}
  BY <1>9 DEF IInv, TypeOK
<1> QED
  BY <1>1, <1>3, <1>4, <1>5, <1>6, <1>7, <1>8, <1>10 DEF IInv, TypeOK

LEMMA NoBatchType == NoBatch \in Batch
BY DEF NoBatch, Batch

LEMMA PushType == ASSUME IInv, PushThread PROVE TypeOK'
<1>1. UNCHANGED <<jobs, tickets, idNext, wakeups, page, cpc, cid, opc, wid, fname,
                  flagSrv, flagQuit, spc, job, fn, net>>
  BY PushKeeps
<1>2. /\ pushq \in Seq(Seq(Item)) /\ waitq \in Seq(Batch) /\ pe \in Batch /\ we \in Batch
      /\ net \in Network \cup {Nothing}
  BY DEF IInv, TypeOK
<1>3. pushq' \in Seq(Seq(Item)) /\ pe' \in Batch
  <2>1. CASE PushTake
    <3>1. pushq # <<>> /\ pushq' = Tail(pushq)
          /\ pe' = [items |-> Head(pushq), net |-> Nothing]
      BY <2>1 DEF PushTake, MayPush, RestToPush
    <3>2. Head(pushq) \in Seq(Item) /\ Tail(pushq) \in Seq(Seq(Item))
      BY <1>2, <3>1, TailIds
    <3> QED
      BY <3>1, <3>2 DEF Batch
  <2>2. CASE PushRun
    BY <1>2, <2>2 DEF PushRun, Batch
  <2>3. CASE PushQuit \/ PushSleep \/ PushAppend \/ PushNotify
    BY <1>2, <2>3, NoBatchType DEF PushQuit, PushSleep, PushAppend, PushNotify
  <2> QED
    BY <2>1, <2>2, <2>3 DEF PushThread
<1>4. waitq' \in Seq(Batch) /\ we' \in Batch
  <2>1. CASE PushAppend
    <3>1. waitq' = Append(waitq, pe) /\ we' = we
      BY <2>1 DEF PushAppend, wait
    <3> QED
      BY <1>2, <3>1, AppendIds
  <2>2. CASE UNCHANGED <<waitq, we>>
    BY <1>2, <2>2
  <2> QED
    BY <2>1, <2>2 DEF PushThread, PushQuit, PushTake, PushSleep, PushRun, PushNotify, wait
<1>5. /\ ppc' \in {"test", "sleep", "push", "append", "notify", "stop", "dead"}
      /\ wpc' \in {"test", wpc}
  BY DEF PushThread, PushQuit, PushTake, PushSleep, PushRun, PushAppend, PushNotify,
     NotifyWait, wait
<1> QED
  BY <1>1, <1>3, <1>4, <1>5 DEF IInv, TypeOK

LEMMA WaitType == ASSUME IInv, WaitThread PROVE TypeOK'
<1>1. UNCHANGED <<jobs, tickets, idNext, cpc, cid, opc, wid, fname, flagSrv, flagQuit,
                  spc, job, fn, pushq, pe, net>>
  BY WaitKeeps
<1>2. /\ waitq \in Seq(Batch) /\ we \in Batch /\ wakeups \in [Id -> Nat]
      /\ page \in [Id -> [pos : Position \cup {Nothing}, val : Value \cup {Nothing}]]
  BY DEF IInv, TypeOK
<1>3. waitq' \in Seq(Batch) /\ we' \in Batch
  <2>1. CASE WaitTake
    <3>1. waitq # <<>> /\ waitq' = Tail(waitq) /\ we' = Head(waitq)
      BY <2>1 DEF WaitTake
    <3> QED
      BY <1>2, <3>1, TailIds
  <2>2. CASE WaitAnswer
    <3>1. /\ we' = [we EXCEPT !.items = Tail(@)] /\ we.items \in Seq(Item)
          /\ we.items # <<>> /\ waitq' = waitq
      BY <2>2, AnswerFacts DEF WaitAnswer
    <3>2. Tail(we.items) \in Seq(Item)
      BY <3>1, TailIds
    <3> QED
      BY <1>2, <3>1, <3>2 DEF Batch
  <2>3. CASE WaitQuit \/ WaitSleep \/ WaitDone
    BY <1>2, <2>3, NoBatchType DEF WaitQuit, WaitSleep, WaitDone
  <2> QED
    BY <2>1, <2>2, <2>3 DEF WaitThread
<1>4. /\ wakeups' \in [Id -> Nat]
      /\ page' \in [Id -> [pos : Position \cup {Nothing}, val : Value \cup {Nothing}]]
  <2>1. CASE WaitAnswer
    <3>1. Result \in Value /\ Head(we.items).id \in Id
      BY <2>1, AnswerFacts
    <3>2. /\ page' = [page EXCEPT ![Head(we.items).id].val = Result]
          /\ wakeups' = [wakeups EXCEPT ![Head(we.items).id] = @ + 1]
      BY <2>1 DEF WaitAnswer, Wake
    <3>3. wakeups' \in [Id -> Nat]
      BY <1>2, <3>1, <3>2
    <3>4. page' \in Pages
      BY <1>2, <3>1, <3>2, PageType DEF Pages
    <3> QED
      BY <3>3, <3>4 DEF Pages
  <2>2. CASE UNCHANGED <<wakeups, page>>
    BY <1>2, <2>2
  <2> QED
    BY <2>1, <2>2 DEF WaitThread, WaitQuit, WaitTake, WaitSleep, WaitDone, shared
<1>5. /\ wpc' \in {"test", "sleep", "answer", "stop", "dead"} /\ ppc' \in {"test", ppc}
  BY DEF IInv, TypeOK, WaitThread, WaitQuit, WaitTake, WaitSleep, WaitAnswer, WaitDone,
     NotifyPush, push
<1> QED
  BY <1>1, <1>3, <1>4, <1>5 DEF IInv, TypeOK

LEMMA TypeStep == ASSUME IInv, [Next]_vars, OnceThere' PROVE TypeOK'
<1>1. CASE ManagerDies
  BY <1>1 DEF IInv, TypeOK, ManagerDies, Die, shared, clients
<1>2. CASE Spurious
  <2>1. ppc' \in {"test", ppc} /\ wpc' \in {"test", wpc}
    BY <1>2 DEF Spurious
  <2> QED
    BY <1>2, <2>1, SpuriousKeeps DEF IInv, TypeOK
<1>3. CASE UNCHANGED vars
  BY <1>3 DEF vars, shared, clients, owner, service, srv, push, wait, IInv, TypeOK
<1> QED
  BY <1>1, <1>2, <1>3, EngineType, ManagerType, SrvType, PushType, WaitType DEF Next

-----------------------------------------------------------------------------

LEMMA InitInv == Init => IInv
<1> SUFFICES ASSUME Init PROVE IInv
  OBVIOUS
<1>1. /\ jobs = <<>> /\ pushq = <<>> /\ waitq = <<>> /\ pe = NoBatch /\ we = NoBatch
      /\ pe.items = <<>> /\ we.items = <<>> /\ tickets = 0 /\ idNext = 0
      /\ wakeups = [i \in Id |-> 0] /\ page = [i \in Id |-> NoPage]
      /\ cpc = [c \in Client |-> "none"] /\ cid = [c \in Client |-> Nothing]
      /\ opc = "reset" /\ spc = "take" /\ flagSrv = FALSE /\ ppc = "test"
      /\ wpc = "test"
  BY DEF Init, NoBatch
<1>2. /\ Len(jobs) = 0 /\ WaitItems = <<>>
      /\ \A c \in Client : cpc[c] = "none" /\ cid[c] = Nothing
      /\ \A i \in Id : wakeups[i] = 0
  BY <1>1 DEF WaitItems
<1>3. TypeOK
  <2>1. /\ <<>> \in Seq(Job) /\ <<>> \in Seq(Seq(Item)) /\ <<>> \in Seq(Batch)
    OBVIOUS
  <2>2. wid \in Network /\ 0 \in 0 .. Cardinality(Client)
        /\ 0 <= Cardinality(Client) + 1
    BY NetAssumption, ClientFacts DEF Init, Network
  <2>3. NoPage \in [pos : Position \cup {Nothing}, val : Value \cup {Nothing}]
    BY DEF NoPage
  <2>4. /\ jobs \in Seq(Job) /\ Len(jobs) <= Cardinality(Client) + 1
        /\ tickets \in Nat /\ idNext \in 0 .. Cardinality(Client)
        /\ pushq \in Seq(Seq(Item)) /\ waitq \in Seq(Batch)
        /\ pe \in Batch /\ we \in Batch
    BY <1>1, <1>2, <2>1, <2>2, NoBatchType
  <2>5. /\ wakeups \in [Id -> Nat]
        /\ page \in [Id -> [pos : Position \cup {Nothing}, val : Value \cup {Nothing}]]
    BY <1>1, <2>3
  <2>6. /\ cpc \in [Client -> {"none", "ready", "gone"} \cup Registering \cup Thinking]
        /\ cid \in [Client -> Id \cup {Nothing}]
    BY <1>1
  <2>7. /\ wid \in Network /\ fname \in Network \cup {Nothing}
        /\ flagSrv \in BOOLEAN /\ flagQuit \in BOOLEAN
        /\ job \in Job \cup {Nothing} /\ fn \in Network \cup {Nothing}
        /\ net \in Network \cup {Nothing}
    BY <2>2 DEF Init
  <2>8. /\ opc \in {"reset", "reset-post", "nop", "nop-post", "run", "quit",
                    "end-post", "end-flag", "end-notify", "join", "done", "dead"}
                   \cup OwnerWaits
        /\ spc \in {"take", "job", "notify", "stop", "dead"} \cup Resetting
        /\ ppc \in {"test", "sleep", "push", "append", "notify", "stop", "dead"}
        /\ wpc \in {"test", "sleep", "answer", "stop", "dead"}
    BY <1>1
  <2> QED
    BY <2>4, <2>5, <2>6, <2>7, <2>8 DEF TypeOK
<1>4. MgrInv
  BY <1>1, <1>2 DEF MgrInv, ResetInv, NopInv, RunInv, EndInv, PhaseInv, Idle, NewNet,
     Ending
<1>5. IdInv
  <2>1. {c \in Client : cid[c] # Nothing} = {}
    BY <1>2
  <2> QED
    BY <1>1, <1>2, <2>1, FS_EmptySet DEF IdInv, UniqueIds, Unborn
<1>6. Ids(jobs) = {} /\ HandIds = {} /\ BatchIds = {} /\ WokenIds = {} /\ Places = {}
  <2>1. /\ Ids(jobs) = {} /\ QIds(pushq) = {} /\ Ids(pe.items) = {}
        /\ QIds(WaitItems) = {} /\ Ids(we.items) = {}
    BY <1>1, <1>2, EmptyIds
  <2>2. HandIds = {} /\ WokenIds = {}
    BY <1>1, <1>2 DEF HandIds, WokenIds
  <2> QED
    BY <2>1, <2>2 DEF BatchIds, Places
<1>7. OnePlace
  BY <1>6 DEF OnePlace, BatchIds
<1>8. OnceThere
  BY <1>1, <1>2, EmptyIds DEF OnceThere
<1>9. PlaceInv
  BY <1>2, <1>6 DEF PlaceInv, Waiting, Asking
<1>10. GoodInv
  <2>1. JobsThere = {} /\ ItemsThere = {}
    BY <1>1, <1>2 DEF JobsThere, ItemsThere, Range, QRange
  <2> QED
    BY <2>1 DEF GoodInv
<1>11. PageInv
  BY <1>2 DEF PageInv, Asking
<1>12. BatchInv
  BY <1>1 DEF BatchInv, BatchesFit
<1>13. TicketInv
  <2>1. Unannounced = 0
    <3>1. {c \in Client : cpc[c] \in {"reg", "ask"}} = {}
      BY <1>2
    <3>2. Cardinality({c \in Client : cpc[c] \in {"reg", "ask"}}) = 0
      BY <3>1, FS_EmptySet
    <3> QED
      BY <1>1, <3>2 DEF Unannounced
  <2> QED
    BY <1>1, <1>2, <2>1 DEF TicketInv
<1> QED
  BY <1>3, <1>4, <1>5, <1>7, <1>8, <1>9, <1>10, <1>11, <1>12, <1>13 DEF IInv

LEMMA NextInv == ASSUME IInv, [Next]_vars, EnginesFirst PROVE IInv'
<1>1. MgrInv'
  BY MgrStep
<1>2. ReqInv'
  BY <1>1, ReqStep
<1>3. TypeOK' /\ IdInv' /\ BatchInv' /\ TicketInv'
  BY <1>2, TypeStep, IdStep, BatchStep, TicketStep DEF ReqInv
<1> QED
  BY <1>1, <1>2, <1>3 DEF IInv, ReqInv

LEMMA Invariance == ASSUME EnginesFirst PROVE Spec => []IInv
<1>1. IInv /\ [Next]_vars => IInv'
  BY NextInv
<1> QED
  BY <1>1, InitInv, PTL DEF Spec

-----------------------------------------------------------------------------

(* Every job in the table is announced once, or its sender is about to: the *)
(* semaphore counts what pop_front() may take, whatever the engines and the *)
(* manager interleave.                                                      *)
THEOREM JobsAnnounced == ASSUME EnginesFirst PROVE Spec => []TicketsMatch
<1>1. IInv => TicketsMatch
  BY DEF IInv, TicketInv, TicketsMatch
<1> QED
  BY <1>1, Invariance, PTL

(* When nnreset() and wait() have returned the network asked for is in      *)
(* service, and while it is replaced no batch is anywhere, not even in the  *)
(* hands of the threads, which worker_srv() does not look at.               *)
THEOREM NoBatchOnOldNet == ASSUME EnginesFirst PROVE Spec => []NewNetInService
<1>1. ASSUME IInv PROVE NewNetInService
  <2>1. opc = "run" => net = wid
    BY <1>1 DEF IInv, MgrInv, RunInv
  <2>2. ASSUME spc \in Resetting
        PROVE  pushq = <<>> /\ waitq = <<>> /\ pe.items = <<>> /\ we.items = <<>>
    <3>1. opc # "dead" /\ \A c \in Client : cpc[c] \notin Waiting
      BY <1>1, <2>2, ResetPhase DEF NewNet, Waiting, Asking
    <3> QED
      BY <1>1, <3>1, NothingOpen
  <2> QED
    BY <2>1, <2>2 DEF NewNetInService
<1> QED
  BY <1>1, Invariance, PTL

(* The errors worker_srv() calls internal, batches that wait at a NNReset or *)
(* jobs behind it, do not happen, whether or not the process is killed.      *)
THEOREM NoErrorInService == ASSUME EnginesFirst PROVE Spec => []ResetUndisturbed
<1>1. ASSUME IInv PROVE ResetUndisturbed
  <2>1. ASSUME Handling("NNReset") PROVE pushq = <<>> /\ waitq = <<>>
    <3>1. opc = "reset-wait"
      BY <1>1, <2>1, JobFacts DEF Handling
    <3>2. \A c \in Client : cpc[c] \notin Waiting
      BY <1>1, <3>1 DEF IInv, MgrInv, PhaseInv, NewNet, Waiting, Asking
    <3> QED
      BY <1>1, <3>1, <3>2, NothingOpen
  <2>2. ASSUME spc = "ids" PROVE jobs = <<>>
    <3>1. opc = "reset-wait"
      BY <1>1, <2>2, ResetPhase DEF Resetting
    <3> QED
      BY <1>1, <2>2, <3>1 DEF IInv, MgrInv, ResetInv, Idle
  <2> QED
    BY <2>1, <2>2 DEF ResetUndisturbed
<1> QED
  BY <1>1, Invariance, PTL

-----------------------------------------------------------------------------
(* Requests are counted. *)

LEMMA CountBatch ==
  ASSUME NEW b, NEW i, Distinct(b)
  PROVE  InBatch(b, i) = IF i \in Ids(b) THEN 1 ELSE 0
<1> DEFINE S == {k \in DOMAIN b : b[k].id = i}
<1>1. CASE i \in Ids(b)
  <2>1. PICK k \in DOMAIN b : b[k].id = i
    BY <1>1 DEF Ids
  <2>2. S = {k}
    BY <2>1 DEF Distinct
  <2> QED
    BY <1>1, <2>2, FS_Singleton DEF InBatch
<1>2. CASE i \notin Ids(b)
  <2>1. S = {}
    BY <1>2 DEF Ids
  <2> QED
    BY <1>2, <2>1, FS_EmptySet DEF InBatch
<1> QED
  BY <1>1, <1>2

LEMMA CountQueue ==
  ASSUME NEW q, NEW i, QDistinct(q), \A b \in DOMAIN q : DOMAIN q[b] \subseteq 1 .. SizeBatch
  PROVE  InQueue(q, i) = IF i \in QIds(q) THEN 1 ELSE 0
<1> DEFINE S == {p \in (DOMAIN q) \X (1 .. SizeBatch) :
                   p[2] \in DOMAIN q[p[1]] /\ q[p[1]][p[2]].id = i}
<1>1. CASE i \in QIds(q)
  <2>1. PICK b \in DOMAIN q : i \in Ids(q[b])
    BY <1>1 DEF QIds
  <2>2. PICK k \in DOMAIN q[b] : q[b][k].id = i
    BY <2>1 DEF Ids
  <2>3. <<b, k>> \in S
    BY <2>1, <2>2
  <2>4. ASSUME NEW p \in S PROVE p = <<b, k>>
    <3>1. /\ p[1] \in DOMAIN q /\ p[2] \in DOMAIN q[p[1]] /\ q[p[1]][p[2]].id = i
          /\ p = <<p[1], p[2]>>
      BY <2>4
    <3>2. i \in Ids(q[p[1]])
      BY <3>1 DEF Ids
    <3>3. p[1] = b
      BY <2>1, <3>1, <3>2 DEF QDistinct
    <3>4. p[2] = k
      BY <2>1, <2>2, <3>1, <3>3 DEF QDistinct, Distinct
    <3> QED
      BY <3>1, <3>3, <3>4
  <2>5. S = {<<b, k>>}
    BY <2>3, <2>4
  <2> QED
    BY <1>1, <2>5, FS_Singleton DEF InQueue
<1>2. CASE i \notin QIds(q)
  <2>1. ASSUME NEW p \in S PROVE FALSE
    <3>1. p[1] \in DOMAIN q /\ i \in Ids(q[p[1]])
      BY <2>1 DEF Ids
    <3> QED
      BY <1>2, <3>1 DEF QIds
  <2>2. S = {}
    BY <2>1
  <2> QED
    BY <1>2, <2>2, FS_EmptySet DEF InQueue
<1> QED
  BY <1>1, <1>2

(* While an engine waits for the service its request is in exactly one      *)
(* place on the way from the table to its semaphore, otherwise in none, and *)
(* batches keep to their buffers.                                           *)
THEOREM OneRequestEach == ASSUME EnginesFirst PROVE Spec => []RequestOnce
<1>1. ASSUME IInv PROVE RequestOnce
  <2>1. BatchesFit
    BY <1>1 DEF IInv, BatchInv
  <2>2. ASSUME opc # "dead", NEW c \in Client, cpc[c] \notin {"none", "off"}
        PROVE  Requests(cid[c]) =
                 IF cpc[c] \in {"reg", "reg-wait"} \cup Asking THEN 1 ELSE 0
    <3>1. PICK i \in Id : i = cid[c]
      BY <1>1, <2>2 DEF IInv, TypeOK, IdInv, Unborn
    <3>2. i \in Places <=> cpc[c] \in Waiting
      BY <1>1, <2>2, <3>1 DEF IInv, PlaceInv, Owes
    <3>3. /\ InBatch(jobs, i) = IF i \in Ids(jobs) THEN 1 ELSE 0
          /\ InBatch(pe.items, i) = IF i \in Ids(pe.items) THEN 1 ELSE 0
          /\ InBatch(we.items, i) = IF i \in Ids(we.items) THEN 1 ELSE 0
      BY <1>1, CountBatch DEF IInv, OnceThere
    <3>4. InQueue(pushq, i) = IF i \in QIds(pushq) THEN 1 ELSE 0
      <4>1. ASSUME NEW b \in DOMAIN pushq PROVE DOMAIN pushq[b] \subseteq 1 .. SizeBatch
        <5>1. pushq[b] \in Seq(Item) /\ Len(pushq[b]) \in 1 .. SizeBatch
          BY <1>1, <2>1, <4>1, LenProperties, ElementOfSeq
             DEF IInv, TypeOK, BatchesFit
        <5>2. DOMAIN pushq[b] = 1 .. Len(pushq[b]) /\ SizeBatch \in Nat
          BY <5>1, LenProperties, BatchAssumption
        <5> QED
          BY <5>1, <5>2
      <4>2. QDistinct(pushq)
        BY <1>1 DEF IInv, OnceThere
      <4> QED
        BY <4>1, <4>2, CountQueue
    <3>5. InQueue(WaitItems, i) = IF i \in QIds(WaitItems) THEN 1 ELSE 0
      <4>1. ASSUME NEW b \in DOMAIN WaitItems
            PROVE  DOMAIN WaitItems[b] \subseteq 1 .. SizeBatch
        <5>1. b \in DOMAIN waitq /\ WaitItems[b] = waitq[b].items
          BY <4>1 DEF WaitItems
        <5>2. waitq[b] \in Batch
          BY <1>1, <5>1, LenProperties, ElementOfSeq DEF IInv, TypeOK
        <5>3. WaitItems[b] \in Seq(Item) /\ Len(WaitItems[b]) \in 1 .. SizeBatch
          BY <2>1, <5>1, <5>2 DEF BatchesFit, Batch
        <5>4. DOMAIN WaitItems[b] = 1 .. Len(WaitItems[b]) /\ SizeBatch \in Nat
          BY <5>3, LenProperties, BatchAssumption
        <5> QED
          BY <5>3, <5>4
      <4>2. QDistinct(WaitItems)
        BY <1>1 DEF IInv, OnceThere
      <4> QED
        BY <4>1, <4>2, CountQueue
    <3>6. /\ wakeups[i] = IF i \in WokenIds THEN 1 ELSE 0
          /\ (IF spc = "job" /\ job.id = i THEN 1 ELSE 0)
               = (IF i \in HandIds THEN 1 ELSE 0)
      BY <1>1 DEF IInv, TypeOK, OnceThere, WokenIds, HandIds
    <3>7. Requests(i) = IF i \in Places THEN 1 ELSE 0
      <4>1. CASE i \in Ids(jobs)
        BY <1>1, <3>3, <3>4, <3>5, <3>6, <4>1
           DEF IInv, OnePlace, Requests, Places, BatchIds
      <4>2. CASE i \in HandIds
        BY <1>1, <3>3, <3>4, <3>5, <3>6, <4>2
           DEF IInv, OnePlace, Requests, Places, BatchIds
      <4>3. CASE i \in QIds(pushq)
        BY <1>1, <3>3, <3>4, <3>5, <3>6, <4>3
           DEF IInv, OnePlace, Requests, Places, BatchIds
      <4>4. CASE i \in Ids(pe.items)
        BY <1>1, <3>3, <3>4, <3>5, <3>6, <4>4
           DEF IInv, OnePlace, Requests, Places, BatchIds
      <4>5. CASE i \in QIds(WaitItems)
        BY <1>1, <3>3, <3>4, <3>5, <3>6, <4>5
           DEF IInv, OnePlace, Requests, Places, BatchIds
      <4>6. CASE i \in Ids(we.items)
        BY <1>1, <3>3, <3>4, <3>5, <3>6, <4>6
           DEF IInv, OnePlace, Requests, Places, BatchIds
      <4>7. CASE i \in WokenIds
        BY <1>1, <3>3, <3>4, <3>5, <3>6, <4>7
           DEF IInv, OnePlace, Requests, Places, BatchIds
      <4>8. CASE i \notin Places
        BY <3>3, <3>4, <3>5, <3>6, <4>8 DEF Requests, Places, BatchIds
      <4> QED
        BY <4>1, <4>2, <4>3, <4>4, <4>5, <4>6, <4>7, <4>8 DEF Places, BatchIds
    <3> QED
      BY <3>1, <3>2, <3>7 DEF Waiting
  <2> QED
    BY <2>1, <2>2 DEF RequestOnce
<1> QED
  BY <1>1, Invariance, PTL

-----------------------------------------------------------------------------
(* The service implements NNEval. *)

Questions == [c \in Client |-> Question(c)]
Answers   == [c \in Client |-> Answered(c)]

LEMMA SameQuestion ==
  ASSUME NEW c \in Client, cpc'[c] \in Asking <=> cpc[c] \in Asking,
         cpc[c] \in Asking =>
           /\ cid'[c] = cid[c] /\ page'[cid[c]] = page[cid[c]]
           /\ wakeups'[cid[c]] = wakeups[cid[c]]
  PROVE  Question(c)' = Question(c) /\ Answered(c)' = Answered(c)
BY DEF Question, Answered

LEMMA Unasked ==
  /\ (\A c \in Client : Question(c)' = Question(c)) => Questions' = Questions
  /\ (\A c \in Client : Answered(c)' = Answered(c)) => Answers' = Answers
BY DEF Questions, Answers

(* An engine that waits for a value has an id of its own. *)
LEMMA AskingIds ==
  ASSUME IInv, NEW c \in Client, cpc[c] \in Asking
  PROVE  /\ cid[c] \in Id /\ \A d \in Client : d # c => cid[d] # cid[c]
         /\ page[cid[c]].pos \in Position
         /\ wakeups[cid[c]] > 0 => page[cid[c]].val \in Value
<1>1. cid[c] \in Id
  BY DEF IInv, TypeOK, IdInv, Unborn, Asking
<1> QED
  BY <1>1, OtherIds DEF IInv, PageInv

Alive == opc # "dead"

EvalStep == Eval!Next \/ UNCHANGED <<Alive, net, Questions, Answers>>

LEMMA EvalFrame ==
  ASSUME UNCHANGED <<cpc, cid, page, wakeups>>
  PROVE  Questions' = Questions /\ Answers' = Answers
BY SameQuestion, Unasked

LEMMA EngineEval == ASSUME IInv, NEW c \in Client, Engine(c) PROVE EvalStep
<1>1. UNCHANGED <<opc, net>>
  BY EngineKeeps
<1>2. /\ page \in Pages /\ wakeups \in [Id -> Nat]
      /\ cpc \in [Client -> {"none", "ready", "gone"} \cup Registering \cup Thinking]
      /\ cid \in [Client -> Id \cup {Nothing}]
  BY DEF IInv, TypeOK, Pages
<1>3. cpc[c] # "off" => cid[c] \in Id /\ \A d \in Client : d # c => cid[d] # cid[c]
  BY EnginePhase, OtherIds
<1>4. ASSUME NEW d \in Client, d # c
      PROVE  Question(d)' = Question(d) /\ Answered(d)' = Answered(d)
  <2>1. cpc'[d] = cpc[d] /\ cid'[d] = cid[d]
    BY <1>2, <1>4 DEF Engine, TakeId, Register, Post, PickUp, BestMove, Exit, Orphan, Ask
  <2>2. ASSUME cpc[d] \in Asking
        PROVE  page'[cid[d]] = page[cid[d]] /\ wakeups'[cid[d]] = wakeups[cid[d]]
    <3>1. cid[d] \in Id /\ cid[c] # cid[d]
      BY <1>4, <2>2, AskingIds
    <3>2. CASE \E p \in Position : Ask(c, p)
      BY <1>2, <3>1, <3>2 DEF Ask, Pages
    <3>3. CASE PickUp(c)
      BY <1>2, <3>1, <3>3 DEF PickUp, Pages
    <3>4. CASE UNCHANGED <<page, wakeups>>
      BY <3>4
    <3> QED
      BY <3>2, <3>3, <3>4 DEF Engine, TakeId, Register, Post, BestMove, Exit, Orphan,
         shared
  <2> QED
    BY <2>1, <2>2, SameQuestion
<1>5. CASE /\ cpc'[c] \in Asking <=> cpc[c] \in Asking
           /\ cpc[c] \in Asking => UNCHANGED <<page, wakeups, cid>>
  <2>1. Question(c)' = Question(c) /\ Answered(c)' = Answered(c)
    BY <1>5, SameQuestion
  <2>2. \A d \in Client : Question(d)' = Question(d) /\ Answered(d)' = Answered(d)
    BY <1>4, <2>1
  <2> QED
    BY <1>1, <2>2, Unasked DEF EvalStep, Alive
<1>6. CASE TakeId(c) \/ Register(c) \/ BestMove(c) \/ Exit(c)
  BY <1>2, <1>5, <1>6 DEF TakeId, Register, BestMove, Exit, Asking
<1>7. CASE Post(c)
  BY <1>2, <1>5, <1>7 DEF Post, Asking
<1>8. CASE \E p \in Position : Ask(c, p)
  <2>1. PICK p \in Position : Ask(c, p)
    BY <1>8
  <2>2. /\ cpc[c] = "think" /\ cpc'[c] = "ask" /\ cid'[c] = cid[c] /\ cid[c] \in Id
        /\ page' = [page EXCEPT ![cid[c]].pos = p] /\ wakeups' = wakeups
    BY <1>2, <1>3, <2>1 DEF Ask
  <2>3. wakeups[cid[c]] = 0
    <3>1. cid[c] \notin Places
      BY <2>2 DEF IInv, PlaceInv, Owes, Waiting, Asking
    <3> QED
      BY <1>2, <2>2, <3>1 DEF Places, WokenIds
  <2>4. Question(c) = Nothing /\ Answered(c) = Nothing /\ Answered(c)' = Nothing
    BY <2>2, <2>3 DEF Question, Answered, Asking
  <2>5. Question(c)' = p
    BY <1>2, <2>2 DEF Question, Asking, Pages
  <2>6. Questions' = [Questions EXCEPT ![c] = p] /\ Questions[c] = Nothing
    BY <1>4, <2>4, <2>5 DEF Questions
  <2>7. Answers' = Answers
    BY <1>4, <2>4, Unasked
  <2>8. Eval!Ask(c, p)
    BY <1>1, <2>6, <2>7 DEF Eval!Ask, Questions, Answers
  <2> QED
    BY <2>8 DEF EvalStep, Eval!Next
<1>9. CASE PickUp(c)
  <2>1. CASE cpc[c] = "reg-wait"
    BY <1>2, <1>5, <1>9, <2>1 DEF PickUp, Asking
  <2>2. CASE cpc[c] = "ask-wait"
    <3>1. cpc'[c] = "think" /\ wakeups[cid[c]] > 0
      BY <1>2, <1>9, <2>2 DEF PickUp, Woken
    <3>2. Answered(c) # Nothing
      <4>1. page[cid[c]].val \in Value
        BY <2>2, <3>1, AskingIds DEF Asking
      <4> QED
        BY <2>2, <3>1, <4>1, NothingAssumption DEF Answered, Asking
    <3>3. Question(c)' = Nothing /\ Answered(c)' = Nothing
      BY <3>1 DEF Question, Answered, Asking
    <3>4. /\ Questions' = [Questions EXCEPT ![c] = Nothing]
          /\ Answers' = [Answers EXCEPT ![c] = Nothing] /\ Answers[c] # Nothing
      BY <1>4, <3>2, <3>3 DEF Questions, Answers
    <3>5. Eval!PickUp(c)
      BY <1>1, <3>4 DEF Eval!PickUp, Questions, Answers
    <3> QED
      BY <3>5 DEF EvalStep, Eval!Next
  <2> QED
    BY <1>9, <2>1, <2>2 DEF PickUp
<1>10. CASE Orphan(c)
  <2>1. opc = "dead" /\ cpc'[c] = "gone"
    BY <1>2, <1>10 DEF Orphan, NoParent
  <2>2. Question(c)' = Nothing /\ Answered(c)' = Nothing
    BY <2>1 DEF Question, Answered, Asking
  <2>3. /\ Questions' = [Questions EXCEPT ![c] = Nothing]
        /\ Answers' = [Answers EXCEPT ![c] = Nothing]
    BY <1>4, <2>2 DEF Questions, Answers
  <2>4. Eval!GiveUp(c)
    BY <1>1, <2>1, <2>3 DEF Eval!GiveUp, Questions, Answers
  <2> QED
    BY <2>4 DEF EvalStep, Eval!Next
<1> QED
  BY <1>6, <1>7, <1>8, <1>9, <1>10 DEF Engine

LEMMA ManagerEval == ASSUME IInv, Manager PROVE EvalStep
<1>1. UNCHANGED <<wakeups, page, cid, net>> /\ opc # "dead" /\ opc' # "dead"
  BY ManagerKeeps DEF Manager, NNReset, WaitNop, OwnerPost, OwnerWoken, AfterReset,
     InService, Update, Quit, Destroy, SetQuit, EndNotify, Join, Go, owner
<1>2. \A c \in Client : cpc'[c] \in Asking <=> cpc[c] \in Asking
  <2>1. cpc \in [Client -> {"none", "ready", "gone"} \cup Registering \cup Thinking]
    BY DEF IInv, TypeOK
  <2> QED
    BY <2>1 DEF Manager, NNReset, WaitNop, OwnerPost, OwnerWoken, InService, Update,
       Quit, Destroy, SetQuit, EndNotify, Join, Go, Asking, clients
<1>3. Questions' = Questions /\ Answers' = Answers
  BY <1>1, <1>2, SameQuestion, Unasked
<1>4. Alive' = Alive
  BY <1>1 DEF Alive
<1> QED
  BY <1>1, <1>3, <1>4 DEF EvalStep

LEMMA DiesEval ==
  ASSUME opc' = "dead", UNCHANGED <<cpc, cid, page, wakeups, net>>
  PROVE  EvalStep
<1>1. Questions' = Questions /\ Answers' = Answers
  BY EvalFrame
<1>2. Eval!Die
  BY <1>1 DEF Eval!Die, Questions, Answers
<1> QED
  BY <1>2 DEF EvalStep, Eval!Next

(* No question is open while the network goes and comes. *)
LEMMA ReplaceEval ==
  ASSUME opc # "dead", net' \in Network \cup {Nothing},
         \/ \A c \in Client : cpc[c] = "none"
         \/ \A c \in Client : cpc[c] = "ready",
         UNCHANGED <<opc, cpc, cid, page, wakeups>>
  PROVE  EvalStep
<1>1. Questions' = Questions /\ Answers' = Answers
  BY EvalFrame
<1>2. \A c \in Client : Questions[c] = Nothing
  BY DEF Questions, Question, Asking
<1>3. PICK n \in Network \cup {Nothing} : net' = n
  OBVIOUS
<1>4. Eval!Replace(n)
  BY <1>1, <1>2, <1>3 DEF Eval!Replace, Questions, Answers
<1> QED
  BY <1>4 DEF EvalStep, Eval!Next

LEMMA SrvEval == ASSUME IInv, Srv, TypeOK' PROVE EvalStep
<1>1. UNCHANGED <<page, cpc, cid>> /\ net' \in Network \cup {Nothing}
  BY SrvKeeps DEF TypeOK
<1>2. CASE SrvRegister
  <2>1. /\ spc = "job" /\ job.type = "Register" /\ job.id \in Id
        /\ wakeups' = [wakeups EXCEPT ![job.id] = @ + 1] /\ UNCHANGED <<opc, net>>
    BY <1>2, JobFacts DEF SrvRegister, Handling, Wake, owner
  <2>2. ASSUME NEW c \in Client, cpc[c] \in Asking
        PROVE  wakeups'[cid[c]] = wakeups[cid[c]]
    <3>1. cid[c] # job.id
      BY <2>1, <2>2 DEF IInv, GoodInv, JobsThere, GoodJob, Asking
    <3>2. cid[c] \in Id /\ wakeups \in [Id -> Nat]
      BY <2>2, AskingIds DEF IInv, TypeOK
    <3> QED
      BY <2>1, <3>1, <3>2
  <2>3. Questions' = Questions /\ Answers' = Answers
    BY <1>1, <2>2, SameQuestion, Unasked
  <2> QED
    BY <2>1, <2>3 DEF EvalStep, Alive
<1>3. CASE SrvReset
  <2>1. opc = "reset-wait" /\ UNCHANGED wakeups
    BY <1>3, JobFacts DEF SrvReset, Handling, shared
  <2>2. \/ \A c \in Client : cpc[c] = "none"
        \/ \A c \in Client : cpc[c] = "ready"
    BY <2>1 DEF IInv, MgrInv, PhaseInv, NewNet
  <2>3. CASE pushq # <<>> \/ waitq # <<>>
    BY <1>1, <1>3, <2>1, <2>3, DiesEval DEF SrvReset, Die
  <2>4. CASE ~(pushq # <<>> \/ waitq # <<>>)
    <3>1. opc' = opc
      BY <1>3, <2>4 DEF SrvReset, owner
    <3> QED
      BY <1>1, <2>1, <2>2, <3>1, ReplaceEval
  <2> QED
    BY <2>3, <2>4
<1>4. CASE SrvLoad
  <2>1. spc \in Resetting /\ UNCHANGED <<opc, wakeups>>
    BY <1>4 DEF SrvLoad, Resetting, owner, shared
  <2> QED
    BY <1>1, <2>1, ResetPhase, ReplaceEval DEF NewNet
<1>5. CASE SrvResetIds
  <2>1. CASE opc' = "dead"
    BY <1>1, <1>5, <2>1, DiesEval DEF SrvResetIds
  <2>2. CASE opc' # "dead"
    <3>1. UNCHANGED <<opc, net, wakeups>>
      BY <1>5, <2>2 DEF SrvResetIds, Die, owner
    <3> QED
      BY <1>1, <3>1, EvalFrame DEF EvalStep, Alive
  <2> QED
    BY <2>1, <2>2
<1>6. CASE Take \/ SrvNop \/ SrvSignal \/ SrvFeedForward \/ SrvNotify \/ SrvEnd
  <2>1. UNCHANGED <<opc, net, wakeups>>
    BY <1>6 DEF Take, SrvNop, SrvSignal, SrvFeedForward, SrvNotify, SrvEnd, owner, shared
  <2> QED
    BY <1>1, <2>1, EvalFrame DEF EvalStep, Alive
<1> QED
  BY <1>2, <1>3, <1>4, <1>5, <1>6 DEF Srv

LEMMA WaitEval == ASSUME IInv, WaitThread PROVE EvalStep
<1>1. UNCHANGED <<cpc, cid, opc, net>>
  BY WaitKeeps
<1>2. CASE WaitAnswer
  <2>1. PICK x \in Item :
          /\ x = Head(we.items) /\ x.id \in Id /\ opc \in {"run", "quit"}
          /\ net = wid /\ Result = [pos |-> x.pos, net |-> net] /\ Result \in Value
          /\ \E c \in Client : cid[c] = x.id
          /\ \A c \in Client : cid[c] = x.id =>
               cpc[c] \in Asking /\ page[x.id].pos = x.pos /\ wakeups[x.id] = 0
    BY <1>2, AnswerFacts
  <2>2. PICK c \in Client : cid[c] = x.id
    BY <2>1
  <2>3. /\ page' = [page EXCEPT ![x.id].val = Result]
        /\ wakeups' = [wakeups EXCEPT ![x.id] = @ + 1]
        /\ page \in Pages /\ wakeups \in [Id -> Nat]
    BY <1>2, <2>1 DEF WaitAnswer, Wake, IInv, TypeOK, Pages
  <2>4. /\ page'[x.id].pos = page[x.id].pos /\ page'[x.id].val = Result
        /\ wakeups'[x.id] = 1
        /\ \A i \in Id : i # x.id => page'[i] = page[i] /\ wakeups'[i] = wakeups[i]
    BY <2>1, <2>2, <2>3 DEF Pages
  <2>5. ASSUME NEW d \in Client, d # c
        PROVE  Question(d)' = Question(d) /\ Answered(d)' = Answered(d)
    <3>1. ASSUME cpc[d] \in Asking PROVE cid[d] \in Id /\ cid[d] # x.id
      BY <2>2, <2>5, <3>1, AskingIds
    <3> QED
      BY <1>1, <2>4, <3>1, SameQuestion
  <2>6. cpc[c] \in Asking /\ cpc'[c] \in Asking /\ cid'[c] = x.id
    BY <1>1, <2>1, <2>2
  <2>7. /\ Question(c) = x.pos /\ Question(c)' = x.pos
        /\ Answered(c) = Nothing /\ Answered(c)' = Result
    BY <2>1, <2>2, <2>4, <2>6 DEF Question, Answered
  <2>8. x.pos # Nothing /\ net # Nothing
    BY <2>1, NothingAssumption, NetAssumption DEF Item, IInv, TypeOK, Network
  <2>9. PICK v : v = Result
    OBVIOUS
  <2>10. /\ Questions[c] = x.pos /\ Answers[c] = Nothing
         /\ Answers' = [Answers EXCEPT ![c] = v]
    BY <2>5, <2>7, <2>9 DEF Questions, Answers
  <2>11. Questions' = Questions
    <3>1. \A d \in Client : Question(d)' = Question(d)
      BY <2>5, <2>7
    <3> QED
      BY <3>1, Unasked
  <2>12. Eval!Answer(c)
    BY <1>1, <2>1, <2>8, <2>9, <2>10, <2>11 DEF Eval!Answer, Questions, Answers
  <2> QED
    BY <2>12 DEF EvalStep, Eval!Next
<1>3. CASE WaitQuit \/ WaitTake \/ WaitSleep \/ WaitDone
  <2>1. UNCHANGED <<page, wakeups>>
    BY <1>3 DEF WaitQuit, WaitTake, WaitSleep, WaitDone, shared
  <2> QED
    BY <1>1, <2>1, EvalFrame DEF EvalStep, Alive
<1> QED
  BY <1>2, <1>3 DEF WaitThread

LEMMA StepEval == ASSUME IInv, TypeOK', [Next]_vars PROVE EvalStep
<1>1. CASE UNCHANGED <<cpc, cid, page, wakeups, opc, net>>
  BY <1>1, EvalFrame DEF EvalStep, Alive
<1>2. CASE ManagerDies
  BY <1>2, DiesEval DEF ManagerDies, Die, shared, clients
<1>3. CASE PushThread \/ Spurious
  BY <1>1, <1>3, PushKeeps, SpuriousKeeps
<1>4. CASE UNCHANGED vars
  BY <1>1, <1>4 DEF vars, shared, clients, owner, service
<1> QED
  BY <1>2, <1>3, <1>4, EngineEval, ManagerEval, SrvEval, WaitEval DEF Next

(* Every question is answered with the value of that very position by the   *)
(* network in service, no network is replaced while a question is open, and *)
(* a question is given up only when the service is dead.                    *)
THEOREM ServiceImplementsEval == ASSUME EnginesFirst PROVE Spec => EvalSpec
<1>1. Init => Eval!Init
  <2> SUFFICES ASSUME Init PROVE Eval!Init
    OBVIOUS
  <2>1. /\ opc = "reset" /\ net = Nothing /\ \A c \in Client : cpc[c] = "none"
    BY DEF Init
  <2>2. \A c \in Client : Question(c) = Nothing /\ Answered(c) = Nothing
    BY <2>1 DEF Question, Answered, Asking
  <2> QED
    BY <2>1, <2>2 DEF Eval!Init
<1>2. IInv /\ IInv' /\ [Next]_vars => [Eval!Next]_(Eval!vars)
  <2> SUFFICES ASSUME IInv, IInv', [Next]_vars PROVE [Eval!Next]_(Eval!vars)
    OBVIOUS
  <2>1. EvalStep
    BY StepEval DEF IInv
  <2> QED
    BY <2>1 DEF EvalStep, Eval!vars, Alive, Questions, Answers
<1> QED
  BY <1>1, <1>2, Invariance, PTL DEF Spec, EvalSpec, Eval!Spec
=============================================================================
