------------------------ MODULE RecvDelivery_proofs ------------------------
(***************************************************************************)
(* The receive engine keeps its list right whatever a broker sends, and with *)
(* a conforming broker it implements the promise of module Delivery, for     *)
(* every set of packet ids, topics, aliases and messages and every limit.    *)
(* Such a broker is not refused, and its messages keep their topics.         *)
(***************************************************************************)
EXTENDS RecvDelivery, SequenceTheorems, FiniteSetTheorems, TLAPS

RecvOpSet == [id : Ids \cup {0}, timer : BOOLEAN, suspended : BOOLEAN]

KnownIds == {id \in Ids : Known(id)}

------------------------------------------------------------------------------
(* The inductive invariant.  First the types of everything but the client. *)

PublishPackets ==
    [type : {"PUBLISH"}, id : Ids, qos : {1, 2}, dup : BOOLEAN, msg : Msgs,
     topic : Topics \cup {NoTopic}, alias : Aliases \cup {NoAlias}, verdict : {"ok"}]
PubrelPackets == [type : {"PUBREL"}, id : Ids]
ConnackPackets == [type : {"CONNACK"}, present : BOOLEAN, interval : Intervals]
BrokerPackets == PublishPackets \cup PubrelPackets \cup ConnackPackets
ClientPackets ==
    [type : {"CONNECT", "DISCONNECT", "PUBACK", "PUBREC", "PUBCOMP"},
     id : Ids \cup {0}, code : {"success", "error"}, interval : Intervals \cup {"same"}]

BrokerTypes ==
    /\ conforming \in BOOLEAN
    /\ content \in [Msgs -> [qos : {1, 2}, topic : Topics \cup {NoTopic}]]
    /\ exchange \in [Ids -> [st : {"free", "pub", "rel"}, msg : Msgs \cup {NoMsg}]]
    /\ published \in 0 .. MaxMsgs
    /\ completed \subseteq 1 .. published
    /\ reception \in [Ids -> Msgs \cup {NoMsg}]
    /\ delivered \in [Msgs -> 0 .. 2]
    /\ toClient \in Seq(BrokerPackets)
    /\ toBroker \in Seq(ClientPackets)
    /\ stale \in BOOLEAN /\ mistaken \subseteq Msgs

\* A packet id in use stands for one message that is not finished, and the broker
\* waits for PUBCOMP only when the message has arrived, or was mistaken for one
\* that had.
ExchangeInv ==
    /\ \A id \in Ids :
          /\ exchange[id].st = "free" => exchange[id].msg = NoMsg
          /\ exchange[id].st # "free" => /\ exchange[id].msg \in 1 .. published
                                         /\ exchange[id].msg \notin completed
          /\ exchange[id].st = "rel" => /\ content[exchange[id].msg].qos = 2
                                        /\ \/ delivered[exchange[id].msg] > 0
                                           \/ exchange[id].msg \in mistaken
    /\ \A id, x \in Ids :
          exchange[id].msg = exchange[x].msg /\ exchange[id].msg # NoMsg => id = x

\* What was reported last for a packet id was published under no other one.
ReceptionInv ==
    /\ \A id \in Ids : reception[id] # NoMsg =>
          /\ reception[id] \in 1 .. published
          /\ content[reception[id]].qos = 2
          /\ delivered[reception[id]] > 0
          /\ reception[id] \notin mistaken
    /\ \A id, x \in Ids : reception[id] # NoMsg =>
          /\ reception[x] = reception[id] => id = x
          /\ exchange[x].msg = reception[id] => id = x

\* What the broker's packets and the client's say of the exchange of their id.
ToClientInv ==
    \A i \in 1 .. Len(toClient) :
        /\ toClient[i].type = "PUBLISH" =>
              /\ exchange[toClient[i].id] = [st |-> "pub", msg |-> toClient[i].msg]
              /\ toClient[i].qos = content[toClient[i].msg].qos
        /\ toClient[i].type = "PUBREL" => exchange[toClient[i].id].st = "rel"
        /\ toClient[i].type = "CONNACK" =>
              i = 1 /\ link \in {"connecting", "refused"} /\ toBroker = <<>>

AckOK(p) ==
    /\ p.type = "PUBACK" =>
          /\ p.id \in Ids /\ exchange[p.id].st = "pub"
          /\ content[exchange[p.id].msg].qos = 1
          /\ p.code = "success" => delivered[exchange[p.id].msg] > 0
    /\ p.type = "PUBREC" =>
          /\ p.id \in Ids /\ exchange[p.id].st = "pub"
          /\ content[exchange[p.id].msg].qos = 2
          /\ p.code = "success" => \/ delivered[exchange[p.id].msg] > 0
                                    \/ exchange[p.id].msg \in mistaken
          /\ p.code = "error" => stale \/ p.id \notin KnownIds
    /\ p.type = "PUBCOMP" =>
          /\ p.id \in Ids /\ exchange[p.id].st = "rel"
          /\ p.id \notin KnownIds

ToBrokerInv ==
    \A i \in 1 .. Len(toBroker) :
        /\ AckOK(toBroker[i])
        /\ toBroker[i].type = "CONNECT" =>
              /\ link \in {"connecting", "refused"} /\ Len(toBroker) = 1
              /\ toClient = <<>> /\ ~serving

\* There is one packet about a packet id on its way, in one direction.
Acks == {"PUBACK", "PUBREC", "PUBCOMP"}
OnePacketPerId ==
    /\ \A i, j \in 1 .. Len(toClient) :
          toClient[i].type # "CONNACK" /\ toClient[j].type # "CONNACK"
             /\ toClient[i].id = toClient[j].id => i = j
    /\ \A i, j \in 1 .. Len(toBroker) :
          toBroker[i].type \in Acks /\ toBroker[j].type \in Acks
             /\ toBroker[i].id = toBroker[j].id => i = j
    /\ \A i \in 1 .. Len(toClient), j \in 1 .. Len(toBroker) :
          toClient[i].type # "CONNACK" /\ toBroker[j].type \in Acks
             => toClient[i].id # toBroker[j].id

\* Until the CONNACK is handled nothing else is, and nothing of the session
\* survives the loss of the connection.  What a client that has stopped waiting
\* for the CONNACK still knows is stale.
Connecting ==
    /\ link = "connecting" =>
          /\ expiry = "zero"
          /\ \/ /\ toBroker = <<>> /\ Len(toClient) > 0
                /\ toClient[1].type = "CONNACK"
             \/ /\ Len(toBroker) = 1 /\ toBroker[1].type = "CONNECT"
                /\ toClient = <<>> /\ ~serving
    /\ link = "refused" /\ ~stale => KnownIds = {}

\* The broker has started anew and the client is about to learn it.
Anew == Len(toClient) > 0 /\ toClient[1].type = "CONNACK" /\ ~toClient[1].present

\* What the client knows it has of the exchange the broker is in: a first
\* transmission is never taken for a repeat, and a repeat never for a new message,
\* unless receptions are stale.
Agreed ==
    ~Anew /\ ~stale =>
        /\ \A id \in KnownIds : reception[id] # NoMsg /\ exchange[id].msg = reception[id]
        /\ \A i \in 1 .. Len(toClient) :
              toClient[i].type = "PUBLISH" /\ ~toClient[i].dup
                 => toClient[i].id \notin KnownIds

ConformingInv ==
    /\ ToClientInv /\ ToBrokerInv /\ OnePacketPerId /\ Connecting /\ Agreed

NonconformingInv ==
    toClient = <<>> /\ toBroker = <<>> /\ reception = [id \in Ids |-> NoMsg]

RecvInv == RecvTypeOK /\ OneOpPerId /\ ReceiveLimitKept

DeliveryInv ==
    /\ RecvInv
    /\ BrokerTypes
    /\ ExchangeInv
    /\ ReceptionInv
    /\ IF conforming THEN ConformingInv ELSE NonconformingInv

------------------------------------------------------------------------------
(* Lists of operations. *)

Live(s) == {i \in 1 .. Len(s) : s[i].id # 0}
IdsOf(s) == {id \in Ids : \E i \in 1 .. Len(s) : s[i].id = id}

GoodList(s) ==
    /\ s \in Seq(RecvOpSet)
    /\ Len(s) <= OpsLimit
    /\ \A i, j \in 1 .. Len(s) : s[i].id = s[j].id /\ s[i].id # 0 => i = j
    /\ RecvLimit > 0 => Cardinality(Live(s)) <= RecvLimit

\* What the constants are.
LEMMA Constants ==
    /\ Ids \subseteq Nat /\ 0 \notin Ids /\ IsFiniteSet(Ids)
    /\ OpsLimit \in Nat /\ RecvLimit \in Nat /\ MaxRecvAlias \in Nat
    /\ Topics \subseteq Nat /\ NoTopic \notin Topics /\ Subscribed \subseteq Topics
BY RecvOpsAssumption DEF RecvOpsAssumption

\* The live operations of a list can be counted.
LEMMA LiveFinite ==
    ASSUME NEW s \in Seq(RecvOpSet)
    PROVE  /\ IsFiniteSet(Live(s))
           /\ Cardinality(Live(s)) \in Nat
           /\ Cardinality(Live(s)) <= Len(s)
<1>1. Len(s) \in Nat
  BY LenProperties
<1>2. IsFiniteSet(1 .. Len(s)) /\ Cardinality(1 .. Len(s)) = Len(s)
  <2>1. 1 \in Int /\ Len(s) \in Int
    BY <1>1
  <2> QED
    BY <1>1, <2>1, FS_Interval, SMTT(20)
<1>3. Live(s) \in SUBSET (1 .. Len(s))
  BY DEF Live
<1> QED
  BY <1>2, <1>3, FS_Subset, FS_CardinalityType

\* Functions over an initial segment of the natural numbers are sequences.
LEMMA FunctionIsSeq ==
    ASSUME NEW S, NEW n \in Nat, NEW f \in [1 .. n -> S]
    PROVE  f \in Seq(S) /\ Len(f) = n
<1>1. f \in Seq(S)
  BY SeqDef
<1>2. DOMAIN f = 1 .. Len(f) /\ Len(f) \in Nat
  BY <1>1, LenProperties
<1> QED
  BY <1>1, <1>2

\* No operation at all.
LEMMA EmptyGood == GoodList(<<>>) /\ IdsOf(<<>>) = {}
<1>1. <<>> \in Seq(RecvOpSet) /\ Len(<<>>) = 0
  BY EmptySeq
<1>2. Live(<<>>) = {} /\ Cardinality(Live(<<>>)) = 0
  BY <1>1, FS_EmptySet DEF Live
<1>3. RecvLimit \in Nat /\ OpsLimit \in Nat
  BY Constants
<1>4. GoodList(<<>>)
  BY <1>1, <1>2, <1>3 DEF GoodList
<1>5. IdsOf(<<>>) = {}
  BY <1>1 DEF IdsOf
<1> QED
  BY <1>4, <1>5

\* A step that changes timers only.
LEMMA SameIdsGood ==
    ASSUME NEW s, GoodList(s), NEW t \in Seq(RecvOpSet), Len(t) = Len(s),
           \A i \in 1 .. Len(s) : t[i].id = s[i].id
    PROVE  GoodList(t) /\ IdsOf(t) = IdsOf(s)
<1>1. Live(t) = Live(s)
  BY DEF Live
<1> QED
  BY <1>1 DEF GoodList, IdsOf

\* connectivityChanged() and postReconnectionResume() change timers only.
LEMMA TimersGood ==
    ASSUME NEW s, GoodList(s)
    PROVE  /\ GoodList(Suspended(s)) /\ IdsOf(Suspended(s)) = IdsOf(s)
           /\ Len(Suspended(s)) = Len(s)
           /\ GoodList([i \in DOMAIN s |-> Resumed(s[i])])
           /\ IdsOf([i \in DOMAIN s |-> Resumed(s[i])]) = IdsOf(s)
<1>1. s \in Seq(RecvOpSet) /\ DOMAIN s = 1 .. Len(s) /\ Len(s) \in Nat
  BY LenProperties DEF GoodList
<1>2. \A i \in 1 .. Len(s) : s[i] \in RecvOpSet
  BY <1>1, ElementOfSeq
<1>3. \A o \in RecvOpSet : /\ [o EXCEPT !.suspended = o.timer \/ o.suspended] \in RecvOpSet
                           /\ [o EXCEPT !.suspended = o.timer \/ o.suspended].id = o.id
                           /\ Resumed(o) \in RecvOpSet /\ Resumed(o).id = o.id
  BY DEF RecvOpSet, Resumed
<1> DEFINE q == Suspended(s)
           r == [i \in DOMAIN s |-> Resumed(s[i])]
<1>4. /\ q \in [1 .. Len(s) -> RecvOpSet]
      /\ \A i \in 1 .. Len(s) : q[i].id = s[i].id
  BY <1>1, <1>2, <1>3 DEF Suspended
<1>5. /\ r \in [1 .. Len(s) -> RecvOpSet]
      /\ \A i \in 1 .. Len(s) : r[i].id = s[i].id
  BY <1>1, <1>2, <1>3
<1> HIDE DEF q, r
<1>51. /\ q \in Seq(RecvOpSet) /\ Len(q) = Len(s)
       /\ r \in Seq(RecvOpSet) /\ Len(r) = Len(s)
  BY <1>1, <1>4, <1>5, FunctionIsSeq
<1>6. GoodList(q) /\ IdsOf(q) = IdsOf(s)
  BY <1>4, <1>51, SameIdsGood
<1>7. GoodList(r) /\ IdsOf(r) = IdsOf(s)
  BY <1>5, <1>51, SameIdsGood
<1> QED
  BY <1>51, <1>6, <1>7 DEF q, r

\* Nor does the cancellation of one timer.
LEMMA CancelledGood ==
    ASSUME NEW s, GoodList(s), NEW k \in 1 .. Len(s)
    PROVE  /\ GoodList([s EXCEPT ![k].timer = FALSE])
           /\ IdsOf([s EXCEPT ![k].timer = FALSE]) = IdsOf(s)
           /\ Len([s EXCEPT ![k].timer = FALSE]) = Len(s)
<1> DEFINE e == [s[k] EXCEPT !.timer = FALSE]
           t == [s EXCEPT ![k] = e]
<1>1. s \in Seq(RecvOpSet) /\ s[k] \in RecvOpSet
  BY ElementOfSeq DEF GoodList
<1>2. e \in RecvOpSet /\ e.id = s[k].id
  BY <1>1 DEF RecvOpSet
<1> HIDE DEF e
<1>3. /\ t \in Seq(RecvOpSet) /\ Len(t) = Len(s)
      /\ \A i \in 1 .. Len(s) : t[i].id = s[i].id
  BY <1>1, <1>2, ExceptSeq
<1>4. [s EXCEPT ![k].timer = FALSE] = t
  BY DEF e
<1> HIDE DEF t
<1> QED
  BY <1>3, <1>4, SameIdsGood

\* A new operation without a packet id, or with one that is not in the list and
\* within the Receive Maximum.
LEMMA AppendGood ==
    ASSUME NEW s, GoodList(s), Len(s) < OpsLimit,
           NEW id \in Ids \cup {0}, NEW b \in BOOLEAN,
           id # 0 => id \notin IdsOf(s) /\ (RecvLimit > 0 => Len(s) + 1 <= RecvLimit)
    PROVE  /\ GoodList(Append(s, RecvOp(id, b)))
           /\ IdsOf(Append(s, RecvOp(id, b))) = IdsOf(s) \cup ({id} \ {0})
           /\ Len(Append(s, RecvOp(id, b))) = Len(s) + 1
           /\ Append(s, RecvOp(id, b))[Len(s) + 1].id = id
<1> DEFINE o == RecvOp(id, b)
           t == Append(s, o)
<1>1. o \in RecvOpSet /\ o.id = id
  BY DEF RecvOp, RecvOpSet
<1>2. s \in Seq(RecvOpSet) /\ Len(s) \in Nat
  BY LenProperties DEF GoodList
<1> HIDE DEF o
<1>3. /\ t \in Seq(RecvOpSet) /\ Len(t) = Len(s) + 1
      /\ \A i \in 1 .. Len(s) : t[i] = s[i]
      /\ t[Len(s) + 1] = o
  BY <1>1, <1>2, AppendProperties
<1> HIDE DEF t
<1>4. \A i \in 1 .. Len(s) : s[i] \in RecvOpSet
  BY <1>2, ElementOfSeq
<1>5. 0 \notin Ids /\ OpsLimit \in Nat /\ RecvLimit \in Nat
  BY Constants
<1>6. IdsOf(t) = IdsOf(s) \cup ({id} \ {0})
  BY <1>1, <1>2, <1>3, <1>5 DEF IdsOf
<1>7. Len(t) <= OpsLimit
  BY <1>2, <1>3, <1>5
<1>8. \A i, j \in 1 .. Len(t) : t[i].id = t[j].id /\ t[i].id # 0 => i = j
  <2> SUFFICES ASSUME NEW i \in 1 .. Len(t), NEW j \in 1 .. Len(t),
                      t[i].id = t[j].id, t[i].id # 0
               PROVE  i = j
    OBVIOUS
  <2>1. CASE i \in 1 .. Len(s) /\ j \in 1 .. Len(s)
    BY <2>1, <1>3 DEF GoodList
  <2>2. ASSUME NEW k \in 1 .. Len(s), s[k].id = id, id # 0 PROVE FALSE
    BY <2>2, <1>4 DEF IdsOf, RecvOpSet
  <2>3. i = Len(s) + 1 \/ i \in 1 .. Len(s)
    BY <1>2, <1>3
  <2>4. j = Len(s) + 1 \/ j \in 1 .. Len(s)
    BY <1>2, <1>3
  <2> QED
    BY <2>1, <2>2, <2>3, <2>4, <1>1, <1>3
<1>9. RecvLimit > 0 => Cardinality(Live(t)) <= RecvLimit
  <2>1. CASE id = 0
    <3>1. Live(t) = Live(s)
      BY <2>1, <1>1, <1>2, <1>3 DEF Live
    <3> QED
      BY <3>1 DEF GoodList
  <2>2. CASE id # 0
    BY <2>2, <1>2, <1>3, <1>5, LiveFinite
  <2> QED
    BY <2>1, <2>2
<1>10. GoodList(t)
  BY <1>3, <1>7, <1>8, <1>9 DEF GoodList
<1> QED
  BY <1>1, <1>3, <1>6, <1>10 DEF t, o

\* What is left when one operation is removed from a list.
LEMMA RemoveAtProperties ==
    ASSUME NEW S, NEW s \in Seq(S), NEW k \in 1 .. Len(s)
    PROVE  /\ RemoveAt(s, k) \in Seq(S)
           /\ Len(RemoveAt(s, k)) = Len(s) - 1
           /\ \A i \in 1 .. Len(s) - 1 :
                 RemoveAt(s, k)[i] = IF i < k THEN s[i] ELSE s[i + 1]
<1>1. Len(s) \in Nat /\ k \in Nat /\ \A i \in 1 .. Len(s) : s[i] \in S
  BY LenProperties, ElementOfSeq
<1> DEFINE a == SubSeq(s, 1, k - 1)
           b == SubSeq(s, k + 1, Len(s))
<1>2. /\ a \in Seq(S) /\ Len(a) = k - 1
      /\ \A i \in 1 .. k - 1 : a[i] = s[i]
  <2>1. \A i \in 1 .. k - 1 : s[i] \in S
    BY <1>1
  <2> QED
    BY <2>1, <1>1, SubSeqProperties
<1>3. /\ b \in Seq(S) /\ Len(b) = Len(s) - k
      /\ \A i \in 1 .. Len(s) - k : b[i] = s[k + i]
  <2>1. \A i \in k + 1 .. Len(s) : s[i] \in S
    BY <1>1
  <2>2. k + 1 \in Int /\ Len(s) \in Int
    BY <1>1
  <2>3. /\ SubSeq(s, k + 1, Len(s)) \in Seq(S)
        /\ Len(SubSeq(s, k + 1, Len(s))) = IF k + 1 <= Len(s) THEN Len(s) - (k + 1) + 1 ELSE 0
        /\ \A i \in 1 .. Len(s) - (k + 1) + 1 :
              SubSeq(s, k + 1, Len(s))[i] = s[(k + 1) + i - 1]
    BY <2>1, <2>2, SubSeqProperties
  <2>4. Len(s) - (k + 1) + 1 = Len(s) - k
    BY <1>1
  <2>5. ASSUME NEW i \in 1 .. Len(s) - k PROVE b[i] = s[k + i]
    <3>1. (k + 1) + i - 1 = k + i /\ i \in 1 .. Len(s) - (k + 1) + 1
      BY <1>1
    <3>2. b[i] = s[(k + 1) + i - 1]
      BY <3>1, <2>3
    <3> QED
      BY <3>1, <3>2
  <2>6. Len(b) = Len(s) - k
    BY <2>3, <1>1
  <2> QED
    BY <2>3, <2>5, <2>6
<1> HIDE DEF a, b
<1>4. /\ a \o b \in Seq(S) /\ Len(a \o b) = Len(s) - 1
      /\ \A i \in 1 .. Len(s) - 1 : (a \o b)[i] = IF i < k THEN a[i] ELSE b[i - (k - 1)]
  BY <1>1, <1>2, <1>3, ConcatProperties
<1>5. \A i \in 1 .. Len(s) - 1 : (a \o b)[i] = IF i < k THEN s[i] ELSE s[i + 1]
  BY <1>1, <1>2, <1>3, <1>4
<1> QED
  BY <1>4, <1>5 DEF RemoveAt, a, b

\* An operation ends: the others stay, and its packet id is not known any more.
LEMMA RemoveGood ==
    ASSUME NEW s, GoodList(s), NEW k \in 1 .. Len(s)
    PROVE  /\ GoodList(RemoveAt(s, k))
           /\ IdsOf(RemoveAt(s, k)) \subseteq IdsOf(s)
           /\ s[k].id \notin IdsOf(RemoveAt(s, k))
           /\ Len(RemoveAt(s, k)) < Len(s)
<1> DEFINE t == RemoveAt(s, k)
           old(i) == IF i < k THEN i ELSE i + 1
<1>1. s \in Seq(RecvOpSet) /\ Len(s) \in Nat /\ k \in Nat
  BY LenProperties DEF GoodList
<1>2. /\ t \in Seq(RecvOpSet) /\ Len(t) = Len(s) - 1
      /\ \A i \in 1 .. Len(t) : t[i] = IF i < k THEN s[i] ELSE s[i + 1]
  BY <1>1, RemoveAtProperties
<1> HIDE DEF t
<1>3. \A i \in 1 .. Len(t) : /\ old(i) \in 1 .. Len(s) /\ old(i) # k
                             /\ t[i] = s[old(i)]
  BY <1>1, <1>2
<1>4. \A i, j \in 1 .. Len(t) : old(i) = old(j) => i = j
  BY <1>1, <1>2
<1> HIDE DEF old
<1>5. IdsOf(t) \subseteq IdsOf(s)
  BY <1>3 DEF IdsOf
<1>6. ASSUME NEW i \in 1 .. Len(t), NEW j \in 1 .. Len(t),
             t[i].id = t[j].id, t[i].id # 0
      PROVE  i = j
  <2>1. old(i) \in 1 .. Len(s) /\ old(j) \in 1 .. Len(s) /\ t[i] = s[old(i)] /\ t[j] = s[old(j)]
    BY <1>3
  <2>2. old(i) = old(j)
    BY <1>6, <2>1 DEF GoodList
  <2> QED
    BY <1>4, <2>2
<1>7. s[k].id \notin IdsOf(t)
  BY <1>3, Constants DEF GoodList, IdsOf
<1>8. RecvLimit > 0 => Cardinality(Live(t)) <= RecvLimit
  <2> DEFINE f == [i \in Live(t) |-> old(i)]
  <2>1. f \in [Live(t) -> Live(s)]
    BY <1>3 DEF Live
  <2>2. f \in Injection(Live(t), Live(s))
    BY <2>1, <1>4 DEF Live, Injection, IsInjective
  <2>3. IsFiniteSet(Live(s)) /\ Cardinality(Live(s)) \in Nat
    BY <1>1, LiveFinite
  <2>4. Cardinality(Live(t)) <= Cardinality(Live(s)) /\ Cardinality(Live(t)) \in Nat
    BY <2>2, <2>3, <1>2, FS_Injection, LiveFinite
  <2> QED
    BY <2>3, <2>4, Constants DEF GoodList
<1>9. GoodList(t)
  BY <1>1, <1>2, <1>6, <1>8, Constants DEF GoodList
<1> QED
  BY <1>1, <1>2, <1>5, <1>7, <1>9 DEF t

\* The operation a packet id stands for.
LEMMA IndexFinds ==
    ASSUME GoodList(recvOps), NEW id \in Ids, Known(id)
    PROVE  Index(id) \in 1 .. Len(recvOps) /\ recvOps[Index(id)].id = id
<1>1. DOMAIN recvOps = 1 .. Len(recvOps) /\ Len(recvOps) \in Nat
  BY LenProperties DEF GoodList
<1>2. PICK i \in DOMAIN recvOps : recvOps[i].id = id
  BY DEF Known
<1>3. \A j \in 1 .. i - 1 : recvOps[j].id # id
  BY <1>1, <1>2, Constants DEF GoodList
<1>4. \E k \in DOMAIN recvOps :
         recvOps[k].id = id /\ \A j \in 1 .. k - 1 : recvOps[j].id # id
  BY <1>2, <1>3
<1> QED
  BY <1>1, <1>4 DEF Index

\* The list of the client.
LEMMA KnownIsIds ==
    ASSUME recvOps \in Seq(RecvOpSet)
    PROVE  KnownIds = IdsOf(recvOps)
BY LenProperties DEF KnownIds, Known, IdsOf

------------------------------------------------------------------------------
(* The steps of the client: each keeps the list right, and what the other side *)
(* and the application see of it.                                              *)

OtherTypes ==
    /\ link \in Links
    /\ expiry \in Intervals /\ requested \in BOOLEAN /\ expiryTimer \in BOOLEAN
    /\ recvAliases \in [Aliases -> Topics \cup {NoTopic}]
    /\ recvFault \in {"none", "freed operation"}
    /\ reported \in [msg : Nat, topic : Topics \cup {NoTopic}]
    /\ out \in Seq(ClientPackets)

\* Nothing is reported, and no packet id becomes known.
Quiet ==
    /\ reported' = NoReport
    /\ recvFault' = recvFault
    /\ KnownIds' \subseteq KnownIds

GoodMsg(m) ==
    /\ m.id \in Ids \cup {0} /\ m.qos \in 0 .. 2 /\ m.dup \in BOOLEAN /\ m.msg \in Nat
    /\ m.topic \in Topics \cup {NoTopic} /\ m.alias \in Int
    /\ m.qos = 2 => m.id \in Ids

\* The parts of the client's invariant.
LEMMA RecvInvParts ==
    /\ RecvInv => GoodList(recvOps) /\ OtherTypes /\ KnownIds = IdsOf(recvOps)
    /\ GoodList(recvOps) /\ OtherTypes => RecvInv
<1>1. ASSUME recvOps \in Seq(RecvOpSet)
      PROVE  DOMAIN recvOps = 1 .. Len(recvOps) /\ KnownIds = IdsOf(recvOps)
  BY <1>1, LenProperties, KnownIsIds
<1>2. RecvInv => recvOps \in Seq(RecvOpSet)
  BY DEF RecvInv, RecvTypeOK, RecvOpSet
<1>3. ASSUME RecvInv PROVE GoodList(recvOps) /\ OtherTypes
  <2>1. DOMAIN recvOps = 1 .. Len(recvOps) /\ recvOps \in Seq(RecvOpSet)
    BY <1>1, <1>2, <1>3
  <2>2. {i \in DOMAIN recvOps : recvOps[i].id # 0} = Live(recvOps)
    BY <2>1 DEF Live
  <2>3. GoodList(recvOps)
    BY <2>1, <2>2, <1>3 DEF RecvInv, RecvTypeOK, OneOpPerId, ReceiveLimitKept, GoodList
  <2> QED
    BY <2>3, <1>3 DEF RecvInv, RecvTypeOK, OtherTypes, ClientPackets
<1>4. ASSUME GoodList(recvOps), OtherTypes PROVE RecvInv
  <2>1. recvOps \in Seq(RecvOpSet)
    BY <1>4 DEF GoodList
  <2>2. DOMAIN recvOps = 1 .. Len(recvOps)
    BY <1>1, <2>1
  <2>3. {i \in DOMAIN recvOps : recvOps[i].id # 0} = Live(recvOps)
    BY <2>2 DEF Live
  <2>4. OneOpPerId /\ ReceiveLimitKept
    BY <1>4, <2>2, <2>3 DEF OneOpPerId, ReceiveLimitKept, GoodList
  <2>5. RecvTypeOK
    BY <1>4, <2>1 DEF RecvTypeOK, OtherTypes, GoodList, RecvOpSet, ClientPackets
  <2> QED
    BY <2>4, <2>5 DEF RecvInv
<1> QED
  BY <1>1, <1>2, <1>3, <1>4

\* The same for the state after a step.
LEMMA RecvInvAfter ==
    ASSUME GoodList(recvOps'), OtherTypes'
    PROVE  RecvInv' /\ KnownIds' = IdsOf(recvOps')
<1>1. RecvInv'
  <2>1. (GoodList(recvOps) /\ OtherTypes => RecvInv)'
    BY RecvInvParts, PTL
  <2> QED
    BY <2>1 DEF GoodList, Live
<1>2. (RecvInv => KnownIds = IdsOf(recvOps))'
  BY RecvInvParts, PTL
<1>3. (IdsOf(recvOps))' = IdsOf(recvOps')
  BY DEF IdsOf
<1> QED
  BY <1>1, <1>2, <1>3

\* The packets of the client.
LEMMA PacketType ==
    ASSUME NEW type \in {"CONNECT", "DISCONNECT", "PUBACK", "PUBREC", "PUBCOMP"},
           NEW id \in Ids \cup {0}, NEW code \in {"success", "error"}
    PROVE  /\ Packet(type, id, code) \in ClientPackets
           /\ Packet(type, id, code).type = type /\ Packet(type, id, code).id = id
           /\ Packet(type, id, code).code = code
BY DEF Packet, ClientPackets

\* Sequences of one element.
LEMMA OneElement ==
    ASSUME NEW S, NEW p \in S
    PROVE  <<p>> \in Seq(S) /\ Len(<<p>>) = 1 /\ <<p>>[1] = p
OBVIOUS

\* Nothing reported is a report of its type.
LEMMA NoReportType == NoReport \in [msg : Nat, topic : Topics \cup {NoTopic}]
BY DEF NoReport, NoMsg

\* brokerDisconnected() keeps the list or empties it.
LEMMA DisconnectedList ==
    ASSUME NEW ops, GoodList(ops), BrokerDisconnected(ops), expiryTimer \in BOOLEAN
    PROVE  /\ GoodList(recvOps') /\ IdsOf(recvOps') \subseteq IdsOf(ops)
           /\ expiryTimer' \in BOOLEAN
           /\ expiry = "zero" => recvOps' = <<>>
BY EmptyGood, TimersGood DEF BrokerDisconnected

\* terminationWithReason()
LEMMA TerminationKeeps ==
    ASSUME RecvInv, NEW ops, GoodList(ops), IdsOf(ops) \subseteq KnownIds, Termination(ops)
    PROVE  /\ RecvInv' /\ Quiet
           /\ out' = <<Packet("DISCONNECT", 0, "error")>>
           /\ link' = "closing"
<1>1. GoodList(recvOps') /\ IdsOf(recvOps') \subseteq KnownIds /\ expiryTimer' \in BOOLEAN
  BY DisconnectedList, RecvInvParts DEF Termination, OtherTypes
<1>2. out' \in Seq(ClientPackets)
  BY PacketType, OneElement DEF Termination
<1>3. OtherTypes'
  BY <1>1, <1>2, NoReportType, RecvInvParts DEF OtherTypes, Termination, Links
<1> QED
  BY <1>1, <1>3, RecvInvAfter DEF Termination, Quiet

\* The answers to a message.
LEMMA AckTypes ==
    ASSUME NEW m, GoodMsg(m), NEW code \in {"success", "error"}
    PROVE  /\ Ack(m, code) \in Seq(ClientPackets)
           /\ Len(Ack(m, code)) \in {0, 1}
           /\ m.qos # 0 => /\ Ack(m, code) = <<Packet(AckType(m.qos), m.id, code)>>
                           /\ Packet(AckType(m.qos), m.id, code) \in ClientPackets
<1>1. AckType(m.qos) \in {"PUBACK", "PUBREC"}
  BY DEF AckType
<1>2. Packet(AckType(m.qos), m.id, code) \in ClientPackets
  BY <1>1, PacketType DEF GoodMsg
<1>3. CASE m.qos = 0
  BY <1>3, EmptySeq DEF Ack
<1>4. CASE m.qos # 0
  BY <1>2, <1>4, OneElement DEF Ack
<1> QED
  BY <1>2, <1>3, <1>4

\* completeNotAuthorized()
LEMMA NotAuthorizedKeeps ==
    ASSUME RecvInv, NEW m, GoodMsg(m), NotAuthorized(m),
           recvAliases' \in [Aliases -> Topics \cup {NoTopic}]
    PROVE  /\ RecvInv' /\ Quiet /\ KnownIds' = KnownIds
           /\ out' = Ack(m, "error") /\ link' = link
<1>1. GoodList(recvOps')
  BY RecvInvParts DEF NotAuthorized
<1>2. out' \in Seq(ClientPackets)
  BY AckTypes DEF NotAuthorized
<1>3. OtherTypes'
  BY <1>2, NoReportType, RecvInvParts DEF OtherTypes, NotAuthorized
<1>4. KnownIds' = KnownIds
  BY DEF KnownIds, Known, NotAuthorized
<1> QED
  BY <1>1, <1>3, <1>4, RecvInvAfter DEF NotAuthorized, Quiet

\* A packet id that is known already.
LEMMA ReconfirmKeeps ==
    ASSUME RecvInv, NEW m, GoodMsg(m), m.qos = 2, Known(m.id), Reconfirm(m)
    PROVE  /\ RecvInv' /\ Quiet
           /\ out' = <<Packet("PUBREC", m.id, IF m.dup THEN "success" ELSE "error")>>
           /\ link' = link
<1>1. m.id \in Ids /\ GoodList(recvOps)
  BY RecvInvParts DEF GoodMsg
<1>2. Index(m.id) \in 1 .. Len(recvOps)
  BY <1>1, IndexFinds
<1>3. GoodList(recvOps') /\ IdsOf(recvOps') = IdsOf(recvOps)
  BY <1>1, <1>2, CancelledGood DEF Reconfirm
<1>4. out' \in Seq(ClientPackets)
  <2>1. (IF m.dup THEN "success" ELSE "error") \in {"success", "error"}
    OBVIOUS
  <2> QED
    BY <2>1, <1>1, PacketType, OneElement DEF Reconfirm
<1>5. OtherTypes'
  BY <1>4, NoReportType, RecvInvParts DEF OtherTypes, Reconfirm
<1>6. KnownIds = IdsOf(recvOps) /\ KnownIds' = IdsOf(recvOps') /\ RecvInv'
  BY <1>3, <1>5, RecvInvAfter, RecvInvParts
<1> QED
  BY <1>3, <1>6 DEF Reconfirm, Quiet

\* What a message that is reported leads to: acknowledged, with a DISCONNECT
\* before it when the application leaves, or the operation is gone.
Reported(m) ==
    /\ reported'.msg = m.msg
    /\ m.qos = 2 => m.id \notin KnownIds
    /\ link = "up" /\ link' \in {link, "closing"}
    /\ \/ /\ recvFault' # "none" /\ recvOps' = <<>>
          /\ out' = <<Packet("DISCONNECT", 0, "success")>>
       \/ /\ recvFault' = recvFault
          /\ KnownIds' = KnownIds \cup (IF m.qos = 2 THEN {m.id} ELSE {})
          /\ Len(recvOps') = Len(recvOps) + (IF m.qos = 2 THEN 1 ELSE 0)
          /\ m.qos = 2 => recvOps'[Len(recvOps) + 1].id = m.id
          /\ \/ out' = Ack(m, "success")
             \/ out' = <<Packet("DISCONNECT", 0, "success")>> \o Ack(m, "success")

\* The list once the operation of a reported message is in it.
LEMMA AcceptedList ==
    ASSUME RecvInv, NEW m, GoodMsg(m), m.qos = 2, ~Known(m.id), ~noStorage,
           link = "up", ~tooMany(m), NEW s, GoodList(s), IdsOf(s) = IdsOf(recvOps),
           Len(s) = Len(recvOps)
    PROVE  /\ GoodList(Append(s, RecvOp(m.id, TRUE)))
           /\ IdsOf(Append(s, RecvOp(m.id, TRUE))) = KnownIds \cup {m.id}
           /\ Len(Append(s, RecvOp(m.id, TRUE))) = Len(recvOps) + 1
           /\ Append(s, RecvOp(m.id, TRUE))[Len(recvOps) + 1].id = m.id
<1>1. m.id \in Ids /\ m.id # 0 /\ KnownIds = IdsOf(recvOps)
  BY RecvInvParts, Constants DEF GoodMsg
<1>2. m.id \notin IdsOf(s)
  BY <1>1 DEF KnownIds
<1>3. Len(recvOps) \in Nat /\ Len(s) < OpsLimit
  BY RecvInvParts, LenProperties, Constants DEF noStorage, GoodList
<1>4. RecvLimit > 0 => Len(s) + 1 <= RecvLimit
  BY <1>3, Constants DEF tooMany
<1>5. /\ GoodList(Append(s, RecvOp(m.id, TRUE)))
      /\ IdsOf(Append(s, RecvOp(m.id, TRUE))) = IdsOf(s) \cup ({m.id} \ {0})
      /\ Len(Append(s, RecvOp(m.id, TRUE))) = Len(s) + 1
      /\ Append(s, RecvOp(m.id, TRUE))[Len(s) + 1].id = m.id
  <2>1. m.id \in Ids \cup {0} /\ TRUE \in BOOLEAN
    BY <1>1
  <2> QED
    BY <2>1, <1>2, <1>3, <1>4, AppendGood
<1> QED
  BY <1>1, <1>5

\* The acknowledgement of the message.
LEMMA AcknowledgeKeeps ==
    ASSUME RecvInv, NEW m, GoodMsg(m), m.qos = 2 => ~Known(m.id), ~noStorage,
           link = "up", ~tooMany(m), Acknowledge(m)
    PROVE  /\ GoodList(recvOps')
           /\ IdsOf(recvOps') = KnownIds \cup (IF m.qos = 2 THEN {m.id} ELSE {})
           /\ Len(recvOps') = Len(recvOps) + (IF m.qos = 2 THEN 1 ELSE 0)
           /\ m.qos = 2 => recvOps'[Len(recvOps) + 1].id = m.id
<1>1. GoodList(recvOps) /\ KnownIds = IdsOf(recvOps) /\ Len(recvOps) \in Nat
  BY RecvInvParts, LenProperties DEF GoodList
<1>2. CASE m.qos = 2
  BY <1>1, <1>2, AcceptedList DEF Acknowledge
<1>3. CASE m.qos # 2
  BY <1>1, <1>3 DEF Acknowledge
<1> QED
  BY <1>2, <1>3

\* The application disconnects when the message is reported.
LEMMA LeaveKeeps ==
    ASSUME RecvInv, NEW m, GoodMsg(m), m.qos = 2 => ~Known(m.id), ~noStorage,
           link = "up", ~tooMany(m), LeaveInCallback(m), expiry # "zero"
    PROVE  /\ GoodList(recvOps')
           /\ IdsOf(recvOps') = KnownIds \cup (IF m.qos = 2 THEN {m.id} ELSE {})
           /\ Len(recvOps') = Len(recvOps) + (IF m.qos = 2 THEN 1 ELSE 0)
           /\ m.qos = 2 => recvOps'[Len(recvOps) + 1].id = m.id
<1>1. GoodList(recvOps) /\ KnownIds = IdsOf(recvOps) /\ Len(recvOps) \in Nat
  BY RecvInvParts, LenProperties DEF GoodList
<1> DEFINE s == Suspended(recvOps)
<1>2. GoodList(s) /\ IdsOf(s) = IdsOf(recvOps) /\ Len(s) = Len(recvOps)
  BY <1>1, TimersGood
<1> HIDE DEF s
<1>3. CASE m.qos = 2
  <2>1. RecvOp(m.id, TRUE) \in RecvOpSet
    BY DEF RecvOp, RecvOpSet, GoodMsg
  <2>2. recvOps' = s \o <<RecvOp(m.id, TRUE)>>
    BY <1>3 DEF LeaveInCallback, s
  <2>3. recvOps' = Append(s, RecvOp(m.id, TRUE))
    BY <1>2, <2>1, <2>2, AppendIsConcat DEF GoodList
  <2> QED
    BY <1>2, <1>3, <2>3, AcceptedList
<1>4. CASE m.qos # 2
  <2>1. recvOps' = s \o <<>>
    BY <1>4 DEF LeaveInCallback, s
  <2>2. recvOps' = s
    BY <1>2, <2>1, ConcatEmptySeq DEF GoodList
  <2> QED
    BY <1>1, <1>2, <1>4, <2>2
<1> QED
  BY <1>3, <1>4

\* A message is reported.
LEMMA AcceptKeeps ==
    ASSUME RecvInv, NEW m, GoodMsg(m), m.qos = 2 => ~Known(m.id), ~noStorage,
           link = "up", ~tooMany(m), NEW leaves \in BOOLEAN, Accept(m, leaves),
           topicOf(m) \in Subscribed,
           recvAliases' \in [Aliases -> Topics \cup {NoTopic}]
    PROVE  RecvInv' /\ Reported(m)
<1>1. /\ reported' \in [msg : Nat, topic : Topics \cup {NoTopic}]
      /\ reported'.msg = m.msg
  BY Constants DEF Accept, GoodMsg
<1>2. m.qos = 2 => m.id \notin KnownIds
  BY DEF KnownIds
<1> DEFINE disc == Packet("DISCONNECT", 0, "success")
<1>3. <<disc>> \in Seq(ClientPackets) /\ Ack(m, "success") \in Seq(ClientPackets)
  BY PacketType, OneElement, AckTypes
<1>4. <<disc>> \o Ack(m, "success") \in Seq(ClientPackets)
  BY <1>3, ConcatProperties
<1> HIDE DEF disc
<1>5. CASE leaves /\ expiry = "zero"
  <2>1. GoodList(recvOps')
    BY <1>5, EmptyGood DEF Accept, LeaveInCallback
  <2>2. OtherTypes'
    BY <1>1, <1>3, <1>5, RecvInvParts DEF Accept, LeaveInCallback, OtherTypes, Links, disc
  <2> QED
    BY <2>1, <2>2, <1>1, <1>2, <1>5, RecvInvAfter
    DEF Accept, LeaveInCallback, Reported
<1>6. CASE leaves /\ expiry # "zero"
  <2>1. /\ GoodList(recvOps')
        /\ IdsOf(recvOps') = KnownIds \cup (IF m.qos = 2 THEN {m.id} ELSE {})
        /\ Len(recvOps') = Len(recvOps) + (IF m.qos = 2 THEN 1 ELSE 0)
        /\ m.qos = 2 => recvOps'[Len(recvOps) + 1].id = m.id
    BY <1>6, LeaveKeeps DEF Accept
  <2>2. OtherTypes'
    BY <1>1, <1>4, <1>6, RecvInvParts DEF Accept, LeaveInCallback, OtherTypes, Links, disc
  <2> QED
    BY <2>1, <2>2, <1>1, <1>2, <1>6, RecvInvAfter
    DEF Accept, LeaveInCallback, Reported
<1>7. CASE ~leaves
  <2>1. /\ GoodList(recvOps')
        /\ IdsOf(recvOps') = KnownIds \cup (IF m.qos = 2 THEN {m.id} ELSE {})
        /\ Len(recvOps') = Len(recvOps) + (IF m.qos = 2 THEN 1 ELSE 0)
        /\ m.qos = 2 => recvOps'[Len(recvOps) + 1].id = m.id
    BY <1>7, AcknowledgeKeeps DEF Accept
  <2>2. OtherTypes'
    BY <1>1, <1>3, <1>7, RecvInvParts DEF Accept, Acknowledge, OtherTypes, Links
  <2> QED
    BY <2>1, <2>2, <1>1, <1>2, <1>7, RecvInvAfter
    DEF Accept, Acknowledge, Reported
<1> QED
  BY <1>5, <1>6, <1>7

\* The list with the operation of a message that is refused.
LEMMA RefusingList ==
    ASSUME RecvInv, ~noStorage
    PROVE  /\ GoodList(Append(recvOps, RecvOp(0, FALSE)))
           /\ IdsOf(Append(recvOps, RecvOp(0, FALSE))) = KnownIds
<1>1. GoodList(recvOps) /\ KnownIds = IdsOf(recvOps) /\ Len(recvOps) < OpsLimit
  <2>1. Len(recvOps) \in Nat
    BY RecvInvParts, LenProperties DEF GoodList
  <2> QED
    BY <2>1, RecvInvParts, Constants DEF noStorage
<1>2. \A id \in {0}, b \in BOOLEAN :
         /\ GoodList(Append(recvOps, RecvOp(id, b)))
         /\ IdsOf(Append(recvOps, RecvOp(id, b))) = IdsOf(recvOps) \cup ({id} \ {0})
  <2> SUFFICES ASSUME NEW id \in {0}, NEW b \in BOOLEAN
               PROVE  /\ GoodList(Append(recvOps, RecvOp(id, b)))
                      /\ IdsOf(Append(recvOps, RecvOp(id, b)))
                            = IdsOf(recvOps) \cup ({id} \ {0})
    OBVIOUS
  <2>1. id \in Ids \cup {0} /\ id = 0
    OBVIOUS
  <2> QED
    BY <1>1, <2>1, AppendGood
<1> QED
  BY <1>1, <1>2

\* What a message that is not reported is answered with.
Refused(m) ==
    /\ Quiet
    /\ link' \in {link, "closing"}
    /\ \/ out' = <<Packet("DISCONNECT", 0, "error")>>
       \/ out' = Ack(m, "error") /\ (m.qos = 2 => m.id \notin KnownIds')
       \/ /\ m.qos = 2 /\ m.id \in KnownIds
          /\ out' = <<Packet("PUBREC", m.id, IF m.dup THEN "success" ELSE "error")>>

\* handle(PublishMsg&)
LEMMA HandlePublishKeeps ==
    ASSUME RecvInv, NEW m, GoodMsg(m), NEW leaves \in BOOLEAN, HandlePublish(m, leaves)
    PROVE  RecvInv' /\ (Reported(m) \/ Refused(m))
<1> DEFINE refusing == Append(recvOps, RecvOp(0, FALSE))
<1>1. GoodList(recvOps) /\ KnownIds = IdsOf(recvOps) /\ OtherTypes
  BY RecvInvParts
<1>2. CASE m.qos = 2 /\ Known(m.id)
  <2>1. Reconfirm(m)
    BY <1>2 DEF HandlePublish
  <2>2. m.id \in KnownIds
    BY <1>2 DEF KnownIds, GoodMsg
  <2> QED
    BY <1>2, <2>1, <2>2, ReconfirmKeeps DEF Refused
<1>3. CASE ~(m.qos = 2 /\ Known(m.id)) /\ noStorage
  <2>1. Termination(recvOps)
    BY <1>3 DEF HandlePublish
  <2> QED
    BY <1>1, <2>1, TerminationKeeps DEF Refused
<1>4. ASSUME ~(m.qos = 2 /\ Known(m.id)), ~noStorage
      PROVE  RecvInv' /\ (Reported(m) \/ Refused(m))
  <2>1. GoodList(refusing) /\ IdsOf(refusing) = KnownIds
    BY <1>4, RefusingList
  <2>2. ASSUME Termination(refusing) PROVE RecvInv' /\ Refused(m)
    BY <2>1, <2>2, TerminationKeeps DEF Refused
  <2>3. m.qos = 2 => m.id \notin KnownIds
    BY <1>4 DEF KnownIds
  <2>4. ASSUME NotAuthorized(m), recvAliases' \in [Aliases -> Topics \cup {NoTopic}]
        PROVE  RecvInv' /\ Refused(m)
    <3>1. RecvInv' /\ Quiet /\ KnownIds' = KnownIds
             /\ out' = Ack(m, "error") /\ link' = link
      BY <2>4, NotAuthorizedKeeps
    <3> QED
      BY <2>3, <3>1 DEF Refused
  <2>5. CASE m.verdict = "bad QoS" \/ tooMany(m)
    BY <1>4, <2>2, <2>5 DEF HandlePublish
  <2>6. CASE ~(m.verdict = "bad QoS" \/ tooMany(m)) /\ link # "up"
    <3>1. NotAuthorized(m) /\ UNCHANGED recvAliases
      BY <1>4, <2>6 DEF HandlePublish
    <3> QED
      BY <1>1, <2>4, <3>1 DEF OtherTypes
  <2>7. CASE /\ ~(m.verdict = "bad QoS" \/ tooMany(m)) /\ link = "up"
             /\ m.verdict = "malformed" \/ aliasInvalid(m) \/ topicUnknown(m)
    BY <1>4, <2>2, <2>7 DEF HandlePublish
  <2>8. CASE /\ ~(m.verdict = "bad QoS" \/ tooMany(m)) /\ link = "up"
             /\ ~(m.verdict = "malformed" \/ aliasInvalid(m) \/ topicUnknown(m))
    <3>1. /\ recvAliases' = learnt(m)
          /\ IF topicOf(m) \in Subscribed THEN Accept(m, leaves) ELSE NotAuthorized(m)
      BY <1>4, <2>8 DEF HandlePublish
    <3>2. learnt(m) \in [Aliases -> Topics \cup {NoTopic}]
      BY <1>1 DEF learnt, OtherTypes, GoodMsg
    <3> QED
      BY <1>4, <2>4, <2>8, <3>1, <3>2, AcceptKeeps
  <2> QED
    BY <2>5, <2>6, <2>7, <2>8
<1> QED
  BY <1>2, <1>3, <1>4

\* handle(PubrelMsg&).  A reception that ends is not known any more.
LEMMA HandlePubrelKeeps ==
    ASSUME RecvInv, NEW id \in Ids, NEW code \in {"success", "error", "refused"},
           HandlePubrel(id, code)
    PROVE  /\ RecvInv' /\ Quiet /\ link' \in {link, "closing"}
           /\ code = "success" => /\ id \notin KnownIds' /\ link' = link
                                  /\ \E c \in {"success", "error"} :
                                        out' = <<Packet("PUBCOMP", id, c)>>
<1>1. GoodList(recvOps) /\ KnownIds = IdsOf(recvOps) /\ OtherTypes
  BY RecvInvParts
<1>2. \A c \in {"success", "error"} : <<Packet("PUBCOMP", id, c)>> \in Seq(ClientPackets)
  BY PacketType, OneElement
<1>3. CASE ~Known(id)
  <2>1. /\ out' = <<Packet("PUBCOMP", id, "error")>> /\ reported' = NoReport
        /\ UNCHANGED <<recvOps, link, expiry, requested, expiryTimer, recvAliases, recvFault>>
    BY <1>3 DEF HandlePubrel, pubrelUnknown
  <2>2. GoodList(recvOps') /\ OtherTypes'
    BY <1>1, <1>2, <2>1, NoReportType DEF OtherTypes
  <2>3. KnownIds' = KnownIds
    BY <2>1 DEF KnownIds, Known
  <2> QED
    BY <1>3, <2>1, <2>2, <2>3, RecvInvAfter DEF Quiet, KnownIds
<1>4. ASSUME Known(id), code = "refused" PROVE RecvInv' /\ Quiet /\ link' = "closing"
  <2> DEFINE ops == [recvOps EXCEPT ![Index(id)].timer = FALSE]
  <2>1. Index(id) \in 1 .. Len(recvOps)
    BY <1>1, <1>4, IndexFinds
  <2>2. GoodList(ops) /\ IdsOf(ops) = KnownIds
    BY <1>1, <2>1, CancelledGood
  <2>3. Termination(ops)
    BY <1>4 DEF HandlePubrel
  <2> HIDE DEF ops
  <2> QED
    BY <2>2, <2>3, TerminationKeeps
<1>5. ASSUME Known(id), code # "refused"
      PROVE  /\ RecvInv' /\ Quiet /\ link' = link /\ id \notin KnownIds'
             /\ out' = IF code = "success" THEN <<Packet("PUBCOMP", id, "success")>>
                                           ELSE <<>>
  <2>1. Index(id) \in 1 .. Len(recvOps) /\ recvOps[Index(id)].id = id
    BY <1>1, <1>5, IndexFinds
  <2>2. /\ recvOps' = RemoveAt(recvOps, Index(id)) /\ reported' = NoReport
        /\ out' = IF code = "success" THEN <<Packet("PUBCOMP", id, "success")>> ELSE <<>>
        /\ UNCHANGED <<link, expiry, requested, expiryTimer, recvAliases, recvFault>>
    BY <1>5 DEF HandlePubrel
  <2>3. GoodList(recvOps') /\ IdsOf(recvOps') \subseteq KnownIds /\ id \notin IdsOf(recvOps')
    BY <1>1, <2>1, <2>2, RemoveGood
  <2>4. OtherTypes'
    BY <1>1, <1>2, <2>2, NoReportType, EmptySeq DEF OtherTypes
  <2> QED
    BY <2>2, <2>3, <2>4, RecvInvAfter DEF Quiet
<1> QED
  BY <1>3, <1>4, <1>5

\* Nothing transmitted, nothing reported.
LEMMA SilentTypes ==
    ASSUME Silent
    PROVE  /\ out' \in Seq(ClientPackets) /\ out' = <<>>
           /\ reported' \in [msg : Nat, topic : Topics \cup {NoTopic}]
           /\ reported' = NoReport
BY NoReportType, EmptySeq DEF Silent

\* A response timer expires, or the timer of the session.
LEMMA TimeoutKeeps ==
    ASSUME RecvInv, (\E i \in 1 .. OpsLimit : ResponseTimeout(i)) \/ SessionExpiryTimeout
    PROVE  RecvInv' /\ Quiet /\ UNCHANGED <<link, expiry>>
<1>1. GoodList(recvOps) /\ KnownIds = IdsOf(recvOps) /\ OtherTypes
  BY RecvInvParts
<1>2. ASSUME NEW i, ResponseTimeout(i) PROVE RecvInv' /\ Quiet /\ UNCHANGED <<link, expiry>>
  <2>1. i \in 1 .. Len(recvOps) /\ recvOps' = RemoveAt(recvOps, i) /\ Silent
    BY <1>1, <1>2, LenProperties DEF ResponseTimeout, GoodList
  <2>2. GoodList(recvOps') /\ IdsOf(recvOps') \subseteq KnownIds
    BY <1>1, <2>1, RemoveGood
  <2>3. OtherTypes'
    BY <1>1, <1>2, <2>1, SilentTypes DEF OtherTypes, ResponseTimeout
  <2> QED
    BY <1>2, <2>1, <2>2, <2>3, RecvInvAfter, SilentTypes DEF Quiet, ResponseTimeout
<1>3. ASSUME SessionExpiryTimeout PROVE RecvInv' /\ Quiet /\ UNCHANGED <<link, expiry>>
  <2>1. GoodList(recvOps') /\ IdsOf(recvOps') = {} /\ Silent
    BY <1>3, EmptyGood DEF SessionExpiryTimeout
  <2>2. OtherTypes'
    BY <1>1, <1>3, <2>1, SilentTypes DEF OtherTypes, SessionExpiryTimeout
  <2> QED
    BY <1>3, <2>1, <2>2, RecvInvAfter, SilentTypes DEF Quiet, SessionExpiryTimeout
<1> QED
  BY <1>2, <1>3

\* A PUBLISH or a CONNACK that comes too late.
LEMMA IgnoreKeeps ==
    ASSUME RecvInv, IgnorePublish \/ IgnoreConnack
    PROVE  RecvInv' /\ Quiet /\ UNCHANGED <<recvOps, link, expiry>> /\ out' = <<>>
              /\ KnownIds' = KnownIds
<1>1. Silent /\ GoodList(recvOps') /\ KnownIds' = KnownIds
  BY RecvInvParts DEF IgnorePublish, IgnoreConnack, Ignored, Silent, KnownIds, Known
<1>2. OtherTypes'
  BY <1>1, RecvInvParts, SilentTypes DEF IgnorePublish, IgnoreConnack, Ignored, OtherTypes
<1> QED
  BY <1>1, <1>2, RecvInvAfter, SilentTypes DEF IgnorePublish, IgnoreConnack, Ignored, Quiet

\* A new connection.
LEMMA ConnectKeeps ==
    ASSUME RecvInv, Connect
    PROVE  /\ RecvInv' /\ Quiet /\ UNCHANGED recvOps
           /\ link' = "connecting" /\ expiry' = "zero"
           /\ out' = <<Packet("CONNECT", 0, "success")>>
<1>1. GoodList(recvOps') /\ KnownIds' = KnownIds
  BY RecvInvParts DEF Connect, KnownIds, Known
<1>2. out' \in Seq(ClientPackets)
  BY PacketType, OneElement DEF Connect
<1>3. NoRecvAliases \in [Aliases -> Topics \cup {NoTopic}]
  BY DEF NoRecvAliases
<1>4. OtherTypes'
  BY <1>2, <1>3, RecvInvParts, NoReportType DEF Connect, OtherTypes, Links, Intervals
<1> QED
  BY <1>1, <1>4, RecvInvAfter DEF Connect, Quiet

\* A connection that fails.
LEMMA ConnectFailsKeeps ==
    ASSUME RecvInv, ConnectFails
    PROVE  /\ RecvInv' /\ Quiet /\ UNCHANGED <<recvOps, expiry>> /\ out' = <<>>
           /\ link = "connecting" /\ link' = "refused" /\ KnownIds' = KnownIds
<1>1. Silent /\ GoodList(recvOps') /\ KnownIds' = KnownIds
  BY RecvInvParts DEF ConnectFails, KnownIds, Known
<1>2. OtherTypes'
  BY <1>1, RecvInvParts, SilentTypes DEF ConnectFails, OtherTypes, Links
<1> QED
  BY <1>1, <1>2, RecvInvAfter, SilentTypes DEF ConnectFails, Quiet

\* The CONNACK and brokerConnected().
LEMMA ConnackKeeps ==
    ASSUME RecvInv, NEW present \in BOOLEAN, NEW interval \in Intervals,
           NEW asked \in BOOLEAN, Connack(present, interval, asked)
    PROVE  /\ RecvInv' /\ Quiet /\ link' = "up" /\ out' = <<>>
           /\ present => KnownIds' = KnownIds
           /\ ~present => KnownIds' = {}
<1>1. GoodList(recvOps) /\ KnownIds = IdsOf(recvOps) /\ OtherTypes
  BY RecvInvParts
<1>2. Silent /\ recvOps' = IF present THEN [i \in DOMAIN recvOps |-> Resumed(recvOps[i])]
                                      ELSE <<>>
  BY DEF Connack
<1>3. GoodList(recvOps') /\ IdsOf(recvOps') = IF present THEN KnownIds ELSE {}
  BY <1>1, <1>2, TimersGood, EmptyGood
<1>4. OtherTypes'
  BY <1>1, <1>2, SilentTypes DEF Connack, OtherTypes, Links
<1> QED
  BY <1>2, <1>3, <1>4, RecvInvAfter, SilentTypes DEF Connack, Quiet

\* DisconnectOp::send()
LEMMA DisconnectKeeps ==
    ASSUME RecvInv, NEW interval \in Intervals \cup {"same"}, Disconnect(interval)
    PROVE  /\ RecvInv' /\ Quiet /\ link' = "closing" /\ expiry' = expiry
           /\ \E p \in ClientPackets : out' = <<p>> /\ p.type = "DISCONNECT"
<1>1. GoodList(recvOps) /\ KnownIds = IdsOf(recvOps) /\ OtherTypes
  BY RecvInvParts
<1>2. GoodList(recvOps') /\ IdsOf(recvOps') \subseteq KnownIds /\ expiryTimer' \in BOOLEAN
  BY <1>1, DisconnectedList DEF Disconnect, OtherTypes
<1> DEFINE p == [Packet("DISCONNECT", 0, "success") EXCEPT !.interval = interval]
<1>3. p \in ClientPackets /\ p.type = "DISCONNECT"
  BY DEF Packet, ClientPackets
<1>4. out' = <<p>>
  BY DEF Disconnect
<1> HIDE DEF p
<1>5. OtherTypes'
  <2>1. out' \in Seq(ClientPackets)
    BY <1>3, <1>4, OneElement
  <2>2. /\ link' = "closing" /\ reported' = NoReport
        /\ UNCHANGED <<expiry, requested, recvAliases, recvFault>>
    BY DEF Disconnect
  <2> QED
    BY <1>1, <1>2, <2>1, <2>2, NoReportType DEF OtherTypes, Links
<1> QED
  BY <1>2, <1>3, <1>4, <1>5, RecvInvAfter DEF Disconnect, Quiet

\* A DISCONNECT from the broker, and a lost network.
LEMMA LossKeeps ==
    ASSUME RecvInv, DisconnectReceived \/ NetworkDisconnected
    PROVE  /\ RecvInv' /\ Quiet /\ link' \in {"closing", "down"} /\ expiry' = expiry
           /\ link = "connecting" /\ expiry = "zero" => recvOps' = <<>>
<1>1. GoodList(recvOps) /\ KnownIds = IdsOf(recvOps) /\ OtherTypes
  BY RecvInvParts
<1>2. GoodList(recvOps') /\ IdsOf(recvOps') \subseteq KnownIds /\ expiryTimer' \in BOOLEAN
  BY <1>1, DisconnectedList DEF DisconnectReceived, NetworkDisconnected, OtherTypes
<1>3. Silent /\ UNCHANGED <<expiry, requested, recvAliases, recvFault>>
         /\ link' \in {"closing", "down"}
  BY DEF DisconnectReceived, NetworkDisconnected
<1>4. link = "connecting" /\ expiry = "zero" => recvOps' = <<>>
  BY <1>1, DisconnectedList DEF DisconnectReceived, NetworkDisconnected, OtherTypes
<1>5. OtherTypes'
  <2>1. link' \in Links
    BY <1>3 DEF Links
  <2>2. out' \in Seq(ClientPackets) /\ reported' \in [msg : Nat, topic : Topics \cup {NoTopic}]
    BY <1>3, SilentTypes
  <2> QED
    BY <1>1, <1>2, <1>3, <2>1, <2>2 DEF OtherTypes
<1> QED
  BY <1>2, <1>3, <1>4, <1>5, RecvInvAfter, SilentTypes DEF Quiet

\* Whatever a broker sends, a step of the client keeps its invariant.
LEMMA RecvStep == RecvInv /\ Next => RecvInv'
<1> SUFFICES ASSUME RecvInv, Next PROVE RecvInv'
  OBVIOUS
<1>1. ASSUME NEW m \in Incoming, NEW leaves \in BOOLEAN, HandlePublish(m, leaves)
      PROVE  RecvInv'
  <2>1. GoodMsg(m)
    <3>1. CASE m \in [id : Ids, qos : {1, 2}, dup : BOOLEAN, msg : {1}, topic : Topics,
                      alias : {NoAlias}, verdict : {"ok"}]
      BY <3>1 DEF GoodMsg, NoAlias
    <3>2. CASE m \in [id : {0}, qos : {0}, dup : {FALSE}, msg : {1},
                      topic : Topics \cup {NoTopic}, alias : NoAlias .. MaxRecvAlias + 1,
                      verdict : {"ok"}]
      <4>1. m.id = 0 /\ m.qos = 0 /\ m.msg = 1 /\ m.topic \in Topics \cup {NoTopic}
        BY <3>2
      <4>2. m.alias \in Int
        BY <3>2, Constants DEF NoAlias
      <4>3. m.dup \in BOOLEAN
        BY <3>2, Zenon
      <4> QED
        BY <4>1, <4>2, <4>3 DEF GoodMsg
    <3>3. CASE m \in [id : Ids, qos : 0 .. 2, dup : {FALSE}, msg : {1}, topic : {NoTopic},
                      alias : {NoAlias}, verdict : {"bad QoS", "malformed"}]
      <4>1. m.id \in Ids /\ m.qos \in 0 .. 2 /\ m.msg = 1 /\ m.topic = NoTopic
        BY <3>3
      <4>2. m.alias \in Int
        <5>1. m.alias = NoAlias
          BY <3>3
        <5> QED
          BY <5>1 DEF NoAlias
      <4>3. m.dup \in BOOLEAN
        BY <3>3, Zenon
      <4> QED
        BY <4>1, <4>2, <4>3 DEF GoodMsg
    <3> QED
      BY <3>1, <3>2, <3>3 DEF Incoming
  <2> QED
    BY <1>1, <2>1, HandlePublishKeeps
<1>2. ASSUME NEW id \in Ids, NEW code \in {"success", "error", "refused"},
             HandlePubrel(id, code)
      PROVE  RecvInv'
  BY <1>2, HandlePubrelKeeps
<1>3. ASSUME NEW present \in BOOLEAN, NEW interval \in Intervals, NEW asked \in BOOLEAN,
             Connack(present, interval, asked)
      PROVE  RecvInv'
  BY <1>3, ConnackKeeps
<1>4. ASSUME NEW interval \in Intervals \cup {"same"}, Disconnect(interval) PROVE RecvInv'
  BY <1>4, DisconnectKeeps
<1>5. ASSUME IgnorePublish \/ IgnoreConnack PROVE RecvInv'
  BY <1>5, IgnoreKeeps
<1>6. ASSUME (\E i \in 1 .. OpsLimit : ResponseTimeout(i)) \/ SessionExpiryTimeout
      PROVE  RecvInv'
  BY <1>6, TimeoutKeeps
<1>7. ASSUME DisconnectReceived \/ NetworkDisconnected PROVE RecvInv'
  BY <1>7, LossKeeps
<1> QED
  BY <1>1, <1>2, <1>3, <1>4, <1>5, <1>6, <1>7, ConnectKeeps, ConnectFailsKeeps DEF Next

------------------------------------------------------------------------------
(* The steps of the two sides.  First a step of the client on a connection that *)
(* is established or lost: it takes at most one packet, and answers no other.   *)

\* The first packet on its way to the client.
LEMMA TailOfChannel ==
    ASSUME NEW S, NEW s \in Seq(S), s # <<>>
    PROVE  /\ Len(s) \in Nat /\ Len(s) > 0 /\ Head(s) = s[1] /\ s[1] \in S
           /\ Tail(s) \in Seq(S) /\ Len(Tail(s)) = Len(s) - 1
           /\ \A i \in 1 .. Len(s) - 1 : Tail(s)[i] = s[i + 1] /\ i + 1 \in 1 .. Len(s)
<1>1. Len(s) \in Nat /\ Len(s) > 0
  BY EmptySeq, LenProperties
<1>2. Head(s) = s[1]
  OBVIOUS
<1>3. s[1] \in S
  BY <1>1, ElementOfSeq
<1> QED
  BY <1>1, <1>2, <1>3, HeadTailProperties

\* A packet id in use stands for a message.
LEMMA UsedMsg ==
    ASSUME BrokerTypes, ExchangeInv, NEW id \in Ids
    PROVE  /\ exchange[id].st \in {"free", "pub", "rel"}
           /\ exchange[id].st # "free" => exchange[id].msg \in Msgs /\ exchange[id].msg # NoMsg
<1>1. exchange[id] \in [st : {"free", "pub", "rel"}, msg : Msgs \cup {NoMsg}]
  BY DEF BrokerTypes
<1>2. exchange[id].st # "free" => exchange[id].msg \in 1 .. published
  BY DEF ExchangeInv
<1> QED
  BY <1>1, <1>2 DEF BrokerTypes, NoMsg

\* Receptions stay stale until none is left.
StaleStep ==
    /\ stale' \in BOOLEAN /\ (stale' => stale)
    /\ stale /\ ~stale' => KnownIds' = {}

EstablishedStep ==
    /\ \A i \in 1 .. Len(toClient) : toClient[i].type # "CONNACK"
    /\ \A i \in 1 .. Len(toBroker) : toBroker[i].type # "CONNECT"
    /\ link' # "connecting"
    /\ link' = "refused" => link = "refused" /\ KnownIds' \subseteq KnownIds
    /\ UNCHANGED <<conforming, content, exchange, published, completed>>
    /\ \A m \in Msgs : /\ delivered[m] > 0 => delivered'[m] > 0
                       /\ m \in mistaken => delivered'[m] > 0 \/ m \in mistaken'
    /\ StaleStep
    /\ toBroker' = toBroker \o out' /\ out' \in Seq(ClientPackets)
    /\ ~stale' =>
          \A id \in KnownIds' : reception'[id] # NoMsg /\ exchange[id].msg = reception'[id]
    /\ \A i \in 1 .. Len(out') : out'[i].type # "CONNECT"
    /\ \/ /\ toClient' = toClient /\ KnownIds' \subseteq KnownIds
          /\ \A i \in 1 .. Len(out') : out'[i].type \notin Acks
       \/ /\ toClient # <<>> /\ toClient' = Tail(toClient)
          /\ KnownIds' \subseteq KnownIds \cup {toClient[1].id}
          /\ \A i \in 1 .. Len(out') :
                out'[i].type \in Acks =>
                   /\ i = Len(out') /\ out'[i].id = toClient[1].id
                   /\ AckOK(out[i])'

\* Such a step keeps what is known of the channels.
LEMMA EstablishedKeeps ==
    ASSUME BrokerTypes, ExchangeInv, ConformingInv, BrokerTypes', EstablishedStep
    PROVE  ConformingInv'
<1> DEFINE n == Len(toClient)
           b == Len(toBroker)
<1>1. /\ n \in Nat /\ b \in Nat /\ Len(out') \in Nat
      /\ Len(toBroker') = b + Len(out')
      /\ \A i \in 1 .. b : toBroker'[i] = toBroker[i]
      /\ \A i \in 1 .. Len(out') : toBroker'[b + i] = out'[i]
      /\ \A i \in 1 .. Len(toBroker') :
            i \in 1 .. b \/ (i - b \in 1 .. Len(out') /\ toBroker'[i] = out'[i - b])
  <2>1. toBroker \in Seq(ClientPackets) /\ toClient \in Seq(BrokerPackets)
           /\ out' \in Seq(ClientPackets) /\ toBroker' = toBroker \o out'
    BY DEF BrokerTypes, EstablishedStep
  <2>2. n \in Nat /\ b \in Nat /\ Len(out') \in Nat
    BY <2>1, LenProperties
  <2>3. /\ Len(toBroker \o out') = b + Len(out')
        /\ \A i \in 1 .. b + Len(out') : (toBroker \o out')[i] =
              IF i <= b THEN toBroker[i] ELSE out'[i - b]
    BY <2>1, ConcatProperties
  <2> QED
    BY <2>1, <2>2, <2>3
<1>2. \A i \in 1 .. n : toClient[i].type # "CONNACK"
  BY DEF EstablishedStep
<1>3. /\ Len(toClient') \in Nat
      /\ \A i \in 1 .. Len(toClient') :
            \E j \in 1 .. n : toClient'[i] = toClient[j]
                              /\ (toClient' # toClient => j = i + 1)
                              /\ (toClient' = toClient => j = i)
  <2>1. CASE toClient' = toClient
    BY <2>1, <1>1
  <2>2. CASE toClient' # toClient
    <3>1. toClient # <<>> /\ toClient' = Tail(toClient) /\ toClient \in Seq(BrokerPackets)
      BY <2>2 DEF EstablishedStep, BrokerTypes
    <3>2. /\ Len(toClient') = n - 1 /\ n > 0
          /\ \A i \in 1 .. n - 1 : toClient'[i] = toClient[i + 1] /\ i + 1 \in 1 .. n
      BY <3>1, TailOfChannel
    <3> QED
      BY <2>2, <3>2, <1>1
  <2> QED
    BY <2>1, <2>2
<1>4. ToClientInv'
  BY <1>2, <1>3 DEF ConformingInv, ToClientInv, EstablishedStep
<1>5. \A i \in 1 .. b : AckOK(toBroker[i]) /\ toBroker[i].type # "CONNECT"
  BY DEF ConformingInv, ToBrokerInv, EstablishedStep
<1>6. \A i \in 1 .. b : toBroker[i] \in ClientPackets
  BY <1>1, ElementOfSeq DEF BrokerTypes
<1>7. \A i \in 1 .. b : toBroker[i].type \in {"PUBREC", "PUBCOMP"}
                           /\ toBroker[i].id \notin KnownIds => toBroker[i].id \notin KnownIds'
  <2> SUFFICES ASSUME NEW i \in 1 .. b, toBroker[i].type \in {"PUBREC", "PUBCOMP"},
                      toBroker[i].id \notin KnownIds
               PROVE  toBroker[i].id \notin KnownIds'
    OBVIOUS
  <2>1. CASE KnownIds' \subseteq KnownIds
    BY <2>1
  <2>2. CASE toClient # <<>> /\ KnownIds' \subseteq KnownIds \cup {toClient[1].id}
    <3>1. 1 \in 1 .. n
      BY <2>2, EmptySeq, <1>1 DEF BrokerTypes
    <3>2. toClient[1].id # toBroker[i].id
      BY <1>2, <3>1 DEF ConformingInv, OnePacketPerId, Acks
    <3> QED
      BY <2>2, <3>2
  <2> QED
    BY <2>1, <2>2 DEF EstablishedStep
<1>8. \A i \in 1 .. b : toBroker[i].id \in Ids /\ exchange[toBroker[i].id].st # "free"
                           => exchange[toBroker[i].id].msg \in Msgs
  BY UsedMsg
<1>9. ToBrokerInv'
  <2> SUFFICES ASSUME NEW i \in 1 .. Len(toBroker')
               PROVE  AckOK(toBroker[i])' /\ toBroker'[i].type # "CONNECT"
    BY DEF ToBrokerInv
  <2>1. CASE i \in 1 .. b
    <3>1. toBroker'[i] = toBroker[i] /\ AckOK(toBroker[i])
      BY <2>1, <1>1, <1>5
    <3>2. /\ UNCHANGED <<exchange, content>>
          /\ \A m \in Msgs : /\ delivered[m] > 0 => delivered'[m] > 0
                             /\ m \in mistaken => delivered'[m] > 0 \/ m \in mistaken'
          /\ stale => stale' \/ KnownIds' = {}
      BY DEF EstablishedStep, StaleStep
    <3> QED
      BY <2>1, <3>1, <3>2, <1>5, <1>7, <1>8 DEF AckOK
  <2>2. CASE i - b \in 1 .. Len(out') /\ toBroker'[i] = out'[i - b]
    <3>1. toBroker'[i].type # "CONNECT"
      BY <2>2 DEF EstablishedStep
    <3>2. CASE toBroker'[i].type \notin Acks
      BY <3>1, <3>2 DEF AckOK, Acks
    <3>3. CASE toBroker'[i].type \in Acks
      <4>1. PICK k \in 1 .. Len(out') : k = i - b
        BY <2>2
      <4>2. AckOK(out[k])' /\ toBroker'[i] = out'[k]
        BY <2>2, <3>3, <4>1 DEF EstablishedStep
      <4> QED
        BY <3>1, <4>2 DEF AckOK
    <3> QED
      BY <3>2, <3>3
  <2> QED
    BY <2>1, <2>2, <1>1
<1>10. Connecting'
  BY DEF ConformingInv, Connecting, EstablishedStep, StaleStep
<1>11. Agreed'
  <2>1. ~stale' => \A id \in KnownIds' : /\ reception'[id] # NoMsg
                                         /\ exchange'[id].msg = reception'[id]
    BY DEF EstablishedStep
  <2>2. ASSUME ~stale', NEW i \in 1 .. Len(toClient'),
               toClient'[i].type = "PUBLISH", ~toClient'[i].dup
        PROVE  toClient'[i].id \notin KnownIds'
    <3>1. PICK j \in 1 .. n : /\ toClient'[i] = toClient[j]
                              /\ (toClient' # toClient => j = i + 1)
      BY <1>3
    <3>0. CASE stale
      BY <2>2, <3>0 DEF EstablishedStep, StaleStep
    <3>2. ~stale => toClient[j].id \notin KnownIds
      <4>1. ~Anew
        BY <1>1, <1>2 DEF Anew
      <4> QED
        BY <2>2, <3>1, <4>1 DEF ConformingInv, Agreed
    <3>3. CASE ~stale /\ KnownIds' \subseteq KnownIds
      BY <3>1, <3>2, <3>3
    <3>4. CASE /\ ~stale /\ toClient # <<>> /\ toClient' = Tail(toClient)
               /\ KnownIds' \subseteq KnownIds \cup {toClient[1].id}
      <4>1. 1 \in 1 .. n /\ Len(toClient') = n - 1
        BY <3>4, TailOfChannel DEF BrokerTypes
      <4>2. j # 1
        BY <3>1, <4>1, <1>1
      <4>3. toClient[j].id # toClient[1].id
        BY <4>1, <4>2, <1>2 DEF ConformingInv, OnePacketPerId
      <4> QED
        BY <3>1, <3>2, <3>4, <4>3
    <3> QED
      BY <3>0, <3>3, <3>4 DEF EstablishedStep
  <2> QED
    BY <2>1, <2>2 DEF Agreed
<1>12. OnePacketPerId'
  <2>1. ASSUME NEW i \in 1 .. Len(toClient'), NEW j \in 1 .. Len(toClient'),
               toClient'[i].id = toClient'[j].id
        PROVE  i = j
    <3>1. PICK k \in 1 .. n : /\ toClient'[i] = toClient[k]
                              /\ (toClient' # toClient => k = i + 1)
                              /\ (toClient' = toClient => k = i)
      BY <1>3
    <3>2. PICK l \in 1 .. n : /\ toClient'[j] = toClient[l]
                              /\ (toClient' # toClient => l = j + 1)
                              /\ (toClient' = toClient => l = j)
      BY <1>3
    <3>3. k = l
      BY <2>1, <3>1, <3>2, <1>2 DEF ConformingInv, OnePacketPerId
    <3> QED
      BY <3>1, <3>2, <3>3, <1>3
  <2>2. ASSUME NEW i \in 1 .. Len(out'), out'[i].type \in Acks
        PROVE  /\ i = Len(out') /\ out'[i].id = toClient[1].id /\ 1 \in 1 .. n
               /\ toClient' = Tail(toClient) /\ Len(toClient') = n - 1
    <3>1. /\ toClient # <<>> /\ toClient' = Tail(toClient)
          /\ i = Len(out') /\ out'[i].id = toClient[1].id
      BY <2>2 DEF EstablishedStep
    <3> QED
      BY <3>1, TailOfChannel DEF BrokerTypes
  <2>3. ASSUME NEW i \in 1 .. b, NEW j \in 1 .. Len(out'),
               toBroker[i].type \in Acks, out'[j].type \in Acks
        PROVE  toBroker[i].id # out'[j].id
    BY <2>2, <2>3, <1>2 DEF ConformingInv, OnePacketPerId
  <2>4. ASSUME NEW i \in 1 .. Len(toBroker'), NEW j \in 1 .. Len(toBroker'),
               toBroker'[i].type \in Acks, toBroker'[j].type \in Acks,
               toBroker'[i].id = toBroker'[j].id
        PROVE  i = j
    <3>1. CASE i \in 1 .. b /\ j \in 1 .. b
      BY <2>4, <3>1, <1>1 DEF ConformingInv, OnePacketPerId
    <3>2. CASE i \in 1 .. b /\ j - b \in 1 .. Len(out') /\ toBroker'[j] = out'[j - b]
      BY <2>3, <2>4, <3>2, <1>1
    <3>3. CASE j \in 1 .. b /\ i - b \in 1 .. Len(out') /\ toBroker'[i] = out'[i - b]
      BY <2>3, <2>4, <3>3, <1>1
    <3>4. CASE /\ i - b \in 1 .. Len(out') /\ toBroker'[i] = out'[i - b]
               /\ j - b \in 1 .. Len(out') /\ toBroker'[j] = out'[j - b]
      <4>1. i - b = Len(out') /\ j - b = Len(out')
        BY <2>2, <2>4, <3>4
      <4> QED
        BY <4>1, <1>1
    <3> QED
      BY <3>1, <3>2, <3>3, <3>4, <1>1
  <2>5. ASSUME NEW i \in 1 .. Len(toClient'), NEW j \in 1 .. Len(toBroker'),
               toBroker'[j].type \in Acks
        PROVE  toClient'[i].id # toBroker'[j].id
    <3>1. PICK k \in 1 .. n : /\ toClient'[i] = toClient[k]
                              /\ (toClient' # toClient => k = i + 1)
      BY <1>3
    <3>2. CASE j \in 1 .. b
      BY <2>5, <3>1, <3>2, <1>1, <1>2 DEF ConformingInv, OnePacketPerId
    <3>3. CASE j - b \in 1 .. Len(out') /\ toBroker'[j] = out'[j - b]
      <4>1. /\ out'[j - b].id = toClient[1].id /\ 1 \in 1 .. n
            /\ Len(toClient') = n - 1
        BY <2>2, <2>5, <3>3
      <4>2. k # 1
        BY <3>1, <4>1, <1>1
      <4> QED
        BY <3>1, <3>3, <4>1, <4>2, <1>2 DEF ConformingInv, OnePacketPerId
    <3> QED
      BY <3>2, <3>3, <1>1
  <2> QED
    BY <2>1, <2>4, <2>5 DEF OnePacketPerId
<1> QED
  BY <1>4, <1>9, <1>10, <1>11, <1>12 DEF ConformingInv

\* What is recorded of a step that reports nothing.
LEMMA RecordedQuiet ==
    ASSUME BrokerTypes, Quiet, Recorded
    PROVE  UNCHANGED <<delivered, reception>>
<1>1. reported'.msg = NoMsg
  BY DEF Quiet, NoReport
<1>2. \A x \in Msgs : x # NoMsg
  BY DEF Msgs, NoMsg
<1>3. delivered' = [x \in Msgs |-> delivered[x]]
  BY <1>1, <1>2 DEF Recorded
<1>4. reception' = [id \in Ids |-> reception[id]]
  BY <1>1 DEF Recorded
<1> QED
  BY <1>3, <1>4 DEF BrokerTypes

\* Receptions do not become stale with a step that is recorded.
LEMMA RecordedStale ==
    ASSUME BrokerTypes, Recorded
    PROVE  StaleStep
<1>1. recvOps' = <<>> => KnownIds' = {}
  BY DEF KnownIds, Known
<1>2. stale' = (stale /\ recvOps' # <<>>) /\ stale \in BOOLEAN
  BY DEF Recorded, BrokerTypes
<1> QED
  BY <1>1, <1>2 DEF StaleStep

\* A step that reports nothing, and takes no message for another, leaves the mistaken ones.
LEMMA MistakenQuiet ==
    ASSUME BrokerTypes, Quiet, NEW p,
           mistaken' = (mistaken \cup Taken(p)) \ {reported'.msg}
    PROVE  /\ mistaken' = mistaken \cup Taken(p) /\ mistaken' \subseteq Msgs
           /\ p.type # "PUBLISH" => mistaken' = mistaken
<1>1. reported'.msg = NoMsg /\ NoMsg \notin Msgs
  BY DEF Quiet, NoReport, Msgs, NoMsg
<1>2. Taken(p) \subseteq Msgs /\ mistaken \subseteq Msgs
  BY DEF Taken, BrokerTypes
<1>3. p.type # "PUBLISH" => Taken(p) = {}
  BY DEF Taken
<1> QED
  BY <1>1, <1>2, <1>3

\* What is recorded of a message that is reported.
LEMMA RecordedReport ==
    ASSUME RecvInv, RecvInv', BrokerTypes, recvFault = "none",
           NEW p, p.msg \in Msgs, p.qos = 2 => p.id \in Ids, Reported(p), Recorded
    PROVE  /\ delivered' = [delivered EXCEPT ![p.msg] =
                              IF delivered[p.msg] = 0 \/ content[p.msg].qos = 1 THEN 1 ELSE 2]
           /\ reception' = IF recvFault' = "none" /\ p.qos = 2
                           THEN [reception EXCEPT ![p.id] = p.msg] ELSE reception
<1>1. reported'.msg = p.msg /\ p.msg # NoMsg
  BY DEF Reported, Msgs, NoMsg
<1>2. delivered' = [delivered EXCEPT ![p.msg] =
                      IF delivered[p.msg] = 0 \/ content[p.msg].qos = 1 THEN 1 ELSE 2]
  BY <1>1 DEF Recorded, BrokerTypes
<1> DEFINE new == {recvOps'[i].id : i \in {j \in DOMAIN recvOps' : j > Len(recvOps)}}
<1>3. reception' = [id \in Ids |-> IF id \in new THEN p.msg ELSE reception[id]]
  BY <1>1 DEF Recorded
<1>4. Len(recvOps) \in Nat /\ DOMAIN recvOps' = 1 .. Len(recvOps')
  <2>1. recvOps \in Seq(RecvOpSet) /\ recvOps' \in Seq(RecvOpSet)
    BY DEF RecvInv, RecvTypeOK, RecvOpSet
  <2> QED
    BY <2>1, LenProperties
<1>5. ASSUME recvFault' = "none", p.qos = 2 PROVE new = {p.id}
  <2>1. Len(recvOps') = Len(recvOps) + 1 /\ recvOps'[Len(recvOps) + 1].id = p.id
    BY <1>5 DEF Reported
  <2> QED
    BY <2>1, <1>4
<1>6. ASSUME ~(recvFault' = "none" /\ p.qos = 2) PROVE new = {}
  <2>1. Len(recvOps') = Len(recvOps) \/ Len(recvOps') = 0
    <3>1. CASE recvOps' = <<>>
      BY <3>1
    <3>2. CASE /\ recvFault' = recvFault
               /\ Len(recvOps') = Len(recvOps) + (IF p.qos = 2 THEN 1 ELSE 0)
      BY <1>4, <1>6, <3>2
    <3> QED
      BY <3>1, <3>2 DEF Reported
  <2> QED
    BY <2>1, <1>4
<1> HIDE DEF new
<1>7. CASE recvFault' = "none" /\ p.qos = 2
  BY <1>2, <1>3, <1>5, <1>7 DEF BrokerTypes
<1>8. CASE ~(recvFault' = "none" /\ p.qos = 2)
  BY <1>2, <1>3, <1>6, <1>8 DEF BrokerTypes
<1> QED
  BY <1>7, <1>8

\* A PUBLISH of the conforming broker.
LEMMA PublishPacketGood ==
    ASSUME BrokerTypes, NEW i \in 1 .. Len(toClient), toClient[i].type = "PUBLISH"
    PROVE  /\ toClient[i] \in PublishPackets /\ GoodMsg(toClient[i])
           /\ toClient[i].id \in Ids /\ toClient[i].msg \in Msgs /\ toClient[i].qos \in {1, 2}
<1>1. toClient[i] \in BrokerPackets
  BY ElementOfSeq DEF BrokerTypes
<1>2. toClient[i] \in PublishPackets
  BY <1>1 DEF BrokerPackets, PubrelPackets, ConnackPackets
<1> DEFINE p == toClient[i]
<1>3. /\ p.id \in Ids /\ p.qos \in {1, 2} /\ p.dup \in BOOLEAN /\ p.msg \in Msgs
      /\ p.topic \in Topics \cup {NoTopic} /\ p.alias \in Aliases \cup {NoAlias}
  BY <1>2 DEF PublishPackets
<1>4. p.alias \in Int /\ p.msg \in Nat
  BY <1>3, Constants DEF Aliases, NoAlias, Msgs
<1> HIDE DEF p
<1>5. GoodMsg(p)
  BY <1>3, <1>4 DEF GoodMsg
<1> QED
  BY <1>2, <1>3, <1>5 DEF p

\* The types when the client takes a step.
LEMMA ClientStepTypes ==
    ASSUME BrokerTypes, UNCHANGED <<conforming, content, exchange, published, completed>>,
           reception' \in [Ids -> Msgs \cup {NoMsg}], delivered' \in [Msgs -> 0 .. 2],
           stale' \in BOOLEAN, mistaken' \subseteq Msgs,
           toClient' = toClient \/ (toClient # <<>> /\ toClient' = Tail(toClient)),
           out' \in Seq(ClientPackets), toBroker' = toBroker \o out'
    PROVE  BrokerTypes'
<1>1. toClient' \in Seq(BrokerPackets)
  <2>1. toClient \in Seq(BrokerPackets)
    BY DEF BrokerTypes
  <2>2. toClient # <<>> => Tail(toClient) \in Seq(BrokerPackets)
    BY <2>1, HeadTailProperties
  <2> QED
    BY <2>1, <2>2
<1>2. toBroker' \in Seq(ClientPackets)
  BY ConcatProperties DEF BrokerTypes
<1> QED
  BY <1>1, <1>2 DEF BrokerTypes

\* On a connection the client has not been told of, nothing but CONNACK is first.
LEMMA EstablishedFirst ==
    ASSUME ConformingInv, BrokerTypes, toClient # <<>>, toClient[1].type # "CONNACK"
    PROVE  /\ link # "connecting" /\ ~Anew
           /\ \A i \in 1 .. Len(toClient) : toClient[i].type # "CONNACK"
           /\ \A i \in 1 .. Len(toBroker) : toBroker[i].type # "CONNECT"
BY DEF ConformingInv, Connecting, ToClientInv, ToBrokerInv, Anew

\* A session that was not kept is announced to a client that waits for it, or did.
LEMMA AnewConnecting ==
    ASSUME BrokerTypes, ConformingInv, Anew
    PROVE  /\ link \in {"connecting", "refused"}
           /\ link = "connecting" => expiry = "zero"
           /\ link = "refused" /\ ~stale => KnownIds = {}
<1>1. 1 \in 1 .. Len(toClient)
  BY LenProperties DEF BrokerTypes, Anew
<1> QED
  BY <1>1 DEF Anew, ConformingInv, ToClientInv, Connecting

\* A PUBLISH the client does not report.
LEMMA RefusedKeeps ==
    ASSUME RecvInv', BrokerTypes, ExchangeInv, ReceptionInv, ConformingInv,
           toClient # <<>>, toClient[1].type = "PUBLISH", toClient' = Tail(toClient),
           toBroker' = toBroker \o out',
           UNCHANGED <<conforming, content, exchange, published, completed>>,
           UNCHANGED <<delivered, reception>>, StaleStep,
           mistaken' = mistaken \cup Taken(toClient[1]), mistaken' \subseteq Msgs,
           Refused(toClient[1]) \/ (Quiet /\ link' = link /\ out' = <<>>)
    PROVE  BrokerTypes' /\ ExchangeInv' /\ ReceptionInv' /\ ConformingInv'
<1> DEFINE p == toClient[1]
<1>1. 1 \in 1 .. Len(toClient)
  BY TailOfChannel DEF BrokerTypes
<1>2. /\ p.id \in Ids /\ p.msg \in Msgs /\ p.qos \in {1, 2} /\ GoodMsg(p)
      /\ exchange[p.id].st = "pub" /\ exchange[p.id].msg = p.msg
      /\ content[p.msg].qos = p.qos
  <2>1. p.id \in Ids /\ p.msg \in Msgs /\ p.qos \in {1, 2} /\ GoodMsg(p)
    BY <1>1, PublishPacketGood
  <2>2. exchange[p.id] = [st |-> "pub", msg |-> p.msg] /\ p.qos = content[p.msg].qos
    BY <1>1 DEF ConformingInv, ToClientInv
  <2> QED
    BY <2>1, <2>2
<1>3. out' \in Seq(ClientPackets)
  BY DEF RecvInv, RecvTypeOK, ClientPackets
<1>4. BrokerTypes'
  BY <1>3, ClientStepTypes DEF BrokerTypes, StaleStep
<1>5. ExchangeInv' /\ ReceptionInv'
  <2>1. \A id \in Ids : reception[id] # NoMsg => reception[id] \notin Taken(p)
    BY <1>2 DEF Taken, ReceptionInv
  <2> QED
    BY <2>1 DEF ExchangeInv, ReceptionInv
<1>6. /\ link # "connecting" /\ ~Anew /\ link' # "connecting"
      /\ link' = "refused" => link = "refused"
  BY EstablishedFirst DEF Refused
<1>7. KnownIds' \subseteq KnownIds
  BY DEF Refused, Quiet
<1>8. ~stale => \A id \in KnownIds : /\ reception[id] # NoMsg
                                     /\ exchange[id].msg = reception[id]
  BY <1>6 DEF ConformingInv, Agreed
<1>81. ~stale' => \A id \in KnownIds' : /\ reception[id] # NoMsg
                                        /\ exchange[id].msg = reception[id]
  BY <1>7, <1>8 DEF StaleStep
<1>9. ASSUME NEW i \in 1 .. Len(out')
      PROVE  /\ out'[i].type # "CONNECT"
             /\ out'[i].type \in Acks => i = Len(out') /\ out'[i].id = p.id /\ AckOK(out[i])'
  <2>1. CASE out' = <<>>
    BY <2>1
  <2>2. CASE out' = <<Packet("DISCONNECT", 0, "error")>>
    <3>1. out'[i].type = "DISCONNECT"
      BY <2>2 DEF Packet
    <3> QED
      BY <3>1 DEF Acks
  <2>3. CASE out' = Ack(p, "error") /\ (p.qos = 2 => p.id \notin KnownIds')
    <3>1. out' = <<Packet(AckType(p.qos), p.id, "error")>>
      BY <1>2, <2>3 DEF Ack
    <3>2. /\ i = 1 /\ Len(out') = 1 /\ out'[i].type = AckType(p.qos)
          /\ out'[i].id = p.id /\ out'[i].code = "error"
      BY <3>1 DEF Packet
    <3> QED
      BY <1>2, <2>3, <3>2 DEF AckOK, AckType
  <2>4. CASE /\ p.qos = 2 /\ p.id \in KnownIds
             /\ out' = <<Packet("PUBREC", p.id, IF p.dup THEN "success" ELSE "error")>>
    <3>1. p.dup \/ stale
      BY <1>1, <1>6, <2>4 DEF ConformingInv, Agreed
    <3>2. /\ i = 1 /\ Len(out') = 1 /\ out'[i].type = "PUBREC"
          /\ out'[i].id = p.id /\ out'[i].code = IF p.dup THEN "success" ELSE "error"
      BY <2>4 DEF Packet
    <3>3. delivered[exchange[p.id].msg] > 0 \/ exchange[p.id].msg \in mistaken'
      <4>1. CASE reception[p.id] = p.msg
        BY <4>1, <1>2 DEF ReceptionInv, Msgs, NoMsg
      <4>2. CASE reception[p.id] # p.msg
        <5>1. stale /\ Known(p.id)
          BY <4>2, <1>2, <1>8, <2>4 DEF BrokerTypes, KnownIds
        <5>2. p.msg \in Taken(p)
          BY <4>2, <5>1, <1>2, <2>4 DEF Taken
        <5> QED
          BY <5>2, <1>2
      <4> QED
        BY <4>1, <4>2
    <3>4. stale /\ ~stale' => p.id \notin KnownIds'
      BY DEF StaleStep
    <3> QED
      BY <1>2, <2>4, <3>1, <3>2, <3>3, <3>4 DEF AckOK
  <2> QED
    BY <2>1, <2>2, <2>3, <2>4 DEF Refused
<1>10. EstablishedStep
  BY <1>3, <1>6, <1>7, <1>81, <1>9, EstablishedFirst DEF EstablishedStep
<1> QED
  BY <1>4, <1>5, <1>10, EstablishedKeeps

\* A PUBLISH the client reports.
LEMMA ReportedKeeps ==
    ASSUME RecvInv, RecvInv', recvFault = "none",
           BrokerTypes, ExchangeInv, ReceptionInv, ConformingInv,
           toClient # <<>>, toClient[1].type = "PUBLISH", toClient' = Tail(toClient),
           toBroker' = toBroker \o out',
           UNCHANGED <<conforming, content, exchange, published, completed>>,
           Reported(toClient[1]), Recorded, StaleStep,
           mistaken' = (mistaken \cup Taken(toClient[1])) \ {reported'.msg}
    PROVE  BrokerTypes' /\ ExchangeInv' /\ ReceptionInv' /\ ConformingInv'
<1> DEFINE p == toClient[1]
           x == IF delivered[p.msg] = 0 \/ content[p.msg].qos = 1 THEN 1 ELSE 2
<1>1. 1 \in 1 .. Len(toClient)
  BY TailOfChannel DEF BrokerTypes
<1>2. /\ p.id \in Ids /\ p.msg \in Msgs /\ p.qos \in {1, 2} /\ GoodMsg(p)
      /\ exchange[p.id].st = "pub" /\ exchange[p.id].msg = p.msg
      /\ content[p.msg].qos = p.qos
  <2>1. p.id \in Ids /\ p.msg \in Msgs /\ p.qos \in {1, 2} /\ GoodMsg(p)
    BY <1>1, PublishPacketGood
  <2>2. exchange[p.id] = [st |-> "pub", msg |-> p.msg] /\ p.qos = content[p.msg].qos
    BY <1>1 DEF ConformingInv, ToClientInv
  <2> QED
    BY <2>1, <2>2
<1>3. out' \in Seq(ClientPackets)
  BY DEF RecvInv, RecvTypeOK, ClientPackets
<1>4. /\ delivered' = [delivered EXCEPT ![p.msg] = x]
      /\ reception' = IF recvFault' = "none" /\ p.qos = 2
                      THEN [reception EXCEPT ![p.id] = p.msg] ELSE reception
  BY <1>2, RecordedReport
<1>5. x \in {1, 2}
  OBVIOUS
<1> HIDE DEF x
<1>6. /\ delivered' \in [Msgs -> 0 .. 2] /\ delivered'[p.msg] > 0
      /\ \A m \in Msgs : delivered[m] > 0 => delivered'[m] > 0
  BY <1>2, <1>4, <1>5 DEF BrokerTypes
<1>61. /\ mistaken' \subseteq Msgs /\ mistaken' \subseteq mistaken /\ p.msg \notin mistaken'
       /\ \A m \in Msgs : m \in mistaken => delivered'[m] > 0 \/ m \in mistaken'
  <2>1. reported'.msg = p.msg
    BY DEF Reported
  <2>2. Taken(p) \subseteq Msgs /\ Taken(p) \subseteq {p.msg}
    BY DEF Taken
  <2> QED
    BY <1>6, <2>1, <2>2 DEF BrokerTypes
<1>7. reception' \in [Ids -> Msgs \cup {NoMsg}]
  BY <1>2, <1>4 DEF BrokerTypes
<1>8. BrokerTypes'
  BY <1>3, <1>6, <1>61, <1>7, ClientStepTypes DEF StaleStep
<1>9. \A id \in Ids : exchange[id].st # "free" => exchange[id].msg \in Msgs
  BY UsedMsg
<1>10. ExchangeInv'
  BY <1>6, <1>61, <1>9 DEF ExchangeInv
<1>11. \A id \in Ids : \/ reception'[id] = reception[id]
                       \/ id = p.id /\ reception'[id] = p.msg /\ p.qos = 2
  BY <1>2, <1>4 DEF BrokerTypes
<1>12. /\ p.msg \in 1 .. published /\ p.msg # NoMsg
       /\ \A id \in Ids : exchange[id].msg = p.msg => id = p.id
       /\ \A id \in Ids : reception[id] = p.msg => id = p.id
  BY <1>2 DEF ExchangeInv, ReceptionInv, Msgs, NoMsg
<1>13. ReceptionInv'
  <2>1. ASSUME NEW id \in Ids, reception'[id] # NoMsg
        PROVE  /\ reception'[id] \in 1 .. published
               /\ content[reception'[id]].qos = 2
               /\ delivered'[reception'[id]] > 0
               /\ reception'[id] \notin mistaken'
    <3>1. CASE reception'[id] = reception[id]
      <4>1. reception[id] \in Msgs
        BY <2>1, <3>1 DEF BrokerTypes
      <4> QED
        BY <2>1, <3>1, <4>1, <1>6, <1>61 DEF ReceptionInv
    <3>2. CASE id = p.id /\ reception'[id] = p.msg /\ p.qos = 2
      BY <3>2, <1>2, <1>6, <1>61, <1>12
    <3> QED
      BY <3>1, <3>2, <1>11
  <2>2. ASSUME NEW id \in Ids, NEW y \in Ids, reception'[id] # NoMsg
        PROVE  /\ reception'[y] = reception'[id] => id = y
               /\ exchange[y].msg = reception'[id] => id = y
    BY <2>2, <1>11, <1>12 DEF ReceptionInv
  <2> QED
    BY <2>1, <2>2 DEF ReceptionInv
<1>14. link # "connecting" /\ ~Anew /\ link' # "connecting" /\ link' # "refused"
  BY EstablishedFirst DEF Reported
<1>15. ~stale => \A id \in KnownIds : /\ reception[id] # NoMsg
                                      /\ exchange[id].msg = reception[id]
  BY <1>14 DEF ConformingInv, Agreed
<1> DEFINE disc == Packet("DISCONNECT", 0, "success")
           ack == Packet(AckType(p.qos), p.id, "success")
<1>16. /\ disc.type = "DISCONNECT" /\ disc \in ClientPackets
       /\ ack.type = AckType(p.qos) /\ ack.id = p.id /\ ack \in ClientPackets
       /\ Ack(p, "success") = <<ack>>
  <2>1. AckType(p.qos) \in {"PUBACK", "PUBREC"}
    BY DEF AckType
  <2> QED
    BY <2>1, <1>2, PacketType DEF Ack
<1>17. ASSUME NEW i \in 1 .. Len(out'), out'[i] = ack PROVE AckOK(out[i])'
  <2>1. /\ out'[i].type = AckType(p.qos) /\ out'[i].id = p.id /\ out'[i].code = "success"
    BY <1>17 DEF Packet
  <2> QED
    BY <2>1, <1>2, <1>6 DEF AckOK, AckType
<1> HIDE DEF disc, ack
<1>18. CASE recvFault' # "none" /\ recvOps' = <<>> /\ out' = <<disc>>
  <2>1. KnownIds' = {}
    BY <1>18 DEF KnownIds, Known
  <2>2. \A i \in 1 .. Len(out') : out'[i].type # "CONNECT" /\ out'[i].type \notin Acks
    BY <1>16, <1>18 DEF Acks
  <2>3. EstablishedStep
    BY <1>3, <1>6, <1>61, <1>14, <2>1, <2>2, EstablishedFirst DEF EstablishedStep
  <2> QED
    BY <2>3, <1>8, <1>10, <1>13, EstablishedKeeps
<1>19. CASE /\ recvFault' = recvFault
            /\ KnownIds' = KnownIds \cup (IF p.qos = 2 THEN {p.id} ELSE {})
            /\ out' = Ack(p, "success") \/ out' = <<disc>> \o Ack(p, "success")
  <2>1. ~stale' => \A id \in KnownIds' : /\ reception'[id] # NoMsg
                                         /\ exchange[id].msg = reception'[id]
    <3> SUFFICES ASSUME ~stale', ~stale, NEW id \in KnownIds'
                 PROVE  reception'[id] # NoMsg /\ exchange[id].msg = reception'[id]
      BY DEF StaleStep
    <3>1. CASE id = p.id /\ p.qos = 2
      <4>1. reception'[id] = p.msg
        BY <3>1, <1>2, <1>4, <1>19 DEF BrokerTypes
      <4> QED
        BY <3>1, <4>1, <1>2, <1>12
    <3>2. CASE id \in KnownIds
      <4>1. id \in Ids
        BY <3>2 DEF KnownIds
      <4> QED
        BY <3>2, <4>1, <1>2, <1>11, <1>12, <1>15
    <3> QED
      BY <3>1, <3>2, <1>19
  <2>2. \A i \in 1 .. Len(out') : \/ out'[i] = disc
                                  \/ out'[i] = ack /\ i = Len(out')
    <3>1. CASE out' = <<ack>>
      BY <3>1
    <3>2. CASE out' = <<disc>> \o <<ack>>
      <4> DEFINE a == <<disc>>
                 c == <<ack>>
      <4>0. /\ a \in Seq(ClientPackets) /\ Len(a) = 1 /\ a[1] = disc
            /\ c \in Seq(ClientPackets) /\ Len(c) = 1 /\ c[1] = ack
        BY <1>16, OneElement
      <4> HIDE DEF a, c
      <4>1. Len(out') = 2 /\ out'[1] = disc /\ out'[2] = ack
        <5>1. /\ Len(a \o c) = Len(a) + Len(c)
              /\ \A i \in 1 .. Len(a) + Len(c) :
                    (a \o c)[i] = IF i <= Len(a) THEN a[i] ELSE c[i - Len(a)]
          BY <4>0, ConcatProperties
        <5>2. out' = a \o c
          BY <3>2 DEF a, c
        <5> QED
          BY <4>0, <5>1, <5>2
      <4> QED
        BY <4>1
    <3> QED
      BY <3>1, <3>2, <1>16, <1>19
  <2>3. \A i \in 1 .. Len(out') :
           /\ out'[i].type # "CONNECT"
           /\ out'[i].type \in Acks => i = Len(out') /\ out'[i].id = p.id /\ AckOK(out[i])'
    BY <2>2, <1>16, <1>17 DEF Acks, AckType
  <2>4. KnownIds' \subseteq KnownIds \cup {p.id}
    BY <1>19
  <2>5. EstablishedStep
    BY <1>3, <1>6, <1>61, <1>14, <2>1, <2>3, <2>4, EstablishedFirst DEF EstablishedStep
  <2> QED
    BY <2>5, <1>8, <1>10, <1>13, EstablishedKeeps
<1> QED
  BY <1>18, <1>19 DEF Reported, disc

\* A PUBREL of the conforming broker.
LEMMA PubrelKeeps ==
    ASSUME RecvInv, RecvInv', BrokerTypes, ExchangeInv, ReceptionInv, ConformingInv,
           toClient # <<>>, toClient[1].type = "PUBREL", toClient' = Tail(toClient),
           toBroker' = toBroker \o out',
           UNCHANGED <<conforming, content, exchange, published, completed>>,
           UNCHANGED <<delivered, reception, mistaken>>, StaleStep,
           HandlePubrel(toClient[1].id, "success")
    PROVE  BrokerTypes' /\ ExchangeInv' /\ ReceptionInv' /\ ConformingInv'
<1> DEFINE p == toClient[1]
<1>1. 1 \in 1 .. Len(toClient) /\ p \in BrokerPackets
  BY TailOfChannel DEF BrokerTypes
<1>2. p.id \in Ids /\ exchange[p.id].st = "rel"
  BY <1>1 DEF ConformingInv, ToClientInv, BrokerPackets, PublishPackets, PubrelPackets,
              ConnackPackets
<1>3. out' \in Seq(ClientPackets)
  BY DEF RecvInv, RecvTypeOK, ClientPackets
<1>4. BrokerTypes'
  BY <1>3, ClientStepTypes DEF BrokerTypes, StaleStep
<1>5. ExchangeInv' /\ ReceptionInv'
  BY DEF ExchangeInv, ReceptionInv
<1>6. /\ KnownIds' \subseteq KnownIds /\ p.id \notin KnownIds' /\ link' = link
      /\ \E c \in {"success", "error"} : out' = <<Packet("PUBCOMP", p.id, c)>>
  BY <1>2, HandlePubrelKeeps DEF Quiet
<1>7. link # "connecting" /\ ~Anew /\ link' # "connecting"
  BY <1>6, EstablishedFirst
<1>8. ~stale' => \A id \in KnownIds' : /\ reception[id] # NoMsg
                                       /\ exchange[id].msg = reception[id]
  BY <1>6, <1>7 DEF ConformingInv, Agreed, StaleStep
<1>9. ASSUME NEW i \in 1 .. Len(out')
      PROVE  /\ out'[i].type # "CONNECT" /\ i = Len(out') /\ out'[i].id = p.id
             /\ AckOK(out[i])'
  <2>1. i = 1 /\ Len(out') = 1 /\ out'[i].type = "PUBCOMP" /\ out'[i].id = p.id
    BY <1>6 DEF Packet
  <2> QED
    BY <2>1, <1>2, <1>6 DEF AckOK
<1>10. EstablishedStep
  BY <1>3, <1>6, <1>7, <1>8, <1>9, EstablishedFirst DEF EstablishedStep
<1> QED
  BY <1>4, <1>5, <1>10, EstablishedKeeps

\* A CONNACK of the conforming broker.
LEMMA ConnackRecvKeeps ==
    ASSUME RecvInv, RecvInv', BrokerTypes, ExchangeInv, ReceptionInv, ConformingInv,
           toClient # <<>>, toClient[1].type = "CONNACK", toClient' = Tail(toClient),
           toBroker' = toBroker \o out',
           UNCHANGED <<conforming, content, exchange, published, completed>>,
           UNCHANGED <<delivered, reception, mistaken>>, StaleStep, out' = <<>>,
           \/ /\ link = "connecting" /\ link' = "up"
              /\ toClient[1].present => KnownIds' = KnownIds
              /\ ~toClient[1].present => KnownIds' = {}
           \/ link = "refused" /\ link' = "refused" /\ KnownIds' = KnownIds
    PROVE  BrokerTypes' /\ ExchangeInv' /\ ReceptionInv' /\ ConformingInv'
<1>1. /\ Len(toClient) \in Nat /\ Len(toClient) > 0
      /\ Len(toClient') = Len(toClient) - 1
      /\ \A i \in 1 .. Len(toClient') : /\ toClient'[i] = toClient[i + 1]
                                        /\ i + 1 \in 1 .. Len(toClient)
  BY TailOfChannel DEF BrokerTypes
<1>2. toBroker = <<>>
  <2>1. 1 \in 1 .. Len(toClient)
    BY <1>1
  <2> QED
    BY <2>1 DEF ConformingInv, ToClientInv
<1>3. toBroker' = <<>> /\ Len(toBroker') = 0
  BY <1>2
<1>4. BrokerTypes'
  <2>1. out' \in Seq(ClientPackets)
    BY EmptySeq
  <2> QED
    BY <2>1, ClientStepTypes DEF BrokerTypes, StaleStep
<1>5. ExchangeInv' /\ ReceptionInv'
  BY DEF ExchangeInv, ReceptionInv
<1>6. \A i \in 1 .. Len(toClient') : toClient'[i].type # "CONNACK"
  <2>1. \A j \in 1 .. Len(toClient) : toClient[j].type = "CONNACK" => j = 1
    BY DEF ConformingInv, ToClientInv
  <2>2. \A i \in 1 .. Len(toClient') : i + 1 # 1
    BY <1>1
  <2> QED
    BY <1>1, <2>1, <2>2
<1>7. ToClientInv'
  BY <1>1, <1>6 DEF ConformingInv, ToClientInv
<1>8. ToBrokerInv' /\ Connecting'
  BY <1>3 DEF ToBrokerInv, ConformingInv, Connecting, StaleStep
<1>9. OnePacketPerId'
  <2>1. ASSUME NEW i \in 1 .. Len(toClient'), NEW j \in 1 .. Len(toClient'),
               toClient'[i].id = toClient'[j].id
        PROVE  i = j
    <3>1. i + 1 = j + 1
      BY <2>1, <1>1, <1>6 DEF ConformingInv, OnePacketPerId
    <3> QED
      BY <3>1, <1>1
  <2>2. 1 .. Len(toBroker') = {}
    BY <1>3
  <2> QED
    BY <2>1, <2>2 DEF OnePacketPerId
<1>10. Agreed'
  <2>1. CASE link = "connecting" /\ toClient[1].present /\ ~stale
    <3>1. ~Anew /\ KnownIds' = KnownIds
      BY <2>1 DEF Anew
    <3> QED
      BY <2>1, <3>1, <1>1 DEF ConformingInv, Agreed
  <2>2. CASE link = "connecting" /\ ~toClient[1].present
    BY <2>2 DEF Agreed
  <2>3. CASE link = "refused" /\ ~stale
    BY <2>3 DEF Agreed, ConformingInv, Connecting
  <2>4. CASE stale
    BY <2>4 DEF Agreed, StaleStep
  <2> QED
    BY <2>1, <2>2, <2>3, <2>4
<1> QED
  BY <1>4, <1>5, <1>7, <1>8, <1>9, <1>10 DEF ConformingInv

\* Every packet the client takes.
LEMMA ClientRecvKeeps ==
    ASSUME RecvInv, BrokerTypes, ExchangeInv, ReceptionInv, ConformingInv,
           recvFault = "none", ClientRecv
    PROVE  RecvInv' /\ BrokerTypes' /\ ExchangeInv' /\ ReceptionInv' /\ ConformingInv'
<1> DEFINE p == toClient[1]
<1>1. /\ toClient # <<>> /\ Head(toClient) = p /\ p \in BrokerPackets
      /\ 1 \in 1 .. Len(toClient)
  BY TailOfChannel DEF ClientRecv, BrokerTypes
<1>2. /\ toClient' = Tail(toClient) /\ toBroker' = toBroker \o out' /\ Recorded
      /\ UNCHANGED <<conforming, content, exchange, published, completed>>
  BY DEF ClientRecv, fixed, brokerVars
<1>21. StaleStep /\ mistaken' = (mistaken \cup Taken(p)) \ {reported'.msg}
  BY <1>1, <1>2, RecordedStale DEF ClientRecv
<1>3. CASE p.type = "PUBLISH" /\ \E leaves \in BOOLEAN : HandlePublish(p, leaves)
  <2>1. RecvInv' /\ (Reported(p) \/ Refused(p))
    BY <1>1, <1>3, HandlePublishKeeps, PublishPacketGood
  <2>2. CASE Reported(p)
    BY <1>1, <1>2, <1>21, <1>3, <2>1, <2>2, ReportedKeeps
  <2>3. CASE Refused(p)
    <3>1. UNCHANGED <<delivered, reception>>
      BY <1>2, <2>3, RecordedQuiet DEF Refused
    <3> QED
      BY <1>1, <1>2, <1>21, <1>3, <2>1, <2>3, <3>1, MistakenQuiet, RefusedKeeps DEF Refused
  <2> QED
    BY <2>1, <2>2, <2>3
<1>4. CASE p.type = "PUBLISH" /\ IgnorePublish
  <2>1. RecvInv' /\ Quiet /\ link' = link /\ out' = <<>>
    BY <1>4, IgnoreKeeps
  <2>2. UNCHANGED <<delivered, reception>>
    BY <1>2, <2>1, RecordedQuiet
  <2> QED
    BY <1>1, <1>2, <1>21, <1>4, <2>1, <2>2, MistakenQuiet, RefusedKeeps
<1>5. CASE p.type = "PUBREL" /\ HandlePubrel(p.id, "success")
  <2>1. p.id \in Ids
    BY <1>1, <1>5 DEF BrokerPackets, PublishPackets, PubrelPackets, ConnackPackets
  <2>2. RecvInv' /\ Quiet
    BY <1>5, <2>1, HandlePubrelKeeps
  <2>3. UNCHANGED <<delivered, reception>>
    BY <1>2, <2>2, RecordedQuiet
  <2> QED
    BY <1>1, <1>2, <1>21, <1>5, <2>2, <2>3, MistakenQuiet, PubrelKeeps
<1>6. ASSUME NEW asked \in BOOLEAN, p.type = "CONNACK", Connack(p.present, p.interval, asked)
      PROVE  RecvInv' /\ BrokerTypes' /\ ExchangeInv' /\ ReceptionInv' /\ ConformingInv'
  <2>1. p \in ConnackPackets
    BY <1>1, <1>6 DEF BrokerPackets, PublishPackets, PubrelPackets
  <2>2. p.present \in BOOLEAN /\ p.interval \in Intervals
    BY <2>1 DEF ConnackPackets
  <2>3. /\ RecvInv' /\ Quiet /\ link' = "up" /\ out' = <<>>
        /\ p.present => KnownIds' = KnownIds
        /\ ~p.present => KnownIds' = {}
    BY <1>6, <2>2, ConnackKeeps
  <2>4. UNCHANGED <<delivered, reception>>
    BY <1>2, <2>3, RecordedQuiet
  <2>5. link = "connecting"
    BY <1>6 DEF Connack
  <2> QED
    BY <1>1, <1>2, <1>21, <1>6, <2>3, <2>4, <2>5, MistakenQuiet, ConnackRecvKeeps
<1>7. CASE p.type = "CONNACK" /\ IgnoreConnack
  <2>1. /\ RecvInv' /\ Quiet /\ link = "refused" /\ link' = link /\ out' = <<>>
        /\ KnownIds' = KnownIds
    BY <1>7, IgnoreKeeps DEF IgnoreConnack
  <2>2. UNCHANGED <<delivered, reception>>
    BY <1>2, <2>1, RecordedQuiet
  <2> QED
    BY <1>1, <1>2, <1>21, <1>7, <2>1, <2>2, MistakenQuiet, ConnackRecvKeeps
<1> QED
  BY <1>1, <1>3, <1>4, <1>5, <1>6, <1>7 DEF ClientRecv

\* A timer of the client expires.
LEMMA ClientTimeoutKeeps ==
    ASSUME RecvInv, BrokerTypes, ExchangeInv, ReceptionInv, ConformingInv, ClientTimeout
    PROVE  RecvInv' /\ BrokerTypes' /\ ExchangeInv' /\ ReceptionInv' /\ ConformingInv'
<1>1. RecvInv' /\ Quiet /\ UNCHANGED <<link, expiry>> /\ KnownIds' \subseteq KnownIds
  BY TimeoutKeeps DEF ClientTimeout, Quiet
<1>2. UNCHANGED <<delivered, reception, mistaken>> /\ StaleStep
  BY <1>1, RecordedQuiet, RecordedStale DEF ClientTimeout
<1>3. UNCHANGED <<conforming, content, exchange, published, completed, toClient, toBroker,
                  serving>>
  BY DEF ClientTimeout, fixed, brokerVars
<1>4. BrokerTypes' /\ ExchangeInv' /\ ReceptionInv'
  BY <1>2, <1>3 DEF BrokerTypes, ExchangeInv, ReceptionInv, StaleStep
<1>5. ToClientInv' /\ OnePacketPerId' /\ Connecting'
  BY <1>1, <1>2, <1>3 DEF ConformingInv, ToClientInv, OnePacketPerId, Connecting, StaleStep
<1>6. ToBrokerInv'
  BY <1>1, <1>2, <1>3 DEF ConformingInv, ToBrokerInv, AckOK, StaleStep
<1>7. Agreed'
  BY <1>1, <1>2, <1>3 DEF ConformingInv, Agreed, Anew, StaleStep
<1> QED
  BY <1>1, <1>4, <1>5, <1>6, <1>7 DEF ConformingInv

\* The application disconnects.
LEMMA ClientDisconnectKeeps ==
    ASSUME RecvInv, BrokerTypes, ExchangeInv, ReceptionInv, ConformingInv,
           NEW interval \in Intervals \cup {"same"}, ClientDisconnect(interval)
    PROVE  RecvInv' /\ BrokerTypes' /\ ExchangeInv' /\ ReceptionInv' /\ ConformingInv'
<1>1. Disconnect(interval) /\ Recorded /\ toBroker' = toBroker \o out'
         /\ UNCHANGED <<conforming, content, exchange, published, completed, toClient,
                         mistaken>>
  BY DEF ClientDisconnect, fixed, brokerVars
<1>2. PICK p \in ClientPackets : out' = <<p>> /\ p.type = "DISCONNECT"
  BY <1>1, DisconnectKeeps
<1>3. RecvInv' /\ Quiet /\ link = "up" /\ link' = "closing"
  BY <1>1, DisconnectKeeps DEF Disconnect
<1>4. UNCHANGED <<delivered, reception>> /\ StaleStep
  BY <1>1, <1>3, RecordedQuiet, RecordedStale
<1>5. out' \in Seq(ClientPackets) /\ \A i \in 1 .. Len(out') : out'[i].type = "DISCONNECT"
  BY <1>2, OneElement
<1>6. BrokerTypes'
  BY <1>1, <1>4, <1>5, ClientStepTypes DEF BrokerTypes, StaleStep
<1>7. ExchangeInv' /\ ReceptionInv'
  BY <1>1, <1>4 DEF ExchangeInv, ReceptionInv
<1>8. /\ ~Anew
      /\ \A i \in 1 .. Len(toClient) : toClient[i].type # "CONNACK"
      /\ \A i \in 1 .. Len(toBroker) : toBroker[i].type # "CONNECT"
  BY <1>3, AnewConnecting DEF ConformingInv, ToClientInv, ToBrokerInv
<1>9. EstablishedStep
  BY <1>1, <1>3, <1>4, <1>5, <1>8
  DEF EstablishedStep, StaleStep, Quiet, Acks, ConformingInv, Agreed
<1> QED
  BY <1>3, <1>6, <1>7, <1>9, EstablishedKeeps

\* Steps that replace or lose the network connection.
LEMMA SeveredKeeps ==
    ASSUME BrokerTypes, ExchangeInv, ReceptionInv, ConformingInv,
           UNCHANGED <<conforming, content, exchange, published, completed>>,
           UNCHANGED <<delivered, reception, mistaken>>, StaleStep,
           toClient' = <<>>, serving' = FALSE, link' # "refused",
           \/ toBroker' = <<>> /\ link' # "connecting"
           \/ /\ toBroker' = <<Packet("CONNECT", 0, "success")>>
              /\ link' = "connecting" /\ expiry' = "zero",
           KnownIds' \subseteq KnownIds, Anew /\ ~stale' => KnownIds' = {}
    PROVE  BrokerTypes' /\ ExchangeInv' /\ ReceptionInv' /\ ConformingInv'
<1>1. toClient' \in Seq(BrokerPackets) /\ Len(toClient') = 0
  BY EmptySeq
<1>2. /\ toBroker' \in Seq(ClientPackets)
      /\ \/ toBroker' = <<>> /\ Len(toBroker') = 0 /\ link' # "connecting"
         \/ /\ Len(toBroker') = 1 /\ toBroker'[1].type = "CONNECT"
            /\ link' = "connecting" /\ expiry' = "zero"
  <2>1. CASE toBroker' = <<>> /\ link' # "connecting"
    BY <2>1, EmptySeq
  <2>2. CASE /\ toBroker' = <<Packet("CONNECT", 0, "success")>>
             /\ link' = "connecting" /\ expiry' = "zero"
    BY <2>2, PacketType, OneElement
  <2> QED
    BY <2>1, <2>2
<1>3. BrokerTypes' /\ ExchangeInv' /\ ReceptionInv'
  BY <1>1, <1>2 DEF BrokerTypes, ExchangeInv, ReceptionInv, StaleStep
<1>4. \A i \in 1 .. Len(toBroker') : /\ toBroker'[i].type = "CONNECT" /\ Len(toBroker') = 1
                                     /\ link' = "connecting"
  BY <1>2
<1>5. ToClientInv' /\ OnePacketPerId'
  BY <1>1, <1>4 DEF ToClientInv, OnePacketPerId, Acks
<1>6. ToBrokerInv'
  BY <1>4 DEF ToBrokerInv, AckOK
<1>7. Connecting'
  BY <1>2 DEF Connecting
<1>8. Agreed'
  <2>1. ~stale' => \A id \in KnownIds' : /\ reception[id] # NoMsg
                                         /\ exchange[id].msg = reception[id]
    BY DEF ConformingInv, Agreed, StaleStep
  <2> QED
    BY <2>1, <1>1 DEF Agreed
<1> QED
  BY <1>3, <1>5, <1>6, <1>7, <1>8 DEF ConformingInv

\* The client connects, and the network is lost.
LEMMA NetworkKeeps ==
    ASSUME RecvInv, BrokerTypes, ExchangeInv, ReceptionInv, ConformingInv,
           ClientConnect \/ NetworkLost
    PROVE  RecvInv' /\ BrokerTypes' /\ ExchangeInv' /\ ReceptionInv' /\ ConformingInv'
<1>1. CASE ClientConnect
  <2>1. /\ RecvInv' /\ Quiet /\ link' = "connecting" /\ expiry' = "zero"
        /\ out' = <<Packet("CONNECT", 0, "success")>> /\ link # "connecting"
    BY <1>1, ConnectKeeps DEF ClientConnect, Connect
  <2>2. Anew /\ ~stale => KnownIds' = {}
    BY <2>1, AnewConnecting DEF Quiet
  <2>3. /\ UNCHANGED <<conforming, content, exchange, published, completed>>
        /\ UNCHANGED <<delivered, reception, mistaken, stale>> /\ StaleStep
        /\ toClient' = <<>> /\ toBroker' = out' /\ serving' = FALSE
    BY <1>1 DEF ClientConnect, fixed, BrokerTypes, StaleStep
  <2> QED
    BY <2>1, <2>2, <2>3, SeveredKeeps DEF Quiet
<1>2. CASE NetworkLost
  <2>1. /\ RecvInv' /\ Quiet /\ link' \in {"closing", "down"}
        /\ link = "connecting" /\ expiry = "zero" => recvOps' = <<>>
    BY <1>2, LossKeeps DEF NetworkLost
  <2>2. Recorded /\ UNCHANGED <<conforming, content, exchange, published, completed>>
           /\ toClient' = <<>> /\ toBroker' = <<>> /\ serving' = FALSE /\ mistaken' = mistaken
    BY <1>2 DEF NetworkLost, fixed
  <2>3. UNCHANGED <<delivered, reception>> /\ StaleStep
    BY <2>1, <2>2, RecordedQuiet, RecordedStale
  <2>4. Anew /\ ~stale' => KnownIds' = {}
    <3>1. Anew => \/ link = "connecting" /\ expiry = "zero"
                  \/ stale \/ KnownIds = {}
      BY AnewConnecting
    <3>2. recvOps' = <<>> => KnownIds' = {}
      BY DEF KnownIds, Known
    <3> QED
      BY <3>1, <3>2, <2>1, <2>3 DEF Quiet, StaleStep
  <2> QED
    BY <2>1, <2>2, <2>3, <2>4, SeveredKeeps DEF Quiet
<1> QED
  BY <1>1, <1>2

\* The client stops waiting for the CONNACK.
LEMMA GivesUpKeeps ==
    ASSUME RecvInv, BrokerTypes, ExchangeInv, ReceptionInv, ConformingInv, ClientGivesUp
    PROVE  RecvInv' /\ BrokerTypes' /\ ExchangeInv' /\ ReceptionInv' /\ ConformingInv'
<1>1. /\ RecvInv' /\ Quiet /\ UNCHANGED <<recvOps, expiry>> /\ KnownIds' = KnownIds
      /\ link = "connecting" /\ link' = "refused"
  BY ConnectFailsKeeps DEF ClientGivesUp
<1>2. /\ UNCHANGED <<conforming, content, exchange, published, completed, toClient, toBroker,
                     serving>>
      /\ UNCHANGED <<delivered, reception, mistaken>>
      /\ stale' = (recvOps # <<>>)
  BY DEF ClientGivesUp, fixed, brokerVars
<1>3. ~stale' => KnownIds' = {}
  <2>1. recvOps' = <<>> => KnownIds' = {}
    BY DEF KnownIds, Known
  <2>2. stale' \/ recvOps = <<>>
    BY <1>2
  <2> QED
    BY <1>1, <2>1, <2>2
<1>4. BrokerTypes' /\ ExchangeInv' /\ ReceptionInv'
  BY <1>2 DEF BrokerTypes, ExchangeInv, ReceptionInv
<1>5. ToClientInv' /\ OnePacketPerId' /\ Connecting'
  BY <1>1, <1>2, <1>3 DEF ConformingInv, ToClientInv, OnePacketPerId, Connecting
<1>6. ToBrokerInv'
  BY <1>1, <1>2, <1>3 DEF ConformingInv, ToBrokerInv, AckOK
<1>7. Agreed'
  BY <1>3 DEF Agreed
<1> QED
  BY <1>1, <1>4, <1>5, <1>6, <1>7 DEF ConformingInv

------------------------------------------------------------------------------
(* The steps of the broker. *)

\* The client takes no part in them.
LEMMA RestsKeeps ==
    ASSUME RecvInv, ClientRests
    PROVE  /\ RecvInv' /\ KnownIds' = KnownIds /\ recvOps' = recvOps
           /\ UNCHANGED <<link, expiry, conforming, content, reception, delivered, gaveUp, stale,
                        mistaken>>
<1>1. Silent /\ GoodList(recvOps') /\ KnownIds' = KnownIds
  BY RecvInvParts DEF ClientRests, KnownIds, Known
<1>2. OtherTypes'
  BY <1>1, RecvInvParts, SilentTypes DEF ClientRests, OtherTypes
<1> QED
  BY <1>1, <1>2, RecvInvAfter DEF ClientRests, fixed, history

\* A new message.
LEMMA BrokerPublishKeeps ==
    ASSUME RecvInv, BrokerTypes, ExchangeInv, ReceptionInv, ConformingInv,
           NEW id \in Ids, NEW alias \in Aliases \cup {NoAlias}, NEW named \in BOOLEAN,
           BrokerPublish(id, alias, named)
    PROVE  RecvInv' /\ BrokerTypes' /\ ExchangeInv' /\ ReceptionInv' /\ ConformingInv'
<1> DEFINE m == published + 1
           p == PublishPacket(id, m, FALSE, IF named THEN content[m].topic ELSE NoTopic, alias)
           n == Len(toClient)
<1>1. /\ RecvInv' /\ KnownIds' = KnownIds
      /\ UNCHANGED <<link, expiry, conforming, content, reception, delivered, stale, mistaken>>
  BY RestsKeeps DEF BrokerPublish
<1>2. /\ serving /\ published < MaxMsgs /\ exchange[id].st = "free"
      /\ published' = m /\ exchange' = [exchange EXCEPT ![id] = [st |-> "pub", msg |-> m]]
      /\ toClient' = Append(toClient, p)
      /\ UNCHANGED <<serving, completed, toBroker>>
  BY DEF BrokerPublish, InUse
<1>3. m \in Msgs /\ m \in 1 .. MaxMsgs /\ m # NoMsg /\ published \in Nat /\ m \notin completed
  BY <1>2, RecvDeliveryAssumption DEF BrokerTypes, Msgs, NoMsg, RecvDeliveryAssumption
<1>4. /\ p \in PublishPackets /\ p.type = "PUBLISH" /\ p.id = id /\ p.msg = m /\ ~p.dup
      /\ p.qos = content[m].qos
  <2>1. content[m] \in [qos : {1, 2}, topic : Topics \cup {NoTopic}]
    BY <1>3 DEF BrokerTypes
  <2> QED
    BY <1>3, <2>1 DEF PublishPacket, PublishPackets
<1> HIDE DEF p
<1>5. /\ n \in Nat /\ Len(toClient') = n + 1 /\ toClient' \in Seq(BrokerPackets)
      /\ \A i \in 1 .. n : toClient'[i] = toClient[i] /\ toClient[i] \in BrokerPackets
      /\ toClient'[n + 1] = p
      /\ \A i \in 1 .. n + 1 : i \in 1 .. n \/ i = n + 1
  <2>1. toClient \in Seq(BrokerPackets) /\ p \in BrokerPackets
    BY <1>4 DEF BrokerTypes, BrokerPackets
  <2>2. n \in Nat /\ \A i \in 1 .. n : toClient[i] \in BrokerPackets
    BY <2>1, LenProperties, ElementOfSeq
  <2> QED
    BY <1>2, <2>1, <2>2, AppendProperties
<1>6. BrokerTypes'
  BY <1>1, <1>2, <1>3, <1>5 DEF BrokerTypes
<1>7. \A x \in Ids : /\ x # id => exchange'[x] = exchange[x]
                     /\ x = id => exchange'[x].st = "pub" /\ exchange'[x].msg = m
  BY <1>2 DEF BrokerTypes
<1>8. \A x \in Ids : /\ exchange[x].msg # m /\ reception[x] # m
                     /\ exchange[x].msg \in 1 .. published => exchange[x].msg \in 1 .. m
                     /\ reception[x] \in 1 .. published => reception[x] \in 1 .. m
  <2>1. \A x \in Ids : exchange[x].st \in {"free", "pub", "rel"}
    BY UsedMsg
  <2> QED
    BY <2>1, <1>3 DEF ExchangeInv, ReceptionInv, NoMsg
<1>9. ExchangeInv'
  BY <1>1, <1>2, <1>3, <1>7, <1>8 DEF ExchangeInv
<1>10. ReceptionInv'
  <2>1. exchange[id].msg = NoMsg
    BY <1>2 DEF ExchangeInv
  <2> QED
    BY <1>1, <1>2, <1>3, <1>7, <1>8, <2>1 DEF ReceptionInv
<1>11. \A i \in 1 .. n : toClient[i].type # "CONNACK" =>
                            /\ toClient[i].id \in Ids /\ toClient[i].id # id
                            /\ toClient[i].type \in {"PUBLISH", "PUBREL"}
  <2> SUFFICES ASSUME NEW i \in 1 .. n, toClient[i].type # "CONNACK"
               PROVE  /\ toClient[i].id \in Ids /\ toClient[i].id # id
                      /\ toClient[i].type \in {"PUBLISH", "PUBREL"}
    OBVIOUS
  <2>1. toClient[i].id \in Ids /\ toClient[i].type \in {"PUBLISH", "PUBREL"}
    BY <1>5 DEF BrokerPackets, PublishPackets, PubrelPackets, ConnackPackets
  <2>2. exchange[toClient[i].id].st \in {"pub", "rel"}
    <3>1. CASE toClient[i].type = "PUBLISH"
      <4>1. exchange[toClient[i].id] = [st |-> "pub", msg |-> toClient[i].msg]
        BY <3>1 DEF ConformingInv, ToClientInv
      <4> QED
        BY <4>1
    <3>2. CASE toClient[i].type = "PUBREL"
      BY <3>2 DEF ConformingInv, ToClientInv
    <3> QED
      BY <2>1, <3>1, <3>2
  <2> QED
    BY <2>1, <2>2, <1>2
<1>12. \A i \in 1 .. Len(toBroker) : toBroker[i].type \in Acks =>
                                        toBroker[i].id \in Ids /\ toBroker[i].id # id
  BY <1>2 DEF ConformingInv, ToBrokerInv, AckOK, Acks
<1>13. ToClientInv'
  <2> SUFFICES ASSUME NEW i \in 1 .. n + 1
               PROVE  /\ toClient'[i].type = "PUBLISH" =>
                           /\ exchange'[toClient'[i].id] = [st |-> "pub", msg |-> toClient'[i].msg]
                           /\ toClient'[i].qos = content'[toClient'[i].msg].qos
                      /\ toClient'[i].type = "PUBREL" => exchange'[toClient'[i].id].st = "rel"
                      /\ toClient'[i].type = "CONNACK" =>
                           /\ i = 1 /\ link' \in {"connecting", "refused"}
                           /\ toBroker' = <<>>
    BY <1>5 DEF ToClientInv
  <2>1. CASE i \in 1 .. n
    BY <2>1, <1>1, <1>2, <1>5, <1>7, <1>11 DEF ConformingInv, ToClientInv
  <2>2. CASE i = n + 1
    BY <2>2, <1>1, <1>2, <1>4, <1>5 DEF BrokerTypes
  <2> QED
    BY <2>1, <2>2, <1>5
<1>14. ToBrokerInv'
  <2>1. \A i \in 1 .. Len(toBroker) : toBroker[i].type # "CONNECT"
    BY <1>2 DEF ConformingInv, ToBrokerInv
  <2> QED
    BY <1>1, <1>2, <1>7, <1>12, <2>1 DEF ConformingInv, ToBrokerInv, AckOK, Acks
<1>15. OnePacketPerId'
  <2>1. ASSUME NEW i \in 1 .. n + 1, NEW j \in 1 .. n + 1, toClient'[i].type # "CONNACK",
               toClient'[j].type # "CONNACK", toClient'[i].id = toClient'[j].id
        PROVE  i = j
    <3>1. CASE i \in 1 .. n /\ j \in 1 .. n
      BY <2>1, <3>1, <1>5 DEF ConformingInv, OnePacketPerId
    <3> QED
      BY <2>1, <3>1, <1>4, <1>5, <1>11
  <2>2. ASSUME NEW i \in 1 .. n + 1, NEW j \in 1 .. Len(toBroker), toClient'[i].type # "CONNACK",
               toBroker[j].type \in Acks
        PROVE  toClient'[i].id # toBroker[j].id
    <3>1. CASE i \in 1 .. n
      <4>1. toClient'[i] = toClient[i]
        BY <3>1, <1>5
      <4> QED
        BY <2>2, <3>1, <4>1 DEF ConformingInv, OnePacketPerId
    <3>2. CASE i = n + 1
      BY <2>2, <3>2, <1>4, <1>5, <1>12
    <3> QED
      BY <3>1, <3>2, <1>5
  <2>3. \A i, j \in 1 .. Len(toBroker') :
           toBroker'[i].type \in Acks /\ toBroker'[j].type \in Acks
              /\ toBroker'[i].id = toBroker'[j].id => i = j
    BY <1>2 DEF ConformingInv, OnePacketPerId
  <2>4. \A i, j \in 1 .. Len(toClient') :
           toClient'[i].type # "CONNACK" /\ toClient'[j].type # "CONNACK"
              /\ toClient'[i].id = toClient'[j].id => i = j
    BY <2>1, <1>5
  <2>5. \A i \in 1 .. Len(toClient'), j \in 1 .. Len(toBroker') :
           toClient'[i].type # "CONNACK" /\ toBroker'[j].type \in Acks
              => toClient'[i].id # toBroker'[j].id
    BY <2>2, <1>2, <1>5
  <2> QED
    BY <2>3, <2>4, <2>5 DEF OnePacketPerId
<1>16. Connecting'
  <2>1. link' = "connecting" => /\ expiry' = "zero" /\ toBroker' = <<>>
                                /\ n > 0 /\ toClient[1].type = "CONNACK"
    BY <1>1, <1>2 DEF ConformingInv, Connecting
  <2> QED
    BY <2>1, <1>1, <1>5 DEF ConformingInv, Connecting
<1>17. Agreed'
  <2>1. Anew => Anew'
    BY <1>5 DEF Anew
  <2>2. ASSUME ~Anew', ~stale' PROVE id \notin KnownIds
    <3>1. exchange[id].msg = NoMsg
      BY <1>2 DEF ExchangeInv
    <3> QED
      BY <1>1, <2>1, <2>2, <3>1 DEF ConformingInv, Agreed
  <2>3. ASSUME ~Anew', ~stale', NEW x \in KnownIds'
        PROVE  reception'[x] # NoMsg /\ exchange'[x].msg = reception'[x]
    <3>1. x \in Ids /\ x # id
      BY <1>1, <2>2, <2>3 DEF KnownIds
    <3> QED
      BY <1>1, <1>7, <2>1, <2>3, <3>1 DEF ConformingInv, Agreed
  <2>4. ASSUME ~Anew', ~stale', NEW i \in 1 .. n + 1, toClient'[i].type = "PUBLISH", ~toClient'[i].dup
        PROVE  toClient'[i].id \notin KnownIds'
    BY <1>1, <1>4, <1>5, <2>1, <2>2, <2>4 DEF ConformingInv, Agreed
  <2> QED
    BY <2>3, <2>4, <1>5 DEF Agreed
<1> QED
  BY <1>1, <1>6, <1>9, <1>10, <1>13, <1>14, <1>15, <1>16, <1>17 DEF ConformingInv

\* What the broker repeats on a resumed session.
LEMMA RepeatedProperties ==
    ASSUME BrokerTypes, ExchangeInv, NEW ids \in Sorted, NEW alias \in Aliases, NEW defining
    PROVE  /\ Repeated(ids, alias, defining) \in Seq(BrokerPackets)
           /\ Len(Repeated(ids, alias, defining)) = Cardinality(InUse)
           /\ Cardinality(InUse) \in Nat
           /\ \A i \in 1 .. Cardinality(InUse) :
                 Repeated(ids, alias, defining)[i].id = ids[i]
           /\ \A i \in 1 .. Cardinality(InUse) :
                 LET q == Repeated(ids, alias, defining)[i]
                 IN  /\ q.id \in Ids
                     /\ \/ /\ q.type = "PUBREL" /\ exchange[q.id].st = "rel"
                        \/ /\ q.type = "PUBLISH" /\ q.dup
                           /\ exchange[q.id] = [st |-> "pub", msg |-> q.msg]
                           /\ q.qos = content[q.msg].qos
           /\ \A i, j \in 1 .. Cardinality(InUse) : ids[i] = ids[j] => i = j
<1> DEFINE n == Cardinality(InUse)
           r == Repeated(ids, alias, defining)
<1>1. n \in Nat
  <2>1. InUse \subseteq Ids
    BY DEF InUse
  <2> QED
    BY <2>1, Constants, FS_Subset, FS_CardinalityType
<1>2. ids \in [1 .. n -> InUse] /\ \A i, j \in 1 .. n : i # j => ids[i] # ids[j]
  BY DEF Sorted, SetToSeqs
<1>3. ASSUME NEW i \in 1 .. n
      PROVE  /\ r[i] \in BrokerPackets /\ ids[i] \in Ids /\ r[i].id = ids[i]
             /\ \/ /\ r[i].type = "PUBREL" /\ exchange[ids[i]].st = "rel"
                \/ /\ r[i].type = "PUBLISH" /\ r[i].dup
                   /\ exchange[ids[i]] = [st |-> "pub", msg |-> r[i].msg]
                   /\ r[i].qos = content[r[i].msg].qos
  <2> DEFINE x == exchange[ids[i]]
             a == IF ids[i] \in defining THEN alias ELSE NoAlias
  <2>1. ids[i] \in Ids /\ x.st # "free" /\ i \in DOMAIN ids
    BY <1>2 DEF InUse
  <2>2. x \in [st : {"free", "pub", "rel"}, msg : Msgs \cup {NoMsg}] /\ x.msg \in Msgs
    BY <2>1, UsedMsg DEF BrokerTypes
  <2>3. r[i] = IF x.st = "rel" THEN Pubrel(ids[i])
               ELSE PublishPacket(ids[i], x.msg, TRUE, content[x.msg].topic, a)
    BY <2>1 DEF Repeated
  <2>4. CASE x.st = "rel"
    <3>1. r[i] = [type |-> "PUBREL", id |-> ids[i]]
      BY <2>3, <2>4 DEF Pubrel
    <3> QED
      BY <3>1, <2>1, <2>4 DEF BrokerPackets, PubrelPackets
  <2>5. CASE x.st # "rel"
    <3>1. a \in Aliases \cup {NoAlias}
      OBVIOUS
    <3> HIDE DEF a
    <3>2. content[x.msg] \in [qos : {1, 2}, topic : Topics \cup {NoTopic}]
      BY <2>2 DEF BrokerTypes
    <3>3. r[i] = [type |-> "PUBLISH", id |-> ids[i], qos |-> content[x.msg].qos, dup |-> TRUE,
                  msg |-> x.msg, topic |-> content[x.msg].topic, alias |-> a,
                  verdict |-> "ok"]
      BY <2>3, <2>5 DEF PublishPacket
    <3>4. r[i] \in PublishPackets
      BY <3>1, <3>2, <3>3, <2>1, <2>2 DEF PublishPackets
    <3>5. x = [st |-> "pub", msg |-> x.msg]
      BY <2>1, <2>2, <2>5
    <3> QED
      BY <3>3, <3>4, <3>5, <2>1 DEF BrokerPackets
  <2> QED
    BY <2>4, <2>5
<1>4. DOMAIN r = 1 .. n /\ r = [i \in 1 .. n |-> r[i]]
  BY <1>2 DEF Repeated
<1> HIDE DEF r
<1>5. r \in [1 .. n -> BrokerPackets]
  BY <1>3, <1>4
<1>6. r \in Seq(BrokerPackets) /\ Len(r) = n
  BY <1>1, <1>5, FunctionIsSeq
<1> QED
  BY <1>1, <1>2, <1>3, <1>6 DEF r

\* The channel to the client that starts with a CONNACK.
LEMMA ConnackFirst ==
    ASSUME NEW S, NEW c \in S, NEW r \in Seq(S)
    PROVE  /\ <<c>> \o r \in Seq(S) /\ Len(<<c>> \o r) = Len(r) + 1 /\ Len(r) \in Nat
           /\ (<<c>> \o r)[1] = c
           /\ \A i \in 2 .. Len(r) + 1 : (<<c>> \o r)[i] = r[i - 1] /\ i - 1 \in 1 .. Len(r)
<1> DEFINE a == <<c>>
<1>1. a \in Seq(S) /\ Len(a) = 1 /\ a[1] = c
  BY OneElement
<1>2. Len(r) \in Nat
  BY LenProperties
<1> HIDE DEF a
<1>3. /\ a \o r \in Seq(S) /\ Len(a \o r) = Len(a) + Len(r)
      /\ \A i \in 1 .. Len(a) + Len(r) :
            (a \o r)[i] = IF i <= Len(a) THEN a[i] ELSE r[i - Len(a)]
  BY <1>1, ConcatProperties
<1>4. /\ a \o r \in Seq(S) /\ Len(a \o r) = Len(r) + 1 /\ (a \o r)[1] = c
      /\ \A i \in 2 .. Len(r) + 1 : (a \o r)[i] = r[i - 1] /\ i - 1 \in 1 .. Len(r)
  BY <1>1, <1>2, <1>3
<1> QED
  BY <1>2, <1>4 DEF a

\* The broker answers CONNECT.
LEMMA BrokerConnackKeeps ==
    ASSUME RecvInv, BrokerTypes, ExchangeInv, ReceptionInv, ConformingInv,
           NEW present \in BOOLEAN, NEW interval \in Intervals, NEW alias \in Aliases,
           NEW defining \in SUBSET Ids, BrokerConnack(present, interval, alias, defining)
    PROVE  RecvInv' /\ BrokerTypes' /\ ExchangeInv' /\ ReceptionInv' /\ ConformingInv'
<1>1. /\ RecvInv' /\ KnownIds' = KnownIds
      /\ UNCHANGED <<link, expiry, conforming, content, reception, delivered, stale, mistaken>>
  BY RestsKeeps DEF BrokerConnack
<1>2. /\ toBroker # <<>> /\ Head(toBroker).type = "CONNECT" /\ toBroker' = Tail(toBroker)
      /\ exchange' = IF present THEN exchange ELSE [id \in Ids |-> Free]
      /\ UNCHANGED <<published, completed>>
  BY DEF BrokerConnack
<1>3. /\ link \in {"connecting", "refused"} /\ Len(toBroker) = 1 /\ toClient = <<>>
      /\ link = "connecting" => expiry = "zero"
  <2>1. 1 \in 1 .. Len(toBroker) /\ toBroker[1].type = "CONNECT"
    BY <1>2, TailOfChannel DEF BrokerTypes
  <2> QED
    BY <1>2, <2>1 DEF ConformingInv, ToBrokerInv, Connecting
<1>4. toBroker' \in Seq(ClientPackets) /\ Len(toBroker') = 0 /\ toBroker' = <<>>
  <2>1. toBroker' \in Seq(ClientPackets) /\ Len(toBroker') = 0
    BY <1>2, <1>3, TailOfChannel DEF BrokerTypes
  <2> QED
    BY <2>1, EmptySeq
<1> DEFINE c == ConnackPacket(present, interval)
<1>5. PICK ids \in Sorted :
         toClient' = <<c>> \o (IF present THEN Repeated(ids, alias, defining) ELSE <<>>)
  BY DEF BrokerConnack
<1> DEFINE r == IF present THEN Repeated(ids, alias, defining) ELSE <<>>
<1>6. c \in BrokerPackets /\ c.type = "CONNACK" /\ c.present = present
  BY DEF ConnackPacket, BrokerPackets, ConnackPackets
<1>7. r \in Seq(BrokerPackets)
  BY RepeatedProperties, EmptySeq
<1>8. \A i \in 1 .. Len(r) :
         /\ present /\ r[i].id \in Ids
         /\ \/ r[i].type = "PUBREL" /\ exchange[r[i].id].st = "rel"
            \/ /\ r[i].type = "PUBLISH" /\ r[i].dup
               /\ exchange[r[i].id] = [st |-> "pub", msg |-> r[i].msg]
               /\ r[i].qos = content[r[i].msg].qos
  <2>1. CASE present
    BY <2>1, RepeatedProperties
  <2>2. CASE ~present
    BY <2>2
  <2> QED
    BY <2>1, <2>2
<1>9. \A i, j \in 1 .. Len(r) : r[i].id = r[j].id => i = j
  <2>1. CASE present
    <3>1. \A i \in 1 .. Len(r) : r[i].id = ids[i]
      <4> DEFINE q == Repeated(ids, alias, defining)
      <4>1. r = q
        BY <2>1
      <4>2. Len(q) = Cardinality(InUse) /\ \A i \in 1 .. Cardinality(InUse) : q[i].id = ids[i]
        BY RepeatedProperties
      <4> HIDE DEF r, q
      <4> QED
        BY <4>1, <4>2
    <3>2. \A i, j \in 1 .. Len(r) : ids[i] = ids[j] => i = j
      BY <2>1, RepeatedProperties
    <3> QED
      BY <3>1, <3>2
  <2>2. CASE ~present
    BY <2>2
  <2> QED
    BY <2>1, <2>2
<1> HIDE DEF c, r
<1>10. /\ toClient' \in Seq(BrokerPackets) /\ Len(toClient') = Len(r) + 1 /\ Len(r) \in Nat
       /\ toClient'[1] = c
       /\ \A i \in 2 .. Len(r) + 1 : toClient'[i] = r[i - 1] /\ i - 1 \in 1 .. Len(r)
       /\ \A i \in 1 .. Len(r) + 1 : i = 1 \/ i \in 2 .. Len(r) + 1
  <2>1. toClient' = <<c>> \o r
    BY <1>5 DEF r
  <2> QED
    BY <2>1, <1>6, <1>7, ConnackFirst
<1>11. exchange' \in [Ids -> [st : {"free", "pub", "rel"}, msg : Msgs \cup {NoMsg}]]
  BY <1>2 DEF BrokerTypes, Free
<1>12. BrokerTypes'
  BY <1>1, <1>2, <1>4, <1>10, <1>11 DEF BrokerTypes
<1>13. ~present => \A id \in Ids : exchange'[id].st = "free" /\ exchange'[id].msg = NoMsg
  BY <1>2 DEF Free
<1>14. ExchangeInv'
  <2>1. CASE present
    BY <1>1, <1>2, <2>1 DEF ExchangeInv
  <2>2. CASE ~present
    BY <1>13, <2>2 DEF ExchangeInv
  <2> QED
    BY <2>1, <2>2
<1>15. ReceptionInv'
  <2>1. CASE present
    BY <1>1, <1>2, <2>1 DEF ReceptionInv
  <2>2. CASE ~present
    BY <1>1, <1>2, <1>13, <2>2 DEF ReceptionInv
  <2> QED
    BY <2>1, <2>2
<1>16. ToClientInv'
  <2> SUFFICES ASSUME NEW i \in 1 .. Len(r) + 1
               PROVE  /\ toClient'[i].type = "PUBLISH" =>
                           /\ exchange'[toClient'[i].id] = [st |-> "pub", msg |-> toClient'[i].msg]
                           /\ toClient'[i].qos = content'[toClient'[i].msg].qos
                      /\ toClient'[i].type = "PUBREL" => exchange'[toClient'[i].id].st = "rel"
                      /\ toClient'[i].type = "CONNACK" =>
                           /\ i = 1 /\ link' \in {"connecting", "refused"}
                           /\ toBroker' = <<>>
    BY <1>10 DEF ToClientInv
  <2>1. CASE i = 1
    BY <2>1, <1>1, <1>3, <1>4, <1>6, <1>10
  <2>2. CASE i \in 2 .. Len(r) + 1
    BY <2>2, <1>1, <1>2, <1>8, <1>10
  <2> QED
    BY <2>1, <2>2, <1>10
<1>17. ToBrokerInv'
  BY <1>4 DEF ToBrokerInv
<1>18. OnePacketPerId'
  <2>1. ASSUME NEW i \in 1 .. Len(r) + 1, NEW j \in 1 .. Len(r) + 1,
               toClient'[i].type # "CONNACK", toClient'[j].type # "CONNACK",
               toClient'[i].id = toClient'[j].id
        PROVE  i = j
    <3>1. i \in 2 .. Len(r) + 1 /\ j \in 2 .. Len(r) + 1
      BY <2>1, <1>6, <1>10
    <3>2. i - 1 = j - 1
      <4>1. /\ i - 1 \in 1 .. Len(r) /\ j - 1 \in 1 .. Len(r)
            /\ toClient'[i] = r[i - 1] /\ toClient'[j] = r[j - 1]
        BY <3>1, <1>10
      <4>2. r[i - 1].id = r[j - 1].id
        BY <2>1, <4>1
      <4> QED
        BY <4>1, <4>2, <1>9
    <3> QED
      BY <3>1, <3>2, <1>10
  <2> QED
    BY <2>1, <1>4, <1>10 DEF OnePacketPerId
<1>19. Connecting'
  BY <1>1, <1>3, <1>4, <1>6, <1>10 DEF ConformingInv, Connecting
<1>20. Agreed'
  <2>1. ~Anew
    BY <1>3 DEF Anew
  <2>2. ASSUME ~Anew' PROVE present
    BY <2>2, <1>6, <1>10 DEF Anew
  <2>3. ASSUME ~Anew', ~stale', NEW x \in KnownIds'
        PROVE  reception'[x] # NoMsg /\ exchange'[x].msg = reception'[x]
    BY <2>1, <2>2, <2>3, <1>1, <1>2 DEF ConformingInv, Agreed
  <2>4. ASSUME NEW i \in 1 .. Len(r) + 1, toClient'[i].type = "PUBLISH" PROVE toClient'[i].dup
    BY <2>4, <1>6, <1>8, <1>10
  <2> QED
    BY <2>3, <2>4, <1>10 DEF Agreed
<1> QED
  BY <1>1, <1>12, <1>14, <1>15, <1>16, <1>17, <1>18, <1>19, <1>20 DEF ConformingInv

\* The channels once the broker has taken a packet.
LEMMA BrokerTakes ==
    ASSUME BrokerTypes, ConformingInv, toBroker # <<>>, toBroker[1].type # "CONNECT",
           toBroker' = Tail(toBroker), link' = link
    PROVE  /\ toBroker' \in Seq(ClientPackets) /\ 1 \in 1 .. Len(toBroker)
           /\ toBroker[1] \in ClientPackets
           /\ link # "connecting" /\ ~Anew
           /\ \A i \in 1 .. Len(toClient) : toClient[i].type \in {"PUBLISH", "PUBREL"}
                                               /\ toClient[i].id \in Ids
           /\ Len(toBroker') \in Nat
           /\ \A i \in 1 .. Len(toBroker') :
                 /\ i + 1 \in 1 .. Len(toBroker) /\ i + 1 # 1
                 /\ toBroker'[i] = toBroker[i + 1]
                 /\ toBroker'[i].type # "CONNECT"
           /\ \A i, j \in 1 .. Len(toBroker') :
                 toBroker'[i].type \in Acks /\ toBroker'[j].type \in Acks
                    /\ toBroker'[i].id = toBroker'[j].id => i = j
           /\ \A i \in 1 .. Len(toClient), j \in 1 .. Len(toBroker') :
                 toBroker'[j].type \in Acks => toClient[i].id # toBroker'[j].id
           /\ toBroker[1].type \in Acks =>
                 /\ \A i \in 1 .. Len(toClient) : toClient[i].id # toBroker[1].id
                 /\ \A i \in 1 .. Len(toBroker') :
                       toBroker'[i].type \in Acks => toBroker'[i].id # toBroker[1].id
<1> DEFINE b == Len(toBroker)
<1>1. /\ toBroker' \in Seq(ClientPackets) /\ b \in Nat /\ b > 0 /\ Len(toBroker') = b - 1
      /\ toBroker[1] \in ClientPackets
      /\ \A i \in 1 .. b - 1 : toBroker'[i] = toBroker[i + 1] /\ i + 1 \in 1 .. b
  BY TailOfChannel DEF BrokerTypes
<1>2. link # "connecting"
  BY <1>1 DEF ConformingInv, Connecting
<1>3. \A i \in 1 .. Len(toClient) : toClient[i].type \in {"PUBLISH", "PUBREL"}
                                       /\ toClient[i].id \in Ids
  <2>1. \A i \in 1 .. Len(toClient) : toClient[i] \in BrokerPackets
    BY ElementOfSeq DEF BrokerTypes
  <2>2. \A i \in 1 .. Len(toClient) : toClient[i].type # "CONNACK"
    BY DEF ConformingInv, ToClientInv
  <2> QED
    BY <2>1, <2>2 DEF BrokerPackets, PublishPackets, PubrelPackets, ConnackPackets
<1>31. ~Anew
  <2>1. Len(toClient) \in Nat
    BY LenProperties DEF BrokerTypes
  <2> QED
    BY <2>1, <1>3 DEF Anew
<1>4. \A i \in 1 .. b : toBroker[i].type # "CONNECT"
  BY <1>1 DEF ConformingInv, ToBrokerInv
<1>5. \A i \in 1 .. b - 1 : i + 1 # 1
  BY <1>1
<1>6. ASSUME NEW i \in 1 .. b - 1, NEW j \in 1 .. b - 1, toBroker'[i].type \in Acks,
             toBroker'[j].type \in Acks, toBroker'[i].id = toBroker'[j].id
      PROVE  i = j
  <2>1. i + 1 = j + 1
    BY <1>1, <1>6 DEF ConformingInv, OnePacketPerId
  <2> QED
    BY <2>1, <1>1
<1>7. ASSUME toBroker[1].type \in Acks
      PROVE  /\ \A i \in 1 .. Len(toClient) : toClient[i].id # toBroker[1].id
             /\ \A i \in 1 .. b - 1 :
                   toBroker'[i].type \in Acks => toBroker'[i].id # toBroker[1].id
  <2>1. \A i \in 1 .. Len(toClient) : toClient[i].id # toBroker[1].id
    BY <1>1, <1>3, <1>7 DEF ConformingInv, OnePacketPerId
  <2>2. \A j \in 1 .. b : toBroker[j].type \in Acks /\ toBroker[j].id = toBroker[1].id => j = 1
    BY <1>1, <1>7 DEF ConformingInv, OnePacketPerId
  <2> QED
    BY <2>1, <2>2, <1>1, <1>5
<1>8. ASSUME NEW i \in 1 .. Len(toClient), NEW j \in 1 .. b - 1, toBroker'[j].type \in Acks
      PROVE  toClient[i].id # toBroker'[j].id
  BY <1>1, <1>3, <1>8 DEF ConformingInv, OnePacketPerId
<1> QED
  <2>1. Len(toBroker') = b - 1 /\ b - 1 \in Nat
    BY <1>1
  <2>2. \A i \in 1 .. b - 1 :
           /\ i + 1 \in 1 .. b /\ i + 1 # 1 /\ toBroker'[i] = toBroker[i + 1]
           /\ toBroker'[i].type # "CONNECT"
    BY <1>1, <1>4, <1>5
  <2>3. \A i, j \in 1 .. b - 1 :
           toBroker'[i].type \in Acks /\ toBroker'[j].type \in Acks
              /\ toBroker'[i].id = toBroker'[j].id => i = j
    BY <1>6
  <2>4. \A i \in 1 .. Len(toClient), j \in 1 .. b - 1 :
           toBroker'[j].type \in Acks => toClient[i].id # toBroker'[j].id
    BY <1>8
  <2>5. 1 \in 1 .. b /\ toBroker[1] \in ClientPackets /\ toBroker' \in Seq(ClientPackets)
    BY <1>1
  <2> QED
    BY <1>2, <1>3, <1>31, <1>7, <2>1, <2>2, <2>3, <2>4, <2>5

\* A packet that changes nothing but the channel.
LEMMA BrokerSkipsKeeps ==
    ASSUME BrokerTypes, ExchangeInv, ReceptionInv, ConformingInv, toBroker # <<>>,
           toBroker[1].type # "CONNECT", toBroker' = Tail(toBroker), KnownIds' = KnownIds,
           UNCHANGED <<link, expiry, conforming, content, reception, delivered, stale, mistaken>>,
           UNCHANGED <<exchange, published, completed, toClient>>
    PROVE  BrokerTypes' /\ ExchangeInv' /\ ReceptionInv' /\ ConformingInv'
<1>1. BrokerTypes' /\ ExchangeInv' /\ ReceptionInv'
  BY BrokerTakes DEF BrokerTypes, ExchangeInv, ReceptionInv
<1>2. ToClientInv' /\ Connecting'
  BY BrokerTakes DEF ConformingInv, ToClientInv, Connecting
<1>3. ToBrokerInv'
  BY BrokerTakes DEF ConformingInv, ToBrokerInv, AckOK
<1>4. OnePacketPerId'
  BY BrokerTakes DEF ConformingInv, OnePacketPerId
<1>5. Agreed'
  BY DEF ConformingInv, Agreed, Anew
<1> QED
  BY <1>1, <1>2, <1>3, <1>4, <1>5 DEF ConformingInv

\* The exchange of a packet id ends.
LEMMA BrokerEndsKeeps ==
    ASSUME BrokerTypes, ExchangeInv, ReceptionInv, ConformingInv, toBroker # <<>>,
           toBroker[1].type \in Acks, toBroker' = Tail(toBroker), KnownIds' = KnownIds,
           toBroker[1].type \in {"PUBACK", "PUBCOMP"} \/ toBroker[1].code = "error",
           UNCHANGED <<link, expiry, conforming, content, reception, delivered, stale, mistaken>>,
           exchange' = [exchange EXCEPT ![toBroker[1].id] = Free],
           completed' = completed
              \/ completed' = completed \cup {exchange[toBroker[1].id].msg},
           UNCHANGED <<published, toClient>>
    PROVE  BrokerTypes' /\ ExchangeInv' /\ ReceptionInv' /\ ConformingInv'
<1> DEFINE p == toBroker[1]
<1>1. p.type # "CONNECT"
  BY DEF Acks
<1>2. p.id \in Ids /\ exchange[p.id].st # "free" /\ AckOK(p)
  BY <1>1, BrokerTakes DEF ConformingInv, ToBrokerInv, AckOK, Acks
<1>3. /\ exchange[p.id].msg \in 1 .. published /\ exchange[p.id].msg # NoMsg
      /\ exchange[p.id].msg \in Msgs
  BY <1>2, UsedMsg DEF ExchangeInv
<1>4. \A x \in Ids : /\ x # p.id => exchange'[x] = exchange[x]
                     /\ x = p.id => exchange'[x].st = "free" /\ exchange'[x].msg = NoMsg
  BY <1>2 DEF BrokerTypes, Free
<1>5. BrokerTypes'
  <2>1. exchange' \in [Ids -> [st : {"free", "pub", "rel"}, msg : Msgs \cup {NoMsg}]]
    BY <1>2 DEF BrokerTypes, Free
  <2> QED
    BY <2>1, <1>1, <1>3, BrokerTakes DEF BrokerTypes
<1>6. ExchangeInv'
  <2>1. \A x \in Ids : x # p.id /\ exchange[x].st # "free" =>
           exchange[x].msg \notin completed'
    BY <1>2, <1>3 DEF ExchangeInv
  <2> QED
    BY <1>4, <2>1 DEF ExchangeInv
<1>7. ReceptionInv'
  BY <1>4 DEF ReceptionInv
<1>8. \A i \in 1 .. Len(toClient) : toClient[i].id # p.id /\ toClient[i].id \in Ids
  BY <1>1, BrokerTakes
<1>9. ToClientInv' /\ Connecting'
  BY <1>1, <1>4, <1>8, BrokerTakes DEF ConformingInv, ToClientInv, Connecting
<1>10. ToBrokerInv'
  <2> SUFFICES ASSUME NEW i \in 1 .. Len(toBroker')
               PROVE  AckOK(toBroker[i])' /\ toBroker'[i].type # "CONNECT"
    BY DEF ToBrokerInv
  <2>1. /\ i + 1 \in 1 .. Len(toBroker) /\ toBroker'[i] = toBroker[i + 1]
        /\ toBroker'[i].type # "CONNECT"
        /\ toBroker'[i].type \in Acks => toBroker'[i].id # p.id
    BY <1>1, BrokerTakes
  <2>2. AckOK(toBroker[i + 1])
    BY <2>1 DEF ConformingInv, ToBrokerInv
  <2> QED
    BY <1>4, <2>1, <2>2 DEF AckOK, Acks
<1>11. OnePacketPerId'
  BY <1>1, BrokerTakes DEF ConformingInv, OnePacketPerId
<1>12. Agreed'
  <2>1. ~Anew
    BY <1>1, BrokerTakes
  <2>2. ~stale => p.id \notin KnownIds
    <3> SUFFICES ASSUME ~stale PROVE p.id \notin KnownIds
      OBVIOUS
    <3>1. p.id \in KnownIds => content[exchange[p.id].msg].qos = 2
      BY <2>1, <1>2 DEF ConformingInv, Agreed, ReceptionInv
    <3>2. CASE p.type = "PUBACK"
      BY <3>1, <3>2, <1>2 DEF AckOK
    <3>3. CASE p.type = "PUBCOMP"
      BY <3>3, <1>2 DEF AckOK
    <3>4. CASE p.type = "PUBREC"
      BY <3>4, <1>2 DEF AckOK
    <3> QED
      BY <3>2, <3>3, <3>4 DEF Acks
  <2>3. ~stale => \A x \in KnownIds' : reception'[x] # NoMsg /\ exchange'[x].msg = reception'[x]
    BY <2>1, <2>2, <1>4 DEF ConformingInv, Agreed, KnownIds
  <2>4. ~stale => \A i \in 1 .. Len(toClient) :
              toClient[i].type = "PUBLISH" /\ ~toClient[i].dup => toClient[i].id \notin KnownIds
    BY <2>1 DEF ConformingInv, Agreed
  <2> QED
    BY <2>3, <2>4 DEF Agreed
<1> QED
  BY <1>5, <1>6, <1>7, <1>9, <1>10, <1>11, <1>12 DEF ConformingInv

\* The broker learns that a QoS 2 message has arrived.
LEMMA BrokerReleasesKeeps ==
    ASSUME BrokerTypes, ExchangeInv, ReceptionInv, ConformingInv, toBroker # <<>>,
           toBroker[1].type = "PUBREC", toBroker[1].code = "success",
           toBroker' = Tail(toBroker), KnownIds' = KnownIds,
           UNCHANGED <<link, expiry, conforming, content, reception, delivered, stale, mistaken>>,
           exchange' = [exchange EXCEPT ![toBroker[1].id].st = "rel"],
           toClient' = Append(toClient, Pubrel(toBroker[1].id)),
           UNCHANGED <<published, completed>>
    PROVE  BrokerTypes' /\ ExchangeInv' /\ ReceptionInv' /\ ConformingInv'
<1> DEFINE p == toBroker[1]
           r == Pubrel(p.id)
           n == Len(toClient)
<1>1. p.type # "CONNECT" /\ p.type \in Acks
  BY DEF Acks
<1>2. /\ p.id \in Ids /\ exchange[p.id].st = "pub"
      /\ content[exchange[p.id].msg].qos = 2
      /\ delivered[exchange[p.id].msg] > 0 \/ exchange[p.id].msg \in mistaken
  BY <1>1, BrokerTakes DEF ConformingInv, ToBrokerInv, AckOK
<1>3. \A x \in Ids : /\ x # p.id => exchange'[x] = exchange[x]
                     /\ exchange'[x].msg = exchange[x].msg
                     /\ x = p.id => exchange'[x].st = "rel"
  BY <1>2 DEF BrokerTypes
<1>4. r \in PubrelPackets /\ r.type = "PUBREL" /\ r.id = p.id
  BY <1>2 DEF Pubrel, PubrelPackets
<1> HIDE DEF r
<1>5. /\ n \in Nat /\ Len(toClient') = n + 1 /\ toClient' \in Seq(BrokerPackets)
      /\ \A i \in 1 .. n : toClient'[i] = toClient[i]
      /\ toClient'[n + 1] = r
      /\ \A i \in 1 .. n + 1 : i \in 1 .. n \/ i = n + 1
  <2>1. toClient \in Seq(BrokerPackets) /\ r \in BrokerPackets
    BY <1>4 DEF BrokerTypes, BrokerPackets
  <2>2. n \in Nat
    BY <2>1, LenProperties
  <2>3. toClient' = Append(toClient, r)
    BY DEF r
  <2> QED
    BY <2>1, <2>2, <2>3, AppendProperties
<1>6. exchange' \in [Ids -> [st : {"free", "pub", "rel"}, msg : Msgs \cup {NoMsg}]]
  <2>1. exchange[p.id] \in [st : {"free", "pub", "rel"}, msg : Msgs \cup {NoMsg}]
    BY <1>2 DEF BrokerTypes
  <2>2. [exchange[p.id] EXCEPT !.st = "rel"]
           \in [st : {"free", "pub", "rel"}, msg : Msgs \cup {NoMsg}]
    BY <2>1
  <2> QED
    BY <2>2, <1>2 DEF BrokerTypes
<1>7. BrokerTypes'
  BY <1>1, <1>5, <1>6, BrokerTakes DEF BrokerTypes
<1>8. ExchangeInv'
  BY <1>2, <1>3 DEF ExchangeInv
<1>9. ReceptionInv'
  BY <1>3 DEF ReceptionInv
<1>10. \A i \in 1 .. n : /\ toClient[i].id # p.id /\ toClient[i].id \in Ids
                         /\ toClient[i].type \in {"PUBLISH", "PUBREL"}
  BY <1>1, BrokerTakes
<1>11. ToClientInv'
  <2> SUFFICES ASSUME NEW i \in 1 .. n + 1
               PROVE  /\ toClient'[i].type = "PUBLISH" =>
                           /\ exchange'[toClient'[i].id] = [st |-> "pub", msg |-> toClient'[i].msg]
                           /\ toClient'[i].qos = content'[toClient'[i].msg].qos
                      /\ toClient'[i].type = "PUBREL" => exchange'[toClient'[i].id].st = "rel"
                      /\ toClient'[i].type # "CONNACK"
    BY <1>5 DEF ToClientInv
  <2>1. CASE i \in 1 .. n
    BY <2>1, <1>3, <1>5, <1>10 DEF ConformingInv, ToClientInv
  <2>2. CASE i = n + 1
    BY <2>2, <1>2, <1>3, <1>4, <1>5
  <2> QED
    BY <2>1, <2>2, <1>5
<1>12. Connecting'
  BY <1>1, BrokerTakes DEF ConformingInv, Connecting
<1>13. ToBrokerInv'
  <2> SUFFICES ASSUME NEW i \in 1 .. Len(toBroker')
               PROVE  AckOK(toBroker[i])' /\ toBroker'[i].type # "CONNECT"
    BY DEF ToBrokerInv
  <2>1. /\ i + 1 \in 1 .. Len(toBroker) /\ toBroker'[i] = toBroker[i + 1]
        /\ toBroker'[i].type # "CONNECT"
        /\ toBroker'[i].type \in Acks => toBroker'[i].id # p.id
    BY <1>1, BrokerTakes
  <2>2. AckOK(toBroker[i + 1])
    BY <2>1 DEF ConformingInv, ToBrokerInv
  <2> QED
    BY <1>3, <2>1, <2>2, SMTT(30) DEF AckOK, Acks
<1>14. OnePacketPerId'
  <2>1. ASSUME NEW i \in 1 .. n + 1, NEW j \in 1 .. n + 1, toClient'[i].id = toClient'[j].id
        PROVE  i = j
    <3>1. CASE i \in 1 .. n /\ j \in 1 .. n
      <4>1. toClient[i].id = toClient[j].id
        BY <2>1, <3>1, <1>5
      <4>2. toClient[i].type # "CONNACK" /\ toClient[j].type # "CONNACK"
        BY <3>1, <1>10
      <4> QED
        BY <3>1, <4>1, <4>2 DEF ConformingInv, OnePacketPerId
    <3> QED
      BY <2>1, <3>1, <1>4, <1>5, <1>10
  <2>2. ASSUME NEW i \in 1 .. n + 1, NEW j \in 1 .. Len(toBroker'), toBroker'[j].type \in Acks
        PROVE  toClient'[i].id # toBroker'[j].id
    <3>1. /\ toBroker'[j].id # p.id
          /\ \A k \in 1 .. n : toClient[k].id # toBroker'[j].id
      BY <1>1, <2>2, BrokerTakes
    <3> QED
      BY <3>1, <1>4, <1>5
  <2>3. \A i, j \in 1 .. Len(toBroker') :
           toBroker'[i].type \in Acks /\ toBroker'[j].type \in Acks
              /\ toBroker'[i].id = toBroker'[j].id => i = j
    BY <1>1, BrokerTakes
  <2> QED
    BY <2>1, <2>2, <2>3, <1>5 DEF OnePacketPerId
<1>15. Agreed'
  <2>1. ~Anew
    BY <1>1, BrokerTakes
  <2>2. ~stale => \A x \in KnownIds' : reception'[x] # NoMsg /\ exchange'[x].msg = reception'[x]
    BY <2>1, <1>3 DEF ConformingInv, Agreed, KnownIds
  <2>3. ASSUME ~stale, NEW i \in 1 .. n + 1, toClient'[i].type = "PUBLISH", ~toClient'[i].dup
        PROVE  toClient'[i].id \notin KnownIds'
    BY <2>1, <2>3, <1>4, <1>5 DEF ConformingInv, Agreed
  <2> QED
    BY <2>2, <2>3, <1>5 DEF Agreed
<1> QED
  BY <1>7, <1>8, <1>9, <1>11, <1>12, <1>13, <1>14, <1>15 DEF ConformingInv

\* The broker takes a packet of the client.
LEMMA BrokerRecvKeeps ==
    ASSUME RecvInv, BrokerTypes, ExchangeInv, ReceptionInv, ConformingInv, BrokerRecv
    PROVE  RecvInv' /\ BrokerTypes' /\ ExchangeInv' /\ ReceptionInv' /\ ConformingInv'
<1> DEFINE p == toBroker[1]
<1>1. /\ toBroker # <<>> /\ Head(toBroker) = p /\ p \in ClientPackets
      /\ p.type # "CONNECT" /\ toBroker' = Tail(toBroker)
  BY TailOfChannel DEF BrokerRecv, BrokerTypes
<1>2. /\ RecvInv' /\ KnownIds' = KnownIds
      /\ UNCHANGED <<link, expiry, conforming, content, reception, delivered, stale, mistaken>>
      /\ UNCHANGED published
  BY RestsKeeps DEF BrokerRecv
<1>3. p.type \in Acks \cup {"DISCONNECT"} /\ p.code \in {"success", "error"}
  BY <1>1 DEF ClientPackets, Acks
<1>4. CASE UNCHANGED <<exchange, completed, toClient>>
  BY <1>1, <1>2, <1>4, BrokerSkipsKeeps
<1>5. CASE /\ p.type \in {"PUBACK", "PUBCOMP"} \/ p.code = "error"
           /\ p.type # "DISCONNECT" /\ serving
           /\ exchange' = [exchange EXCEPT ![p.id] = Free]
           /\ completed' = IF p.type = "PUBCOMP" \/ p.code = "success"
                           THEN completed \cup {exchange[p.id].msg} ELSE completed
           /\ UNCHANGED <<stored, serving, toClient>>
  BY <1>1, <1>2, <1>3, <1>5, BrokerEndsKeeps
<1>6. CASE /\ p.type = "PUBREC" /\ p.code = "success" /\ serving
           /\ exchange' = [exchange EXCEPT ![p.id].st = "rel"]
           /\ toClient' = Append(toClient, Pubrel(p.id))
           /\ UNCHANGED <<stored, serving, completed>>
  BY <1>1, <1>2, <1>6, BrokerReleasesKeeps
<1> QED
  BY <1>1, <1>4, <1>5, <1>6 DEF BrokerRecv

------------------------------------------------------------------------------
(* The specification. *)

\* The invariant holds at the start.
LEMMA DeliveryInvInit == DeliveryInit => DeliveryInv
<1> SUFFICES ASSUME DeliveryInit PROVE DeliveryInv
  OBVIOUS
<1>1. RecvInv
  <2>1. GoodList(recvOps)
    BY EmptyGood DEF DeliveryInit, RecvInit
  <2>2. NoRecvAliases \in [Aliases -> Topics \cup {NoTopic}]
    BY DEF NoRecvAliases
  <2>3. OtherTypes
    BY <2>2, NoReportType, EmptySeq DEF DeliveryInit, RecvInit, OtherTypes, Links, Intervals
  <2> QED
    BY <2>1, <2>3, RecvInvParts
<1>2. KnownIds = {} /\ Len(toClient) = 0 /\ Len(toBroker) = 0
  BY DEF KnownIds, Known, DeliveryInit, RecvInit
<1>3. \A id \in Ids : exchange[id].st = "free" /\ exchange[id].msg = NoMsg
  BY DEF DeliveryInit, Free
<1>4. BrokerTypes
  <2>1. content \in [Msgs -> [qos : {1, 2}, topic : Topics \cup {NoTopic}]]
    <3>1. CASE conforming
      BY <3>1 DEF DeliveryInit
    <3>2. CASE ~conforming
      <4>1. content = [m \in Msgs |-> [qos |-> 1, topic |-> NoTopic]]
        BY <3>2 DEF DeliveryInit
      <4> QED
        BY <4>1
    <3> QED
      BY <3>1, <3>2
  <2>2. exchange \in [Ids -> [st : {"free", "pub", "rel"}, msg : Msgs \cup {NoMsg}]]
    BY DEF DeliveryInit, Free
  <2>3. published = 0 /\ published \in 0 .. MaxMsgs /\ completed \subseteq 1 .. published
    BY RecvDeliveryAssumption DEF DeliveryInit, RecvDeliveryAssumption
  <2>4. toClient \in Seq(BrokerPackets) /\ toBroker \in Seq(ClientPackets)
    BY EmptySeq DEF DeliveryInit
  <2>5. reception \in [Ids -> Msgs \cup {NoMsg}] /\ delivered \in [Msgs -> 0 .. 2]
    BY DEF DeliveryInit
  <2> QED
    BY <2>1, <2>2, <2>3, <2>4, <2>5 DEF BrokerTypes, DeliveryInit
<1>5. ExchangeInv
  BY <1>3 DEF ExchangeInv
<1>6. ReceptionInv
  BY DEF ReceptionInv, DeliveryInit
<1>7. ToClientInv /\ ToBrokerInv /\ OnePacketPerId /\ Agreed
  BY <1>2 DEF ToClientInv, ToBrokerInv, OnePacketPerId, Agreed
<1>8. Connecting
  BY DEF Connecting, DeliveryInit, RecvInit
<1>9. NonconformingInv
  BY DEF NonconformingInv, DeliveryInit
<1> QED
  BY <1>1, <1>4, <1>5, <1>6, <1>7, <1>8, <1>9 DEF DeliveryInv, ConformingInv

\* Every step with a conforming broker keeps it.
LEMMA ConformingKeeps ==
    ASSUME DeliveryInv, ConformingBroker
    PROVE  DeliveryInv'
<1>1. /\ RecvInv /\ BrokerTypes /\ ExchangeInv /\ ReceptionInv /\ ConformingInv
      /\ conforming /\ recvFault = "none"
  BY DEF DeliveryInv, ConformingBroker
<1>2. conforming' = conforming
  BY DEF ConformingBroker, BrokerPublish, BrokerConnack, BrokerRecv, ClientRests,
         ClientRecv, ClientTimeout, ClientDisconnect, ClientConnect,
         ClientGivesUp, NetworkLost, fixed
<1>3. RecvInv' /\ BrokerTypes' /\ ExchangeInv' /\ ReceptionInv' /\ ConformingInv'
  BY <1>1, BrokerPublishKeeps, BrokerConnackKeeps, BrokerRecvKeeps, ClientRecvKeeps,
     ClientTimeoutKeeps, ClientDisconnectKeeps, NetworkKeeps, GivesUpKeeps
  DEF ConformingBroker
<1> QED
  BY <1>1, <1>2, <1>3 DEF DeliveryInv

\* Every step keeps it.
LEMMA DeliveryInvStep == DeliveryInv /\ [DeliveryNext]_deliveryVars => DeliveryInv'
<1> SUFFICES ASSUME DeliveryInv, [DeliveryNext]_deliveryVars PROVE DeliveryInv'
  OBVIOUS
<1>1. ASSUME AnyBroker PROVE DeliveryInv'
  <2>1. RecvInv'
    BY <1>1, RecvStep DEF AnyBroker, DeliveryInv
  <2>2. UNCHANGED <<conforming, content, exchange, published, completed, reception,
                    delivered, toClient, toBroker, stale, mistaken>> /\ ~conforming
    BY <1>1 DEF AnyBroker, fixed, brokerVars, history
  <2>3. BrokerTypes' /\ ExchangeInv' /\ ReceptionInv' /\ NonconformingInv'
    BY <2>2 DEF DeliveryInv, BrokerTypes, ExchangeInv, ReceptionInv, NonconformingInv
  <2> QED
    BY <2>1, <2>2, <2>3 DEF DeliveryInv
<1>2. ASSUME ConformingBroker PROVE DeliveryInv'
  BY <1>2, ConformingKeeps
<1>3. ASSUME UNCHANGED deliveryVars PROVE DeliveryInv'
  <2>1. UNCHANGED recvVars /\ UNCHANGED <<conforming, content, exchange, published, completed,
                    reception, delivered, toClient, toBroker, serving, stale, mistaken>>
    BY <1>3 DEF deliveryVars, fixed, brokerVars, history
  <2>2. RecvInv' /\ KnownIds' = KnownIds
    BY <2>1 DEF DeliveryInv, recvVars, RecvInv, RecvTypeOK, OneOpPerId, ReceiveLimitKept,
                KnownIds, Known
  <2>3. BrokerTypes' /\ ExchangeInv' /\ ReceptionInv' /\ (NonconformingInv => NonconformingInv')
    BY <2>1 DEF DeliveryInv, BrokerTypes, ExchangeInv, ReceptionInv, NonconformingInv
  <2>4. ConformingInv => ConformingInv'
    BY <2>1, <2>2 DEF recvVars, ConformingInv, ToClientInv, ToBrokerInv, AckOK, OnePacketPerId,
                      Connecting, Agreed, Anew
  <2> QED
    BY <2>1, <2>2, <2>3, <2>4 DEF DeliveryInv
<1> QED
  BY <1>1, <1>2, <1>3 DEF DeliveryNext

\* The inductive invariant holds of every reachable state.
LEMMA DeliveryInductive == DeliverySpec => []DeliveryInv
BY DeliveryInvInit, DeliveryInvStep, PTL DEF DeliverySpec

\* Whatever a broker sends, the variables of the receive engine keep their types and
\* the list of its operations stays within its storage.
THEOREM RecvTypeCorrect == DeliverySpec => []RecvTypeOK
<1>1. DeliveryInv => RecvTypeOK
  BY DEF DeliveryInv, RecvInv
<1> QED
  BY <1>1, DeliveryInductive, PTL

\* Whatever a broker sends, a PUBREL finds the one reception it is about.
THEOREM ReceptionsApart == DeliverySpec => []OneOpPerId
<1>1. DeliveryInv => OneOpPerId
  BY DEF DeliveryInv, RecvInv
<1> QED
  BY <1>1, DeliveryInductive, PTL

\* Whatever a broker sends, no more messages are in reception than the client allows.
THEOREM ReceiveMaximumKept == DeliverySpec => []ReceiveLimitKept
<1>1. DeliveryInv => ReceiveLimitKept
  BY DEF DeliveryInv, RecvInv
<1> QED
  BY <1>1, DeliveryInductive, PTL

------------------------------------------------------------------------------
(* The refinement.  The state of module Delivery, written with the names above. *)

QosMap == [m \in Msgs |-> content[m].qos]
StageMap == [m \in Msgs |-> StageOf(m)]
Held == {reception[id] : id \in KnownIds} \ {NoMsg}

\* Where the broker is with a message, by whether a packet id stands for it.
StageFacts ==
    \A m \in Msgs :
        /\ published < m => StageOf(m) = "new"
        /\ \A id \in Ids : exchange[id].msg = m =>
              StageOf(m) = IF exchange[id].st = "pub" \/ m \in mistaken
                           THEN "offered" ELSE "released"
        /\ ~(published < m) /\ (\A id \in Ids : exchange[id].msg # m) =>
              StageOf(m) = IF m \in completed /\ m \notin mistaken THEN "done" ELSE "failed"

\* StageOf() is the one of these that applies.
LEMMA StageIs == BrokerTypes /\ ExchangeInv => StageFacts
<1> SUFFICES ASSUME BrokerTypes, ExchangeInv, NEW m \in Msgs
             PROVE  /\ published < m => StageOf(m) = "new"
                    /\ \A id \in Ids : exchange[id].msg = m =>
                         StageOf(m) = IF exchange[id].st = "pub" \/ m \in mistaken
                                      THEN "offered" ELSE "released"
                    /\ ~(published < m) /\ (\A id \in Ids : exchange[id].msg # m) =>
                         StageOf(m) = IF m \in completed /\ m \notin mistaken THEN "done" ELSE "failed"
  BY DEF StageFacts
<1>1. ASSUME NEW id \in Ids, exchange[id].msg = m
      PROVE  StageOf(m) = IF exchange[id].st = "pub" \/ m \in mistaken
                          THEN "offered" ELSE "released"
  <2>1. m # NoMsg /\ m \in Nat /\ published \in Nat
    BY RecvDeliveryAssumption DEF Msgs, NoMsg, BrokerTypes, RecvDeliveryAssumption
  <2>2. exchange[id].st # "free" /\ m \in 1 .. published
    BY <1>1, <2>1 DEF ExchangeInv
  <2>3. ~(published < m)
    BY <2>1, <2>2
  <2>4. {x \in Ids : exchange[x].msg = m} = {id}
    BY <1>1, <2>1 DEF ExchangeInv
  <2> QED
    BY <2>3, <2>4 DEF StageOf
<1>2. published < m => StageOf(m) = "new"
  BY DEF StageOf
<1>3. ASSUME ~(published < m), \A id \in Ids : exchange[id].msg # m
      PROVE  StageOf(m) = IF m \in completed /\ m \notin mistaken THEN "done" ELSE "failed"
  <2>1. {x \in Ids : exchange[x].msg = m} = {}
    BY <1>3
  <2> QED
    BY <1>3, <2>1 DEF StageOf
<1> QED
  BY <1>1, <1>2, <1>3

\* A message that is not mistaken is offered while a packet id stands for it that
\* is not released.
LEMMA OfferedIs ==
    ASSUME BrokerTypes, ExchangeInv, NEW m \in Msgs \cup {NoMsg},
           m \in mistaken =>
              \E id \in Ids : exchange[id].msg = m /\ exchange[id].st = "pub"
    PROVE  (\E id \in Ids : exchange[id] = [st |-> "pub", msg |-> m])
              <=> (m # NoMsg /\ StageOf(m) = "offered")
<1>1. ASSUME NEW id \in Ids, exchange[id] = [st |-> "pub", msg |-> m]
      PROVE  m # NoMsg /\ StageOf(m) = "offered"
  <2>1. exchange[id].st = "pub" /\ exchange[id].msg = m
    BY <1>1
  <2>2. m # NoMsg
    BY <2>1, UsedMsg
  <2>3. m \in Msgs
    BY <2>2
  <2> QED
    BY <2>1, <2>2, <2>3, StageIs DEF StageFacts
<1>2. ASSUME m # NoMsg, StageOf(m) = "offered"
      PROVE  \E id \in Ids : exchange[id] = [st |-> "pub", msg |-> m]
  <2>1. PICK id \in Ids : exchange[id].msg = m /\ exchange[id].st = "pub"
    <3>1. CASE m \notin mistaken
      BY <1>2, <3>1 DEF StageOf
    <3>2. CASE m \in mistaken
      BY <3>2
    <3> QED
      BY <3>1, <3>2
  <2>2. exchange[id] \in [st : {"free", "pub", "rel"}, msg : Msgs \cup {NoMsg}]
    BY DEF BrokerTypes
  <2> QED
    BY <2>1, <2>2
<1> QED
  BY <1>1, <1>2

\* The initial states.
LEMMA RefinesInit == DeliveryInit => Abstract!Init
<1> SUFFICES ASSUME DeliveryInit PROVE Abstract!Init
  OBVIOUS
<1>1. DeliveryInv
  BY DeliveryInvInit
<1>2. QosMap \in [Msgs -> {1, 2}]
  BY <1>1 DEF DeliveryInv, BrokerTypes, QosMap
<1>3. StageMap = [m \in Msgs |-> "new"]
  <2>1. \A m \in Msgs : published < m
    BY DEF DeliveryInit, Msgs
  <2>2. \A m \in Msgs : StageOf(m) = "new"
    BY <2>1, <1>1, StageIs DEF DeliveryInv, StageFacts
  <2> QED
    BY <2>2 DEF StageMap
<1>4. Held = {}
  BY DEF Held, KnownIds, Known, DeliveryInit, RecvInit
<1> QED
  BY <1>2, <1>3, <1>4 DEF Abstract!Init, QosMap, StageMap, Held, KnownIds, DeliveryInit

\* Nothing that module Delivery speaks of changes.
LEMMA RefinesStutter ==
    ASSUME UNCHANGED <<content, exchange, published, completed, delivered, gaveUp, Held,
                     mistaken>>
    PROVE  UNCHANGED Abstract!vars
<1>1. StageMap' = StageMap
  BY DEF StageMap, StageOf
<1> QED
  BY <1>1 DEF Abstract!vars, StageMap, Held, KnownIds

\* Only messages that are offered become mistaken for another, or stop being it.
OfferedMistaken ==
    \A m \in Msgs : \/ m \in mistaken <=> m \in mistaken'
                    \/ \E id \in Ids : exchange[id].st = "pub" /\ exchange[id].msg = m

\* Then no message changes its stage.
LEMMA StagesSame ==
    ASSUME DeliveryInv, DeliveryInv', UNCHANGED <<exchange, published, completed>>,
           OfferedMistaken
    PROVE  StageMap' = StageMap
<1>1. StageFacts /\ StageFacts'
  <2>1. (BrokerTypes /\ ExchangeInv => StageFacts)'
    BY StageIs, PTL
  <2> QED
    BY <2>1, StageIs DEF DeliveryInv
<1>2. ASSUME NEW m \in Msgs PROVE StageOf(m)' = StageOf(m)
  <2>1. CASE \E id \in Ids : exchange[id].st = "pub" /\ exchange[id].msg = m
    <3>1. PICK id \in Ids : exchange[id].st = "pub" /\ exchange[id].msg = m
      BY <2>1
    <3> QED
      BY <3>1, <1>1 DEF StageFacts
  <2>2. CASE m \in mistaken <=> m \in mistaken'
    BY <2>2 DEF StageOf
  <2> QED
    BY <2>1, <2>2 DEF OfferedMistaken
<1> QED
  BY <1>2 DEF StageMap

\* A step of the client that reports nothing forgets the receptions it ends.
LEMMA RefinesForget ==
    ASSUME DeliveryInv, DeliveryInv', Quiet, recvFault = "none", Recorded,
           UNCHANGED <<content, exchange, published, completed>>, OfferedMistaken
    PROVE  \E S \in SUBSET Msgs : Abstract!Forget(S)
<1> DEFINE gone == {reception[id] : id \in {x \in Ids : Known(x) /\ ~Known(x)'}}
           S == gone \ {NoMsg}
<1>1. BrokerTypes /\ ExchangeInv /\ ReceptionInv
  BY DEF DeliveryInv
<1>2. UNCHANGED <<delivered, reception>> /\ KnownIds' \subseteq KnownIds
  BY <1>1, RecordedQuiet DEF Quiet
<1>3. gone = {reception[id] : id \in KnownIds \ KnownIds'}
  BY DEF KnownIds
<1>4. Forgotten = gone
  <2>1. {m \in Msgs : m = reported'.msg /\ content[m].qos = 2 /\ recvFault' # "none"} = {}
    BY DEF Quiet
  <2> QED
    BY <2>1 DEF Forgotten
<1>5. gone \subseteq Msgs \cup {NoMsg}
  BY <1>1 DEF BrokerTypes
<1>6. S \subseteq Held
  BY <1>3 DEF Held
<1>7. Held' = Held \ S
  <2>1. Held' = {reception[id] : id \in KnownIds'} \ {NoMsg}
    BY <1>2 DEF Held
  <2>2. ASSUME NEW x \in Held, x \notin S PROVE x \in Held'
    <3>1. PICK id \in KnownIds : x = reception[id] /\ x # NoMsg
      BY DEF Held
    <3>2. id \in KnownIds'
      BY <2>2, <3>1, <1>3
    <3> QED
      BY <3>1, <3>2, <2>1
  <2>3. ASSUME NEW x \in Held' PROVE x \in Held /\ x \notin S
    <3>1. PICK id \in KnownIds' : x = reception[id] /\ x # NoMsg
      BY <2>1
    <3>2. id \in KnownIds /\ id \in Ids
      BY <1>2 DEF KnownIds
    <3>3. ASSUME x \in S PROVE FALSE
      <4>1. PICK y \in KnownIds \ KnownIds' : x = reception[y]
        BY <3>3, <1>3
      <4>2. y \in Ids
        BY <4>1 DEF KnownIds
      <4> QED
        BY <4>1, <4>2, <3>1, <3>2, <1>1 DEF ReceptionInv
    <3> QED
      BY <3>1, <3>2, <3>3 DEF Held
  <2> QED
    BY <2>2, <2>3
<1>8. gaveUp' = gaveUp \cup {m \in S : StageOf(m) = "offered"}
  <2>1. gaveUp' = gaveUp \cup {m \in gone : \E id \in Ids : exchange[id] = [st |-> "pub", msg |-> m]}
    BY <1>4 DEF Recorded
  <2>2. ASSUME NEW m \in gone
        PROVE  (\E id \in Ids : exchange[id] = [st |-> "pub", msg |-> m])
                  <=> (m # NoMsg /\ StageOf(m) = "offered")
    <3>1. m # NoMsg => m \notin mistaken
      BY <2>2, <1>1 DEF ReceptionInv
    <3>2. NoMsg \notin mistaken
      BY <1>1 DEF BrokerTypes, Msgs, NoMsg
    <3> QED
      BY <2>2, <3>1, <3>2, <1>1, <1>5, OfferedIs
  <2> QED
    BY <2>1, <2>2
<1> HIDE DEF gone
<1>9. QosMap' = QosMap /\ StageMap' = StageMap
  BY StagesSame DEF QosMap
<1>10. S \in SUBSET Msgs
  BY <1>5
<1>11. {m \in S : StageMap[m] = "offered"} = {m \in S : StageOf(m) = "offered"}
  BY <1>10 DEF StageMap
<1>12. Abstract!Forget(S)
  BY <1>2, <1>6, <1>7, <1>8, <1>9, <1>11
  DEF Abstract!Forget, Abstract!Forgetting, QosMap, StageMap, Held, KnownIds
<1> HIDE DEF S
<1> QED
  BY <1>10, <1>12 DEF Abstract!Forget, Abstract!Forgetting

\* A message that is reported is delivered, and forgotten at once when the client
\* goes on with a freed operation.
LEMMA RefinesDeliver ==
    ASSUME DeliveryInv, conforming, DeliveryInv', recvFault = "none",
           toClient # <<>>, toClient[1].type = "PUBLISH", Reported(toClient[1]), Recorded,
           UNCHANGED <<content, exchange, published, completed>>, OfferedMistaken
    PROVE  \E m \in Msgs, S \in SUBSET Msgs : Abstract!Deliver(m, S)
<1> DEFINE p == toClient[1]
           m == toClient[1].msg
<1>1. /\ RecvInv /\ RecvInv' /\ BrokerTypes /\ ExchangeInv /\ ReceptionInv /\ ConformingInv
      /\ BrokerTypes' /\ ReceptionInv'
  BY DEF DeliveryInv
<1>2. 1 \in 1 .. Len(toClient)
  BY <1>1, TailOfChannel DEF BrokerTypes
<1>3. /\ p.id \in Ids /\ m \in Msgs /\ p.qos \in {1, 2}
      /\ exchange[p.id].st = "pub" /\ exchange[p.id].msg = m /\ content[m].qos = p.qos
  <2>1. p.id \in Ids /\ m \in Msgs /\ p.qos \in {1, 2}
    BY <1>1, <1>2, PublishPacketGood
  <2>2. exchange[p.id] = [st |-> "pub", msg |-> m] /\ p.qos = content[m].qos
    BY <1>1, <1>2 DEF ConformingInv, ToClientInv
  <2> QED
    BY <2>1, <2>2
<1>4. StageOf(m) = "offered"
  BY <1>1, <1>3, StageIs DEF StageFacts
<1>5. m # NoMsg /\ reported'.msg = m /\ (p.qos = 2 => p.id \notin KnownIds)
  BY <1>3 DEF Msgs, NoMsg, Reported
<1>6. p.qos = 2 => m \notin Held
  <2>1. ASSUME p.qos = 2, m \in Held PROVE FALSE
    <3>1. PICK id \in KnownIds : m = reception[id]
      BY <2>1 DEF Held
    <3>2. id \in Ids
      BY <3>1 DEF KnownIds
    <3> QED
      BY <2>1, <3>1, <3>2, <1>1, <1>3, <1>5 DEF ReceptionInv
  <2> QED
    BY <2>1
<1>7. /\ delivered' = [delivered EXCEPT ![m] =
                         IF delivered[m] = 0 \/ content[m].qos = 1 THEN 1 ELSE 2]
      /\ reception' = IF recvFault' = "none" /\ p.qos = 2
                      THEN [reception EXCEPT ![p.id] = m] ELSE reception
  BY <1>1, <1>3, RecordedReport
<1>8. delivered' = [delivered EXCEPT ![m] = IF @ = 0 \/ QosMap[m] = 1 THEN 1 ELSE 2]
  BY <1>3, <1>7 DEF QosMap
<1>9. QosMap' = QosMap /\ StageMap' = StageMap
  BY StagesSame DEF QosMap
<1>10. StageMap[m] = "offered" /\ QosMap[m] = p.qos
  BY <1>3, <1>4 DEF StageMap, QosMap
<1> DEFINE known == IF p.qos = 2 THEN Held \cup {m} ELSE Held
<1>11. Held \subseteq Msgs /\ known \subseteq Msgs
  BY <1>1, <1>3 DEF Held, BrokerTypes, KnownIds
<1>13. gaveUp' = gaveUp \cup {x \in Forgotten :
                               \E id \in Ids : exchange[id] = [st |-> "pub", msg |-> x]}
  BY DEF Recorded
<1>14. Forgotten = {reception[id] : id \in KnownIds \ KnownIds'}
                      \cup {x \in Msgs : x = m /\ p.qos = 2 /\ recvFault' # "none"}
  <2>1. {x \in Ids : Known(x) /\ ~Known(x)'} = KnownIds \ KnownIds'
    BY DEF KnownIds
  <2> QED
    BY <1>3, <1>5, <2>1 DEF Forgotten
<1> DEFINE S == IF recvFault' = "none" THEN {} ELSE known
<1>15. ASSUME recvFault' # "none"
       PROVE  Held' = known \ S /\ gaveUp' = gaveUp \cup {x \in S : StageMap[x] = "offered"}
  <2>1. KnownIds' = {}
    BY <1>15 DEF Reported, KnownIds, Known
  <2>2. Held' = {}
    BY <2>1 DEF Held
  <2>3. Forgotten \subseteq known \cup {NoMsg} /\ known \subseteq Forgotten
    BY <1>3, <1>14, <1>15, <2>1 DEF Held
  <2>4. ASSUME NEW x \in Forgotten
        PROVE  (\E id \in Ids : exchange[id] = [st |-> "pub", msg |-> x])
                  <=> (x # NoMsg /\ StageOf(x) = "offered")
    <3>1. x \in mistaken =>
             \E id \in Ids : exchange[id].msg = x /\ exchange[id].st = "pub"
      <4>1. CASE x \in Held
        BY <4>1, <1>1 DEF Held, KnownIds, ReceptionInv
      <4>2. CASE x = m
        BY <4>2, <1>3
      <4>3. CASE x = NoMsg
        BY <4>3, <1>1 DEF BrokerTypes, Msgs, NoMsg
      <4> QED
        BY <2>3, <2>4, <4>1, <4>2, <4>3
    <3> QED
      BY <2>3, <2>4, <3>1, <1>1, <1>11, OfferedIs
  <2>5. NoMsg \notin known
    BY <1>5 DEF Held
  <2>6. gaveUp' = gaveUp \cup {x \in known : StageOf(x) = "offered"}
    BY <1>13, <2>3, <2>4, <2>5
  <2>7. {x \in known : StageOf(x) = "offered"} = {x \in known : StageMap[x] = "offered"}
    BY <1>11 DEF StageMap
  <2> QED
    BY <1>15, <2>2, <2>6, <2>7
<1>16. ASSUME recvFault' = "none"
       PROVE  Held' = known \ S /\ gaveUp' = gaveUp \cup {x \in S : StageMap[x] = "offered"}
  <2>1. KnownIds' = KnownIds \cup (IF p.qos = 2 THEN {p.id} ELSE {})
    BY <1>16 DEF Reported
  <2>2. Forgotten = {}
    BY <1>14, <1>16, <2>1
  <2>3. gaveUp' = gaveUp
    BY <1>13, <2>2
  <2>4. ASSUME p.qos = 2 PROVE Held' = known
    <3>1. reception' = [reception EXCEPT ![p.id] = m]
      BY <1>7, <1>16, <2>4
    <3>2. /\ reception'[p.id] = m
          /\ \A id \in KnownIds : reception'[id] = reception[id]
      BY <1>1, <1>3, <1>5, <2>4, <3>1 DEF BrokerTypes, KnownIds
    <3>3. Held' = {reception'[id] : id \in KnownIds \cup {p.id}} \ {NoMsg}
      BY <2>1, <2>4 DEF Held
    <3>4. Held' = known
      <4>1. {reception'[id] : id \in KnownIds \cup {p.id}}
               = {reception[id] : id \in KnownIds} \cup {m}
        BY <3>2
      <4>2. Held = {reception[id] : id \in KnownIds} \ {NoMsg} /\ known = Held \cup {m}
        BY <2>4 DEF Held
      <4> QED
        BY <3>3, <4>1, <4>2, <1>5
    <3> QED
      BY <3>4
  <2>5. ASSUME p.qos # 2 PROVE Held' = known
    <3>1. reception' = reception /\ KnownIds' = KnownIds
      BY <1>7, <2>1, <2>5
    <3> QED
      BY <2>5, <3>1 DEF Held
  <2>6. Held' = known
    BY <2>4, <2>5
  <2>7. S = {}
    BY <1>16
  <2> HIDE DEF known, S
  <2> QED
    BY <2>3, <2>6, <2>7
<1>17. S \subseteq known /\ S \in SUBSET Msgs
  BY <1>11
<1>18. Held' = known \ S /\ gaveUp' = gaveUp \cup {x \in S : StageMap[x] = "offered"}
  BY <1>15, <1>16
<1> HIDE DEF S
<1>19. Abstract!Deliver(m, S)
  BY <1>3, <1>6, <1>8, <1>9, <1>10, <1>17, <1>18
  DEF Abstract!Deliver, Abstract!Forgetting, QosMap, StageMap, Held, KnownIds
<1> QED
  BY <1>3, <1>17, <1>19 DEF Abstract!Deliver, Abstract!Forgetting

\* The broker publishes a message.
LEMMA RefinesOffer ==
    ASSUME DeliveryInv, DeliveryInv',
           NEW id \in Ids, NEW alias \in Aliases \cup {NoAlias}, NEW named \in BOOLEAN,
           BrokerPublish(id, alias, named)
    PROVE  \E m \in Msgs : Abstract!Offer(m)
<1>1. /\ RecvInv /\ BrokerTypes /\ ExchangeInv /\ BrokerTypes' /\ ExchangeInv'
  BY DEF DeliveryInv
<1>2. /\ KnownIds' = KnownIds /\ UNCHANGED <<content, reception, delivered, gaveUp>>
      /\ UNCHANGED <<completed, mistaken>>
  BY <1>1, RestsKeeps DEF BrokerPublish
<1>3. PICK m : m = published + 1
  OBVIOUS
<1>4. /\ published < MaxMsgs /\ exchange[id].st = "free" /\ published' = m
      /\ exchange' = [exchange EXCEPT ![id] = [st |-> "pub", msg |-> m]]
  BY <1>3 DEF BrokerPublish, InUse
<1>5. m \in Msgs /\ published \in Nat /\ published < m /\ Msgs \subseteq Nat
  BY <1>1, <1>3, <1>4, RecvDeliveryAssumption DEF BrokerTypes, Msgs, RecvDeliveryAssumption
<1>6. \A x \in Ids : /\ x # id => exchange'[x] = exchange[x]
                     /\ x = id => exchange'[x].st = "pub" /\ exchange'[x].msg = m
  BY <1>1, <1>4 DEF BrokerTypes
<1>7. exchange[id].msg = NoMsg /\ NoMsg \notin Msgs
  BY <1>1, <1>4 DEF ExchangeInv, Msgs, NoMsg
<1>8. StageMap' = [StageMap EXCEPT ![m] = "offered"]
  <2>1. StageFacts /\ StageFacts'
    <3>1. (BrokerTypes /\ ExchangeInv => StageFacts)'
      BY StageIs, PTL
    <3> QED
      BY <1>1, <3>1, StageIs
  <2>2. StageOf(m)' = "offered"
    BY <2>1, <1>5, <1>6 DEF StageFacts
  <2>3. ASSUME NEW x \in Msgs, x # m PROVE StageOf(x)' = StageOf(x)
    <3>1. CASE published < x
      <4>1. published' < x
        BY <1>3, <1>4, <1>5, <2>3, <3>1
      <4> QED
        BY <4>1, <3>1, <2>1 DEF StageFacts
    <3>2. ASSUME NEW y \in Ids, exchange[y].msg = x PROVE StageOf(x)' = StageOf(x)
      <4>1. exchange'[y] = exchange[y]
        BY <3>2, <1>6, <1>7
      <4> QED
        BY <3>2, <4>1, <2>1, <1>2 DEF StageFacts
    <3>3. CASE ~(published < x) /\ \A y \in Ids : exchange[y].msg # x
      <4>1. ~(published' < x) /\ \A y \in Ids : exchange'[y].msg # x
        BY <3>3, <2>3, <1>3, <1>4, <1>5, <1>6
      <4> QED
        BY <3>3, <4>1, <2>1, <1>2 DEF StageFacts
    <3> QED
      BY <3>1, <3>2, <3>3
  <2> QED
    BY <2>2, <2>3, <1>5 DEF StageMap
<1>9. StageMap[m] = "new"
  BY <1>1, <1>5, StageIs DEF StageFacts, StageMap
<1>10. Held' = Held /\ QosMap' = QosMap
  BY <1>2 DEF Held, QosMap
<1>11. Abstract!Offer(m)
  BY <1>2, <1>8, <1>9, <1>10 DEF Abstract!Offer, QosMap, StageMap, Held, KnownIds
<1> QED
  BY <1>5, <1>11 DEF Abstract!Offer

\* What becomes of one message leaves the others where they are.
LEMMA OthersStay ==
    ASSUME BrokerTypes, ExchangeInv, StageFacts, StageFacts',
           published' = published, mistaken' = mistaken,
           NEW id \in Ids, NEW m \in Msgs, exchange[id].msg = m,
           \A x \in Ids \ {id} : exchange'[x] = exchange[x],
           exchange'[id].msg \in {m, NoMsg},
           completed' = completed \/ completed' = completed \cup {m}
    PROVE  /\ \A x \in Msgs : x # m => StageOf(x)' = StageOf(x)
           /\ exchange'[id].msg = m =>
                 StageOf(m)' = IF exchange'[id].st = "pub" \/ m \in mistaken
                               THEN "offered" ELSE "released"
           /\ exchange'[id].msg = NoMsg =>
                 StageOf(m)' = IF m \in completed' /\ m \notin mistaken THEN "done" ELSE "failed"
           /\ StageOf(m) = IF exchange[id].st = "pub" \/ m \in mistaken
                           THEN "offered" ELSE "released"
           /\ m \notin completed
<1>1. NoMsg \notin Msgs /\ published \in Nat /\ Msgs \subseteq Nat
  BY RecvDeliveryAssumption DEF Msgs, NoMsg, BrokerTypes, RecvDeliveryAssumption
<1>2. ASSUME NEW x \in Msgs, x # m PROVE StageOf(x)' = StageOf(x)
  <2>1. CASE published < x
    BY <2>1 DEF StageFacts
  <2>2. ASSUME NEW y \in Ids, exchange[y].msg = x PROVE StageOf(x)' = StageOf(x)
    <3>1. exchange'[y] = exchange[y]
      BY <1>2, <2>2
    <3> QED
      BY <2>2, <3>1 DEF StageFacts
  <2>3. CASE ~(published < x) /\ \A y \in Ids : exchange[y].msg # x
    <3>1. \A y \in Ids : exchange'[y].msg # x
      BY <1>1, <1>2, <2>3
    <3>2. x \in completed' <=> x \in completed
      BY <1>2
    <3> QED
      BY <2>3, <3>1, <3>2 DEF StageFacts
  <2> QED
    BY <2>1, <2>2, <2>3
<1>3. exchange[id].st # "free" /\ m \in 1 .. published /\ m \notin completed
  BY <1>1 DEF ExchangeInv
<1>4. exchange'[id].msg = m =>
         StageOf(m)' = IF exchange'[id].st = "pub" \/ m \in mistaken
                       THEN "offered" ELSE "released"
  BY DEF StageFacts
<1>5. ASSUME exchange'[id].msg = NoMsg
      PROVE  StageOf(m)' = IF m \in completed' /\ m \notin mistaken THEN "done" ELSE "failed"
  <2>1. \A y \in Ids : exchange'[y].msg # m
    BY <1>1, <1>5 DEF ExchangeInv
  <2>2. ~(published' < m)
    BY <1>1, <1>3
  <2> QED
    BY <2>1, <2>2 DEF StageFacts
<1>6. StageOf(m) = IF exchange[id].st = "pub" \/ m \in mistaken
                   THEN "offered" ELSE "released"
  BY DEF StageFacts
<1> QED
  BY <1>2, <1>3, <1>4, <1>5, <1>6

\* The stages before and after a step.
LEMMA StagesKnown ==
    ASSUME DeliveryInv, DeliveryInv'
    PROVE  StageFacts /\ StageFacts'
<1>1. (BrokerTypes /\ ExchangeInv => StageFacts)'
  BY StageIs, PTL
<1> QED
  BY <1>1, StageIs DEF DeliveryInv

\* A CONNACK that starts a new session gives every message of the old one up.
LEMMA RefinesAnew ==
    ASSUME DeliveryInv, DeliveryInv',
           NEW interval \in Intervals, NEW alias \in Aliases, NEW defining \in SUBSET Ids,
           NEW present \in BOOLEAN, BrokerConnack(present, interval, alias, defining)
    PROVE  (\E S \in SUBSET Msgs : Abstract!Fail(S)) \/ UNCHANGED Abstract!vars
<1>1. RecvInv /\ BrokerTypes /\ ExchangeInv
  BY DEF DeliveryInv
<1>2. /\ KnownIds' = KnownIds /\ UNCHANGED <<content, reception, delivered, gaveUp>>
      /\ UNCHANGED <<published, completed, mistaken>>
      /\ exchange' = IF present THEN exchange ELSE [id \in Ids |-> Free]
  BY <1>1, RestsKeeps DEF BrokerConnack
<1>3. Held' = Held /\ QosMap' = QosMap
  BY <1>2 DEF Held, QosMap
<1>4. CASE present
  BY <1>2, <1>3, <1>4, RefinesStutter
<1>5. CASE ~present
  <2> DEFINE S == {m \in Msgs : \E id \in Ids : exchange[id].msg = m}
  <2>1. \A id \in Ids : exchange'[id].msg = NoMsg
    BY <1>2, <1>5 DEF Free
  <2>2. NoMsg \notin Msgs /\ StageFacts /\ StageFacts'
    BY StagesKnown DEF Msgs, NoMsg
  <2>3. ASSUME NEW m \in Msgs
        PROVE  /\ m \in S => StageOf(m) \in {"new", "offered", "released"}
               /\ StageOf(m)' = IF m \in S THEN "failed" ELSE StageOf(m)
    <3>1. \A id \in Ids : exchange'[id].msg # m
      BY <2>1, <2>2
    <3>2. CASE m \in S
      <4>1. PICK id \in Ids : exchange[id].msg = m
        BY <3>2
      <4>2. m \notin completed /\ m \in 1 .. published
        BY <4>1, <1>1, <2>2 DEF ExchangeInv
      <4>3. ~(published' < m)
        BY <4>2, <1>1, <1>2 DEF BrokerTypes
      <4>4. StageOf(m)' = "failed"
        BY <3>1, <4>2, <4>3, <2>2, <1>2 DEF StageFacts
      <4>5. StageOf(m) \in {"offered", "released"}
        BY <4>1, <2>2 DEF StageFacts
      <4> QED
        BY <3>2, <4>4, <4>5
    <3>3. CASE m \notin S
      <4>1. \A id \in Ids : exchange[id].msg # m
        BY <3>3
      <4>2. StageOf(m)' = StageOf(m)
        BY <3>1, <4>1, <2>2, <1>2 DEF StageFacts
      <4> QED
        BY <3>3, <4>2
    <3> QED
      BY <3>2, <3>3
  <2>4. S \in SUBSET Msgs
    OBVIOUS
  <2> HIDE DEF S
  <2>5. StageMap' = [m \in Msgs |-> IF m \in S THEN "failed" ELSE StageMap[m]]
    BY <2>3 DEF StageMap
  <2>6. \A m \in S : StageMap[m] \in {"new", "offered", "released"}
    BY <2>3, <2>4 DEF StageMap
  <2>7. Abstract!Fail(S)
    BY <1>2, <1>3, <2>5, <2>6 DEF Abstract!Fail, QosMap, StageMap, Held, KnownIds
  <2> QED
    BY <2>4, <2>7 DEF Abstract!Fail
<1> QED
  BY <1>4, <1>5

\* The broker takes a packet: the exchange it is about goes on, ends well or fails.
LEMMA RefinesRecv ==
    ASSUME DeliveryInv, conforming, DeliveryInv', BrokerRecv
    PROVE  \/ \E m \in Msgs : Abstract!Release(m) \/ Abstract!Finish(m)
           \/ \E S \in SUBSET Msgs : Abstract!Fail(S)
           \/ UNCHANGED Abstract!vars
<1> DEFINE p == toBroker[1]
           m == exchange[p.id].msg
<1>1. RecvInv /\ BrokerTypes /\ ExchangeInv /\ ConformingInv /\ StageFacts /\ StageFacts'
  BY StagesKnown DEF DeliveryInv
<1>2. /\ toBroker # <<>> /\ Head(toBroker) = p /\ p \in ClientPackets
      /\ p.type # "CONNECT" /\ 1 \in 1 .. Len(toBroker)
  BY <1>1, TailOfChannel DEF BrokerRecv, BrokerTypes
<1>3. /\ KnownIds' = KnownIds /\ UNCHANGED <<content, reception, delivered, gaveUp>>
      /\ UNCHANGED <<published, mistaken>>
  BY <1>1, RestsKeeps DEF BrokerRecv
<1>4. Held' = Held /\ QosMap' = QosMap
  BY <1>3 DEF Held, QosMap
<1>5. CASE UNCHANGED <<exchange, completed, toClient>>
  BY <1>3, <1>4, <1>5, RefinesStutter
<1>6. p.type \in Acks \cup {"DISCONNECT"} /\ p.code \in {"success", "error"}
  BY <1>2 DEF ClientPackets, Acks
<1>7. ASSUME p.type \in Acks
      PROVE  /\ p.id \in Ids /\ m \in Msgs /\ exchange[p.id].st # "free"
             /\ AckOK(p)
  <2>1. AckOK(p)
    BY <1>1, <1>2 DEF ConformingInv, ToBrokerInv
  <2>2. p.id \in Ids /\ exchange[p.id].st # "free"
    BY <2>1, <1>7 DEF AckOK, Acks
  <2> QED
    BY <2>1, <2>2, <1>1, UsedMsg
<1>8. ASSUME p.type \in Acks, p.type \in {"PUBACK", "PUBCOMP"} \/ p.code = "error",
             exchange' = [exchange EXCEPT ![p.id] = Free],
             completed' = IF p.type = "PUBCOMP" \/ p.code = "success"
                          THEN completed \cup {m} ELSE completed
      PROVE  (\E x \in Msgs : Abstract!Finish(x)) \/ \E S \in SUBSET Msgs : Abstract!Fail(S)
  <2>1. /\ \A x \in Ids \ {p.id} : exchange'[x] = exchange[x]
        /\ exchange'[p.id].msg = NoMsg
    BY <1>1, <1>7, <1>8 DEF BrokerTypes, Free
  <2>2. p.id \in Ids /\ m \in Msgs /\ exchange[p.id].st # "free" /\ AckOK(p)
    BY <1>7, <1>8
  <2>3. PICK k \in Msgs : k = m
    BY <2>2
  <2>4. /\ \A x \in Msgs : x # k => StageOf(x)' = StageOf(x)
        /\ StageOf(k)' = IF k \in completed' /\ k \notin mistaken THEN "done" ELSE "failed"
        /\ StageOf(k) = IF exchange[p.id].st = "pub" \/ k \in mistaken
                        THEN "offered" ELSE "released"
        /\ k \notin completed
    <3>1. completed' = completed \/ completed' = completed \cup {k}
      BY <1>8, <2>3
    <3> QED
      BY <1>1, <1>3, <2>1, <2>2, <2>3, <3>1, OthersStay
  <2>5. CASE (p.type = "PUBCOMP" \/ p.code = "success") /\ k \notin mistaken
    <3>1. StageOf(k)' = "done"
      BY <1>8, <2>3, <2>4, <2>5
    <3>2. StageMap' = [StageMap EXCEPT ![k] = "done"]
      BY <2>4, <3>1 DEF StageMap
    <3>3. IF QosMap[k] = 1 THEN StageMap[k] = "offered" /\ delivered[k] > 0
                           ELSE StageMap[k] = "released"
      <4>1. CASE p.type = "PUBCOMP"
        <5>1. exchange[p.id].st = "rel"
          BY <2>2, <4>1 DEF AckOK
        <5>2. content[k].qos = 2
          BY <5>1, <2>2, <2>3, <1>1 DEF ExchangeInv
        <5> QED
          BY <5>1, <5>2, <2>4, <2>5 DEF StageMap, QosMap
      <4>2. CASE p.type # "PUBCOMP"
        <5>1. p.type = "PUBACK" /\ p.code = "success"
          BY <4>2, <2>5, <1>6, <1>8 DEF Acks
        <5>2. exchange[p.id].st = "pub" /\ content[k].qos = 1 /\ delivered[k] > 0
          BY <5>1, <2>2, <2>3 DEF AckOK
        <5> QED
          BY <5>2, <2>4 DEF StageMap, QosMap
      <4> QED
        BY <4>1, <4>2
    <3>4. Abstract!Finish(k)
      BY <3>2, <3>3, <1>3, <1>4 DEF Abstract!Finish, QosMap, StageMap, Held, KnownIds
    <3> QED
      BY <3>4 DEF Abstract!Finish
  <2>6. CASE ~(p.type = "PUBCOMP" \/ p.code = "success") \/ k \in mistaken
    <3>1. StageOf(k)' = "failed"
      BY <1>8, <2>4, <2>6
    <3>2. StageMap' = [x \in Msgs |-> IF x \in {k} THEN "failed" ELSE StageMap[x]]
      BY <2>4, <3>1 DEF StageMap
    <3>3. StageMap[k] \in {"new", "offered", "released"}
      BY <2>4 DEF StageMap
    <3> DEFINE S == {k}
    <3>4. S \in SUBSET Msgs /\ \A x \in S : StageMap[x] \in {"new", "offered", "released"}
      BY <3>3
    <3>5. StageMap' = [x \in Msgs |-> IF x \in S THEN "failed" ELSE StageMap[x]]
      BY <3>2
    <3> HIDE DEF S
    <3>6. Abstract!Fail(S)
      BY <3>4, <3>5, <1>3, <1>4 DEF Abstract!Fail, QosMap, StageMap, Held, KnownIds
    <3> QED
      BY <3>4, <3>6 DEF Abstract!Fail
  <2> QED
    BY <2>5, <2>6
<1>9. ASSUME p.type = "PUBREC", p.code = "success",
             exchange' = [exchange EXCEPT ![p.id].st = "rel"], completed' = completed
      PROVE  (\E x \in Msgs : Abstract!Release(x)) \/ UNCHANGED Abstract!vars
  <2>1. p.id \in Ids /\ m \in Msgs /\ exchange[p.id].st # "free" /\ AckOK(p)
    BY <1>7, <1>9 DEF Acks
  <2>2. /\ \A x \in Ids \ {p.id} : exchange'[x] = exchange[x]
        /\ exchange'[p.id].msg = m /\ exchange'[p.id].st = "rel"
    BY <1>1, <2>1, <1>9 DEF BrokerTypes
  <2>3. PICK k \in Msgs : k = m
    BY <2>1
  <2>4. /\ \A x \in Msgs : x # k => StageOf(x)' = StageOf(x)
        /\ StageOf(k)' = IF k \in mistaken THEN "offered" ELSE "released"
        /\ StageOf(k) = IF exchange[p.id].st = "pub" \/ k \in mistaken
                        THEN "offered" ELSE "released"
    BY <1>1, <1>3, <1>9, <2>1, <2>2, <2>3, OthersStay
  <2>5. /\ exchange[p.id].st = "pub" /\ content[k].qos = 2
        /\ delivered[k] > 0 \/ k \in mistaken
    BY <1>9, <2>1, <2>3 DEF AckOK
  <2>6. CASE k \notin mistaken
    <3>1. StageMap' = [StageMap EXCEPT ![k] = "released"]
      BY <2>4, <2>6 DEF StageMap
    <3>2. StageMap[k] = "offered" /\ QosMap[k] = 2
      BY <2>4, <2>5 DEF StageMap, QosMap
    <3>3. Abstract!Release(k)
      BY <2>5, <2>6, <3>1, <3>2, <1>3, <1>4
      DEF Abstract!Release, QosMap, StageMap, Held, KnownIds
    <3> QED
      BY <3>3 DEF Abstract!Release
  <2>7. CASE k \in mistaken
    <3>1. StageMap' = StageMap
      BY <2>4, <2>7 DEF StageMap
    <3> QED
      BY <3>1, <1>3, <1>4 DEF Abstract!vars, QosMap, StageMap, Held, KnownIds
  <2> QED
    BY <2>6, <2>7
<1>10. \/ UNCHANGED <<exchange, completed, toClient>>
       \/ /\ p.type \in Acks
          /\ p.type \in {"PUBACK", "PUBCOMP"} \/ p.code = "error"
          /\ exchange' = [exchange EXCEPT ![p.id] = Free]
          /\ completed' = IF p.type = "PUBCOMP" \/ p.code = "success"
                          THEN completed \cup {m} ELSE completed
       \/ /\ p.type = "PUBREC" /\ p.code = "success"
          /\ exchange' = [exchange EXCEPT ![p.id].st = "rel"] /\ completed' = completed
  BY <1>2, <1>6 DEF BrokerRecv
<1> QED
  BY <1>5, <1>8, <1>9, <1>10

\* A packet the client takes: a message is delivered, or receptions are forgotten.
LEMMA RefinesClientRecv ==
    ASSUME DeliveryInv, conforming, DeliveryInv', recvFault = "none", ClientRecv
    PROVE  \/ \E m \in Msgs, S \in SUBSET Msgs : Abstract!Deliver(m, S)
           \/ \E S \in SUBSET Msgs : Abstract!Forget(S)
<1> DEFINE p == toClient[1]
<1>1. RecvInv /\ BrokerTypes /\ ConformingInv
  BY DEF DeliveryInv
<1>2. /\ toClient # <<>> /\ Head(toClient) = p /\ p \in BrokerPackets
      /\ 1 \in 1 .. Len(toClient)
  BY <1>1, TailOfChannel DEF ClientRecv, BrokerTypes
<1>3. Recorded /\ UNCHANGED <<content, exchange, published, completed>>
  BY DEF ClientRecv, fixed, brokerVars
<1>31. OfferedMistaken
  <2>1. mistaken' = (mistaken \cup Taken(p)) \ {reported'.msg}
    BY <1>2 DEF ClientRecv
  <2>2. CASE p.type = "PUBLISH"
    <3>1. exchange[p.id] = [st |-> "pub", msg |-> p.msg] /\ p.id \in Ids
      BY <2>2, <1>1, <1>2, PublishPacketGood DEF ConformingInv, ToClientInv
    <3>2. reported'.msg \in {p.msg, NoMsg}
      <4>1. CASE \E leaves \in BOOLEAN : HandlePublish(p, leaves)
        BY <2>2, <4>1, <1>1, <1>2, HandlePublishKeeps, PublishPacketGood
        DEF Reported, Refused, Quiet, NoReport
      <4>2. CASE IgnorePublish
        BY <4>2 DEF IgnorePublish, Ignored, NoReport
      <4> QED
        BY <2>2, <4>1, <4>2, <1>2 DEF ClientRecv
    <3>3. Taken(p) \subseteq {p.msg} /\ \A m \in Msgs : m # NoMsg
      BY DEF Taken, Msgs, NoMsg
    <3> QED
      BY <2>1, <3>1, <3>2, <3>3 DEF OfferedMistaken
  <2>3. CASE p.type # "PUBLISH"
    <3>1. Quiet
      <4>1. CASE p.type = "PUBREL" /\ HandlePubrel(p.id, "success")
        <5>1. p.id \in Ids
          BY <1>2, <4>1 DEF BrokerPackets, PublishPackets, PubrelPackets, ConnackPackets
        <5> QED
          BY <1>1, <4>1, <5>1, HandlePubrelKeeps
      <4>2. ASSUME NEW asked \in BOOLEAN, p.type = "CONNACK",
                   Connack(p.present, p.interval, asked)
            PROVE  Quiet
        <5>1. p \in ConnackPackets
          BY <1>2, <4>2 DEF BrokerPackets, PublishPackets, PubrelPackets
        <5>2. p.present \in BOOLEAN /\ p.interval \in Intervals
          BY <5>1 DEF ConnackPackets
        <5> QED
          BY <1>1, <4>2, <5>2, ConnackKeeps
      <4>3. CASE IgnoreConnack
        BY <1>1, <4>3, IgnoreKeeps
      <4> QED
        BY <2>3, <4>1, <4>2, <4>3, <1>2 DEF ClientRecv
    <3> QED
      BY <2>1, <2>3, <3>1, <1>1, MistakenQuiet DEF OfferedMistaken
  <2> QED
    BY <2>2, <2>3
<1>4. CASE p.type = "PUBLISH" /\ \E leaves \in BOOLEAN : HandlePublish(p, leaves)
  <2>1. Reported(p) \/ Quiet
    BY <1>1, <1>2, <1>4, HandlePublishKeeps, PublishPacketGood DEF Refused
  <2> QED
    BY <2>1, <1>2, <1>3, <1>31, <1>4, RefinesDeliver, RefinesForget
<1>5. CASE IgnorePublish \/ IgnoreConnack
  BY <1>1, <1>3, <1>31, <1>5, IgnoreKeeps, RefinesForget
<1>6. CASE p.type = "PUBREL" /\ HandlePubrel(p.id, "success")
  <2>1. p.id \in Ids
    BY <1>2, <1>6 DEF BrokerPackets, PublishPackets, PubrelPackets, ConnackPackets
  <2>2. Quiet
    BY <1>1, <1>6, <2>1, HandlePubrelKeeps
  <2> QED
    BY <1>3, <1>31, <2>2, RefinesForget
<1>7. ASSUME NEW asked \in BOOLEAN, p.type = "CONNACK", Connack(p.present, p.interval, asked)
      PROVE  \E S \in SUBSET Msgs : Abstract!Forget(S)
  <2>1. p \in ConnackPackets
    BY <1>2, <1>7 DEF BrokerPackets, PublishPackets, PubrelPackets
  <2>2. p.present \in BOOLEAN /\ p.interval \in Intervals
    BY <2>1 DEF ConnackPackets
  <2>3. Quiet
    BY <1>1, <1>7, <2>2, ConnackKeeps
  <2> QED
    BY <1>3, <1>31, <2>3, RefinesForget
<1> QED
  BY <1>2, <1>4, <1>5, <1>6, <1>7 DEF ClientRecv

\* Every step is one of module Delivery or changes nothing of it.
LEMMA RefinesStep ==
    ASSUME DeliveryInv, DeliveryInv', [DeliveryNext]_deliveryVars
    PROVE  [Abstract!Next]_Abstract!vars
<1>1. RecvInv /\ BrokerTypes
  BY DEF DeliveryInv
<1>2. ASSUME AnyBroker PROVE UNCHANGED Abstract!vars
  <2>1. /\ ~conforming /\ UNCHANGED <<conforming, content, exchange, published, completed>>
        /\ UNCHANGED <<delivered, gaveUp, reception, mistaken>>
    BY <1>2 DEF AnyBroker, fixed, brokerVars, history
  <2>2. \A id \in Ids : reception[id] = NoMsg /\ reception'[id] = NoMsg
    BY <2>1 DEF DeliveryInv, NonconformingInv
  <2>3. Held = {} /\ Held' = {}
    BY <2>2 DEF Held, KnownIds
  <2> QED
    BY <2>1, <2>3, RefinesStutter
<1>3. ASSUME UNCHANGED deliveryVars PROVE UNCHANGED Abstract!vars
  <2>1. UNCHANGED <<content, exchange, published, completed, delivered, gaveUp, Held, mistaken>>
    BY <1>3 DEF deliveryVars, recvVars, fixed, brokerVars, history, Held, KnownIds, Known
  <2> QED
    BY <2>1, RefinesStutter
<1>4. ASSUME ConformingBroker PROVE [Abstract!Next]_Abstract!vars
  <2>1. conforming /\ recvFault = "none"
    BY <1>4 DEF ConformingBroker
  <2>2. ASSUME NEW id \in Ids, NEW alias \in Aliases \cup {NoAlias}, NEW named \in BOOLEAN,
               BrokerPublish(id, alias, named)
        PROVE  Abstract!Next
    BY <2>2, RefinesOffer DEF Abstract!Next
  <2>3. ASSUME NEW present \in BOOLEAN, NEW interval \in Intervals, NEW alias \in Aliases,
               NEW defining \in SUBSET Ids, BrokerConnack(present, interval, alias, defining)
        PROVE  [Abstract!Next]_Abstract!vars
    BY <2>3, RefinesAnew DEF Abstract!Next
  <2>4. ASSUME BrokerRecv PROVE [Abstract!Next]_Abstract!vars
    BY <2>1, <2>4, RefinesRecv DEF Abstract!Next
  <2>5. ASSUME ClientRecv PROVE Abstract!Next
    BY <2>1, <2>5, RefinesClientRecv DEF Abstract!Next
  <2>6. ASSUME Quiet, Recorded, UNCHANGED <<content, exchange, published, completed, mistaken>>
        PROVE  Abstract!Next
    BY <2>1, <2>6, RefinesForget DEF Abstract!Next, OfferedMistaken
  <2>7. ASSUME ClientTimeout PROVE Abstract!Next
    BY <1>1, <2>6, <2>7, TimeoutKeeps DEF ClientTimeout, fixed, brokerVars
  <2>8. ASSUME NEW interval \in Intervals \cup {"same"}, ClientDisconnect(interval)
        PROVE  Abstract!Next
    BY <1>1, <2>6, <2>8, DisconnectKeeps DEF ClientDisconnect, fixed, brokerVars
  <2>9. ASSUME NetworkLost PROVE Abstract!Next
    BY <1>1, <2>6, <2>9, LossKeeps DEF NetworkLost, fixed
  <2>10. ASSUME ClientConnect \/ ClientGivesUp PROVE UNCHANGED Abstract!vars
    <3>1. /\ UNCHANGED <<content, exchange, published, completed, delivered, gaveUp, mistaken>>
          /\ UNCHANGED <<reception, recvOps>>
      BY <2>10 DEF ClientConnect, Connect, ClientGivesUp, ConnectFails, fixed, brokerVars
    <3>2. Held' = Held
      BY <3>1 DEF Held, KnownIds, Known
    <3> QED
      BY <3>1, <3>2, RefinesStutter
  <2> QED
    BY <1>4, <2>2, <2>3, <2>4, <2>5, <2>7, <2>8, <2>9, <2>10 DEF ConformingBroker
<1> QED
  BY <1>2, <1>3, <1>4 DEF DeliveryNext

\* The receive engine and a conforming broker implement the promise of module
\* Delivery: whatever order of repeats, timeouts, disconnections and reconnections, a
\* QoS 2 message is not reported again while its RecvOp exists, and what the broker
\* takes for received was reported, unless a reception that was left from before a
\* CONNECT the client gave up has answered for it.
THEOREM ReceiveImplementsDelivery == DeliverySpec => ImplementsDelivery
<1>1. DeliveryInv /\ DeliveryInv' /\ [DeliveryNext]_deliveryVars
         => [Abstract!Next]_Abstract!vars
  BY RefinesStep
<1> QED
  BY <1>1, RefinesInit, DeliveryInductive, PTL DEF DeliverySpec, ImplementsDelivery, Abstract!Spec

------------------------------------------------------------------------------
(* Topics and aliases.  What is on its way to the client tells it the topic of *)
(* every message, and the broker keeps to the Receive Maximum.                 *)

Defines(p, a) == p.type = "PUBLISH" /\ p.topic # NoTopic /\ p.alias = a

\* Alias "a" will stand for topic "t" once the client has taken "n" packets, or its
\* definition has been lost on a message the client knew already.
Standing(a, t, n) ==
    /\ \A j \in 1 .. n :
          Defines(toClient[j], a) /\ (\A k \in j + 1 .. n : ~Defines(toClient[k], a))
             => toClient[j].topic = t
    /\ (\A j \in 1 .. n : ~Defines(toClient[j], a)) => recvAliases[a] = t \/ a \in unlearnt

\* The packet after the first "n", or the broker's next one, relies on it.
Wanted(a, t, n) ==
    \/ /\ n + 1 <= Len(toClient) /\ toClient[n + 1].type = "PUBLISH"
       /\ toClient[n + 1].topic = NoTopic /\ toClient[n + 1].alias = a
       /\ content[toClient[n + 1].msg].topic = t
    \/ n = Len(toClient) /\ serving /\ aliases[a] = t

AliasInv ==
    link \in {"connecting", "up"} =>
        \A a \in Aliases, t \in Topics, n \in 0 .. Len(toClient) :
            Wanted(a, t, n) => Standing(a, t, n)

NamedInv ==
    \A i \in 1 .. Len(toClient) : toClient[i].type = "PUBLISH" =>
        \/ toClient[i].topic = content[toClient[i].msg].topic
        \/ toClient[i].topic = NoTopic /\ toClient[i].alias \in Aliases

UseInv == RecvLimit > 0 => Cardinality(InUse) <= RecvLimit

TopicTypes ==
    /\ content \in [Msgs -> [qos : {1, 2}, topic : Topics]]
    /\ DOMAIN aliases = Aliases

TopicInv == conforming => TopicTypes /\ UseInv /\ NamedInv /\ AliasInv

\* A prefix of the channel that stays.
LEMMA StandingKept ==
    ASSUME NEW a, NEW t, NEW n \in Nat, Standing(a, t, n),
           \A j \in 1 .. n : toClient'[j] = toClient[j],
           UNCHANGED <<recvAliases, unlearnt>>
    PROVE  Standing(a, t, n)'
<1>1. \A j \in 1 .. n : \A k \in j + 1 .. n : k \in 1 .. n
  OBVIOUS
<1> QED
  BY <1>1 DEF Standing, Defines

\* A prefix of the channel whose first packet the client takes.
LEMMA StandingAfterHead ==
    ASSUME NEW a, NEW t, NEW n \in Nat, Standing(a, t, n + 1),
           \A j \in 1 .. n : toClient'[j] = toClient[j + 1],
           Defines(toClient[1], a) => a \in unlearnt' \/ recvAliases'[a] = toClient[1].topic,
           ~Defines(toClient[1], a) => /\ recvAliases'[a] = recvAliases[a]
                                       /\ a \in unlearnt => a \in unlearnt'
    PROVE  Standing(a, t, n)'
<1>1. ASSUME NEW j \in 1 .. n, Defines(toClient'[j], a),
             \A k \in j + 1 .. n : ~Defines(toClient'[k], a)
      PROVE  toClient'[j].topic = t
  <2>1. j + 1 \in 1 .. n + 1 /\ Defines(toClient[j + 1], a)
    BY <1>1
  <2>2. ASSUME NEW k \in (j + 1) + 1 .. n + 1 PROVE ~Defines(toClient[k], a)
    <3>1. k - 1 \in j + 1 .. n /\ k - 1 \in 1 .. n /\ (k - 1) + 1 = k
      BY <2>2
    <3> QED
      BY <3>1, <1>1
  <2>3. toClient[j + 1].topic = t
    BY <2>1, <2>2 DEF Standing
  <2> QED
    BY <2>3
<1>2. ASSUME \A j \in 1 .. n : ~Defines(toClient'[j], a)
      PROVE  recvAliases'[a] = t \/ a \in unlearnt'
  <2>1. \A k \in 2 .. n + 1 : ~Defines(toClient[k], a)
    <3> SUFFICES ASSUME NEW k \in 2 .. n + 1 PROVE ~Defines(toClient[k], a)
      OBVIOUS
    <3>1. k - 1 \in 1 .. n /\ (k - 1) + 1 = k
      OBVIOUS
    <3> QED
      BY <3>1, <1>2
  <2>2. CASE Defines(toClient[1], a)
    <3>1. 1 \in 1 .. n + 1 /\ \A k \in 1 + 1 .. n + 1 : ~Defines(toClient[k], a)
      BY <2>1
    <3>2. toClient[1].topic = t
      BY <2>2, <3>1 DEF Standing
    <3> QED
      BY <2>2, <3>2
  <2>3. CASE ~Defines(toClient[1], a)
    <3>1. \A j \in 1 .. n + 1 : j = 1 \/ j \in 2 .. n + 1
      OBVIOUS
    <3>2. recvAliases[a] = t \/ a \in unlearnt
      BY <2>1, <2>3, <3>1 DEF Standing
    <3> QED
      BY <2>3, <3>2
  <2> QED
    BY <2>2, <2>3
<1> QED
  BY <1>1, <1>2 DEF Standing, Defines

\* The client takes a packet of an established connection, or the CONNACK.
LEMMA AliasAfterHead ==
    ASSUME BrokerTypes, AliasInv, link \in {"connecting", "up"},
           toClient # <<>>, toClient' = Tail(toClient),
           UNCHANGED <<content, serving, aliases>>,
           \A a \in Aliases :
              /\ Defines(toClient[1], a) => a \in unlearnt' \/ recvAliases'[a] = toClient[1].topic
              /\ ~Defines(toClient[1], a) => /\ recvAliases'[a] = recvAliases[a]
                                             /\ a \in unlearnt => a \in unlearnt'
    PROVE  AliasInv'
<1>1. /\ Len(toClient) \in Nat /\ Len(toClient) > 0
      /\ Len(toClient') = Len(toClient) - 1
      /\ \A i \in 1 .. Len(toClient) - 1 : toClient'[i] = toClient[i + 1]
  BY TailOfChannel DEF BrokerTypes
<1> SUFFICES ASSUME NEW a \in Aliases, NEW t \in Topics, NEW n \in 0 .. Len(toClient'),
                    Wanted(a, t, n)'
             PROVE  Standing(a, t, n)'
  BY DEF AliasInv
<1>2. n \in Nat /\ n + 1 \in 0 .. Len(toClient) /\ \A j \in 1 .. n : toClient'[j] = toClient[j + 1]
  BY <1>1
<1>3. Wanted(a, t, n + 1)
  <2>1. CASE n = Len(toClient') /\ serving' /\ aliases'[a] = t
    BY <1>1, <2>1 DEF Wanted
  <2>2. CASE /\ n + 1 <= Len(toClient') /\ toClient'[n + 1].type = "PUBLISH"
             /\ toClient'[n + 1].topic = NoTopic /\ toClient'[n + 1].alias = a
             /\ content'[toClient'[n + 1].msg].topic = t
    <3>1. n + 1 \in 1 .. Len(toClient) - 1 /\ (n + 1) + 1 <= Len(toClient)
      BY <1>1, <2>2
    <3>2. toClient'[n + 1] = toClient[(n + 1) + 1]
      BY <1>1, <3>1
    <3> QED
      BY <2>2, <3>1, <3>2 DEF Wanted
  <2> QED
    BY <2>1, <2>2 DEF Wanted
<1>4. Standing(a, t, n + 1)
  BY <1>2, <1>3 DEF AliasInv
<1> QED
  BY <1>2, <1>4, StandingAfterHead

\* Nothing moves but what the invariant does not mention.
LEMMA AliasRests ==
    ASSUME BrokerTypes, AliasInv,
           UNCHANGED <<toClient, content, aliases, recvAliases, unlearnt>>,
           serving' => serving, link' = link
    PROVE  AliasInv'
<1> SUFFICES ASSUME link \in {"connecting", "up"},
                    NEW a \in Aliases, NEW t \in Topics, NEW n \in 0 .. Len(toClient),
                    Wanted(a, t, n)'
             PROVE  Standing(a, t, n)'
  BY DEF AliasInv
<1>1. Wanted(a, t, n)
  BY DEF Wanted
<1>2. Standing(a, t, n)
  BY <1>1 DEF AliasInv
<1>3. n \in Nat
  BY LenProperties DEF BrokerTypes
<1> QED
  BY <1>2, <1>3, StandingKept

\* What the client learns from a PUBLISH of the conforming broker.
LEMMA PublishLearnt ==
    ASSUME RecvInv, NEW p \in PublishPackets, NEW leaves \in BOOLEAN,
           HandlePublish(p, leaves), link = "up", link' = "up", unlearnt' = Missed(p),
           NEW a \in Aliases
    PROVE  /\ Defines(p, a) => a \in unlearnt' \/ recvAliases'[a] = p.topic
           /\ ~Defines(p, a) => /\ recvAliases'[a] = recvAliases[a]
                                /\ a \in unlearnt => a \in unlearnt'
<1>1. /\ p.type = "PUBLISH" /\ p.topic \in Topics \cup {NoTopic}
      /\ p.alias \in Aliases \cup {NoAlias} /\ a # NoAlias
  <2>1. a # NoAlias
    BY Constants DEF Aliases, NoAlias
  <2> QED
    BY <2>1 DEF PublishPackets
<1>2. recvAliases \in [Aliases -> Topics \cup {NoTopic}]
  BY RecvInvParts DEF OtherTypes
<1>3. CASE p.qos = 2 /\ Known(p.id)
  <2>1. recvAliases' = recvAliases
    BY <1>3 DEF HandlePublish, Reconfirm
  <2>2. unlearnt' = IF p.topic = NoTopic \/ p.alias = NoAlias THEN unlearnt
                    ELSE unlearnt \cup {p.alias}
    BY <1>1, <1>3 DEF Missed
  <2> QED
    BY <1>1, <2>1, <2>2 DEF Defines
<1>4. CASE ~(p.qos = 2 /\ Known(p.id))
  <2>1. recvAliases' = learnt(p)
    BY <1>4 DEF HandlePublish, Termination
  <2>2. unlearnt' = IF p.topic = NoTopic \/ p.alias = NoAlias THEN unlearnt
                    ELSE unlearnt \ {p.alias}
    BY <1>1, <1>4 DEF Missed
  <2>3. CASE Defines(p, a)
    <3>1. recvAliases' = [recvAliases EXCEPT ![a] = p.topic]
      BY <1>1, <2>1, <2>3 DEF learnt, Defines
    <3> QED
      BY <1>2, <2>3, <3>1
  <2>4. CASE ~Defines(p, a)
    <3>1. recvAliases'[a] = recvAliases[a]
      BY <1>1, <1>2, <2>1, <2>4 DEF learnt, Defines
    <3> QED
      BY <1>1, <2>2, <2>4, <3>1 DEF Defines
  <2> QED
    BY <2>3, <2>4
<1> QED
  BY <1>3, <1>4

\* Packets that have a topic, or an alias for it, when the first one is taken.
LEMMA NamedAfterHead ==
    ASSUME BrokerTypes, NamedInv, toClient # <<>>, toClient' = Tail(toClient),
           UNCHANGED content
    PROVE  NamedInv'
<1>1. \A i \in 1 .. Len(toClient') : toClient'[i] = toClient[i + 1] /\ i + 1 \in 1 .. Len(toClient)
  BY TailOfChannel DEF BrokerTypes
<1> QED
  BY <1>1 DEF NamedInv

\* The client takes a packet.
LEMMA ClientRecvTopics ==
    ASSUME RecvInv, BrokerTypes, ConformingInv, TopicTypes, UseInv, NamedInv, AliasInv,
           ClientRecv
    PROVE  TopicTypes' /\ UseInv' /\ NamedInv' /\ AliasInv'
<1> DEFINE p == toClient[1]
<1>1. /\ toClient # <<>> /\ Head(toClient) = p /\ p \in BrokerPackets
      /\ 1 \in 1 .. Len(toClient)
  BY TailOfChannel DEF ClientRecv, BrokerTypes
<1>2. /\ toClient' = Tail(toClient) /\ unlearnt' = Missed(p)
      /\ UNCHANGED <<content, exchange, serving, aliases>>
  BY <1>1 DEF ClientRecv, fixed, brokerVars
<1>3. UseInv' /\ NamedInv'
  BY <1>1, <1>2, NamedAfterHead DEF UseInv, InUse
<1>4. ASSUME NEW leaves \in BOOLEAN, p.type = "PUBLISH", HandlePublish(p, leaves)
      PROVE  AliasInv'
  <2>1. p \in PublishPackets /\ GoodMsg(p)
    BY <1>1, <1>4, PublishPacketGood
  <2>2. link \in {"refused", "up"}
    BY <1>1, <1>4, EstablishedFirst DEF HandlePublish
  <2>3. link' = link \/ link' = "closing"
    BY <1>4, <2>1, <2>2, HandlePublishKeeps DEF Reported, Refused
  <2>4. CASE link = "up" /\ link' = "up"
    <3>1. \A a \in Aliases :
             /\ Defines(p, a) => a \in unlearnt' \/ recvAliases'[a] = p.topic
             /\ ~Defines(p, a) => /\ recvAliases'[a] = recvAliases[a]
                                  /\ a \in unlearnt => a \in unlearnt'
      BY <1>2, <1>4, <2>1, <2>2, <2>4, PublishLearnt
    <3> QED
      BY <1>1, <1>2, <2>2, <2>4, <3>1, AliasAfterHead
  <2>5. CASE link' \in {"refused", "closing"}
    BY <2>5 DEF AliasInv
  <2> QED
    BY <2>2, <2>3, <2>4, <2>5
<1>5. ASSUME p.type = "PUBLISH", IgnorePublish
      PROVE  AliasInv'
  BY <1>5 DEF IgnorePublish, Ignored, AliasInv
<1>6. ASSUME p.type # "PUBLISH", link' = link \/ (link = "connecting" /\ link' = "up"),
             recvAliases' = recvAliases
      PROVE  AliasInv'
  <2>1. unlearnt' = unlearnt
    BY <1>2, <1>6 DEF Missed
  <2>2. CASE link \in {"connecting", "up"}
    <3>1. \A a \in Aliases : ~Defines(p, a)
      BY <1>6 DEF Defines
    <3> QED
      BY <1>1, <1>2, <1>6, <2>1, <2>2, <3>1, AliasAfterHead
  <2>3. CASE link \notin {"connecting", "up"}
    BY <1>6, <2>3 DEF AliasInv
  <2> QED
    BY <2>2, <2>3
<1>7. ASSUME p.type = "PUBREL", HandlePubrel(p.id, "success")
      PROVE  AliasInv'
  <2>1. link' = link /\ recvAliases' = recvAliases
    BY <1>7 DEF HandlePubrel
  <2> QED
    BY <1>6, <1>7, <2>1
<1>8. ASSUME NEW asked \in BOOLEAN, p.type = "CONNACK", Connack(p.present, p.interval, asked)
      PROVE  AliasInv'
  <2>1. link = "connecting" /\ link' = "up" /\ recvAliases' = recvAliases
    BY <1>8 DEF Connack
  <2> QED
    BY <1>6, <1>8, <2>1
<1>9. ASSUME p.type = "CONNACK", IgnoreConnack
      PROVE  AliasInv'
  BY <1>9 DEF IgnoreConnack, Ignored, AliasInv
<1>10. AliasInv'
  BY <1>1, <1>4, <1>5, <1>7, <1>8, <1>9 DEF ClientRecv
<1> QED
  BY <1>2, <1>3, <1>10 DEF TopicTypes

\* The client alone, and the network.
LEMMA ClientAloneTopics ==
    ASSUME RecvInv, BrokerTypes, TopicTypes, UseInv, NamedInv, AliasInv,
           \/ ClientTimeout \/ ClientConnect \/ ClientGivesUp \/ NetworkLost
           \/ \E interval \in Intervals \cup {"same"} : ClientDisconnect(interval)
    PROVE  TopicTypes' /\ UseInv' /\ NamedInv' /\ AliasInv'
<1>1. UNCHANGED <<content, exchange, aliases>>
  BY DEF ClientTimeout, ClientConnect, ClientGivesUp, NetworkLost, ClientDisconnect, fixed,
         brokerVars
<1>2. UseInv'
  BY <1>1 DEF UseInv, InUse
<1>3. CASE ClientTimeout
  <2>1. UNCHANGED <<link, recvAliases, unlearnt, serving, toClient>>
    BY <1>3 DEF ClientTimeout, ResponseTimeout, SessionExpiryTimeout, brokerVars
  <2>2. AliasInv'
    BY <1>1, <2>1, AliasRests
  <2> QED
    BY <1>1, <1>2, <2>1, <2>2 DEF TopicTypes, NamedInv
<1>4. CASE \E interval \in Intervals \cup {"same"} : ClientDisconnect(interval)
  <2>1. link' = "closing" /\ toClient' = toClient
    BY <1>4 DEF ClientDisconnect, Disconnect
  <2> QED
    BY <1>1, <1>2, <2>1 DEF TopicTypes, NamedInv, AliasInv
<1>5. CASE ClientConnect \/ NetworkLost
  <2>1. toClient' = <<>> /\ Len(toClient') = 0 /\ serving' = FALSE
    BY <1>5 DEF ClientConnect, Connect, NetworkLost, NetworkDisconnected
  <2>2. \A a \in Aliases, t \in Topics, n \in 0 .. Len(toClient') : ~Wanted(a, t, n)'
    BY <2>1 DEF Wanted
  <2> QED
    BY <1>1, <1>2, <2>1, <2>2 DEF TopicTypes, NamedInv, AliasInv
<1>6. CASE ClientGivesUp
  <2>1. link' = "refused" /\ toClient' = toClient
    BY <1>6 DEF ClientGivesUp, ConnectFails
  <2> QED
    BY <1>1, <1>2, <2>1 DEF TopicTypes, NamedInv, AliasInv
<1> QED
  BY <1>3, <1>4, <1>5, <1>6

\* A packet of the broker is appended, and the broker's aliases with it.
LEMMA AliasAppended ==
    ASSUME BrokerTypes, AliasInv, NEW q \in BrokerPackets, toClient' = Append(toClient, q),
           UNCHANGED <<link, content, recvAliases, unlearnt, serving>>,
           \A a \in Aliases, t \in Topics :
              /\ q.type = "PUBLISH" /\ q.topic = NoTopic /\ q.alias = a
                    /\ content[q.msg].topic = t => serving /\ aliases[a] = t
              /\ Defines(q, a) => aliases'[a] = q.topic
              /\ ~Defines(q, a) => aliases'[a] = aliases[a]
    PROVE  AliasInv'
<1>0. PICK N : N = Len(toClient)
  OBVIOUS
<1>1. /\ N \in Nat /\ Len(toClient') = N + 1 /\ toClient'[N + 1] = q
      /\ \A i \in 1 .. N : toClient'[i] = toClient[i]
  BY <1>0, LenProperties, AppendProperties DEF BrokerTypes
<1> SUFFICES ASSUME link \in {"connecting", "up"},
                    NEW a \in Aliases, NEW t \in Topics, NEW n \in 0 .. N + 1,
                    Wanted(a, t, n)'
             PROVE  Standing(a, t, n)'
  BY <1>1 DEF AliasInv
<1>2. ASSUME NEW k \in 0 .. N, Wanted(a, t, k) PROVE Standing(a, t, k)'
  <2>1. Standing(a, t, k)
    BY <1>0, <1>2 DEF AliasInv
  <2>2. k \in Nat /\ \A j \in 1 .. k : toClient'[j] = toClient[j]
    BY <1>1
  <2> QED
    BY <2>1, <2>2, StandingKept
<1>3. CASE n < N
  <2>1. n + 1 \in 1 .. N /\ n # N + 1 /\ toClient'[n + 1] = toClient[n + 1]
    BY <1>1, <1>3
  <2>2. Wanted(a, t, n)
    BY <1>0, <1>1, <2>1 DEF Wanted
  <2> QED
    BY <1>1, <1>2, <1>3, <2>2
<1>4. CASE n = N
  <2>1. n # N + 1
    BY <1>1, <1>4
  <2>2. /\ q.type = "PUBLISH" /\ q.topic = NoTopic /\ q.alias = a
        /\ content[q.msg].topic = t
    BY <1>1, <1>4, <2>1 DEF Wanted
  <2>3. Wanted(a, t, n)
    BY <1>0, <1>4, <2>2 DEF Wanted
  <2> QED
    BY <1>1, <1>2, <1>4, <2>3
<1>5. CASE n = N + 1
  <2>1. serving /\ aliases'[a] = t
    BY <1>1, <1>5 DEF Wanted
  <2>2. CASE Defines(q, a)
    <3>1. q.topic = t
      BY <2>1, <2>2
    <3>2. \A j \in 1 .. n : j = n \/ (j \in 1 .. N /\ n \in j + 1 .. n)
      BY <1>1, <1>5
    <3>3. toClient'[n] = q /\ n \in 1 .. n
      BY <1>1, <1>5
    <3> QED
      BY <2>2, <3>1, <3>2, <3>3 DEF Standing, Defines
  <2>3. CASE ~Defines(q, a)
    <3>1. aliases[a] = t
      BY <2>1, <2>3
    <3>2. Wanted(a, t, N)
      BY <1>0, <2>1, <3>1 DEF Wanted
    <3>3. Standing(a, t, N)'
      BY <1>1, <1>2, <3>2
    <3>4. ~Defines(toClient'[n], a)
      BY <1>1, <1>5, <2>3
    <3>5. ASSUME NEW j \in 1 .. n, Defines(toClient'[j], a),
                 \A k \in j + 1 .. n : ~Defines(toClient'[k], a)
          PROVE  toClient'[j].topic = t
      <4>1. j \in 1 .. N /\ \A k \in j + 1 .. N : k \in j + 1 .. n
        BY <1>1, <1>5, <3>4, <3>5
      <4> QED
        BY <3>3, <3>5, <4>1 DEF Standing, Defines
    <3>6. ASSUME \A j \in 1 .. n : ~Defines(toClient'[j], a)
          PROVE  recvAliases'[a] = t \/ a \in unlearnt'
      <4>1. \A j \in 1 .. N : j \in 1 .. n
        BY <1>1, <1>5
      <4> QED
        BY <3>3, <3>6, <4>1 DEF Standing, Defines
    <3> QED
      BY <3>5, <3>6 DEF Standing, Defines
  <2> QED
    BY <2>2, <2>3
<1> QED
  BY <1>1, <1>3, <1>4, <1>5

\* The ids in use are finitely many.
LEMMA UseFinite == IsFiniteSet(InUse) /\ Cardinality(InUse) \in Nat /\ InUse \subseteq Ids
<1>1. InUse \subseteq Ids
  BY DEF InUse
<1> QED
  BY <1>1, Constants, FS_Subset, FS_CardinalityType

\* Fewer packet ids in use.
LEMMA UseShrinks ==
    ASSUME UseInv, InUse' \subseteq InUse
    PROVE  UseInv'
<1> DEFINE s == Cardinality(InUse)
           s2 == Cardinality(InUse')
<1>1. s \in Nat /\ s2 \in Nat /\ s2 <= s
  BY UseFinite, FS_Subset, FS_CardinalityType
<1>2. Cardinality(InUse)' = s2
  OBVIOUS
<1>3. RecvLimit > 0 => s2 <= RecvLimit
  BY <1>1, Constants DEF UseInv
<1> QED
  BY <1>3 DEF UseInv

\* A new message.
LEMMA BrokerPublishTopics ==
    ASSUME RecvInv, BrokerTypes, TopicTypes, UseInv, NamedInv, AliasInv,
           NEW id \in Ids, NEW alias \in Aliases \cup {NoAlias}, NEW named \in BOOLEAN,
           BrokerPublish(id, alias, named)
    PROVE  TopicTypes' /\ UseInv' /\ NamedInv' /\ AliasInv'
<1> DEFINE m == published + 1
           topic == content[m].topic
           p == PublishPacket(id, m, FALSE, IF named THEN topic ELSE NoTopic, alias)
           n == Len(toClient)
<1>1. UNCHANGED <<link, content, recvAliases, unlearnt, serving>>
  BY DEF BrokerPublish, ClientRests, fixed, history
<1>2. /\ serving /\ published < MaxMsgs /\ id \notin InUse
      /\ RecvLimit > 0 => Cardinality(InUse) < RecvLimit
      /\ named \/ (alias # NoAlias /\ aliases[alias] = topic)
      /\ exchange' = [exchange EXCEPT ![id] = [st |-> "pub", msg |-> m]]
      /\ aliases' = IF alias = NoAlias THEN aliases ELSE [aliases EXCEPT ![alias] = topic]
      /\ toClient' = Append(toClient, p)
  BY DEF BrokerPublish
<1>3. m \in Msgs /\ content[m] \in [qos : {1, 2}, topic : Topics]
  <2>1. m \in Msgs
    BY <1>2, RecvDeliveryAssumption DEF BrokerTypes, Msgs, RecvDeliveryAssumption
  <2> QED
    BY <2>1 DEF TopicTypes
<1>4. topic \in Topics /\ topic # NoTopic
  BY <1>3, Constants, RecvOpsAssumption DEF RecvOpsAssumption
<1>5. /\ p \in BrokerPackets /\ p.type = "PUBLISH" /\ p.msg = m /\ p.alias = alias
      /\ p.topic = IF named THEN topic ELSE NoTopic
  BY <1>3, <1>4 DEF PublishPacket, PublishPackets, BrokerPackets
<1> HIDE DEF p
<1>6. TopicTypes'
  BY <1>1, <1>2, <1>4 DEF TopicTypes
<1>7. UseInv'
  <2>1. InUse' = InUse \cup {id}
    BY <1>2 DEF InUse, BrokerTypes
  <2> DEFINE s == Cardinality(InUse)
             s2 == Cardinality(InUse \cup {id})
  <2>2. s \in Nat /\ s2 = s + 1
    BY <1>2, UseFinite, FS_AddElement
  <2>3. Cardinality(InUse)' = s2
    BY <2>1
  <2>4. RecvLimit > 0 => s2 <= RecvLimit
    BY <1>2, <2>2, Constants
  <2> QED
    BY <2>3, <2>4 DEF UseInv
<1>8. /\ n \in Nat /\ Len(toClient') = n + 1 /\ toClient'[n + 1] = p
      /\ \A i \in 1 .. n : toClient'[i] = toClient[i]
      /\ \A i \in 1 .. n + 1 : i \in 1 .. n \/ i = n + 1
  BY <1>2, <1>5, LenProperties, AppendProperties DEF BrokerTypes
<1>9. NamedInv'
  <2>1. \/ p.topic = content[p.msg].topic
        \/ p.topic = NoTopic /\ p.alias \in Aliases
    BY <1>2, <1>5
  <2> QED
    BY <1>1, <1>8, <2>1 DEF NamedInv
<1>10. ASSUME NEW a \in Aliases, NEW t \in Topics
       PROVE  /\ p.type = "PUBLISH" /\ p.topic = NoTopic /\ p.alias = a
                    /\ content[p.msg].topic = t => serving /\ aliases[a] = t
              /\ Defines(p, a) => aliases'[a] = p.topic
              /\ ~Defines(p, a) => aliases'[a] = aliases[a]
  <2>1. DOMAIN aliases = Aliases /\ a # NoAlias
    BY Constants DEF TopicTypes, Aliases, NoAlias
  <2>2. CASE named
    BY <1>2, <1>4, <1>5, <2>1, <2>2 DEF Defines
  <2>3. CASE ~named
    <3>1. aliases[alias] = topic /\ alias \in Aliases
      BY <1>2, <2>3
    <3>2. aliases'[a] = aliases[a]
      BY <1>2, <2>1, <3>1
    <3> QED
      BY <1>2, <1>5, <2>3, <3>1, <3>2 DEF Defines
  <2> QED
    BY <2>2, <2>3
<1>11. AliasInv'
  BY <1>1, <1>2, <1>5, <1>10, AliasAppended
<1> QED
  BY <1>6, <1>7, <1>9, <1>11

\* The broker takes a packet of the client.
LEMMA BrokerRecvTopics ==
    ASSUME RecvInv, BrokerTypes, ConformingInv, TopicTypes, UseInv, NamedInv, AliasInv,
           BrokerRecv
    PROVE  TopicTypes' /\ UseInv' /\ NamedInv' /\ AliasInv'
<1> DEFINE p == toBroker[1]
<1>1. /\ toBroker # <<>> /\ Head(toBroker) = p /\ p \in ClientPackets /\ 1 \in 1 .. Len(toBroker)
  BY TailOfChannel DEF BrokerRecv, BrokerTypes
<1>2. UNCHANGED <<link, content, recvAliases, unlearnt, aliases>>
  BY DEF BrokerRecv, ClientRests, fixed, history
<1>3. TopicTypes'
  BY <1>2 DEF TopicTypes
<1>4. CASE UNCHANGED <<exchange, toClient>> /\ (serving' => serving)
  <2>1. UseInv' /\ NamedInv'
    BY <1>2, <1>4 DEF UseInv, InUse, NamedInv
  <2> QED
    BY <1>2, <1>3, <1>4, <2>1, AliasRests
<1>5. CASE exchange' = [exchange EXCEPT ![p.id] = Free] /\ UNCHANGED <<toClient, serving>>
  <2>1. InUse' \subseteq InUse
    BY <1>5 DEF InUse, Free, BrokerTypes
  <2>2. UseInv' /\ NamedInv'
    BY <1>2, <1>5, <2>1, UseShrinks DEF NamedInv
  <2> QED
    BY <1>2, <1>3, <1>5, <2>2, AliasRests
<1>6. CASE /\ p.type = "PUBREC" /\ serving' = serving
           /\ exchange' = [exchange EXCEPT ![p.id].st = "rel"]
           /\ toClient' = Append(toClient, Pubrel(p.id))
  <2>1. p.id \in Ids /\ exchange[p.id].st = "pub"
    BY <1>1, <1>6 DEF ConformingInv, ToBrokerInv, AckOK
  <2>2. InUse' \subseteq InUse
    BY <1>6, <2>1 DEF InUse, BrokerTypes
  <2> DEFINE q == Pubrel(p.id)
             n == Len(toClient)
  <2>3. q \in BrokerPackets /\ q.type = "PUBREL"
    BY <2>1 DEF Pubrel, BrokerPackets, PubrelPackets
  <2> HIDE DEF q
  <2>4. /\ n \in Nat /\ Len(toClient') = n + 1 /\ toClient'[n + 1] = q
        /\ \A i \in 1 .. n : toClient'[i] = toClient[i]
        /\ \A i \in 1 .. n + 1 : i \in 1 .. n \/ i = n + 1
    BY <1>6, <2>3, LenProperties, AppendProperties DEF BrokerTypes, q
  <2>5. NamedInv'
    BY <1>2, <2>3, <2>4 DEF NamedInv
  <2>6. \A a \in Aliases : ~Defines(q, a) /\ aliases'[a] = aliases[a]
    BY <1>2, <2>3 DEF Defines
  <2>7. AliasInv'
    BY <1>2, <1>6, <2>3, <2>6, AliasAppended DEF q
  <2> QED
    BY <1>3, <2>2, <2>5, <2>7, UseShrinks
<1> QED
  BY <1>1, <1>4, <1>5, <1>6 DEF BrokerRecv

\* Every packet id in use is repeated, in ascending order.
LEMMA SortedCovers ==
    ASSUME NEW ids \in Sorted
    PROVE  /\ ids \in [1 .. Cardinality(InUse) -> InUse]
           /\ \A x \in InUse : \E i \in 1 .. Cardinality(InUse) : ids[i] = x
           /\ \A i, j \in 1 .. Cardinality(InUse) : i < j => ids[i] < ids[j]
<1> DEFINE n == Cardinality(InUse)
<1>1. n \in Nat /\ IsFiniteSet(InUse)
  BY UseFinite
<1>2. ids \in [1 .. n -> InUse] /\ \A i, j \in 1 .. n : i # j => ids[i] # ids[j]
  BY DEF Sorted, SetToSeqs
<1>3. DOMAIN ids = 1 .. n /\ \A i, j \in DOMAIN ids : i < j => ids[i] < ids[j]
  BY <1>2 DEF Sorted
<1>4. ids \in Injection(1 .. n, InUse)
  BY <1>2 DEF Injection, IsInjective
<1>5. Cardinality(1 .. n) = n
  BY <1>1, FS_Interval
<1> HIDE DEF n
<1>6. ids \in Surjection(1 .. n, InUse)
  BY <1>1, <1>4, <1>5, FS_Injection DEF n
<1>7. \A x \in InUse : \E i \in 1 .. n : ids[i] = x
  BY <1>6 DEF Surjection
<1> QED
  BY <1>2, <1>3, <1>7 DEF n

\* The topics and aliases of what is repeated.
LEMMA RepeatedTopics ==
    ASSUME BrokerTypes, ExchangeInv, TopicTypes, NEW ids \in Sorted, NEW alias \in Aliases,
           NEW defining \in SUBSET {id \in InUse : exchange[id].st = "pub"},
           NEW i \in 1 .. Cardinality(InUse), NEW q, q = Repeated(ids, alias, defining)[i]
    PROVE  /\ ids[i] \in Ids
           /\ q.type = "PUBLISH" =>
                 /\ q.topic = content[q.msg].topic /\ q.topic # NoTopic
                 /\ q.topic = content[exchange[ids[i]].msg].topic
           /\ \A a \in Aliases : Defines(q, a) <=> a = alias /\ ids[i] \in defining
<1> DEFINE x == exchange[ids[i]]
           b == IF ids[i] \in defining THEN alias ELSE NoAlias
<1>1. ids \in [1 .. Cardinality(InUse) -> InUse]
  BY SortedCovers
<1>2. ids[i] \in Ids /\ x.st # "free" /\ i \in DOMAIN ids
  BY <1>1 DEF InUse
<1>3. x.msg \in Msgs
  BY <1>2, UsedMsg
<1>4. q = IF x.st = "rel" THEN Pubrel(ids[i])
          ELSE PublishPacket(ids[i], x.msg, TRUE, content[x.msg].topic, b)
  BY <1>2 DEF Repeated
<1>5. CASE x.st = "rel"
  <2>1. q.type = "PUBREL"
    BY <1>4, <1>5 DEF Pubrel
  <2> QED
    BY <1>2, <1>5, <2>1 DEF Defines
<1>6. CASE x.st # "rel"
  <2>1. content[x.msg].topic \in Topics /\ content[x.msg].topic # NoTopic
    BY <1>3, RecvOpsAssumption DEF TopicTypes, RecvOpsAssumption
  <2>2. /\ q.type = "PUBLISH" /\ q.msg = x.msg /\ q.topic = content[x.msg].topic
        /\ q.alias = b
    BY <1>4, <1>6 DEF PublishPacket
  <2>3. \A a \in Aliases : a # NoAlias
    BY Constants DEF Aliases, NoAlias
  <2> QED
    BY <1>2, <2>1, <2>2, <2>3 DEF Defines
<1> QED
  BY <1>5, <1>6

\* The broker answers CONNECT.
LEMMA BrokerConnackTopics ==
    ASSUME RecvInv, BrokerTypes, ExchangeInv, ConformingInv, TopicTypes, UseInv,
           NEW present \in BOOLEAN, NEW interval \in Intervals, NEW alias \in Aliases,
           NEW defining \in SUBSET Ids, BrokerConnack(present, interval, alias, defining)
    PROVE  TopicTypes' /\ UseInv' /\ NamedInv' /\ AliasInv'
<1>1. UNCHANGED <<link, content, recvAliases, unlearnt>>
  BY DEF BrokerConnack, ClientRests, fixed, history
<1>2. /\ defining \subseteq {id \in InUse : present /\ exchange[id].st = "pub"}
      /\ exchange' = IF present THEN exchange ELSE [id \in Ids |-> Free]
      /\ aliases' = IF defining = {} THEN NoRecvAliases
                    ELSE [NoRecvAliases EXCEPT
                            ![alias] = content[exchange[Max(defining)].msg].topic]
  BY DEF BrokerConnack
<1>3. defining \in SUBSET {id \in InUse : exchange[id].st = "pub"}
  BY <1>2
<1>4. InUse' \subseteq InUse
  BY <1>2 DEF InUse, Free
<1>5. UseInv'
  BY <1>4, UseShrinks
<1> DEFINE c == ConnackPacket(present, interval)
<1>6. PICK ids \in Sorted :
         toClient' = <<c>> \o (IF present THEN Repeated(ids, alias, defining) ELSE <<>>)
  BY DEF BrokerConnack
<1>7. PICK r : r = IF present THEN Repeated(ids, alias, defining) ELSE <<>>
  OBVIOUS
<1>8. PICK N : N = Len(r)
  OBVIOUS
<1>9. c \in BrokerPackets /\ c.type = "CONNACK"
  BY DEF ConnackPacket, BrokerPackets, ConnackPackets
<1>10. r \in Seq(BrokerPackets) /\ N \in Nat /\ (present => N = Cardinality(InUse))
          /\ (~present => N = 0)
  <2>1. CASE present
    BY <1>7, <1>8, <2>1, RepeatedProperties
  <2>2. CASE ~present
    BY <1>7, <1>8, <2>2, EmptySeq
  <2> QED
    BY <2>1, <2>2
<1> HIDE DEF c
<1>11. /\ Len(toClient') = N + 1 /\ toClient'[1] = c
       /\ \A i \in 2 .. N + 1 : toClient'[i] = r[i - 1] /\ i - 1 \in 1 .. N
       /\ \A i \in 1 .. N + 1 : i = 1 \/ i \in 2 .. N + 1
       /\ \A i \in 1 .. N : i + 1 \in 2 .. N + 1 /\ (i + 1) - 1 = i
       /\ \A i \in 1 .. N : toClient'[i + 1] = r[i]
  <2>1. toClient' = <<c>> \o r
    BY <1>6, <1>7
  <2>2. /\ Len(toClient') = N + 1 /\ toClient'[1] = c
        /\ \A i \in 2 .. N + 1 : toClient'[i] = r[i - 1] /\ i - 1 \in 1 .. N
    BY <1>8, <1>9, <1>10, <2>1, ConnackFirst
  <2>3. /\ \A i \in 1 .. N + 1 : i = 1 \/ i \in 2 .. N + 1
        /\ \A i \in 1 .. N : i + 1 \in 2 .. N + 1 /\ (i + 1) - 1 = i
    BY <1>10
  <2> QED
    BY <2>2, <2>3
<1>12. ASSUME NEW i \in 1 .. N
       PROVE  /\ present /\ ids[i] \in Ids
              /\ r[i].type = "PUBLISH" =>
                   /\ r[i].topic = content[r[i].msg].topic /\ r[i].topic # NoTopic
                   /\ r[i].topic = content[exchange[ids[i]].msg].topic
              /\ \A a \in Aliases : Defines(r[i], a) <=> a = alias /\ ids[i] \in defining
  <2>1. present /\ i \in 1 .. Cardinality(InUse)
    BY <1>10
  <2>2. r[i] = Repeated(ids, alias, defining)[i]
    BY <1>7, <2>1
  <2> QED
    BY <1>3, <2>1, <2>2, RepeatedTopics
<1>13. NamedInv'
  <2> SUFFICES ASSUME NEW i \in 1 .. N + 1, toClient'[i].type = "PUBLISH"
               PROVE  toClient'[i].topic = content'[toClient'[i].msg].topic
    BY <1>11 DEF NamedInv
  <2>1. i \in 2 .. N + 1
    BY <1>9, <1>11
  <2>2. toClient'[i] = r[i - 1] /\ i - 1 \in 1 .. N
    BY <1>11, <2>1
  <2> QED
    BY <1>1, <1>12, <2>2
<1>14. ASSUME NEW i \in 1 .. N, ids[i] \in defining,
              \A k \in i + 1 .. N : ids[k] \notin defining
       PROVE  Max(defining) = ids[i]
  <2>1. N = Cardinality(InUse) /\ defining \subseteq InUse /\ defining \subseteq Nat
    BY <1>2, <1>10, <1>12, <1>14, Constants
  <2>2. ASSUME NEW y \in defining PROVE ids[i] >= y
    <3>1. PICK k \in 1 .. N : ids[k] = y
      BY <2>1, <2>2, SortedCovers
    <3>2. k < i \/ k = i
      BY <1>10, <1>14, <2>2, <3>1
    <3>3. k < i => ids[k] < ids[i]
      BY <2>1, SortedCovers
    <3>4. ids[i] \in Nat /\ y \in Nat
      BY <1>14, <2>1, <2>2
    <3> QED
      BY <3>1, <3>2, <3>3, <3>4
  <2>3. Max(defining) \in defining /\ \A y \in defining : Max(defining) >= y
    BY <1>14, <2>2 DEF Max
  <2>4. Max(defining) >= ids[i] /\ ids[i] >= Max(defining)
    BY <1>14, <2>2, <2>3
  <2>5. Max(defining) \in Nat /\ ids[i] \in Nat
    BY <1>14, <2>1, <2>3
  <2> QED
    BY <2>4, <2>5
<1>15. TopicTypes'
  <2>1. DOMAIN NoRecvAliases = Aliases
    BY DEF NoRecvAliases
  <2> QED
    BY <1>1, <1>2, <2>1 DEF TopicTypes
<1>16. AliasInv'
  <2> SUFFICES ASSUME NEW a \in Aliases, NEW t \in Topics, NEW n \in 0 .. N + 1,
                      Wanted(a, t, n)'
               PROVE  Standing(a, t, n)'
    BY <1>11 DEF AliasInv
  <2>1. t # NoTopic
    BY RecvOpsAssumption DEF RecvOpsAssumption
  <2>2. ASSUME NEW k \in 1 .. N + 1, toClient'[k].type = "PUBLISH" PROVE toClient'[k].topic # NoTopic
    <3>1. toClient'[k] = r[k - 1] /\ k - 1 \in 1 .. N
      BY <1>9, <1>11, <2>2
    <3> QED
      BY <1>12, <2>2, <3>1
  <2>3. n = N + 1 /\ aliases'[a] = t
    <3>1. n + 1 <= N + 1 => n + 1 \in 1 .. N + 1
      BY <1>10
    <3> QED
      BY <1>11, <2>2, <3>1 DEF Wanted
  <2>4. defining # {} /\ a = alias /\ t = content[exchange[Max(defining)].msg].topic
    BY <1>2, <2>1, <2>3 DEF NoRecvAliases
  <2>5. ~Defines(toClient'[1], a)
    BY <1>9, <1>11 DEF Defines
  <2>6. ASSUME NEW j \in 1 .. n, Defines(toClient'[j], a),
               \A k \in j + 1 .. n : ~Defines(toClient'[k], a)
        PROVE  toClient'[j].topic = t
    <3>1. toClient'[j] = r[j - 1] /\ j - 1 \in 1 .. N
      BY <1>11, <2>3, <2>5, <2>6
    <3>2. ids[j - 1] \in defining
      BY <1>12, <2>6, <3>1
    <3>3. ASSUME NEW k \in (j - 1) + 1 .. N PROVE ids[k] \notin defining
      <4>1. k \in 1 .. N /\ k + 1 \in j + 1 .. n /\ toClient'[k + 1] = r[k]
        BY <1>10, <1>11, <2>3, <3>1
      <4>2. ~Defines(r[k], a)
        BY <2>6, <4>1
      <4> QED
        BY <1>12, <2>4, <4>1, <4>2
    <3>4. Max(defining) = ids[j - 1]
      BY <1>14, <3>1, <3>2, <3>3
    <3>5. r[j - 1].type = "PUBLISH"
      BY <2>6, <3>1 DEF Defines
    <3>6. r[j - 1].topic = content[exchange[ids[j - 1]].msg].topic
      BY <1>12, <3>1, <3>5
    <3> QED
      BY <2>4, <3>1, <3>4, <3>6
  <2>7. \E j \in 1 .. n : Defines(toClient'[j], a)
    <3>1. PICK y \in defining : TRUE
      BY <2>4
    <3>2. y \in InUse /\ present
      BY <1>2, <3>1
    <3>3. PICK k \in 1 .. N : ids[k] = y
      BY <1>10, <3>2, SortedCovers
    <3>4. Defines(r[k], a)
      BY <1>12, <2>4, <3>1, <3>3
    <3>5. k + 1 \in 1 .. n /\ toClient'[k + 1] = r[k]
      BY <1>10, <1>11, <2>3, <3>3
    <3> QED
      BY <3>4, <3>5
  <2> QED
    BY <2>6, <2>7 DEF Standing, Defines
<1> QED
  BY <1>5, <1>13, <1>15, <1>16

\* The invariant holds at the start.
LEMMA TopicInvInit == DeliveryInit => TopicInv
<1> SUFFICES ASSUME DeliveryInit, conforming PROVE TopicTypes /\ UseInv /\ NamedInv /\ AliasInv
  BY DEF TopicInv
<1>1. /\ content \in [Msgs -> [qos : {1, 2}, topic : Topics]] /\ link = "down"
      /\ aliases = NoRecvAliases /\ Len(toClient) = 0
      /\ exchange = [id \in Ids |-> Free]
  BY DEF DeliveryInit, RecvInit
<1>2. TopicTypes /\ NamedInv /\ AliasInv
  BY <1>1 DEF TopicTypes, NamedInv, AliasInv, NoRecvAliases
<1>3. InUse = {}
  BY <1>1 DEF InUse, Free
<1>4. Cardinality(InUse) = 0
  BY <1>3, FS_EmptySet
<1> QED
  BY <1>2, <1>4, Constants DEF UseInv

\* Every step keeps it.
LEMMA TopicInvStep == DeliveryInv /\ TopicInv /\ [DeliveryNext]_deliveryVars => TopicInv'
<1> SUFFICES ASSUME DeliveryInv, TopicInv, [DeliveryNext]_deliveryVars, conforming'
             PROVE  TopicTypes' /\ UseInv' /\ NamedInv' /\ AliasInv'
  BY DEF TopicInv
<1>1. conforming' = conforming
  BY DEF DeliveryNext, AnyBroker, ConformingBroker, BrokerPublish, BrokerConnack, BrokerRecv,
         ClientRests, ClientRecv, ClientTimeout, ClientDisconnect, ClientConnect,
         ClientGivesUp, NetworkLost, fixed, deliveryVars
<1>2. /\ RecvInv /\ BrokerTypes /\ ExchangeInv /\ ConformingInv
      /\ TopicTypes /\ UseInv /\ NamedInv /\ AliasInv
  BY <1>1 DEF DeliveryInv, TopicInv
<1>3. CASE ConformingBroker
  BY <1>2, <1>3, BrokerPublishTopics, BrokerConnackTopics, BrokerRecvTopics,
     ClientRecvTopics, ClientAloneTopics
  DEF ConformingBroker
<1>4. CASE UNCHANGED deliveryVars
  <2>1. UNCHANGED <<content, link, aliases, exchange, toClient, recvAliases, unlearnt, serving>>
    BY <1>4 DEF deliveryVars, recvVars, fixed, brokerVars, history
  <2>2. TopicTypes' /\ UseInv' /\ NamedInv'
    BY <1>2, <2>1 DEF TopicTypes, UseInv, InUse, NamedInv
  <2> QED
    BY <1>2, <2>1, <2>2, AliasRests
<1> QED
  BY <1>1, <1>3, <1>4 DEF DeliveryNext, AnyBroker

\* The invariant of topics and aliases holds of every reachable state.
LEMMA TopicsInductive == DeliverySpec => [](DeliveryInv /\ TopicInv)
BY DeliveryInvInit, DeliveryInvStep, TopicInvInit, TopicInvStep, PTL DEF DeliverySpec

\* The first PUBLISH tells the client its topic.
LEMMA FirstTopic ==
    ASSUME RecvInv, BrokerTypes, ConformingInv, TopicTypes, NamedInv, AliasInv,
           toClient # <<>>, toClient[1].type = "PUBLISH", link \notin {"closing", "down", "refused"},
           toClient[1].alias \notin unlearnt
    PROVE  /\ link = "up" /\ toClient[1].msg \in Msgs
           /\ content[toClient[1].msg].topic \in Topics
           /\ topicOf(toClient[1]) = content[toClient[1].msg].topic
           /\ ~topicUnknown(toClient[1])
<1> DEFINE p == toClient[1]
<1>1. 1 \in 1 .. Len(toClient) /\ Len(toClient) \in Nat
  BY TailOfChannel DEF BrokerTypes
<1>2. p \in PublishPackets /\ p.msg \in Msgs
  BY <1>1, PublishPacketGood
<1>3. content[p.msg].topic \in Topics /\ content[p.msg].topic # NoTopic
  BY <1>2, RecvOpsAssumption DEF TopicTypes, RecvOpsAssumption
<1>4. link = "up"
  BY EstablishedFirst DEF RecvInv, RecvTypeOK, Links
<1>5. CASE p.topic # NoTopic
  <2>1. p.topic = content[p.msg].topic
    BY <1>1, <1>5 DEF NamedInv
  <2> QED
    BY <1>2, <1>3, <1>4, <1>5, <2>1 DEF topicOf, topicUnknown
<1>6. CASE p.topic = NoTopic
  <2>1. p.alias \in Aliases
    BY <1>1, <1>3, <1>6 DEF NamedInv
  <2>2. PICK a \in Aliases : a = p.alias
    BY <2>1
  <2>3. PICK t \in Topics : t = content[p.msg].topic
    BY <1>3
  <2>4. Wanted(a, t, 0)
    BY <1>1, <1>6, <2>2, <2>3 DEF Wanted
  <2>5. 0 \in 0 .. Len(toClient)
    BY <1>1
  <2>6. Standing(a, t, 0)
    BY <1>4, <2>4, <2>5 DEF AliasInv
  <2>7. recvAliases[a] = t
    <3>1. a \notin unlearnt
      BY <2>2
    <3> QED
      BY <2>6, <3>1 DEF Standing
  <2>8. a # NoAlias
    BY Constants DEF Aliases, NoAlias
  <2> QED
    BY <1>2, <1>3, <1>4, <1>6, <2>2, <2>3, <2>7, <2>8 DEF topicOf, topicUnknown
<1> QED
  BY <1>5, <1>6

\* With a conforming broker, a message is reported under the topic it was published to,
\* whichever way its alias was defined, redefined or lost with the connection before,
\* unless the alias was defined by the repeat of a message the client only reconfirmed.
THEOREM TopicsReported == DeliverySpec => ReportedUnderItsTopic
<1>1. ASSUME DeliveryInv, TopicInv, DeliveryNext, conforming, reported'.msg # NoMsg
      PROVE  \/ reported'.topic = content[reported'.msg].topic
             \/ Head(toClient).alias \in unlearnt
  <2>1. /\ RecvInv /\ BrokerTypes /\ ExchangeInv /\ ConformingInv
        /\ TopicTypes /\ UseInv /\ NamedInv /\ AliasInv
    BY <1>1 DEF DeliveryInv, TopicInv
  <2>2. ConformingBroker
    BY <1>1 DEF DeliveryNext, AnyBroker
  <2>3. NoReport.msg = NoMsg
    BY DEF NoReport
  <2>4. ClientRecv
    BY <1>1, <2>2, <2>3
    DEF ConformingBroker, BrokerPublish, BrokerConnack, BrokerRecv, ClientRests, Silent,
        ClientTimeout, ResponseTimeout, SessionExpiryTimeout, ClientDisconnect, Disconnect,
        ClientConnect, Connect, ClientGivesUp, ConnectFails, NetworkLost, NetworkDisconnected
  <2> DEFINE p == toClient[1]
  <2>5. toClient # <<>> /\ Head(toClient) = p
    BY <2>1, <2>4, TailOfChannel DEF ClientRecv, BrokerTypes
  <2>6. PICK leaves \in BOOLEAN : p.type = "PUBLISH" /\ HandlePublish(p, leaves)
    BY <1>1, <2>3, <2>4, <2>5
    DEF ClientRecv, IgnorePublish, IgnoreConnack, Ignored, HandlePubrel, Termination, Connack, Silent
  <2>7. Accept(p, leaves) /\ link = "up"
    BY <1>1, <2>3, <2>6 DEF HandlePublish, Reconfirm, Termination, NotAuthorized
  <2>8. reported' = [msg |-> p.msg, topic |-> topicOf(p)]
    BY <2>7 DEF Accept
  <2>9. p.alias \notin unlearnt => topicOf(p) = content[p.msg].topic
    BY <2>1, <2>5, <2>6, <2>7, FirstTopic
  <2> QED
    BY <2>5, <2>8, <2>9
<1>2. DeliveryInv /\ TopicInv /\ [DeliveryNext]_deliveryVars =>
         [conforming /\ reported'.msg # NoMsg =>
            \/ reported'.topic = content[reported'.msg].topic
            \/ Head(toClient).alias \in unlearnt]_deliveryVars
  BY <1>1
<1> QED
  BY <1>2, TopicsInductive, PTL DEF DeliverySpec, ReportedUnderItsTopic

\* There is room for every message of the conforming broker, as long as no operation of an
\* earlier refusal, and no reception the broker knows nothing of, is left in the list.
LEMMA RoomForPublish ==
    ASSUME RecvInv, BrokerTypes, ExchangeInv, ReceptionInv, ConformingInv,
           toClient # <<>>, toClient[1].type = "PUBLISH",
           ~(toClient[1].qos = 2 /\ Known(toClient[1].id)),
           \A j \in DOMAIN recvOps : recvOps[j].id # 0, ~stale
    PROVE  /\ Len(recvOps) \in Nat /\ Cardinality(InUse) \in Nat
           /\ Len(recvOps) + 1 <= Cardinality(InUse)
<1> DEFINE p == toClient[1]
           L == Len(recvOps)
<1>1. 1 \in 1 .. Len(toClient)
  BY TailOfChannel DEF BrokerTypes
<1>2. /\ p.id \in Ids /\ p.msg \in Msgs /\ p.qos \in {1, 2}
      /\ exchange[p.id] = [st |-> "pub", msg |-> p.msg] /\ content[p.msg].qos = p.qos
  BY <1>1, PublishPacketGood DEF ConformingInv, ToClientInv
<1>3. ~Anew
  BY EstablishedFirst
<1>4. \A id \in KnownIds : /\ id \in Ids /\ reception[id] # NoMsg
                           /\ exchange[id].msg = reception[id]
                           /\ content[exchange[id].msg].qos = 2
  BY <1>3 DEF ConformingInv, Agreed, ReceptionInv, KnownIds
<1>5. KnownIds \subseteq InUse
  BY <1>4 DEF InUse, ExchangeInv
<1>6. p.id \in InUse /\ p.id \notin KnownIds
  <2>1. p.id \in InUse
    BY <1>2 DEF InUse
  <2>2. p.id \in KnownIds => p.qos = 2
    BY <1>2, <1>4
  <2> QED
    BY <2>1, <2>2 DEF KnownIds
<1>7. GoodList(recvOps) /\ KnownIds = IdsOf(recvOps)
  BY RecvInvParts
<1>8. L \in Nat /\ DOMAIN recvOps = 1 .. L
  BY <1>7, LenProperties DEF GoodList
<1>9. \A i \in 1 .. L : recvOps[i].id \in KnownIds
  <2>1. \A i \in 1 .. L : recvOps[i].id \in Ids
    <3>1. \A i \in 1 .. L : recvOps[i] \in RecvOpSet
      BY <1>7, <1>8, ElementOfSeq DEF GoodList
    <3> QED
      BY <1>8, <3>1 DEF RecvOpSet
  <2> QED
    BY <1>8, <2>1 DEF KnownIds, Known
<1> DEFINE f == [i \in 1 .. L |-> recvOps[i].id]
<1>10. f \in Injection(1 .. L, KnownIds)
  <2>1. f \in [1 .. L -> KnownIds]
    BY <1>9
  <2>2. \A i, j \in 1 .. L : recvOps[i].id = recvOps[j].id => i = j
    BY <1>7, <1>8 DEF GoodList
  <2> QED
    BY <2>1, <2>2 DEF Injection, IsInjective
<1>11. IsFiniteSet(KnownIds) /\ Cardinality(KnownIds) \in Nat
  BY <1>5, UseFinite, FS_Subset, FS_CardinalityType
<1> HIDE DEF f, L
<1>12. L <= Cardinality(KnownIds)
  <2>1. Cardinality(1 .. L) = L
    BY <1>8, FS_Interval
  <2> QED
    BY <1>10, <1>11, <2>1, FS_Injection
<1>13. Cardinality(KnownIds) + 1 <= Cardinality(InUse)
  <2>1. Cardinality(KnownIds \cup {p.id}) = Cardinality(KnownIds) + 1
    BY <1>6, <1>11, FS_AddElement
  <2>2. Cardinality(KnownIds \cup {p.id}) <= Cardinality(InUse)
    <3>1. KnownIds \cup {p.id} \in SUBSET InUse
      BY <1>5, <1>6
    <3> QED
      BY <3>1, UseFinite, FS_Subset
  <2> QED
    BY <2>1, <2>2
<1> QED
  BY <1>8, <1>11, <1>12, <1>13, UseFinite DEF L

\* There is storage for what the broker may send.  It is so in a build without
\* CC_MQTT5_CLIENT_RECEIVE_MAX_LIMIT, where operations are allocated as needed.  In a build
\* with it the application must announce a Receive Maximum the build has room for:
\* ConnectOp::configExtra() takes any, and the broker any when there is none.
StorageSuffices ==
    IF RecvLimit > 0 THEN RecvLimit <= OpsLimit ELSE Cardinality(Ids) <= OpsLimit

\* A PUBLISH of the conforming broker that is answered with an error.
LEMMA PublishRefused ==
    ASSUME StorageSuffices, DeliveryInv, TopicInv, conforming,
           toClient # <<>>, toClient[1].type = "PUBLISH",
           NEW leaves \in BOOLEAN, HandlePublish(toClient[1], leaves),
           \A j \in DOMAIN recvOps : recvOps[j].id # 0, link # "refused", ~stale,
           toClient[1].alias \notin unlearnt,
           NEW i \in DOMAIN out', out'[i].code = "error"
    PROVE  /\ out'[i].id \in Ids
           /\ content[exchange[out'[i].id].msg].topic \notin Subscribed
<1> DEFINE p == toClient[1]
<1>1. /\ RecvInv /\ BrokerTypes /\ ExchangeInv /\ ReceptionInv /\ ConformingInv
      /\ TopicTypes /\ UseInv /\ NamedInv /\ AliasInv
  BY DEF DeliveryInv, TopicInv
<1>2. 1 \in 1 .. Len(toClient)
  BY <1>1, TailOfChannel DEF BrokerTypes
<1>3. /\ p.id \in Ids /\ p.qos \in {1, 2} /\ p.verdict = "ok"
      /\ p.alias \in Aliases \cup {NoAlias}
      /\ exchange[p.id] = [st |-> "pub", msg |-> p.msg]
  <2>1. p \in PublishPackets
    BY <1>1, <1>2, PublishPacketGood
  <2>2. exchange[p.id] = [st |-> "pub", msg |-> p.msg]
    BY <1>1, <1>2 DEF ConformingInv, ToClientInv
  <2> QED
    BY <2>1, <2>2 DEF PublishPackets
<1>4. /\ link = "up" /\ topicOf(p) = content[p.msg].topic /\ ~topicUnknown(p)
  <2>1. link \notin {"closing", "down", "refused"}
    BY DEF HandlePublish
  <2> QED
    BY <1>1, <2>1, FirstTopic
<1>5. ~aliasInvalid(p)
  BY <1>3, Constants DEF aliasInvalid, Aliases
<1>6. ASSUME NEW type, NEW id PROVE Packet(type, id, "success").code = "success"
  BY DEF Packet
<1>7. ~(p.qos = 2 /\ Known(p.id))
  <2> SUFFICES ASSUME p.qos = 2, Known(p.id) PROVE FALSE
    OBVIOUS
  <2>1. p.id \in KnownIds /\ ~Anew
    BY <1>1, <1>3, EstablishedFirst DEF KnownIds
  <2>2. p.dup
    BY <1>1, <1>2, <2>1 DEF ConformingInv, Agreed
  <2>3. out' = <<Packet("PUBREC", p.id, "success")>>
    BY <2>2 DEF HandlePublish, Reconfirm
  <2> QED
    BY <1>6, <2>3
<1>8. ~noStorage /\ ~tooMany(p)
  <2>1. /\ Len(recvOps) \in Nat /\ Cardinality(InUse) \in Nat
        /\ Len(recvOps) + 1 <= Cardinality(InUse)
    BY <1>1, <1>7, RoomForPublish
  <2>2. Cardinality(InUse) <= Cardinality(Ids) /\ Cardinality(Ids) \in Nat
    BY UseFinite, Constants, FS_Subset, FS_CardinalityType
  <2> QED
    BY <1>1, <2>1, <2>2, RecvOpsAssumption
    DEF UseInv, StorageSuffices, noStorage, tooMany, RecvOpsAssumption
<1>9. IF topicOf(p) \in Subscribed THEN Accept(p, leaves) ELSE NotAuthorized(p)
  BY <1>3, <1>4, <1>5, <1>7, <1>8 DEF HandlePublish
<1>10. CASE topicOf(p) \in Subscribed
  <2>1. \/ out' = Ack(p, "success")
        \/ out' = <<Packet("DISCONNECT", 0, "success")>>
        \/ out' = <<Packet("DISCONNECT", 0, "success")>> \o Ack(p, "success")
    BY <1>9, <1>10 DEF Accept, Acknowledge, LeaveInCallback
  <2>2. Ack(p, "success") = <<Packet(AckType(p.qos), p.id, "success")>>
    BY <1>3 DEF Ack
  <2>3. out'[i] = Packet(AckType(p.qos), p.id, "success")
           \/ out'[i] = Packet("DISCONNECT", 0, "success")
    BY <2>1, <2>2
  <2> QED
    BY <1>6, <2>3
<1>11. CASE topicOf(p) \notin Subscribed
  <2>1. out' = <<Packet(AckType(p.qos), p.id, "error")>>
    BY <1>3, <1>9, <1>11 DEF NotAuthorized, Ack
  <2>2. out'[i].id = p.id
    BY <2>1 DEF Packet
  <2> QED
    BY <1>3, <1>4, <1>11, <2>2
<1> QED
  BY <1>10, <1>11

\* With storage for what the Receive Maximum allows, a conforming broker is never refused:
\* no DISCONNECT with an error, and no error code for a message the client has subscribed
\* to, but for the exceptions of the property: messages without a subscription, the alias
\* of a repeat, the operation of a refusal, and a CONNECT the client gave up.
THEOREM BrokerNotRefused ==
    ASSUME StorageSuffices
    PROVE  DeliverySpec => ConformingNotRefused
<1>1. ASSUME DeliveryInv, TopicInv, DeliveryNext, conforming,
             NEW i \in DOMAIN out', out'[i].code = "error"
      PROVE  \/ out'[i].type = "PUBCOMP"
             \/ out'[i].id \in Ids
                  /\ content[exchange[out'[i].id].msg].topic \notin Subscribed
             \/ Head(toClient).alias \in unlearnt
             \/ \E j \in DOMAIN recvOps : recvOps[j].id = 0
             \/ link = "refused" \/ stale
  <2>1. /\ RecvInv /\ BrokerTypes /\ ConformingInv
        /\ TopicTypes /\ UseInv /\ NamedInv /\ AliasInv
    BY <1>1 DEF DeliveryInv, TopicInv
  <2>2. ConformingBroker
    BY <1>1 DEF DeliveryNext, AnyBroker
  <2>3. out' # <<>>
    BY <1>1
  <2>4. ~ClientConnect /\ ~\E interval \in Intervals \cup {"same"} : ClientDisconnect(interval)
    <3>1. ClientConnect => out' = <<Packet("CONNECT", 0, "success")>>
      BY DEF ClientConnect, Connect
    <3>2. ASSUME NEW interval, ClientDisconnect(interval)
          PROVE  out' = <<[Packet("DISCONNECT", 0, "success") EXCEPT !.interval = interval]>>
      BY <3>2 DEF ClientDisconnect, Disconnect
    <3> QED
      BY <1>1, <3>1, <3>2 DEF Packet
  <2>5. ClientRecv
    BY <2>2, <2>3, <2>4
    DEF ConformingBroker, BrokerPublish, BrokerConnack, BrokerRecv, ClientRests, Silent,
        ClientTimeout, ResponseTimeout, SessionExpiryTimeout, ClientGivesUp, ConnectFails,
        NetworkLost, NetworkDisconnected
  <2> DEFINE p == toClient[1]
  <2>6. toClient # <<>> /\ Head(toClient) = p
    BY <2>1, <2>5, TailOfChannel DEF ClientRecv, BrokerTypes
  <2>7. CASE p.type = "PUBLISH" /\ \E leaves \in BOOLEAN : HandlePublish(p, leaves)
    BY <1>1, <2>6, <2>7, PublishRefused
  <2>8. CASE p.type = "PUBREL" /\ HandlePubrel(p.id, "success")
    <3>1. \/ out' = <<Packet("PUBCOMP", p.id, "error")>>
          \/ out' = <<Packet("PUBCOMP", p.id, "success")>>
      BY <2>8 DEF HandlePubrel, pubrelUnknown
    <3>2. out'[i].type = "PUBCOMP"
      BY <1>1, <3>1 DEF Packet
    <3> QED
      BY <3>2
  <2> QED
    BY <2>3, <2>5, <2>6, <2>7, <2>8 DEF ClientRecv, IgnorePublish, IgnoreConnack, Ignored, Connack,
                                             Silent
<1>2. DeliveryInv /\ TopicInv /\ [DeliveryNext]_deliveryVars =>
         [conforming =>
            \A i \in DOMAIN out' :
               out'[i].code = "error" =>
                 \/ out'[i].type = "PUBCOMP"
                 \/ out'[i].id \in Ids
                      /\ content[exchange[out'[i].id].msg].topic \notin Subscribed
                 \/ Head(toClient).alias \in unlearnt
                 \/ \E j \in DOMAIN recvOps : recvOps[j].id = 0
                 \/ link = "refused" \/ stale]_deliveryVars
  BY <1>1
<1> QED
  BY <1>2, TopicsInductive, PTL DEF DeliverySpec, ConformingNotRefused
==============================================================================
