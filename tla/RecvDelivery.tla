---------------------------- MODULE RecvDelivery ----------------------------
(***************************************************************************)
(* The receive engine (RecvOps) against a broker and a network: two          *)
(* first-in first-out channels, emptied whenever the network connection is   *)
(* lost, and for every packet id where the broker is in the QoS 1 or QoS 2   *)
(* exchange.  The broker is not part of the repository.  A conforming one    *)
(* does what the MQTT specification asks of it, no more: it publishes within *)
(* the client's Receive Maximum, repeats packets only on a resumed session   *)
(* and defines a topic alias before it uses it.  The other one sends         *)
(* anything (RecvOps!Next).                                                  *)
(***************************************************************************)
EXTENDS RecvOps

CONSTANT
    MaxMsgs         \* bound: messages the broker publishes

Msgs == 1 .. MaxMsgs

ASSUME RecvDeliveryAssumption == MaxMsgs \in Nat

VARIABLES
    conforming,     \* which of the two brokers, fixed from the start
    content,        \* QoS and topic of every message, fixed from the start
    exchange,       \* the broker's state of every packet id
    published,      \* messages published so far
    stored,         \* the broker's session: "none", "zero" or "finite" expiry
    serving,        \* the broker has answered the CONNECT
    aliases,        \* the topic every alias stands for at the broker
    toClient, toBroker,
    reception,      \* history: the message reported last for a packet id
    delivered,      \* history: how often a message was reported, 2 for more
                    \* (QoS 1: whether it was)
    gaveUp,         \* history: QoS 2 messages the client forgot before the
                    \* broker knew of their arrival
    completed,      \* history: messages whose exchange ended with success
    unlearnt,       \* history: aliases defined by a repeat the client only
                    \* reconfirmed
    stale,          \* history: receptions are left from before a CONNECT whose
                    \* answer the client did not wait for
    mistaken        \* history: messages taken for the repeat of another one
                    \* since, and not reported

brokerVars == <<exchange, published, stored, serving, aliases, completed>>
history == <<reception, delivered, gaveUp, unlearnt, stale, mistaken>>
fixed == <<conforming, content>>
deliveryVars == <<recvVars, fixed, brokerVars, toClient, toBroker, history>>

Free == [st |-> "free", msg |-> NoMsg]
PublishPacket(id, m, dup, topic, alias) ==
    [type |-> "PUBLISH", id |-> id, qos |-> content[m].qos, dup |-> dup,
     msg |-> m, topic |-> topic, alias |-> alias, verdict |-> "ok"]
Pubrel(id) == [type |-> "PUBREL", id |-> id]
ConnackPacket(present, interval) ==
    [type |-> "CONNACK", present |-> present, interval |-> interval]

DeliveryInit ==
    /\ RecvInit
    /\ conforming \in BOOLEAN
    /\ content \in IF conforming THEN [Msgs -> [qos : {1, 2}, topic : Topics]]
                   ELSE {[m \in Msgs |-> [qos |-> 1, topic |-> NoTopic]]}
    /\ exchange = [id \in Ids |-> Free]
    /\ published = 0
    /\ stored = "none" /\ serving = FALSE
    /\ aliases = NoRecvAliases
    /\ toClient = <<>> /\ toBroker = <<>>
    /\ reception = [id \in Ids |-> NoMsg]
    /\ delivered = [m \in Msgs |-> 0]
    /\ gaveUp = {} /\ completed = {} /\ unlearnt = {}
    /\ stale = FALSE /\ mistaken = {}

InUse == {id \in Ids : exchange[id].st # "free"}

------------------------------------------------------------------------------
(* The broker. *)

ClientRests ==
    /\ Silent
    /\ UNCHANGED <<recvOps, link, expiry, requested, expiryTimer, recvAliases,
                   recvFault, fixed, history>>

\* A new message under the smallest free packet id, with its topic, with its
\* topic and an alias for it, or with an alias that stands for it.
BrokerPublish(id, alias, named) ==
    LET m == published + 1
        topic == content[m].topic
    IN  /\ serving
        /\ published < MaxMsgs
        /\ id \notin InUse /\ \A free \in Ids \ InUse : id <= free
        /\ RecvLimit > 0 => Cardinality(InUse) < RecvLimit
        /\ named \/ (alias # NoAlias /\ aliases[alias] = topic)
        /\ published' = m
        /\ exchange' = [exchange EXCEPT ![id] = [st |-> "pub", msg |-> m]]
        /\ aliases' = IF alias = NoAlias THEN aliases
                      ELSE [aliases EXCEPT ![alias] = topic]
        /\ toClient' = Append(toClient, PublishPacket(id, m, FALSE,
                                          IF named THEN topic ELSE NoTopic, alias))
        /\ ClientRests
        /\ UNCHANGED <<stored, serving, completed, toBroker>>

\* The packet ids in use, in ascending order.
Sorted == {s \in SetToSeqs(InUse) : \A i, j \in DOMAIN s : i < j => s[i] < s[j]}

\* What a resumed session starts with.  The messages of the packet ids in
\* "defining" define "alias" for their topics.
Repeated(ids, alias, defining) ==
    [i \in DOMAIN ids |->
        LET id == ids[i]
            x == exchange[id]
        IN  IF x.st = "rel" THEN Pubrel(id)
            ELSE PublishPacket(id, x.msg, TRUE, content[x.msg].topic,
                               IF id \in defining THEN alias ELSE NoAlias)]

\* The answer to CONNECT: aliases are those of the new connection.
BrokerConnack(present, interval, alias, defining) ==
    /\ toBroker # <<>> /\ Head(toBroker).type = "CONNECT"
    /\ present => stored = "finite"
    /\ defining \subseteq {id \in InUse : present /\ exchange[id].st = "pub"}
    /\ stored' = interval
    /\ serving' = TRUE
    /\ exchange' = IF present THEN exchange ELSE [id \in Ids |-> Free]
    /\ aliases' = IF defining = {} THEN NoRecvAliases
                  ELSE [NoRecvAliases EXCEPT
                          ![alias] = content[exchange[Max(defining)].msg].topic]
    /\ toBroker' = Tail(toBroker)
    /\ \E ids \in Sorted :
          toClient' = <<ConnackPacket(present, interval)>>
                         \o (IF present THEN Repeated(ids, alias, defining) ELSE <<>>)
    /\ ClientRests
    /\ UNCHANGED <<published, completed>>

\* PUBACK, PUBREC, PUBCOMP and DISCONNECT of the client.
BrokerRecv ==
    LET p == Head(toBroker)
        m == exchange[p.id].msg
    IN  /\ toBroker # <<>> /\ p.type # "CONNECT"
        /\ toBroker' = Tail(toBroker)
        /\ \/ /\ p.type = "DISCONNECT"
              /\ serving' = FALSE
              /\ stored' = IF serving /\ p.interval # "same" THEN p.interval ELSE stored
              /\ UNCHANGED <<exchange, completed, toClient>>
           \/ /\ p.type \in {"PUBACK", "PUBREC", "PUBCOMP"} /\ ~serving
              /\ UNCHANGED <<exchange, stored, serving, completed, toClient>>
           \/ /\ p.type \in {"PUBACK", "PUBCOMP"} \/ p.code = "error"
              /\ p.type # "DISCONNECT" /\ serving
              /\ exchange' = [exchange EXCEPT ![p.id] = Free]
              /\ completed' = IF p.type = "PUBCOMP" \/ p.code = "success"
                              THEN completed \cup {m} ELSE completed
              /\ UNCHANGED <<stored, serving, toClient>>
           \/ /\ p.type = "PUBREC" /\ p.code = "success" /\ serving
              /\ exchange' = [exchange EXCEPT ![p.id].st = "rel"]
              /\ toClient' = Append(toClient, Pubrel(p.id))
              /\ UNCHANGED <<stored, serving, completed>>
        /\ ClientRests
        /\ UNCHANGED <<published, aliases>>

------------------------------------------------------------------------------
(* The client.  Its packets enter the channel. *)

\* Messages the client has forgotten with the step.
Forgotten ==
    {reception[id] : id \in {x \in Ids : Known(x) /\ ~Known(x)'}}
       \cup {m \in Msgs : m = reported'.msg /\ content[m].qos = 2
                            /\ recvFault' # "none"}

\* What the step reports and forgets.  Nothing is stale in an empty list.
Recorded ==
    LET new == {recvOps'[i].id : i \in {j \in DOMAIN recvOps' : j > Len(recvOps)}}
        m == reported'.msg
    IN  /\ delivered' = [x \in Msgs |->
                           IF x # m THEN delivered[x]
                           ELSE IF delivered[x] = 0 \/ content[x].qos = 1 THEN 1 ELSE 2]
        /\ reception' = [id \in Ids |->
                           IF m # NoMsg /\ id \in new THEN m ELSE reception[id]]
        /\ gaveUp' = gaveUp \cup {x \in Forgotten :
                        \E id \in Ids : exchange[id] = [st |-> "pub", msg |-> x]}
        /\ stale' = (stale /\ recvOps' # <<>>)

\* Aliases whose latest definition on this connection the client has not seen.
Missed(p) ==
    IF p.type # "PUBLISH" \/ p.topic = NoTopic \/ p.alias = NoAlias THEN unlearnt
    ELSE IF p.qos = 2 /\ Known(p.id) THEN unlearnt \cup {p.alias}
    ELSE unlearnt \ {p.alias}

\* A stale reception answers for a message that was not reported.
Taken(p) ==
    {m \in Msgs : /\ stale /\ p.type = "PUBLISH" /\ m = p.msg
                  /\ p.qos = 2 /\ Known(p.id) /\ reception[p.id] # m}

ClientRecv ==
    LET p == Head(toClient)
    IN  /\ toClient # <<>>
        /\ toClient' = Tail(toClient)
        /\ \/ /\ p.type = "PUBLISH"
              /\ \/ \E leaves \in BOOLEAN : HandlePublish(p, leaves)
                 \/ IgnorePublish
           \/ p.type = "PUBREL" /\ HandlePubrel(p.id, "success")
           \/ /\ p.type = "CONNACK"
              /\ \/ \E asked \in {b \in BOOLEAN : p.interval = "finite" => b} :
                       Connack(p.present, p.interval, asked)
                 \/ IgnoreConnack
        /\ Recorded
        /\ unlearnt' = Missed(p)
        /\ mistaken' = (mistaken \cup Taken(p)) \ {reported'.msg}
        /\ toBroker' = toBroker \o out'
        /\ UNCHANGED <<fixed, brokerVars>>

ClientTimeout ==
    /\ (\E i \in 1 .. OpsLimit : ResponseTimeout(i)) \/ SessionExpiryTimeout
    /\ Recorded
    /\ UNCHANGED <<fixed, brokerVars, toClient, toBroker, unlearnt, mistaken>>

\* The application closes the session; the network stays until it is lost.
ClientDisconnect(interval) ==
    /\ Disconnect(interval)
    /\ Recorded
    /\ toBroker' = toBroker \o out'
    /\ UNCHANGED <<fixed, brokerVars, toClient, unlearnt, mistaken>>

ClientConnect ==
    /\ Connect
    /\ toBroker' = out' /\ toClient' = <<>>
    /\ serving' = FALSE
    /\ unlearnt' = {}
    /\ UNCHANGED <<fixed, exchange, published, stored, aliases, completed,
                   reception, delivered, gaveUp, stale, mistaken>>

\* The ConnectOp times out, or the broker has refused the connection without
\* touching its session; the CONNACK of a broker that did answer comes too late.
ClientGivesUp ==
    /\ ConnectFails
    /\ stale' = (recvOps # <<>>)
    /\ UNCHANGED <<fixed, brokerVars, toClient, toBroker, reception, delivered,
                   gaveUp, unlearnt, mistaken>>

NetworkLost ==
    /\ NetworkDisconnected
    /\ Recorded
    /\ toBroker' = <<>> /\ toClient' = <<>>
    /\ serving' = FALSE
    /\ UNCHANGED <<fixed, exchange, published, stored, aliases, completed, unlearnt,
                   mistaken>>

\* RecvOps!Next has every step of the client alone; nothing of this module moves.
AnyBroker ==
    /\ ~conforming
    /\ Next
    /\ UNCHANGED <<fixed, brokerVars, toClient, toBroker, history>>

ConformingBroker ==
    /\ conforming /\ recvFault = "none"
    /\ \/ \E id \in Ids, alias \in Aliases \cup {NoAlias}, named \in BOOLEAN :
             BrokerPublish(id, alias, named)
       \/ \E present \in BOOLEAN, interval \in Intervals, alias \in Aliases,
             defining \in SUBSET Ids :
             BrokerConnack(present, interval, alias, defining)
       \/ BrokerRecv
       \/ ClientRecv
       \/ ClientTimeout
       \/ \E interval \in Intervals \cup {"same"} : ClientDisconnect(interval)
       \/ ClientConnect
       \/ ClientGivesUp
       \/ NetworkLost

DeliveryNext == AnyBroker \/ ConformingBroker

DeliverySpec == DeliveryInit /\ [][DeliveryNext]_deliveryVars

\* Packets on a connection that stays up are delivered and handled.
DeliveryFairSpec ==
    /\ DeliverySpec
    /\ WF_deliveryVars(conforming /\ BrokerRecv)
    /\ WF_deliveryVars(conforming /\ ClientRecv)

------------------------------------------------------------------------------
(* Correctness. *)

\* Where the broker, the sender, is with a message: one that was mistaken for
\* another is not released, whatever the broker was told, and fails in the end.
StageOf(m) ==
    LET ids == {id \in Ids : exchange[id].msg = m}
    IN  IF published < m THEN "new"
        ELSE IF \E id \in ids : exchange[id].st = "pub" \/ m \in mistaken THEN "offered"
        ELSE IF ids # {} THEN "released"
        ELSE IF m \in completed \ mistaken THEN "done" ELSE "failed"

Abstract == INSTANCE Delivery WITH
    Msgs  <- Msgs,
    qos   <- [m \in Msgs |-> content[m].qos],
    stage <- [m \in Msgs |-> StageOf(m)],
    times <- delivered,
    held  <- {reception[id] : id \in {x \in Ids : Known(x)}} \ {NoMsg},
    early <- gaveUp

\* The receive engine and a conforming broker implement the promise of module
\* Delivery: no order of repeats, timeouts, disconnections and reconnections
\* reports a QoS 2 message again while its RecvOp exists, and what the broker
\* takes for received was reported.  The exception is a message that meets the
\* reception of another one under its packet id, which the client has kept over
\* a CONNECT it gave up (op/ConnectOp.cpp:988), while the broker has started a
\* session anew with it.
ImplementsDelivery == Abstract!Spec

\* A conforming broker is never refused: no DISCONNECT with an error, and no
\* error code for a message the client has subscribed to, except for an alias
\* that was defined by the repeat of a message the client knew already, and as
\* long as the operation of such a refusal is left in the list of a kept session;
\* and except on a connection whose CONNECT the client gave up, and later while
\* receptions from before it are left.
ConformingNotRefused ==
    [][conforming =>
         \A i \in DOMAIN out' :
            out'[i].code = "error" =>
              \/ out'[i].type = "PUBCOMP"
              \/ out'[i].id \in Ids
                   /\ content[exchange[out'[i].id].msg].topic \notin Subscribed
              \/ Head(toClient).alias \in unlearnt
              \/ \E j \in DOMAIN recvOps : recvOps[j].id = 0
              \/ link = "refused" \/ stale
      ]_deliveryVars

\* A message is reported under the topic the broker published it to, through
\* aliases that are defined, redefined and lost with the connection; the same
\* exception.
ReportedUnderItsTopic ==
    [][conforming /\ reported'.msg # NoMsg =>
         \/ reported'.topic = content[reported'.msg].topic
         \/ Head(toClient).alias \in unlearnt
      ]_deliveryVars

\* The broker gets its packet ids back on a connection that stays up, also the
\* ones of messages the client has forgotten.
ExchangeEnds ==
    \A id \in Ids : (serving /\ id \in InUse /\ link = "up")
                        ~> (id \notin InUse \/ ~serving \/ link # "up")
==============================================================================
