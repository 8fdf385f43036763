-------------------------- MODULE SendInvariants --------------------------
(***************************************************************************)
(* The inductive invariants SendDelivery_proofs proves: the books of the     *)
(* publish engine (IndInv), the order and the end of waiting (OrderInv), and *)
(* the engine with a conforming broker (DeliveryInv).                        *)
(***************************************************************************)
EXTENDS SendDelivery

(* The part of the inductive invariant that speaks of the operations. *)
FieldsOfStates ==
    \A o \in Ops : /\ op[o].acked \/ op[o].timer => op[o].st = "published"
                   /\ op[o].st = "prepared" => op[o].id = 0

OpsTypeOK ==
    /\ op \in [Ops -> Op]
    /\ inFlight \in Nat
    /\ allocated \subseteq PacketIds

OpsInv ==
    /\ OpsTypeOK
    /\ InFlightExact
    /\ PacketIdsExact
    /\ AwaitsAnswer
    /\ FieldsOfStates

opsVars == <<op, inFlight, allocated>>

(* The operation whose send() has not transmitted yet. *)
Sending == {o \in Ops : op[o].st = "sending"}

(* The call in progress stays within its loops. *)
CallTypes == [guarded : BOOLEAN,
              loop : {"none", "resend", "reconnect", "abort"},
              at : 0 .. MaxOps + 1, upto : 0 .. MaxOps,
              resume : 0 .. MaxOps, closing : BOOLEAN, cbs : Nat,
              sending : 0 .. MaxOps]

CallOK(c) ==
    /\ c \in CallTypes
    /\ c.loop \in {"resend", "abort"} => c.at \in 1 .. c.upto
    /\ c.loop = "reconnect" => c.at \in 1 .. MaxOps + 1

PacketTypes == [type : {"none", "CONNECT", "PUBLISH", "PUBREL", "DISCONNECT"},
                op : 0 .. MaxOps, dup : BOOLEAN]

StepInv ==
    /\ OpsInv
    /\ nulls \subseteq Ops
    /\ CallOK(call)
    /\ out \in PacketTypes

SessionTypes == [connected : BOOLEAN, disconnecting : BOOLEAN, limit : Nat,
                 expiry : {"zero", "finite"}, smallPackets : BOOLEAN]

RestTypeOK ==
    /\ fullOrdering \in BOOLEAN
    /\ session \in SessionTypes
    /\ initialized \in BOOLEAN /\ netDown \in BOOLEAN
    /\ connecting \in BOOLEAN /\ expiryTimer \in BOOLEAN
    /\ locked \in BOOLEAN
    /\ lastId \in PacketIds
    /\ fault \in {"none", "invalid iterator", "null pointer", "assertion",
                  "destroyed operation"}

IndInv == StepInv /\ RestTypeOK

(* While send() lets timers run the operation it is about to transmit has a     *)
(* place, although others may have taken the one canSend() saw.                 *)
SendInv ==
    call.sending # 0 /\ op[call.sending].st = "sending" /\ op[call.sending].qos # 0
        => inFlight <= session.limit

------------------------------------------------------------------------------
(* The order of the publishes and the end of their waiting. *)

(* The application sends what it prepared on the connection it prepared it    *)
(* for, and with a callback: the two uses under which the order can be lost   *)
(* (op/SendOp.cpp:627, op/SendOp.cpp:861).  No timer is due when it calls     *)
(* send(): what is proved from here on was checked with the timers that run   *)
(* inside of it (op/SendOp.cpp:615) by TLC only.                              *)
PlainUse == ~SendsLate /\ NoCallback = {} /\ ~TicksInSend

PreparedOps == {o \in Ops : op[o].st \in {"prepared", "sending"}}

(* Operations are created in the order of their numbers. *)
CreatedFirst == \A o \in Created : \A p \in Ops : p < o => p \in Created

(* What is prepared holds the preparation lock and is the newest operation. *)
PreparedLast == \A o \in PreparedOps : locked /\ \A p \in Created : p <= o

(* Nothing waits before a transmitted operation, whatever its QoS. *)
PublishedFirst == \A p \in Published : \A q \in Paused : p < q

HigherLater ==
    fullOrdering => \A o, p \in Published : o < p => op[o].qos <= op[p].qos

(* Outside of Full ordering QoS 0 never waits. *)
PausedQos == ~fullOrdering => \A q \in Paused : op[q].qos # 0

ListOrder ==
    CreatedFirst /\ PreparedLast /\ PublishedFirst /\ HigherLater /\ PausedQos

(* Outside of a connection the window is closed or nothing is resumed. *)
SessionFacts ==
    /\ session.connected \/ connecting => ~session.disconnecting
    /\ session.connected \/ session.disconnecting \/ session.limit = 0

(* A loop over the operations has what it left behind it in order. *)
LoopOK(c) ==
    /\ c.resume # 0 => ~session.disconnecting
    /\ c.closing => c.loop = "none"
    /\ c.loop = "reconnect" =>
          /\ ~session.disconnecting /\ c.cbs = 0 /\ c.resume = 0
          /\ \A o \in PreparedOps : c.at <= o
    /\ c.loop = "abort" =>
          /\ c.at <= c.upto
          /\ \A o \in Ops : o <= c.upto => o \in Created
          /\ \A o \in Live : c.at <= o

(* The operation that waits first cannot be transmitted. *)
Blocked ==
    \A q \in Paused : (\A p \in Paused : q <= p) =>
        \/ session.limit <= inFlight
        \/ fullOrdering /\ \E p \in Live : p < q /\ op[p].qos > op[q].qos

(* Either somebody is about to look at the operation that waits first, or it  *)
(* cannot be transmitted.                                                     *)
WaitOK(c) ==
    session.connected =>
       /\ c.resume # 0 /\ (\E q \in Paused : q < c.resume) => Blocked
       /\ fault = "none" /\ c.resume = 0 /\ c.loop # "reconnect" =>
             \/ Blocked
             \/ c.loop = "abort" /\ c.cbs = 0 /\ \A o \in Live : o <= c.upto

QueueInv ==
    /\ PlainUse
    /\ ListOrder
    /\ SessionFacts
    /\ LoopOK(call)
    /\ WaitOK(call)

(* No send() is about to transmit.  *)
NoneSending == call.sending = 0 /\ Sending = {}

OrderInv == QueueInv /\ NoneSending

------------------------------------------------------------------------------
(* With a broker: the invariant that relates the operations, what the broker    *)
(* holds and the packets on their way.                                          *)

(* Packet ids are not used twice in a run, and every message has one. *)
FewMessages ==
    Qoses \subseteq {1, 2} /\ MaxOps <= MaxPacketId /\ MaxOps <= PacketIdsLimit

BrokerPackets == [type : {"CONNECT", "PUBLISH", "PUBREL", "DISCONNECT"},
                  id : PacketIds, msg : 0 .. MaxOps, qos : 0 .. 2]
Answer == [type : {"PUBACK", "PUBREC", "PUBCOMP"}, id : PacketIds,
           code : {"success", "error"}]
Connacks == [type : {"CONNACK"}, present : SessionReplies, limit : SendLimits,
             expiry : Expiries, id : {None}]

(* f is the packet id a message has had, also after its operation is gone. *)
IdsOK(f) ==
    /\ msgQos \in [Ops -> Qoses]
    /\ f \in [Ops -> 0 .. lastId]
    /\ \A o, p \in Ops : f[o] = f[p] /\ f[o] # 0 => o = p
    /\ \A o \in Ops : op[o].st \in {"none", "prepared"} => f[o] = 0 /\ lastId < o
    /\ \A o \in Ops : op[o].st \in {"paused", "published"} =>
                         op[o].id = f[o] /\ f[o] # 0
    /\ \A o \in Live : op[o].qos = msgQos[o]
    /\ \A o \in Ops : op[o].acked => msgQos[o] = 2
    /\ allocated \subseteq 1 .. lastId

HeldOK(f) ==
    /\ heldAs \in [PacketIds -> 0 .. MaxOps]
    /\ delivered \in [Ops -> 0 .. 2]
    /\ early \subseteq Ops
    /\ \A m \in Ops : delivered[m] > 0 => op[m].st \in {"published", "gone"}
    /\ \A m \in Ops : \A id \in PacketIds : heldAs[id] = m =>
          f[m] = id /\ id # 0 /\ msgQos[m] = 2 /\ delivered[m] > 0
    /\ \A m \in Ops : op[m].st = "published" /\ msgQos[m] = 2 /\ ~op[m].acked
                       /\ delivered[m] > 0 /\ m \notin early => heldAs[f[m]] = m

DoneOK ==
    /\ completed \subseteq Ops
    /\ \A m \in completed : op[m].st = "gone"

PublishOK(f, p) ==
    /\ p.msg \in Ops /\ p.id = f[p.msg] /\ p.id # 0 /\ p.qos = msgQos[p.msg]
    /\ op[p.msg].st \in {"published", "gone"}
    /\ p.qos = 2 => /\ delivered[p.msg] > 0 /\ p.msg \notin early
                          => heldAs[p.id] = p.msg
                    /\ op[p.msg].acked => heldAs[p.id] = p.msg
                    /\ p.msg \notin completed

PubrelOK(f, p) ==
    /\ p.id \in 1 .. lastId
    /\ \A m \in Ops : f[m] = p.id => msgQos[m] = 2
                                     /\ (op[m].st # "gone" => op[m].acked)

ToBrokerOK(f) ==
    /\ toBroker \in Seq(BrokerPackets)
    /\ \A i \in DOMAIN toBroker :
          /\ toBroker[i].type = "PUBLISH" => PublishOK(f, toBroker[i])
          /\ toBroker[i].type = "PUBREL" => PubrelOK(f, toBroker[i])
    /\ \A i, j \in DOMAIN toBroker :
          i < j /\ toBroker[i].type = "PUBREL" /\ toBroker[j].type = "PUBLISH"
             => toBroker[i].id # toBroker[j].id

PubackOK(f, p) ==
    \A m \in Ops : f[m] = p.id => msgQos[m] = 1
                                  /\ (p.code = "success" => delivered[m] > 0)

PubrecOK(f, p) ==
    /\ \A m \in Ops : f[m] = p.id =>
          /\ msgQos[m] = 2
          /\ p.code = "success" =>
                /\ delivered[m] > 0
                /\ op[m].st = "published" /\ ~op[m].acked => heldAs[p.id] = m
    /\ p.code = "success" =>
          \A i \in DOMAIN toBroker :
             toBroker[i].type = "PUBLISH" /\ toBroker[i].id = p.id
                => heldAs[p.id] = toBroker[i].msg

PubcompOK(f, p) ==
    /\ \A m \in Ops : f[m] = p.id => msgQos[m] = 2
                                     /\ (op[m].st # "gone" => op[m].acked)
    /\ \A i \in DOMAIN toBroker :
          toBroker[i].type = "PUBLISH" => toBroker[i].id # p.id

ToClientOK(f) ==
    /\ toClient \in Seq(Answer \cup Connacks)
    /\ \A i \in DOMAIN toClient :
          /\ toClient[i].type # "CONNACK" => toClient[i].id \in 1 .. lastId
          /\ toClient[i].type = "PUBACK" => PubackOK(f, toClient[i])
          /\ toClient[i].type = "PUBREC" => PubrecOK(f, toClient[i])
          /\ toClient[i].type = "PUBCOMP" => PubcompOK(f, toClient[i])

Offline == ~session.connected /\ ~session.disconnecting

(* The client: the session, the response timers and the call in progress. *)
SessionOK ==
    /\ fullOrdering = FALSE /\ session.smallPackets = FALSE
    /\ session.connected \/ connecting => initialized
    /\ connecting => Offline
    /\ ~session.connected => \A o \in Published : op[o].suspended
    /\ Offline => call.loop = "none" /\ ~call.closing

(* The channels: a connection starts with nothing in them. *)
ChannelsOK ==
    /\ stored \in {"none"} \cup Expiries /\ serving \in BOOLEAN
    /\ resent \in BOOLEAN /\ overdrawn \in BOOLEAN
    /\ \A i \in DOMAIN toBroker :
          toBroker[i].type \in {"CONNECT", "DISCONNECT"} => toBroker[i].id = 0
    /\ \A i \in DOMAIN toBroker : toBroker[i].type = "CONNECT" =>
          Len(toBroker) = 1 /\ Offline /\ window = {}
    /\ \A i \in DOMAIN toClient : toClient[i].type = "CONNACK" =>
          Len(toClient) = 1 /\ toBroker = <<>> /\ Offline /\ window = {}
    /\ Offline => /\ \A i \in DOMAIN toBroker : toBroker[i].type = "CONNECT"
                  /\ \A i \in DOMAIN toClient : toClient[i].type = "CONNACK"

LinkOK == SessionOK /\ ChannelsOK

(* Every answer is to a packet of an operation that was transmitted. *)
Known(f) ==
    \A i \in DOMAIN toClient : toClient[i].type # "CONNACK" =>
        \A m \in Ops : f[m] = toClient[i].id => op[m].st \in {"published", "gone"}

Unique(f) ==
    /\ Known(f)
    /\ call.closing => resent
    /\ call.loop = "reconnect" =>
          \A o \in Published : call.at <= o =>
             /\ \A i \in DOMAIN toBroker : toBroker[i].id # f[o]
             /\ \A i \in DOMAIN toClient : toClient[i].id # f[o]
    /\ ~resent =>
          /\ \A i, j \in DOMAIN toBroker :
                toBroker[i].id = toBroker[j].id /\ toBroker[i].id # 0 => i = j
          /\ \A i, j \in DOMAIN toClient :
                toClient[i].id = toClient[j].id /\ toClient[i].id # 0 => i = j
          /\ \A i \in DOMAIN toBroker : \A j \in DOMAIN toClient :
                toBroker[i].id = toClient[j].id => toBroker[i].id = 0
          /\ \A i \in DOMAIN toBroker :
                toBroker[i].type = "PUBLISH" => ~op[toBroker[i].msg].acked
          /\ \A i \in DOMAIN toClient : toClient[i].type = "PUBREC" =>
                \A m \in Ops : f[m] = toClient[i].id => ~op[m].acked

PublishedIds(f) == {f[o] : o \in Published}
WindowOK(f) ==
    /\ window \subseteq {id \in PacketIds : heldAs[id] # None}
    /\ ~resent => \A i \in DOMAIN toClient :
          toClient[i].type = "PUBCOMP"
          \/ (toClient[i].type = "PUBREC" /\ toClient[i].code = "error")
             => toClient[i].id \notin window
    /\ ~resent /\ ~overdrawn =>
          /\ window \subseteq PublishedIds(f)
          /\ \A i \in DOMAIN toBroker :
                toBroker[i].type = "PUBLISH" => toBroker[i].msg \in Published
    /\ session.connected /\ serving /\ ~overdrawn => inFlight <= session.limit
    /\ \A i \in DOMAIN toClient : toClient[i].type = "CONNACK" /\ ~overdrawn =>
          inFlight <= toClient[i].limit

CoreOK(f) ==
    IdsOK(f) /\ HeldOK(f) /\ DoneOK /\ ToBrokerOK(f) /\ ToClientOK(f)

DeliveryInv ==
    /\ FewMessages
    /\ \E f \in [Ops -> 0 .. lastId] :
           CoreOK(f) /\ LinkOK /\ Unique(f) /\ WindowOK(f)
=============================================================================
