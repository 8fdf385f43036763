---------------------------- MODULE SendDelivery ----------------------------
(***************************************************************************)
(* The publish engine (SendOps) against a broker that does what the MQTT     *)
(* specification asks of it and a network of two first-in first-out          *)
(* channels, emptied whenever the network connection is lost.  The broker is *)
(* not part of the repository: it answers every packet at once, keeps the    *)
(* order of answers of one kind but not across kinds (PUBACK, PUBREC,        *)
(* PUBCOMP), may refuse a message and may have lost the session.  The        *)
(* message of an operation is named by the operation.                        *)
(***************************************************************************)
EXTENDS SendOps, SequencesExt

VARIABLES
    msgQos,         \* QoS of every message, fixed from the start
    heldAs,         \* broker: the QoS 2 message it holds under a packet id, or 0
    stored,         \* broker: its session, "none", "zero" or "finite" expiry
    serving,        \* broker: it has answered the CONNECT
    window,         \* broker: QoS 2 packet ids of this connection not finished
    toBroker, toClient,
    delivered,      \* history: how often a message was handed over, 2 for more
                    \* (QoS 1: whether it was)
    completed,      \* history: operations that completed with success
    early,          \* history: QoS 2 messages the broker lost before the client
                    \* knew of their arrival
    resent,         \* history: the client repeated a packet on a connection
                    \* other than at its start
    overdrawn       \* history: on this connection the client gave up a message
                    \* in flight, or started with more than the Receive Maximum

brokerVars == <<heldAs, stored, serving, window, delivered, early>>
deliveryVars == <<vars, msgQos, brokerVars, toBroker, toClient, completed, resent,
                  overdrawn>>

None == 0

DeliveryInit ==
    /\ Init
    /\ msgQos \in [Ops -> Qoses]
    /\ heldAs = [id \in PacketIds |-> None]
    /\ stored = "none" /\ serving = FALSE /\ window = {}
    /\ toBroker = <<>> /\ toClient = <<>>
    /\ delivered = [m \in Ops |-> 0]
    /\ completed = {} /\ early = {}
    /\ resent = FALSE /\ overdrawn = FALSE

------------------------------------------------------------------------------
(* The broker. *)

ClientRests ==
    /\ Idle
    /\ out' = NoPacket
    /\ UNCHANGED <<op, fullOrdering, session_vars, locked, inFlight, id_vars, nulls,
                   call, fault, msgQos, completed>>

\* An answer overtakes answers of other kinds to other packets.
Answers(type, id, code) ==
    LET fixed == {i \in DOMAIN toClient :
                    toClient[i].type \in {type, "CONNACK"} \/ toClient[i].id = id}
        p == [type |-> type, id |-> id, code |-> code]
    IN  \E i \in Max({0} \cup fixed) .. Len(toClient) :
            toClient' = InsertAt(toClient, i + 1, p)

HandsOver(m) ==
    delivered' = [delivered EXCEPT ![m] = IF @ = 0 \/ msgQos[m] = 1 THEN 1 ELSE 2]

BrokerPublish(p) ==
    \/ \* refused
       /\ p.qos = 1 \/ heldAs[p.id] = None
       /\ Answers(IF p.qos = 1 THEN "PUBACK" ELSE "PUBREC", p.id, "error")
       /\ UNCHANGED <<heldAs, window, delivered>>
    \/ /\ p.qos = 1
       /\ HandsOver(p.msg)
       /\ Answers("PUBACK", p.id, "success")
       /\ UNCHANGED <<heldAs, window>>
    \/ /\ p.qos = 2
       /\ heldAs' = [heldAs EXCEPT ![p.id] = p.msg]
       /\ window' = window \cup {p.id}
       /\ IF heldAs[p.id] = None THEN HandsOver(p.msg) ELSE UNCHANGED delivered
       /\ Answers("PUBREC", p.id, "success")

BrokerPubrel(p) ==
    /\ heldAs' = [heldAs EXCEPT ![p.id] = None]
    /\ window' = window \ {p.id}
    /\ Answers("PUBCOMP", p.id, IF heldAs[p.id] = None THEN "error" ELSE "success")
    /\ UNCHANGED delivered

BrokerRecv ==
    LET p == Head(toBroker)
    IN  /\ toBroker # <<>> /\ p.type # "CONNECT"
        /\ toBroker' = Tail(toBroker)
        /\ IF p.type = "DISCONNECT" \/ ~serving
           THEN serving' = FALSE /\ UNCHANGED <<heldAs, window, delivered, toClient>>
           ELSE /\ \/ p.type = "PUBLISH" /\ BrokerPublish(p)
                   \/ p.type = "PUBREL" /\ BrokerPubrel(p)
                /\ UNCHANGED serving
        /\ ClientRests
        /\ UNCHANGED <<stored, early, resent, overdrawn>>

\* The answer to CONNECT; without a session to present the broker starts anew.
BrokerConnack(present, limit, expiry) ==
    /\ toBroker # <<>> /\ Head(toBroker).type = "CONNECT"
    /\ present => stored = "finite"
    /\ stored' = expiry
    /\ serving' = TRUE
    /\ heldAs' = IF present THEN heldAs ELSE [id \in PacketIds |-> None]
    /\ early' = early \cup {m \in Published : ~present /\ ~op[m].acked
                                /\ \E id \in PacketIds : heldAs[id] = m}
    /\ toBroker' = Tail(toBroker)
    /\ toClient' = <<[type |-> "CONNACK", present |-> present, limit |-> limit,
                      expiry |-> expiry, id |-> None]>>
    /\ overdrawn' = (Cardinality(Published) > limit)
    /\ ClientRests
    /\ UNCHANGED <<window, delivered, resent>>

------------------------------------------------------------------------------
(* The client.  Its packets enter the channel "before"; a PUBREL for an unknown *)
(* packet id carries the id it answers.                                         *)

Transmits(before, answered) ==
    LET o == out'.op
        id == IF o = 0 THEN answered ELSE op'[o].id
    IN  toBroker' = IF out'.type = "none" THEN before
                    ELSE Append(before, [type |-> out'.type, id |-> id, msg |-> o,
                                         qos |-> IF o = 0 THEN 0 ELSE msgQos[o]])

\* Operations that were in flight and leave the list with the step.
Dropped == {o \in Published : op'[o].st = "gone"}

ClientStep(acts) ==
    /\ fault = "none"
    /\ acts
    /\ Transmits(toBroker, None)
    /\ overdrawn' = (overdrawn \/ Dropped # {})
    /\ UNCHANGED <<msgQos, brokerVars, toClient, completed>>

\* What the broker's packets do to the client; "o" is what findSendOp() finds.
HandleAck(p, o) ==
    \/ p.type = "PUBACK" /\ Puback(o, TRUE)
    \/ p.type = "PUBREC" /\ Pubrec(o, IF p.code = "error" THEN "failure" ELSE "success")
    \/ p.type = "PUBCOMP" /\ Pubcomp(o, TRUE)

Ignored ==
    /\ out' = NoPacket
    /\ UNCHANGED <<op, fullOrdering, session_vars, locked, inFlight, id_vars, nulls,
                   call, fault>>

Found(p) == {o \in Paused \cup Published : op[o].id = p.id}

Handle(p) ==
    IF p.type = "CONNACK"
    THEN IF connecting THEN Connack(p.present, p.limit, p.expiry, FALSE) ELSE Ignored
    ELSE IF Found(p) # {} THEN \E o \in Found(p) : HandleAck(p, o)
    ELSE IF p.type = "PUBREC" THEN PubrecUnknown
    ELSE Ignored

ClientRecv ==
    LET p == Head(toClient)
    IN  /\ Idle /\ ~netDown
        /\ toClient # <<>>
        /\ Handle(p)
        /\ toClient' = Tail(toClient)
        /\ Transmits(toBroker, p.id)
        /\ completed' = completed \cup {o \in Dropped :
                           ~call'.closing /\ (p.type = "PUBCOMP" \/ p.code = "success")}
        /\ UNCHANGED <<msgQos, brokerVars, resent, overdrawn>>

\* The network connection is replaced or lost.
Severed ==
    /\ toClient' = <<>>
    /\ serving' = FALSE /\ window' = {}
    /\ resent' = FALSE /\ overdrawn' = FALSE
    /\ UNCHANGED <<msgQos, heldAs, stored, delivered, early, completed>>

ClientConnect ==
    /\ Connect
    /\ Transmits(<<>>, None)
    /\ Severed

NetworkLost ==
    /\ NetworkDisconnected
    /\ toBroker' = <<>>
    /\ Severed

\* Repeats the MQTT specification does not ask for.
ClientRepeats ==
    /\ ClientStep((\E o \in Ops : ResponseTimeout(o)) \/ SendTick \/ ResendNext)
    /\ resent' = (resent \/ out' # NoPacket)

ClientCall ==
    /\ ClientStep(CallStep /\ ~InLoop("resend"))
    /\ UNCHANGED resent

Application ==
    /\ ClientStep(\/ \E o \in Ops : \/ Prepare(o, msgQos[o])
                                    \/ Send(o)
                                    \/ SendDue(o)
                                    \/ Cancel(o)
                  \/ Disconnect(FALSE)
                  \/ ConnectFails
                  \/ SessionExpiryTimeout)
    /\ UNCHANGED resent

DeliveryNext ==
    \/ BrokerRecv
    \/ \E present \in SessionReplies, limit \in SendLimits, expiry \in Expiries :
          BrokerConnack(present, limit, expiry)
    \/ ClientRecv
    \/ ClientConnect
    \/ NetworkLost
    \/ ClientRepeats
    \/ ClientCall
    \/ Application

DeliverySpec == DeliveryInit /\ [][DeliveryNext]_deliveryVars

\* Packets on a connection that stays up are delivered and handled, and a call
\* of the library runs to its end.  No timer has to fire.
DeliveryFairSpec ==
    /\ DeliverySpec
    /\ WF_deliveryVars(BrokerRecv) /\ WF_deliveryVars(ClientRecv)
    /\ WF_deliveryVars(ClientCall \/ (InLoop("resend") /\ ClientRepeats))

------------------------------------------------------------------------------
(* Correctness. *)

\* Where the client, the sender, is with a message.
StageOf(m) ==
    IF op[m].st \in {"none", "prepared", "sending", "paused"} THEN "new"
    ELSE IF op[m].st = "published" THEN (IF op[m].acked THEN "released" ELSE "offered")
    ELSE IF m \in completed THEN "done" ELSE "failed"

Abstract == INSTANCE Delivery WITH
    Msgs  <- Ops,
    qos   <- msgQos,
    stage <- [m \in Ops |-> StageOf(m)],
    times <- delivered,
    held  <- {heldAs[id] : id \in PacketIds} \ {None}

\* The publish engine and a conforming broker implement the promise of module
\* Delivery: whatever is repeated by timeouts, by resendAllUntil() and after
\* reconnections, a QoS 2 message is not handed over again while the broker
\* remembers it, PUBREL follows only what has arrived, and an operation that
\* completes with success was handed over.
ImplementsDelivery == Abstract!Spec

\* The client ends the connection of a conforming broker with a protocol error
\* only after it repeated a packet on it: resends after a reconnection, answers
\* to operations that are gone and lost sessions never look like an error.
ConformingNotTerminated ==
    [][out'.type = "DISCONNECT" /\ call.closing => resent]_deliveryVars

\* The messages on their way to the broker or held by it stay within the Receive
\* Maximum it announced, counted the way the broker counts them, unless the
\* client repeated one, gave one up in flight or resumed a session with a smaller
\* maximum.
WithinBrokerWindow ==
    session.connected /\ serving /\ ~resent /\ ~overdrawn =>
        Cardinality(window \cup {toBroker[i].id : i \in
                        {j \in DOMAIN toBroker : toBroker[j].type = "PUBLISH"}})
            <= session.limit

\* Every operation ends on a connection that stays up, with nothing but the
\* answers of the broker: also the ones whose response timer is suspended.
Answered ==
    \A o \in Ops :
        (op[o].st \in {"paused", "published"} /\ session.connected /\ serving)
            ~> \/ op[o].st = "gone" \/ ~session.connected \/ ~serving
               \/ fault # "none"
==============================================================================
