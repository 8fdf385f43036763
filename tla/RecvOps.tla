------------------------------ MODULE RecvOps ------------------------------
(***************************************************************************)
(* The receive engine of the client: the list m_recvOps of ClientImpl and    *)
(* its RecvOp operations (client/lib/src/op/RecvOp.cpp and the handlers of   *)
(* PUBLISH and PUBREL in client/lib/src/ClientImpl.cpp).                     *)
(*                                                                           *)
(* A RecvOp outlives the call that created it only for QoS 2, until the      *)
(* PUBREL.  One that was created when the session was terminated stays in    *)
(* the list with the packet id 0.  The application may disconnect from       *)
(* within the callback that reports a message.                               *)
(***************************************************************************)
EXTENDS Integers, Sequences, FiniteSets, SequencesExt

CONSTANTS
    Ids,            \* packet ids of incoming messages
    RecvLimit,      \* m_highQosRecvLimit, 0 for none
    OpsLimit,       \* bound: RecvOps m_recvOpsAlloc has room for
    Topics,         \* topics messages are published to
    Subscribed,     \* topics some filter of m_subFilters matches
    MaxRecvAlias    \* m_maxRecvTopicAlias

NoTopic == 0        \* an empty topic
NoAlias == -1       \* the property is absent
Aliases == 1 .. MaxRecvAlias

ASSUME RecvOpsAssumption ==
    /\ Ids \subseteq Nat \ {0} /\ IsFiniteSet(Ids)
    /\ Topics \subseteq Nat \ {NoTopic} /\ Subscribed \subseteq Topics
    /\ MaxRecvAlias \in Nat
    /\ RecvLimit \in Nat
    /\ OpsLimit \in Nat \ {0}

VARIABLES
    recvOps,        \* m_recvOps: packet id and response timer of each
    link,           \* the network connection and the session on it
    expiry,         \* m_sessionExpiryIntervalMs: "zero" or "finite"
    requested,      \* m_connectSessionExpiryInterval is not zero
    expiryTimer,    \* m_sessionExpiryTimer is active
    recvAliases,    \* m_recvTopicAliases
    recvFault,      \* undefined behaviour the program ran into
    reported,       \* the message reported by the step and its topic
    out             \* the packets transmitted by the step

recvVars == <<recvOps, link, expiry, requested, expiryTimer, recvAliases, recvFault,
              reported, out>>

NoMsg == 0
NoReport == [msg |-> NoMsg, topic |-> NoTopic]
NoRecvAliases == [a \in Aliases |-> NoTopic]
RecvOp(id, timer) == [id |-> id, timer |-> timer, suspended |-> FALSE]

\* link: "down" is m_networkDisconnected, "closing" is m_disconnecting on a
\* network that still delivers, "connecting" a new session waiting for CONNACK,
\* "refused" one whose ConnectOp has ended without it.
Links == {"down", "closing", "connecting", "refused", "up"}

RecvInit ==
    /\ recvOps = <<>>
    /\ link = "down"
    /\ expiry = "zero" /\ requested = FALSE
    /\ expiryTimer = FALSE
    /\ recvAliases = NoRecvAliases
    /\ recvFault = "none"
    /\ reported = NoReport
    /\ out = <<>>

\* interval: the session expiry a DISCONNECT carries, "same" for none.
Packet(type, id, code) ==
    [type |-> type, id |-> id, code |-> code, interval |-> "same"]

\* Mutant: a duplicate is not looked up.
NeverKnown(id) == FALSE

\* std::find_if over m_recvOps.
Known(id) == \E i \in DOMAIN recvOps : recvOps[i].id = id
Index(id) == CHOOSE i \in DOMAIN recvOps :
                recvOps[i].id = id /\ \A j \in 1 .. i - 1 : recvOps[j].id # id

------------------------------------------------------------------------------
\* connectivityChanged(): Timer::setSuspended() does nothing to a timer that is
\* not active.
Suspended(ops) ==
    [i \in DOMAIN ops |->
        [ops[i] EXCEPT !.suspended = ops[i].timer \/ ops[i].suspended]]

\* brokerDisconnected() with "ops" in m_recvOps: they are kept with their timers
\* suspended when the session outlives the connection, otherwise terminated.
BrokerDisconnected(ops) ==
    IF expiry # "zero" /\ ops # <<>>
    THEN /\ recvOps' = Suspended(ops)
         /\ expiryTimer' = TRUE
    ELSE /\ recvOps' = <<>>
         /\ UNCHANGED expiryTimer

\* terminationWithReason(): DISCONNECT, then brokerDisconnected().
Termination(ops) ==
    /\ out' = <<Packet("DISCONNECT", 0, "error")>>
    /\ link' = "closing"
    /\ reported' = NoReport
    /\ BrokerDisconnected(ops)
    /\ UNCHANGED <<expiry, requested, recvAliases, recvFault>>

AckType(qos) == IF qos = 1 THEN "PUBACK" ELSE "PUBREC"

\* What answers the message: nothing for QoS 0.
Ack(m, code) ==
    IF m.qos = 0 THEN <<>> ELSE <<Packet(AckType(m.qos), m.id, code)>>

\* completeNotAuthorized()
NotAuthorized(m) ==
    /\ out' = Ack(m, "error")
    /\ reported' = NoReport
    /\ UNCHANGED <<recvOps, link, expiry, requested, expiryTimer, recvFault>>

\* A QoS 2 message whose packet id is in the list: PUBREC again, whatever else
\* it carries.  resetTimer() of a duplicate cancels the response timer.
Reconfirm(m) ==
    /\ recvOps' = IF m.dup THEN [recvOps EXCEPT ![Index(m.id)].timer = FALSE]
                           ELSE recvOps
    /\ out' = <<Packet("PUBREC", m.id, IF m.dup THEN "success" ELSE "error")>>
    /\ reported' = NoReport
    /\ UNCHANGED <<link, expiry, requested, expiryTimer, recvAliases, recvFault>>

aliasInvalid(m) ==
    m.alias # NoAlias /\ (m.alias = 0 \/ MaxRecvAlias < m.alias)

topicUnknown(m) ==
    /\ m.topic = NoTopic
    /\ m.alias = NoAlias \/ recvAliases[m.alias] = NoTopic

\* Mutant: the table goes before the topic the message carries.
topicOfTable(m) == IF m.alias # NoAlias /\ recvAliases[m.alias] # NoTopic
                   THEN recvAliases[m.alias] ELSE m.topic

topicOf(m) == IF m.topic # NoTopic THEN m.topic ELSE recvAliases[m.alias]

\* A message with both topic and alias (re)defines the alias.
learnt(m) ==
    IF m.topic # NoTopic /\ m.alias # NoAlias
    THEN [recvAliases EXCEPT ![m.alias] = m.topic]
    ELSE recvAliases

\* The acknowledgement after reportMsgInfo().
Acknowledge(m) ==
    /\ out' = Ack(m, "success")
    /\ recvOps' = IF m.qos = 2 THEN Append(recvOps, RecvOp(m.id, TRUE))
                               ELSE recvOps
    /\ UNCHANGED <<link, expiryTimer, recvFault>>

\* The application disconnects while reportMsgInfo() runs.  A session that is
\* not kept destroys the RecvOp that goes on afterwards.  In a kept one the
\* acknowledgement follows the DISCONNECT, and the response timer starts after
\* the others were suspended.
LeaveInCallback(m) ==
    /\ link' = "closing"
    /\ IF expiry = "zero"
       THEN /\ recvFault' = "freed operation"
            /\ recvOps' = <<>>
            /\ out' = <<Packet("DISCONNECT", 0, "success")>>
            /\ UNCHANGED expiryTimer
       ELSE /\ recvOps' = Suspended(recvOps)
                            \o (IF m.qos = 2 THEN <<RecvOp(m.id, TRUE)>> ELSE <<>>)
            /\ expiryTimer' = TRUE
            /\ out' = <<Packet("DISCONNECT", 0, "success")>> \o Ack(m, "success")
            /\ UNCHANGED recvFault

Accept(m, leaves) ==
    /\ reported' = [msg |-> m.msg, topic |-> topicOf(m)]
    /\ IF leaves THEN LeaveInCallback(m) ELSE Acknowledge(m)
    /\ UNCHANGED <<expiry, requested>>

\* Mutant: one operation more than there is storage for.
storageOverrun == Len(recvOps) > OpsLimit

\* m_recvOpsAlloc.alloc() fails.
noStorage == Len(recvOps) >= OpsLimit

\* Mutant: the limit itself is taken for an excess.
tooManyIfEqual(m) ==
    link = "up" /\ m.qos > 0 /\ RecvLimit > 0 /\ RecvLimit <= Len(recvOps) + 1

\* Mutant: the operation that handles the message is not counted.
tooManyUncounted(m) ==
    link = "up" /\ m.qos > 0 /\ RecvLimit > 0 /\ RecvLimit < Len(recvOps)

\* m_highQosRecvLimit is 0 until the CONNACK.
tooMany(m) ==
    link = "up" /\ m.qos > 0 /\ RecvLimit > 0 /\ RecvLimit < Len(recvOps) + 1

\* handle(PublishMsg&).  m.verdict: "bad QoS", or "malformed" for every violation
\* found once the session is known to be connected.  "leaves": the application
\* disconnects when the message is reported to it.
HandlePublish(m, leaves) ==
    LET refusing == Append(recvOps, RecvOp(0, FALSE))
    IN  /\ link \in {"connecting", "refused", "up"}
        /\ IF m.qos = 2 /\ Known(m.id) THEN Reconfirm(m)
           ELSE IF noStorage THEN Termination(recvOps)
           ELSE IF m.verdict = "bad QoS" \/ tooMany(m) THEN Termination(refusing)
           ELSE IF link # "up" THEN NotAuthorized(m) /\ UNCHANGED recvAliases
           ELSE IF m.verdict = "malformed" \/ aliasInvalid(m) \/ topicUnknown(m)
           THEN Termination(refusing)
           ELSE /\ recvAliases' = learnt(m)
                /\ IF topicOf(m) \in Subscribed THEN Accept(m, leaves)
                                                ELSE NotAuthorized(m)

Ignored ==
    /\ reported' = NoReport /\ out' = <<>>
    /\ UNCHANGED <<recvOps, link, expiry, requested, expiryTimer, recvAliases,
                   recvFault>>

\* A PUBLISH that arrives after the session was closed is ignored.
IgnorePublish == link = "closing" /\ Ignored

\* So is a CONNACK no ConnectOp waits for any more.
IgnoreConnack == link = "refused" /\ Ignored

\* Mutant: an unknown packet id is not answered.
pubrelUnknownIgnored(id) == out' = <<>>

pubrelUnknown(id) == out' = <<Packet("PUBCOMP", id, "error")>>

\* handle(PubrelMsg&).  code: "success", "error", or "refused" properties.
HandlePubrel(id, code) ==
    /\ link # "down"
    /\ IF ~Known(id)
       THEN /\ pubrelUnknown(id)
            /\ reported' = NoReport
            /\ UNCHANGED <<recvOps, link, expiry, requested, expiryTimer,
                           recvAliases, recvFault>>
       ELSE IF code = "refused"
       THEN Termination([recvOps EXCEPT ![Index(id)].timer = FALSE])
       ELSE /\ recvOps' = RemoveAt(recvOps, Index(id))
            /\ out' = IF code = "success" THEN <<Packet("PUBCOMP", id, "success")>>
                                          ELSE <<>>
            /\ reported' = NoReport
            /\ UNCHANGED <<link, expiry, requested, expiryTimer, recvAliases,
                           recvFault>>

------------------------------------------------------------------------------
(* Timers, the application and the network. *)

Silent == out' = <<>> /\ reported' = NoReport

\* responseTimeoutInternal(): no PUBREL in time, the reception is given up.
ResponseTimeout(i) ==
    /\ i \in DOMAIN recvOps
    /\ recvOps[i].timer /\ ~recvOps[i].suspended
    /\ recvOps' = RemoveAt(recvOps, i)
    /\ Silent
    /\ UNCHANGED <<link, expiry, requested, expiryTimer, recvAliases, recvFault>>

\* sessionExpiryTimeoutInternal()
SessionExpiryTimeout ==
    /\ expiryTimer
    /\ expiryTimer' = FALSE
    /\ recvOps' = <<>>
    /\ Silent
    /\ UNCHANGED <<link, expiry, requested, recvAliases, recvFault>>

\* connectPrepare() with initInternal(), and the CONNECT packet.
Connect ==
    /\ link \in {"down", "closing", "refused"}
    /\ link' = "connecting"
    /\ expiry' = "zero" /\ requested' = FALSE
    /\ recvAliases' = NoRecvAliases
    /\ out' = <<Packet("CONNECT", 0, "success")>>
    /\ reported' = NoReport
    /\ UNCHANGED <<recvOps, expiryTimer, recvFault>>

\* The ConnectOp ends without a connection: timeout or a CONNACK with an error.
ConnectFails ==
    /\ link = "connecting"
    /\ link' = "refused"
    /\ Silent
    /\ UNCHANGED <<recvOps, expiry, requested, expiryTimer, recvAliases, recvFault>>

\* postReconnectionResume(): the timer is resumed if active, then restarted.
Resumed(o) == [o EXCEPT !.suspended = o.suspended /\ ~o.timer, !.timer = TRUE]

\* The CONNACK and brokerConnected().  "asked" is the interval of the CONNECT.
Connack(present, interval, asked) ==
    /\ link = "connecting"
    /\ link' = "up"
    /\ expiry' = interval /\ requested' = asked
    /\ expiryTimer' = FALSE
    /\ recvOps' = IF present THEN [i \in DOMAIN recvOps |-> Resumed(recvOps[i])]
                             ELSE <<>>
    /\ Silent
    /\ UNCHANGED <<recvAliases, recvFault>>

\* DisconnectOp::send().  The packet may carry a new interval, which the client
\* itself does not take over.
Disconnect(interval) ==
    /\ link = "up"
    /\ interval = "finite" => requested
    /\ link' = "closing"
    /\ BrokerDisconnected(recvOps)
    /\ out' = <<[Packet("DISCONNECT", 0, "success") EXCEPT !.interval = interval]>>
    /\ reported' = NoReport
    /\ UNCHANGED <<expiry, requested, recvAliases, recvFault>>

\* A DISCONNECT from the broker.
DisconnectReceived ==
    /\ link = "up"
    /\ link' = "closing"
    /\ BrokerDisconnected(recvOps)
    /\ Silent
    /\ UNCHANGED <<expiry, requested, recvAliases, recvFault>>

\* notifyNetworkDisconnected()
NetworkDisconnected ==
    /\ link # "down"
    /\ link' = "down"
    /\ IF link = "closing" THEN UNCHANGED <<recvOps, expiryTimer>>
                           ELSE BrokerDisconnected(recvOps)
    /\ Silent
    /\ UNCHANGED <<expiry, requested, recvAliases, recvFault>>

------------------------------------------------------------------------------
(* The client against a broker that sends anything. *)

\* The inputs that can be told apart: QoS 1 and 2 with a topic, every use of
\* topic and alias, every violation.
Incoming ==
    [id : Ids, qos : {1, 2}, dup : BOOLEAN, msg : {1}, topic : Topics,
     alias : {NoAlias}, verdict : {"ok"}]
    \cup
    [id : {0}, qos : {0}, dup : {FALSE}, msg : {1}, topic : Topics \cup {NoTopic},
     alias : NoAlias .. MaxRecvAlias + 1, verdict : {"ok"}]
    \cup
    [id : Ids, qos : 0 .. 2, dup : {FALSE}, msg : {1}, topic : {NoTopic},
     alias : {NoAlias}, verdict : {"bad QoS", "malformed"}]
Intervals == {"zero", "finite"}

Next ==
    /\ recvFault = "none"
    /\ \/ \E m \in Incoming, leaves \in BOOLEAN : HandlePublish(m, leaves)
       \/ IgnorePublish
       \/ IgnoreConnack
       \/ \E id \in Ids, code \in {"success", "error", "refused"} :
             HandlePubrel(id, code)
       \/ \E i \in 1 .. OpsLimit : ResponseTimeout(i)
       \/ SessionExpiryTimeout
       \/ Connect
       \/ ConnectFails
       \/ \E present \in BOOLEAN, interval \in Intervals, asked \in BOOLEAN :
             Connack(present, interval, asked)
       \/ \E interval \in Intervals \cup {"same"} : Disconnect(interval)
       \/ DisconnectReceived
       \/ NetworkDisconnected

Spec == RecvInit /\ [][Next]_recvVars

------------------------------------------------------------------------------
(* Correctness. *)

\* The variables keep their types and the list stays within its storage.
RecvTypeOK ==
    /\ recvOps \in Seq([id : Ids \cup {0}, timer : BOOLEAN, suspended : BOOLEAN])
    /\ Len(recvOps) <= OpsLimit
    /\ link \in Links
    /\ expiry \in Intervals /\ requested \in BOOLEAN /\ expiryTimer \in BOOLEAN
    /\ recvAliases \in [Aliases -> Topics \cup {NoTopic}]
    /\ recvFault \in {"none", "freed operation"}
    /\ reported \in [msg : Nat, topic : Topics \cup {NoTopic}]
    /\ out \in Seq([type : {"CONNECT", "DISCONNECT", "PUBACK", "PUBREC", "PUBCOMP"},
                    id : Ids \cup {0}, code : {"success", "error"},
                    interval : Intervals \cup {"same"}])

\* Whatever a broker sends, two receptions never share a packet id: a PUBREL
\* finds the one reception it is about, in this session or a resumed one.
OneOpPerId ==
    \A i, j \in DOMAIN recvOps :
        recvOps[i].id = recvOps[j].id /\ recvOps[i].id # 0 => i = j

\* Whatever a broker sends, no more messages are in reception than the Receive
\* Maximum of the client, the ones of a resumed session included.
ReceiveLimitKept ==
    RecvLimit > 0 =>
        Cardinality({i \in DOMAIN recvOps : recvOps[i].id # 0}) <= RecvLimit
==============================================================================
