------------------------------- MODULE SendOps -------------------------------
(***************************************************************************)
(* The publish engine of the client: the list m_sendOps of ClientImpl, the   *)
(* SendOp operations in it and the session events that move them             *)
(* (client/lib/src/ClientImpl.cpp, client/lib/src/op/SendOp.cpp).            *)
(*                                                                           *)
(* Operations are numbered in the order publishPrepare() creates them, which *)
(* is also their order in m_sendOps and m_ops, so both lists are functions   *)
(* of the number.  A call of the library runs as a sequence of steps, each   *)
(* transmitting at most one packet; the library is single threaded, so no    *)
(* other call starts before Idle, except from within a completion callback,  *)
(* where the application may publish.                                        *)
(***************************************************************************)
EXTENDS PacketIdOps

CONSTANTS
    MaxOps,             \* bound: "publish" operations prepared in a run
    MaxAttempts,        \* m_totalSendAttempts
    Qoses,              \* QoS values the application publishes with
    Orderings,          \* publish orderings the application sets: Full (TRUE)
                        \* or SameQos (FALSE)
    SendLimits,         \* Receive Maximum values brokers announce
    Expiries,           \* session expiry intervals: "zero" or "finite"
    SessionReplies,     \* Session Present values brokers answer with
    Oversize,           \* operations above the smaller maximum packet size
    NoCallback,         \* operations sent with a NULL completion callback
    SendsLate,          \* the application sends after a disconnection what it
                        \* prepared before it
    CallbacksPublish,   \* completion callbacks publish
    TicksInSend         \* timers may be due when the application calls send()

Ops == 1 .. MaxOps

ASSUME SendOpsAssumption ==
    /\ MaxOps \in Nat \ {0} /\ MaxAttempts \in Nat \ {0}
    /\ Qoses \subseteq 0 .. 2
    /\ Orderings \subseteq BOOLEAN /\ SendsLate \in BOOLEAN
    /\ CallbacksPublish \in BOOLEAN /\ TicksInSend \in BOOLEAN
    /\ SendLimits \subseteq Nat \ {0}
    /\ Expiries \subseteq {"zero", "finite"}
    /\ SessionReplies \subseteq BOOLEAN
    /\ Oversize \subseteq Ops /\ NoCallback \subseteq Ops

VARIABLES
    op,             \* the SendOp objects, see Op below
    fullOrdering,   \* ConfigState::m_publishOrdering is Full, not SameQos
    session,        \* SessionState: the fields the publish engine reads
    initialized,    \* ClientState::m_initialized
    netDown,        \* ClientState::m_networkDisconnected
    connecting,     \* a ConnectOp waits for its CONNACK
    expiryTimer,    \* m_sessionExpiryTimer is active
    locked,         \* m_preparationLocked
    inFlight,       \* ClientState::m_inFlightSends
    allocated,      \* ClientState::m_allocatedPacketIds
    lastId,         \* ClientState::m_lastPacketId
    nulls,          \* operations whose entry in m_ops is nullptr
    call,           \* what is left to do of the library call in progress
    fault,          \* undefined behaviour the program ran into
    out             \* the packet transmitted by the step

session_vars == <<session, initialized, netDown, connecting, expiryTimer>>
id_vars == <<allocated, lastId>>
vars == <<op, fullOrdering, session_vars, locked, inFlight, id_vars, nulls, call,
          fault, out>>

\* "sending": send() has checked canSend() and has not transmitted yet.
Op == [st : {"none", "prepared", "sending", "paused", "published", "gone"},
       qos : 0 .. 2, id : PacketIds, acked : BOOLEAN,
       attempts : 0 .. MaxAttempts, timer : BOOLEAN, suspended : BOOLEAN]

OpIn(st) == [st |-> st, qos |-> 0, id |-> 0, acked |-> FALSE,
             attempts |-> 0, timer |-> FALSE, suspended |-> FALSE]

\* SessionState(): what (re)initialisation and a refusal reset it to.
NewSession == [connected |-> FALSE, disconnecting |-> FALSE, limit |-> 0,
               expiry |-> "zero", smallPackets |-> FALSE]

NoPacket == [type |-> "none", op |-> 0, dup |-> FALSE]
Packet(type, o, dup) == [type |-> type, op |-> o, dup |-> dup]

(***************************************************************************)
(* The call in progress.  resume is the operation resumeSendOpsSince() is    *)
(* about to look at (0: not running), loop one of the loops over the         *)
(* operations with at its position and upto its last one, closing a pending  *)
(* terminationWithReason(), guarded an apiEnter() guard on the stack, cbs    *)
(* the completion callbacks to run once resumeSendOpsSince() has returned,   *)
(* sending the operation whose send() is in its apiEnter() (0: none).        *)
(***************************************************************************)
NoCall == [guarded |-> FALSE, loop |-> "none", at |-> 0, upto |-> 0,
           resume |-> 0, closing |-> FALSE, cbs |-> 0, sending |-> 0]
Guarded == [NoCall EXCEPT !.guarded = TRUE]

Idle == call = NoCall /\ fault = "none"
InCallback == call.resume = 0 /\ call.cbs > 0

\* The application may publish: between two calls or in a callback of one.
AppTurn == fault = "none" /\ (call = NoCall \/ InCallback)

Live == {o \in Ops : op[o].st \in {"prepared", "sending", "paused", "published"}}
Created == {o \in Ops : op[o].st # "none"}
Paused == {o \in Ops : op[o].st = "paused"}
Published == {o \in Ops : op[o].st = "published"}

Init ==
    /\ op = [o \in Ops |-> OpIn("none")]
    /\ fullOrdering = FALSE
    /\ session = NewSession
    /\ initialized = FALSE /\ netDown = FALSE
    /\ connecting = FALSE /\ expiryTimer = FALSE
    /\ locked = FALSE
    /\ inFlight = 0
    /\ allocated = {} /\ lastId = 0
    /\ nulls = {}
    /\ call = NoCall
    /\ fault = "none"
    /\ out = NoPacket

------------------------------------------------------------------------------
(* Reading the list of operations. *)

hasPausedSendsBefore(o) ==
    \E p \in Paused : p < o /\ \A q \in Live : ~(p < q /\ q < o)

hasHigherQosSendsBefore(o) ==
    \E p \in Live : p < o /\ op[p].qos > op[o].qos

\* Mutant: the limit is compared with < instead of <=.
canSendOneMore(o) ==
    IF session.limit < inFlight
    THEN op[o].qos = 0 /\ ~fullOrdering
    ELSE fullOrdering => ~hasPausedSendsBefore(o) /\ ~hasHigherQosSendsBefore(o)

\* Mutant: Full ordering looks at the previous operation only.
canSendPausedOnly(o) ==
    IF session.limit <= inFlight
    THEN op[o].qos = 0 /\ ~fullOrdering
    ELSE fullOrdering => ~hasPausedSendsBefore(o)

canSend(o) ==
    IF session.limit <= inFlight
    THEN op[o].qos = 0 /\ ~fullOrdering
    ELSE fullOrdering => ~hasPausedSendsBefore(o) /\ ~hasHigherQosSendsBefore(o)

\* sendMessage() refuses a packet above the broker's maximum packet size.
fits(o) == ~(session.smallPackets /\ o \in Oversize)

isLegitSendAck(o, pubcomp) ==
    /\ op[o].st = "published"
    /\ \A p \in Live : p < o => op[p].acked /\ ~pubcomp

\* Mutant: one attempt too many.
attemptsExceeded(o) == MaxAttempts < op[o].attempts

attemptsExhausted(o) == MaxAttempts <= op[o].attempts

\* Mutant: m_acked is not looked at.
resendsAlways(o) == TRUE

\* What is resent: the PUBLISH until its PUBREC arrived, then the PUBREL.
resendsPublish(o) == ~op[o].acked

DupPacket(o) == IF resendsPublish(o) THEN Packet("PUBLISH", o, TRUE)
                                     ELSE Packet("PUBREL", o, FALSE)

------------------------------------------------------------------------------
(* Completing operations. *)

\* Mutant: the slot is given back by operations that never took it.
ErasedUncounted(o) ==
    /\ op' = [op EXCEPT ![o] = OpIn("gone")]
    /\ inFlight' = inFlight - 1
    /\ allocated' = ReleasePacketId(allocated, op[o].id)

\* Mutant: the destructor keeps the packet id of an acknowledged operation.
ErasedKeepingId(o) ==
    /\ op' = [op EXCEPT ![o] = OpIn("gone")]
    /\ inFlight' = IF op[o].st = "published" THEN inFlight - 1 ELSE inFlight
    /\ allocated' = IF op[o].acked THEN allocated
                                   ELSE ReleasePacketId(allocated, op[o].id)

\* opCompleteInternal(), opComplete() and the destructor of SendOp: the entry
\* in m_ops is nullified, the slot and the packet id are given back.
Erased(o) ==
    /\ op' = [op EXCEPT ![o] = OpIn("gone")]
    /\ inFlight' = IF op[o].st = "published" THEN inFlight - 1 ELSE inFlight
    /\ allocated' = ReleasePacketId(allocated, op[o].id)

\* Mutant: nothing is resumed.
ResumingNothing(o, from) == from

\* opComplete_Send(): the operations after the erased one are resumed unless
\* the session is being closed.  "from" is the call to return to.
Resuming(o, from) ==
    [from EXCEPT !.resume = IF session.disconnecting THEN 0 ELSE o]

\* The operation o leaves the list in the middle of the call "from".
Complete(o, from) ==
    /\ Erased(o)
    /\ nulls' = nulls \cup {o}
    /\ call' = Resuming(o, from)

\* A callback, unless none was given to send().
Reported(o, from) ==
    IF CallbacksPublish /\ o \notin NoCallback THEN [from EXCEPT !.cbs = @ + 1]
                                              ELSE from

\* completeWithCb(): m_cb is nullptr until send().
CompleteWithCb(o, from) ==
    Complete(o, IF op[o].st = "prepared" THEN from ELSE Reported(o, from))

\* resendDupMsg(): the PUBLISH again with DUP, the PUBREL once acknowledged,
\* or the end of the operation when its attempts are used up.
ResendDupMsg(o, from) ==
    IF attemptsExhausted(o) \/ (resendsPublish(o) /\ ~fits(o))
    THEN CompleteWithCb(o, from) /\ out' = NoPacket
    ELSE /\ op' = [op EXCEPT ![o].attempts = @ + 1, ![o].timer = TRUE]
         /\ out' = DupPacket(o)
         /\ call' = from
         /\ UNCHANGED <<inFlight, allocated, nulls>>

\* doSendInternal(): transmits; a QoS 0 operation is complete at once.
DoSend(o, from) ==
    IF ~fits(o)
    THEN CompleteWithCb(o, from) /\ out' = NoPacket
    ELSE /\ out' = Packet("PUBLISH", o, FALSE)
         /\ IF op[o].qos = 0
            THEN CompleteWithCb(o, from)
            ELSE /\ op' = [op EXCEPT ![o].st = "published",
                                     ![o].attempts = 1, ![o].timer = TRUE]
                 /\ inFlight' = inFlight + 1
                 /\ call' = from
                 /\ UNCHANGED <<allocated, nulls>>

\* brokerDisconnected(): the session is closed; the operations are kept with
\* their timers suspended when the session outlives the connection, otherwise
\* they are all terminated.  The expiry timer always runs for a kept session: no
\* interval is stored as NeverExpires (module SessionExpiry).
BrokerDisconnected ==
    LET preserve == session.expiry # "zero" /\ Live # {}
    IN  /\ session' = [session EXCEPT !.connected = FALSE,
                                      !.disconnecting = TRUE]
        /\ initialized' = FALSE
        /\ connecting' = FALSE
        /\ IF preserve
           THEN /\ op' = [o \in Ops |-> [op[o] EXCEPT
                            !.suspended = op[o].timer \/ op[o].suspended]]
                /\ expiryTimer' = TRUE
                /\ UNCHANGED <<inFlight, allocated, nulls>>
           ELSE /\ op' = [o \in Ops |->
                            IF o \in Live THEN OpIn("gone") ELSE op[o]]
                /\ inFlight' = inFlight - Cardinality(Published)
                /\ allocated' = ReleasePacketIds(allocated,
                                                 {op[o].id : o \in Live})
                /\ nulls' = nulls \cup Live
                /\ UNCHANGED expiryTimer

------------------------------------------------------------------------------
(* The application's calls. *)

\* setPublishOrdering(); the application calls it when nothing is being published.
setPublishOrdering(full) ==
    /\ Idle
    /\ Live = {} /\ full # fullOrdering
    /\ fullOrdering' = full
    /\ out' = NoPacket
    /\ UNCHANGED <<op, session_vars, locked, inFlight, id_vars, nulls, call, fault>>

\* publishPrepare() and the configuration of the new operation.  In a callback
\* of one of the loops over the operations, the new entry may move the storage
\* of m_ops and m_sendOps away from what the loop still refers to.
Prepare(o, q) ==
    /\ AppTurn
    /\ op[o].st = "none" /\ \A p \in Ops : p < o => op[p].st # "none"
    /\ session.connected /\ ~session.disconnecting /\ ~netDown
    /\ ~locked
    /\ op' = [op EXCEPT ![o] = [OpIn("prepared") EXCEPT !.qos = q]]
    /\ locked' = TRUE
    /\ fault' \in {"none"} \cup {f \in {"invalid iterator"} :
                                    call.loop \in {"resend", "abort"}}
    /\ out' = NoPacket
    /\ UNCHANGED <<session_vars, inFlight, id_vars, fullOrdering, nulls, call>>

\* The packet id of a publish.
SendId(o) == IF op[o].qos = 0 THEN [id |-> 0, used |-> allocated, last |-> lastId]
                             ELSE AllocPacketId(allocated, lastId)

\* SendOp::send() when no timer is due: a packet id, then either paused or
\* transmitted.  A failure to transmit completes the operation after its guard is
\* gone.
Send(o) ==
    LET id == SendId(o)
        sent == [op EXCEPT ![o].id = id.id]
        entered == IF call = NoCall THEN Guarded ELSE call
    IN  /\ AppTurn
        /\ op[o].st = "prepared"
        /\ SendsLate \/ session.connected
        /\ locked' = FALSE
        /\ lastId' = id.last
        /\ IF ~canSend(o)
           THEN /\ op' = [sent EXCEPT ![o].st = "paused"]
                /\ allocated' = id.used
                /\ out' = NoPacket
                /\ UNCHANGED <<inFlight, nulls, call>>
           ELSE IF ~fits(o)
           THEN /\ op' = [op EXCEPT ![o] = OpIn("gone")]
                /\ allocated' = ReleasePacketId(id.used, id.id)
                /\ nulls' = IF call = NoCall THEN {o} ELSE nulls \cup {o}
                /\ call' = Resuming(o, call)
                /\ out' = NoPacket
                /\ UNCHANGED inFlight
           ELSE /\ out' = Packet("PUBLISH", o, FALSE)
                /\ allocated' = id.used
                /\ IF op[o].qos = 0
                   THEN /\ op' = [op EXCEPT ![o] = OpIn("gone")]
                        /\ nulls' = nulls \cup {o}
                        /\ call' = Resuming(o, Reported(o, entered))
                        /\ UNCHANGED inFlight
                   ELSE /\ op' = [sent EXCEPT ![o].st = "published",
                                              ![o].attempts = 1,
                                              ![o].timer = TRUE]
                        /\ inFlight' = inFlight + 1
                        /\ call' = entered
                        /\ UNCHANGED nulls
        /\ UNCHANGED <<session_vars, fullOrdering, fault>>

\* The same up to canSend(), when the apiEnter() that follows it finds timers due:
\* see SendTick.
SendDue(o) ==
    LET id == SendId(o)
    IN  /\ Idle /\ TicksInSend
        /\ op[o].st = "prepared"
        /\ SendsLate \/ session.connected
        /\ canSend(o)
        /\ locked' = FALSE
        /\ lastId' = id.last
        /\ op' = [op EXCEPT ![o].st = "sending", ![o].id = id.id]
        /\ allocated' = id.used
        /\ call' = [Guarded EXCEPT !.sending = o]
        /\ out' = NoPacket
        /\ UNCHANGED <<session_vars, inFlight, fullOrdering, nulls, fault>>

\* m_cb == nullptr is taken for an operation that was not sent yet.
cancelUnlocks(o) == op[o].st = "prepared" \/ o \in NoCallback

\* SendOp::cancel(): no apiEnter() guard, so the nullified entry stays.
Cancel(o) ==
    /\ Idle
    /\ o \in Live
    /\ Complete(o, NoCall)
    /\ locked' = (locked /\ ~cancelUnlocks(o))
    /\ out' = NoPacket
    /\ UNCHANGED <<session_vars, lastId, fullOrdering, fault>>

\* connectPrepare() and ConnectOp::send().  initInternal() runs before the
\* checks that may still refuse the operation.
ConnectPrepare ==
    /\ netDown' = FALSE
    /\ initialized' = TRUE
    /\ session' = IF initialized THEN session ELSE NewSession

Connect ==
    /\ Idle
    /\ ~connecting
    /\ initialized => ~session.disconnecting /\ ~session.connected
    /\ ConnectPrepare
    /\ IF locked
       THEN /\ out' = NoPacket
            /\ UNCHANGED connecting
       ELSE /\ out' = Packet("CONNECT", 0, FALSE)
            /\ connecting' = TRUE
    /\ nulls' = {}
    /\ UNCHANGED <<op, locked, inFlight, id_vars, fullOrdering, expiryTimer, call,
                   fault>>

\* The ConnectOp ends without a connection: its timeout, or a CONNACK with an
\* error code, which leave the session reset.
ConnectFails ==
    /\ Idle
    /\ connecting
    /\ connecting' = FALSE
    /\ session' = NewSession
    /\ out' = NoPacket
    /\ call' = Guarded
    /\ UNCHANGED <<op, initialized, netDown, expiryTimer, locked, inFlight,
                   id_vars, fullOrdering, nulls, fault>>

\* DisconnectOp::send(), a KeepAliveOp giving up on the broker, or a DISCONNECT
\* from the broker (byBroker).
Disconnect(byBroker) ==
    /\ Idle
    /\ session.connected
    /\ BrokerDisconnected
    /\ out' = IF byBroker THEN NoPacket ELSE Packet("DISCONNECT", 0, FALSE)
    /\ call' = Guarded
    /\ UNCHANGED <<netDown, locked, lastId, fullOrdering, fault>>

\* notifyNetworkDisconnected()
NetworkDisconnected ==
    /\ Idle
    /\ ~netDown
    /\ initialized \/ session.disconnecting
    /\ netDown' = TRUE
    /\ IF session.disconnecting
       THEN UNCHANGED <<op, session, initialized, connecting, expiryTimer,
                        inFlight, allocated, nulls>>
       ELSE BrokerDisconnected
    /\ out' = NoPacket
    /\ call' = Guarded
    /\ UNCHANGED <<locked, lastId, fullOrdering, fault>>

------------------------------------------------------------------------------
(* Packets from the broker and timers. *)

\* processData() hands acknowledgements over as long as the network is up, and
\* processPublishAckMsg() looks at no state of the session.
Receiving == Idle /\ ~netDown

\* findSendOp() finds operations that have their packet id: a duplicate of an
\* earlier acknowledgement may name one that waits to be transmitted.
Acknowledged(o) == Receiving /\ o \in Paused \cup Published

\* terminateOnExit and completeOpOnExit of the three handlers below: the
\* operation completes with ProtocolError, then the session is terminated.
ProtocolError(o) ==
    /\ CompleteWithCb(o, [Guarded EXCEPT !.closing = TRUE])
    /\ out' = NoPacket

\* An acknowledgement out of order: resendAllUntil() the operation.
ResendAllUntil(o) ==
    /\ call' = [Guarded EXCEPT !.loop = "resend", !.at = 1, !.upto = o]
    /\ out' = NoPacket
    /\ UNCHANGED <<op, inFlight, allocated, nulls>>

\* "valid" is FALSE when the properties of the acknowledgement are refused.
Puback(o, valid) ==
    /\ Acknowledged(o)
    /\ IF ~isLegitSendAck(o, FALSE) THEN ResendAllUntil(o)
       ELSE IF op[o].qos # 1 \/ ~valid THEN ProtocolError(o)
       ELSE CompleteWithCb(o, Guarded) /\ out' = NoPacket
    /\ UNCHANGED <<session_vars, locked, lastId, fullOrdering, fault>>

\* "reply" is the reason code: below 0x80, 0x80 and above, or refused
\* properties.
Pubrec(o, reply) ==
    /\ Acknowledged(o)
    /\ IF ~isLegitSendAck(o, FALSE) THEN ResendAllUntil(o)
       ELSE IF op[o].qos # 2 \/ op[o].acked \/ reply = "invalid"
       THEN ProtocolError(o)
       ELSE IF reply = "failure"
       THEN CompleteWithCb(o, Guarded) /\ out' = NoPacket
       ELSE /\ op' = [op EXCEPT ![o].acked = TRUE, ![o].attempts = 1,
                                ![o].timer = TRUE]
            /\ out' = Packet("PUBREL", o, FALSE)
            /\ call' = Guarded
            /\ UNCHANGED <<inFlight, allocated, nulls>>
    /\ UNCHANGED <<session_vars, locked, lastId, fullOrdering, fault>>

Pubcomp(o, valid) ==
    /\ Acknowledged(o)
    /\ IF ~isLegitSendAck(o, TRUE) THEN ResendAllUntil(o)
       ELSE IF op[o].qos # 2 \/ ~op[o].acked \/ ~valid THEN ProtocolError(o)
       ELSE CompleteWithCb(o, Guarded) /\ out' = NoPacket
    /\ UNCHANGED <<session_vars, locked, lastId, fullOrdering, fault>>

\* A PUBREC whose packet id no operation has is answered all the same.
PubrecUnknown ==
    /\ Receiving
    /\ out' = Packet("PUBREL", 0, FALSE)
    /\ call' = Guarded
    /\ UNCHANGED <<op, session_vars, locked, inFlight, id_vars, fullOrdering, nulls,
                   fault>>

\* ConnectOp::handle(ConnackMsg&) with reason Success, and brokerConnected().
Connack(present, limit, expiry, smallPackets) ==
    /\ Idle
    /\ connecting /\ ~netDown
    /\ session' = [session EXCEPT !.connected = TRUE, !.limit = limit,
                       !.expiry = expiry, !.smallPackets = smallPackets]
    /\ connecting' = FALSE
    /\ expiryTimer' = FALSE
    /\ call' = IF present
               THEN [Guarded EXCEPT !.loop = "reconnect", !.at = 1, !.upto = MaxOps]
               ELSE IF Created = {} THEN Guarded
               ELSE [Guarded EXCEPT !.loop = "abort", !.at = 1,
                                    !.upto = Cardinality(Created)]
    /\ out' = NoPacket
    /\ UNCHANGED <<op, initialized, netDown, locked, inFlight, id_vars, fullOrdering,
                   nulls, fault>>

\* recvTimeoutCb(): the response timer of an operation fires.
ResponseTimer(o, from) ==
    /\ op[o].timer /\ ~op[o].suspended
    /\ ResendDupMsg(o, from)
    /\ UNCHANGED <<session_vars, locked, lastId, fullOrdering, fault>>

\* In tick(), or in the apiEnter() that begins a call.
ResponseTimeout(o) == Idle /\ ResponseTimer(o, Guarded)

\* sessionExpiryTimeoutInternal(): every operation is terminated.  Nothing is
\* resumed: the session is closing or, in a new one, its send limit is 0.
ExpiryTimer(from) ==
    /\ expiryTimer
    /\ expiryTimer' = FALSE
    /\ op' = [o \in Ops |-> IF o \in Live THEN OpIn("gone") ELSE op[o]]
    /\ inFlight' = inFlight - Cardinality(Published)
    /\ allocated' = ReleasePacketIds(allocated, {op[o].id : o \in Live})
    /\ nulls' = nulls \cup Live
    /\ call' = from
    /\ out' = NoPacket
    /\ UNCHANGED <<session, initialized, netDown, connecting, locked, lastId,
                   fullOrdering, fault>>

SessionExpiryTimeout == Idle /\ ExpiryTimer(Guarded)

------------------------------------------------------------------------------
(* The steps of a call in progress. *)

\* resumeSendOpsSince(): the next paused operation is transmitted, or the loop
\* ends at the first one that cannot be.
ResumeNext ==
    LET waiting == {p \in Paused : call.resume <= p}
    IN  /\ fault = "none"
        /\ call.resume # 0
        /\ IF waiting # {} /\ canSend(Least(waiting))
           THEN DoSend(Least(waiting), call)
           ELSE /\ call' = [call EXCEPT !.resume = 0]
                /\ out' = NoPacket
                /\ UNCHANGED <<op, inFlight, allocated, nulls>>
        /\ UNCHANGED <<session_vars, locked, lastId, fullOrdering, fault>>

\* The application has nothing more to do in the callback.
CallbackReturns ==
    /\ fault = "none" /\ InCallback
    /\ call' = [call EXCEPT !.cbs = @ - 1]
    /\ out' = NoPacket
    /\ UNCHANGED <<op, session_vars, locked, inFlight, id_vars, fullOrdering, nulls,
                   fault>>

Continuing == fault = "none" /\ call.resume = 0 /\ call.cbs = 0
InLoop(name) == Continuing /\ call.loop = name

EndOfLoop == [call EXCEPT !.loop = "none", !.at = 0, !.upto = 0]
Advanced == IF call.at = call.upto THEN EndOfLoop ELSE [call EXCEPT !.at = @ + 1]

Skip ==
    /\ call' = Advanced
    /\ out' = NoPacket
    /\ UNCHANGED <<op, inFlight, allocated, nulls>>

\* The loop stops for good: the program is in undefined behaviour.
Faults(f) ==
    /\ fault' = f
    /\ out' = NoPacket
    /\ UNCHANGED <<op, inFlight, allocated, nulls, call>>

\* An operation that was never sent has nothing to resend: the assertions of
\* resendDupMsg() and postReconnectionResend() fail.
Unsent(o) == op[o].st = "prepared"

\* One iteration of resendAllUntil().
ResendNext ==
    /\ InLoop("resend")
    /\ IF Unsent(call.at) THEN Faults("assertion")
       ELSE /\ IF call.at \in Published THEN ResendDupMsg(call.at, Advanced) ELSE Skip
            /\ UNCHANGED fault
    /\ UNCHANGED <<session_vars, locked, lastId, fullOrdering>>

\* One iteration of the loop over m_sendOps in brokerConnected():
\* postReconnectionResend().  Completing the operation here erases the element
\* the loop stands on.
ReconnectNext ==
    LET o == call.at
        next == [call EXCEPT !.at = @ + 1]
    IN  /\ InLoop("reconnect")
        /\ o <= MaxOps
        /\ IF Unsent(o) THEN Faults("assertion")
           ELSE IF o \in Published /\ resendsPublish(o) /\ ~fits(o)
           THEN Faults("invalid iterator")
           ELSE /\ IF o \in Published
                   THEN /\ op' = [op EXCEPT ![o].timer = TRUE]
                        /\ out' = DupPacket(o)
                   ELSE UNCHANGED op /\ out' = NoPacket
                /\ call' = next
                /\ UNCHANGED <<inFlight, allocated, nulls, fault>>
        /\ UNCHANGED <<session_vars, locked, lastId, fullOrdering>>

\* The rest of brokerConnected(): the paused operations at the end of the
\* window of the first "limit" operations are where resuming starts.
ReconnectResume ==
    LET window == {o \in Live :
                     Cardinality({p \in Live : p <= o}) <= session.limit}
        tail == {o \in window : \A p \in window : o <= p => p \in Paused}
    IN  /\ InLoop("reconnect")
        /\ MaxOps < call.at
        /\ call' = [EndOfLoop EXCEPT
                       !.resume = IF tail = {} THEN 0 ELSE Least(tail)]
        /\ out' = NoPacket
        /\ UNCHANGED <<op, session_vars, locked, inFlight, id_vars, fullOrdering, nulls,
                       fault>>

\* One iteration of the loop over m_ops in brokerConnected() when the broker
\* has no session: op->type() is called without looking for nullptr.
AbortNext ==
    LET o == call.at
    IN  /\ InLoop("abort")
        /\ IF o \in nulls THEN Faults("null pointer")
           ELSE /\ IF o \in Live
                   THEN CompleteWithCb(o, Advanced) /\ out' = NoPacket
                   ELSE Skip
                /\ UNCHANGED fault
        /\ UNCHANGED <<session_vars, locked, lastId, fullOrdering>>

\* terminationWithReason(): DISCONNECT and brokerDisconnected().
Terminate ==
    /\ Continuing /\ call.closing
    /\ BrokerDisconnected
    /\ out' = Packet("DISCONNECT", 0, FALSE)
    /\ call' = [call EXCEPT !.closing = FALSE]
    /\ UNCHANGED <<netDown, locked, lastId, fullOrdering, fault>>

\* doApiEnter() of send() runs the timers that are due, after canSend() and before
\* doSendInternal(): the response timers of other operations, whose callbacks may
\* publish, the keep alive timer and, once disconnected, the session expiry timer.
\* (The timeout of a "connect" finds the session reset already.)
InSend == Continuing /\ call.sending # 0

KeepAliveTimer(from) ==
    /\ session.connected
    /\ BrokerDisconnected
    /\ out' = Packet("DISCONNECT", 0, FALSE)
    /\ call' = from
    /\ UNCHANGED <<netDown, locked, lastId, fullOrdering, fault>>

SendTick ==
    /\ InSend
    /\ \/ \E o \in Ops : ResponseTimer(o, call)
       \/ KeepAliveTimer(call)
       \/ ExpiryTimer(call)

\* The rest of send(), doSendInternal(): nothing is checked again, not even
\* whether the operation was destroyed with its session.
Transmit ==
    LET o == call.sending
    IN  /\ InSend
        /\ IF op[o].st # "sending" THEN Faults("destroyed operation")
           ELSE /\ IF fits(o) THEN DoSend(o, [call EXCEPT !.sending = 0])
                   ELSE /\ Erased(o)
                        /\ nulls' = {o}
                        /\ call' = Resuming(o, NoCall)
                        /\ out' = NoPacket
                /\ UNCHANGED fault
        /\ UNCHANGED <<session_vars, locked, lastId, fullOrdering>>

\* doApiExit() of the last guard: cleanOps() drops the nullified entries.
ApiExit ==
    /\ fault = "none"
    /\ call = Guarded
    /\ call' = NoCall
    /\ nulls' = {}
    /\ out' = NoPacket
    /\ UNCHANGED <<op, session_vars, locked, inFlight, id_vars, fullOrdering, fault>>

CallStep == \/ ResumeNext \/ CallbackReturns \/ ResendNext \/ ReconnectNext
            \/ ReconnectResume \/ AbortNext \/ Terminate \/ Transmit \/ ApiExit

Next ==
    \/ \E full \in Orderings : setPublishOrdering(full)
    \/ \E o \in Ops :
          \/ \E q \in Qoses : Prepare(o, q)
          \/ Send(o)
          \/ SendDue(o)
          \/ Cancel(o)
          \/ \E valid \in BOOLEAN : Puback(o, valid) \/ Pubcomp(o, valid)
          \/ \E reply \in {"success", "failure", "invalid"} : Pubrec(o, reply)
          \/ ResponseTimeout(o)
    \/ Connect
    \/ ConnectFails
    \/ \E byBroker \in BOOLEAN : Disconnect(byBroker)
    \/ NetworkDisconnected
    \/ PubrecUnknown
    \/ \E present \in SessionReplies, limit \in SendLimits,
          expiry \in Expiries,
          smallPackets \in {b \in BOOLEAN : b => Oversize # {}} :
          Connack(present, limit, expiry, smallPackets)
    \/ SessionExpiryTimeout
    \/ SendTick
    \/ CallStep

Spec == Init /\ [][Next]_vars

\* A call of the library runs to its end.  A timer that is active and not
\* suspended between calls again and again fires in the end: the time spent in
\* the application counts whatever calls it makes, since every apiEnter() runs
\* the timers with the time elapsed and every last guard programs the next tick.
Fairness == WF_vars(CallStep) /\ \A o \in Ops : SF_vars(ResponseTimeout(o))

FairSpec == Spec /\ Fairness

------------------------------------------------------------------------------
(* Correctness. *)

\* The variables keep their types, the counters of the code included.
TypeOK ==
    /\ op \in [Ops -> Op]
    /\ fullOrdering \in BOOLEAN
    /\ session \in [connected : BOOLEAN, disconnecting : BOOLEAN, limit : Nat,
                    expiry : {"zero", "finite"},
                    smallPackets : BOOLEAN]
    /\ initialized \in BOOLEAN /\ netDown \in BOOLEAN
    /\ connecting \in BOOLEAN /\ expiryTimer \in BOOLEAN
    /\ locked \in BOOLEAN
    /\ inFlight \in Nat
    /\ allocated \subseteq PacketIds /\ lastId \in PacketIds
    /\ nulls \subseteq Ops
    /\ call \in [guarded : BOOLEAN,
                 loop : {"none", "resend", "reconnect", "abort"},
                 at : 0 .. MaxOps + 1, upto : 0 .. MaxOps,
                 resume : 0 .. MaxOps, closing : BOOLEAN, cbs : Nat,
                 sending : 0 .. MaxOps]
    /\ fault \in {"none", "invalid iterator", "null pointer", "assertion",
                  "destroyed operation"}
    /\ out \in [type : {"none", "CONNECT", "PUBLISH", "PUBREL", "DISCONNECT"},
                op : 0 .. MaxOps, dup : BOOLEAN]

\* m_inFlightSends counts exactly the operations that were transmitted and are
\* still in m_sendOps, through every completion path: acknowledgement, timeout,
\* cancel(), disconnection, expiry, and QoS 0 operations that come and go.
InFlightExact == inFlight = Cardinality(Published)

\* No two operations hold the same packet id, and the allocator's list holds
\* the ids of the operations in m_sendOps and nothing else: none leaks, none is
\* given back while a paused or transmitted operation still uses it.
PacketIdsExact ==
    /\ \A o, p \in Live : op[o].id = op[p].id /\ op[o].id # 0 => o = p
    /\ allocated \ {0} = {op[o].id : o \in Live} \ {0}

\* Every transmitted operation has been counted as an attempt (the assertion
\* m_sendAttempts > 0 of postReconnectionResend()), stays within its attempts
\* and has its response timer armed.
AwaitsAnswer ==
    \A o \in Published : op[o].attempts \in 1 .. MaxAttempts /\ op[o].timer

\* m_publishOrdering: a transmitted operation has no operation of the same QoS
\* waiting before it; with Full ordering nothing waits before it and nothing of
\* a higher QoS is unfinished before it.
OrderKept ==
    \A p \in Published : \A o \in Live :
        o < p => /\ op[o].qos = op[p].qos => o \notin Paused
                 /\ fullOrdering => o \notin Paused /\ op[o].qos <= op[p].qos

\* No lost wake-up: between two calls on a connected session the operation that
\* waits first could not be transmitted, so some completion will resume it.
NoneStranded ==
    Idle /\ session.connected /\ Paused # {} => ~canSend(Least(Paused))

\* The first transmission of a QoS 1 or QoS 2 PUBLISH does not exceed the Receive
\* Maximum of the session it is made in, whatever resumes the operation, but for
\* the one whose send() ran timers between canSend() and doSendInternal()
\* (SendOp.cpp:607, 615): callbacks may have taken its place by then, and it
\* exceeds the maximum by no more than itself.
WithinReceiveMaximum ==
    [][out'.type = "PUBLISH" /\ ~out'.dup /\ inFlight' > inFlight
          => inFlight' <= session.limit + (IF out'.op = call.sending THEN 1 ELSE 0)]_vars

\* Once the PUBREC of an operation has arrived its PUBLISH is never transmitted
\* again: not by a timeout, not by resendAllUntil(), not after a reconnection.
PublishNotAfterPubrec ==
    [][out'.type = "PUBLISH" => ~op[out'.op].acked]_vars

\* The only thing that can keep an operation of a connected session for ever is
\* a response timer that a disconnection suspended, its own or that of another
\* operation it waits for: no wake-up is lost, no attempt is left uncounted.
EndsUnlessSuspended ==
    \A o \in Ops :
        (op[o].st \in {"paused", "published"} /\ session.connected)
            ~> \/ op[o].st = "gone" \/ ~session.connected
               \/ \E p \in Published : op[p].suspended
               \/ fault # "none"

\* No loop over the operations goes on with an entry that is gone: the comments
\* in handle(ProtMessage&) ask for loops by index that expect nullptr.
LoopsSafe == fault = "none"
==============================================================================
