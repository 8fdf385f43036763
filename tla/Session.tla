------------------------------- MODULE Session -------------------------------
(***************************************************************************)
(* The life of a connection and of its operations: "connect", "subscribe",   *)
(* "unsubscribe", "reauth", "disconnect" (client/lib/src/op) and "publish",   *)
(* with the flags of ClientImpl.cpp that allow, end and report them.         *)
(*                                                                           *)
(* The broker answers an operation that was sent, well or badly, once, late  *)
(* or never.  A prepared message may turn out too long for sendMessage().    *)
(* What happens to a publish that was sent is the matter of SendOps; here it  *)
(* waits, outlives connections and ends.  The application makes no calls from *)
(* within callbacks, and no timer is due when it calls send().                *)
(***************************************************************************)
EXTENDS Integers, FiniteSets, Sequences

CONSTANT MaxOps     \* bound: operations prepared in a run

Types == {"connect", "subscribe", "unsubscribe", "reauth", "disconnect", "publish"}

ASSUME SessionAssumption == MaxOps \in Nat

VARIABLES
    initialized,    \* m_clientState.m_initialized
    connected,      \* m_sessionState.m_connected
    disconnecting,  \* m_sessionState.m_disconnecting
    networkDisconnected, \* m_clientState.m_networkDisconnected
    auth,           \* CONNECT used an authentication method
    locked,         \* m_preparationLocked
    expiring,       \* m_sessionExpiryTimer is active
    ops,            \* the operations prepared so far
    appConnected,   \* history: connected, by what the application was told
    misopened       \* history: the lock was opened under a prepared operation by
                    \* the cancel() of a publish that was sent without callback

vars == <<initialized, connected, disconnecting, networkDisconnected, auth, locked,
          expiring, ops, appConnected, misopened>>

\* callback: m_cb, which a successful send() leaves; timer: the response timer is
\* active (of a publish: see SendOps).  History: cancelled by the application,
\* answered in vain by it (refusedAuth), completion callbacks made.
Op == [type : Types, phase : {"prepared", "sent", "done"}, callback : BOOLEAN,
       timer : BOOLEAN, cancelled : BOOLEAN, refusedAuth : BOOLEAN, reports : Nat]

Ids == DOMAIN ops
Live(t) == {i \in Ids : ops[i].type = t /\ ops[i].phase # "done"}
Sent(t) == {i \in Live(t) : ops[i].phase = "sent"}
Prepared(s) == {i \in DOMAIN s : s[i].phase = "prepared"}

Init ==
    /\ initialized = FALSE /\ connected = FALSE /\ disconnecting = FALSE
    /\ networkDisconnected = FALSE /\ auth = FALSE /\ locked = FALSE
    /\ expiring = FALSE
    /\ ops = <<>>
    /\ appConnected = FALSE /\ misopened = FALSE

------------------------------------------------------------------------------
(* The end of operations. *)

\* Mutant: only operations that still wait for their timer are reported.
CompletedIfTimed(op) ==
    [op EXCEPT !.phase = "done", !.timer = FALSE,
               !.reports = IF op.timer THEN @ + 1 ELSE @]

\* completeOpInternal(): with the callback, if there is one.
Completed(op) ==
    [op EXCEPT !.phase = "done", !.timer = FALSE,
               !.reports = IF op.callback THEN @ + 1 ELSE @]

\* Mutant: the timer outlives the operation.
DroppedTimed(op) == [op EXCEPT !.phase = "done"]

\* opComplete() without a callback.
Dropped(op) == [op EXCEPT !.phase = "done", !.timer = FALSE]

\* terminateOps(): every operation that is there, or those that are no publish.
Terminated(keep) ==
    [i \in Ids |-> IF ops[i].phase = "done" \/ (keep /\ ops[i].type = "publish")
                  THEN ops[i] ELSE Completed(ops[i])]

\* The publishes of a session that is gone, in op.
Aborted(op) == IF op.type = "publish" /\ op.phase # "done" THEN Completed(op) ELSE op

\* The default of the first parameter of brokerDisconnected().
ValuesLimit == "ValuesLimit"

\* m_brokerDisconnectReportCb is made for a reason below the limit.
Told(reason) == reason # ValuesLimit

\* brokerDisconnected(reason), in a call of the application that ends the
\* connection (own) or not.  Publishes are kept when CONNACK gave the session an
\* expiry interval.
BrokerDisconnected(reason, own) ==
    /\ initialized' = FALSE /\ connected' = FALSE /\ disconnecting' = TRUE
    /\ \E keep \in BOOLEAN : ops' = Terminated(keep) /\ expiring' = (expiring \/ keep)
    /\ appConnected' = (appConnected /\ ~own /\ ~Told(reason))
    /\ UNCHANGED misopened

\* terminationWithReason()
Termination(reason) ==
    /\ BrokerDisconnected(reason, FALSE)
    /\ UNCHANGED <<networkDisconnected, auth, locked>>

------------------------------------------------------------------------------
(* Calls of the application. *)

NewOp(t) == [type |-> t, phase |-> "prepared", callback |-> FALSE, timer |-> FALSE,
             cancelled |-> FALSE, refusedAuth |-> FALSE, reports |-> 0]

\* connectPrepare(): the network is taken to be there again and the client is
\* initialized, initInternal(), even when the rest fails.
connectPrepare(useAuth) ==
    LET reset == ~initialized
        s == IF reset THEN Terminated(TRUE) ELSE ops
        busy == ~reset /\ Live("connect") # {}
        ok == /\ ~busy /\ ~locked
              /\ reset \/ (~disconnecting /\ ~connected)
    IN  /\ Len(ops) < MaxOps
        /\ networkDisconnected' = FALSE
        /\ initialized' = TRUE
        /\ connected' = (connected /\ ~reset) /\ disconnecting' = (disconnecting /\ ~reset)
        /\ \/ /\ ok
              /\ locked' = TRUE /\ ops' = Append(s, NewOp("connect")) /\ auth' = useAuth
              /\ misopened' = (misopened /\ Prepared(s) # {})
           \/ /\ ~ok
              /\ ops' = s /\ UNCHANGED <<locked, auth, misopened>>
        /\ UNCHANGED <<expiring, appConnected>>

\* What the other ...Prepare() functions have in common.
prepare(t) ==
    /\ Len(ops) < MaxOps
    /\ connected /\ ~disconnecting /\ ~networkDisconnected /\ ~locked
    /\ locked' = TRUE
    /\ ops' = Append(ops, NewOp(t))
    /\ misopened' = (misopened /\ Prepared(ops) # {})
    /\ UNCHANGED <<initialized, connected, disconnecting, networkDisconnected, auth,
                   expiring, appConnected>>

subscribePrepare == prepare("subscribe")
unsubscribePrepare == prepare("unsubscribe")
publishPrepare == prepare("publish")

\* One at a time.
disconnectPrepare == Live("disconnect") = {} /\ prepare("disconnect")
reauthPrepare == auth /\ Live("reauth") = {} /\ prepare("reauth")

\* send(): an error ends the operation without a callback, and the caller has the
\* error code.
send(t, i, fits, withCb) ==
    /\ i \in Live(t) \ Sent(t)
    /\ locked' = FALSE
    /\ \/ /\ fits
          /\ ops' = [ops EXCEPT ![i] = [@ EXCEPT !.phase = "sent", !.callback = withCb,
                                                !.timer = t # "publish"]]
       \/ /\ ~fits
          /\ ops' = [ops EXCEPT ![i] = Dropped(@)]
    /\ UNCHANGED <<initialized, connected, disconnecting, networkDisconnected, auth,
                   expiring, appConnected, misopened>>

\* A callback is required.
connect(i, fits) == send("connect", i, fits, TRUE)
subscribe(i, fits) == send("subscribe", i, fits, TRUE)
unsubscribe(i, fits) == send("unsubscribe", i, fits, TRUE)
reauth(i, fits) == send("reauth", i, fits, TRUE)

\* SendOp::send(): the callback may be NULL, and a message that has to wait for
\* others counts as sent.
publish(i, fits, withCb) == send("publish", i, fits, withCb)

\* DisconnectOp::send(): the result of sendMessage() is ignored.
disconnect(i) ==
    /\ i \in Live("disconnect") \ Sent("disconnect")
    /\ locked' = FALSE
    /\ BrokerDisconnected(ValuesLimit, TRUE)
    /\ UNCHANGED <<networkDisconnected, auth>>

\* Mutant: an operation that was sent opens the lock as well.
unlockedAlways(op) == FALSE

\* The lock after cancel(): an operation without m_cb opens it, "hasn't been sent
\* yet", which a publish sent without callback is taken for.
lockedAfter(op) == locked /\ op.callback

\* cancel(): the callback is not made.
cancel(i) ==
    /\ i \in Ids /\ ops[i].phase # "done"
    /\ locked' = lockedAfter(ops[i])
    /\ ops' = [ops EXCEPT ![i] = [Dropped(@) EXCEPT !.cancelled = TRUE]]
    /\ misopened' = (misopened \/ (/\ Prepared(ops) \ {i} # {}
                                   /\ ops[i].phase = "sent" /\ ~ops[i].callback))
    /\ UNCHANGED <<initialized, connected, disconnecting, networkDisconnected, auth,
                   expiring, appConnected>>

\* notifyNetworkDisconnected()
notifyNetworkDisconnected ==
    /\ ~networkDisconnected
    /\ networkDisconnected' = TRUE
    /\ \/ /\ disconnecting
          /\ UNCHANGED <<initialized, connected, disconnecting, expiring, ops, appConnected,
                         misopened>>
       \/ ~disconnecting /\ BrokerDisconnected(ValuesLimit, TRUE)
    /\ UNCHANGED <<auth, locked>>

------------------------------------------------------------------------------
(* Messages of the broker: processData() needs a network, and nothing is     *)
(* dispatched while a disconnection is in progress.                          *)

Receiving == ~networkDisconnected /\ ~disconnecting

\* ConnectOp::handle(ConnackMsg&): accepted with the session of the broker
\* ("resumed") or without ("accepted"), refused by the broker, or not acceptable to
\* the client, which sends DISCONNECT and does nothing more.
Results == {"resumed", "accepted", "refused", "bad"}

handleConnack(i, result) ==
    /\ Receiving /\ i \in Sent("connect")
    /\ \/ /\ result \in {"resumed", "accepted"}       \* brokerConnected()
          /\ connected' = TRUE /\ appConnected' = TRUE /\ expiring' = FALSE
          /\ ops' = [j \in Ids |-> IF j = i THEN Completed(ops[j])
                                  ELSE IF result = "accepted" THEN Aborted(ops[j]) ELSE ops[j]]
          /\ UNCHANGED auth
       \/ /\ result \in {"refused", "bad"}
          /\ auth' = (auth /\ result = "bad")          \* state = SessionState()
          /\ ops' = [ops EXCEPT ![i] = Completed(@)]
          /\ UNCHANGED <<connected, appConnected, expiring>>
    /\ UNCHANGED <<initialized, disconnecting, networkDisconnected, locked, misopened>>

\* Mutant: the timer is not restarted after an AUTH that continues.
Untimed(op) == [op EXCEPT !.timer = FALSE]

\* restartTimer()
Timed(op) == [op EXCEPT !.timer = TRUE]

\* ConnectOp::handle(AuthMsg&): a bad message ends the operation; the answer of
\* the application is sent, or lost with the timer already cancelled.
handleConnectAuth(i, good, refused) ==
    /\ Receiving /\ i \in Sent("connect")
    /\ \/ /\ ~good \/ ~auth
          /\ ops' = [ops EXCEPT ![i] = Completed(@)]
       \/ /\ good /\ auth /\ refused
          /\ ops' = [ops EXCEPT ![i].timer = FALSE, ![i].refusedAuth = TRUE]
       \/ /\ good /\ auth /\ ~refused
          /\ ops' = [ops EXCEPT ![i] = Timed(@)]
    /\ UNCHANGED <<initialized, connected, disconnecting, networkDisconnected, auth,
                   locked, expiring, appConnected, misopened>>

\* The answer to an operation; a bad one ends the operation and then the
\* connection.
handleAck(t, i, good) ==
    /\ Receiving /\ i \in Sent(t)
    /\ \/ /\ good
          /\ ops' = [ops EXCEPT ![i] = Completed(@)]
          /\ UNCHANGED <<initialized, connected, disconnecting, networkDisconnected,
                         auth, locked, expiring, appConnected, misopened>>
       \/ ~good /\ Termination("ProtocolError")

handleSuback(i, good) == handleAck("subscribe", i, good)
handleUnsuback(i, good) == handleAck("unsubscribe", i, good)

\* ReauthOp::handle(AuthMsg&): success, another round, or an end of the
\* connection the broker or the application is the reason of.
handleReauth(i, result) ==
    /\ Receiving /\ i \in Sent("reauth")
    /\ \/ /\ result \in {"complete", "continue"}
          /\ ops' = [ops EXCEPT ![i] = IF result = "complete" THEN Completed(@) ELSE Timed(@)]
          /\ UNCHANGED <<initialized, connected, disconnecting, networkDisconnected,
                         auth, locked, expiring, appConnected, misopened>>
       \/ result = "bad" /\ Termination("ProtocolError")
       \/ result = "refused" /\ Termination("InternalError")

\* DISCONNECT, which a "connect" operation or the keep alive operation of a
\* connection handles; the latter answers a malformed one.
handleDisconnect(good) ==
    /\ Receiving /\ (Live("connect") # {} \/ connected)
    /\ BrokerDisconnected(IF good \/ ~connected THEN "DisconnectMsg" ELSE "ProtocolError", FALSE)
    /\ UNCHANGED <<networkDisconnected, auth, locked>>

\* processData(): input that is no message, whatever the state of the session.
processMalformed == ~networkDisconnected /\ Termination("ProtocolError")

------------------------------------------------------------------------------
(* Time. *)

\* opTimeoutInternal() of any operation.
opTimeout(i) ==
    /\ i \in Ids /\ ops[i].timer
    /\ ops' = [ops EXCEPT ![i] = Completed(@)]
    /\ UNCHANGED <<initialized, connected, disconnecting, networkDisconnected, auth,
                   locked, expiring, appConnected, misopened>>

\* A publish that was sent ends by itself: it is acknowledged, or its attempts are
\* used up.
publishEnds(i) ==
    /\ i \in Sent("publish")
    /\ ops' = [ops EXCEPT ![i] = Completed(@)]
    /\ UNCHANGED <<initialized, connected, disconnecting, networkDisconnected, auth,
                   locked, expiring, appConnected, misopened>>

\* sessionExpiryTimeoutInternal()
sessionExpiryTimeout ==
    /\ expiring
    /\ expiring' = FALSE
    /\ ops' = [i \in Ids |-> Aborted(ops[i])]
    /\ UNCHANGED <<initialized, connected, disconnecting, networkDisconnected, auth,
                   locked, appConnected, misopened>>

\* Mutant: the reason is left out.
pingTimeoutUntold == connected /\ Termination(ValuesLimit)

\* KeepAliveOp::pingTimeoutInternal()
pingTimeout == connected /\ Termination("NoBrokerResponse")

Next ==
    \/ \E useAuth \in BOOLEAN : connectPrepare(useAuth)
    \/ subscribePrepare
    \/ unsubscribePrepare
    \/ disconnectPrepare
    \/ reauthPrepare
    \/ publishPrepare
    \/ \E i \in 1 .. MaxOps :
          \/ \E fits \in BOOLEAN :
                \/ connect(i, fits)
                \/ subscribe(i, fits)
                \/ unsubscribe(i, fits)
                \/ reauth(i, fits)
                \/ \E withCb \in BOOLEAN : publish(i, fits, withCb)
          \/ disconnect(i)
          \/ cancel(i)
          \/ \E result \in Results : handleConnack(i, result)
          \/ \E good, refused \in BOOLEAN : handleConnectAuth(i, good, refused)
          \/ \E good \in BOOLEAN : handleSuback(i, good) \/ handleUnsuback(i, good)
          \/ \E result \in {"complete", "continue", "bad", "refused"} : handleReauth(i, result)
          \/ opTimeout(i)
          \/ publishEnds(i)
    \/ notifyNetworkDisconnected
    \/ \E good \in BOOLEAN : handleDisconnect(good)
    \/ processMalformed
    \/ sessionExpiryTimeout
    \/ pingTimeout

Spec == Init /\ [][Next]_vars

\* The application reports the time, and the broker does not keep an operation
\* waiting with AUTH messages for ever.
FairSpec == Spec /\ \A i \in 1 .. MaxOps : WF_vars(opTimeout(i))

------------------------------------------------------------------------------
(* Correctness. *)

\* The variables keep their types; a timer runs for an operation that waits.
TypeOK ==
    /\ initialized \in BOOLEAN /\ connected \in BOOLEAN /\ disconnecting \in BOOLEAN
    /\ networkDisconnected \in BOOLEAN /\ auth \in BOOLEAN /\ locked \in BOOLEAN
    /\ expiring \in BOOLEAN /\ appConnected \in BOOLEAN /\ misopened \in BOOLEAN
    /\ ops \in Seq(Op) /\ Len(ops) <= MaxOps
    /\ \A i \in Ids : ops[i].timer => ops[i].phase = "sent"

\* Every operation that was sent successfully with a callback and not cancelled is
\* reported once when it ends, whoever ends it: answers, timeouts, the end of the
\* connection (terminateOps()) or of the session.  No other is ever reported.
ReportedOnce ==
    \A i \in Ids :
        ops[i].reports = IF ops[i].phase = "done" /\ ops[i].callback /\ ~ops[i].cancelled
                         THEN 1 ELSE 0

\* The application knows from callbacks and from its own calls whether there is a
\* connection: every caller of brokerDisconnected() that is not a call of the
\* application gives a reason that is reported (ClientImpl.cpp:980).
ConnectionReported == appConnected = connected

\* At most one operation is between its preparation and its send() or cancel()
\* (m_preparationLocked), unless the cancel() of a publish that was sent without
\* callback opened the lock under a prepared one.  At most one "connect",
\* "disconnect" and "reauth" exist, and a connection has no "connect" operation
\* left that could still change it.
OneAtATime ==
    /\ misopened \/ Cardinality(Prepared(ops)) <= 1
    /\ \A t \in {"connect", "disconnect", "reauth"} : Cardinality(Live(t)) <= 1
    /\ connected => Live("connect") = {} /\ ~disconnecting /\ initialized

\* An operation other than publish that was sent comes to an end, whatever the
\* broker does short of restarting its timer with AUTH messages for ever (see
\* FairSpec), but for a "connect" whose AUTH the application has refused to answer:
\* its timer is gone by then and only the application can end it.
SentOperationEnds ==
    \A i \in 1 .. MaxOps :
        (i \in Ids /\ ops[i].phase = "sent" /\ ops[i].type # "publish")
            ~> (i \in Ids /\ (ops[i].phase = "done" \/ ops[i].refusedAuth))
==============================================================================
