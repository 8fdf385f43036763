------------------------------ MODULE KeepAlive ------------------------------
(***************************************************************************)
(* The keep alive operation (client/lib/src/op/KeepAliveOp.cpp): three       *)
(* timers, restarted by every message sent and received, that ping a silent  *)
(* broker and give the connection up when it does not answer.                *)
(*                                                                           *)
(* Time passes in units and the application reports it on time.  The timers  *)
(* that expire together are cancelled first and their callbacks made after,  *)
(* in the order of the slots they happen to have: any order.  What becomes   *)
(* of the callbacks that are left when the operation is deleted is the       *)
(* subject of TimerMgr; here they are not made.                              *)
(***************************************************************************)
EXTENDS Integers

CONSTANTS
    KeepAlives,         \* m_keepAliveMs of a session: CONNECT's or CONNACK's value
    ResponseTimeouts,   \* values of m_responseTimeoutMs
    MaxAge              \* bound: where the history counters stop

Off == -1                               \* a timer that is not active
Timers == {"ping", "recv", "resp"}

ASSUME KeepAliveAssumption ==
    /\ KeepAlives \subseteq Nat
    /\ ResponseTimeouts \subseteq Nat \ {0}
    /\ MaxAge \in Nat /\ \A r \in ResponseTimeouts : r <= MaxAge

VARIABLES
    up,             \* there is a keep alive operation
    keepAlive,      \* m_keepAliveMs
    responseTimeout, \* m_responseTimeoutMs, as configured before the connection
    left,           \* what is left of m_pingTimer, m_recvTimer and m_respTimer
    pending,        \* expired timers with their callbacks still to make
    sinceSent,      \* history: time since the last message was sent
    silence,        \* history: time since a message came or the session began
    heard,          \* history: the broker sent something after CONNACK
    unanswered      \* history: time since the oldest PINGREQ without PINGRESP

vars == <<up, keepAlive, responseTimeout, left, pending, sinceSent, silence, heard,
          unanswered>>

AllOff == [t \in Timers |-> Off]
Older(age) == IF age < MaxAge THEN age + 1 ELSE age

Init ==
    /\ up = FALSE
    /\ keepAlive = 0 /\ responseTimeout \in ResponseTimeouts
    /\ left = AllOff
    /\ pending = {}
    /\ sinceSent = 0 /\ silence = 0 /\ heard = FALSE /\ unanswered = Off

\* restartPingTimer() and restartRecvTimer(): a keep alive of 0 turns them off.
Restarted(l, t) == IF keepAlive = 0 THEN l ELSE [l EXCEPT ![t] = keepAlive]

\* createKeepAliveOpIfNeeded() and the constructor.
Connected(k, r) ==
    /\ ~up
    /\ up' = TRUE
    /\ keepAlive' = k /\ responseTimeout' = r
    /\ left' = IF k = 0 THEN AllOff ELSE [AllOff EXCEPT !["ping"] = k]
    /\ sinceSent' = 0 /\ silence' = 0 /\ heard' = FALSE /\ unanswered' = Off
    /\ UNCHANGED pending

\* messageSent(): any operation sent a message.
messageSent ==
    /\ up
    /\ left' = Restarted(left, "ping")
    /\ sinceSent' = 0
    /\ UNCHANGED <<up, keepAlive, responseTimeout, pending, silence, heard, unanswered>>

Heard == silence' = 0 /\ heard' = TRUE

\* Mutant: the timer of the response keeps running.
handlePingrespKept ==
    /\ up /\ pending = {}
    /\ left' = Restarted(left, "recv")
    /\ unanswered' = Off
    /\ Heard
    /\ UNCHANGED <<up, keepAlive, responseTimeout, pending, sinceSent>>

\* handle(PingrespMsg&)
handlePingresp ==
    /\ up /\ pending = {}
    /\ left' = Restarted([left EXCEPT !["resp"] = Off], "recv")
    /\ unanswered' = Off
    /\ Heard
    /\ UNCHANGED <<up, keepAlive, responseTimeout, pending, sinceSent>>

\* handle(ProtMessage&): any other message of the broker.
handleOther ==
    /\ up /\ pending = {}
    /\ left' = Restarted(left, "recv")
    /\ Heard
    /\ UNCHANGED <<up, keepAlive, responseTimeout, pending, sinceSent, unanswered>>

\* The operation is deleted with the connection.
Deleted ==
    /\ up' = FALSE
    /\ left' = AllOff
    /\ pending' = {}
    /\ UNCHANGED <<keepAlive, responseTimeout, sinceSent, silence, heard, unanswered>>

\* handle(DisconnectMsg&), or another operation ends the connection.
handleDisconnect == up /\ Deleted

\* TimerMgr::tick(), first loop.
tick ==
    /\ up /\ pending = {}
    /\ pending' = {t \in Timers : left[t] = 1}
    /\ left' = [t \in Timers |-> IF left[t] > 1 THEN left[t] - 1 ELSE Off]
    /\ sinceSent' = Older(sinceSent) /\ silence' = Older(silence)
    /\ unanswered' = IF unanswered = Off THEN Off ELSE Older(unanswered)
    /\ UNCHANGED <<up, keepAlive, responseTimeout, heard>>

\* Mutant: the message sent does not restart the timer of the ping.
PingSentOnly == [left EXCEPT !["resp"] = responseTimeout]

\* Mutant: nothing waits for the response.
PingForgotten == Restarted(left, "ping")

\* The timers after a PINGREQ; sendMessage() reports it to messageSent().
Pinged == [Restarted(left, "ping") EXCEPT !["resp"] = responseTimeout]

\* sendPingCb() and recvTimeoutCb(): sendPing() does nothing while a response
\* is awaited.
sendPing(t) ==
    /\ t \in pending \ {"resp"}
    /\ pending' = pending \ {t}
    /\ \/ /\ left["resp"] # Off
          /\ UNCHANGED <<left, sinceSent, unanswered>>
       \/ /\ left["resp"] = Off
          /\ left' = Pinged
          /\ sinceSent' = 0
          /\ unanswered' = IF unanswered = Off THEN 0 ELSE unanswered
    /\ UNCHANGED <<up, keepAlive, responseTimeout, silence, heard>>

\* pingTimeoutInternal(): DISCONNECT and brokerDisconnected().
pingTimeout == "resp" \in pending /\ Deleted

Next ==
    \/ \E k \in KeepAlives, r \in ResponseTimeouts : Connected(k, r)
    \/ messageSent
    \/ handlePingresp
    \/ handleOther
    \/ handleDisconnect
    \/ tick
    \/ \E t \in Timers : sendPing(t)
    \/ pingTimeout

Spec == Init /\ [][Next]_vars

------------------------------------------------------------------------------
(* Correctness. *)

\* The client does not stay silent for longer than the keep alive interval:
\* without other messages it sends a PINGREQ in time [MQTT-3.1.2-20].  The
\* response timeout must not be the longer one: a ping timer that expires while
\* an answer is awaited sends nothing and is not armed again.
PingInTime ==
    up /\ pending = {} /\ responseTimeout <= keepAlive => sinceSent <= keepAlive

\* A broker that falls silent is given up after the keep alive interval and the
\* response timeout.
SilenceBounded ==
    up /\ keepAlive # 0 /\ heard /\ pending = {}
        => silence < keepAlive + responseTimeout

\* The connection is given up only after a PINGREQ was left without an answer
\* for the response timeout, however many PINGREQs and answers came before.
TimeoutOnlyUnanswered ==
    [][up /\ ~up' /\ "resp" \in pending => unanswered >= responseTimeout]_vars
==============================================================================
