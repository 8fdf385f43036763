---------------------------- MODULE SessionExpiry ----------------------------
(***************************************************************************)
(* How long an interrupted session is kept: the conversion of the Session    *)
(* Expiry Interval to milliseconds (client/lib/src/op/ConnectOp.cpp), the    *)
(* decision of brokerDisconnected() and m_sessionExpiryTimer                 *)
(* (client/lib/src/ClientImpl.cpp).  "unsigned" arithmetic is modulo         *)
(* UintRange and a second has MsPerSec milliseconds, so that the wrap of the *)
(* product is within reach of small instances.                               *)
(***************************************************************************)
EXTENDS Integers

CONSTANTS
    UintRange,      \* 2^32: the values of "unsigned"
    MsPerSec,       \* 1000
    Intervals,      \* Session Expiry Intervals in seconds
    MaxElapsed      \* bound: milliseconds without a connection

NeverExpires == UintRange - 1       \* CC_MQTT5_SESSION_NEVER_EXPIRES
Off == -1                           \* a timer that is not active

VARIABLES
    interval,       \* seconds, as agreed in CONNECT and CONNACK
    intervalMs,     \* m_sessionExpiryIntervalMs
    connected,
    ops,            \* unfinished "publish" operations of the session
    timer,          \* what is left of m_sessionExpiryTimer
    elapsed         \* history: milliseconds since the connection was lost

vars == <<interval, intervalMs, connected, ops, timer, elapsed>>

\* response.m_sessionExpiryInterval * 1000U: both operands are "unsigned".
toMs(s) == (s * MsPerSec) % UintRange

\* The comparison of brokerDisconnected() is made with 64 bits.
NeverExpiresMs == NeverExpires * MsPerSec

Init ==
    /\ interval = 0 /\ intervalMs = 0
    /\ connected = FALSE
    /\ ops = FALSE
    /\ timer = Off
    /\ elapsed = 0

\* The CONNACK of a resumed or a new session; brokerConnected() stops the timer.
Connected(s, present) ==
    /\ ~connected
    /\ connected' = TRUE
    /\ interval' = s
    /\ intervalMs' = toMs(s)
    /\ ops' = (ops /\ present)
    /\ timer' = Off
    /\ elapsed' = 0

\* A "publish" operation waits for its acknowledgement.
Publish ==
    /\ connected
    /\ ops' = TRUE
    /\ UNCHANGED <<interval, intervalMs, connected, timer, elapsed>>

\* brokerDisconnected()
BrokerDisconnected ==
    /\ connected
    /\ connected' = FALSE
    /\ ops' = (ops /\ intervalMs > 0)
    /\ timer' = IF ops' /\ intervalMs # NeverExpiresMs THEN intervalMs ELSE timer
    /\ UNCHANGED <<interval, intervalMs, elapsed>>

\* TimerMgr::tick() and sessionExpiryTimeoutInternal()
Tick(ms) ==
    /\ ~connected
    /\ elapsed + ms <= MaxElapsed
    /\ elapsed' = elapsed + ms
    /\ timer' = IF timer = Off \/ timer <= ms THEN Off ELSE timer - ms
    /\ ops' = (ops /\ (timer = Off \/ timer > ms))
    /\ UNCHANGED <<interval, intervalMs, connected>>

Next ==
    \/ \E s \in Intervals, present \in BOOLEAN : Connected(s, present)
    \/ Publish
    \/ BrokerDisconnected
    \/ \E ms \in 1 .. MsPerSec : Tick(ms)

Spec == Init /\ [][Next]_vars

------------------------------------------------------------------------------
\* When the connection is lost and for as long as there is none, the operations
\* of the session are kept until its interval has passed, and not longer.
KeptForInterval ==
    [][~connected' /\ ops
          => (ops' <=> interval = NeverExpires \/ elapsed' < interval * MsPerSec)]_vars
==============================================================================
