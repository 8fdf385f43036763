-------------------------- MODULE KeepAlive_proofs --------------------------
(***************************************************************************)
(* The three promises of the keep alive operation, for every keep alive      *)
(* interval and every response timeout.  Each of them rests on what the      *)
(* running timers say about the history: a timer that was armed with a value *)
(* and has less left has measured the difference.                            *)
(***************************************************************************)
EXTENDS KeepAlive, TLAPS

Types ==
    /\ up \in BOOLEAN /\ heard \in BOOLEAN
    /\ keepAlive \in Nat /\ responseTimeout \in Nat \ {0}
    /\ responseTimeout <= MaxAge
    /\ left \in [Timers -> {Off} \cup (Nat \ {0})]
    /\ pending \subseteq Timers
    /\ sinceSent \in Nat /\ silence \in Nat
    /\ unanswered \in {Off} \cup Nat

\* The timer of the ping measures the time since the last message.  When the
\* response is not awaited for longer than the interval it runs at least as long
\* as the timer of the response, and is never lost.
PingMeasured ==
    up /\ responseTimeout <= keepAlive =>
        /\ left["ping"] # Off \/ "ping" \in pending
        /\ left["ping"] # Off => sinceSent + left["ping"] <= keepAlive
        /\ left["resp"] # Off => left["ping"] # Off /\ left["resp"] <= left["ping"]

\* Once the broker was heard, its silence is measured by the timer of the
\* reception and, when that has expired, by the one of the response.
SilenceMeasured ==
    up /\ keepAlive # 0 /\ heard =>
        \/ left["recv"] # Off /\ silence + left["recv"] <= keepAlive
        \/ "recv" \in pending /\ silence <= keepAlive
        \/ left["resp"] # Off /\ silence + left["resp"] <= keepAlive + responseTimeout
        \/ "resp" \in pending

\* The timer of the response measures the time since a PINGREQ without answer.
ResponseMeasured ==
    up =>
        /\ left["resp"] # Off => /\ left["resp"] <= responseTimeout
                                 /\ unanswered # Off
                                 /\ unanswered + left["resp"] >= responseTimeout
        /\ "resp" \in pending => unanswered >= responseTimeout

KeepAliveInv ==
    /\ Types /\ PingMeasured /\ SilenceMeasured /\ ResponseMeasured
    /\ up \/ pending = {}

\* The history counters reach every response timeout.
LEMMA ResponseTimeoutTypes ==
    \A r \in ResponseTimeouts : r \in Nat \ {0} /\ r <= MaxAge
  BY KeepAliveAssumption DEF KeepAliveAssumption

\* The inductive invariant holds before the first connection.
LEMMA KeepAliveInit == Init => KeepAliveInv
<1> SUFFICES ASSUME Init PROVE KeepAliveInv
  OBVIOUS
<1>1. responseTimeout \in Nat \ {0} /\ responseTimeout <= MaxAge
  BY ResponseTimeoutTypes DEF Init
<1>2. Types
  BY <1>1 DEF Init, Types, AllOff, Timers, Off
<1> QED
  BY <1>2 DEF Init, KeepAliveInv, PingMeasured, SilenceMeasured, ResponseMeasured

\* Every step of the client, of the broker and of time keeps it.
LEMMA KeepAliveStep == KeepAliveInv /\ [Next]_vars => KeepAliveInv'
<1> SUFFICES ASSUME KeepAliveInv, [Next]_vars PROVE KeepAliveInv'
  OBVIOUS
<1> USE KeepAliveAssumption
    DEF KeepAliveAssumption, KeepAliveInv, Types, PingMeasured, SilenceMeasured,
        ResponseMeasured, Timers, Off
<1>1. ASSUME NEW k \in KeepAlives, NEW r \in ResponseTimeouts, Connected(k, r)
      PROVE  KeepAliveInv'
  <2>1. k \in Nat /\ r \in Nat \ {0} /\ r <= MaxAge
    BY ResponseTimeoutTypes
  <2>2. /\ left' \in [Timers -> {Off} \cup (Nat \ {0})]
        /\ left'["resp"] = Off
        /\ k # 0 => left'["ping"] = k
    BY <1>1, <2>1 DEF Connected, AllOff
  <2>3. /\ up' = TRUE /\ heard' = FALSE /\ pending' = {}
        /\ keepAlive' = k /\ responseTimeout' = r
        /\ sinceSent' = 0 /\ silence' = 0 /\ unanswered' = Off
    BY <1>1 DEF Connected
  <2>4. Types'
    BY <2>1, <2>2, <2>3
  <2>5. PingMeasured'
    BY <2>1, <2>2, <2>3
  <2>6. SilenceMeasured'
    BY <2>1, <2>2, <2>3
  <2>7. ResponseMeasured'
    BY <2>1, <2>2, <2>3
  <2> QED
    BY <2>3, <2>4, <2>5, <2>6, <2>7
<1>2. ASSUME messageSent PROVE KeepAliveInv'
  BY <1>2 DEF messageSent, Restarted
<1>3. ASSUME handlePingresp PROVE KeepAliveInv'
  BY <1>3 DEF handlePingresp, Restarted, Heard
<1>4. ASSUME handleOther PROVE KeepAliveInv'
  BY <1>4 DEF handleOther, Restarted, Heard
<1>5. ASSUME Deleted PROVE KeepAliveInv'
  BY <1>5 DEF Deleted, AllOff
<1>6. ASSUME tick PROVE KeepAliveInv'
  BY <1>6 DEF tick, Older
<1>7. ASSUME NEW t \in Timers, sendPing(t) PROVE KeepAliveInv'
  BY <1>7 DEF sendPing, Pinged, Restarted
<1>8. ASSUME UNCHANGED vars PROVE KeepAliveInv'
  BY <1>8 DEF vars
<1> QED
  BY <1>1, <1>2, <1>3, <1>4, <1>5, <1>6, <1>7, <1>8
  DEF Next, handleDisconnect, pingTimeout

\* The inductive invariant of the keep alive operation.
LEMMA KeepAliveInductive == Spec => []KeepAliveInv
  BY KeepAliveInit, KeepAliveStep, PTL DEF Spec

\* The client is never silent for longer than the interval it announced, when
\* it does not wait for a response for longer than that.
THEOREM PingsInTime == Spec => []PingInTime
<1>1. KeepAliveInv => PingInTime
  BY DEF KeepAliveInv, Types, PingMeasured, PingInTime, Timers, Off
<1> QED
  BY <1>1, KeepAliveInductive, PTL

\* A broker that falls silent is given up in bounded time.
THEOREM SilentBrokerGivenUp == Spec => []SilenceBounded
<1>1. KeepAliveInv => SilenceBounded
  BY DEF KeepAliveInv, Types, SilenceMeasured, SilenceBounded, Timers, Off
<1> QED
  BY <1>1, KeepAliveInductive, PTL

\* A broker that answers every PINGREQ within the response timeout is not.
THEOREM AnsweringBrokerKept == Spec => TimeoutOnlyUnanswered
<1>1. KeepAliveInv /\ [Next]_vars =>
         [up /\ ~up' /\ "resp" \in pending => unanswered >= responseTimeout]_vars
  BY DEF KeepAliveInv, ResponseMeasured
<1> QED
  BY <1>1, KeepAliveInductive, PTL DEF Spec, TimeoutOnlyUnanswered
==============================================================================
