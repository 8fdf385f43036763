------------------------------ MODULE Delivery ------------------------------
(***************************************************************************)
(* What a QoS 1 or QoS 2 exchange promises, whichever side sends: the        *)
(* receiver hands a QoS 2 message over once as long as it remembers it, and  *)
(* the sender is finished only with messages that were handed over.  The     *)
(* client is the receiver in module RecvDelivery and the sender in module    *)
(* SendDelivery; both implement this specification.                          *)
(***************************************************************************)
EXTENDS Naturals

CONSTANT Msgs

VARIABLES
    qos,        \* of every message, fixed from the start
    stage,      \* where the sender is with the message
    times,      \* how often the receiver handed it over: 2 for more, and never
                \* more than 1 for a QoS 1 message
    held,       \* QoS 2 messages the receiver remembers
    early       \* QoS 2 messages it forgot while the sender still offered them

vars == <<qos, stage, times, held, early>>

Stages == {"new", "offered", "released", "done", "failed"}

Init ==
    /\ qos \in [Msgs -> {1, 2}]
    /\ stage = [m \in Msgs |-> "new"]
    /\ times = [m \in Msgs |-> 0]
    /\ held = {}
    /\ early = {}

\* The sender transmits the message for the first time.
Offer(m) ==
    /\ stage[m] = "new"
    /\ stage' = [stage EXCEPT ![m] = "offered"]
    /\ UNCHANGED <<qos, times, held, early>>

\* The receiver stops remembering the messages S.
Forgetting(S, known) ==
    /\ S \subseteq known
    /\ held' = known \ S
    /\ early' = early \cup {m \in S : stage[m] = "offered"}

Forget(S) ==
    /\ Forgetting(S, held)
    /\ UNCHANGED <<qos, stage, times>>

\* The receiver hands the message over and, if its session ends with that,
\* forgets S.  A QoS 1 message may be repeated at any time; a QoS 2 message the
\* sender has given up arrives only if it never did, or was forgotten too early.
Deliver(m, S) ==
    /\ stage[m] # "new"
    /\ qos[m] = 2 => /\ m \notin held
                     /\ \/ stage[m] = "offered"
                        \/ stage[m] = "failed" /\ (times[m] = 0 \/ m \in early)
    /\ times' = [times EXCEPT ![m] = IF @ = 0 \/ qos[m] = 1 THEN 1 ELSE 2]
    /\ Forgetting(S, IF qos[m] = 2 THEN held \cup {m} ELSE held)
    /\ UNCHANGED <<qos, stage>>

\* The sender learns that the QoS 2 message has arrived.
Release(m) ==
    /\ qos[m] = 2 /\ stage[m] = "offered"
    /\ times[m] > 0
    /\ stage' = [stage EXCEPT ![m] = "released"]
    /\ UNCHANGED <<qos, times, held, early>>

\* The exchange ends well for the sender.
Finish(m) ==
    /\ IF qos[m] = 1 THEN stage[m] = "offered" /\ times[m] > 0
                     ELSE stage[m] = "released"
    /\ stage' = [stage EXCEPT ![m] = "done"]
    /\ UNCHANGED <<qos, times, held, early>>

\* The sender gives the messages S up.
Fail(S) ==
    /\ \A m \in S : stage[m] \in {"new", "offered", "released"}
    /\ stage' = [m \in Msgs |-> IF m \in S THEN "failed" ELSE stage[m]]
    /\ UNCHANGED <<qos, times, held, early>>

Next ==
    \/ \E m \in Msgs :
          \/ Offer(m)
          \/ Release(m)
          \/ Finish(m)
          \/ \E S \in SUBSET Msgs : Deliver(m, S)
    \/ \E S \in SUBSET Msgs : Forget(S) \/ Fail(S)

Spec == Init /\ [][Next]_vars

------------------------------------------------------------------------------
(* What follows from it. *)

TypeOK ==
    /\ qos \in [Msgs -> {1, 2}]
    /\ stage \in [Msgs -> Stages]
    /\ times \in [Msgs -> 0 .. 2]
    /\ held \subseteq Msgs
    /\ early \subseteq Msgs

\* A QoS 2 message is handed over a second time only when the receiver forgot
\* it before the sender knew of its arrival.
OnceUnlessForgotten == \A m \in Msgs : qos[m] = 2 /\ times[m] = 2 => m \in early

\* What the sender has released or finished was handed over.
FinishedWasDelivered ==
    \A m \in Msgs : stage[m] \in {"released", "done"} => times[m] > 0
==============================================================================
