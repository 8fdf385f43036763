--------------------------- MODULE Delivery_proofs ---------------------------
(***************************************************************************)
(* The promise of module Delivery, for every set of messages.                *)
(***************************************************************************)
EXTENDS Delivery, TLAPS

\* Why OnceUnlessForgotten is kept: a message that was handed over and is still
\* offered is remembered, unless it was forgotten too early.
Remembered ==
    \A m \in Msgs : /\ qos[m] = 2 /\ stage[m] = "offered" /\ times[m] > 0
                    /\ m \notin early
                    => m \in held

NewWasNotDelivered == \A m \in Msgs : stage[m] = "new" => times[m] = 0

DeliveryInv ==
    /\ TypeOK /\ Remembered /\ NewWasNotDelivered
    /\ OnceUnlessForgotten /\ FinishedWasDelivered

\* The initial states of a delivery satisfy the inductive invariant.
LEMMA DeliveryInvInit == Init => DeliveryInv
  BY DEF Init, DeliveryInv, TypeOK, Stages, Remembered, NewWasNotDelivered,
         OnceUnlessForgotten, FinishedWasDelivered

\* Every step of sender or receiver keeps the inductive invariant.
LEMMA DeliveryInvNext == DeliveryInv /\ [Next]_vars => DeliveryInv'
<1> SUFFICES ASSUME DeliveryInv, [Next]_vars PROVE DeliveryInv'
  OBVIOUS
<1> USE DEF DeliveryInv, TypeOK, Stages, Remembered, NewWasNotDelivered,
            OnceUnlessForgotten, FinishedWasDelivered
<1>1. ASSUME NEW m \in Msgs, Offer(m) PROVE DeliveryInv'
  BY <1>1 DEF Offer
<1>2. ASSUME NEW m \in Msgs, Release(m) PROVE DeliveryInv'
  BY <1>2 DEF Release
<1>3. ASSUME NEW m \in Msgs, Finish(m) PROVE DeliveryInv'
  BY <1>3 DEF Finish
<1>4. ASSUME NEW m \in Msgs, NEW S \in SUBSET Msgs, Deliver(m, S)
      PROVE DeliveryInv'
  BY <1>4 DEF Deliver, Forgetting
<1>5. ASSUME NEW S \in SUBSET Msgs, Forget(S) PROVE DeliveryInv'
  BY <1>5 DEF Forget, Forgetting
<1>6. ASSUME NEW S \in SUBSET Msgs, Fail(S) PROVE DeliveryInv'
  BY <1>6 DEF Fail
<1>7. ASSUME UNCHANGED vars PROVE DeliveryInv'
  BY <1>7 DEF vars
<1> QED
  BY <1>1, <1>2, <1>3, <1>4, <1>5, <1>6, <1>7 DEF Next

\* Whatever sender and receiver do, a QoS 2 message is handed over a second time
\* only if the receiver forgot it before the sender knew of its arrival, and
\* what the sender finished or released was handed over.
THEOREM DeliveryCorrect ==
    Spec => [](TypeOK /\ OnceUnlessForgotten /\ FinishedWasDelivered)
<1>1. DeliveryInv => TypeOK /\ OnceUnlessForgotten /\ FinishedWasDelivered
  BY DEF DeliveryInv
<1> QED
  BY DeliveryInvInit, DeliveryInvNext, <1>1, PTL DEF Spec
==============================================================================
