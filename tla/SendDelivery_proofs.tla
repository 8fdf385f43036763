------------------------- MODULE SendDelivery_proofs -------------------------
(***************************************************************************)
(* The publish engine keeps its books right, for every number of operations, *)
(* packet ids and attempts.  With a conforming broker and as many packet ids *)
(* as messages it implements the promise of module Delivery.                 *)
(***************************************************************************)
EXTENDS SendInvariants, PacketIdOps_proofs, SequenceTheorems

(* The sets that are counted are finite. *)
LEMMA PublishedFinite ==
  /\ IsFiniteSet(Ops) /\ IsFiniteSet(Published)
  /\ Cardinality(Published) \in Nat
<1>1. IsFiniteSet(Ops)
  BY SendOpsAssumption, FS_Interval DEF Ops
<1>2. Published \subseteq Ops
  BY DEF Published
<1> QED  BY <1>1, <1>2, FS_Subset, FS_CardinalityType

(* A fresh or ended operation is a well formed SendOp. *)
LEMMA OpInType ==
  ASSUME NEW st \in {"none", "prepared", "sending", "paused", "published", "gone"}
  PROVE  OpIn(st) \in Op
BY SendOpsAssumption, PacketIdAssumption DEF OpIn, Op, PacketIds

(* The records a transmission leaves behind. *)
LEMMA SentType ==
  ASSUME NEW r \in Op
  PROVE  LET s == [r EXCEPT !.st = "published", !.attempts = 1, !.timer = TRUE]
         IN  /\ s \in Op /\ s.st = "published" /\ s.id = r.id
             /\ s.attempts = 1 /\ s.timer = TRUE /\ s.acked = r.acked
             /\ s.qos = r.qos
<1> DEFINE s == [r EXCEPT !.st = "published", !.attempts = 1, !.timer = TRUE]
<1>1. \A x \in Op : [x EXCEPT !.st = "published"] \in Op
  BY DEF Op
<1>2. \A x \in Op : [x EXCEPT !.attempts = 1] \in Op
  BY SendOpsAssumption DEF Op
<1>3. \A x \in Op : [x EXCEPT !.timer = TRUE] \in Op
  BY DEF Op
<1>4. s \in Op
  BY <1>1, <1>2, <1>3
<1>5. /\ s.st = "published" /\ s.id = r.id /\ s.attempts = 1
      /\ s.timer = TRUE /\ s.acked = r.acked /\ s.qos = r.qos
  BY DEF Op
<1> QED  BY <1>4, <1>5

(* The ids are right as long as no operation enters, leaves or changes its id. *)
LEMMA PacketIdsSame ==
  ASSUME PacketIdsExact, Live' = Live, allocated' = allocated,
         \A p \in Live : op'[p].id = op[p].id
  PROVE  PacketIdsExact'
<1>1. {op'[p].id : p \in Live'} = {op[p].id : p \in Live}
  OBVIOUS
<1> QED  BY <1>1 DEF PacketIdsExact

(* A step that leaves the operations alone keeps their invariant. *)
LEMMA OpsInvSame ==
  ASSUME OpsInv, UNCHANGED opsVars
  PROVE  OpsInv'
BY DEF OpsInv, opsVars, OpsTypeOK, InFlightExact, PacketIdsExact, AwaitsAnswer,
       FieldsOfStates, Live, Published

(* An operation leaves m_sendOps. *)
LEMMA OpsInvErased ==
  ASSUME OpsInv, NEW o \in Live, Erased(o)
  PROVE  OpsInv'
<1> USE DEF OpsInv
<1>1. o \in Ops /\ op' = [op EXCEPT ![o] = OpIn("gone")]
  BY DEF Live, Erased
<1>2. op' \in [Ops -> Op]
  BY <1>1, OpInType DEF OpsTypeOK
<1>3. Live' = Live \ {o} /\ Published' = Published \ {o}
  BY <1>1 DEF Live, Published, OpsTypeOK, OpIn
<1>4. \A p \in Ops : p # o => op'[p] = op[p]
  BY <1>1 DEF OpsTypeOK
<1>5. InFlightExact' /\ inFlight' \in Nat
  <2>1. CASE op[o].st = "published"
    <3>1. o \in Published
      BY <1>1, <2>1 DEF Published
    <3>2. Cardinality(Published') = Cardinality(Published) - 1
      BY <1>3, <3>1, PublishedFinite, FS_RemoveElement
    <3>3. IsFiniteSet(Published')
      BY <1>3, PublishedFinite, FS_Subset
    <3>4. Cardinality(Published') \in Nat
      BY <3>3, FS_CardinalityType
    <3> QED  BY <2>1, <3>2, <3>4, PublishedFinite DEF InFlightExact, Erased
  <2>2. CASE op[o].st # "published"
    <3>1. o \notin Published
      BY <2>2 DEF Published
    <3> QED  BY <1>3, <2>2, <3>1 DEF InFlightExact, Erased, OpsTypeOK
  <2> QED  BY <2>1, <2>2
<1>6. PacketIdsExact' /\ allocated' \subseteq PacketIds
  <2>1. allocated' = IF op[o].id = 0 THEN allocated ELSE allocated \ {op[o].id}
    BY DEF Erased, ReleasePacketId
  <2>2. \A p \in Live' : p \in Live /\ p \in Ops /\ op'[p] = op[p] /\ p # o
    BY <1>3, <1>4 DEF Live
  <2>3. \A p, q \in Live' : op'[p].id = op'[q].id /\ op'[p].id # 0 => p = q
    BY <2>2 DEF PacketIdsExact
  <2>4. {op'[p].id : p \in Live'} = {op[p].id : p \in Live \ {o}}
    BY <1>3, <2>2
  <2>5. allocated' \ {0} = {op[p].id : p \in Live \ {o}} \ {0}
    BY <2>1 DEF PacketIdsExact
  <2> QED  BY <2>1, <2>3, <2>4, <2>5 DEF PacketIdsExact, OpsTypeOK
<1>7. AwaitsAnswer' /\ FieldsOfStates'
  <2>1. op'[o] = OpIn("gone")
    BY <1>1 DEF OpsTypeOK
  <2> QED  BY <1>3, <1>4, <2>1 DEF AwaitsAnswer, FieldsOfStates, OpIn, Published
<1> QED  BY <1>2, <1>5, <1>6, <1>7 DEF OpsTypeOK

(* Every operation leaves m_sendOps at once. *)
LEMMA OpsInvCleared ==
  ASSUME OpsInv,
         op' = [o \in Ops |-> IF o \in Live THEN OpIn("gone") ELSE op[o]],
         inFlight' = inFlight - Cardinality(Published),
         allocated' = ReleasePacketIds(allocated, {op[o].id : o \in Live})
  PROVE  OpsInv'
<1> USE DEF OpsInv
<1>1. op' \in [Ops -> Op]
  BY OpInType DEF OpsTypeOK
<1>2. Live' = {} /\ Published' = {}
  BY DEF Live, Published, OpIn
<1>3. inFlight' = 0 /\ Cardinality(Published') = 0
  BY <1>2, FS_EmptySet, PublishedFinite DEF InFlightExact
<1>4. allocated' \subseteq {0} /\ allocated' \subseteq allocated
  BY DEF ReleasePacketIds, PacketIdsExact
<1>5. FieldsOfStates'
  BY DEF FieldsOfStates, Live, OpIn
<1> QED  BY <1>1, <1>2, <1>3, <1>4, <1>5
         DEF OpsTypeOK, InFlightExact, PacketIdsExact, AwaitsAnswer

(* A transmitted operation is transmitted again or acknowledged. *)
LEMMA OpsInvTouched ==
  ASSUME OpsInv, NEW o \in Published, NEW r \in Op,
         r.st = "published", r.id = op[o].id,
         r.attempts \in 1 .. MaxAttempts, r.timer,
         op' = [op EXCEPT ![o] = r], UNCHANGED <<inFlight, allocated>>
  PROVE  OpsInv'
<1> USE DEF OpsInv
<1>1. o \in Ops /\ op'[o] = r /\ \A p \in Ops : p # o => op'[p] = op[p]
  BY DEF Published, OpsTypeOK
<1>2. op' \in [Ops -> Op]
  BY DEF OpsTypeOK
<1>3. Published' = Published /\ Live' = Live /\ o \in Live
  BY <1>1 DEF Published, Live
<1>4. \A p \in Live : op'[p].id = op[p].id
  BY <1>1 DEF Live
<1>6. PacketIdsExact'
  BY <1>3, <1>4, PacketIdsSame
<1>7. AwaitsAnswer' /\ FieldsOfStates'
  BY <1>1, <1>3 DEF AwaitsAnswer, FieldsOfStates, Published
<1> QED  BY <1>2, <1>3, <1>6, <1>7 DEF OpsTypeOK, InFlightExact

(* An operation that was paused, or whose send() let timers run, is transmitted *)
(* for the first time.                                                          *)
LEMMA OpsInvPublished ==
  ASSUME OpsInv, NEW o \in Paused \cup Sending,
         op' = [op EXCEPT ![o].st = "published",
                          ![o].attempts = 1, ![o].timer = TRUE],
         inFlight' = inFlight + 1, UNCHANGED allocated
  PROVE  OpsInv'
<1> USE DEF OpsInv
<1>1. /\ o \in Ops
      /\ op'[o] = [op[o] EXCEPT !.st = "published", !.attempts = 1,
                                !.timer = TRUE]
      /\ \A p \in Ops : p # o => op'[p] = op[p]
  BY DEF Paused, Sending, OpsTypeOK
<1>2. op' \in [Ops -> Op]
  <2>1. op[o] \in Op
    BY <1>1 DEF OpsTypeOK
  <2>2. op'[o] \in Op
    BY <1>1, <2>1, SentType
  <2>3. op' = [op EXCEPT ![o] = op'[o]]
    BY <1>1 DEF OpsTypeOK
  <2> QED  BY <2>2, <2>3 DEF OpsTypeOK
<1>3. /\ Published' = Published \cup {o} /\ o \notin Published
      /\ Live' = Live /\ o \in Live
  BY <1>1 DEF Published, Paused, Sending, Live, OpsTypeOK, Op
<1>4. InFlightExact'
  BY <1>3, PublishedFinite, FS_AddElement DEF InFlightExact
<1>5. \A p \in Live : op'[p].id = op[p].id
  BY <1>1 DEF Live, OpsTypeOK, Op
<1>7. PacketIdsExact'
  BY <1>3, <1>5, PacketIdsSame
<1>8. AwaitsAnswer' /\ FieldsOfStates'
  BY <1>1, <1>3, SendOpsAssumption
     DEF AwaitsAnswer, FieldsOfStates, Published, OpsTypeOK, Op
<1> QED  BY <1>2, <1>4, <1>7, <1>8 DEF OpsTypeOK

(* The response timers are suspended. *)
LEMMA OpsInvSuspended ==
  ASSUME OpsInv,
         op' = [o \in Ops |-> [op[o] EXCEPT
                    !.suspended = op[o].timer \/ op[o].suspended]],
         UNCHANGED <<inFlight, allocated>>
  PROVE  OpsInv'
<1> USE DEF OpsInv
<1>1. op' \in [Ops -> Op]
  BY DEF OpsTypeOK, Op
<1>2. \A o \in Ops : /\ op'[o].st = op[o].st /\ op'[o].id = op[o].id
                     /\ op'[o].attempts = op[o].attempts
                     /\ op'[o].timer = op[o].timer
                     /\ op'[o].acked = op[o].acked
  BY DEF OpsTypeOK, Op
<1>3. Published' = Published /\ Live' = Live
  BY <1>2 DEF Published, Live
<1>4. \A o \in Live : op'[o].id = op[o].id
  BY <1>2 DEF Live
<1>5. PacketIdsExact'
  BY <1>3, <1>4, PacketIdsSame
<1>6. AwaitsAnswer'
  BY <1>2, <1>3 DEF AwaitsAnswer, Published
<1>7. FieldsOfStates'
  BY <1>2 DEF FieldsOfStates
<1> QED  BY <1>1, <1>3, <1>5, <1>6, <1>7 DEF OpsTypeOK, InFlightExact

(* A new operation enters m_sendOps: it holds no packet id and no slot. *)
LEMMA OpsInvPrepared ==
  ASSUME OpsInv, NEW o \in Ops, op[o].st = "none", NEW q \in 0 .. 2,
         op' = [op EXCEPT ![o] = [OpIn("prepared") EXCEPT !.qos = q]],
         UNCHANGED <<inFlight, allocated>>
  PROVE  OpsInv'
<1> USE DEF OpsInv
<1> DEFINE r == [OpIn("prepared") EXCEPT !.qos = q]
<1>1. r \in Op /\ r.st = "prepared" /\ r.id = 0 /\ r.acked = FALSE
      /\ r.timer = FALSE
  BY OpInType DEF OpIn, Op
<1>2. op'[o] = r /\ \A p \in Ops : p # o => op'[p] = op[p]
  BY DEF OpsTypeOK
<1>3. op' \in [Ops -> Op]
  BY <1>1 DEF OpsTypeOK
<1>4. Published' = Published /\ Live' = Live \cup {o} /\ o \notin Live
  BY <1>1, <1>2 DEF Published, Live
<1>5. {op'[p].id : p \in Live'} = {op[p].id : p \in Live} \cup {0}
  BY <1>1, <1>2, <1>4 DEF Live
<1>6. PacketIdsExact'
  BY <1>1, <1>2, <1>4, <1>5 DEF PacketIdsExact, Live
<1>7. AwaitsAnswer' /\ FieldsOfStates'
  BY <1>1, <1>2, <1>4 DEF AwaitsAnswer, FieldsOfStates, Published
<1> QED  BY <1>3, <1>4, <1>6, <1>7 DEF OpsTypeOK, InFlightExact

(* The packets of the publish engine are well formed. *)
LEMMA PacketsTyped ==
  /\ NoPacket \in PacketTypes
  /\ \A t \in {"none", "CONNECT", "PUBLISH", "PUBREL", "DISCONNECT"} :
     \A o \in 0 .. MaxOps : \A d \in BOOLEAN : Packet(t, o, d) \in PacketTypes
BY SendOpsAssumption DEF NoPacket, Packet, PacketTypes

(* So are the calls that handlers start or return to. *)
LEMMA CallsTyped ==
  /\ CallOK(NoCall) /\ CallOK(Guarded)
  /\ CallOK([Guarded EXCEPT !.closing = TRUE])
<1>1. CallOK(NoCall)
  BY SendOpsAssumption DEF CallOK, CallTypes, NoCall
<1>2. ASSUME NEW c, CallOK(c)
      PROVE  CallOK([c EXCEPT !.guarded = TRUE])
  BY <1>2 DEF CallOK, CallTypes
<1>3. ASSUME NEW c, CallOK(c), NEW b \in BOOLEAN
      PROVE  CallOK([c EXCEPT !.closing = b])
  BY <1>3 DEF CallOK, CallTypes
<1> QED  BY <1>1, <1>2, <1>3 DEF Guarded

(* Asking for a resumption keeps the call well formed. *)
LEMMA ResumingTyped ==
  ASSUME NEW o \in Ops, NEW from, CallOK(from)
  PROVE  CallOK(Resuming(o, from))
<1>1. \A n \in 0 .. MaxOps : CallOK([from EXCEPT !.resume = n])
  BY DEF CallOK, CallTypes
<1> QED  BY <1>1, SendOpsAssumption DEF Resuming, Ops

(* So does noting a callback that is to run. *)
LEMMA ReportedTyped ==
  ASSUME NEW o, NEW from, CallOK(from)
  PROVE  CallOK(Reported(o, from))
<1>1. from.cbs + 1 \in Nat
  BY DEF CallOK, CallTypes
<1>2. \A n \in Nat : CallOK([from EXCEPT !.cbs = n])
  BY DEF CallOK, CallTypes
<1>3. CallOK([from EXCEPT !.cbs = from.cbs + 1])
  BY <1>1, <1>2
<1> QED  BY <1>3 DEF Reported

(* opComplete() of one operation keeps the books. *)
LEMMA StepInvComplete ==
  ASSUME OpsInv, nulls \subseteq Ops, NEW o \in Live, NEW from, CallOK(from),
         Complete(o, from), out' = NoPacket \/ out' = Packet("PUBLISH", o, FALSE)
  PROVE  StepInv'
<1>1. o \in Ops /\ o \in 0 .. MaxOps
  BY SendOpsAssumption DEF Live, Ops
<1>2. OpsInv'
  BY OpsInvErased DEF Complete
<1>3. CallOK(call')
  BY <1>1, ResumingTyped DEF Complete
<1>4. nulls' \subseteq Ops
  BY <1>1 DEF Complete
<1>5. out' \in PacketTypes
  BY <1>1, PacketsTyped
<1> QED  BY <1>2, <1>3, <1>4, <1>5 DEF StepInv

(* completeWithCb() keeps the books. *)
LEMMA StepInvCompleteWithCb ==
  ASSUME OpsInv, nulls \subseteq Ops, NEW o \in Live, NEW from, CallOK(from),
         CompleteWithCb(o, from),
         out' = NoPacket \/ out' = Packet("PUBLISH", o, FALSE)
  PROVE  StepInv'
<1> DEFINE to == IF op[o].st = "prepared" THEN from ELSE Reported(o, from)
<1>1. CallOK(to)
  BY ReportedTyped
<1>2. Complete(o, to)
  BY DEF CompleteWithCb
<1> HIDE DEF to
<1> QED  BY <1>1, <1>2, StepInvComplete

(* A resent packet is well formed. *)
LEMMA DupTyped ==
  ASSUME NEW o \in Ops
  PROVE  DupPacket(o) \in PacketTypes
<1>1. o \in 0 .. MaxOps
  BY SendOpsAssumption DEF Ops
<1> QED  BY <1>1, PacketsTyped DEF DupPacket

(* resendDupMsg() keeps the books: a further attempt is counted, or the operation ends. *)
LEMMA StepInvResendDup ==
  ASSUME OpsInv, nulls \subseteq Ops, NEW o \in Published, NEW from,
         CallOK(from), ResendDupMsg(o, from)
  PROVE  StepInv'
<1>1. o \in Live /\ o \in Ops
  BY DEF Published, Live
<1>2. CASE attemptsExhausted(o) \/ (resendsPublish(o) /\ ~fits(o))
  BY <1>1, <1>2, StepInvCompleteWithCb DEF ResendDupMsg
<1>3. CASE ~(attemptsExhausted(o) \/ (resendsPublish(o) /\ ~fits(o)))
  <2> DEFINE r == [op[o] EXCEPT !.attempts = @ + 1, !.timer = TRUE]
  <2>1. op[o] \in Op /\ op[o].attempts \in 1 .. MaxAttempts - 1
    BY <1>1, <1>3, SendOpsAssumption
       DEF OpsInv, OpsTypeOK, AwaitsAnswer, attemptsExhausted
  <2>2. \A x \in Op : [x EXCEPT !.timer = TRUE] \in Op
    BY DEF Op
  <2>3. \A x \in Op : \A n \in 0 .. MaxAttempts : [x EXCEPT !.attempts = n] \in Op
    BY DEF Op
  <2>4. op[o].attempts + 1 \in 1 .. MaxAttempts
    BY <2>1, SendOpsAssumption
  <2>5. r \in Op
    <3>1. [op[o] EXCEPT !.attempts = op[o].attempts + 1] \in Op
      BY <2>1, <2>3, <2>4, SendOpsAssumption
    <3>2. r = [[op[o] EXCEPT !.attempts = op[o].attempts + 1] EXCEPT !.timer = TRUE]
      OBVIOUS
    <3> QED  BY <2>2, <3>1, <3>2
  <2>6. /\ r.st = "published" /\ r.id = op[o].id
        /\ r.attempts = op[o].attempts + 1 /\ r.timer
    BY <2>1 DEF Op, Published
  <2>7. op' = [op EXCEPT ![o] = r] /\ UNCHANGED <<inFlight, allocated>>
    BY <1>3 DEF ResendDupMsg
  <2> HIDE DEF r
  <2>8. OpsInv'
    BY <2>4, <2>5, <2>6, <2>7, OpsInvTouched
  <2> QED  BY <1>1, <1>3, <2>8, DupTyped DEF ResendDupMsg, StepInv
<1> QED  BY <1>2, <1>3

(* doSendInternal() keeps the books. *)
LEMMA StepInvDoSend ==
  ASSUME OpsInv, nulls \subseteq Ops, NEW o \in Paused \cup Sending, NEW from,
         CallOK(from), DoSend(o, from)
  PROVE  StepInv'
<1>1. o \in Live /\ o \in 0 .. MaxOps
  BY SendOpsAssumption DEF Paused, Sending, Live, Ops
<1>2. CASE ~fits(o) \/ op[o].qos = 0
  BY <1>1, <1>2, StepInvCompleteWithCb DEF DoSend
<1>3. CASE fits(o) /\ op[o].qos # 0
  <2>1. OpsInv'
    BY <1>3, OpsInvPublished DEF DoSend
  <2> QED  BY <1>1, <1>3, <2>1, PacketsTyped DEF DoSend, StepInv
<1> QED  BY <1>2, <1>3

(* brokerDisconnected() keeps the books, with and without a kept session. *)
LEMMA OpsInvBrokerDisconnected ==
  ASSUME OpsInv, nulls \subseteq Ops, BrokerDisconnected
  PROVE  OpsInv' /\ nulls' \subseteq Ops
<1>1. CASE session.expiry # "zero" /\ Live # {}
  BY <1>1, OpsInvSuspended DEF BrokerDisconnected
<1>2. CASE ~(session.expiry # "zero" /\ Live # {})
  BY <1>2, OpsInvCleared DEF BrokerDisconnected, Live
<1> QED  BY <1>1, <1>2

(* A prepared operation takes its packet id and waits or is transmitted. *)
LEMMA OpsInvSent ==
  ASSUME OpsInv, NEW o \in Ops, op[o].st = "prepared",
         NEW id \in PacketIds, id # 0 => id \notin allocated,
         NEW r \in Op, r.id = id, ~r.acked,
         \/ r.st \in {"paused", "sending"} /\ ~r.timer /\ inFlight' = inFlight
         \/ /\ r.st = "published" /\ inFlight' = inFlight + 1
            /\ r.attempts = 1 /\ r.timer,
         op' = [op EXCEPT ![o] = r],
         allocated' \subseteq PacketIds,
         allocated' \ {0} = (allocated \cup {id}) \ {0}
  PROVE  OpsInv'
<1> USE DEF OpsInv
<1>1. op'[o] = r /\ \A p \in Ops : p # o => op'[p] = op[p]
  BY DEF OpsTypeOK
<1>2. op' \in [Ops -> Op]
  BY DEF OpsTypeOK
<1>3. o \in Live /\ op[o].id = 0 /\ o \notin Published
  BY DEF Live, Published, FieldsOfStates
<1>4. Live' = Live
  BY <1>1, <1>3 DEF Live
<1>5. InFlightExact' /\ inFlight' \in Nat
  <2>1. CASE r.st \in {"paused", "sending"}
    <3>1. Published' = Published
      BY <1>1, <1>3, <2>1 DEF Published
    <3> QED  BY <2>1, <3>1 DEF InFlightExact, OpsTypeOK
  <2>2. CASE r.st = "published"
    <3>1. Published' = Published \cup {o}
      BY <1>1, <1>3, <2>2 DEF Published
    <3>2. Cardinality(Published') = Cardinality(Published) + 1
      BY <1>3, <3>1, PublishedFinite, FS_AddElement
    <3>3. inFlight' = inFlight + 1
      BY <2>2
    <3> QED  BY <3>2, <3>3 DEF InFlightExact, OpsTypeOK
  <2> QED  BY <2>1, <2>2
<1>6. \A p \in Live : p # o => op'[p].id = op[p].id
  BY <1>1 DEF Live
<1>7. {op'[p].id : p \in Live} \ {0} = ({op[p].id : p \in Live} \cup {id}) \ {0}
  BY <1>1, <1>3, <1>6
<1>8. \A p, q \in Live : op'[p].id = op'[q].id /\ op'[p].id # 0 => p = q
  <2>1. \A p \in Live : p # o /\ op'[p].id # 0 => op'[p].id \in allocated
    BY <1>6 DEF PacketIdsExact
  <2> QED  BY <1>1, <1>6, <2>1 DEF PacketIdsExact
<1>9. PacketIdsExact'
  BY <1>4, <1>7, <1>8 DEF PacketIdsExact
<1>10. AwaitsAnswer' /\ FieldsOfStates'
  <2>1. \A p \in Published' : p = o \/ p \in Published
    BY <1>1 DEF Published
  <2> QED  BY <1>1, <2>1, SendOpsAssumption DEF AwaitsAnswer, FieldsOfStates, Published
<1> QED  BY <1>2, <1>5, <1>9, <1>10 DEF OpsTypeOK

(* A prepared operation ends in send(): QoS 0, or too large to transmit. *)
LEMMA OpsInvDropped ==
  ASSUME OpsInv, NEW o \in Ops, op[o].st = "prepared",
         op' = [op EXCEPT ![o] = OpIn("gone")], inFlight' = inFlight,
         allocated' \subseteq PacketIds, allocated' \ {0} = allocated \ {0}
  PROVE  OpsInv'
<1> USE DEF OpsInv
<1>1. op'[o] = OpIn("gone") /\ \A p \in Ops : p # o => op'[p] = op[p]
  BY DEF OpsTypeOK
<1>2. op' \in [Ops -> Op]
  BY OpInType DEF OpsTypeOK
<1>3. Live' = Live \ {o} /\ Published' = Published /\ o \in Live /\ op[o].id = 0
  BY <1>1 DEF Live, Published, OpIn, FieldsOfStates
<1>4. \A p \in Live' : op'[p].id = op[p].id
  BY <1>1, <1>3 DEF Live
<1>5. {op'[p].id : p \in Live'} \ {0} = {op[p].id : p \in Live} \ {0}
  BY <1>3, <1>4
<1>6. PacketIdsExact'
  BY <1>3, <1>4, <1>5 DEF PacketIdsExact
<1>7. AwaitsAnswer' /\ FieldsOfStates'
  BY <1>1, <1>3 DEF AwaitsAnswer, FieldsOfStates, Published, OpIn
<1> QED  BY <1>2, <1>3, <1>6, <1>7 DEF OpsTypeOK, InFlightExact

(* The packet id a publish takes is free. *)
LEMMA SendIdFree ==
  ASSUME OpsInv, lastId \in PacketIds, NEW o \in Ops
  PROVE  /\ SendId(o).id \in PacketIds /\ SendId(o).last \in PacketIds
         /\ SendId(o).used \subseteq PacketIds
         /\ SendId(o).id # 0 => SendId(o).id \notin allocated
         /\ SendId(o).used \ {0} = (allocated \cup {SendId(o).id}) \ {0}
<1>1. allocated \subseteq PacketIds
  BY DEF OpsInv, OpsTypeOK
<1>2. CASE op[o].qos = 0
  BY <1>1, <1>2, PacketIdAssumption DEF PacketIds, SendId
<1>3. CASE op[o].qos # 0
  BY <1>1, <1>3, AllocEffect DEF SendId
<1> QED  BY <1>2, <1>3

(* send() keeps the books: the id is free, the slot counted once. *)
LEMMA StepInvSend ==
  ASSUME OpsInv, lastId \in PacketIds, nulls \subseteq Ops, CallOK(call),
         NEW o \in Ops, Send(o)
  PROVE  StepInv' /\ lastId' \in PacketIds
<1> DEFINE a == SendId(o)
           sent == [op EXCEPT ![o].id = a.id]
           entered == IF call = NoCall THEN Guarded ELSE call
<1>1. op[o].st = "prepared" /\ op[o] \in Op /\ op[o].id = 0 /\ o \in 0 .. MaxOps
      /\ ~op[o].acked /\ ~op[o].timer
  BY SendOpsAssumption DEF Send, OpsInv, OpsTypeOK, FieldsOfStates, Ops
<1>2. allocated \subseteq PacketIds
  BY DEF OpsInv, OpsTypeOK
<1>3. /\ a.id \in PacketIds /\ a.last \in PacketIds
      /\ a.used \subseteq PacketIds
      /\ a.id # 0 => a.id \notin allocated
      /\ a.used \ {0} = (allocated \cup {a.id}) \ {0}
  BY SendIdFree
<1>4. /\ lastId' = a.last
      /\ op[o].qos = 0 => a.id = 0 /\ a.used = allocated
  BY DEF Send, SendId
<1> DEFINE w == [op[o] EXCEPT !.id = a.id, !.st = "paused"]
           t == [op[o] EXCEPT !.id = a.id, !.st = "published", !.attempts = 1,
                              !.timer = TRUE]
<1>5. CASE ~canSend(o)
  <2>1. /\ op' = [sent EXCEPT ![o].st = "paused"]
        /\ allocated' = a.used /\ out' = NoPacket
        /\ UNCHANGED <<inFlight, nulls, call>>
    BY <1>5 DEF Send
  <2>2. op' = [op EXCEPT ![o] = w]
    BY <1>1, <2>1 DEF OpsInv, OpsTypeOK
  <2>3. w \in Op /\ w.id = a.id /\ w.st = "paused" /\ ~w.acked /\ ~w.timer
    <3> HIDE DEF a
    <3>1. \A x \in Op : \A n \in PacketIds : [x EXCEPT !.id = n] \in Op
      BY DEF Op
    <3>2. \A x \in Op : [x EXCEPT !.st = "paused"] \in Op
      BY DEF Op
    <3>3. w = [[op[o] EXCEPT !.id = a.id] EXCEPT !.st = "paused"]
      OBVIOUS
    <3>4. w \in Op
      BY <1>1, <1>3, <3>1, <3>2, <3>3
    <3> QED  BY <1>1, <3>4 DEF Op
  <2> HIDE DEF a, w
  <2>4. OpsInv'
    BY <1>1, <1>3, <2>1, <2>2, <2>3, OpsInvSent
  <2> QED  BY <1>3, <1>4, <2>1, <2>4, PacketsTyped DEF StepInv
<1>6. CASE canSend(o) /\ (~fits(o) \/ op[o].qos = 0)
  <2>1. /\ op' = [op EXCEPT ![o] = OpIn("gone")] /\ UNCHANGED inFlight
        /\ allocated' = a.used \/ allocated' = ReleasePacketId(a.used, a.id)
        /\ op[o].qos # 0 => allocated' = ReleasePacketId(a.used, a.id)
    BY <1>6 DEF Send
  <2>2. /\ nulls' = {o} \/ nulls' = nulls \cup {o}
        /\ \/ call' = Resuming(o, call)
           \/ call' = Resuming(o, Reported(o, entered))
        /\ out' = NoPacket \/ out' = Packet("PUBLISH", o, FALSE)
    BY <1>6 DEF Send
  <2> HIDE DEF a
  <2>3. allocated' \subseteq PacketIds /\ allocated' \ {0} = allocated \ {0}
    BY <1>2, <1>3, <1>4, <2>1 DEF ReleasePacketId
  <2>4. OpsInv'
    BY <1>1, <2>1, <2>3, OpsInvDropped
  <2>5. CallOK(call') /\ out' \in PacketTypes
    <3>1. CallOK(Reported(o, entered))
      BY CallsTyped, ReportedTyped
    <3> HIDE DEF entered
    <3> QED  BY <1>1, <2>2, <3>1, ResumingTyped, PacketsTyped
  <2> QED  BY <1>3, <1>4, <2>2, <2>4, <2>5 DEF StepInv
<1>7. CASE canSend(o) /\ fits(o) /\ op[o].qos # 0
  <2>1. /\ op' = [sent EXCEPT ![o].st = "published", ![o].attempts = 1,
                              ![o].timer = TRUE]
        /\ allocated' = a.used /\ out' = Packet("PUBLISH", o, FALSE)
        /\ inFlight' = inFlight + 1 /\ call' = entered /\ UNCHANGED nulls
    BY <1>7 DEF Send
  <2>2. op' = [op EXCEPT ![o] = t]
    BY <1>1, <2>1 DEF OpsInv, OpsTypeOK
  <2>3. /\ t \in Op /\ t.id = a.id /\ t.st = "published" /\ ~t.acked
        /\ t.attempts = 1 /\ t.timer
    <3> HIDE DEF a
    <3>1. \A x \in Op : \A n \in PacketIds : [x EXCEPT !.id = n] \in Op
      BY DEF Op
    <3> DEFINE u == [op[o] EXCEPT !.id = a.id]
    <3>2. u \in Op /\ u.id = a.id /\ ~u.acked
      BY <1>1, <1>3, <3>1 DEF Op
    <3>3. t = [u EXCEPT !.st = "published", !.attempts = 1, !.timer = TRUE]
      OBVIOUS
    <3> HIDE DEF u, t
    <3> QED  BY <3>2, <3>3, SentType
  <2> HIDE DEF a, t
  <2>4. OpsInv'
    BY <1>1, <1>3, <2>1, <2>2, <2>3, OpsInvSent
  <2> QED  BY <1>1, <1>3, <1>4, <2>1, <2>4, PacketsTyped, CallsTyped DEF StepInv
<1> QED  BY <1>5, <1>6, <1>7
------------------------------------------------------------------------------
(* The whole inductive invariant and its preservation, action by action. *)

(* The inductive invariant contains the types. *)
LEMMA IndInvTypeOK == IndInv => TypeOK
BY DEF IndInv, StepInv, OpsInv, OpsTypeOK, RestTypeOK, SessionTypes, CallOK,
       CallTypes, PacketTypes, TypeOK

(* A reset session is well formed. *)
LEMMA NewSessionTyped == NewSession \in SessionTypes
BY DEF NewSession, SessionTypes

(* The library starts with its books in order. *)
LEMMA IndInvInit == Init => IndInv
<1> SUFFICES ASSUME Init PROVE IndInv
  OBVIOUS
<1>1. \A o \in Ops : op[o] = OpIn("none")
  BY DEF Init
<1>2. op \in [Ops -> Op]
  BY OpInType DEF Init
<1>3. Live = {} /\ Published = {}
  BY <1>1 DEF Live, Published, OpIn
<1>4. inFlight = 0 /\ Cardinality(Published) = 0
  BY <1>3, FS_EmptySet DEF Init
<1>5. PacketIdsExact /\ AwaitsAnswer
  BY <1>3 DEF PacketIdsExact, AwaitsAnswer, Init
<1>6. FieldsOfStates
  BY <1>1 DEF FieldsOfStates, OpIn
<1>7. OpsInv
  BY <1>2, <1>4, <1>5, <1>6 DEF OpsInv, OpsTypeOK, InFlightExact, Init
<1>8. StepInv
  BY <1>7, CallsTyped, PacketsTyped DEF StepInv, Init
<1>9. 0 \in PacketIds
  BY PacketIdAssumption DEF PacketIds
<1>10. RestTypeOK
  BY <1>9, NewSessionTyped DEF RestTypeOK, Init
<1> QED  BY <1>8, <1>10 DEF IndInv

(* Steps that leave the operations alone. *)
LEMMA StepInvQuiet ==
  ASSUME StepInv, UNCHANGED opsVars, nulls' \subseteq Ops, CallOK(call'),
         out' \in PacketTypes
  PROVE  StepInv'
BY OpsInvSame DEF StepInv

(* CONNECT and DISCONNECT are well formed packets. *)
LEMMA ControlPacketsTyped ==
  /\ Packet("CONNECT", 0, FALSE) \in PacketTypes
  /\ Packet("PUBREL", 0, FALSE) \in PacketTypes
  /\ Packet("DISCONNECT", 0, FALSE) \in PacketTypes
<1>1. 0 \in 0 .. MaxOps
  BY SendOpsAssumption
<1> QED  BY <1>1, PacketsTyped

(* The position of a loop: one field of the call at a time. *)
LEMMA LoopTyped ==
  ASSUME NEW l \in {"none", "resend", "reconnect", "abort"},
         NEW n \in 0 .. MaxOps + 1, NEW m \in 0 .. MaxOps,
         l \in {"resend", "abort"} => n \in 1 .. m,
         l = "reconnect" => n \in 1 .. MaxOps + 1
  PROVE  \A c \in CallTypes :
            CallOK([c EXCEPT !.loop = l, !.at = n, !.upto = m])
<1> TAKE c \in CallTypes
<1> DEFINE d1 == [c EXCEPT !.loop = l]
           d2 == [d1 EXCEPT !.at = n]
           d3 == [d2 EXCEPT !.upto = m]
<1>1. d1 \in CallTypes /\ d1.loop = l
  BY DEF CallTypes
<1>2. d3 = [c EXCEPT !.loop = l, !.at = n, !.upto = m]
  OBVIOUS
<1> HIDE DEF d1
<1>3. d2 \in CallTypes /\ d2.loop = l /\ d2.at = n
  BY <1>1 DEF CallTypes
<1> HIDE DEF d2
<1>4. d3 \in CallTypes /\ d3.loop = l /\ d3.at = n /\ d3.upto = m
  BY <1>3 DEF CallTypes
<1>5. CallOK(d3)
  BY <1>4 DEF CallOK
<1> QED  BY <1>2, <1>5

(* One lemma for each action: setPublishOrdering(). *)
LEMMA IndInvSetOrdering ==
  ASSUME IndInv, NEW full \in BOOLEAN, setPublishOrdering(full)
  PROVE  IndInv'
<1>1. StepInv'
  BY StepInvQuiet, PacketsTyped
     DEF setPublishOrdering, IndInv, StepInv, opsVars, id_vars
<1>2. RestTypeOK'
  BY DEF setPublishOrdering, IndInv, RestTypeOK, session_vars, id_vars
<1> QED  BY <1>1, <1>2 DEF IndInv

(* publishPrepare(). *)
LEMMA IndInvPrepare ==
  ASSUME IndInv, NEW o \in Ops, NEW q \in Qoses, Prepare(o, q)
  PROVE  IndInv'
<1>1. OpsInv'
  BY OpsInvPrepared, SendOpsAssumption DEF Prepare, IndInv, StepInv, id_vars
<1>2. StepInv'
  BY <1>1, PacketsTyped DEF Prepare, IndInv, StepInv
<1>3. RestTypeOK'
  BY DEF Prepare, IndInv, RestTypeOK, session_vars, id_vars
<1> QED  BY <1>2, <1>3 DEF IndInv

(* SendOp::send(). *)
LEMMA IndInvSend ==
  ASSUME IndInv, NEW o \in Ops, Send(o)
  PROVE  IndInv'
<1>1. StepInv' /\ lastId' \in PacketIds
  BY StepInvSend DEF IndInv, StepInv, RestTypeOK
<1>2. RestTypeOK'
  BY <1>1 DEF Send, IndInv, RestTypeOK, session_vars
<1> QED  BY <1>1, <1>2 DEF IndInv

(* SendOp::cancel(). *)
LEMMA IndInvCancel ==
  ASSUME IndInv, NEW o \in Ops, Cancel(o)
  PROVE  IndInv'
<1>1. StepInv'
  BY StepInvComplete, CallsTyped DEF Cancel, IndInv, StepInv
<1>2. RestTypeOK'
  BY DEF Cancel, IndInv, RestTypeOK, session_vars
<1> QED  BY <1>1, <1>2 DEF IndInv

(* connectPrepare() and ConnectOp::send(). *)
LEMMA IndInvConnect ==
  ASSUME IndInv, Connect
  PROVE  IndInv'
<1>1. out' \in PacketTypes
  BY PacketsTyped, ControlPacketsTyped DEF Connect
<1>2. StepInv'
  BY <1>1, StepInvQuiet DEF Connect, IndInv, StepInv, opsVars, id_vars
<1>3. RestTypeOK'
  BY NewSessionTyped
     DEF Connect, ConnectPrepare, IndInv, RestTypeOK, session_vars, id_vars
<1> QED  BY <1>2, <1>3 DEF IndInv

(* A connect operation that ends without a connection. *)
LEMMA IndInvConnectFails ==
  ASSUME IndInv, ConnectFails
  PROVE  IndInv'
<1>1. StepInv'
  BY StepInvQuiet, PacketsTyped, CallsTyped
     DEF ConnectFails, IndInv, StepInv, opsVars, id_vars
<1>2. RestTypeOK'
  BY NewSessionTyped DEF ConnectFails, IndInv, RestTypeOK, id_vars
<1> QED  BY <1>1, <1>2 DEF IndInv

(* brokerDisconnected() keeps the types of the session. *)
LEMMA BrokerDisconnectedTyped ==
  ASSUME RestTypeOK, BrokerDisconnected
  PROVE  /\ session' \in SessionTypes /\ initialized' \in BOOLEAN
         /\ connecting' \in BOOLEAN /\ expiryTimer' \in BOOLEAN
<1>1. \A s \in SessionTypes : \A b \in BOOLEAN :
         [s EXCEPT !.connected = b] \in SessionTypes
  BY DEF SessionTypes
<1>2. \A s \in SessionTypes : \A b \in BOOLEAN :
         [s EXCEPT !.disconnecting = b] \in SessionTypes
  BY DEF SessionTypes
<1>3. session' = [[session EXCEPT !.connected = FALSE]
                     EXCEPT !.disconnecting = TRUE]
  BY DEF BrokerDisconnected
<1>4. session' \in SessionTypes
  BY <1>1, <1>2, <1>3 DEF RestTypeOK
<1>5. initialized' \in BOOLEAN /\ connecting' \in BOOLEAN
  BY DEF BrokerDisconnected
<1>6. expiryTimer' \in BOOLEAN
  BY DEF BrokerDisconnected, RestTypeOK
<1> QED  BY <1>4, <1>5, <1>6

(* DISCONNECT of either side. *)
LEMMA IndInvDisconnect ==
  ASSUME IndInv, NEW byBroker \in BOOLEAN, Disconnect(byBroker)
  PROVE  IndInv'
<1>1. OpsInv' /\ nulls' \subseteq Ops
  BY OpsInvBrokerDisconnected DEF Disconnect, IndInv, StepInv
<1>2. CallOK(call') /\ out' \in PacketTypes
  BY CallsTyped, PacketsTyped, ControlPacketsTyped DEF Disconnect
<1>3. RestTypeOK'
  BY BrokerDisconnectedTyped DEF Disconnect, IndInv, RestTypeOK
<1> QED  BY <1>1, <1>2, <1>3 DEF IndInv, StepInv

(* notifyNetworkDisconnected(). *)
LEMMA IndInvNetworkDisconnected ==
  ASSUME IndInv, NetworkDisconnected
  PROVE  IndInv'
<1>1. CallOK(call') /\ out' \in PacketTypes
  BY CallsTyped, PacketsTyped DEF NetworkDisconnected
<1>2. CASE session.disconnecting
  <2>1. StepInv'
    BY <1>1, <1>2, StepInvQuiet DEF NetworkDisconnected, IndInv, StepInv, opsVars
  <2>2. RestTypeOK'
    BY <1>2 DEF NetworkDisconnected, IndInv, RestTypeOK
  <2> QED  BY <2>1, <2>2 DEF IndInv
<1>3. CASE ~session.disconnecting
  <2>1. OpsInv' /\ nulls' \subseteq Ops
    BY <1>3, OpsInvBrokerDisconnected DEF NetworkDisconnected, IndInv, StepInv
  <2>2. RestTypeOK'
    BY <1>3, BrokerDisconnectedTyped DEF NetworkDisconnected, IndInv, RestTypeOK
  <2> QED  BY <1>1, <2>1, <2>2 DEF IndInv, StepInv
<1> QED  BY <1>2, <1>3

(* The three acknowledgements. *)
LEMMA StepInvProtocolError ==
  ASSUME StepInv, NEW o \in Live, ProtocolError(o)
  PROVE  StepInv'
BY StepInvCompleteWithCb, CallsTyped DEF StepInv, ProtocolError

(* An acknowledgement out of order only starts a loop. *)
LEMMA StepInvResendAll ==
  ASSUME StepInv, NEW o \in Ops, ResendAllUntil(o)
  PROVE  StepInv'
<1>1. 1 \in 0 .. MaxOps + 1 /\ o \in 0 .. MaxOps /\ 1 \in 1 .. o
  BY SendOpsAssumption DEF Ops
<1>2. \A c \in CallTypes :
         CallOK([c EXCEPT !.loop = "resend", !.at = 1, !.upto = o])
  BY <1>1, LoopTyped
<1>3. CallOK(call')
  BY <1>2, CallsTyped DEF ResendAllUntil, CallOK
<1> QED  BY <1>3, StepInvQuiet, PacketsTyped
         DEF ResendAllUntil, StepInv, opsVars

(* SendOp::handle(PubackMsg&). *)
LEMMA IndInvPuback ==
  ASSUME IndInv, NEW o \in Ops, NEW valid \in BOOLEAN, Puback(o, valid)
  PROVE  IndInv'
<1>1. o \in Live
  BY DEF Puback, Acknowledged, Published, Paused, Live
<1>2. ~isLegitSendAck(o, FALSE) => StepInv'
  BY StepInvResendAll DEF Puback, IndInv
<1>3. isLegitSendAck(o, FALSE) /\ (op[o].qos # 1 \/ ~valid) => StepInv'
  BY <1>1, StepInvProtocolError DEF Puback, IndInv
<1>4. isLegitSendAck(o, FALSE) /\ op[o].qos = 1 /\ valid => StepInv'
  BY <1>1, StepInvCompleteWithCb, CallsTyped DEF Puback, IndInv, StepInv
<1>5. RestTypeOK'
  BY DEF Puback, IndInv, RestTypeOK, session_vars
<1> QED  BY <1>2, <1>3, <1>4, <1>5 DEF IndInv

(* SendOp::handle(PubrecMsg&). *)
LEMMA IndInvPubrec ==
  ASSUME IndInv, NEW o \in Ops, NEW reply \in {"success", "failure", "invalid"},
         Pubrec(o, reply)
  PROVE  IndInv'
<1> DEFINE bad == op[o].qos # 2 \/ op[o].acked \/ reply = "invalid"
<1>1. o \in Live
  BY DEF Pubrec, Acknowledged, Published, Paused, Live
<1>2. ~isLegitSendAck(o, FALSE) => StepInv'
  BY StepInvResendAll DEF Pubrec, IndInv
<1>3. isLegitSendAck(o, FALSE) /\ bad => StepInv'
  BY <1>1, StepInvProtocolError DEF Pubrec, IndInv
<1>4. isLegitSendAck(o, FALSE) /\ ~bad /\ reply = "failure" => StepInv'
  BY <1>1, StepInvCompleteWithCb, CallsTyped DEF Pubrec, IndInv, StepInv
<1>5. ASSUME isLegitSendAck(o, FALSE), ~bad, reply # "failure"
      PROVE  StepInv'
  <2> DEFINE r == [op[o] EXCEPT !.acked = TRUE, !.attempts = 1, !.timer = TRUE]
  <2>1. op[o] \in Op /\ op[o].st = "published" /\ o \in Published
    BY <1>5 DEF IndInv, StepInv, OpsInv, OpsTypeOK, Published, isLegitSendAck
  <2>2. \A x \in Op : [x EXCEPT !.acked = TRUE] \in Op
    BY DEF Op
  <2>3. \A x \in Op : [x EXCEPT !.attempts = 1] \in Op
    BY SendOpsAssumption DEF Op
  <2>4. \A x \in Op : [x EXCEPT !.timer = TRUE] \in Op
    BY DEF Op
  <2>5. r \in Op
    BY <2>1, <2>2, <2>3, <2>4
  <2>6. /\ r.st = "published" /\ r.id = op[o].id
        /\ r.attempts = 1 /\ r.timer
    BY <2>1 DEF Op
  <2>7. /\ op' = [op EXCEPT ![o] = r] /\ UNCHANGED <<inFlight, allocated, nulls>>
        /\ out' = Packet("PUBREL", o, FALSE) /\ call' = Guarded
    BY <1>5 DEF Pubrec
  <2> HIDE DEF r
  <2>8. OpsInv'
    <3>1. r.attempts \in 1 .. MaxAttempts /\ OpsInv
      BY <2>6, SendOpsAssumption DEF IndInv, StepInv
    <3> QED  BY <2>1, <2>5, <2>6, <2>7, <3>1, OpsInvTouched
  <2>9. out' \in PacketTypes /\ CallOK(call')
    <3>1. o \in 0 .. MaxOps
      BY SendOpsAssumption DEF Ops
    <3> QED  BY <2>7, <3>1, PacketsTyped, CallsTyped
  <2> QED  BY <2>7, <2>8, <2>9 DEF StepInv, IndInv
<1>6. RestTypeOK'
  BY DEF Pubrec, IndInv, RestTypeOK, session_vars
<1> QED  BY <1>2, <1>3, <1>4, <1>5, <1>6 DEF IndInv

(* SendOp::handle(PubcompMsg&). *)
LEMMA IndInvPubcomp ==
  ASSUME IndInv, NEW o \in Ops, NEW valid \in BOOLEAN, Pubcomp(o, valid)
  PROVE  IndInv'
<1> DEFINE bad == op[o].qos # 2 \/ ~op[o].acked \/ ~valid
<1>1. o \in Live
  BY DEF Pubcomp, Acknowledged, Published, Paused, Live
<1>2. ~isLegitSendAck(o, TRUE) => StepInv'
  BY StepInvResendAll DEF Pubcomp, IndInv
<1>3. isLegitSendAck(o, TRUE) /\ bad => StepInv'
  BY <1>1, StepInvProtocolError DEF Pubcomp, IndInv
<1>4. isLegitSendAck(o, TRUE) /\ ~bad => StepInv'
  BY <1>1, StepInvCompleteWithCb, CallsTyped DEF Pubcomp, IndInv, StepInv
<1>5. RestTypeOK'
  BY DEF Pubcomp, IndInv, RestTypeOK, session_vars
<1> QED  BY <1>2, <1>3, <1>4, <1>5 DEF IndInv

(* A PUBREC for no operation. *)
LEMMA IndInvPubrecUnknown ==
  ASSUME IndInv, PubrecUnknown
  PROVE  IndInv'
<1>1. StepInv'
  BY StepInvQuiet, ControlPacketsTyped, CallsTyped
     DEF PubrecUnknown, IndInv, StepInv, opsVars, id_vars
<1>2. RestTypeOK'
  BY DEF PubrecUnknown, IndInv, RestTypeOK, session_vars, id_vars
<1> QED  BY <1>1, <1>2 DEF IndInv

(* The number of created operations is a position in the list. *)
LEMMA CreatedCount ==
  Created # {} => Cardinality(Created) \in 1 .. MaxOps
<1>1. Created \subseteq Ops /\ IsFiniteSet(Ops)
  BY PublishedFinite DEF Created
<1>2. IsFiniteSet(Created) /\ Cardinality(Created) <= Cardinality(Ops)
  BY <1>1, FS_Subset
<1>3. Cardinality(Ops) = MaxOps
  BY SendOpsAssumption, FS_Interval DEF Ops
<1>4. Cardinality(Created) \in Nat
  BY <1>2, FS_CardinalityType
<1>5. Created # {} => Cardinality(Created) # 0
  BY <1>2, FS_EmptySet
<1> QED  BY <1>2, <1>3, <1>4, <1>5, SendOpsAssumption

(* CONNACK and the start of brokerConnected(). *)
LEMMA IndInvConnack ==
  ASSUME IndInv, NEW present \in BOOLEAN, NEW limit \in Nat,
         NEW expiry \in {"zero", "finite"}, NEW small \in BOOLEAN,
         Connack(present, limit, expiry, small)
  PROVE  IndInv'
<1>1. /\ 1 \in 0 .. MaxOps + 1 /\ MaxOps \in 0 .. MaxOps
      /\ 1 \in 1 .. MaxOps /\ 1 \in 1 .. MaxOps + 1
  BY SendOpsAssumption
<1>2. \A c \in CallTypes :
         CallOK([c EXCEPT !.loop = "reconnect", !.at = 1, !.upto = MaxOps])
  BY <1>1, LoopTyped
<1>3. \A c \in CallTypes : Created # {} =>
         CallOK([c EXCEPT !.loop = "abort", !.at = 1, !.upto = Cardinality(Created)])
  <2>1. Created # {} => Cardinality(Created) \in 1 .. MaxOps
    BY CreatedCount
  <2>2. \A n \in 1 .. MaxOps : n \in 0 .. MaxOps /\ 1 \in 1 .. n
    BY SendOpsAssumption
  <2> QED  BY <1>1, <2>1, <2>2, LoopTyped
<1>4. CallOK(call')
  <2>1. CASE present
    BY <1>2, <2>1, CallsTyped DEF Connack, CallOK
  <2>2. CASE ~present
    BY <1>3, <2>2, CallsTyped DEF Connack, CallOK
  <2> QED  BY <2>1, <2>2
<1>6. StepInv'
  BY <1>4, StepInvQuiet, PacketsTyped
     DEF Connack, IndInv, StepInv, opsVars, id_vars
<1>7. session' \in SessionTypes
  <2> DEFINE s1 == [session EXCEPT !.connected = TRUE]
             s2 == [s1 EXCEPT !.limit = limit]
             s3 == [s2 EXCEPT !.expiry = expiry]
             s4 == [s3 EXCEPT !.smallPackets = small]
  <2>1. s1 \in SessionTypes
    BY DEF IndInv, RestTypeOK, SessionTypes
  <2> HIDE DEF s1
  <2>2. s2 \in SessionTypes
    BY <2>1 DEF SessionTypes
  <2> HIDE DEF s2
  <2>3. s3 \in SessionTypes
    BY <2>2 DEF SessionTypes
  <2> HIDE DEF s3
  <2>4. s4 \in SessionTypes
    BY <2>3 DEF SessionTypes
  <2>5. session' = s4
    BY DEF Connack, s1, s2, s3
  <2> QED  BY <2>4, <2>5
<1>8. RestTypeOK'
  BY <1>7 DEF Connack, IndInv, RestTypeOK, id_vars
<1> QED  BY <1>6, <1>8 DEF IndInv

(* send() with timers due: the operation holds its id and is not counted yet. *)
LEMMA IndInvSendDue ==
  ASSUME IndInv, NEW o \in Ops, SendDue(o)
  PROVE  IndInv'
<1> DEFINE a == SendId(o)
           r == [op[o] EXCEPT !.st = "sending", !.id = a.id]
<1>1. /\ OpsInv /\ lastId \in PacketIds /\ op[o].st = "prepared" /\ op[o] \in Op
      /\ ~op[o].acked /\ ~op[o].timer /\ op \in [Ops -> Op]
  BY DEF SendDue, IndInv, StepInv, RestTypeOK, OpsInv, OpsTypeOK, FieldsOfStates
<1>2. /\ a.id \in PacketIds /\ a.last \in PacketIds
      /\ a.used \subseteq PacketIds
      /\ a.id # 0 => a.id \notin allocated
      /\ a.used \ {0} = (allocated \cup {a.id}) \ {0}
  BY <1>1, SendIdFree
<1>3. /\ op' = [op EXCEPT ![o] = r] /\ allocated' = a.used /\ lastId' = a.last
      /\ call' = [Guarded EXCEPT !.sending = o] /\ out' = NoPacket
      /\ inFlight' = inFlight /\ nulls' = nulls
  BY <1>1 DEF SendDue
<1> HIDE DEF a
<1>4. /\ r \in Op /\ r.st = "sending" /\ r.id = a.id /\ ~r.acked /\ ~r.timer
  BY <1>1, <1>2 DEF Op
<1> HIDE DEF r
<1>5. OpsInv'
  BY <1>1, <1>2, <1>3, <1>4, OpsInvSent
<1>6. CallOK(call')
  <2>1. \A c : CallOK(c) => \A n \in 0 .. MaxOps : CallOK([c EXCEPT !.sending = n])
    BY DEF CallOK, CallTypes
  <2>2. o \in 0 .. MaxOps
    BY SendOpsAssumption DEF Ops
  <2> QED  BY <1>3, <2>1, <2>2, CallsTyped
<1>7. StepInv'
  BY <1>3, <1>5, <1>6, PacketsTyped DEF IndInv, StepInv
<1>8. RestTypeOK'
  BY <1>2, <1>3 DEF SendDue, IndInv, RestTypeOK, session_vars
<1> QED  BY <1>7, <1>8 DEF IndInv

(* Only a transmitted operation has a response timer. *)
LEMMA TimedArePublished ==
  ASSUME IndInv, NEW o \in Ops, NEW from, ResponseTimer(o, from)
  PROVE  o \in Published
BY DEF ResponseTimer, IndInv, StepInv, OpsInv, FieldsOfStates, Published

(* The response timer of an operation, in whatever call it fires. *)
LEMMA IndInvResponseTimer ==
  ASSUME IndInv, NEW o \in Ops, NEW from, CallOK(from), ResponseTimer(o, from)
  PROVE  IndInv'
<1>1. o \in Published
  BY TimedArePublished
<1>2. StepInv'
  BY <1>1, StepInvResendDup DEF ResponseTimer, IndInv, StepInv
<1>3. RestTypeOK'
  BY DEF ResponseTimer, IndInv, RestTypeOK, session_vars
<1> QED  BY <1>2, <1>3 DEF IndInv

(* sessionExpiryTimeoutInternal(). *)
LEMMA IndInvExpiryTimer ==
  ASSUME IndInv, NEW from, CallOK(from), ExpiryTimer(from)
  PROVE  IndInv'
<1>1. OpsInv'
  BY OpsInvCleared DEF ExpiryTimer, IndInv, StepInv
<1>2. StepInv'
  BY <1>1, PacketsTyped DEF ExpiryTimer, IndInv, StepInv, Live
<1>3. RestTypeOK'
  BY DEF ExpiryTimer, IndInv, RestTypeOK
<1> QED  BY <1>2, <1>3 DEF IndInv

(* The timers that fire inside of send(). *)
LEMMA IndInvSendTick ==
  ASSUME IndInv, SendTick
  PROVE  IndInv'
<1>1. CallOK(call)
  BY DEF IndInv, StepInv
<1>2. ASSUME NEW o \in Ops, ResponseTimer(o, call) PROVE IndInv'
  BY <1>1, <1>2, IndInvResponseTimer
<1>3. ASSUME ExpiryTimer(call) PROVE IndInv'
  BY <1>1, <1>3, IndInvExpiryTimer
<1>4. ASSUME KeepAliveTimer(call) PROVE IndInv'
  <2>1. OpsInv' /\ nulls' \subseteq Ops
    BY <1>4, OpsInvBrokerDisconnected DEF KeepAliveTimer, IndInv, StepInv
  <2>2. CallOK(call') /\ out' \in PacketTypes
    BY <1>1, <1>4, ControlPacketsTyped DEF KeepAliveTimer
  <2>3. RestTypeOK'
    BY <1>4, BrokerDisconnectedTyped DEF KeepAliveTimer, IndInv, RestTypeOK
  <2> QED  BY <2>1, <2>2, <2>3 DEF IndInv, StepInv
<1> QED  BY <1>2, <1>3, <1>4 DEF SendTick

------------------------------------------------------------------------------
(* The steps of a call in progress. *)

(* A call whose loop has ended is well formed. *)
LEMMA EndOfLoopTyped ==
  ASSUME CallOK(call)
  PROVE  CallOK(EndOfLoop)
<1>1. 0 \in 0 .. MaxOps + 1 /\ 0 \in 0 .. MaxOps
  BY SendOpsAssumption
<1>2. \A c \in CallTypes : CallOK([c EXCEPT !.loop = "none", !.at = 0, !.upto = 0])
  BY <1>1, LoopTyped
<1> QED  BY <1>2 DEF CallOK, EndOfLoop

(* A loop may stand on any of its positions. *)
LEMMA AtTyped ==
  ASSUME CallOK(call), NEW n \in 0 .. MaxOps + 1,
         call.loop \in {"resend", "abort"} => n \in 1 .. call.upto,
         call.loop = "reconnect" => n \in 1 .. MaxOps + 1
  PROVE  CallOK([call EXCEPT !.at = n])
BY DEF CallOK, CallTypes

(* The next position of a loop is one of its positions, or its end. *)
LEMMA AdvancedTyped ==
  ASSUME CallOK(call), call.loop \in {"resend", "abort"}
  PROVE  CallOK(Advanced) /\ call.at \in Ops
<1>1. call.at \in 1 .. call.upto /\ call.upto \in 0 .. MaxOps
  BY DEF CallOK, CallTypes
<1>2. CASE call.at = call.upto
  BY <1>1, <1>2, EndOfLoopTyped, SendOpsAssumption DEF Advanced, Ops
<1>3. CASE call.at # call.upto
  <2>1. /\ call.at + 1 \in 1 .. call.upto /\ call.at + 1 \in 0 .. MaxOps + 1
        /\ call.at + 1 \in 1 .. MaxOps + 1 /\ call.at \in Ops
    BY <1>1, <1>3, SendOpsAssumption DEF Ops
  <2>2. CallOK([call EXCEPT !.at = call.at + 1])
    BY <2>1, AtTyped
  <2> QED  BY <1>3, <2>1, <2>2 DEF Advanced
<1> QED  BY <1>2, <1>3

(* Passing over an entry changes no books. *)
LEMMA StepInvSkip ==
  ASSUME StepInv, call.loop \in {"resend", "abort"}, Skip
  PROVE  StepInv'
BY StepInvQuiet, AdvancedTyped, PacketsTyped DEF Skip, StepInv, opsVars

(* One turn of resumeSendOpsSince(). *)
LEMMA IndInvResumeNext ==
  ASSUME IndInv, ResumeNext
  PROVE  IndInv'
<1> DEFINE waiting == {p \in Paused : call.resume <= p}
<1>1. waiting # {} => Least(waiting) \in Paused
  <2>1. waiting \subseteq Nat
    BY DEF Paused, Ops
  <2> QED  BY <2>1, LeastInSet
<1>2. CASE waiting # {} /\ canSend(Least(waiting))
  <2>1. DoSend(Least(waiting), call)
    BY <1>2 DEF ResumeNext
  <2> HIDE DEF waiting
  <2>2. StepInv'
    BY <1>1, <1>2, <2>1, StepInvDoSend DEF IndInv, StepInv
  <2>3. RestTypeOK'
    BY DEF ResumeNext, IndInv, RestTypeOK, session_vars
  <2> QED  BY <2>2, <2>3 DEF IndInv
<1>3. CASE ~(waiting # {} /\ canSend(Least(waiting)))
  <2>1. /\ call' = [call EXCEPT !.resume = 0] /\ out' = NoPacket
        /\ UNCHANGED <<op, inFlight, allocated, nulls>>
    BY <1>3 DEF ResumeNext
  <2>2. CallOK(call')
    BY <2>1, SendOpsAssumption DEF IndInv, StepInv, CallOK, CallTypes
  <2>3. StepInv'
    BY <2>1, <2>2, StepInvQuiet, PacketsTyped DEF IndInv, StepInv, opsVars
  <2>4. RestTypeOK'
    BY DEF ResumeNext, IndInv, RestTypeOK, session_vars
  <2> QED  BY <2>3, <2>4 DEF IndInv
<1> QED  BY <1>2, <1>3

(* The end of a completion callback. *)
LEMMA IndInvCallbackReturns ==
  ASSUME IndInv, CallbackReturns
  PROVE  IndInv'
<1>1. CallOK(call) /\ call.cbs - 1 \in Nat
  BY DEF CallbackReturns, InCallback, IndInv, StepInv, CallOK, CallTypes
<1>2. \A n \in Nat : CallOK([call EXCEPT !.cbs = n])
  BY <1>1 DEF CallOK, CallTypes
<1>3. CallOK([call EXCEPT !.cbs = call.cbs - 1])
  BY <1>1, <1>2
<1>4. CallOK(call')
  BY <1>3 DEF CallbackReturns
<1>5. StepInv'
  BY <1>4, StepInvQuiet, PacketsTyped
     DEF CallbackReturns, IndInv, StepInv, opsVars, id_vars
<1>6. RestTypeOK'
  BY DEF CallbackReturns, IndInv, RestTypeOK, session_vars, id_vars
<1> QED  BY <1>5, <1>6 DEF IndInv

(* A loop that ran into undefined behaviour leaves everything as it was. *)
LEMMA StepInvFaults ==
  ASSUME StepInv, NEW f, Faults(f)
  PROVE  StepInv'
BY StepInvQuiet, PacketsTyped DEF Faults, StepInv, opsVars

(* One turn of resendAllUntil(). *)
LEMMA IndInvResendNext ==
  ASSUME IndInv, ResendNext
  PROVE  IndInv'
<1>1. CallOK(call) /\ call.loop = "resend"
  BY DEF IndInv, StepInv, ResendNext, InLoop
<1>2. RestTypeOK'
  BY DEF ResendNext, Faults, IndInv, RestTypeOK, session_vars
<1>3. CASE Unsent(call.at)
  <2>1. StepInv'
    BY <1>3, StepInvFaults DEF ResendNext, IndInv
  <2> QED  BY <1>2, <2>1 DEF IndInv
<1>4. CASE call.at \in Published /\ ~Unsent(call.at)
  <2>1. ResendDupMsg(call.at, Advanced)
    BY <1>4 DEF ResendNext
  <2>2. StepInv'
    BY <1>1, <1>4, <2>1, AdvancedTyped, StepInvResendDup DEF IndInv, StepInv
  <2> QED  BY <1>2, <2>2 DEF IndInv
<1>5. CASE call.at \notin Published /\ ~Unsent(call.at)
  <2>1. StepInv'
    BY <1>1, <1>5, StepInvSkip DEF ResendNext, IndInv
  <2> QED  BY <1>2, <2>1 DEF IndInv
<1> QED  BY <1>3, <1>4, <1>5

(* One turn of the loop of brokerConnected() over a kept session. *)
LEMMA IndInvReconnectNext ==
  ASSUME IndInv, ReconnectNext
  PROVE  IndInv'
<1> DEFINE o == call.at
           next == [call EXCEPT !.at = @ + 1]
<1>1. CallOK(call) /\ call.loop = "reconnect" /\ o <= MaxOps
  BY DEF IndInv, StepInv, ReconnectNext, InLoop
<1>2. o \in Ops /\ o + 1 \in 1 .. MaxOps + 1 /\ o + 1 \in 0 .. MaxOps + 1
  BY <1>1, SendOpsAssumption DEF CallOK, CallTypes, Ops
<1>3. CallOK(next)
  BY <1>1, <1>2, AtTyped
<1>4. RestTypeOK'
  BY DEF ReconnectNext, Faults, IndInv, RestTypeOK, session_vars
<1>5. CASE o \in Published /\ ~(resendsPublish(o) /\ ~fits(o))
  <2> DEFINE r == [op[o] EXCEPT !.timer = TRUE]
  <2>1. /\ op' = [op EXCEPT ![o] = r] /\ UNCHANGED <<inFlight, allocated, nulls>>
        /\ out' = DupPacket(o) /\ call' = next
    BY <1>5 DEF ReconnectNext, Unsent, Published
  <2>2. OpsInv /\ op[o] \in Op /\ op[o].st = "published"
        /\ op[o].attempts \in 1 .. MaxAttempts
    BY <1>2, <1>5 DEF IndInv, StepInv, OpsInv, OpsTypeOK, AwaitsAnswer, Published
  <2>3. /\ r \in Op /\ r.st = "published" /\ r.id = op[o].id
        /\ r.attempts = op[o].attempts /\ r.timer
    BY <2>2 DEF Op
  <2> HIDE DEF r
  <2>4. OpsInv'
    BY <1>5, <2>1, <2>2, <2>3, OpsInvTouched
  <2>5. StepInv'
    BY <1>2, <1>3, <2>1, <2>4, DupTyped DEF StepInv, IndInv
  <2> QED  BY <1>4, <2>5 DEF IndInv
<1>6. CASE ~(o \in Published /\ ~(resendsPublish(o) /\ ~fits(o)))
  <2>1. /\ UNCHANGED <<op, inFlight, allocated, nulls>>
        /\ out' = NoPacket /\ (call' = next \/ call' = call)
    BY <1>6 DEF ReconnectNext, Faults
  <2>2. StepInv'
    BY <1>1, <1>3, <2>1, StepInvQuiet, PacketsTyped DEF IndInv, StepInv, opsVars
  <2> QED  BY <1>4, <2>2 DEF IndInv
<1> QED  BY <1>5, <1>6

(* The end of that loop. *)
LEMMA IndInvReconnectResume ==
  ASSUME IndInv, ReconnectResume
  PROVE  IndInv'
<1> DEFINE frame == {o \in Live :
                        Cardinality({p \in Live : p <= o}) <= session.limit}
           tail == {o \in frame : \A p \in frame : o <= p => p \in Paused}
           n == IF tail = {} THEN 0 ELSE Least(tail)
<1>1. tail \subseteq Ops /\ tail \subseteq Nat
  BY DEF Live, Ops
<1>2. call' = [EndOfLoop EXCEPT !.resume = n]
  BY DEF ReconnectResume
<1> HIDE DEF tail
<1>3. n \in 0 .. MaxOps
  <2>1. tail # {} => Least(tail) \in Ops
    BY <1>1, LeastInSet
  <2>2. Ops \subseteq 0 .. MaxOps /\ 0 \in 0 .. MaxOps
    BY SendOpsAssumption DEF Ops
  <2> QED  BY <2>1, <2>2
<1> HIDE DEF n
<1>4. \A c : CallOK(c) => CallOK([c EXCEPT !.resume = n])
  BY <1>3 DEF CallOK, CallTypes
<1>5. CallOK(call')
  BY <1>2, <1>4, EndOfLoopTyped DEF IndInv, StepInv
<1>6. StepInv'
  BY <1>5, StepInvQuiet, PacketsTyped
     DEF ReconnectResume, IndInv, StepInv, opsVars, id_vars
<1>7. RestTypeOK'
  BY DEF ReconnectResume, IndInv, RestTypeOK, session_vars, id_vars
<1> QED  BY <1>6, <1>7 DEF IndInv

(* One turn of the loop of brokerConnected() over a lost session. *)
LEMMA IndInvAbortNext ==
  ASSUME IndInv, AbortNext
  PROVE  IndInv'
<1> DEFINE o == call.at
<1>1. CallOK(call) /\ call.loop = "abort" /\ CallOK(Advanced)
  BY AdvancedTyped DEF IndInv, StepInv, AbortNext, InLoop
<1>2. RestTypeOK'
  BY DEF AbortNext, Faults, IndInv, RestTypeOK, session_vars
<1>3. o \in nulls => StepInv'
  BY StepInvFaults DEF AbortNext, IndInv
<1>4. o \notin nulls /\ o \in Live => StepInv'
  BY <1>1, StepInvCompleteWithCb DEF AbortNext, IndInv, StepInv
<1>5. o \notin nulls /\ o \notin Live => StepInv'
  BY <1>1, StepInvSkip DEF AbortNext, IndInv
<1> QED  BY <1>2, <1>3, <1>4, <1>5 DEF IndInv

(* terminationWithReason(). *)
LEMMA IndInvTerminate ==
  ASSUME IndInv, Terminate
  PROVE  IndInv'
<1>1. OpsInv' /\ nulls' \subseteq Ops
  BY OpsInvBrokerDisconnected DEF Terminate, IndInv, StepInv
<1>2. CallOK(call')
  BY DEF Terminate, IndInv, StepInv, CallOK, CallTypes
<1>3. out' \in PacketTypes
  BY ControlPacketsTyped DEF Terminate
<1>4. RestTypeOK'
  BY BrokerDisconnectedTyped DEF Terminate, IndInv, RestTypeOK
<1> QED  BY <1>1, <1>2, <1>3, <1>4 DEF IndInv, StepInv

(* The rest of send() after its apiEnter(). *)
LEMMA IndInvTransmit ==
  ASSUME IndInv, Transmit
  PROVE  IndInv'
<1> DEFINE o == call.sending
           after == [call EXCEPT !.sending = 0]
<1>1. /\ CallOK(call) /\ OpsInv /\ nulls \subseteq Ops /\ o # 0
      /\ o \in 0 .. MaxOps
  BY DEF Transmit, InSend, IndInv, StepInv, CallOK, CallTypes
<1>2. o \in Ops
  BY <1>1, SendOpsAssumption DEF Ops
<1>3. CallOK(after)
  BY <1>1, SendOpsAssumption DEF CallOK, CallTypes
<1>4. RestTypeOK'
  BY DEF Transmit, Faults, IndInv, RestTypeOK, session_vars
<1>5. CASE op[o].st # "sending"
  <2>1. StepInv'
    BY <1>5, StepInvFaults DEF Transmit, IndInv
  <2> QED  BY <1>4, <2>1 DEF IndInv
<1>6. CASE op[o].st = "sending" /\ fits(o)
  <2>1. DoSend(o, after) /\ o \in Paused \cup Sending
    BY <1>2, <1>6 DEF Transmit, Sending
  <2> HIDE DEF o, after
  <2>2. StepInv'
    BY <1>1, <1>3, <2>1, StepInvDoSend
  <2> QED  BY <1>4, <2>2 DEF IndInv
<1>7. CASE op[o].st = "sending" /\ ~fits(o)
  <2>1. /\ Erased(o) /\ nulls' = {o} /\ call' = Resuming(o, NoCall)
        /\ out' = NoPacket /\ o \in Live
    BY <1>2, <1>7 DEF Transmit, Live
  <2> HIDE DEF o
  <2>2. OpsInv'
    BY <1>1, <2>1, OpsInvErased
  <2>3. StepInv'
    BY <1>2, <2>1, <2>2, ResumingTyped, CallsTyped, PacketsTyped DEF StepInv
  <2> QED  BY <1>4, <2>3 DEF IndInv
<1> QED  BY <1>5, <1>6, <1>7

(* doApiExit() of the last guard. *)
LEMMA IndInvApiExit ==
  ASSUME IndInv, ApiExit
  PROVE  IndInv'
<1>1. StepInv'
  BY StepInvQuiet, CallsTyped, PacketsTyped
     DEF ApiExit, IndInv, StepInv, opsVars, id_vars
<1>2. RestTypeOK'
  BY DEF ApiExit, IndInv, RestTypeOK, session_vars, id_vars
<1> QED  BY <1>1, <1>2 DEF IndInv

(* A step that changes nothing. *)
LEMMA IndInvStutter ==
  ASSUME IndInv, UNCHANGED vars
  PROVE  IndInv'
<1>1. StepInv'
  BY StepInvQuiet DEF vars, IndInv, StepInv, opsVars, id_vars
<1>2. RestTypeOK'
  BY DEF vars, IndInv, RestTypeOK, session_vars, id_vars
<1> QED  BY <1>1, <1>2 DEF IndInv

(* Every step of the publish engine keeps its books. *)
LEMMA IndInvNext == IndInv /\ [Next]_vars => IndInv'
<1> SUFFICES ASSUME IndInv, [Next]_vars PROVE IndInv'
  OBVIOUS
<1>1. ASSUME NEW o \in Ops, NEW q \in Qoses, Prepare(o, q) PROVE IndInv'
  BY <1>1, IndInvPrepare
<1>2. ASSUME NEW o \in Ops, Send(o) PROVE IndInv'
  BY <1>2, IndInvSend
<1>3. ASSUME NEW o \in Ops, Cancel(o) PROVE IndInv'
  BY <1>3, IndInvCancel
<1>4. ASSUME NEW o \in Ops, NEW valid \in BOOLEAN, Puback(o, valid) PROVE IndInv'
  BY <1>4, IndInvPuback
<1>5. ASSUME NEW o \in Ops, NEW valid \in BOOLEAN, Pubcomp(o, valid) PROVE IndInv'
  BY <1>5, IndInvPubcomp
<1>6. ASSUME NEW o \in Ops, NEW reply \in {"success", "failure", "invalid"},
             Pubrec(o, reply)
      PROVE  IndInv'
  BY <1>6, IndInvPubrec
<1>7. ASSUME NEW o \in Ops, ResponseTimeout(o) \/ SendDue(o) PROVE IndInv'
  BY <1>7, IndInvResponseTimer, IndInvSendDue, CallsTyped DEF ResponseTimeout
<1>8. Connect \/ ConnectFails \/ NetworkDisconnected \/ PubrecUnknown => IndInv'
  BY IndInvConnect, IndInvConnectFails, IndInvNetworkDisconnected,
     IndInvPubrecUnknown
<1>9. ASSUME NEW byBroker \in BOOLEAN, Disconnect(byBroker) PROVE IndInv'
  BY <1>9, IndInvDisconnect
<1>10. ASSUME NEW present \in SessionReplies, NEW limit \in SendLimits,
              NEW expiry \in Expiries,
              NEW small \in {b \in BOOLEAN : b => Oversize # {}},
              Connack(present, limit, expiry, small)
       PROVE  IndInv'
  BY <1>10, IndInvConnack, SendOpsAssumption
<1>11. SessionExpiryTimeout \/ SendTick => IndInv'
  BY IndInvExpiryTimer, IndInvSendTick, CallsTyped DEF SessionExpiryTimeout
<1>12. CallStep => IndInv'
  BY IndInvResumeNext, IndInvCallbackReturns, IndInvResendNext,
     IndInvReconnectNext, IndInvReconnectResume, IndInvAbortNext, IndInvTerminate,
     IndInvTransmit, IndInvApiExit
     DEF CallStep
<1>13. UNCHANGED vars => IndInv'
  BY IndInvStutter
<1>14. ASSUME NEW full \in Orderings, setPublishOrdering(full) PROVE IndInv'
  BY <1>14, IndInvSetOrdering, SendOpsAssumption
<1> QED  BY <1>1, <1>2, <1>3, <1>4, <1>5, <1>6, <1>7, <1>8, <1>9, <1>10, <1>11,
            <1>12, <1>13, <1>14 DEF Next

------------------------------------------------------------------------------
(* The results. *)

(* IndInv is an invariant of the publish engine. *)
THEOREM Inductive == Spec => []IndInv
<1> QED  BY IndInvInit, IndInvNext, PTL DEF Spec

(* The counters and lists of the publish engine keep their types: inFlight   *)
(* never wraps below zero and no operation exceeds its attempts.             *)
THEOREM TypeCorrect == Spec => []TypeOK
<1> QED  BY Inductive, IndInvTypeOK, PTL

(* m_inFlightSends counts the transmitted operations through every           *)
(* completion path.                                                          *)
THEOREM InFlightCorrect == Spec => []InFlightExact
<1>1. IndInv => InFlightExact
  BY DEF IndInv, StepInv, OpsInv
<1> QED  BY <1>1, Inductive, PTL

(* Packet ids are unique among the operations and none leaks. *)
THEOREM PacketIdsCorrect == Spec => []PacketIdsExact
<1>1. IndInv => PacketIdsExact
  BY DEF IndInv, StepInv, OpsInv
<1> QED  BY <1>1, Inductive, PTL

(* A transmitted operation has a timer and attempts left within its bound. *)
THEOREM AnswerAwaited == Spec => []AwaitsAnswer
<1>1. IndInv => AwaitsAnswer
  BY DEF IndInv, StepInv, OpsInv
<1> QED  BY <1>1, Inductive, PTL

------------------------------------------------------------------------------
(* What a step may transmit. *)

PublishUnacked == out'.type = "PUBLISH" => ~op[out'.op].acked
TakesFreeSlot == inFlight' > inFlight => inFlight' <= session.limit
StepOK == PublishUnacked /\ TakesFreeSlot

(* An operation that ends takes no slot. *)
LEMMA ErasedTakesNoSlot ==
  ASSUME IndInv, NEW o, Erased(o)
  PROVE  TakesFreeSlot
BY DEF Erased, TakesFreeSlot, IndInv, StepInv, OpsInv, OpsTypeOK

(* A step without a PUBLISH and without a new slot is right. *)
LEMMA SilentOK ==
  ASSUME IndInv, out'.type # "PUBLISH", inFlight' = inFlight
  PROVE  StepOK
BY DEF StepOK, PublishUnacked, TakesFreeSlot, IndInv, StepInv, OpsInv, OpsTypeOK

(* Completing an operation transmits nothing. *)
LEMMA CompletesSilently ==
  ASSUME IndInv, NEW o, NEW from, Complete(o, from), out' = NoPacket
  PROVE  StepOK
BY ErasedTakesNoSlot DEF Complete, StepOK, PublishUnacked, NoPacket

(* Nor does completing it with its callback. *)
LEMMA CompletesWithCbSilently ==
  ASSUME IndInv, NEW o, NEW from, CompleteWithCb(o, from), out' = NoPacket
  PROVE  StepOK
BY CompletesSilently DEF CompleteWithCb

(* resendDupMsg() resends a PUBLISH only before its PUBREC. *)
LEMMA ResendOK ==
  ASSUME IndInv, NEW o \in Published, NEW from, ResendDupMsg(o, from)
  PROVE  StepOK
<1>1. CASE attemptsExhausted(o) \/ (resendsPublish(o) /\ ~fits(o))
  BY <1>1, CompletesWithCbSilently DEF ResendDupMsg
<1>2. CASE ~(attemptsExhausted(o) \/ (resendsPublish(o) /\ ~fits(o)))
  <2>1. out' = DupPacket(o) /\ inFlight' = inFlight
    BY <1>2 DEF ResendDupMsg
  <2>2. PublishUnacked
    BY <2>1 DEF DupPacket, Packet, resendsPublish, PublishUnacked
  <2> QED  BY <2>1, <2>2
           DEF StepOK, TakesFreeSlot, IndInv, StepInv, OpsInv, OpsTypeOK
<1> QED  BY <1>1, <1>2

(* canSend() lets a QoS 1 or QoS 2 operation take a slot only below the limit. *)
LEMMA SlotIsFree ==
  ASSUME IndInv, NEW o \in Ops, canSend(o), op[o].qos # 0,
         inFlight' = inFlight + 1
  PROVE  TakesFreeSlot
<1>1. inFlight \in Nat /\ session.limit \in Nat
  BY DEF IndInv, StepInv, OpsInv, OpsTypeOK, RestTypeOK, SessionTypes
<1>2. ~(session.limit <= inFlight)
  BY DEF canSend
<1> QED  BY <1>1, <1>2 DEF TakesFreeSlot

(* A publish transmitted by send() takes a free slot. *)
LEMMA SendOK ==
  ASSUME IndInv, NEW o \in Ops, Send(o)
  PROVE  StepOK
<1>1. ~op[o].acked
  BY DEF Send, IndInv, StepInv, OpsInv, FieldsOfStates
<1>2. out' = NoPacket \/ out' = Packet("PUBLISH", o, FALSE)
  BY DEF Send
<1>3. PublishUnacked
  BY <1>1, <1>2 DEF PublishUnacked, NoPacket, Packet
<1>4. \/ inFlight' = inFlight
      \/ inFlight' = inFlight + 1 /\ canSend(o) /\ op[o].qos # 0
  BY DEF Send
<1>5. TakesFreeSlot
  BY <1>4, SlotIsFree DEF TakesFreeSlot, IndInv, StepInv, OpsInv, OpsTypeOK
<1> QED  BY <1>3, <1>5 DEF StepOK

(* A resumed operation takes a free slot. *)
LEMMA ResumeOK ==
  ASSUME IndInv, ResumeNext
  PROVE  StepOK
<1> DEFINE waiting == {p \in Paused : call.resume <= p}
           o == Least(waiting)
<1>1. CASE waiting # {} /\ canSend(o)
  <2>1. o \in Paused
    <3>1. waiting \subseteq Nat
      BY DEF Paused, Ops
    <3> QED  BY <1>1, <3>1, LeastInSet
  <2>2. DoSend(o, call)
    BY <1>1 DEF ResumeNext
  <2> HIDE DEF o
  <2>3. o \in Ops /\ ~op[o].acked
    BY <2>1 DEF Paused, IndInv, StepInv, OpsInv, FieldsOfStates
  <2>4. out' = NoPacket \/ out' = Packet("PUBLISH", o, FALSE)
    BY <2>2 DEF DoSend
  <2>5. PublishUnacked
    BY <2>3, <2>4 DEF PublishUnacked, NoPacket, Packet
  <2>6. Erased(o) \/ (inFlight' = inFlight + 1 /\ op[o].qos # 0)
    BY <2>2 DEF DoSend, CompleteWithCb, Complete
  <2>7. TakesFreeSlot
    BY <1>1, <2>3, <2>6, ErasedTakesNoSlot, SlotIsFree
  <2> QED  BY <2>5, <2>7 DEF StepOK
<1>2. CASE ~(waiting # {} /\ canSend(o))
  BY <1>2, SilentOK DEF ResumeNext, NoPacket
<1> QED  BY <1>1, <1>2

(* A disconnection takes no slot. *)
LEMMA DisconnectedTakesNoSlot ==
  ASSUME IndInv, BrokerDisconnected
  PROVE  TakesFreeSlot
BY PublishedFinite
   DEF BrokerDisconnected, TakesFreeSlot, IndInv, StepInv, OpsInv, OpsTypeOK

(* Acknowledgements transmit no PUBLISH and take no slot. *)
LEMMA AcksOK ==
  ASSUME IndInv, NEW o \in Ops,
         \/ \E valid \in BOOLEAN : Puback(o, valid) \/ Pubcomp(o, valid)
         \/ \E reply \in {"success", "failure", "invalid"} : Pubrec(o, reply)
  PROVE  StepOK
<1>1. \/ ResendAllUntil(o)
      \/ \E from : CompleteWithCb(o, from) /\ out' = NoPacket
      \/ out' = Packet("PUBREL", o, FALSE) /\ inFlight' = inFlight
  BY DEF Puback, Pubcomp, Pubrec, ProtocolError
<1>2. CASE ResendAllUntil(o)
  BY <1>2, SilentOK DEF ResendAllUntil, NoPacket
<1>3. CASE \E from : CompleteWithCb(o, from) /\ out' = NoPacket
  BY <1>3, CompletesWithCbSilently
<1>4. CASE out' = Packet("PUBREL", o, FALSE) /\ inFlight' = inFlight
  BY <1>4, SilentOK DEF Packet
<1> QED  BY <1>1, <1>2, <1>3, <1>4

(* What the steps of a call may transmit, but for a send() that let timers run. *)
LEMMA CallStepOK ==
  ASSUME IndInv, CallStep, ~Transmit
  PROVE  StepOK
<1>1. CASE ResumeNext
  BY <1>1, ResumeOK
<1>2. CASE ResendNext
  <2>1. CASE ResendDupMsg(call.at, Advanced) /\ call.at \in Published
    BY <2>1, ResendOK
  <2>2. CASE inFlight' = inFlight /\ out' = NoPacket
    BY <2>2, SilentOK DEF NoPacket
  <2> QED  BY <1>2, <2>1, <2>2 DEF ResendNext, Faults, Skip
<1>3. CASE ReconnectNext
  <2>1. inFlight' = inFlight /\ (out' = NoPacket \/ out' = DupPacket(call.at))
    BY <1>3 DEF ReconnectNext, Faults
  <2>2. PublishUnacked
    BY <2>1 DEF PublishUnacked, DupPacket, Packet, NoPacket, resendsPublish
  <2> QED  BY <2>1, <2>2
           DEF StepOK, TakesFreeSlot, IndInv, StepInv, OpsInv, OpsTypeOK
<1>4. CASE ReconnectResume
  BY <1>4, SilentOK DEF ReconnectResume, NoPacket
<1>5. CASE AbortNext
  <2>1. CASE CompleteWithCb(call.at, Advanced) /\ out' = NoPacket
    BY <2>1, CompletesWithCbSilently
  <2>2. CASE inFlight' = inFlight /\ out' = NoPacket
    BY <2>2, SilentOK DEF NoPacket
  <2> QED  BY <1>5, <2>1, <2>2 DEF AbortNext, Faults, Skip
<1>6. CASE Terminate
  BY <1>6, DisconnectedTakesNoSlot DEF Terminate, StepOK, PublishUnacked, Packet
<1>7. CASE ApiExit
  BY <1>7, SilentOK DEF ApiExit, NoPacket
<1>8. CASE CallbackReturns
  BY <1>8, SilentOK DEF CallbackReturns, NoPacket
<1> QED  BY <1>1, <1>2, <1>3, <1>4, <1>5, <1>6, <1>7, <1>8 DEF CallStep

(* What any other step may transmit. *)
LEMMA NextOK ==
  ASSUME IndInv, Next, ~Transmit
  PROVE  StepOK
<1>1. ASSUME NEW o \in Ops, NEW q \in Qoses, Prepare(o, q) PROVE StepOK
  BY <1>1, SilentOK DEF Prepare, NoPacket
<1>2. ASSUME NEW o \in Ops, Send(o) PROVE StepOK
  BY <1>2, SendOK
<1>3. ASSUME NEW o \in Ops, Cancel(o) PROVE StepOK
  BY <1>3, CompletesSilently DEF Cancel
<1>4. ASSUME NEW o \in Ops,
             \/ \E valid \in BOOLEAN : Puback(o, valid) \/ Pubcomp(o, valid)
             \/ \E reply \in {"success", "failure", "invalid"} : Pubrec(o, reply)
      PROVE  StepOK
  BY <1>4, AcksOK
<1>5. ASSUME NEW o \in Ops, NEW from, ResponseTimer(o, from) PROVE StepOK
  <2>1. o \in Published
    BY <1>5, TimedArePublished
  <2> QED  BY <1>5, <2>1, ResendOK DEF ResponseTimer
<1>6. CASE Connect
  BY <1>6, SilentOK DEF Connect, NoPacket, Packet
<1>7. CASE ConnectFails
  BY <1>7, SilentOK DEF ConnectFails, NoPacket
<1>8. ASSUME NEW byBroker \in BOOLEAN, Disconnect(byBroker) PROVE StepOK
  BY <1>8, DisconnectedTakesNoSlot
     DEF Disconnect, StepOK, PublishUnacked, NoPacket, Packet
<1>9. CASE NetworkDisconnected
  <2>1. CASE session.disconnecting
    BY <1>9, <2>1, SilentOK DEF NetworkDisconnected, NoPacket
  <2>2. CASE ~session.disconnecting
    BY <1>9, <2>2, DisconnectedTakesNoSlot
       DEF NetworkDisconnected, StepOK, PublishUnacked, NoPacket
  <2> QED  BY <2>1, <2>2
<1>10. CASE PubrecUnknown
  BY <1>10, SilentOK DEF PubrecUnknown, Packet
<1>11. ASSUME NEW present \in SessionReplies, NEW limit \in SendLimits,
              NEW expiry \in Expiries,
              NEW small \in {b \in BOOLEAN : b => Oversize # {}},
              Connack(present, limit, expiry, small)
       PROVE  StepOK
  BY <1>11, SilentOK DEF Connack, NoPacket
<1>12. ASSUME NEW from, ExpiryTimer(from) PROVE StepOK
  BY <1>12, PublishedFinite
     DEF ExpiryTimer, StepOK, PublishUnacked, TakesFreeSlot, NoPacket,
         IndInv, StepInv, OpsInv, OpsTypeOK
<1>13. CallStep => StepOK
  BY CallStepOK
<1>15. ASSUME KeepAliveTimer(call) PROVE StepOK
  BY <1>15, DisconnectedTakesNoSlot
     DEF KeepAliveTimer, StepOK, PublishUnacked, Packet
<1>16. SendTick => StepOK
  BY <1>5, <1>12, <1>15 DEF SendTick
<1>17. ASSUME NEW o \in Ops, SendDue(o) PROVE StepOK
  BY <1>17, SilentOK DEF SendDue, NoPacket
<1>18. SessionExpiryTimeout => StepOK
  BY <1>12 DEF SessionExpiryTimeout
<1>19. ASSUME NEW o \in Ops, ResponseTimeout(o) PROVE StepOK
  BY <1>5, <1>19 DEF ResponseTimeout
<1>14. ASSUME NEW full \in Orderings, setPublishOrdering(full) PROVE StepOK
  BY <1>14, SilentOK DEF setPublishOrdering, NoPacket
<1> QED  BY <1>1, <1>2, <1>3, <1>4, <1>6, <1>7, <1>8, <1>9, <1>10, <1>11, <1>13,
            <1>14, <1>16, <1>17, <1>18, <1>19 DEF Next

(* The rest of such a send() exceeds the limit by its own PUBLISH at most. *)
LEMMA TransmitOK ==
  ASSUME IndInv, SendInv, Transmit
  PROVE  /\ PublishUnacked
         /\ inFlight' > inFlight =>
               inFlight' <= session.limit + 1 /\ out'.op = call.sending
<1> DEFINE o == call.sending
           after == [call EXCEPT !.sending = 0]
<1>1. /\ inFlight \in Nat /\ session.limit \in Nat /\ o # 0
      /\ op[o].st = "sending" /\ op[o].qos # 0 => inFlight <= session.limit
  BY DEF SendInv, Transmit, InSend, IndInv, StepInv, OpsInv, OpsTypeOK, RestTypeOK,
         SessionTypes
<1>2. o \in Ops
  BY <1>1, SendOpsAssumption DEF IndInv, StepInv, CallOK, CallTypes, Ops
<1>3. CASE op[o].st # "sending"
  <2>1. out' = NoPacket /\ inFlight' = inFlight
    BY <1>3 DEF Transmit, Faults
  <2> QED  BY <1>1, <2>1 DEF PublishUnacked, NoPacket
<1>4. CASE op[o].st = "sending" /\ ~fits(o)
  <2>1. Erased(o) /\ out' = NoPacket
    BY <1>4 DEF Transmit
  <2> QED  BY <1>1, <2>1 DEF Erased, PublishUnacked, NoPacket
<1>5. CASE op[o].st = "sending" /\ fits(o)
  <2>1. DoSend(o, after)
    BY <1>5 DEF Transmit
  <2>2. ~op[o].acked
    BY <1>2, <1>5 DEF IndInv, StepInv, OpsInv, FieldsOfStates
  <2>3. out' = NoPacket \/ out' = Packet("PUBLISH", o, FALSE)
    BY <2>1 DEF DoSend
  <2>4. \/ Erased(o)
        \/ inFlight' = inFlight + 1 /\ op[o].qos # 0 /\ out' = Packet("PUBLISH", o, FALSE)
    BY <2>1 DEF DoSend, CompleteWithCb, Complete
  <2> HIDE DEF o, after
  <2>5. PublishUnacked
    BY <2>2, <2>3 DEF PublishUnacked, NoPacket, Packet
  <2>6. Erased(o) => ~(inFlight' > inFlight)
    BY <1>1 DEF Erased
  <2>7. inFlight' = inFlight + 1 /\ op[o].qos # 0 => inFlight' <= session.limit + 1
    BY <1>1, <1>5
  <2>8. out' = Packet("PUBLISH", o, FALSE) => out'.op = o
    BY DEF Packet
  <2> QED  BY <2>4, <2>5, <2>6, <2>7, <2>8 DEF o
<1> QED  BY <1>3, <1>4, <1>5

(* No operation but one given to send() gets into that state. *)
SendingFrame ==
    \A p \in Ops : op'[p].st = "sending" => op[p].st = "sending" /\ op'[p].qos = op[p].qos

SendingKept ==
    /\ SendingFrame
    /\ call'.sending # 0 =>
          call'.sending = call.sending /\ session'.limit = session.limit

(* The calls a handler returns to name the same send(). *)
LEMMA SendingOf ==
  ASSUME NEW c, CallOK(c), NEW o
  PROVE  /\ Resuming(o, c).sending = c.sending
         /\ Reported(o, c).sending = c.sending /\ CallOK(Reported(o, c))
<1>1. c \in CallTypes
  BY DEF CallOK
<1>2. /\ \A n : [c EXCEPT !.resume = n].sending = c.sending
      /\ \A n : [c EXCEPT !.cbs = n].sending = c.sending
  BY <1>1 DEF CallTypes
<1> QED  BY <1>2, ReportedTyped DEF Resuming, Reported

(* An operation that ends is none of them. *)
LEMMA CompleteFrame ==
  ASSUME OpsInv, NEW o \in Ops, NEW c, CallOK(c), CompleteWithCb(o, c) \/ Complete(o, c)
  PROVE  SendingFrame /\ call'.sending = c.sending
<1>1. op' = [op EXCEPT ![o] = OpIn("gone")]
  BY DEF CompleteWithCb, Complete, Erased
<1>2. SendingFrame
  BY <1>1 DEF SendingFrame, OpIn, OpsInv, OpsTypeOK
<1>3. call' = Resuming(o, c) \/ call' = Resuming(o, Reported(o, c))
  BY DEF CompleteWithCb, Complete
<1> QED  BY <1>2, <1>3, SendingOf

(* Nor is one that is resent. *)
LEMMA ResendFrame ==
  ASSUME OpsInv, NEW o \in Published, NEW c, CallOK(c), ResendDupMsg(o, c)
  PROVE  SendingFrame /\ call'.sending = c.sending
<1>1. o \in Ops /\ op[o].st = "published"
  BY DEF Published
<1>2. CASE attemptsExhausted(o) \/ (resendsPublish(o) /\ ~fits(o))
  BY <1>1, <1>2, CompleteFrame DEF ResendDupMsg
<1>3. CASE ~(attemptsExhausted(o) \/ (resendsPublish(o) /\ ~fits(o)))
  <2>1. call' = c /\ op' = [op EXCEPT ![o].attempts = @ + 1, ![o].timer = TRUE]
    BY <1>3 DEF ResendDupMsg
  <2>2. op'[o].st = op[o].st /\ \A p \in Ops : p # o => op'[p] = op[p]
    BY <1>1, <2>1 DEF OpsInv, OpsTypeOK, Op
  <2> QED  BY <1>1, <2>1, <2>2 DEF SendingFrame
<1> QED  BY <1>2, <1>3

(* Nor is a paused one that is transmitted. *)
LEMMA DoSendFrame ==
  ASSUME OpsInv, NEW o \in Paused \cup Sending, NEW c, CallOK(c), DoSend(o, c)
  PROVE  SendingFrame /\ call'.sending = c.sending
<1>1. o \in Ops
  BY DEF Paused, Sending
<1>2. CASE ~fits(o) \/ op[o].qos = 0
  BY <1>1, <1>2, CompleteFrame DEF DoSend
<1>3. CASE fits(o) /\ op[o].qos # 0
  <2>1. /\ call' = c
        /\ op' = [op EXCEPT ![o].st = "published", ![o].attempts = 1, ![o].timer = TRUE]
    BY <1>3 DEF DoSend
  <2>2. op'[o].st = "published" /\ \A p \in Ops : p # o => op'[p] = op[p]
    BY <1>1, <2>1 DEF OpsInv, OpsTypeOK, Op
  <2> QED  BY <2>1, <2>2 DEF SendingFrame
<1> QED  BY <1>2, <1>3

(* A closed session changes neither the limit nor what is being sent. *)
LEMMA DisconnectedFrame ==
  ASSUME IndInv, BrokerDisconnected
  PROVE  SendingFrame /\ session'.limit = session.limit
<1>1. session'.limit = session.limit
  BY DEF BrokerDisconnected, IndInv, RestTypeOK, SessionTypes
<1>2. CASE session.expiry # "zero" /\ Live # {}
  <2>1. op' = [o \in Ops |-> [op[o] EXCEPT
                    !.suspended = op[o].timer \/ op[o].suspended]]
    BY <1>2 DEF BrokerDisconnected
  <2>2. \A p \in Ops : op'[p].st = op[p].st /\ op'[p].qos = op[p].qos
    BY <2>1 DEF IndInv, StepInv, OpsInv, OpsTypeOK, Op
  <2> QED  BY <1>1, <2>2 DEF SendingFrame
<1>3. CASE ~(session.expiry # "zero" /\ Live # {})
  <2>1. op' = [o \in Ops |-> IF o \in Live THEN OpIn("gone") ELSE op[o]]
    BY <1>3 DEF BrokerDisconnected
  <2> QED  BY <1>1, <2>1 DEF SendingFrame, OpIn
<1> QED  BY <1>2, <1>3

(* Between two calls nothing is being sent, nor after a call that starts then. *)
LEMMA GuardedSending ==
  /\ NoCall.sending = 0 /\ Guarded.sending = 0
  /\ [Guarded EXCEPT !.closing = TRUE].sending = 0
  /\ \A l, n, m : [Guarded EXCEPT !.loop = l, !.at = n, !.upto = m].sending = 0
BY DEF NoCall, Guarded

SendsNothing == SendingFrame /\ call'.sending = 0

(* The application's calls and the network. *)
LEMMA CallsSendNothing ==
  ASSUME IndInv,
         \/ \E full \in Orderings : setPublishOrdering(full)
         \/ \E o \in Ops :
               \/ Cancel(o)
               \/ \E valid \in BOOLEAN : Puback(o, valid) \/ Pubcomp(o, valid)
               \/ \E reply \in {"success", "failure", "invalid"} : Pubrec(o, reply)
               \/ ResponseTimeout(o)
         \/ Connect \/ ConnectFails
         \/ \E byBroker \in BOOLEAN : Disconnect(byBroker)
         \/ NetworkDisconnected \/ PubrecUnknown
         \/ \E present \in SessionReplies, limit \in SendLimits, expiry \in Expiries,
               small \in {b \in BOOLEAN : b => Oversize # {}} :
               Connack(present, limit, expiry, small)
         \/ SessionExpiryTimeout \/ ApiExit
  PROVE  SendsNothing
<1> USE GuardedSending DEF SendsNothing
<1>1. OpsInv
  BY DEF IndInv, StepInv
<1>14. UNCHANGED op => SendingFrame
  BY DEF SendingFrame
<1>2. ASSUME NEW o \in Ops, NEW c \in {NoCall, Guarded, [Guarded EXCEPT !.closing = TRUE]},
             Complete(o, c) \/ CompleteWithCb(o, c)
      PROVE  SendsNothing
  <2>1. CallOK(c) /\ c.sending = 0
    BY CallsTyped
  <2> QED  BY <1>1, <1>2, <2>1, CompleteFrame
<1>3. ASSUME NEW full, setPublishOrdering(full) PROVE SendsNothing
  BY <1>3, <1>14 DEF setPublishOrdering, Idle
<1>4. ASSUME NEW o \in Ops, Cancel(o) PROVE SendsNothing
  BY <1>2, <1>4 DEF Cancel
<1>5. ASSUME NEW o, ResendAllUntil(o) PROVE SendsNothing
  BY <1>5, <1>14 DEF ResendAllUntil
<1>6. ASSUME NEW o \in Ops, ProtocolError(o) PROVE SendsNothing
  BY <1>2, <1>6 DEF ProtocolError
<1>7. ASSUME NEW o \in Ops, NEW valid \in BOOLEAN, Puback(o, valid) \/ Pubcomp(o, valid)
      PROVE  SendsNothing
  BY <1>2, <1>5, <1>6, <1>7 DEF Puback, Pubcomp
<1>8. ASSUME NEW o \in Ops, NEW reply, Pubrec(o, reply) PROVE SendsNothing
  <2>1. CASE /\ op' = [op EXCEPT ![o].acked = TRUE, ![o].attempts = 1, ![o].timer = TRUE]
             /\ call' = Guarded
    <3>1. op'[o].st = op[o].st /\ op'[o].qos = op[o].qos /\ \A p \in Ops : p # o => op'[p] = op[p]
      BY <1>1, <2>1 DEF OpsInv, OpsTypeOK, Op
    <3> QED  BY <2>1, <3>1 DEF SendingFrame
  <2> QED  BY <1>2, <1>5, <1>6, <1>8, <2>1 DEF Pubrec
<1>9. ASSUME NEW o \in Ops, ResponseTimeout(o) PROVE SendsNothing
  <2>1. ResponseTimer(o, Guarded) /\ CallOK(Guarded)
    BY <1>9, CallsTyped DEF ResponseTimeout
  <2>2. o \in Published
    BY <2>1, TimedArePublished
  <2> QED  BY <1>1, <2>1, <2>2, ResendFrame DEF ResponseTimer
<1>10. Connect \/ ConnectFails \/ NetworkDisconnected \/ PubrecUnknown \/ ApiExit
         => SendsNothing
  BY <1>14, DisconnectedFrame
     DEF Connect, ConnectFails, NetworkDisconnected, PubrecUnknown, ApiExit, Idle
<1>11. ASSUME NEW byBroker, Disconnect(byBroker) PROVE SendsNothing
  BY <1>11, DisconnectedFrame DEF Disconnect
<1>12. ASSUME NEW present, NEW limit, NEW expiry, NEW small,
              Connack(present, limit, expiry, small)
       PROVE  SendsNothing
  <2>1. PICK l, n, m :
           call' = Guarded \/ call' = [Guarded EXCEPT !.loop = l, !.at = n, !.upto = m]
    BY <1>12 DEF Connack
  <2>2. UNCHANGED op
    BY <1>12 DEF Connack
  <2> QED  BY <1>14, <2>1, <2>2 DEF Guarded, NoCall
<1>13. SessionExpiryTimeout => SendsNothing
  BY DEF SessionExpiryTimeout, ExpiryTimer, SendingFrame, OpIn
<1> QED  BY <1>3, <1>4, <1>7, <1>8, <1>9, <1>10, <1>11, <1>12, <1>13

(* What a call in progress does while timers run. *)
LEMMA InnerSending ==
  ASSUME IndInv, CallStep \/ SendTick, ~Transmit, ~ApiExit
  PROVE  SendingKept
<1>1. OpsInv /\ CallOK(call) /\ call \in CallTypes
  BY DEF IndInv, StepInv, CallOK
<1>2. CASE UNCHANGED op /\ session' = session /\ call'.sending = call.sending
  BY <1>2 DEF SendingKept, SendingFrame
<1>3. EndOfLoop.sending = call.sending /\ Advanced.sending = call.sending
  BY <1>1 DEF CallTypes, EndOfLoop, Advanced
<1>4. CASE ResumeNext
  <2> DEFINE waiting == {p \in Paused : call.resume <= p}
             o == Least(waiting)
  <2>1. session' = session
    BY <1>4 DEF ResumeNext, session_vars
  <2>2. CASE waiting # {} /\ canSend(o)
    <3>1. o \in Paused
      <4>1. waiting \subseteq Nat
        BY DEF Paused, Ops
      <4> QED  BY <2>2, <4>1, LeastInSet
    <3>2. DoSend(o, call)
      BY <1>4, <2>2 DEF ResumeNext
    <3> HIDE DEF o
    <3> QED  BY <1>1, <2>1, <3>1, <3>2, DoSendFrame DEF SendingKept
  <2>3. CASE ~(waiting # {} /\ canSend(o))
    <3>1. UNCHANGED op /\ call' = [call EXCEPT !.resume = 0]
      BY <1>4, <2>3 DEF ResumeNext
    <3> QED  BY <1>1, <1>2, <2>1, <3>1 DEF CallTypes
  <2> QED  BY <2>2, <2>3
<1>5. CASE CallbackReturns
  <2>1. call'.sending = call.sending
    BY <1>1, <1>5 DEF CallbackReturns, CallTypes
  <2> QED  BY <1>2, <1>5, <2>1 DEF CallbackReturns, session_vars
<1>6. CASE ResendNext
  <2>1. call.loop = "resend" /\ session' = session /\ CallOK(Advanced)
    BY <1>1, <1>6, AdvancedTyped DEF ResendNext, InLoop, session_vars
  <2>2. CASE ResendDupMsg(call.at, Advanced) /\ call.at \in Published
    BY <1>1, <1>3, <2>1, <2>2, ResendFrame DEF SendingKept
  <2>3. CASE Skip \/ \E f : Faults(f)
    BY <1>2, <1>3, <2>1, <2>3 DEF Skip, Faults
  <2> QED  BY <1>6, <2>2, <2>3 DEF ResendNext
<1>7. CASE ReconnectNext
  <2>1. /\ session' = session
        /\ call' = call \/ call' = [call EXCEPT !.at = @ + 1]
        /\ \/ UNCHANGED op
           \/ op' = [op EXCEPT ![call.at].timer = TRUE] /\ call.at \in Published
    BY <1>7 DEF ReconnectNext, Faults, session_vars
  <2>2. call'.sending = call.sending
    BY <1>1, <2>1 DEF CallTypes
  <2>3. SendingFrame
    BY <1>1, <2>1 DEF SendingFrame, OpsInv, OpsTypeOK, Op, Published
  <2> QED  BY <2>1, <2>2, <2>3 DEF SendingKept
<1>8. CASE ReconnectResume
  <2>1. PICK n : call' = [EndOfLoop EXCEPT !.resume = n]
    BY <1>8 DEF ReconnectResume
  <2>2. call'.sending = call.sending
    BY <1>1, <2>1 DEF CallTypes, EndOfLoop
  <2> QED  BY <1>2, <1>8, <2>2 DEF ReconnectResume, session_vars
<1>9. CASE AbortNext
  <2>1. call.loop = "abort" /\ session' = session /\ CallOK(Advanced) /\ call.at \in Ops
    BY <1>1, <1>9, AdvancedTyped DEF AbortNext, InLoop, session_vars
  <2>2. CASE CompleteWithCb(call.at, Advanced)
    BY <1>1, <1>3, <2>1, <2>2, CompleteFrame DEF SendingKept
  <2>3. CASE Skip \/ \E f : Faults(f)
    BY <1>2, <1>3, <2>1, <2>3 DEF Skip, Faults
  <2> QED  BY <1>9, <2>2, <2>3 DEF AbortNext
<1>10. CASE Terminate
  <2>1. call'.sending = call.sending
    BY <1>1, <1>10 DEF Terminate, CallTypes
  <2> QED  BY <1>10, <2>1, DisconnectedFrame DEF Terminate, SendingKept
<1>11. ASSUME NEW o \in Ops, ResponseTimer(o, call) PROVE SendingKept
  <2>1. o \in Published /\ session' = session
    BY <1>11, TimedArePublished DEF ResponseTimer, session_vars
  <2> QED  BY <1>1, <1>11, <2>1, ResendFrame DEF ResponseTimer, SendingKept
<1>12. CASE KeepAliveTimer(call)
  BY <1>12, DisconnectedFrame DEF KeepAliveTimer, SendingKept
<1>13. CASE ExpiryTimer(call)
  BY <1>13 DEF ExpiryTimer, SendingKept, SendingFrame, OpIn
<1>14. CASE SendTick
  BY <1>11, <1>12, <1>13, <1>14 DEF SendTick
<1> QED  BY <1>4, <1>5, <1>6, <1>7, <1>8, <1>9, <1>10, <1>14 DEF CallStep

(* What the application does in a callback. *)
LEMMA AppSending ==
  ASSUME IndInv, NEW o \in Ops, (\E q \in Qoses : Prepare(o, q)) \/ Send(o)
  PROVE  SendingKept
<1>1. OpsInv /\ CallOK(call) /\ op \in [Ops -> Op]
  BY DEF IndInv, StepInv, OpsInv, OpsTypeOK
<1>2. ASSUME NEW q \in Qoses, Prepare(o, q) PROVE SendingKept
  <2>1. /\ op' = [op EXCEPT ![o] = [OpIn("prepared") EXCEPT !.qos = q]]
        /\ call' = call /\ session' = session
    BY <1>2 DEF Prepare, session_vars
  <2>2. op'[o].st = "prepared" /\ \A p \in Ops : p # o => op'[p] = op[p]
    BY <1>1, <2>1 DEF OpIn
  <2> QED  BY <2>1, <2>2 DEF SendingKept, SendingFrame
<1>3. ASSUME Send(o) PROVE SendingKept
  <2> DEFINE entered == IF call = NoCall THEN Guarded ELSE call
  <2>1. session' = session
    BY <1>3 DEF Send, session_vars
  <2>2. \/ call' = call \/ call' = Resuming(o, call)
        \/ call' = entered \/ call' = Resuming(o, Reported(o, entered))
    BY <1>3 DEF Send
  <2>3. CallOK(entered) /\ (entered.sending = call.sending)
    BY <1>1, CallsTyped, GuardedSending
  <2> HIDE DEF entered
  <2>4. call'.sending = call.sending
    BY <1>1, <2>2, <2>3, SendingOf
  <2>5. /\ op'[o].st \in {"paused", "published", "gone"}
        /\ \A p \in Ops : p # o => op'[p] = op[p]
    <3>1. ASSUME NEW i, op' = [[op EXCEPT ![o].id = i] EXCEPT ![o].st = "paused"]
          PROVE  op'[o].st = "paused" /\ \A p \in Ops : p # o => op'[p] = op[p]
      BY <1>1, <3>1 DEF Op
    <3>2. ASSUME NEW i, op' = [[op EXCEPT ![o].id = i] EXCEPT ![o].st = "published",
                                        ![o].attempts = 1, ![o].timer = TRUE]
          PROVE  op'[o].st = "published" /\ \A p \in Ops : p # o => op'[p] = op[p]
      BY <1>1, <3>2 DEF Op
    <3>3. ASSUME op' = [op EXCEPT ![o] = OpIn("gone")]
          PROVE  op'[o].st = "gone" /\ \A p \in Ops : p # o => op'[p] = op[p]
      BY <1>1, <3>3 DEF OpIn
    <3>4. \/ op' = [op EXCEPT ![o] = OpIn("gone")]
          \/ op' = [[op EXCEPT ![o].id = SendId(o).id] EXCEPT ![o].st = "paused"]
          \/ op' = [[op EXCEPT ![o].id = SendId(o).id] EXCEPT ![o].st = "published",
                                        ![o].attempts = 1, ![o].timer = TRUE]
      BY <1>3 DEF Send
    <3> QED  BY <3>1, <3>2, <3>3, <3>4
  <2> QED  BY <2>1, <2>4, <2>5 DEF SendingKept, SendingFrame
<1> QED  BY <1>2, <1>3

(* The place of the operation in send() is kept by every step. *)
LEMMA SendInvNext == IndInv /\ SendInv /\ [Next]_vars => SendInv'
<1> SUFFICES ASSUME IndInv, SendInv, [Next]_vars PROVE SendInv'
  OBVIOUS
<1>1. /\ inFlight \in Nat /\ session.limit \in Nat /\ inFlight' \in Nat
      /\ call'.sending \in 0 .. MaxOps /\ call.sending \in 0 .. MaxOps
  <2>1. IndInv'
    BY IndInvNext
  <2> QED  BY <2>1 DEF IndInv, StepInv, OpsInv, OpsTypeOK, RestTypeOK, SessionTypes,
                       CallOK, CallTypes
<1>2. \A n \in 0 .. MaxOps : n # 0 => n \in Ops
  BY SendOpsAssumption DEF Ops
<1>3. call'.sending = 0 => SendInv'
  BY DEF SendInv
<1>4. SendingKept /\ TakesFreeSlot => SendInv'
  <2> SUFFICES ASSUME SendingKept, TakesFreeSlot, call'.sending # 0,
                      op'[call'.sending].st = "sending", op'[call'.sending].qos # 0
               PROVE  inFlight' <= session'.limit
    BY DEF SendInv
  <2>1. inFlight <= session.limit
    BY <1>1, <1>2 DEF SendingKept, SendingFrame, SendInv
  <2> QED  BY <1>1, <2>1 DEF SendingKept, TakesFreeSlot
<1>5. CASE UNCHANGED vars
  BY <1>5 DEF vars, session_vars, SendInv
<1>6. ASSUME Next, ~Transmit PROVE TakesFreeSlot
  BY <1>6, NextOK DEF StepOK
<1>7. ASSUME NEW o \in Ops, SendDue(o) PROVE SendInv'
  <2>1. /\ call'.sending = o /\ session' = session /\ inFlight' = inFlight
        /\ op'[o].qos = op[o].qos /\ canSend(o)
    BY <1>7 DEF SendDue, Guarded, NoCall, session_vars, IndInv, StepInv, OpsInv,
                OpsTypeOK, Op
  <2> QED  BY <1>1, <2>1 DEF SendInv, canSend
<1>8. CASE Transmit
  <2> DEFINE o == call.sending
             after == [call EXCEPT !.sending = 0]
  <2>1. /\ CallOK(call) /\ OpsInv /\ o \in Ops
    BY <1>1, <1>2, <1>8 DEF Transmit, InSend, IndInv, StepInv
  <2>2. CallOK(after) /\ after.sending = 0
    BY <2>1, SendOpsAssumption DEF CallOK, CallTypes
  <2>3. CASE op[o].st # "sending"
    BY <1>8, <2>3 DEF Transmit, Faults, SendInv
  <2>4. CASE op[o].st = "sending" /\ fits(o)
    <3>1. DoSend(o, after) /\ o \in Paused \cup Sending
      BY <1>8, <2>1, <2>4 DEF Transmit, Sending
    <3> HIDE DEF o, after
    <3> QED  BY <1>3, <2>1, <2>2, <3>1, DoSendFrame
  <2>5. CASE op[o].st = "sending" /\ ~fits(o)
    <3>1. call' = Resuming(o, NoCall)
      BY <1>8, <2>5 DEF Transmit
    <3> QED  BY <1>3, <3>1, SendingOf, CallsTyped, GuardedSending
  <2> QED  BY <2>3, <2>4, <2>5
<1>9. ASSUME ~Transmit, ~ApiExit, CallStep \/ SendTick PROVE SendInv'
  BY <1>4, <1>6, <1>9, InnerSending DEF Next
<1>10. ASSUME NEW o \in Ops, (\E q \in Qoses : Prepare(o, q)) \/ Send(o) PROVE SendInv'
  <2>1. Next /\ (~Transmit => SendInv')
    BY <1>4, <1>6, <1>10, AppSending DEF Next
  <2> QED  BY <1>8, <2>1
<1>11. ApiExit => SendInv'
  BY <1>3, CallsSendNothing DEF SendsNothing
<1> QED  BY <1>3, <1>5, <1>7, <1>8, <1>9, <1>10, <1>11, CallsSendNothing
         DEF Next, SendsNothing

(* The place is kept throughout. *)
LEMMA SendInductive == Spec => [](IndInv /\ SendInv)
<1>1. Init => SendInv
  BY DEF Init, NoCall, SendInv
<1>2. IndInv /\ SendInv /\ [Next]_vars => (IndInv /\ SendInv)'
  BY IndInvNext, SendInvNext
<1> QED  BY <1>1, <1>2, IndInvInit, PTL DEF Spec

(* Once the PUBREC of an operation has arrived, no path of the code - timeout, *)
(* resendAllUntil(), reconnection - transmits its PUBLISH again.               *)
THEOREM PubrecFinal == Spec => PublishNotAfterPubrec
<1>1. IndInv /\ SendInv /\ [Next]_vars
        => [out'.type = "PUBLISH" => ~op[out'.op].acked]_vars
  BY NextOK, TransmitOK DEF StepOK, PublishUnacked
<1> QED  BY <1>1, SendInductive, PTL DEF Spec, PublishNotAfterPubrec

(* First transmissions stay within the Receive Maximum of the session, whoever  *)
(* makes them and whatever timers and callbacks run inside of send(); the one   *)
(* operation whose send() let timers run after canSend() may exceed it, by      *)
(* itself and no more, however many its callbacks publish meanwhile.            *)
THEOREM ReceiveMaximumOfFirstSends == Spec => WithinReceiveMaximum
<1>1. ASSUME IndInv, SendInv, Next, inFlight' > inFlight
      PROVE  inFlight' <= session.limit + (IF out'.op = call.sending THEN 1 ELSE 0)
  <2>1. CASE Transmit
    BY <1>1, <2>1, TransmitOK
  <2>2. CASE ~Transmit
    <3>1. inFlight' <= session.limit
      BY <1>1, <2>2, NextOK DEF StepOK, TakesFreeSlot
    <3>2. inFlight' \in Nat /\ session.limit \in Nat
      <4>1. IndInv'
        BY <1>1, IndInvNext
      <4> QED  BY <1>1, <4>1 DEF IndInv, StepInv, OpsInv, OpsTypeOK, RestTypeOK,
                                SessionTypes
    <3> QED  BY <3>1, <3>2
  <2> QED  BY <2>1, <2>2
<1>2. IndInv /\ SendInv /\ [Next]_vars
        => [out'.type = "PUBLISH" /\ ~out'.dup /\ inFlight' > inFlight
              => inFlight' <= session.limit
                                + (IF out'.op = call.sending THEN 1 ELSE 0)]_vars
  BY <1>1
<1> QED  BY <1>2, SendInductive, PTL DEF Spec, WithinReceiveMaximum

------------------------------------------------------------------------------
(* The order of the publishes and the end of their waiting. *)

(* Operations are numbers. *)
LEMMA OpsAreInts ==
  /\ Ops \subseteq Int /\ Ops \subseteq Nat
  /\ Live \subseteq Ops /\ Created \subseteq Ops /\ Paused \subseteq Ops
  /\ Published \subseteq Ops /\ PreparedOps \subseteq Ops
BY SendOpsAssumption DEF Ops, Live, Created, Paused, Published, PreparedOps

(* What is in m_sendOps was prepared, waits or was transmitted. *)
LEMMA LiveParts ==
  /\ Live = PreparedOps \cup Paused \cup Published /\ Live \subseteq Created
  /\ Paused \cap Published = {} /\ PreparedOps \cap (Paused \cup Published) = {}
BY DEF Live, Created, Paused, Published, PreparedOps

(* The operation before one that has paused ones before it is paused. *)
LEMMA PausedBefore ==
  ASSUME ListOrder, NEW p \in Live, NEW q \in Paused, q < p
  PROVE  hasPausedSendsBefore(p)
<1> DEFINE S == {n \in Nat : p - n \in Live /\ p - n < p}
<1>1. p \in Int /\ q \in Int /\ q \in Live
  BY OpsAreInts, LiveParts
<1>2. p - (p - q) = q /\ p - q \in Nat
  BY <1>1
<1>3. S # {} /\ S \subseteq Nat
  BY <1>1, <1>2
<1>4. /\ Least(S) \in Nat /\ p - Least(S) \in Live /\ p - Least(S) < p
      /\ \A n \in S : Least(S) <= n
  BY <1>3, LeastInSet
<1> DEFINE m == p - Least(S)
<1>5. \A x \in Live : ~(m < x /\ x < p)
  <2> SUFFICES ASSUME NEW x \in Live, m < x, x < p PROVE FALSE
    OBVIOUS
  <2>1. x \in Int /\ p - x \in Nat /\ p - (p - x) = x
    BY <1>1, OpsAreInts
  <2>2. p - x \in S
    BY <2>1
  <2>3. Least(S) <= p - x
    BY <1>4, <2>2
  <2> QED  BY <1>1, <1>4, <2>1, <2>3
<1>6. q <= m
  BY <1>1, <1>4, <1>5, OpsAreInts
<1>7. m \in Live /\ m < p /\ m \in Int
  BY <1>1, <1>4
<1> HIDE DEF m
<1>8. m \notin Published
  BY <1>1, <1>6, <1>7 DEF ListOrder, PublishedFirst
<1>9. m \notin PreparedOps
  BY <1>1, <1>7, LiveParts DEF ListOrder, PreparedLast
<1>10. m \in Paused
  BY <1>7, <1>8, <1>9, LiveParts
<1> QED  BY <1>5, <1>7, <1>10 DEF hasPausedSendsBefore

(* The operation that waits first. *)
LEMMA FirstPaused ==
  ASSUME Paused # {}
  PROVE  Least(Paused) \in Paused /\ \A p \in Paused : Least(Paused) <= p
BY LeastInSet, OpsAreInts

(* When the first one cannot be transmitted no other one can. *)
LEMMA BlockedStops ==
  ASSUME OpsInv, ListOrder, Blocked, NEW p \in Paused
  PROVE  ~canSend(p)
<1>1. CASE session.limit <= inFlight
  BY <1>1 DEF canSend, ListOrder, PausedQos
<1>2. CASE ~(session.limit <= inFlight)
  <2> DEFINE q == Least(Paused)
  <2>1. q \in Paused /\ q <= p /\ \A x \in Paused : q <= x
    BY FirstPaused
  <2> HIDE DEF q
  <2>2. fullOrdering /\ \E x \in Live : x < q /\ op[x].qos > op[q].qos
    BY <1>2, <2>1 DEF Blocked
  <2>3. CASE q = p
    BY <1>2, <2>2, <2>3 DEF canSend, hasHigherQosSendsBefore
  <2>4. CASE q # p
    <3>1. q < p /\ p \in Live
      BY <2>1, <2>4, OpsAreInts, LiveParts
    <3>2. hasPausedSendsBefore(p)
      BY <2>1, <3>1, PausedBefore
    <3> QED  BY <1>2, <2>2, <3>2 DEF canSend
  <2> QED  BY <2>3, <2>4
<1> QED  BY <1>1, <1>2

(* When the first one cannot be transmitted it is for a reason that lasts. *)
LEMMA StopsBlocked ==
  ASSUME NEW q \in Paused, \A p \in Paused : q <= p, ~canSend(q)
  PROVE  Blocked
<1>1. \A x \in Paused : (\A p \in Paused : x <= p) => x = q
  BY OpsAreInts
<1>2. ~hasPausedSendsBefore(q)
  BY OpsAreInts DEF hasPausedSendsBefore
<1> QED  BY <1>1, <1>2 DEF Blocked, canSend, hasHigherQosSendsBefore

(* Without a paused operation nobody waits in vain. *)
LEMMA NobodyWaits ==
  ASSUME Paused = {}
  PROVE  Blocked
BY DEF Blocked

(* The first one stays, and what it waits for. *)
LEMMA BlockedKept ==
  ASSUME Blocked, session'.limit = session.limit, inFlight' = inFlight,
         fullOrdering' = fullOrdering,
         ASSUME NEW q \in Paused', \A p \in Paused' : q <= p
         PROVE  /\ q \in Paused /\ \A p \in Paused : q <= p
                /\ op'[q].qos = op[q].qos
                /\ \A p \in Live : p < q => p \in Live' /\ op'[p].qos = op[p].qos
  PROVE  Blocked'
<1> SUFFICES ASSUME NEW q \in Paused', \A p \in Paused' : q <= p
             PROVE  \/ session'.limit <= inFlight'
                    \/ /\ fullOrdering'
                       /\ \E p \in Live' : p < q /\ op'[p].qos > op'[q].qos
  BY DEF Blocked
<1>1. /\ q \in Paused /\ \A p \in Paused : q <= p
      /\ op'[q].qos = op[q].qos
      /\ \A p \in Live : p < q => p \in Live' /\ op'[p].qos = op[p].qos
  OBVIOUS
<1> QED  BY <1>1 DEF Blocked

(* Operations only leave the list, or change in nothing that the order sees. *)
LEMMA ListOrderShrinks ==
  ASSUME ListOrder, Created' = Created, fullOrdering' = fullOrdering,
         Paused' \subseteq Paused, Published' \subseteq Published,
         PreparedOps' \subseteq PreparedOps, PreparedOps' # {} => locked',
         \A p \in Paused' \cup Published' : op'[p].qos = op[p].qos
  PROVE  ListOrder'
<1>1. CreatedFirst' /\ PublishedFirst'
  BY DEF ListOrder, CreatedFirst, PublishedFirst
<1>2. PreparedLast'
  BY DEF ListOrder, PreparedLast
<1>3. HigherLater' /\ PausedQos'
  BY DEF ListOrder, HigherLater, PausedQos
<1> QED  BY <1>1, <1>2, <1>3 DEF ListOrder

(* An operation is transmitted that nothing before it holds back. *)
LEMMA ListOrderPublished ==
  ASSUME OpsInv, ListOrder, NEW o \in Live, o \notin Published,
         Created' = Created, fullOrdering' = fullOrdering,
         Paused' = Paused \ {o}, Published' = Published \cup {o},
         PreparedOps' \subseteq PreparedOps, PreparedOps' # {} => locked',
         \A p \in Ops : op'[p].qos = op[p].qos,
         \A q \in Paused : q # o => o < q,
         fullOrdering => ~hasHigherQosSendsBefore(o)
  PROVE  ListOrder'
<1>1. CreatedFirst' /\ PublishedFirst'
  BY DEF ListOrder, CreatedFirst, PublishedFirst
<1>2. PreparedLast'
  BY DEF ListOrder, PreparedLast
<1>3. \A p \in Published : p < o
  <2>1. o \in Paused \/ o \in PreparedOps
    BY LiveParts
  <2>2. CASE o \in Paused
    BY <2>2 DEF ListOrder, PublishedFirst
  <2>3. ASSUME o \in PreparedOps, NEW p \in Published PROVE p < o
    <3>1. p \in Created /\ p \in Int /\ o \in Int
      BY LiveParts, OpsAreInts
    <3>2. p <= o
      BY <2>3, <3>1 DEF ListOrder, PreparedLast
    <3> QED  BY <3>1, <3>2
  <2> QED  BY <2>1, <2>2, <2>3
<1>4. fullOrdering => \A p \in Published : ~(op[p].qos > op[o].qos)
  BY <1>3, LiveParts DEF hasHigherQosSendsBefore
<1>5. \A p \in Ops : op[p].qos \in Int
  BY DEF OpsInv, OpsTypeOK, Op
<1>6. HigherLater'
  <2> SUFFICES ASSUME fullOrdering, NEW x \in Published', NEW y \in Published', x < y
               PROVE  op[x].qos <= op[y].qos
    BY OpsAreInts DEF HigherLater
  <2>1. x \in Int /\ y \in Int /\ o \in Int /\ x \in Ops /\ y \in Ops /\ o \in Ops
    BY OpsAreInts
  <2>2. CASE y = o
    BY <1>4, <1>5, <2>1, <2>2
  <2>3. CASE y # o
    BY <1>3, <2>1, <2>3 DEF ListOrder, HigherLater
  <2> QED  BY <2>2, <2>3
<1>7. PausedQos'
  BY OpsAreInts DEF ListOrder, PausedQos
<1> QED  BY <1>1, <1>2, <1>6, <1>7 DEF ListOrder

(* An operation leaves the list. *)
LEMMA ErasedEffect ==
  ASSUME OpsInv, NEW o \in Live, op' = [op EXCEPT ![o] = OpIn("gone")]
  PROVE  /\ Live' = Live \ {o} /\ Paused' = Paused \ {o}
         /\ Published' = Published \ {o} /\ PreparedOps' = PreparedOps \ {o}
         /\ Created' = Created
         /\ \A p \in Ops : p # o => op'[p].qos = op[p].qos
<1>1. o \in Ops /\ op'[o].st = "gone" /\ \A p \in Ops : p # o => op'[p] = op[p]
  BY DEF OpsInv, OpsTypeOK, Live, OpIn
<1>2. op[o].st \in {"prepared", "sending", "paused", "published"}
  BY DEF Live
<1> QED  BY <1>1, <1>2 DEF Live, Paused, Published, PreparedOps, Created

(* Operations keep their states and their QoS. *)
SameShape == \A p \in Ops : op'[p].st = op[p].st /\ op'[p].qos = op[p].qos

(* Then the sets of operations stay. *)
LEMMA SameShapeEffect ==
  ASSUME SameShape
  PROVE  /\ Live' = Live /\ Paused' = Paused /\ Published' = Published
         /\ PreparedOps' = PreparedOps /\ Created' = Created
BY DEF SameShape, Live, Paused, Published, PreparedOps, Created

(* Then the order stays. *)
LEMMA SameShapeOrder ==
  ASSUME ListOrder, SameShape, locked' = locked, fullOrdering' = fullOrdering
  PROVE  ListOrder'
BY SameShapeEffect, ListOrderShrinks, OpsAreInts
   DEF SameShape, ListOrder, PreparedLast

(* Then the operation that waits first stays blocked. *)
LEMMA SameShapeBlocked ==
  ASSUME Blocked, SameShape, inFlight' = inFlight, fullOrdering' = fullOrdering,
         session'.limit = session.limit
  PROVE  Blocked'
BY SameShapeEffect, BlockedKept, OpsAreInts DEF SameShape

(* Every operation leaves the list. *)
LEMMA ClearedOrder ==
  ASSUME OpsInv, ListOrder, fullOrdering' = fullOrdering,
         op' = [o \in Ops |-> IF o \in Live THEN OpIn("gone") ELSE op[o]]
  PROVE  /\ ListOrder' /\ Live' = {} /\ Paused' = {} /\ PreparedOps' = {}
         /\ Created' = Created
<1>1. /\ Live' = {} /\ Paused' = {} /\ PreparedOps' = {} /\ Published' = {}
      /\ Created' = Created
  BY DEF Live, Paused, Published, PreparedOps, Created, OpIn
<1> QED  BY <1>1, ListOrderShrinks

(* The fields of the calls that completions return to. *)
LEMMA ReportedFields ==
  ASSUME NEW o, NEW from, CallOK(from)
  PROVE  LET c == Reported(o, from) IN
         /\ c.loop = from.loop /\ c.at = from.at /\ c.upto = from.upto
         /\ c.closing = from.closing /\ c.resume = from.resume
         /\ c.guarded = from.guarded
BY DEF Reported, CallOK, CallTypes

(* A resumption changes nothing else of a call. *)
LEMMA ResumingFields ==
  ASSUME NEW o, NEW from, CallOK(from)
  PROVE  LET c == Resuming(o, from) IN
         /\ c.loop = from.loop /\ c.at = from.at /\ c.upto = from.upto
         /\ c.closing = from.closing /\ c.cbs = from.cbs
         /\ c.resume = IF session.disconnecting THEN 0 ELSE o
BY DEF Resuming, CallOK, CallTypes

(* An operation leaves the list in the middle of a call: the ones behind it   *)
(* are about to be looked at, the ones before it are as blocked as they were. *)
LEMMA LeavesOrder ==
  ASSUME OpsInv, QueueInv, NEW o \in Live, NEW from, CallOK(from),
         op' = [op EXCEPT ![o] = OpIn("gone")], call' = Resuming(o, from),
         o \notin Published => inFlight' = inFlight,
         UNCHANGED <<session, connecting, fullOrdering>>,
         PreparedOps \ {o} # {} => locked',
         from.loop # "reconnect", from.closing => from.loop = "none",
         from.loop = "abort" => /\ from.at <= from.upto
                                /\ \A p \in Ops : p <= from.upto => p \in Created
                                /\ \A p \in Live : p # o => from.at <= p,
         session.connected /\ (\E q \in Paused : q < o) => Blocked
  PROVE  QueueInv'
<1>1. /\ Live' = Live \ {o} /\ Paused' = Paused \ {o}
      /\ Published' = Published \ {o} /\ PreparedOps' = PreparedOps \ {o}
      /\ Created' = Created
      /\ \A p \in Ops : p # o => op'[p].qos = op[p].qos
  BY ErasedEffect
<1>2. o \in Ops /\ o # 0 /\ o \in Int
  BY OpsAreInts, SendOpsAssumption DEF Live, Ops
<1>3. /\ call'.loop = from.loop /\ call'.at = from.at /\ call'.upto = from.upto
      /\ call'.closing = from.closing /\ call'.cbs = from.cbs
      /\ call'.resume = IF session.disconnecting THEN 0 ELSE o
  BY ResumingFields
<1>4. ListOrder'
  BY <1>1, OpsAreInts, ListOrderShrinks DEF QueueInv
<1>5. LoopOK(call)'
  BY <1>1, <1>3 DEF LoopOK
<1>6. ASSUME session.connected, NEW q \in Paused, q < o
      PROVE  Blocked'
  <2>1. Blocked
    BY <1>6
  <2>2. q \in Int
    BY OpsAreInts
  <2>3. o \notin Published
    BY <1>2, <1>6, <2>2 DEF QueueInv, ListOrder, PublishedFirst
  <2>4. ASSUME NEW f \in Paused', \A p \in Paused' : f <= p
        PROVE  /\ f \in Paused /\ \A p \in Paused : f <= p
               /\ op'[f].qos = op[f].qos
               /\ \A p \in Live : p < f => p \in Live' /\ op'[p].qos = op[p].qos
    <3>1. f \in Paused /\ f # o /\ f \in Int /\ f \in Ops
      BY <1>1, OpsAreInts
    <3>2. q \in Paused'
      BY <1>1, <1>2, <1>6, <2>2
    <3>3. f < o
      BY <1>2, <1>6, <2>2, <2>4, <3>1, <3>2
    <3>4. \A p \in Paused : f <= p
      BY <1>1, <1>2, <2>4, <3>1, <3>3
    <3>5. \A p \in Live : p < f => p # o /\ p \in Ops
      BY <1>2, <3>1, <3>3, OpsAreInts
    <3> QED  BY <1>1, <3>1, <3>4, <3>5
  <2> QED  BY <1>1, <2>1, <2>3, <2>4, BlockedKept
<1>7. WaitOK(call)'
  <2>1. session.connected => ~session.disconnecting
    BY DEF QueueInv, SessionFacts
  <2>2. session.connected => call'.resume = o
    BY <1>3, <2>1
  <2>3. \A q \in Paused' : q \in Paused
    BY <1>1
  <2> QED  BY <1>2, <1>6, <2>2, <2>3 DEF WaitOK
<1> QED  BY <1>4, <1>5, <1>7 DEF QueueInv, SessionFacts, PlainUse

(* The same for opComplete(). *)
LEMMA CompleteOrder ==
  ASSUME OpsInv, QueueInv, NEW o \in Live, NEW from, CallOK(from),
         Complete(o, from), UNCHANGED <<session, connecting, fullOrdering>>,
         PreparedOps \ {o} # {} => locked',
         from.loop # "reconnect", from.closing => from.loop = "none",
         from.loop = "abort" => /\ from.at <= from.upto
                                /\ \A p \in Ops : p <= from.upto => p \in Created
                                /\ \A p \in Live : p # o => from.at <= p,
         session.connected /\ (\E q \in Paused : q < o) => Blocked
  PROVE  QueueInv'
<1>1. op' = [op EXCEPT ![o] = OpIn("gone")] /\ call' = Resuming(o, from)
  BY DEF Complete, Erased
<1>2. o \notin Published => inFlight' = inFlight
  BY OpsAreInts, LiveParts DEF Complete, Erased, Published
<1> QED  BY <1>1, <1>2, LeavesOrder

(* The same for completeWithCb(). *)
LEMMA CompleteWithCbOrder ==
  ASSUME OpsInv, QueueInv, NEW o \in Live, NEW from, CallOK(from),
         CompleteWithCb(o, from), UNCHANGED <<session, connecting, fullOrdering>>,
         PreparedOps \ {o} # {} => locked',
         from.loop # "reconnect", from.closing => from.loop = "none",
         from.loop = "abort" => /\ from.at <= from.upto
                                /\ \A p \in Ops : p <= from.upto => p \in Created
                                /\ \A p \in Live : p # o => from.at <= p,
         session.connected /\ (\E q \in Paused : q < o) => Blocked
  PROVE  QueueInv'
<1> DEFINE to == IF op[o].st = "prepared" THEN from ELSE Reported(o, from)
<1>1. CallOK(to)
  BY ReportedTyped
<1>2. Complete(o, to)
  BY DEF CompleteWithCb
<1>3. /\ to.loop = from.loop /\ to.at = from.at /\ to.upto = from.upto
      /\ to.closing = from.closing
  BY ReportedFields
<1> HIDE DEF to
<1> QED  BY <1>1, <1>2, <1>3, CompleteOrder

(* Between two calls, and in a callback, nobody waits who need not. *)
LEMMA AtRest ==
  ASSUME QueueInv, session.connected, fault = "none", call.resume = 0,
         call.loop # "reconnect", call.loop # "abort" \/ call.cbs # 0
  PROVE  Blocked
BY DEF QueueInv, WaitOK

(* The case of a call of the application or of the broker. *)
LEMMA IdleRest ==
  ASSUME QueueInv, Idle, session.connected
  PROVE  Blocked
BY AtRest DEF Idle, NoCall

(* The case of a publish, which may be made in a callback. *)
LEMMA AppTurnRest ==
  ASSUME IndInv, QueueInv, AppTurn, session.connected
  PROVE  /\ Blocked /\ fault = "none" /\ call.resume = 0
         /\ call.loop # "reconnect"
<1>1. fault = "none" /\ call.resume = 0 /\ call.loop # "reconnect"
      /\ (call.loop # "abort" \/ call.cbs # 0)
  BY DEF AppTurn, InCallback, NoCall, QueueInv, LoopOK, IndInv, StepInv, CallOK,
         CallTypes
<1> QED  BY <1>1, AtRest

(* A step that leaves the list as it is, made when nobody waits in vain. *)
LEMMA QuietOrder ==
  ASSUME QueueInv, SameShape,
         UNCHANGED <<session, connecting, fullOrdering, locked, inFlight>>,
         LoopOK(call)', session.connected => Blocked
  PROVE  QueueInv'
<1>1. ListOrder'
  BY SameShapeOrder DEF QueueInv
<1>2. session.connected => Blocked'
  BY SameShapeBlocked
<1> QED  BY <1>1, <1>2 DEF QueueInv, SessionFacts, WaitOK, PlainUse

(* Operations that are not touched keep their shape. *)
LEMMA SameOps ==
  ASSUME op' = op
  PROVE  SameShape
BY DEF SameShape

(* The calls that start without a loop. *)
LEMMA PlainCalls ==
  /\ NoCall.loop = "none" /\ NoCall.resume = 0 /\ NoCall.closing = FALSE
  /\ NoCall.cbs = 0 /\ NoCall.at = 0 /\ NoCall.upto = 0
  /\ Guarded.loop = "none" /\ Guarded.resume = 0 /\ Guarded.closing = FALSE
  /\ Guarded.cbs = 0 /\ Guarded.at = 0 /\ Guarded.upto = 0
BY DEF NoCall, Guarded

(* One lemma for each action: the ordering changes only when the list is empty. *)
LEMMA OrderInvSetOrdering ==
  ASSUME QueueInv, NEW full, setPublishOrdering(full)
  PROVE  QueueInv'
<1>1. Live = {} /\ op' = op
  BY DEF setPublishOrdering
<1>2. /\ Paused = {} /\ Published = {} /\ PreparedOps = {}
      /\ Paused' = {} /\ Published' = {} /\ PreparedOps' = {}
      /\ Created' = Created
  BY <1>1, LiveParts DEF Paused, Published, PreparedOps, Created
<1>3. ListOrder'
  BY <1>2 DEF QueueInv, ListOrder, CreatedFirst, PreparedLast, PublishedFirst,
              HigherLater, PausedQos
<1>4. Blocked'
  BY <1>2 DEF Blocked
<1>5. LoopOK(call)'
  BY <1>2, PlainCalls DEF setPublishOrdering, Idle, LoopOK, session_vars
<1> QED  BY <1>3, <1>4, <1>5
         DEF QueueInv, SessionFacts, WaitOK, PlainUse, setPublishOrdering, session_vars

(* A new operation comes last. *)
LEMMA OrderInvPrepare ==
  ASSUME IndInv, QueueInv, NEW o \in Ops, NEW q \in Qoses, Prepare(o, q)
  PROVE  QueueInv'
<1>1. /\ op[o].st = "none" /\ ~locked /\ locked' /\ session.connected
      /\ UNCHANGED <<session, connecting, inFlight, fullOrdering, call>>
      /\ \A p \in Ops : p < o => p \in Created
  BY DEF Prepare, session_vars, Created
<1>2. op'[o].st = "prepared" /\ \A p \in Ops : p # o => op'[p] = op[p]
  BY DEF Prepare, IndInv, StepInv, OpsInv, OpsTypeOK, OpIn
<1>3. PreparedOps = {}
  BY <1>1 DEF QueueInv, ListOrder, PreparedLast
<1>4. /\ Paused' = Paused /\ Published' = Published /\ PreparedOps' = {o}
      /\ Created' = Created \cup {o} /\ Live' = Live \cup {o} /\ o \notin Created
  BY <1>1, <1>2, <1>3 DEF Paused, Published, PreparedOps, Created, Live
<1>5. \A p \in Created : p < o
  BY <1>4, OpsAreInts DEF QueueInv, ListOrder, CreatedFirst
<1>6. \A p \in Live : p \in Ops /\ op'[p].qos = op[p].qos
  BY <1>2, <1>4, OpsAreInts, LiveParts
<1>7. ListOrder'
  <2>1. CreatedFirst'
    BY <1>1, <1>4 DEF QueueInv, ListOrder, CreatedFirst
  <2>2. PreparedLast'
    BY <1>1, <1>4, <1>5, OpsAreInts DEF PreparedLast
  <2>3. PublishedFirst' /\ HigherLater' /\ PausedQos'
    BY <1>1, <1>4, <1>6, LiveParts
       DEF QueueInv, ListOrder, PublishedFirst, HigherLater, PausedQos
  <2> QED  BY <2>1, <2>2, <2>3 DEF ListOrder
<1>8. Blocked /\ call.resume = 0 /\ call.loop # "reconnect"
  BY <1>1, AppTurnRest DEF Prepare
<1>9. Blocked'
  BY <1>1, <1>4, <1>6, <1>8, LiveParts, BlockedKept
<1>10. LoopOK(call)'
  <2>1. call.loop = "abort" => call.at <= o
    <3> SUFFICES ASSUME call.loop = "abort" PROVE call.at <= o
      OBVIOUS
    <3>1. ~(o <= call.upto) /\ call.at <= call.upto
      BY <1>4 DEF QueueInv, LoopOK
    <3>2. call.at \in Int /\ call.upto \in Int /\ o \in Int
      BY OpsAreInts DEF IndInv, StepInv, CallOK, CallTypes
    <3> QED  BY <3>1, <3>2
  <2> QED  BY <1>1, <1>4, <1>8, <2>1 DEF QueueInv, LoopOK
<1> QED  BY <1>1, <1>7, <1>9, <1>10 DEF QueueInv, SessionFacts, WaitOK, PlainUse

(* A prepared operation is the only one, holds the lock and is the newest. *)
LEMMA PreparedAlone ==
  ASSUME ListOrder, NEW o \in PreparedOps
  PROVE  PreparedOps = {o} /\ locked /\ \A p \in Live : p # o => p < o
<1>1. locked /\ \A p \in Created : p <= o
  BY DEF ListOrder, PreparedLast
<1>2. \A p \in PreparedOps : o <= p
  BY LiveParts DEF ListOrder, PreparedLast
<1>3. \A p \in Live : p \in Created /\ p \in Int
  BY LiveParts, OpsAreInts
<1>4. PreparedOps \subseteq Live
  BY LiveParts
<1>5. \A p \in PreparedOps : p = o
  BY <1>1, <1>2, <1>3, <1>4
<1> QED  BY <1>1, <1>3, <1>4, <1>5

(* send(): what is transmitted has nobody before it, what is paused waits for a reason. *)
LEMMA OrderInvSend ==
  ASSUME IndInv, QueueInv, NEW o \in Ops, Send(o)
  PROVE  QueueInv'
<1> DEFINE entered == IF call = NoCall THEN Guarded ELSE call
<1>1. /\ o \in PreparedOps /\ o \in Live /\ o \notin Published /\ o \notin Paused
      /\ session.connected /\ o \in Int
      /\ UNCHANGED <<session, connecting, fullOrdering, fault>>
  BY OpsAreInts
     DEF Send, SendId, PreparedOps, Live, Published, Paused, QueueInv, PlainUse, session_vars
<1>2. PreparedOps = {o} /\ \A p \in Live : p # o => p < o
  BY <1>1, PreparedAlone DEF QueueInv
<1>3. Blocked /\ call.resume = 0 /\ call.loop # "reconnect" /\ fault = "none"
  BY <1>1, AppTurnRest DEF Send, SendId
<1>4. OpsInv /\ CallOK(call) /\ CallOK(entered)
  BY CallsTyped DEF IndInv, StepInv
<1>5. /\ entered.loop = call.loop /\ entered.at = call.at
      /\ entered.upto = call.upto /\ entered.closing = call.closing
      /\ entered.resume = 0 /\ entered.cbs = call.cbs
  BY <1>3, PlainCalls
<1>6. LoopOK(call) /\ ~session.disconnecting
  BY <1>1 DEF QueueInv, SessionFacts
<1> HIDE DEF entered
<1>7. ASSUME ~canSend(o)
      PROVE  QueueInv'
  <2>1. UNCHANGED <<inFlight, call>>
    BY <1>7 DEF Send, SendId
  <2>2. /\ op'[o].st = "paused" /\ op'[o].qos = op[o].qos
        /\ \A p \in Ops : p # o => op'[p] = op[p]
    BY <1>4, <1>7 DEF Send, SendId, OpsInv, OpsTypeOK, Op
  <2>3. /\ Paused' = Paused \cup {o} /\ Published' = Published /\ PreparedOps' = {}
        /\ Created' = Created /\ Live' = Live
        /\ \A p \in Ops : op'[p].qos = op[p].qos
    BY <1>1, <1>2, <2>2 DEF Paused, Published, PreparedOps, Created, Live
  <2>4. ~fullOrdering => op[o].qos # 0
    BY <1>7 DEF canSend
  <2>5. ListOrder'
    <3>1. CreatedFirst' /\ PreparedLast'
      BY <2>3 DEF QueueInv, ListOrder, CreatedFirst, PreparedLast
    <3>2. PublishedFirst'
      BY <1>1, <1>2, <2>3, LiveParts DEF QueueInv, ListOrder, PublishedFirst
    <3>3. HigherLater' /\ PausedQos'
      BY <1>1, <2>3, <2>4, OpsAreInts DEF QueueInv, ListOrder, HigherLater, PausedQos
    <3> QED  BY <3>1, <3>2, <3>3 DEF ListOrder
  <2>6. Blocked'
    <3>1. CASE Paused # {}
      <4>1. \A p \in Paused : p < o /\ p \in Int
        BY <1>1, <1>2, LiveParts, OpsAreInts
      <4>2. \A q \in Paused' : (\A p \in Paused' : q <= p) =>
               q \in Paused /\ q \in Ops /\ \A p \in Paused : q <= p
        <5> SUFFICES ASSUME NEW q \in Paused', \A p \in Paused' : q <= p
                     PROVE  q \in Paused /\ q \in Ops /\ \A p \in Paused : q <= p
          OBVIOUS
        <5>1. PICK z \in Paused : TRUE
          BY <3>1
        <5>2. q <= z /\ z < o /\ z \in Int
          BY <2>3, <4>1, <5>1
        <5>3. q # o
          BY <1>1, <5>2
        <5>4. q \in Paused
          BY <2>3, <5>3
        <5> QED  BY <2>3, <5>4, OpsAreInts
      <4> QED  BY <1>1, <1>3, <2>1, <2>3, <4>2, OpsAreInts, BlockedKept
    <3>2. CASE Paused = {}
      <4>1. ~hasPausedSendsBefore(o)
        BY <3>2 DEF hasPausedSendsBefore
      <4>2. \/ session.limit <= inFlight
            \/ fullOrdering /\ \E p \in Live : p < o /\ op[p].qos > op[o].qos
        BY <1>7, <4>1 DEF canSend, hasHigherQosSendsBefore
      <4>3. \A q \in Paused' : q = o
        BY <2>3, <3>2
      <4> QED  BY <1>1, <2>1, <2>3, <4>2, <4>3, OpsAreInts DEF Blocked
    <3> QED  BY <3>1, <3>2
  <2>7. LoopOK(call)'
    BY <1>1, <1>3, <1>6, <2>1, <2>3 DEF LoopOK
  <2> QED  BY <1>1, <2>5, <2>6, <2>7 DEF QueueInv, SessionFacts, WaitOK, PlainUse
<1>8. ASSUME canSend(o), ~fits(o) \/ op[o].qos = 0
      PROVE  QueueInv'
  <2> DEFINE from == IF ~fits(o) THEN call ELSE Reported(o, entered)
  <2>1. /\ op' = [op EXCEPT ![o] = OpIn("gone")]
        /\ inFlight' = inFlight /\ call' = Resuming(o, from)
    BY <1>8 DEF Send, SendId, entered
  <2>2. CallOK(from)
    BY <1>4, ReportedTyped
  <2>3. /\ from.loop = call.loop /\ from.at = call.at /\ from.upto = call.upto
        /\ from.closing = call.closing
    BY <1>4, <1>5, ReportedFields
  <2> HIDE DEF from
  <2>4. PreparedOps \ {o} = {}
    BY <1>2
  <2> QED  BY <1>1, <1>3, <1>4, <1>6, <2>1, <2>2, <2>3, <2>4, LeavesOrder DEF LoopOK
<1>9. ASSUME canSend(o), fits(o), op[o].qos # 0
      PROVE  QueueInv'
  <2>1. inFlight' = inFlight + 1 /\ call' = entered
    BY <1>9 DEF Send, SendId, entered
  <2>2. /\ op'[o].st = "published" /\ op'[o].qos = op[o].qos
        /\ \A p \in Ops : p # o => op'[p] = op[p]
    BY <1>4, <1>9 DEF Send, SendId, OpsInv, OpsTypeOK, Op
  <2>3. /\ Published' = Published \cup {o} /\ Paused' = Paused /\ PreparedOps' = {}
        /\ Created' = Created /\ Live' = Live
        /\ \A p \in Ops : op'[p].qos = op[p].qos
    BY <1>1, <1>2, <2>2 DEF Paused, Published, PreparedOps, Created, Live
  <2>4. /\ ~(session.limit <= inFlight)
        /\ fullOrdering => ~hasPausedSendsBefore(o) /\ ~hasHigherQosSendsBefore(o)
    BY <1>9 DEF canSend
  <2>5. Paused = {}
    <3> SUFFICES ASSUME Paused # {} PROVE FALSE
      OBVIOUS
    <3>1. fullOrdering
      BY <1>3, <2>4, FirstPaused DEF Blocked
    <3>2. PICK q \in Paused : TRUE
      OBVIOUS
    <3>3. hasPausedSendsBefore(o)
      BY <1>1, <1>2, <3>2, LiveParts, PausedBefore DEF QueueInv
    <3> QED  BY <2>4, <3>1, <3>3
  <2>6. ListOrder'
    BY <1>1, <1>4, <2>3, <2>4, <2>5, ListOrderPublished DEF QueueInv
  <2>7. Blocked'
    BY <2>3, <2>5 DEF Blocked
  <2>8. LoopOK(call)'
    BY <1>1, <1>3, <1>5, <1>6, <2>1, <2>3 DEF LoopOK
  <2> QED  BY <1>1, <2>6, <2>7, <2>8 DEF QueueInv, SessionFacts, WaitOK, PlainUse
<1> QED  BY <1>7, <1>8, <1>9

(* cancel(): the lock is opened only with what held it. *)
LEMMA OrderInvCancel ==
  ASSUME IndInv, QueueInv, NEW o \in Ops, Cancel(o)
  PROVE  QueueInv'
<1>1. /\ Idle /\ o \in Live /\ Complete(o, NoCall)
      /\ UNCHANGED <<session, connecting, fullOrdering>>
  BY DEF Cancel, session_vars
<1>2. PreparedOps \ {o} # {} => locked'
  <2> SUFFICES ASSUME NEW p \in PreparedOps, p # o PROVE locked'
    OBVIOUS
  <2>1. PreparedOps = {p} /\ locked
    BY PreparedAlone DEF QueueInv
  <2>2. op[o].st # "prepared"
    BY <2>1 DEF PreparedOps
  <2> QED  BY <2>1, <2>2 DEF Cancel, cancelUnlocks, QueueInv, PlainUse
<1>3. session.connected => Blocked
  BY <1>1, IdleRest
<1> QED  BY <1>1, <1>2, <1>3, CallsTyped, PlainCalls, CompleteOrder DEF IndInv, StepInv

(* A connect operation finds the session closed. *)
LEMMA OrderInvConnect ==
  ASSUME QueueInv, Connect
  PROVE  QueueInv'
<1>1. /\ Idle /\ call' = call /\ SameShape
      /\ UNCHANGED <<locked, fullOrdering, inFlight>>
  BY SameOps DEF Connect
<1>2. ListOrder'
  BY <1>1, SameShapeOrder DEF QueueInv
<1>3. /\ ~session'.connected /\ ~session'.disconnecting /\ SessionFacts'
  BY DEF Connect, ConnectPrepare, NewSession, QueueInv, SessionFacts
<1>4. LoopOK(call)'
  BY <1>1, PlainCalls DEF Idle, LoopOK
<1> QED  BY <1>2, <1>3, <1>4 DEF QueueInv, WaitOK, PlainUse

(* A connect operation that fails leaves the window closed. *)
LEMMA OrderInvConnectFails ==
  ASSUME QueueInv, ConnectFails
  PROVE  QueueInv'
<1>1. /\ call' = Guarded /\ SameShape /\ UNCHANGED <<locked, fullOrdering, inFlight>>
  BY SameOps DEF ConnectFails
<1>2. ListOrder'
  BY <1>1, SameShapeOrder DEF QueueInv
<1>3. /\ ~session'.connected /\ SessionFacts'
  BY DEF ConnectFails, NewSession, SessionFacts
<1>4. LoopOK(call)'
  BY <1>1, PlainCalls DEF LoopOK
<1> QED  BY <1>2, <1>3, <1>4 DEF QueueInv, WaitOK, PlainUse

(* The session is closed: nothing is resumed any more. *)
LEMMA DisconnectedOrder ==
  ASSUME IndInv, QueueInv, BrokerDisconnected, UNCHANGED <<locked, fullOrdering>>
  PROVE  /\ ListOrder' /\ SessionFacts' /\ ~session'.connected
         /\ Created' = Created /\ Live' \subseteq Live
<1>1. ~session'.connected /\ session'.disconnecting /\ ~connecting'
  BY DEF BrokerDisconnected, IndInv, RestTypeOK, SessionTypes
<1>2. ListOrder' /\ Created' = Created /\ Live' \subseteq Live
  <2>1. CASE session.expiry # "zero" /\ Live # {}
    <3>1. SameShape
      BY <2>1 DEF BrokerDisconnected, SameShape, IndInv, StepInv, OpsInv, OpsTypeOK, Op
    <3> QED  BY <3>1, SameShapeOrder, SameShapeEffect DEF QueueInv
  <2>2. CASE ~(session.expiry # "zero" /\ Live # {})
    <3>1. op' = [o \in Ops |-> IF o \in Live THEN OpIn("gone") ELSE op[o]]
      BY <2>2 DEF BrokerDisconnected
    <3> QED  BY <3>1, ClearedOrder DEF QueueInv, IndInv, StepInv
  <2> QED  BY <2>1, <2>2
<1> QED  BY <1>1, <1>2 DEF SessionFacts

(* DISCONNECT of either side. *)
LEMMA OrderInvDisconnect ==
  ASSUME IndInv, QueueInv, NEW byBroker, Disconnect(byBroker)
  PROVE  QueueInv'
<1>1. ListOrder' /\ SessionFacts' /\ ~session'.connected
  BY DisconnectedOrder DEF Disconnect
<1>2. LoopOK(call)'
  BY PlainCalls DEF Disconnect, LoopOK
<1> QED  BY <1>1, <1>2 DEF QueueInv, WaitOK, PlainUse

(* notifyNetworkDisconnected(). *)
LEMMA OrderInvNetworkDisconnected ==
  ASSUME IndInv, QueueInv, NetworkDisconnected
  PROVE  QueueInv'
<1>1. LoopOK(call)'
  BY PlainCalls DEF NetworkDisconnected, LoopOK
<1>2. CASE session.disconnecting
  <2>1. SameShape /\ UNCHANGED <<session, connecting, locked, fullOrdering>>
    BY <1>2, SameOps DEF NetworkDisconnected
  <2>2. ~session'.connected /\ SessionFacts'
    BY <1>2, <2>1 DEF QueueInv, SessionFacts
  <2> QED  BY <1>1, <2>1, <2>2, SameShapeOrder DEF QueueInv, WaitOK, PlainUse
<1>3. CASE ~session.disconnecting
  <2>1. ListOrder' /\ SessionFacts' /\ ~session'.connected
    BY <1>3, DisconnectedOrder DEF NetworkDisconnected
  <2> QED  BY <1>1, <2>1 DEF QueueInv, WaitOK, PlainUse
<1> QED  BY <1>2, <1>3

(* terminationWithReason(). *)
LEMMA OrderInvTerminate ==
  ASSUME IndInv, QueueInv, Terminate
  PROVE  QueueInv'
<1>1. ListOrder' /\ SessionFacts' /\ ~session'.connected
  BY DisconnectedOrder DEF Terminate
<1>2. /\ call.loop = "none" /\ call.resume = 0 /\ CallOK(call)
      /\ call' = [call EXCEPT !.closing = FALSE]
  BY DEF Terminate, Continuing, QueueInv, LoopOK, IndInv, StepInv
<1>3. call'.loop = "none" /\ call'.resume = 0 /\ call'.closing = FALSE
  BY <1>2 DEF CallOK, CallTypes
<1>4. LoopOK(call)'
  BY <1>3 DEF LoopOK
<1> QED  BY <1>1, <1>4 DEF QueueInv, WaitOK, PlainUse

(* Acknowledgements: in and out of order, and in error. *)
LEMMA ResendAllOrder ==
  ASSUME QueueInv, NEW o, Idle, ResendAllUntil(o),
         UNCHANGED <<session, connecting, locked, fullOrdering>>
  PROVE  QueueInv'
<1>1. SameShape /\ inFlight' = inFlight /\ (session.connected => Blocked)
  BY SameOps, IdleRest DEF ResendAllUntil
<1>2. call'.loop = "resend" /\ call'.resume = 0 /\ call'.closing = FALSE
  BY DEF ResendAllUntil, Guarded, NoCall
<1>3. LoopOK(call)'
  BY <1>2 DEF LoopOK
<1> QED  BY <1>1, <1>3, QuietOrder

(* An acknowledged operation leaves the list. *)
LEMMA AckedOrder ==
  ASSUME IndInv, QueueInv, NEW o \in Paused \cup Published, Idle,
         CompleteWithCb(o, Guarded) \/ ProtocolError(o),
         UNCHANGED <<session, connecting, locked, fullOrdering>>
  PROVE  QueueInv'
<1> DEFINE closing == [Guarded EXCEPT !.closing = TRUE]
<1>1. o \in Live /\ OpsInv
  BY LiveParts DEF IndInv, StepInv
<1>2. PreparedOps \ {o} # {} => locked'
  BY DEF QueueInv, ListOrder, PreparedLast
<1>3. session.connected => Blocked
  BY IdleRest
<1>4. CallOK(Guarded) /\ CallOK(closing) /\ closing.loop = "none"
  BY CallsTyped DEF Guarded, NoCall
<1>5. CompleteWithCb(o, Guarded) \/ CompleteWithCb(o, closing)
  BY DEF ProtocolError
<1> HIDE DEF closing
<1>6. CASE CompleteWithCb(o, Guarded)
  BY <1>1, <1>2, <1>3, <1>4, <1>6, PlainCalls, CompleteWithCbOrder
<1>7. CASE CompleteWithCb(o, closing)
  BY <1>1, <1>2, <1>3, <1>4, <1>7, CompleteWithCbOrder
<1> QED  BY <1>5, <1>6, <1>7

(* PUBACK, PUBREC and PUBCOMP. *)
LEMMA OrderInvAcks ==
  ASSUME IndInv, QueueInv, NEW o \in Ops,
         \/ \E valid \in BOOLEAN : Puback(o, valid) \/ Pubcomp(o, valid)
         \/ \E reply \in {"success", "failure", "invalid"} : Pubrec(o, reply)
  PROVE  QueueInv'
<1>1. /\ Idle /\ o \in Paused \cup Published
      /\ UNCHANGED <<session, connecting, locked, fullOrdering>>
  BY DEF Puback, Pubrec, Pubcomp, Acknowledged, Receiving, session_vars
<1>2. CASE ResendAllUntil(o)
  BY <1>1, <1>2, ResendAllOrder
<1>3. CASE CompleteWithCb(o, Guarded) \/ ProtocolError(o)
  BY <1>1, <1>3, AckedOrder
<1>4. CASE /\ op' = [op EXCEPT ![o].acked = TRUE, ![o].attempts = 1, ![o].timer = TRUE]
           /\ call' = Guarded /\ UNCHANGED <<inFlight, allocated, nulls>>
  <2>1. SameShape
    BY <1>4 DEF SameShape, IndInv, StepInv, OpsInv, OpsTypeOK, Op
  <2>2. LoopOK(call)'
    BY <1>4, PlainCalls DEF LoopOK
  <2> QED  BY <1>1, <1>4, <2>1, <2>2, IdleRest, QuietOrder
<1> QED  BY <1>2, <1>3, <1>4 DEF Puback, Pubrec, Pubcomp

(* A PUBREC for no operation. *)
LEMMA OrderInvPubrecUnknown ==
  ASSUME QueueInv, PubrecUnknown
  PROVE  QueueInv'
<1>1. /\ Idle /\ SameShape /\ call' = Guarded
      /\ UNCHANGED <<session, connecting, locked, fullOrdering, inFlight>>
  BY SameOps DEF PubrecUnknown, Receiving, session_vars
<1>2. LoopOK(call)'
  BY <1>1, PlainCalls DEF LoopOK
<1> QED  BY <1>1, <1>2, IdleRest, QuietOrder

(* The operations created so far are the first ones. *)
LEMMA CreatedInterval ==
  ASSUME CreatedFirst
  PROVE  Created = 1 .. Cardinality(Created)
<1>1. CASE Created = Ops
  <2>1. Cardinality(Ops) = MaxOps
    BY SendOpsAssumption, FS_Interval DEF Ops
  <2> QED  BY <1>1, <2>1 DEF Ops
<1>2. CASE Created # Ops
  <2> DEFINE S == Ops \ Created
             m == Least(S)
  <2>1. S # {} /\ S \subseteq Nat
    BY <1>2, OpsAreInts
  <2>2. m \in S /\ \A x \in S : m <= x
    BY <2>1, LeastInSet
  <2> HIDE DEF m
  <2>3. m \in Ops /\ m \notin Created /\ m \in Int /\ m >= 1 /\ m <= MaxOps
    BY <2>2, SendOpsAssumption DEF Ops
  <2>4. ASSUME NEW x \in Created PROVE x \in 1 .. m - 1
    BY <2>3, OpsAreInts, SendOpsAssumption DEF CreatedFirst, Ops
  <2>5. ASSUME NEW x \in 1 .. m - 1 PROVE x \in Created
    BY <2>2, <2>3, SendOpsAssumption DEF Ops
  <2>6. Created = 1 .. m - 1
    BY <2>4, <2>5
  <2>7. Cardinality(1 .. m - 1) = m - 1
    BY <2>3, FS_Interval
  <2> QED  BY <2>6, <2>7
<1> QED  BY <1>1, <1>2

(* CONNACK: somebody will look at what waited on the old connection. *)
LEMMA OrderInvConnack ==
  ASSUME IndInv, QueueInv, NEW present \in BOOLEAN, NEW limit, NEW expiry, NEW small,
         Connack(present, limit, expiry, small)
  PROVE  QueueInv'
<1>1. /\ SameShape /\ UNCHANGED <<locked, fullOrdering, inFlight>>
      /\ connecting /\ ~connecting'
  BY SameOps DEF Connack
<1>2. session'.connected /\ session'.disconnecting = session.disconnecting
  BY DEF Connack, IndInv, RestTypeOK, SessionTypes
<1>3. SessionFacts' /\ ~session'.disconnecting
  BY <1>1, <1>2 DEF QueueInv, SessionFacts
<1>4. ListOrder'
  BY <1>1, SameShapeOrder DEF QueueInv
<1>5. CASE present
  <2>1. /\ call'.loop = "reconnect" /\ call'.at = 1 /\ call'.resume = 0
        /\ call'.closing = FALSE /\ call'.cbs = 0
    BY <1>5 DEF Connack, Guarded, NoCall
  <2>2. \A o \in Ops : 1 <= o
    BY SendOpsAssumption DEF Ops
  <2>3. LoopOK(call)'
    BY <1>1, <1>3, <2>1, <2>2, SameShapeEffect, OpsAreInts DEF LoopOK
  <2>4. WaitOK(call)'
    BY <2>1 DEF WaitOK
  <2> QED  BY <1>3, <1>4, <2>3, <2>4 DEF QueueInv, PlainUse
<1>6. CASE ~present /\ Created = {}
  <2>1. call' = Guarded
    BY <1>6 DEF Connack
  <2>2. Paused' = {}
    BY <1>1, <1>6, SameShapeEffect, LiveParts
  <2>3. Blocked'
    BY <2>2 DEF Blocked
  <2>4. LoopOK(call)'
    BY <2>1, PlainCalls DEF LoopOK
  <2> QED  BY <1>3, <1>4, <2>3, <2>4 DEF QueueInv, WaitOK, PlainUse
<1>7. CASE ~present /\ Created # {}
  <2> DEFINE n == Cardinality(Created)
  <2>1. /\ call'.loop = "abort" /\ call'.at = 1 /\ call'.resume = 0 /\ call'.upto = n
        /\ call'.closing = FALSE /\ call'.cbs = 0
    BY <1>7 DEF Connack, Guarded, NoCall
  <2>2. Created = 1 .. n
    BY CreatedInterval DEF QueueInv, ListOrder
  <2>3. n \in Int /\ 1 <= n
    BY <1>7, CreatedCount
  <2> HIDE DEF n
  <2>4. \A o \in Ops : 1 <= o /\ o \in Int
    BY SendOpsAssumption DEF Ops
  <2>5. \A o \in Live : o <= n
    BY <2>2, LiveParts
  <2>6. \A o \in Ops : o <= n => o \in Created
    BY <2>2, <2>3, <2>4
  <2>7. LoopOK(call)'
    BY <1>1, <2>1, <2>3, <2>4, <2>6, SameShapeEffect, OpsAreInts DEF LoopOK
  <2>8. WaitOK(call)'
    BY <1>1, <2>1, <2>5, SameShapeEffect DEF WaitOK
  <2> QED  BY <1>3, <1>4, <2>7, <2>8 DEF QueueInv, PlainUse
<1> QED  BY <1>5, <1>6, <1>7

(* resendDupMsg() keeps the order, whether it resends or gives up. *)
LEMMA ResendDupOrder ==
  ASSUME IndInv, QueueInv, NEW o \in Published, NEW from, CallOK(from),
         ResendDupMsg(o, from), UNCHANGED <<session, connecting, locked, fullOrdering>>,
         session.connected => Blocked,
         from.loop \notin {"reconnect", "abort"}, from.resume = 0,
         from.closing => from.loop = "none"
  PROVE  QueueInv'
<1>1. o \in Live /\ OpsInv
  BY LiveParts DEF IndInv, StepInv
<1>2. CASE attemptsExhausted(o) \/ (resendsPublish(o) /\ ~fits(o))
  <2>1. CompleteWithCb(o, from)
    BY <1>2 DEF ResendDupMsg
  <2>2. PreparedOps \ {o} # {} => locked'
    BY DEF QueueInv, ListOrder, PreparedLast
  <2> QED  BY <1>1, <2>1, <2>2, CompleteWithCbOrder
<1>3. CASE ~(attemptsExhausted(o) \/ (resendsPublish(o) /\ ~fits(o)))
  <2>1. /\ op' = [op EXCEPT ![o].attempts = @ + 1, ![o].timer = TRUE]
        /\ call' = from /\ inFlight' = inFlight
    BY <1>3 DEF ResendDupMsg
  <2>2. SameShape
    BY <1>1, <2>1 DEF SameShape, OpsInv, OpsTypeOK, Op
  <2>3. LoopOK(call)'
    BY <2>1 DEF LoopOK
  <2> QED  BY <2>1, <2>2, <2>3, QuietOrder
<1> QED  BY <1>2, <1>3

(* The response timer of an operation. *)
LEMMA OrderInvResponseTimeout ==
  ASSUME IndInv, QueueInv, NEW o \in Ops, ResponseTimeout(o)
  PROVE  QueueInv'
<1>1. o \in Published
  BY DEF ResponseTimeout, ResponseTimer, IndInv, StepInv, OpsInv, FieldsOfStates, Published
<1>2. /\ Idle /\ ResendDupMsg(o, Guarded)
      /\ UNCHANGED <<session, connecting, locked, fullOrdering>>
  BY DEF ResponseTimeout, ResponseTimer, session_vars
<1> QED  BY <1>1, <1>2, IdleRest, CallsTyped, PlainCalls, ResendDupOrder

(* The expiry of the session empties the list. *)
LEMMA OrderInvSessionExpiry ==
  ASSUME IndInv, QueueInv, SessionExpiryTimeout
  PROVE  QueueInv'
<1>1. ListOrder' /\ Paused' = {}
  BY ClearedOrder DEF SessionExpiryTimeout, ExpiryTimer, QueueInv, IndInv, StepInv
<1>2. Blocked'
  BY <1>1 DEF Blocked
<1>3. LoopOK(call)'
  BY PlainCalls DEF SessionExpiryTimeout, ExpiryTimer, LoopOK
<1> QED  BY <1>1, <1>2, <1>3
         DEF QueueInv, WaitOK, PlainUse, SessionFacts, SessionExpiryTimeout, ExpiryTimer

(* The steps of a call in progress. *)

(* resumeSendOpsSince() transmits the first that waits and stops at a lasting reason. *)
LEMMA OrderInvResumeNext ==
  ASSUME IndInv, QueueInv, ResumeNext
  PROVE  QueueInv'
<1> DEFINE waiting == {p \in Paused : call.resume <= p}
           o == Least(waiting)
<1>1. /\ call.resume # 0 /\ UNCHANGED <<session, connecting, locked, fullOrdering, fault>>
      /\ ~session.disconnecting /\ LoopOK(call)
      /\ call.loop # "reconnect" /\ fault = "none"
  BY DEF ResumeNext, session_vars, QueueInv, LoopOK
<1>2. OpsInv /\ CallOK(call) /\ call.resume \in Int /\ ListOrder
  BY DEF IndInv, StepInv, CallOK, CallTypes, QueueInv
<1>3. waiting # {} => /\ o \in Paused /\ call.resume <= o /\ o \in Live /\ o \in Int
                      /\ o \notin Published /\ o \notin PreparedOps
                      /\ \A p \in Paused : p < o => p < call.resume
  <2> SUFFICES ASSUME waiting # {}
               PROVE  /\ o \in Paused /\ call.resume <= o /\ o \in Live /\ o \in Int
                      /\ o \notin Published /\ o \notin PreparedOps
                      /\ \A p \in Paused : p < o => p < call.resume
    OBVIOUS
  <2>1. waiting \subseteq Nat
    BY OpsAreInts
  <2>2. o \in waiting /\ \A p \in waiting : o <= p
    BY <2>1, LeastInSet
  <2>3. o \in Paused /\ call.resume <= o
    BY <2>2
  <2>4. \A p \in Paused : p < o => p < call.resume
    <3> SUFFICES ASSUME NEW p \in Paused, p < o, ~(p < call.resume) PROVE FALSE
      OBVIOUS
    <3>1. p \in Int /\ o \in Int
      BY <2>3, OpsAreInts
    <3>2. call.resume <= p
      BY <1>2, <3>1
    <3>3. o <= p
      BY <2>2, <3>2
    <3> HIDE DEF o
    <3> QED  BY <3>1, <3>3
  <2> QED  BY <2>3, <2>4, LiveParts, OpsAreInts
<1>4. session.connected /\ (\E q \in Paused : q < call.resume) => Blocked
  BY <1>1 DEF QueueInv, WaitOK
<1>5. CASE waiting # {} /\ canSend(o)
  <2>1. DoSend(o, call)
    BY <1>5 DEF ResumeNext
  <2>2. /\ o \in Paused /\ call.resume <= o /\ o \in Live /\ o \in Int
        /\ o \notin Published /\ o \notin PreparedOps
        /\ \A p \in Paused : p < o => p < call.resume
    BY <1>3, <1>5
  <2>3. canSend(o)
    BY <1>5
  <2> HIDE DEF waiting, o
  <2>4. PreparedOps \ {o} # {} => locked'
    BY <1>1, <1>2 DEF ListOrder, PreparedLast
  <2>5. CASE ~fits(o) \/ op[o].qos = 0
    <3>1. CompleteWithCb(o, call)
      BY <2>1, <2>5 DEF DoSend
    <3> QED  BY <1>1, <1>2, <1>4, <2>2, <2>4, <3>1, CompleteWithCbOrder DEF LoopOK
  <2>6. CASE fits(o) /\ op[o].qos # 0
    <3>1. /\ op' = [op EXCEPT ![o].st = "published", ![o].attempts = 1, ![o].timer = TRUE]
          /\ inFlight' = inFlight + 1 /\ call' = call
      BY <2>1, <2>6 DEF DoSend
    <3>2. /\ op'[o].st = "published" /\ op'[o].qos = op[o].qos
          /\ \A p \in Ops : p # o => op'[p] = op[p]
      BY <1>2, <2>2, <3>1, OpsAreInts DEF OpsInv, OpsTypeOK, Op
    <3>3. /\ Published' = Published \cup {o} /\ Paused' = Paused \ {o}
          /\ PreparedOps' = PreparedOps /\ Created' = Created /\ Live' = Live
          /\ \A p \in Ops : op'[p].qos = op[p].qos
      BY <2>2, <3>2 DEF Paused, Published, PreparedOps, Created, Live
    <3>4. /\ ~(session.limit <= inFlight)
          /\ fullOrdering => ~hasPausedSendsBefore(o) /\ ~hasHigherQosSendsBefore(o)
      BY <2>3, <2>6 DEF canSend
    <3>5. session.connected
      BY <1>1, <1>2, <3>4 DEF QueueInv, SessionFacts, OpsInv, OpsTypeOK
    <3>6. ~ \E q \in Paused : q < o
      <4> SUFFICES ASSUME NEW q \in Paused, q < o PROVE FALSE
        OBVIOUS
      <4>1. Blocked
        BY <1>4, <2>2, <3>5
      <4> QED  BY <1>2, <2>2, <2>3, <4>1, BlockedStops
    <3>7. \A q \in Paused : q # o => o < q
      BY <2>2, <3>6, OpsAreInts
    <3>8. ListOrder'
      BY <1>1, <1>2, <2>2, <2>4, <3>3, <3>4, <3>7, ListOrderPublished
    <3>9. LoopOK(call)'
      BY <1>1, <3>1, <3>3 DEF LoopOK
    <3>10. WaitOK(call)'
      <4>1. ~ \E q \in Paused' : q < call.resume
        BY <1>2, <2>2, <3>3, <3>7, OpsAreInts
      <4> QED  BY <1>1, <3>1, <4>1 DEF WaitOK
    <3> QED  BY <1>1, <3>8, <3>9, <3>10 DEF QueueInv, SessionFacts, PlainUse
  <2> QED  BY <2>5, <2>6
<1>6. CASE ~(waiting # {} /\ canSend(o))
  <2>1. /\ call' = [call EXCEPT !.resume = 0] /\ inFlight' = inFlight /\ SameShape
    BY <1>6, SameOps DEF ResumeNext
  <2>2. /\ call'.loop = call.loop /\ call'.at = call.at /\ call'.upto = call.upto
        /\ call'.closing = call.closing /\ call'.cbs = call.cbs /\ call'.resume = 0
    BY <1>2, <2>1 DEF CallOK, CallTypes
  <2>3. LoopOK(call)'
    BY <1>1, <2>1, <2>2, SameShapeEffect DEF LoopOK
  <2>4. session.connected => Blocked
    <3> SUFFICES ASSUME session.connected PROVE Blocked
      OBVIOUS
    <3>1. CASE \E q \in Paused : q < call.resume
      BY <1>4, <3>1
    <3>2. CASE ~ \E q \in Paused : q < call.resume
      <4>1. waiting = Paused
        <5>1. \A p \in Paused : p \in Int /\ ~(p < call.resume)
          BY <3>2, OpsAreInts
        <5>2. \A p \in Paused : call.resume <= p
          BY <1>2, <5>1
        <5> QED  BY <5>2
      <4>2. CASE Paused = {}
        BY <4>2, NobodyWaits
      <4>3. CASE Paused # {}
        <5>1. ~canSend(Least(Paused))
          BY <1>6, <4>1, <4>3
        <5> QED  BY <4>3, <5>1, FirstPaused, StopsBlocked
      <4> QED  BY <4>2, <4>3
    <3> QED  BY <3>1, <3>2
  <2> QED  BY <1>1, <2>1, <2>3, <2>4, QuietOrder
<1> QED  BY <1>5, <1>6

(* The end of a completion callback. *)
LEMMA OrderInvCallbackReturns ==
  ASSUME IndInv, QueueInv, CallbackReturns
  PROVE  QueueInv'
<1>1. /\ fault = "none" /\ call.resume = 0 /\ call.cbs # 0 /\ SameShape
      /\ UNCHANGED <<session, connecting, locked, fullOrdering, inFlight>>
      /\ CallOK(call) /\ LoopOK(call) /\ call.loop # "reconnect"
  BY SameOps DEF CallbackReturns, InCallback, session_vars, IndInv, StepInv, QueueInv,
                 LoopOK
<1>2. /\ call'.loop = call.loop /\ call'.at = call.at /\ call'.upto = call.upto
      /\ call'.closing = call.closing /\ call'.resume = call.resume
  BY <1>1 DEF CallbackReturns, CallOK, CallTypes
<1>3. LoopOK(call)'
  BY <1>1, <1>2, SameShapeEffect DEF LoopOK
<1> QED  BY <1>1, <1>3, AtRest, QuietOrder

(* Undefined behaviour ends the call where it stands. *)
LEMMA FaultsOrder ==
  ASSUME QueueInv, NEW f, f # "none", Faults(f), call.resume = 0,
         UNCHANGED <<session, connecting, locked, fullOrdering>>
  PROVE  QueueInv'
<1>1. SameShape /\ call' = call /\ fault' # "none"
  BY SameOps DEF Faults
<1>2. ListOrder'
  BY <1>1, SameShapeOrder DEF QueueInv
<1>3. LoopOK(call)'
  BY <1>1, SameShapeEffect DEF QueueInv, LoopOK
<1>4. WaitOK(call)'
  BY <1>1 DEF WaitOK
<1> QED  BY <1>2, <1>3, <1>4 DEF QueueInv, SessionFacts, PlainUse

(* The next position of a loop, or its end. *)
LEMMA AdvancedFields ==
  ASSUME CallOK(call)
  PROVE  /\ Advanced.resume = call.resume /\ Advanced.cbs = call.cbs
         /\ Advanced.closing = call.closing
         /\ call.at = call.upto =>
               Advanced.loop = "none" /\ Advanced.at = 0 /\ Advanced.upto = 0
         /\ call.at # call.upto =>
               /\ Advanced.loop = call.loop /\ Advanced.at = call.at + 1
               /\ Advanced.upto = call.upto
BY DEF Advanced, EndOfLoop, CallOK, CallTypes

(* One turn of resendAllUntil(). *)
LEMMA OrderInvResendNext ==
  ASSUME IndInv, QueueInv, ResendNext
  PROVE  QueueInv'
<1>1. /\ fault = "none" /\ call.resume = 0 /\ call.loop = "resend" /\ CallOK(call)
      /\ UNCHANGED <<session, connecting, locked, fullOrdering>>
      /\ ~call.closing
  BY DEF ResendNext, InLoop, Continuing, session_vars, IndInv, StepInv, QueueInv, LoopOK
<1>2. session.connected => Blocked
  BY <1>1, AtRest
<1>3. /\ CallOK(Advanced) /\ Advanced.loop \in {"none", "resend"}
      /\ Advanced.resume = 0 /\ ~Advanced.closing
  BY <1>1, AdvancedTyped, AdvancedFields
<1>4. CASE Unsent(call.at)
  BY <1>1, <1>4, FaultsOrder DEF ResendNext
<1>5. CASE ~Unsent(call.at) /\ call.at \in Published
  <2>1. ResendDupMsg(call.at, Advanced)
    BY <1>5 DEF ResendNext
  <2> QED  BY <1>1, <1>2, <1>3, <1>5, <2>1, ResendDupOrder
<1>6. CASE ~Unsent(call.at) /\ call.at \notin Published
  <2>1. SameShape /\ call' = Advanced /\ inFlight' = inFlight
    BY <1>6, SameOps DEF ResendNext, Skip
  <2>2. LoopOK(call)'
    BY <1>3, <2>1 DEF LoopOK
  <2> QED  BY <1>1, <1>2, <2>1, <2>2, QuietOrder
<1> QED  BY <1>4, <1>5, <1>6

(* One turn of the loop of brokerConnected() over a kept session. *)
LEMMA OrderInvReconnectNext ==
  ASSUME IndInv, QueueInv, NoneSending, ReconnectNext
  PROVE  QueueInv'
<1> DEFINE o == call.at
<1>1. /\ call.resume = 0 /\ call.loop = "reconnect" /\ CallOK(call) /\ LoopOK(call)
      /\ UNCHANGED <<session, connecting, locked, fullOrdering>>
      /\ o \in Int
  <2>1. /\ call.resume = 0 /\ call.loop = "reconnect" /\ CallOK(call) /\ LoopOK(call)
    BY DEF ReconnectNext, InLoop, Continuing, IndInv, StepInv, QueueInv
  <2>2. UNCHANGED <<session, connecting, locked, fullOrdering>>
    BY DEF ReconnectNext, session_vars
  <2>3. o \in Int
    BY <2>1 DEF CallOK, CallTypes
  <2> QED  BY <2>1, <2>2, <2>3
<1>2. CASE Unsent(o) \/ (o \in Published /\ resendsPublish(o) /\ ~fits(o))
  <2>1. \E f \in {"assertion", "invalid iterator"} : Faults(f)
    BY <1>2 DEF ReconnectNext
  <2> QED  BY <1>1, <2>1, FaultsOrder
<1>3. CASE ~(Unsent(o) \/ (o \in Published /\ resendsPublish(o) /\ ~fits(o)))
  <2>1. /\ call' = [call EXCEPT !.at = @ + 1] /\ inFlight' = inFlight
        /\ op' = [op EXCEPT ![o].timer = TRUE] \/ op' = op
    BY <1>3 DEF ReconnectNext
  <2>2. SameShape
    BY <2>1 DEF SameShape, IndInv, StepInv, OpsInv, OpsTypeOK, Op
  <2>3. /\ call'.loop = call.loop /\ call'.at = call.at + 1 /\ call'.upto = call.upto
        /\ call'.closing = call.closing /\ call'.cbs = call.cbs /\ call'.resume = 0
    BY <1>1, <2>1 DEF CallOK, CallTypes
  <2>4. \A p \in PreparedOps : call.at + 1 <= p
    BY <1>1, <1>3, OpsAreInts DEF LoopOK, Unsent, PreparedOps, NoneSending, Sending
  <2>5. LoopOK(call)'
    BY <1>1, <2>2, <2>3, <2>4, SameShapeEffect DEF LoopOK
  <2>6. WaitOK(call)'
    BY <1>1, <2>3 DEF WaitOK
  <2>7. ListOrder'
    BY <1>1, <2>2, SameShapeOrder DEF QueueInv
  <2> QED  BY <1>1, <2>5, <2>6, <2>7 DEF QueueInv, SessionFacts, PlainUse
<1> QED  BY <1>2, <1>3

(* Resuming after a reconnection starts early enough: the operation that       *)
(* waits first is in the window, or the window is full.                       *)
LEMMA OrderInvReconnectResume ==
  ASSUME IndInv, QueueInv, ReconnectResume
  PROVE  QueueInv'
<1> DEFINE frame == {o \in Live :
                        Cardinality({p \in Live : p <= o}) <= session.limit}
           tail == {o \in frame : \A p \in frame : o <= p => p \in Paused}
           n == IF tail = {} THEN 0 ELSE Least(tail)
<1>1. /\ call.loop = "reconnect" /\ CallOK(call) /\ LoopOK(call) /\ MaxOps < call.at
      /\ UNCHANGED <<session, connecting, locked, fullOrdering, inFlight, fault>>
      /\ SameShape /\ call' = [EndOfLoop EXCEPT !.resume = n]
      /\ ListOrder /\ OpsInv
  BY SameOps DEF ReconnectResume, InLoop, session_vars, IndInv, StepInv, QueueInv
<1>2. call'.loop = "none" /\ call'.closing = call.closing /\ call'.resume = n
  BY <1>1 DEF EndOfLoop, CallOK, CallTypes
<1>3. tail \subseteq Live /\ tail \subseteq Nat
  BY OpsAreInts
<1>4. tail # {} => n \in tail /\ \A x \in tail : n <= x
  BY <1>3, LeastInSet
<1>5. n \in Int
  BY <1>3, <1>4
<1>6. PreparedOps = {}
  <2> SUFFICES ASSUME NEW p \in PreparedOps PROVE FALSE
    OBVIOUS
  <2>1. call.at <= p /\ p <= MaxOps /\ p \in Int
    BY <1>1, OpsAreInts, SendOpsAssumption DEF LoopOK, PreparedOps, Ops
  <2> QED  BY <1>1, <2>1, SendOpsAssumption DEF CallOK, CallTypes
<1>7. LoopOK(call)'
  BY <1>1, <1>2 DEF LoopOK
<1>8. Blocked \/ (n # 0 /\ ~ \E q \in Paused : q < n)
  <2>1. CASE Paused = {}
    BY <2>1, NobodyWaits
  <2>2. CASE Paused # {}
    <3> DEFINE f == Least(Paused)
    <3>1. f \in Paused /\ f \in Live /\ f \in Int /\ f # 0 /\ \A p \in Paused : f <= p
      BY <2>2, FirstPaused, LiveParts, OpsAreInts, SendOpsAssumption DEF Live, Ops
    <3> HIDE DEF f
    <3>2. f \notin Published /\ \A p \in Published : p < f
      BY <1>1, <3>1, LiveParts DEF ListOrder, PublishedFirst
    <3>3. {p \in Live : p <= f} = Published \cup {f}
      <4>1. ASSUME NEW p \in Live, p <= f PROVE p \in Published \cup {f}
        <5>1. p \in Int /\ p \in Paused \cup Published
          BY <1>6, LiveParts, OpsAreInts
        <5> QED  BY <3>1, <4>1, <5>1
      <4>2. ASSUME NEW p \in Published \cup {f} PROVE p \in Live /\ p <= f
        <5>1. p \in Int /\ p \in Live
          BY <3>1, LiveParts, OpsAreInts
        <5> QED  BY <3>1, <3>2, <5>1
      <4> QED  BY <4>1, <4>2
    <3>4. Cardinality({p \in Live : p <= f}) = inFlight + 1
      BY <1>1, <3>2, <3>3, PublishedFinite, FS_AddElement DEF OpsInv, InFlightExact
    <3>5. session.limit \in Int /\ inFlight \in Int
      <4>1. session \in SessionTypes /\ inFlight \in Nat
        BY DEF IndInv, RestTypeOK, StepInv, OpsInv, OpsTypeOK
      <4>2. session.limit \in Nat
        BY <4>1 DEF SessionTypes
      <4> QED  BY <4>1, <4>2
    <3>6. CASE f \in frame
      <4>1. \A p \in frame : f <= p => p \in Paused
        BY <1>6, <3>1, <3>2, LiveParts, OpsAreInts
      <4>2. f \in tail
        BY <3>6, <4>1
      <4>3. n \in tail /\ n <= f
        BY <1>4, <4>2
      <4> HIDE DEF n
      <4>4. n # 0
        BY <1>3, <4>3, SendOpsAssumption DEF Live, Ops
      <4> QED  BY <1>5, <3>1, <4>3, <4>4, OpsAreInts
    <3>7. CASE f \notin frame
      <4>1. session.limit <= inFlight
        BY <3>1, <3>4, <3>5, <3>7
      <4> QED  BY <4>1 DEF Blocked
    <3> QED  BY <3>6, <3>7
  <2> QED  BY <2>1, <2>2
<1> HIDE DEF n
<1>9. CASE Blocked
  BY <1>1, <1>7, <1>9, QuietOrder
<1>10. CASE n # 0 /\ ~ \E q \in Paused : q < n
  <2>1. WaitOK(call)'
    BY <1>1, <1>2, <1>10, SameShapeEffect DEF WaitOK
  <2>2. ListOrder'
    BY <1>1, SameShapeOrder
  <2> QED  BY <1>1, <1>7, <2>1, <2>2 DEF QueueInv, SessionFacts, PlainUse
<1> QED  BY <1>8, <1>9, <1>10

(* One turn of the loop over a lost session: it leaves nobody behind it. *)
LEMMA OrderInvAbortNext ==
  ASSUME IndInv, QueueInv, AbortNext
  PROVE  QueueInv'
<1> DEFINE o == call.at
<1>1. /\ fault = "none" /\ call.resume = 0 /\ call.loop = "abort" /\ CallOK(call)
      /\ UNCHANGED <<session, connecting, locked, fullOrdering>>
      /\ ~call.closing /\ call.cbs = 0 /\ LoopOK(call) /\ OpsInv
  BY DEF AbortNext, InLoop, Continuing, session_vars, IndInv, StepInv, QueueInv, LoopOK
<1>2. CallOK(Advanced) /\ o \in Ops /\ o \in Int /\ call.upto \in Int
  BY <1>1, AdvancedTyped, OpsAreInts DEF CallOK, CallTypes
<1>3. /\ o <= call.upto /\ \A p \in Ops : p <= call.upto => p \in Created
      /\ \A p \in Live : o <= p /\ p \in Int
  BY <1>1, OpsAreInts DEF LoopOK
<1>4. /\ Advanced.resume = 0 /\ Advanced.cbs = 0 /\ ~Advanced.closing
      /\ o = call.upto => Advanced.loop = "none"
      /\ o # call.upto => /\ Advanced.loop = "abort" /\ Advanced.at = o + 1
                          /\ Advanced.upto = call.upto
  BY <1>1, AdvancedFields
<1>5. Advanced.loop = "abort" =>
        /\ Advanced.at <= Advanced.upto
        /\ \A p \in Ops : p <= Advanced.upto => p \in Created
        /\ \A p \in Live : p # o => Advanced.at <= p
  BY <1>2, <1>3, <1>4
<1>6. CASE o \in nulls
  BY <1>1, <1>6, FaultsOrder DEF AbortNext
<1>7. CASE o \notin nulls /\ o \in Live
  <2>1. CompleteWithCb(o, Advanced)
    BY <1>7 DEF AbortNext
  <2>2. PreparedOps \ {o} # {} => locked'
    BY <1>1 DEF QueueInv, ListOrder, PreparedLast
  <2>3. ~ \E q \in Paused : q < o
    BY <1>2, <1>3, LiveParts
  <2>4. Advanced.loop # "reconnect" /\ (Advanced.closing => Advanced.loop = "none")
    BY <1>4
  <2> QED  BY <1>1, <1>2, <1>5, <1>7, <2>1, <2>2, <2>3, <2>4, CompleteWithCbOrder
<1>8. CASE o \notin nulls /\ o \notin Live
  <2>1. SameShape /\ call' = Advanced /\ inFlight' = inFlight /\ fault' = fault
    BY <1>8, SameOps DEF AbortNext, Skip
  <2>2. \A p \in Live : p # o
    BY <1>8
  <2>3. LoopOK(call)'
    BY <1>4, <1>5, <2>1, <2>2, SameShapeEffect DEF LoopOK
  <2>4. CASE session.connected => Blocked
    BY <1>1, <2>1, <2>3, <2>4, QuietOrder
  <2>5. CASE session.connected /\ ~Blocked
    <3>1. \A p \in Live : p <= call.upto
      BY <1>1, <2>5 DEF QueueInv, WaitOK
    <3>2. o # call.upto
      <4> SUFFICES ASSUME o = call.upto PROVE Blocked
        BY <2>5
      <4>1. \A p \in Live : p = o
        BY <1>2, <1>3, <3>1
      <4>2. Paused = {}
        BY <2>2, <4>1, LiveParts
      <4> QED  BY <4>2, NobodyWaits
    <3>3. WaitOK(call)'
      BY <1>4, <2>1, <3>1, <3>2, SameShapeEffect DEF WaitOK
    <3>4. ListOrder'
      BY <1>1, <2>1, SameShapeOrder DEF QueueInv
    <3> QED  BY <1>1, <2>3, <3>3, <3>4 DEF QueueInv, SessionFacts, PlainUse
  <2> QED  BY <2>4, <2>5
<1> QED  BY <1>6, <1>7, <1>8

(* doApiExit() of the last guard. *)
LEMMA OrderInvApiExit ==
  ASSUME QueueInv, ApiExit
  PROVE  QueueInv'
<1>1. /\ fault = "none" /\ call = Guarded /\ call' = NoCall /\ SameShape
      /\ UNCHANGED <<session, connecting, locked, fullOrdering, inFlight>>
  BY SameOps DEF ApiExit, session_vars
<1>2. session.connected => Blocked
  BY <1>1, PlainCalls, AtRest
<1>3. LoopOK(call)'
  BY <1>1, PlainCalls DEF LoopOK
<1> QED  BY <1>1, <1>2, <1>3, QuietOrder

(* A step that changes nothing. *)
LEMMA OrderInvStutter ==
  ASSUME QueueInv, UNCHANGED vars
  PROVE  QueueInv'
<1>1. /\ SameShape /\ op' = op
      /\ UNCHANGED <<session, connecting, locked, fullOrdering, inFlight, call, fault>>
  BY SameOps DEF vars, session_vars
<1>2. ListOrder' /\ LoopOK(call)'
  BY <1>1, SameShapeOrder, SameShapeEffect DEF QueueInv, LoopOK
<1>3. Blocked' = Blocked
  BY <1>1 DEF Blocked, Paused, Live
<1>4. WaitOK(call)'
  BY <1>1, <1>3, SameShapeEffect DEF QueueInv, WaitOK
<1> QED  BY <1>1, <1>2, <1>4 DEF QueueInv, SessionFacts, PlainUse

(* Without timers inside of send() none stays there. *)
LEMMA NoneSendingNext ==
  ASSUME IndInv, PlainUse, NoneSending, [Next]_vars
  PROVE  NoneSending'
<1>1. SendingFrame /\ call'.sending = 0 => NoneSending'
  BY DEF SendingFrame, NoneSending, Sending
<1>2. SendingKept => NoneSending'
  BY <1>1 DEF SendingKept, NoneSending
<1>3. UNCHANGED vars => NoneSending'
  BY DEF vars, NoneSending, Sending
<1>4. ASSUME NEW o \in Ops, SendDue(o) PROVE FALSE
  BY <1>4 DEF SendDue, PlainUse
<1>5. ~SendTick /\ ~Transmit
  BY DEF SendTick, Transmit, InSend, NoneSending
<1>6. CallStep /\ ~ApiExit => NoneSending'
  BY <1>2, <1>5, InnerSending
<1>7. ASSUME NEW o \in Ops, (\E q \in Qoses : Prepare(o, q)) \/ Send(o)
      PROVE  NoneSending'
  BY <1>2, <1>7, AppSending
<1> QED  BY <1>1, <1>3, <1>4, <1>5, <1>6, <1>7, CallsSendNothing DEF Next, SendsNothing

(* Without timers due in send() its steps do not happen. *)
LEMMA NothingInSend ==
  ASSUME OrderInv
  PROVE  (\A o \in Ops : ~SendDue(o)) /\ ~SendTick /\ ~Transmit
BY DEF OrderInv, QueueInv, PlainUse, NoneSending, SendDue, SendTick, Transmit, InSend

(* Every step keeps the order and wakes who can be sent. *)
LEMMA OrderInvNext == IndInv /\ OrderInv /\ [Next]_vars => OrderInv'
<1> SUFFICES ASSUME IndInv, OrderInv, [Next]_vars PROVE QueueInv'
  BY NoneSendingNext DEF OrderInv, QueueInv
<1> USE DEF OrderInv
<1>14. (\A o \in Ops : ~SendDue(o)) /\ ~SendTick /\ ~Transmit
  BY NothingInSend
<1>1. ASSUME NEW o \in Ops, NEW q \in Qoses, Prepare(o, q) PROVE QueueInv'
  BY <1>1, OrderInvPrepare
<1>2. ASSUME NEW o \in Ops, Send(o) PROVE QueueInv'
  BY <1>2, OrderInvSend
<1>3. ASSUME NEW o \in Ops, Cancel(o) PROVE QueueInv'
  BY <1>3, OrderInvCancel
<1>4. ASSUME NEW o \in Ops, NEW valid \in BOOLEAN, Puback(o, valid) \/ Pubcomp(o, valid)
      PROVE  QueueInv'
  BY <1>4, OrderInvAcks
<1>5. ASSUME NEW o \in Ops, NEW reply \in {"success", "failure", "invalid"},
             Pubrec(o, reply)
      PROVE  QueueInv'
  BY <1>5, OrderInvAcks
<1>6. ASSUME NEW o \in Ops, ResponseTimeout(o) PROVE QueueInv'
  BY <1>6, OrderInvResponseTimeout
<1>7. Connect \/ ConnectFails \/ NetworkDisconnected \/ PubrecUnknown => QueueInv'
  BY OrderInvConnect, OrderInvConnectFails, OrderInvNetworkDisconnected,
     OrderInvPubrecUnknown
<1>8. ASSUME NEW byBroker \in BOOLEAN, Disconnect(byBroker) PROVE QueueInv'
  BY <1>8, OrderInvDisconnect
<1>9. ASSUME NEW present \in SessionReplies, NEW limit \in SendLimits,
             NEW expiry \in Expiries,
             NEW small \in {b \in BOOLEAN : b => Oversize # {}},
             Connack(present, limit, expiry, small)
      PROVE  QueueInv'
  <2>1. present \in BOOLEAN
    BY SendOpsAssumption
  <2> QED  BY <1>9, <2>1, OrderInvConnack
<1>10. SessionExpiryTimeout => QueueInv'
  BY OrderInvSessionExpiry
<1>11. CallStep => QueueInv'
  BY <1>14, OrderInvResumeNext, OrderInvCallbackReturns, OrderInvResendNext,
     OrderInvReconnectNext, OrderInvReconnectResume, OrderInvAbortNext,
     OrderInvTerminate, OrderInvApiExit
     DEF CallStep
<1>12. UNCHANGED vars => QueueInv'
  BY OrderInvStutter
<1>13. ASSUME NEW full \in Orderings, setPublishOrdering(full) PROVE QueueInv'
  BY <1>13, OrderInvSetOrdering
<1> QED  BY <1>1, <1>2, <1>3, <1>4, <1>5, <1>6, <1>7, <1>8, <1>9, <1>10, <1>11,
            <1>12, <1>13, <1>14 DEF Next

(* The list is empty at the start. *)
LEMMA OrderInvInit == PlainUse /\ Init => OrderInv
<1> SUFFICES ASSUME PlainUse, Init PROVE OrderInv
  OBVIOUS
<1>1. \A o \in Ops : op[o].st = "none"
  BY DEF Init, OpIn
<1>2. Created = {} /\ Paused = {} /\ Published = {} /\ PreparedOps = {}
  BY <1>1 DEF Created, Paused, Published, PreparedOps
<1>3. ListOrder /\ Blocked
  BY <1>2 DEF ListOrder, CreatedFirst, PreparedLast, PublishedFirst, HigherLater,
              PausedQos, Blocked
<1>4. SessionFacts /\ LoopOK(call) /\ WaitOK(call)
  BY PlainCalls DEF Init, NewSession, SessionFacts, LoopOK, WaitOK
<1>5. NoneSending
  BY <1>1 DEF Init, NoCall, NoneSending, Sending
<1> QED  BY <1>3, <1>4, <1>5 DEF OrderInv, QueueInv

(* The order of the list and the end of waiting are kept together. *)
THEOREM OrderInductive == PlainUse /\ Spec => [](IndInv /\ OrderInv)
<1>1. IndInv /\ OrderInv /\ [Next]_vars => (IndInv /\ OrderInv)'
  BY IndInvNext, OrderInvNext
<1> QED  BY <1>1, IndInvInit, OrderInvInit, PTL DEF Spec

(* For every number of operations, window and ordering: what is transmitted    *)
(* has nothing waiting before it, through resumption, resending, aborted and   *)
(* kept sessions and callbacks that publish, as long as what was prepared is   *)
(* sent on its own connection.                                                 *)
THEOREM PublishOrder == PlainUse /\ Spec => []OrderKept
<1>1. IndInv /\ OrderInv => OrderKept
  <2> SUFFICES ASSUME IndInv, OrderInv, NEW p \in Published, NEW o \in Live, o < p
               PROVE  /\ o \notin Paused
                      /\ fullOrdering => op[o].qos <= op[p].qos
    BY DEF OrderKept
  <2>1. o \in Int /\ p \in Int /\ p \in Created
    BY OpsAreInts, LiveParts
  <2>2. o \notin Paused
    BY <2>1 DEF OrderInv, QueueInv, ListOrder, PublishedFirst
  <2>3. o \notin PreparedOps
    BY <2>1 DEF OrderInv, QueueInv, ListOrder, PreparedLast
  <2>4. o \in Published
    BY <2>2, <2>3, LiveParts
  <2> QED  BY <2>2, <2>4 DEF OrderInv, QueueInv, ListOrder, HigherLater
<1> QED  BY <1>1, OrderInductive, PTL

(* No wake-up is lost: between two calls on a connection the operation that    *)
(* waits first cannot be transmitted.                                          *)
THEOREM NoLostWakeUp == PlainUse /\ Spec => []NoneStranded
<1>1. IndInv /\ OrderInv => NoneStranded
  <2> SUFFICES ASSUME IndInv, OrderInv, Idle, session.connected, Paused # {}
               PROVE  ~canSend(Least(Paused))
    BY DEF NoneStranded
  <2>1. Blocked /\ Least(Paused) \in Paused
    BY IdleRest, FirstPaused DEF OrderInv
  <2> QED  BY <2>1, BlockedStops DEF IndInv, StepInv, OrderInv, QueueInv
<1> QED  BY <1>1, OrderInductive, PTL

------------------------------------------------------------------------------
(* With a broker: the theorems on module SendDelivery.  First the channels.     *)

(* The first packet of a channel is taken. *)
LEMMA TailFacts ==
  ASSUME NEW S, NEW s \in Seq(S), s # <<>>
  PROVE  /\ Len(s) \in Nat /\ Len(s) > 0 /\ 1 \in DOMAIN s
         /\ Head(s) = s[1] /\ s[1] \in S
         /\ Tail(s) \in Seq(S) /\ Len(Tail(s)) = Len(s) - 1
         /\ \A i \in DOMAIN Tail(s) : Tail(s)[i] = s[i + 1] /\ i + 1 \in DOMAIN s
                                      /\ i \in Nat /\ i > 0
<1>1. Len(s) \in Nat /\ Len(s) > 0 /\ DOMAIN s = 1 .. Len(s)
  BY EmptySeq, LenProperties
<1>2. Head(s) = s[1]
  OBVIOUS
<1>3. s[1] \in S
  BY <1>1, ElementOfSeq
<1>4. /\ Tail(s) \in Seq(S) /\ Len(Tail(s)) = Len(s) - 1
      /\ \A i \in 1 .. Len(Tail(s)) : Tail(s)[i] = s[i + 1]
  BY HeadTailProperties
<1>5. DOMAIN Tail(s) = 1 .. Len(s) - 1
  BY <1>4, LenProperties
<1> QED  BY <1>1, <1>2, <1>3, <1>4, <1>5

(* A packet enters a channel. *)
LEMMA AppendFacts ==
  ASSUME NEW S, NEW s \in Seq(S), NEW e \in S
  PROVE  /\ Append(s, e) \in Seq(S) /\ Len(s) \in Nat
         /\ DOMAIN s = 1 .. Len(s)
         /\ DOMAIN Append(s, e) = 1 .. Len(s) + 1
         /\ Append(s, e)[Len(s) + 1] = e
         /\ \A i \in DOMAIN s : Append(s, e)[i] = s[i]
<1>1. Len(s) \in Nat /\ DOMAIN s = 1 .. Len(s)
  BY LenProperties
<1>2. /\ Append(s, e) \in Seq(S) /\ Len(Append(s, e)) = Len(s) + 1
      /\ \A i \in 1 .. Len(s) : Append(s, e)[i] = s[i]
      /\ Append(s, e)[Len(s) + 1] = e
  BY AppendProperties
<1> QED  BY <1>1, <1>2, LenProperties

(* A packet enters a channel before packets it overtakes. *)
LEMMA InsertFacts ==
  ASSUME NEW S, NEW s \in Seq(S), NEW e \in S, NEW k \in 1 .. Len(s) + 1
  PROVE  /\ InsertAt(s, k, e) \in Seq(S) /\ DOMAIN s = 1 .. Len(s) /\ Len(s) \in Nat
         /\ DOMAIN InsertAt(s, k, e) = 1 .. Len(s) + 1
         /\ InsertAt(s, k, e)[k] = e
         /\ \A i \in 1 .. Len(s) + 1 :
               /\ i < k => i \in DOMAIN s /\ InsertAt(s, k, e)[i] = s[i]
               /\ i > k => i - 1 \in DOMAIN s /\ InsertAt(s, k, e)[i] = s[i - 1]
<1> DEFINE a == SubSeq(s, 1, k - 1)
           b == SubSeq(s, k, Len(s))
           c == a \o <<e>>
<1>1. Len(s) \in Nat /\ DOMAIN s = 1 .. Len(s) /\ k \in Int
  BY LenProperties
<1>2. /\ a \in Seq(S) /\ Len(a) = k - 1
      /\ \A i \in 1 .. k - 1 : a[i] = s[i]
  BY <1>1, SubSeqProperties
<1>3. /\ b \in Seq(S) /\ Len(b) = Len(s) - k + 1
      /\ \A i \in 1 .. Len(s) - k + 1 : b[i] = s[k + i - 1]
  BY <1>1, SubSeqProperties
<1>4. <<e>> \in Seq(S) /\ Len(<<e>>) = 1 /\ <<e>>[1] = e
  OBVIOUS
<1> HIDE DEF a, b
<1>5. /\ c \in Seq(S) /\ Len(c) = k
      /\ \A i \in 1 .. k - 1 : c[i] = s[i]
      /\ c[k] = e
  <2>1. c \in Seq(S) /\ Len(c) = k
    BY <1>1, <1>2, <1>4, ConcatProperties
  <2>2. \A i \in 1 .. k : c[i] = IF i <= k - 1 THEN a[i] ELSE <<e>>[i - (k - 1)]
    BY <1>1, <1>2, <1>4, ConcatProperties
  <2>3. c[k] = <<e>>[1]
    <3>1. k \in 1 .. k /\ ~(k <= k - 1) /\ k - (k - 1) = 1
      BY <1>1
    <3> QED  BY <2>2, <3>1
  <2> QED  BY <1>1, <1>2, <1>4, <2>1, <2>2, <2>3
<1> HIDE DEF c
<1>6. /\ c \o b \in Seq(S) /\ Len(c \o b) = Len(s) + 1
      /\ \A i \in 1 .. Len(s) + 1 : (c \o b)[i] = IF i <= k THEN c[i] ELSE b[i - k]
  <2>1. c \o b \in Seq(S) /\ Len(c \o b) = Len(s) + 1
    <3>1. c \o b \in Seq(S) /\ Len(c \o b) = Len(c) + Len(b)
      BY <1>3, <1>5, ConcatProperties
    <3> QED  BY <1>1, <1>3, <1>5, <3>1
  <2> QED  BY <1>1, <1>3, <1>5, <2>1, ConcatProperties
<1>7. InsertAt(s, k, e) = c \o b
  BY DEF InsertAt, a, b, c
<1>8. DOMAIN (c \o b) = 1 .. Len(s) + 1
  BY <1>6, LenProperties
<1>9. (c \o b)[k] = e
  BY <1>1, <1>5, <1>6
<1>10. ASSUME NEW i \in 1 .. Len(s) + 1
       PROVE  /\ i < k => i \in DOMAIN s /\ (c \o b)[i] = s[i]
              /\ i > k => i - 1 \in DOMAIN s /\ (c \o b)[i] = s[i - 1]
  <2>1. i \in Int /\ (i < k => i \in 1 .. k - 1 /\ i <= k)
    BY <1>1
  <2>2. i > k => ~(i <= k) /\ i - k \in 1 .. Len(s) - k + 1 /\ k + (i - k) - 1 = i - 1
    BY <1>1, <2>1
  <2>3. CASE i < k
    BY <1>1, <1>5, <1>6, <2>1, <2>3
  <2>4. CASE i > k
    <3>1. (c \o b)[i] = b[i - k]
      BY <1>6, <2>2, <2>4
    <3>2. b[i - k] = s[k + (i - k) - 1]
      BY <1>3, <2>2, <2>4
    <3> QED  BY <1>1, <2>1, <2>2, <2>4, <3>1, <3>2
  <2>5. ~(i < k /\ i > k)
    BY <1>1, <2>1
  <2> QED  BY <2>3, <2>4, <2>5
<1> QED  BY <1>1, <1>6, <1>7, <1>8, <1>9, <1>10

(* The largest of some positions in a channel, or 0. *)
LEMMA LastPosition ==
  ASSUME NEW n \in Nat, NEW S, S \subseteq 1 .. n
  PROVE  Max({0} \cup S) \in 0 .. n
<1> DEFINE T == {0} \cup S
           D == {n - x : x \in T}
<1>1. T \subseteq 0 .. n /\ 0 \in T
  OBVIOUS
<1>2. D \subseteq Nat /\ D # {}
  <2>1. \A x \in T : n - x \in Nat
    BY <1>1
  <2>2. n - 0 \in D
    BY <1>1
  <2> QED  BY <2>1, <2>2
<1>3. Least(D) \in D /\ \A y \in D : Least(D) <= y
  <2> HIDE DEF D
  <2> QED  BY <1>2, LeastInSet
<1>4. PICK x \in T : Least(D) = n - x
  BY <1>3
<1>5. \A y \in T : x >= y
  <2> TAKE y \in T
  <2>1. n - y \in D /\ y \in Int /\ x \in Int
    BY <1>1
  <2>2. n - x <= n - y
    BY <1>3, <1>4, <2>1
  <2> QED  BY <2>1, <2>2
<1>6. Max(T) \in T
  <2> HIDE DEF T
  <2> QED  BY <1>5 DEF Max
<1> QED  BY <1>1, <1>6

------------------------------------------------------------------------------
(* The books of the publish engine on a network. *)

(* Packets that are ignored, and steps of the broker. *)
LEMMA IgnoredBooks ==
  ASSUME IndInv, OrderInv, Ignored
  PROVE  IndInv' /\ OrderInv'
<1>1. StepInv'
  BY StepInvQuiet, PacketsTyped DEF Ignored, IndInv, StepInv, opsVars, id_vars
<1>2. RestTypeOK'
  BY DEF Ignored, IndInv, RestTypeOK, session_vars, id_vars
<1>3. /\ SameShape /\ op' = op
      /\ UNCHANGED <<session, connecting, locked, fullOrdering, inFlight, call, fault>>
  BY SameOps DEF Ignored, session_vars
<1>4. ListOrder' /\ LoopOK(call)'
  BY <1>3, SameShapeOrder, SameShapeEffect DEF OrderInv, QueueInv, LoopOK
<1>5. Blocked' = Blocked
  BY <1>3 DEF Blocked, Paused, Live
<1>6. WaitOK(call)'
  BY <1>3, <1>5, SameShapeEffect DEF OrderInv, QueueInv, WaitOK
<1>7. NoneSending'
  BY <1>3 DEF OrderInv, NoneSending, Sending
<1> QED  BY <1>1, <1>2, <1>3, <1>4, <1>6, <1>7
         DEF OrderInv, QueueInv, SessionFacts, PlainUse, IndInv

(* The packets a client takes are handled by the publish engine. *)
LEMMA HandledSteps ==
  ASSUME IndInv, toClient \in Seq(Answer \cup Connacks), ClientRecv
  PROVE  Next \/ Ignored
<1> DEFINE p == Head(toClient)
<1>1. toClient # <<>> /\ Handle(p) /\ Idle /\ ~netDown
  BY DEF ClientRecv
<1>2. p \in Answer \cup Connacks
  BY <1>1, TailFacts
<1>3. CASE p.type = "CONNACK"
  <2>1. p \in Connacks
    BY <1>2, <1>3 DEF Answer
  <2>2. p.present \in SessionReplies /\ p.limit \in SendLimits /\ p.expiry \in Expiries
    BY <2>1 DEF Connacks
  <2>3. FALSE \in {b \in BOOLEAN : b => Oversize # {}}
    OBVIOUS
  <2>4. Connack(p.present, p.limit, p.expiry, FALSE) => Next
    BY <2>2, <2>3, Zenon DEF Next
  <2> HIDE DEF p
  <2> QED  BY <1>1, <1>3, <2>4 DEF Handle
<1>4. CASE p.type # "CONNACK"
  <2> HIDE DEF p
  <2>1. PubrecUnknown => Next
    BY DEF Next
  <2>2. ASSUME NEW o \in Found(p), HandleAck(p, o) PROVE Next
    <3>1. o \in Ops
      BY DEF Found, Paused, Published
    <3>2. CASE Puback(o, TRUE)
      BY <3>1, <3>2, Zenon DEF Next
    <3>3. CASE Pubcomp(o, TRUE)
      BY <3>1, <3>3, Zenon DEF Next
    <3>4. CASE Pubrec(o, IF p.code = "error" THEN "failure" ELSE "success")
      <4>1. (IF p.code = "error" THEN "failure" ELSE "success")
               \in {"success", "failure", "invalid"}
        OBVIOUS
      <4> QED  BY <3>1, <3>4, <4>1, Zenon DEF Next
    <3> QED  BY <2>2, <3>2, <3>3, <3>4 DEF HandleAck
  <2> QED  BY <1>1, <1>4, <2>1, <2>2 DEF Handle
<1> QED  BY <1>3, <1>4

(* So are its other steps. *)
LEMMA OwnSteps ==
  ASSUME msgQos \in [Ops -> Qoses],
         ClientConnect \/ NetworkLost \/ ClientRepeats \/ ClientCall \/ Application
  PROVE  Next
<1>1. ClientConnect => Next
  BY DEF ClientConnect, Next
<1>2. NetworkLost => Next
  BY DEF NetworkLost, Next
<1>3. ClientRepeats => Next
  BY DEF ClientRepeats, ClientStep, Next, CallStep
<1>4. ClientCall => Next
  BY DEF ClientCall, ClientStep, Next
<1>5. Application => Next
  <2>1. \A o \in Ops : msgQos[o] \in Qoses
    OBVIOUS
  <2>2. ASSUME NEW o \in Ops, Prepare(o, msgQos[o]) PROVE Next
    BY <2>1, <2>2, Zenon DEF Next
  <2>3. Disconnect(FALSE) => Next
    BY Zenon DEF Next
  <2> QED  BY <2>2, <2>3, Zenon DEF Application, ClientStep, Next
<1> QED  BY <1>1, <1>2, <1>3, <1>4, <1>5

(* The inductive invariants of the publish engine hold on a network. *)
LEMMA BooksKept ==
  ASSUME IndInv, OrderInv, msgQos \in [Ops -> Qoses],
         toClient \in Seq(Answer \cup Connacks), [DeliveryNext]_deliveryVars
  PROVE  IndInv' /\ OrderInv'
<1>1. Next => IndInv' /\ OrderInv'
  BY IndInvNext, OrderInvNext
<1>2. Ignored => IndInv' /\ OrderInv'
  BY IgnoredBooks
<1>3. UNCHANGED deliveryVars => IndInv' /\ OrderInv'
  BY IndInvStutter, OrderInvStutter, NoneSendingNext DEF deliveryVars, OrderInv, QueueInv
<1>4. BrokerRecv => Ignored
  BY DEF BrokerRecv, ClientRests, Ignored
<1>5. ASSUME NEW present, NEW limit, NEW expiry, BrokerConnack(present, limit, expiry)
      PROVE  Ignored
  BY <1>5 DEF BrokerConnack, ClientRests, Ignored
<1> QED  BY <1>1, <1>2, <1>3, <1>4, <1>5, HandledSteps, OwnSteps DEF DeliveryNext

------------------------------------------------------------------------------
(* What a step of the client does to the operations. *)

Kept(o) ==
    /\ op'[o].st = op[o].st /\ op'[o].id = op[o].id /\ op'[o].qos = op[o].qos
    /\ op'[o].acked = op[o].acked
Leaves(o) == o \in Live /\ op'[o] = OpIn("gone")

SameIds == lastId' = lastId /\ allocated' \subseteq allocated
NewId(o) ==
    /\ lastId' = lastId + 1 /\ op'[o].id = lastId + 1
    /\ allocated' \subseteq allocated \cup {lastId + 1}
Others(o) == \A p \in Ops : p # o => Kept(p)

(* Nothing is transmitted for an operation; some may leave. *)
Silent ==
    /\ \A o \in Ops : Kept(o) \/ Leaves(o)
    /\ SameIds
    /\ out'.type \in {"none", "CONNECT", "DISCONNECT"} /\ out'.op = 0

(* A transmitted operation is repeated. *)
Repeats(o) ==
    /\ o \in Published /\ (\A p \in Ops : Kept(p)) /\ SameIds
    /\ out' = DupPacket(o)

(* An operation is prepared. *)
Prepares(o) ==
    /\ o \in Ops /\ op[o].st = "none" /\ Others(o)
    /\ op'[o].st = "prepared" /\ op'[o].id = 0 /\ ~op'[o].acked
    /\ op'[o].qos = msgQos[o]
    /\ SameIds /\ out' = NoPacket

(* A prepared operation gets its packet id and waits. *)
Waits(o) ==
    /\ o \in PreparedOps /\ Others(o)
    /\ op'[o].st = "paused" /\ ~op'[o].acked /\ op'[o].qos = op[o].qos
    /\ NewId(o) /\ out' = NoPacket

(* An operation is transmitted for the first time. *)
Starts(o) ==
    /\ o \in Ops /\ Others(o)
    /\ op'[o].st = "published" /\ ~op'[o].acked /\ op'[o].qos = op[o].qos
    /\ \/ op[o].st = "prepared" /\ NewId(o)
       \/ op[o].st = "paused" /\ op'[o].id = op[o].id /\ SameIds
    /\ out' = Packet("PUBLISH", o, FALSE)

(* A PUBREC with success moves an operation on to its PUBREL. *)
Confirms(o) ==
    /\ o \in Published /\ Others(o) /\ op[o].qos = 2 /\ ~op[o].acked
    /\ op'[o].st = "published" /\ op'[o].acked
    /\ op'[o].qos = op[o].qos /\ op'[o].id = op[o].id
    /\ SameIds /\ out' = Packet("PUBREL", o, FALSE)

(* A PUBREC nobody waits for is answered. *)
Strange ==
    /\ (\A p \in Ops : Kept(p)) /\ SameIds
    /\ out' = Packet("PUBREL", 0, FALSE)

(* Operations left alone are kept. *)
LEMMA KeptAll ==
  ASSUME op' = op
  PROVE  \A o \in Ops : Kept(o)
BY DEF Kept

(* The fields of packets. *)
LEMMA PacketFields ==
  /\ NoPacket.type = "none" /\ NoPacket.op = 0
  /\ \A t, o, d : Packet(t, o, d).type = t /\ Packet(t, o, d).op = o
BY DEF NoPacket, Packet

(* opComplete() of one operation. *)
LEMMA CompleteLeaves ==
  ASSUME OpsInv, NEW o \in Live, NEW from, Complete(o, from)
  PROVE  /\ Leaves(o) /\ Others(o) /\ allocated' \subseteq allocated
         /\ \A p \in Ops : Kept(p) \/ Leaves(p)
<1>1. o \in Ops /\ op' = [op EXCEPT ![o] = OpIn("gone")] /\ op \in [Ops -> Op]
  BY DEF Complete, Erased, OpsInv, OpsTypeOK, Live
<1>2. op'[o] = OpIn("gone") /\ \A p \in Ops : p # o => op'[p] = op[p]
  BY <1>1
<1>3. allocated' \subseteq allocated
  BY DEF Complete, Erased, ReleasePacketId
<1>4. Leaves(o) /\ Others(o)
  BY <1>2 DEF Leaves, Others, Kept
<1> QED  BY <1>3, <1>4 DEF Others

(* completeWithCb() of one operation. *)
LEMMA CompleteWithCbLeaves ==
  ASSUME OpsInv, NEW o \in Live, NEW from, CompleteWithCb(o, from)
  PROVE  /\ Leaves(o) /\ Others(o) /\ allocated' \subseteq allocated
         /\ \A p \in Ops : Kept(p) \/ Leaves(p)
<1> DEFINE to == IF op[o].st = "prepared" THEN from ELSE Reported(o, from)
<1>1. Complete(o, to)
  BY DEF CompleteWithCb
<1> HIDE DEF to
<1> QED  BY <1>1, CompleteLeaves

(* All operations leave at once. *)
LEMMA ClearedLeaves ==
  ASSUME op' = [o \in Ops |-> IF o \in Live THEN OpIn("gone") ELSE op[o]]
  PROVE  \A o \in Ops : Kept(o) \/ Leaves(o)
BY DEF Kept, Leaves

(* The session is closed. *)
LEMMA DisconnectedLeaves ==
  ASSUME OpsInv, BrokerDisconnected
  PROVE  /\ \A o \in Ops : Kept(o) \/ Leaves(o)
         /\ allocated' \subseteq allocated
<1> DEFINE preserve == session.expiry # "zero" /\ Live # {}
<1>1. CASE preserve
  <2>1. op' = [o \in Ops |-> [op[o] EXCEPT !.suspended = op[o].timer \/ op[o].suspended]]
        /\ allocated' = allocated
    BY <1>1 DEF BrokerDisconnected
  <2>2. \A o \in Ops : op[o] \in Op
    BY DEF OpsInv, OpsTypeOK
  <2>3. ASSUME NEW o \in Ops PROVE Kept(o)
    <3>1. op'[o] = [op[o] EXCEPT !.suspended = op[o].timer \/ op[o].suspended]
      BY <2>1
    <3> QED  BY <2>2, <3>1 DEF Kept, Op
  <2> QED  BY <2>1, <2>3
<1>2. CASE ~preserve
  BY <1>2, ClearedLeaves DEF BrokerDisconnected, ReleasePacketIds
<1> QED  BY <1>1, <1>2

(* resendDupMsg() repeats the operation or gives it up. *)
LEMMA ResendDupClass ==
  ASSUME OpsInv, NEW o \in Published, NEW from, ResendDupMsg(o, from),
         lastId' = lastId
  PROVE  Silent \/ Repeats(o)
<1>1. o \in Live /\ o \in Ops
  BY LiveParts, OpsAreInts
<1>2. CASE attemptsExhausted(o) \/ (resendsPublish(o) /\ ~fits(o))
  BY <1>1, <1>2, CompleteWithCbLeaves, PacketFields DEF ResendDupMsg, Silent, SameIds
<1>3. CASE ~(attemptsExhausted(o) \/ (resendsPublish(o) /\ ~fits(o)))
  <2>1. /\ op' = [op EXCEPT ![o].attempts = @ + 1, ![o].timer = TRUE]
        /\ out' = DupPacket(o) /\ allocated' = allocated
    BY <1>3 DEF ResendDupMsg
  <2>2. op \in [Ops -> Op] /\ op[o] \in Op
    BY <1>1 DEF OpsInv, OpsTypeOK
  <2>3. op'[o] = [op[o] EXCEPT !.attempts = @ + 1, !.timer = TRUE]
    BY <1>1, <2>1, <2>2
  <2>4. \A p \in Ops : p # o => op'[p] = op[p]
    BY <2>1, <2>2
  <2>5. Kept(o)
    BY <2>2, <2>3 DEF Kept, Op
  <2> QED  BY <2>1, <2>4, <2>5 DEF Repeats, Kept, SameIds
<1> QED  BY <1>2, <1>3

(* Without a packet id used twice, the next one is the last one plus one. *)
LEMMA FreshId ==
  ASSUME FewMessages, IndInv, NEW f, IdsOK(f), NEW o \in Ops, op[o].st = "prepared"
  PROVE  /\ lastId \in Nat /\ lastId + 1 \in PacketIds
         /\ AllocPacketId(allocated, lastId).id = lastId + 1
         /\ AllocPacketId(allocated, lastId).last = lastId + 1
         /\ AllocPacketId(allocated, lastId).used = allocated \cup {lastId + 1}
<1>1. /\ lastId \in Nat /\ MaxOps \in Nat /\ MaxPacketId \in Nat
      /\ PacketIdsLimit \in Nat
  <2>1. MaxOps \in Nat /\ MaxPacketId \in Nat /\ PacketIdsLimit \in Nat
    BY SendOpsAssumption, PacketIdAssumption
  <2>2. lastId \in PacketIds
    BY DEF IndInv, RestTypeOK
  <2> QED  BY <2>1, <2>2 DEF PacketIds
<1>2. o \in Ops /\ o \in Nat /\ o <= MaxOps /\ lastId < o
  BY <1>1 DEF IdsOK, Ops
<1>3. lastId < MaxPacketId /\ lastId < PacketIdsLimit
  BY <1>1, <1>2 DEF FewMessages
<1>4. allocated \subseteq 1 .. lastId
  BY DEF IdsOK
<1>5. Cardinality(allocated) \in Nat /\ Cardinality(allocated) <= lastId
  <2>1. IsFiniteSet(1 .. lastId) /\ Cardinality(1 .. lastId) = lastId
    BY <1>1, FS_Interval
  <2> QED  BY <1>4, <2>1, FS_Subset, FS_CardinalityType
<1>6. ~Exhausted(allocated)
  BY <1>1, <1>3, <1>5 DEF Exhausted
<1>7. NextPacketId(lastId) = lastId + 1
  BY <1>1, <1>3 DEF NextPacketId
<1> DEFINE upper == (lastId + 1) .. MaxPacketId \ allocated
<1>8. upper \subseteq Nat /\ lastId + 1 \in upper /\ \A y \in upper : lastId + 1 <= y
  BY <1>1, <1>3, <1>4
<1>9. Least(upper) = lastId + 1
  <2>1. Least(upper) \in upper /\ \A y \in upper : Least(upper) <= y
    <3> HIDE DEF upper
    <3> QED  BY <1>8, LeastInSet
  <2>2. Least(upper) <= lastId + 1 /\ lastId + 1 <= Least(upper)
    BY <1>8, <2>1
  <2> HIDE DEF upper
  <2>3. Least(upper) \in Nat
    BY <1>8, <2>1
  <2> QED  BY <1>1, <2>2, <2>3
<1>10. FoundPacketId(allocated, lastId) = lastId + 1
  BY <1>7, <1>8, <1>9 DEF FoundPacketId
<1>11. lastId + 1 \in PacketIds
  BY <1>1, <1>3 DEF PacketIds
<1> QED  BY <1>1, <1>6, <1>10, <1>11 DEF AllocPacketId

(* publishPrepare(). *)
LEMMA PrepareClass ==
  ASSUME IndInv, NEW o \in Ops, Prepare(o, msgQos[o])
  PROVE  Prepares(o)
<1>1. op' = [op EXCEPT ![o] = [OpIn("prepared") EXCEPT !.qos = msgQos[o]]]
      /\ op[o].st = "none" /\ out' = NoPacket
  BY DEF Prepare
<1>2. op \in [Ops -> Op]
  BY DEF IndInv, StepInv, OpsInv, OpsTypeOK
<1>3. op'[o] = [OpIn("prepared") EXCEPT !.qos = msgQos[o]]
      /\ \A p \in Ops : p # o => op'[p] = op[p]
  BY <1>1, <1>2
<1>4. op'[o].st = "prepared" /\ op'[o].id = 0 /\ op'[o].acked = FALSE
      /\ op'[o].qos = msgQos[o]
  BY <1>3 DEF OpIn
<1>5. SameIds
  BY DEF Prepare, SameIds, id_vars
<1> QED  BY <1>1, <1>3, <1>4, <1>5 DEF Prepares, Others, Kept

(* Every message fits, and none has QoS 0. *)
LEMMA AlwaysFits ==
  ASSUME LinkOK, NEW f, IdsOK(f), FewMessages
  PROVE  /\ \A o : fits(o)
         /\ \A o \in Live : op[o].qos # 0 /\ op[o].qos \in {1, 2}
<1>1. \A o : fits(o)
  BY DEF LinkOK, SessionOK, fits
<1>2. \A o \in Live : op[o].qos \in {1, 2}
  BY DEF IdsOK, FewMessages, Live
<1> QED  BY <1>1, <1>2

(* send(). *)
LEMMA SendClass ==
  ASSUME FewMessages, IndInv, NEW f, IdsOK(f), LinkOK, NEW o \in Ops, Send(o),
         ~SendsLate
  PROVE  session.connected /\ (Waits(o) \/ Starts(o))
<1>1. op[o].st = "prepared" /\ (SendsLate \/ session.connected)
  BY DEF Send, SendId
<1>2. o \in PreparedOps /\ o \in Live /\ op[o] \in Op /\ op \in [Ops -> Op]
  BY <1>1 DEF PreparedOps, Live, IndInv, StepInv, OpsInv, OpsTypeOK
<1>3. op[o].qos # 0 /\ fits(o) /\ op[o].acked = FALSE
  <2>1. op[o].acked \in BOOLEAN
    BY <1>2 DEF Op
  <2>2. ~op[o].acked
    BY <1>1 DEF IndInv, StepInv, OpsInv, FieldsOfStates
  <2> QED  BY <1>2, <2>1, <2>2, AlwaysFits
<1> DEFINE id == AllocPacketId(allocated, lastId)
<1>4. id.id = lastId + 1 /\ id.last = lastId + 1 /\ id.used = allocated \cup {lastId + 1}
  BY <1>1, FreshId
<1> HIDE DEF id
<1> DEFINE sent == [op EXCEPT ![o].id = id.id]
<1>5. lastId' = id.last
  BY <1>3 DEF Send, SendId, id
<1>7. CASE ~canSend(o)
  <2>1. op' = [sent EXCEPT ![o].st = "paused"] /\ allocated' = id.used /\ out' = NoPacket
    BY <1>3, <1>7 DEF Send, SendId, id
  <2>2. op'[o] = [op[o] EXCEPT !.id = id.id, !.st = "paused"]
        /\ \A p \in Ops : p # o => op'[p] = op[p]
    BY <1>2, <2>1
  <2>3. op'[o].st = "paused" /\ op'[o].id = id.id /\ op'[o].qos = op[o].qos
        /\ op'[o].acked = op[o].acked
    BY <1>2, <2>2 DEF Op
  <2>4. NewId(o)
    BY <1>4, <1>5, <2>1, <2>3 DEF NewId
  <2> QED  BY <1>1, <1>2, <1>3, <2>1, <2>2, <2>3, <2>4 DEF Waits, Others, Kept
<1>8. CASE canSend(o)
  <2>1. /\ op' = [sent EXCEPT ![o].st = "published", ![o].attempts = 1, ![o].timer = TRUE]
        /\ allocated' = id.used /\ out' = Packet("PUBLISH", o, FALSE)
    BY <1>3, <1>8 DEF Send, SendId, id
  <2>2. op'[o] = [op[o] EXCEPT !.id = id.id, !.st = "published", !.attempts = 1,
                               !.timer = TRUE]
        /\ \A p \in Ops : p # o => op'[p] = op[p]
    BY <1>2, <2>1
  <2>3. op'[o].st = "published" /\ op'[o].id = id.id /\ op'[o].qos = op[o].qos
        /\ op'[o].acked = op[o].acked
    BY <1>2, <2>2 DEF Op
  <2>4. NewId(o)
    BY <1>4, <1>5, <2>1, <2>3 DEF NewId
  <2> QED  BY <1>1, <1>2, <1>3, <1>8, <2>1, <2>2, <2>3, <2>4 DEF Starts, Others, Kept
<1> QED  BY <1>7, <1>8

(* The call a completion returns to. *)
LEMMA CompleteCall ==
  ASSUME NEW o \in Ops, NEW from, CallOK(from),
         CompleteWithCb(o, from)
  PROVE  /\ call'.closing = from.closing /\ call'.loop = from.loop
         /\ call'.at = from.at
<1> DEFINE to == IF op[o].st = "prepared" THEN from ELSE Reported(o, from)
<1>1. CallOK(to)
  BY ReportedTyped
<1>2. to.loop = from.loop /\ to.at = from.at /\ to.closing = from.closing
  BY ReportedFields
<1>3. call' = Resuming(o, to)
  BY DEF CompleteWithCb, Complete
<1> HIDE DEF to
<1> QED  BY <1>1, <1>2, <1>3, ResumingFields

(* An acknowledgement ends its operation, starts resendAllUntil() or, a        *)
(* PUBREC, moves the operation on.                                             *)
Ends(o) == Silent /\ Others(o) /\ o \in Published /\ Leaves(o) /\ call'.loop = "none"

(* The operation ends with a protocol error. *)
LEMMA ProtocolErrorEnds ==
  ASSUME IndInv, NEW o \in Published, ProtocolError(o), lastId' = lastId
  PROVE  Ends(o) /\ call'.closing
<1>1. o \in Live /\ o \in Ops
  BY LiveParts, OpsAreInts
<1> DEFINE from == [Guarded EXCEPT !.closing = TRUE]
<1>2. CallOK(from) /\ from.closing = TRUE /\ from.loop = "none"
  BY CallsTyped DEF Guarded, NoCall
<1>3. CompleteWithCb(o, from) /\ out' = NoPacket
  BY DEF ProtocolError
<1> HIDE DEF from
<1>4. OpsInv
  BY DEF IndInv, StepInv
<1>5. call'.closing = TRUE /\ call'.loop = "none"
  BY <1>1, <1>2, <1>3, CompleteCall
<1> QED  BY <1>1, <1>3, <1>4, <1>5, CompleteWithCbLeaves, PacketFields
            DEF Ends, Silent, SameIds

(* The operation ends as it should. *)
LEMMA AckEnds ==
  ASSUME IndInv, NEW o \in Published, CompleteWithCb(o, Guarded), out' = NoPacket,
         lastId' = lastId
  PROVE  Ends(o) /\ ~call'.closing
<1>1. o \in Live /\ o \in Ops
  BY LiveParts, OpsAreInts
<1>2. CallOK(Guarded) /\ Guarded.closing = FALSE /\ Guarded.loop = "none"
  BY CallsTyped DEF Guarded, NoCall
<1>4. OpsInv
  BY DEF IndInv, StepInv
<1>5. call'.closing = FALSE /\ call'.loop = "none"
  BY <1>1, <1>2, CompleteCall
<1> QED  BY <1>1, <1>4, <1>5, CompleteWithCbLeaves, PacketFields
            DEF Ends, Silent, SameIds

(* resendAllUntil() begins. *)
Reacts == Silent /\ op' = op /\ ~call'.closing /\ call'.loop # "reconnect"

(* resendAllUntil() only starts its loop. *)
LEMMA ResendAllClass ==
  ASSUME NEW o, ResendAllUntil(o), lastId' = lastId
  PROVE  Reacts
<1>1. call' = [Guarded EXCEPT !.loop = "resend", !.at = 1, !.upto = o]
  BY DEF ResendAllUntil
<1>2. call'.closing = FALSE /\ call'.loop = "resend"
  BY <1>1 DEF Guarded, NoCall
<1> QED  BY <1>2, KeptAll, PacketFields DEF ResendAllUntil, Reacts, Silent, SameIds

(* A PUBACK. *)
LEMMA PubackClass ==
  ASSUME IndInv, NEW o \in Ops, Puback(o, TRUE)
  PROVE  \/ Reacts
         \/ Ends(o) /\ (call'.closing <=> op[o].qos # 1)
<1>1. lastId' = lastId
  BY DEF Puback
<1>2. CASE ~isLegitSendAck(o, FALSE)
  BY <1>1, <1>2, ResendAllClass DEF Puback
<1>3. CASE isLegitSendAck(o, FALSE)
  <2>1. o \in Published
    BY <1>3 DEF isLegitSendAck, Published
  <2>2. IF op[o].qos # 1 THEN ProtocolError(o)
        ELSE CompleteWithCb(o, Guarded) /\ out' = NoPacket
    BY <1>3 DEF Puback
  <2>3. CASE op[o].qos # 1
    BY <1>1, <2>1, <2>2, <2>3, ProtocolErrorEnds
  <2>4. CASE op[o].qos = 1
    BY <1>1, <2>1, <2>2, <2>4, AckEnds
  <2> QED  BY <2>3, <2>4
<1> QED  BY <1>2, <1>3

(* A PUBCOMP. *)
LEMMA PubcompClass ==
  ASSUME IndInv, NEW o \in Ops, Pubcomp(o, TRUE)
  PROVE  \/ Reacts
         \/ Ends(o) /\ (call'.closing <=> op[o].qos # 2 \/ ~op[o].acked)
<1>1. lastId' = lastId
  BY DEF Pubcomp
<1>2. CASE ~isLegitSendAck(o, TRUE)
  BY <1>1, <1>2, ResendAllClass DEF Pubcomp
<1>3. CASE isLegitSendAck(o, TRUE)
  <2>1. o \in Published
    BY <1>3 DEF isLegitSendAck, Published
  <2>2. IF op[o].qos # 2 \/ ~op[o].acked THEN ProtocolError(o)
        ELSE CompleteWithCb(o, Guarded) /\ out' = NoPacket
    BY <1>3 DEF Pubcomp
  <2>3. CASE op[o].qos # 2 \/ ~op[o].acked
    BY <1>1, <2>1, <2>2, <2>3, ProtocolErrorEnds
  <2>4. CASE ~(op[o].qos # 2 \/ ~op[o].acked)
    BY <1>1, <2>1, <2>2, <2>4, AckEnds
  <2> QED  BY <2>3, <2>4
<1> QED  BY <1>2, <1>3

(* A PUBREC. *)
LEMMA PubrecClass ==
  ASSUME IndInv, NEW o \in Ops, NEW reply \in {"success", "failure"}, Pubrec(o, reply)
  PROVE  \/ Reacts
         \/ Ends(o) /\ (call'.closing <=> op[o].qos # 2 \/ op[o].acked)
                    /\ (~call'.closing => reply = "failure")
         \/ Confirms(o) /\ reply = "success" /\ ~call'.closing /\ call'.loop = "none"
<1>1. lastId' = lastId
  BY DEF Pubrec
<1>2. CASE ~isLegitSendAck(o, FALSE)
  BY <1>1, <1>2, ResendAllClass DEF Pubrec
<1>3. CASE isLegitSendAck(o, FALSE)
  <2>1. o \in Published /\ op[o].st = "published"
    BY <1>3 DEF isLegitSendAck, Published
  <2>3. CASE op[o].qos # 2 \/ op[o].acked
    <3>1. ProtocolError(o)
      BY <1>3, <2>3 DEF Pubrec
    <3> QED  BY <1>1, <2>1, <2>3, <3>1, ProtocolErrorEnds
  <2>4. CASE ~(op[o].qos # 2 \/ op[o].acked) /\ reply = "failure"
    <3>1. CompleteWithCb(o, Guarded) /\ out' = NoPacket
      BY <1>3, <2>4 DEF Pubrec
    <3> QED  BY <1>1, <2>1, <2>4, <3>1, AckEnds
  <2>5. CASE ~(op[o].qos # 2 \/ op[o].acked) /\ reply = "success"
    <3>1. /\ op' = [op EXCEPT ![o].acked = TRUE, ![o].attempts = 1, ![o].timer = TRUE]
          /\ out' = Packet("PUBREL", o, FALSE) /\ call' = Guarded
          /\ allocated' = allocated
      BY <1>3, <2>5 DEF Pubrec
    <3>2. op \in [Ops -> Op] /\ op[o] \in Op
      BY DEF IndInv, StepInv, OpsInv, OpsTypeOK
    <3>3. op'[o] = [op[o] EXCEPT !.acked = TRUE, !.attempts = 1, !.timer = TRUE]
          /\ \A p \in Ops : p # o => op'[p] = op[p]
      BY <3>1, <3>2
    <3>4. op'[o].st = op[o].st /\ op'[o].acked = TRUE /\ op'[o].qos = op[o].qos
          /\ op'[o].id = op[o].id
      BY <3>2, <3>3 DEF Op
    <3> QED  BY <1>1, <2>1, <2>5, <3>1, <3>3, <3>4, PlainCalls
                DEF Confirms, Others, Kept, SameIds
  <2> QED  BY <2>3, <2>4, <2>5
<1> QED  BY <1>2, <1>3

(* cancel(), and the ends of sessions and connections. *)
LEMMA EndingClass ==
  ASSUME IndInv,
         \/ \E o \in Ops : Cancel(o)
         \/ \E b \in BOOLEAN : Disconnect(b)
         \/ NetworkDisconnected \/ SessionExpiryTimeout \/ Terminate
  PROVE  Silent
<1>1. OpsInv
  BY DEF IndInv, StepInv
<1>2. ASSUME NEW o \in Ops, Cancel(o) PROVE Silent
  BY <1>1, <1>2, CompleteLeaves, PacketFields DEF Cancel, Silent, SameIds
<1>3. ASSUME NEW b \in BOOLEAN, Disconnect(b) PROVE Silent
  <2>1. BrokerDisconnected /\ lastId' = lastId
        /\ out' \in {NoPacket, Packet("DISCONNECT", 0, FALSE)}
    BY <1>3 DEF Disconnect
  <2>2. out'.type \in {"none", "DISCONNECT"} /\ out'.op = 0
    BY <2>1 DEF Packet, NoPacket
  <2> QED  BY <1>1, <2>1, <2>2, DisconnectedLeaves DEF Silent, SameIds
<1>4. ASSUME NetworkDisconnected PROVE Silent
  <2>1. out' = NoPacket /\ lastId' = lastId
        /\ (BrokerDisconnected \/ UNCHANGED <<op, allocated>>)
    BY <1>4 DEF NetworkDisconnected
  <2>2. out'.type = "none" /\ out'.op = 0
    BY <2>1 DEF Packet, NoPacket
  <2> QED  BY <1>1, <2>1, <2>2, DisconnectedLeaves, KeptAll DEF Silent, SameIds
<1>5. ASSUME SessionExpiryTimeout PROVE Silent
  BY <1>1, <1>5, ClearedLeaves, PacketFields
     DEF SessionExpiryTimeout, ExpiryTimer, Silent, SameIds, ReleasePacketIds
<1>6. ASSUME Terminate PROVE Silent
  <2>1. BrokerDisconnected /\ lastId' = lastId /\ out' = Packet("DISCONNECT", 0, FALSE)
    BY <1>6 DEF Terminate
  <2>2. out'.type = "DISCONNECT" /\ out'.op = 0
    BY <2>1 DEF Packet
  <2> QED  BY <1>1, <2>1, <2>2, DisconnectedLeaves DEF Silent, SameIds
<1> QED  BY <1>2, <1>3, <1>4, <1>5, <1>6

(* Steps that leave the operations alone. *)
LEMMA RestingClass ==
  ASSUME \/ Connect \/ ConnectFails \/ Ignored
         \/ \E p, l, e : Connack(p, l, e, FALSE)
         \/ CallbackReturns \/ ReconnectResume \/ ApiExit
  PROVE  Silent /\ op' = op
<1>1. ASSUME Connect PROVE Silent /\ op' = op
  <2>1. op' = op /\ lastId' = lastId /\ allocated' = allocated
        /\ out' \in {NoPacket, Packet("CONNECT", 0, FALSE)}
    BY <1>1 DEF Connect, id_vars
  <2>2. out'.type \in {"none", "CONNECT"} /\ out'.op = 0
    BY <2>1 DEF Packet, NoPacket
  <2> QED  BY <2>1, <2>2, KeptAll DEF Silent, SameIds
<1>2. ASSUME ConnectFails \/ Ignored PROVE Silent /\ op' = op
  BY <1>2, KeptAll, PacketFields DEF ConnectFails, Ignored, Silent, SameIds, id_vars
<1>3. ASSUME NEW p, NEW l, NEW e, Connack(p, l, e, FALSE) PROVE Silent /\ op' = op
  BY <1>3, KeptAll, PacketFields DEF Connack, Silent, SameIds, id_vars
<1>4. ASSUME CallbackReturns \/ ApiExit PROVE Silent /\ op' = op
  BY <1>4, KeptAll, PacketFields DEF CallbackReturns, ApiExit, Silent, SameIds, id_vars
<1>5. ASSUME ReconnectResume PROVE Silent /\ op' = op
  BY <1>5, KeptAll, PacketFields DEF ReconnectResume, Silent, SameIds, id_vars
<1> QED  BY <1>1, <1>2, <1>3, <1>4, <1>5

(* The response timer of an operation, which does not run outside of a connection. *)
LEMMA TimeoutClass ==
  ASSUME IndInv, LinkOK, NEW o \in Ops, ResponseTimeout(o)
  PROVE  session.connected /\ (Silent \/ Repeats(o))
<1>1. op[o].timer /\ ~op[o].suspended /\ ResendDupMsg(o, Guarded) /\ lastId' = lastId
  BY DEF ResponseTimeout, ResponseTimer
<1>2. o \in Published /\ OpsInv
  BY <1>1 DEF IndInv, StepInv, OpsInv, FieldsOfStates, Published
<1>3. session.connected
  BY <1>1, <1>2 DEF LinkOK, SessionOK
<1> QED  BY <1>1, <1>2, <1>3, ResendDupClass

(* resendAllUntil(). *)
LEMMA ResendClass ==
  ASSUME IndInv, ResendNext
  PROVE  Silent \/ (\E o \in Ops : Repeats(o))
<1>1. lastId' = lastId /\ OpsInv
  BY DEF ResendNext, IndInv, StepInv
<1>2. CASE Unsent(call.at)
  BY <1>1, <1>2, KeptAll, PacketFields DEF ResendNext, Faults, Silent, SameIds
<1>3. CASE ~Unsent(call.at) /\ call.at \in Published
  BY <1>1, <1>3, ResendDupClass, OpsAreInts DEF ResendNext
<1>4. CASE ~Unsent(call.at) /\ call.at \notin Published
  BY <1>1, <1>4, KeptAll, PacketFields DEF ResendNext, Skip, Silent, SameIds
<1> QED  BY <1>2, <1>3, <1>4

(* The loop over the kept operations after a reconnection. *)
LEMMA ReconnectClass ==
  ASSUME IndInv, LinkOK, ReconnectNext
  PROVE  \/ Silent /\ op' = op /\ (call' = call \/ call.at \notin Published)
         \/ Repeats(call.at)
<1> DEFINE o == call.at
<1>1. lastId' = lastId /\ OpsInv /\ fits(o)
  BY DEF ReconnectNext, IndInv, StepInv, LinkOK, SessionOK, fits
<1>2. CASE Unsent(o)
  BY <1>1, <1>2, KeptAll, PacketFields DEF ReconnectNext, Faults, Silent, SameIds
<1>3. CASE ~Unsent(o) /\ o \in Published
  <2>1. op' = [op EXCEPT ![o].timer = TRUE] /\ out' = DupPacket(o)
        /\ allocated' = allocated
    BY <1>1, <1>3 DEF ReconnectNext
  <2>2. o \in Ops /\ op \in [Ops -> Op] /\ op[o] \in Op
    BY <1>1, <1>3, OpsAreInts DEF OpsInv, OpsTypeOK
  <2> HIDE DEF o
  <2>3. op'[o] = [op[o] EXCEPT !.timer = TRUE] /\ \A p \in Ops : p # o => op'[p] = op[p]
    BY <2>1, <2>2
  <2>4. Kept(o)
    BY <2>2, <2>3 DEF Kept, Op
  <2>5. Repeats(o)
    BY <1>1, <1>3, <2>1, <2>3, <2>4 DEF Repeats, Kept, SameIds
  <2> QED  BY <2>5 DEF o
<1>4. CASE ~Unsent(o) /\ o \notin Published
  BY <1>1, <1>4, KeptAll, PacketFields DEF ReconnectNext, Silent, SameIds
<1> QED  BY <1>2, <1>3, <1>4

(* The loop over the operations of a lost session. *)
LEMMA AbortClass ==
  ASSUME IndInv, AbortNext
  PROVE  Silent
<1> DEFINE o == call.at
<1>1. lastId' = lastId /\ OpsInv
  BY DEF AbortNext, IndInv, StepInv
<1>2. CASE o \in nulls
  BY <1>1, <1>2, KeptAll, PacketFields DEF AbortNext, Faults, Silent, SameIds
<1>3. CASE o \notin nulls /\ o \in Live
  BY <1>1, <1>3, CompleteWithCbLeaves, PacketFields DEF AbortNext, Silent, SameIds
<1>4. CASE o \notin nulls /\ o \notin Live
  BY <1>1, <1>4, KeptAll, PacketFields DEF AbortNext, Skip, Silent, SameIds
<1> QED  BY <1>2, <1>3, <1>4

(* A PUBREC nobody waits for. *)
LEMMA StrangeClass ==
  ASSUME PubrecUnknown
  PROVE  Strange /\ op' = op /\ ~call'.closing /\ call'.loop = "none"
BY KeptAll, PlainCalls DEF PubrecUnknown, Strange, SameIds, id_vars

(* resumeSendOpsSince(), which transmits nothing outside of a connection. *)
LEMMA ResumeClass ==
  ASSUME FewMessages, IndInv, OrderInv, NEW f, IdsOK(f), LinkOK, ResumeNext
  PROVE  \/ Silent /\ op' = op
         \/ session.connected /\ \E o \in Ops : Starts(o) /\ call' = call
<1> DEFINE waiting == {p \in Paused : call.resume <= p}
           o == Least(waiting)
<1>1. lastId' = lastId /\ OpsInv /\ call.resume # 0
  BY DEF ResumeNext, IndInv, StepInv
<1>2. CASE ~(waiting # {} /\ canSend(o))
  BY <1>1, <1>2, KeptAll, PacketFields DEF ResumeNext, Silent, SameIds
<1>3. CASE waiting # {} /\ canSend(o)
  <2>1. waiting \subseteq Nat
    BY OpsAreInts
  <2>2. o \in waiting
    <3> HIDE DEF waiting
    <3> QED  BY <1>3, <2>1, LeastInSet
  <2>3. DoSend(o, call)
    BY <1>3 DEF ResumeNext
  <2> HIDE DEF o, waiting
  <2>4. o \in Paused
    BY <2>2 DEF waiting
  <2>5. o \in Ops /\ o \in Live /\ op[o].st = "paused"
    BY <2>4, OpsAreInts, LiveParts DEF Paused
  <2>6. fits(o) /\ op[o].qos # 0
    BY <2>5, AlwaysFits
  <2>7. op \in [Ops -> Op] /\ op[o] \in Op
    BY <1>1, <2>5 DEF OpsInv, OpsTypeOK
  <2>8. op[o].acked = FALSE
    <3>1. op[o].acked \in BOOLEAN
      BY <2>7 DEF Op
    <3>2. ~op[o].acked
      BY <1>1, <2>5 DEF OpsInv, FieldsOfStates
    <3> QED  BY <3>1, <3>2
  <2>9. /\ op' = [op EXCEPT ![o].st = "published", ![o].attempts = 1, ![o].timer = TRUE]
        /\ out' = Packet("PUBLISH", o, FALSE)
        /\ allocated' = allocated /\ call' = call
    BY <2>3, <2>6 DEF DoSend
  <2>10. /\ op'[o] = [op[o] EXCEPT !.st = "published", !.attempts = 1, !.timer = TRUE]
         /\ \A p \in Ops : p # o => op'[p] = op[p]
    BY <2>5, <2>7, <2>9
  <2>11. op'[o].st = "published" /\ op'[o].id = op[o].id /\ op'[o].qos = op[o].qos
         /\ op'[o].acked = op[o].acked
    BY <2>7, <2>10, SentType
  <2>12. Starts(o)
    BY <1>1, <2>5, <2>8, <2>9, <2>10, <2>11 DEF Starts, Others, Kept, SameIds
  <2>13. session.limit > inFlight
    <3>1. session.limit \in Nat /\ inFlight \in Nat
      BY <1>1 DEF OpsInv, OpsTypeOK, IndInv, RestTypeOK, SessionTypes
    <3>2. ~(session.limit <= inFlight)
      BY <1>3, <2>6 DEF canSend, o
    <3> QED  BY <3>1, <3>2
  <2>14. session.connected
    <3>1. ~session.disconnecting
      BY <1>1 DEF OrderInv, QueueInv, LoopOK
    <3>2. session.limit # 0
      BY <1>1, <2>13 DEF OpsInv, OpsTypeOK
    <3> QED  BY <3>1, <3>2 DEF OrderInv, QueueInv, SessionFacts
  <2> QED  BY <2>5, <2>9, <2>12, <2>14
<1> QED  BY <1>2, <1>3

------------------------------------------------------------------------------
(* Packet ids and the lives of operations.  g is f after the step, a the        *)
(* operation whose PUBREC was taken, if any.                                    *)

Moves(f, g, a) ==
    /\ lastId' >= lastId /\ lastId \in Nat /\ lastId' \in Nat
    /\ \A o \in Ops : \/ g[o] = f[o]
                      \/ f[o] = 0 /\ g[o] > lastId /\ op[o].st = "prepared"
    /\ \A o \in Ops :
          /\ op[o].st = "gone" => op'[o].st = "gone"
          /\ op[o].st = "published" => op'[o].st \in {"published", "gone"}
          /\ op'[o].st = "published" => op[o].st \in {"published", "paused", "prepared"}
          /\ op[o].st = "published" /\ op'[o].st = "published" =>
                (op'[o].acked <=> op[o].acked \/ o \in a)
          /\ op'[o].acked => op[o].st = "published" /\ op'[o].st = "published"
          /\ op[o].acked => op[o].st = "published"

Shrinks == (\A o \in Ops : Kept(o) \/ Leaves(o)) /\ SameIds

(* The last packet id is a number. *)
LEMMA LastIdNat ==
  ASSUME IndInv
  PROVE  lastId \in Nat
<1>1. MaxPacketId \in Nat
  BY PacketIdAssumption
<1>2. lastId \in PacketIds
  BY DEF IndInv, RestTypeOK
<1> QED  BY <1>1, <1>2 DEF PacketIds

(* Which operations are about to be sent. *)
LEMMA Unborn ==
  ASSUME OrderInv, NEW o \in PreparedOps, NEW p \in Ops, p # o,
         op[p].st \in {"none", "prepared"}
  PROVE  o < p
<1>1. o \in Ops /\ o \in Int /\ p \in Int /\ o \in Created
  BY OpsAreInts, LiveParts
<1>2. PreparedOps = {o}
  BY PreparedAlone DEF OrderInv, QueueInv
<1>3. op[p].st = "none"
  BY <1>2 DEF PreparedOps
<1>4. ~(p < o)
  BY <1>1, <1>3 DEF OrderInv, QueueInv, ListOrder, CreatedFirst, Created
<1> QED  BY <1>1, <1>4

(* Nothing new. *)
LEMMA ShrinkMoves ==
  ASSUME IndInv, IndInv', NEW f, IdsOK(f), msgQos' = msgQos, Shrinks
  PROVE  IdsOK(f)' /\ Moves(f, f, {})
<1>1. lastId' = lastId /\ lastId \in Nat
  BY LastIdNat DEF Shrinks, SameIds
<1>2. ASSUME NEW o \in Ops
      PROVE  Kept(o) \/ (/\ op[o].st \in {"prepared", "sending", "paused", "published"}
                         /\ op'[o].st = "gone" /\ op'[o].acked = FALSE)
  BY DEF Shrinks, Leaves, Live, OpIn
<1>3. \A o \in Ops : op[o].acked => op[o].st = "published"
  BY DEF IndInv, StepInv, OpsInv, FieldsOfStates
<1>4. Moves(f, f, {})
  <2>1. ASSUME NEW o \in Ops
        PROVE  /\ op[o].st = "gone" => op'[o].st = "gone"
               /\ op[o].st = "published" => op'[o].st \in {"published", "gone"}
               /\ op'[o].st = "published" => op[o].st \in {"published", "paused", "prepared"}
               /\ op[o].st = "published" /\ op'[o].st = "published" =>
                     (op'[o].acked <=> op[o].acked \/ o \in {})
               /\ op'[o].acked => op[o].st = "published" /\ op'[o].st = "published"
    BY <1>2, <1>3 DEF Kept
  <2> QED  BY <1>1, <1>3, <2>1 DEF Moves
<1>5. IdsOK(f)'
  <2>1. ASSUME NEW o \in Ops
        PROVE  /\ op'[o].st \in {"none", "prepared"} => f[o] = 0 /\ lastId < o
               /\ op'[o].st \in {"paused", "published"} => op'[o].id = f[o] /\ f[o] # 0
               /\ o \in Live' => op'[o].qos = msgQos[o]
               /\ op'[o].acked => msgQos[o] = 2
    <3>1. CASE Kept(o)
      BY <3>1 DEF Kept, IdsOK, Live
    <3>2. CASE ~Kept(o)
      BY <1>2, <3>2 DEF Live
    <3> QED  BY <3>1, <3>2
  <2>2. allocated' \subseteq 1 .. lastId
    BY DEF Shrinks, SameIds, IdsOK
  <2> QED  BY <1>1, <2>1, <2>2 DEF IdsOK, Live
<1> QED  BY <1>4, <1>5

(* A new operation without a packet id. *)
LEMMA PrepareMoves ==
  ASSUME IndInv, IndInv', NEW f, IdsOK(f), msgQos' = msgQos, NEW o \in Ops, Prepares(o)
  PROVE  IdsOK(f)' /\ Moves(f, f, {})
<1>1. lastId' = lastId /\ lastId \in Nat
  BY LastIdNat DEF Prepares, SameIds
<1>2. \A p \in Ops : p # o => Kept(p)
  BY DEF Prepares, Others
<1>3. \A p \in Ops : op[p].acked => op[p].st = "published"
  BY DEF IndInv, StepInv, OpsInv, FieldsOfStates
<1>4. Moves(f, f, {})
  <2>1. ASSUME NEW p \in Ops
        PROVE  /\ op[p].st = "gone" => op'[p].st = "gone"
               /\ op[p].st = "published" => op'[p].st \in {"published", "gone"}
               /\ op'[p].st = "published" => op[p].st \in {"published", "paused", "prepared"}
               /\ op[p].st = "published" /\ op'[p].st = "published" =>
                     (op'[p].acked <=> op[p].acked \/ p \in {})
               /\ op'[p].acked => op[p].st = "published" /\ op'[p].st = "published"
    BY <1>2, <1>3 DEF Kept, Prepares
  <2> QED  BY <1>1, <1>3, <2>1 DEF Moves
<1>5. IdsOK(f)'
  <2>1. ASSUME NEW p \in Ops
        PROVE  /\ op'[p].st \in {"none", "prepared"} => f[p] = 0 /\ lastId < p
               /\ op'[p].st \in {"paused", "published"} => op'[p].id = f[p] /\ f[p] # 0
               /\ p \in Live' => op'[p].qos = msgQos[p]
               /\ op'[p].acked => msgQos[p] = 2
    <3>1. CASE p # o
      BY <1>2, <3>1 DEF Kept, IdsOK, Live
    <3>2. CASE p = o
      BY <3>2 DEF Prepares, IdsOK
    <3> QED  BY <3>1, <3>2
  <2>2. allocated' \subseteq 1 .. lastId
    BY DEF Prepares, SameIds, IdsOK
  <2> QED  BY <1>1, <2>1, <2>2 DEF IdsOK, Live
<1> QED  BY <1>4, <1>5

(* A PUBREC is taken. *)
LEMMA ConfirmMoves ==
  ASSUME IndInv, IndInv', NEW f, IdsOK(f), msgQos' = msgQos, NEW o \in Ops, Confirms(o)
  PROVE  IdsOK(f)' /\ Moves(f, f, {o}) /\ msgQos[o] = 2
<1>1. lastId' = lastId /\ lastId \in Nat
  BY LastIdNat DEF Confirms, SameIds
<1>2. \A p \in Ops : p # o => Kept(p)
  BY DEF Confirms, Others
<1>3. \A p \in Ops : op[p].acked => op[p].st = "published"
  BY DEF IndInv, StepInv, OpsInv, FieldsOfStates
<1>4. o \in Published /\ op[o].st = "published" /\ o \in Live
  BY LiveParts DEF Confirms, Published
<1>5. msgQos[o] = 2
  BY <1>4 DEF Confirms, IdsOK
<1>6. Moves(f, f, {o})
  <2>1. ASSUME NEW p \in Ops
        PROVE  /\ op[p].st = "gone" => op'[p].st = "gone"
               /\ op[p].st = "published" => op'[p].st \in {"published", "gone"}
               /\ op'[p].st = "published" => op[p].st \in {"published", "paused", "prepared"}
               /\ op[p].st = "published" /\ op'[p].st = "published" =>
                     (op'[p].acked <=> op[p].acked \/ p \in {o})
               /\ op'[p].acked => op[p].st = "published" /\ op'[p].st = "published"
    BY <1>2, <1>3, <1>4 DEF Kept, Confirms
  <2> QED  BY <1>1, <1>3, <2>1 DEF Moves
<1>7. IdsOK(f)'
  <2>1. ASSUME NEW p \in Ops
        PROVE  /\ op'[p].st \in {"none", "prepared"} => f[p] = 0 /\ lastId < p
               /\ op'[p].st \in {"paused", "published"} => op'[p].id = f[p] /\ f[p] # 0
               /\ p \in Live' => op'[p].qos = msgQos[p]
               /\ op'[p].acked => msgQos[p] = 2
    <3>1. CASE p # o
      BY <1>2, <3>1 DEF Kept, IdsOK, Live
    <3>2. CASE p = o
      BY <1>4, <1>5, <3>2 DEF Confirms, IdsOK
    <3> QED  BY <3>1, <3>2
  <2>2. allocated' \subseteq 1 .. lastId
    BY DEF Confirms, SameIds, IdsOK
  <2> QED  BY <1>1, <2>1, <2>2 DEF IdsOK, Live
<1> QED  BY <1>5, <1>6, <1>7

(* A prepared operation gets the next packet id. *)
Named(f, o) == [f EXCEPT ![o] = lastId + 1]

(* A new packet id. *)
LEMMA NewIdMoves ==
  ASSUME IndInv, IndInv', OrderInv, NEW f, IdsOK(f), msgQos' = msgQos, NEW o \in Ops,
         op[o].st = "prepared", NewId(o), Others(o), ~op'[o].acked,
         op'[o].qos = op[o].qos, op'[o].st \in {"paused", "published"},
         NEW g, g = Named(f, o)
  PROVE  IdsOK(g)' /\ Moves(f, g, {}) /\ g[o] = lastId + 1
<1>1. lastId' = lastId + 1 /\ lastId \in Nat /\ lastId' \in Nat
  BY LastIdNat DEF NewId
<1>2. \A p \in Ops : p # o => Kept(p)
  BY DEF Others
<1>3. \A p \in Ops : op[p].acked => op[p].st = "published"
  BY DEF IndInv, StepInv, OpsInv, FieldsOfStates
<1>4. f \in [Ops -> 0 .. lastId] /\ f[o] = 0 /\ lastId < o
  BY DEF IdsOK
<1>5. g[o] = lastId + 1 /\ \A p \in Ops : p # o => g[p] = f[p]
  BY <1>4 DEF Named
<1>6. g \in [Ops -> 0 .. lastId']
  BY <1>1, <1>4 DEF Named
<1>7. Moves(f, g, {})
  <2>1. ASSUME NEW p \in Ops
        PROVE  /\ op[p].st = "gone" => op'[p].st = "gone"
               /\ op[p].st = "published" => op'[p].st \in {"published", "gone"}
               /\ op'[p].st = "published" => op[p].st \in {"published", "paused", "prepared"}
               /\ op[p].st = "published" /\ op'[p].st = "published" =>
                     (op'[p].acked <=> op[p].acked \/ p \in {})
               /\ op'[p].acked => op[p].st = "published" /\ op'[p].st = "published"
    BY <1>2, <1>3 DEF Kept
  <2>2. \A p \in Ops : \/ g[p] = f[p]
                       \/ f[p] = 0 /\ g[p] > lastId /\ op[p].st = "prepared"
    BY <1>1, <1>4, <1>5
  <2> QED  BY <1>1, <1>3, <2>1, <2>2 DEF Moves
<1>8. o \in PreparedOps /\ o \in Live
  BY DEF PreparedOps, Live
<1>9. ASSUME NEW p \in Ops
      PROVE  /\ op'[p].st \in {"none", "prepared"} => g[p] = 0 /\ lastId' < p
             /\ op'[p].st \in {"paused", "published"} => op'[p].id = g[p] /\ g[p] # 0
             /\ p \in Live' => op'[p].qos = msgQos[p]
             /\ op'[p].acked => msgQos[p] = 2
  <2>1. CASE p = o
    BY <1>1, <1>5, <1>8, <2>1 DEF NewId, IdsOK
  <2>2. CASE p # o
    <3>1. Kept(p) /\ g[p] = f[p]
      BY <1>2, <1>5, <2>2
    <3>2. op[p].st \in {"none", "prepared"} => o < p
      BY <1>8, <2>2, Unborn
    <3>3. o \in Int /\ p \in Int
      BY OpsAreInts
    <3>4. op[p].st \in {"none", "prepared"} => lastId' < p
      BY <1>1, <1>4, <3>2, <3>3
    <3> QED  BY <3>1, <3>4 DEF Kept, IdsOK, Live
  <2> QED  BY <2>1, <2>2
<1>10. \A p, q \in Ops : g[p] = g[q] /\ g[p] # 0 => p = q
  <2>1. \A p \in Ops : f[p] # lastId + 1
    BY <1>1, <1>4
  <2> QED  BY <1>5, <2>1 DEF IdsOK
<1>11. allocated' \subseteq 1 .. lastId'
  <2>1. allocated \subseteq 1 .. lastId /\ allocated' \subseteq allocated \cup {lastId + 1}
    BY DEF NewId, IdsOK
  <2> QED  BY <1>1, <2>1
<1>12. IdsOK(g)'
  BY <1>6, <1>9, <1>10, <1>11 DEF IdsOK, Live
<1> QED  BY <1>5, <1>7, <1>12

(* A waiting operation is transmitted. *)
LEMMA ResumeMoves ==
  ASSUME IndInv, IndInv', NEW f, IdsOK(f), msgQos' = msgQos, NEW o \in Ops,
         op[o].st = "paused", op'[o].id = op[o].id, SameIds, Others(o), ~op'[o].acked,
         op'[o].qos = op[o].qos, op'[o].st = "published"
  PROVE  IdsOK(f)' /\ Moves(f, f, {})
<1>1. lastId' = lastId /\ lastId \in Nat
  BY LastIdNat DEF SameIds
<1>2. \A p \in Ops : p # o => Kept(p)
  BY DEF Others
<1>3. \A p \in Ops : op[p].acked => op[p].st = "published"
  BY DEF IndInv, StepInv, OpsInv, FieldsOfStates
<1>4. Moves(f, f, {})
  <2>1. ASSUME NEW p \in Ops
        PROVE  /\ op[p].st = "gone" => op'[p].st = "gone"
               /\ op[p].st = "published" => op'[p].st \in {"published", "gone"}
               /\ op'[p].st = "published" => op[p].st \in {"published", "paused", "prepared"}
               /\ op[p].st = "published" /\ op'[p].st = "published" =>
                     (op'[p].acked <=> op[p].acked \/ p \in {})
               /\ op'[p].acked => op[p].st = "published" /\ op'[p].st = "published"
    BY <1>2, <1>3 DEF Kept
  <2> QED  BY <1>1, <1>3, <2>1 DEF Moves
<1>5. IdsOK(f)'
  <2>1. ASSUME NEW p \in Ops
        PROVE  /\ op'[p].st \in {"none", "prepared"} => f[p] = 0 /\ lastId < p
               /\ op'[p].st \in {"paused", "published"} => op'[p].id = f[p] /\ f[p] # 0
               /\ p \in Live' => op'[p].qos = msgQos[p]
               /\ op'[p].acked => msgQos[p] = 2
    <3>1. CASE p # o
      BY <1>2, <3>1 DEF Kept, IdsOK, Live
    <3>2. CASE p = o
      BY <3>2 DEF IdsOK, Live
    <3> QED  BY <3>1, <3>2
  <2>2. allocated' \subseteq 1 .. lastId
    BY DEF SameIds, IdsOK
  <2> QED  BY <1>1, <2>1, <2>2 DEF IdsOK, Live
<1> QED  BY <1>4, <1>5

------------------------------------------------------------------------------
(* What the broker holds and what is on its way, when operations move on. *)

Frame == UNCHANGED <<heldAs, delivered, early, msgQos>>

(* What the broker holds. *)
LEMMA HeldKept ==
  ASSUME NEW f, NEW g, NEW a, IdsOK(f), HeldOK(f), Moves(f, g, a), Frame
  PROVE  HeldOK(g)'
<1>1. \A m \in Ops : f[m] # 0 => g[m] = f[m]
  BY DEF Moves
<1>2. ASSUME NEW m \in Ops, delivered[m] > 0
      PROVE  op'[m].st \in {"published", "gone"}
  BY <1>2 DEF HeldOK, Moves
<1>3. ASSUME NEW m \in Ops, NEW id \in PacketIds, heldAs[id] = m
      PROVE  g[m] = id /\ id # 0 /\ msgQos[m] = 2 /\ delivered[m] > 0
  BY <1>1, <1>3 DEF HeldOK
<1>4. ASSUME NEW m \in Ops, op'[m].st = "published", msgQos[m] = 2, ~op'[m].acked,
             delivered[m] > 0, m \notin early
      PROVE  heldAs[g[m]] = m
  <2>1. op[m].st = "published"
    BY <1>4 DEF HeldOK, Moves
  <2>2. ~op[m].acked
    BY <1>4, <2>1 DEF Moves
  <2>3. g[m] = f[m]
    BY <1>1, <2>1 DEF IdsOK
  <2> QED  BY <1>4, <2>1, <2>2, <2>3 DEF HeldOK
<1> QED  BY <1>2, <1>3, <1>4 DEF HeldOK, Frame

(* What was completed stays. *)
LEMMA DoneKept ==
  ASSUME NEW f, NEW g, NEW a, DoneOK, Moves(f, g, a),
         \A m \in completed' : m \in completed \/ (m \in Ops /\ op'[m].st = "gone")
  PROVE  DoneOK'
BY DEF DoneOK, Moves

(* A PUBLISH on its way. *)
LEMMA PublishKept ==
  ASSUME NEW f, NEW g, NEW a, Moves(f, g, a), Frame, NEW p, PublishOK(f, p),
         p.qos = 2 => p.msg \notin completed' /\ (p.msg \in a => heldAs[p.id] = p.msg)
  PROVE  PublishOK(g, p)'
<1>1. p.msg \in Ops /\ g[p.msg] = f[p.msg]
  BY DEF PublishOK, Moves
<1>2. op'[p.msg].st \in {"published", "gone"}
  BY <1>1 DEF PublishOK, Moves
<1>3. ASSUME p.qos = 2, op'[p.msg].acked PROVE heldAs[p.id] = p.msg
  BY <1>1, <1>3 DEF PublishOK, Moves
<1> QED  BY <1>1, <1>2, <1>3 DEF PublishOK, Frame

(* A PUBREL on its way. *)
LEMMA PubrelKept ==
  ASSUME NEW f, NEW g, NEW a, Moves(f, g, a), Frame, NEW p, PubrelOK(f, p)
  PROVE  PubrelOK(g, p)'
<1>1. p.id \in 1 .. lastId' /\ p.id \in 1 .. lastId /\ p.id # 0
  BY DEF PubrelOK, Moves
<1>2. ASSUME NEW m \in Ops, g[m] = p.id
      PROVE  msgQos[m] = 2 /\ (op'[m].st # "gone" => op'[m].acked)
  <2>1. f[m] = p.id
    BY <1>1, <1>2 DEF Moves
  <2>2. msgQos[m] = 2 /\ (op[m].st # "gone" => op[m].acked)
    BY <2>1 DEF PubrelOK
  <2>3. ASSUME op'[m].st # "gone" PROVE op'[m].acked
    <3>1. op[m].st # "gone" /\ op[m].acked
      BY <2>2, <2>3 DEF Moves
    <3>2. op[m].st = "published"
      BY <3>1 DEF Moves
    <3> QED  BY <2>3, <3>1, <3>2 DEF Moves
  <2> QED  BY <2>2, <2>3
<1> QED  BY <1>1, <1>2 DEF PubrelOK, Frame

(* Answers on their way: their packet ids keep their messages. *)
LEMMA AnswerIds ==
  ASSUME NEW f, NEW g, NEW a, Moves(f, g, a), NEW id \in 1 .. lastId
  PROVE  id \in 1 .. lastId' /\ \A m \in Ops : g[m] = id => f[m] = id
BY DEF Moves

(* A PUBACK. *)
LEMMA PubackKept ==
  ASSUME NEW f, NEW g, NEW a, Moves(f, g, a), Frame, NEW p, p.id \in 1 .. lastId,
         PubackOK(f, p)
  PROVE  PubackOK(g, p)'
BY AnswerIds DEF PubackOK, Frame

(* A PUBREC; e is the packet that enters the other channel. *)
LEMMA PubrecKept ==
  ASSUME NEW f, NEW g, NEW a, IdsOK(f), HeldOK(f), Moves(f, g, a), Frame,
         NEW p, p.id \in 1 .. lastId, PubrecOK(f, p),
         \A i \in DOMAIN toBroker' :
            toBroker'[i].type = "PUBLISH" /\ toBroker'[i].id = p.id
               => \/ \E j \in DOMAIN toBroker : toBroker'[i] = toBroker[j]
                  \/ p.code = "success" => heldAs[p.id] = toBroker'[i].msg
  PROVE  PubrecOK(g, p)'
<1>1. ASSUME NEW m \in Ops, g[m] = p.id
      PROVE  /\ msgQos[m] = 2
             /\ p.code = "success" =>
                   /\ delivered[m] > 0
                   /\ op'[m].st = "published" /\ ~op'[m].acked => heldAs[p.id] = m
  <2>1. f[m] = p.id
    BY <1>1, AnswerIds
  <2>2. /\ msgQos[m] = 2
        /\ p.code = "success" =>
              /\ delivered[m] > 0
              /\ op[m].st = "published" /\ ~op[m].acked => heldAs[p.id] = m
    BY <2>1 DEF PubrecOK
  <2>3. ASSUME delivered[m] > 0, op'[m].st = "published", ~op'[m].acked
        PROVE  op[m].st = "published" /\ ~op[m].acked
    BY <2>3 DEF HeldOK, Moves
  <2> QED  BY <2>2, <2>3
<1>2. ASSUME p.code = "success", NEW i \in DOMAIN toBroker',
             toBroker'[i].type = "PUBLISH", toBroker'[i].id = p.id
      PROVE  heldAs[p.id] = toBroker'[i].msg
  BY <1>2 DEF PubrecOK
<1> QED  BY <1>1, <1>2 DEF PubrecOK, Frame

(* A PUBCOMP. *)
LEMMA PubcompKept ==
  ASSUME NEW f, NEW g, NEW a, Moves(f, g, a), Frame,
         NEW p, p.id \in 1 .. lastId, PubcompOK(f, p),
         \A i \in DOMAIN toBroker' :
            toBroker'[i].type = "PUBLISH"
               => \/ \E j \in DOMAIN toBroker : toBroker'[i] = toBroker[j]
                  \/ toBroker'[i].id # p.id
  PROVE  PubcompOK(g, p)'
<1>1. ASSUME NEW m \in Ops, g[m] = p.id
      PROVE  msgQos[m] = 2 /\ (op'[m].st # "gone" => op'[m].acked)
  <2>1. f[m] = p.id
    BY <1>1, AnswerIds
  <2>2. msgQos[m] = 2 /\ (op[m].st # "gone" => op[m].acked)
    BY <2>1 DEF PubcompOK
  <2>3. ASSUME op'[m].st # "gone" PROVE op'[m].acked
    <3>1. op[m].st # "gone" /\ op[m].acked
      BY <2>2, <2>3 DEF Moves
    <3>2. op[m].st = "published"
      BY <3>1 DEF Moves
    <3> QED  BY <2>3, <3>1, <3>2 DEF Moves
  <2> QED  BY <2>2, <2>3
<1> QED  BY <1>1 DEF PubcompOK, Frame

(* The packets to the broker stay, and e may follow them. *)
Follows(e) ==
    /\ e \in BrokerPackets
    /\ toBroker' = toBroker \/ toBroker' = Append(toBroker, e)

(* Nothing comes to the client but what was on its way. *)
Takes ==
    /\ toClient' \in Seq(Answer \cup Connacks)
    /\ \A i \in DOMAIN toClient' : \E j \in DOMAIN toClient : toClient'[i] = toClient[j]

(* A message in a channel is not forgotten with what is confirmed or completed. *)
Settled(a) ==
    \A i \in DOMAIN toBroker :
        toBroker[i].type = "PUBLISH" /\ toBroker[i].qos = 2 =>
            /\ toBroker[i].msg \notin completed'
            /\ toBroker[i].msg \in a => heldAs[toBroker[i].id] = toBroker[i].msg

(* The new packet fits to the ones before it and to the answers on their way. *)
FitsIn(g, e) ==
    /\ e.type = "PUBLISH" =>
          /\ PublishOK(g, e)'
          /\ \A i \in DOMAIN toBroker : toBroker[i].type = "PUBREL" => toBroker[i].id # e.id
          /\ \A i \in DOMAIN toClient :
                /\ toClient[i].type = "PUBREC" /\ toClient[i].code = "success"
                   /\ toClient[i].id = e.id => heldAs[e.id] = e.msg
                /\ toClient[i].type = "PUBCOMP" => toClient[i].id # e.id
    /\ e.type = "PUBREL" => PubrelOK(g, e)'

(* Where the packets after the step come from. *)
LEMMA FollowsFacts ==
  ASSUME toBroker \in Seq(BrokerPackets), NEW e, Follows(e)
  PROVE  /\ toBroker' \in Seq(BrokerPackets)
         /\ \A i \in DOMAIN toBroker' :
               \/ i \in DOMAIN toBroker /\ toBroker'[i] = toBroker[i]
               \/ /\ i \notin DOMAIN toBroker /\ toBroker'[i] = e
                  /\ \A j \in DOMAIN toBroker' : j <= i
                  /\ toBroker' = Append(toBroker, e)
         /\ DOMAIN toBroker \subseteq Nat /\ DOMAIN toBroker' \subseteq Nat
<1>1. /\ Append(toBroker, e) \in Seq(BrokerPackets) /\ Len(toBroker) \in Nat
      /\ DOMAIN toBroker = 1 .. Len(toBroker)
      /\ DOMAIN Append(toBroker, e) = 1 .. Len(toBroker) + 1
      /\ Append(toBroker, e)[Len(toBroker) + 1] = e
      /\ \A i \in DOMAIN toBroker : Append(toBroker, e)[i] = toBroker[i]
  BY AppendFacts DEF Follows
<1>2. CASE toBroker' = toBroker
  <2>1. DOMAIN toBroker' = DOMAIN toBroker
    BY <1>2
  <2>2. \A i \in DOMAIN toBroker' : i \in DOMAIN toBroker /\ toBroker'[i] = toBroker[i]
    BY <1>2
  <2>3. 1 .. Len(toBroker) \subseteq Nat
    BY <1>1
  <2> QED  BY <1>1, <1>2, <2>1, <2>2, <2>3
<1>3. CASE toBroker' = Append(toBroker, e)
  BY <1>1, <1>3
<1> QED  BY <1>2, <1>3 DEF Follows

(* The channel to the broker. *)
LEMMA ToBrokerKept ==
  ASSUME NEW f, NEW g, NEW a, Moves(f, g, a), Frame, ToBrokerOK(f), Settled(a),
         NEW e, Follows(e), FitsIn(g, e)
  PROVE  ToBrokerOK(g)'
<1>1. /\ toBroker' \in Seq(BrokerPackets)
      /\ \A i \in DOMAIN toBroker' :
            \/ i \in DOMAIN toBroker /\ toBroker'[i] = toBroker[i]
            \/ /\ i \notin DOMAIN toBroker /\ toBroker'[i] = e
               /\ \A j \in DOMAIN toBroker' : j <= i
               /\ toBroker' = Append(toBroker, e)
      /\ DOMAIN toBroker \subseteq Nat /\ DOMAIN toBroker' \subseteq Nat
  BY FollowsFacts DEF ToBrokerOK
<1>2. ASSUME NEW i \in DOMAIN toBroker', toBroker'[i].type = "PUBLISH"
      PROVE  PublishOK(g, toBroker[i])'
  <2>1. CASE i \in DOMAIN toBroker /\ toBroker'[i] = toBroker[i]
    <3> DEFINE p == toBroker[i]
    <3>1. PublishOK(f, p)
      BY <1>2, <2>1 DEF ToBrokerOK
    <3>2. p.qos = 2 => p.msg \notin completed' /\ (p.msg \in a => heldAs[p.id] = p.msg)
      BY <1>2, <2>1 DEF Settled
    <3>3. ASSUME NEW q, q = p PROVE PublishOK(g, q)'
      BY <3>1, <3>2, <3>3, PublishKept
    <3>4. PICK q : q = p
      OBVIOUS
    <3> QED  BY <2>1, <3>3, <3>4 DEF PublishOK
  <2>2. CASE toBroker'[i] = e
    BY <1>2, <2>2 DEF FitsIn, PublishOK
  <2> QED  BY <1>1, <2>1, <2>2
<1>3. ASSUME NEW i \in DOMAIN toBroker', toBroker'[i].type = "PUBREL"
      PROVE  PubrelOK(g, toBroker[i])'
  <2>1. CASE i \in DOMAIN toBroker /\ toBroker'[i] = toBroker[i]
    <3> DEFINE p == toBroker[i]
    <3>1. PubrelOK(f, p)
      BY <1>3, <2>1 DEF ToBrokerOK
    <3>3. ASSUME NEW q, q = p PROVE PubrelOK(g, q)'
      BY <3>1, <3>3, PubrelKept
    <3>4. PICK q : q = p
      OBVIOUS
    <3> QED  BY <2>1, <3>3, <3>4 DEF PubrelOK
  <2>2. CASE toBroker'[i] = e
    BY <1>3, <2>2 DEF FitsIn, PubrelOK
  <2> QED  BY <1>1, <2>1, <2>2
<1>4. ASSUME NEW i \in DOMAIN toBroker', NEW j \in DOMAIN toBroker', i < j,
             toBroker'[i].type = "PUBREL", toBroker'[j].type = "PUBLISH"
      PROVE  toBroker'[i].id # toBroker'[j].id
  <2>1. i \in DOMAIN toBroker /\ toBroker'[i] = toBroker[i]
    BY <1>1, <1>4
  <2>2. CASE j \in DOMAIN toBroker /\ toBroker'[j] = toBroker[j]
    BY <1>4, <2>1, <2>2 DEF ToBrokerOK
  <2>3. CASE toBroker'[j] = e
    BY <1>4, <2>1, <2>3 DEF FitsIn
  <2> QED  BY <1>1, <2>2, <2>3
<1> QED  BY <1>1, <1>2, <1>3, <1>4 DEF ToBrokerOK

(* The channel to the client. *)
LEMMA ToClientKept ==
  ASSUME NEW f, NEW g, NEW a, IdsOK(f), HeldOK(f), Moves(f, g, a), Frame,
         ToBrokerOK(f), ToClientOK(f), NEW e, Follows(e), FitsIn(g, e), Takes
  PROVE  ToClientOK(g)'
<1>1. \A i \in DOMAIN toBroker' :
            \/ i \in DOMAIN toBroker /\ toBroker'[i] = toBroker[i]
            \/ toBroker'[i] = e
  BY FollowsFacts DEF ToBrokerOK
<1>2. ASSUME NEW q, NEW j \in DOMAIN toClient, q = toClient[j]
      PROVE  /\ q.type # "CONNACK" => q.id \in 1 .. lastId'
             /\ q.type = "PUBACK" => PubackOK(g, q)'
             /\ q.type = "PUBREC" => PubrecOK(g, q)'
             /\ q.type = "PUBCOMP" => PubcompOK(g, q)'
  <2>1. /\ q.type # "CONNACK" => q.id \in 1 .. lastId
        /\ q.type = "PUBACK" => PubackOK(f, q)
        /\ q.type = "PUBREC" => PubrecOK(f, q)
        /\ q.type = "PUBCOMP" => PubcompOK(f, q)
    BY <1>2 DEF ToClientOK
  <2>2. q.type # "CONNACK" => q.id \in 1 .. lastId'
    BY <2>1, AnswerIds
  <2>3. q.type = "PUBACK" => PubackOK(g, q)'
    BY <2>1, PubackKept
  <2>4. ASSUME q.type = "PUBREC" PROVE PubrecOK(g, q)'
    <3>1. \A i \in DOMAIN toBroker' :
             toBroker'[i].type = "PUBLISH" /\ toBroker'[i].id = q.id
                => \/ \E k \in DOMAIN toBroker : toBroker'[i] = toBroker[k]
                   \/ q.code = "success" => heldAs[q.id] = toBroker'[i].msg
      BY <1>1, <1>2, <2>4 DEF FitsIn
    <3> QED  BY <2>1, <2>4, <3>1, PubrecKept
  <2>5. ASSUME q.type = "PUBCOMP" PROVE PubcompOK(g, q)'
    <3>1. \A i \in DOMAIN toBroker' :
             toBroker'[i].type = "PUBLISH"
                => \/ \E k \in DOMAIN toBroker : toBroker'[i] = toBroker[k]
                   \/ toBroker'[i].id # q.id
      BY <1>1, <1>2, <2>5 DEF FitsIn
    <3> QED  BY <2>1, <2>5, <3>1, PubcompKept
  <2> QED  BY <2>2, <2>3, <2>4, <2>5
<1>3. ASSUME NEW i \in DOMAIN toClient'
      PROVE  /\ toClient'[i].type # "CONNACK" => toClient'[i].id \in 1 .. lastId'
             /\ toClient'[i].type = "PUBACK" => PubackOK(g, toClient[i])'
             /\ toClient'[i].type = "PUBREC" => PubrecOK(g, toClient[i])'
             /\ toClient'[i].type = "PUBCOMP" => PubcompOK(g, toClient[i])'
  <2>1. PICK j \in DOMAIN toClient : toClient'[i] = toClient[j]
    BY DEF Takes
  <2>2. PICK q : q = toClient[j]
    OBVIOUS
  <2>3. /\ q.type # "CONNACK" => q.id \in 1 .. lastId'
        /\ q.type = "PUBACK" => PubackOK(g, q)'
        /\ q.type = "PUBREC" => PubrecOK(g, q)'
        /\ q.type = "PUBCOMP" => PubcompOK(g, q)'
    BY <1>2, <2>2
  <2>4. toClient'[i] = q
    BY <2>1, <2>2
  <2>5. toClient'[i].type = "PUBACK" => PubackOK(g, toClient[i])'
    BY <2>3, <2>4 DEF PubackOK
  <2>6. toClient'[i].type = "PUBREC" => PubrecOK(g, toClient[i])'
    BY <2>3, <2>4 DEF PubrecOK
  <2>7. toClient'[i].type = "PUBCOMP" => PubcompOK(g, toClient[i])'
    BY <2>3, <2>4 DEF PubcompOK
  <2> QED  BY <2>3, <2>4, <2>5, <2>6, <2>7
<1> QED  BY <1>3 DEF ToClientOK, Takes

(* A step of the client keeps what relates it to the broker. *)
LEMMA ClientKeeps ==
  ASSUME NEW f, NEW g, NEW a, CoreOK(f), IdsOK(g)', Moves(f, g, a), Frame,
         Settled(a), NEW e, Follows(e), FitsIn(g, e), Takes,
         \A m \in completed' : m \in completed \/ (m \in Ops /\ op'[m].st = "gone")
  PROVE  CoreOK(g)'
<1>1. HeldOK(g)'
  BY HeldKept DEF CoreOK
<1>2. DoneOK'
  BY DoneKept DEF CoreOK
<1>3. ToBrokerOK(g)'
  BY ToBrokerKept DEF CoreOK
<1>4. ToClientOK(g)'
  BY ToClientKept DEF CoreOK
<1> QED  BY <1>1, <1>2, <1>3, <1>4 DEF CoreOK

------------------------------------------------------------------------------
(* The kinds of steps of the client, one by one. *)

Sent(type, o, id, q) == [type |-> type, id |-> id, msg |-> o, qos |-> q]

(* What the channel to the broker takes. *)
LEMMA TransmitsFacts ==
  ASSUME NEW before, NEW answered, Transmits(before, answered)
  PROVE  /\ out'.type = "none" => toBroker' = before
         /\ out'.type # "none" /\ out'.op = 0 =>
               toBroker' = Append(before, Sent(out'.type, 0, answered, 0))
         /\ out'.type # "none" /\ out'.op # 0 =>
               toBroker' = Append(before, Sent(out'.type, out'.op, op'[out'.op].id,
                                               msgQos[out'.op]))
BY DEF Transmits, Sent

(* The fields of what it takes. *)
LEMMA SentFields ==
  ASSUME NEW type \in {"CONNECT", "PUBLISH", "PUBREL", "DISCONNECT"},
         NEW o \in 0 .. MaxOps, NEW id \in PacketIds, NEW q \in 0 .. 2
  PROVE  /\ Sent(type, o, id, q) \in BrokerPackets
         /\ Sent(type, o, id, q).type = type /\ Sent(type, o, id, q).msg = o
         /\ Sent(type, o, id, q).id = id /\ Sent(type, o, id, q).qos = q
BY DEF Sent, BrokerPackets

(* The types used below. *)
LEMMA SmallTypes ==
  ASSUME FewMessages, IndInv, NEW f, IdsOK(f)
  PROVE  /\ 0 \in PacketIds /\ 0 \in 0 .. MaxOps
         /\ \A o \in Ops : o \in 0 .. MaxOps /\ o # 0 /\ op[o].id \in PacketIds
                           /\ op[o] \in Op /\ op[o].acked \in BOOLEAN
         /\ \A o \in Ops : msgQos[o] \in {1, 2} /\ msgQos[o] \in 0 .. 2
         /\ lastId \in Nat /\ lastId \in PacketIds
         /\ 1 .. lastId \subseteq PacketIds
         /\ \A o \in Ops : f[o] # 0 => f[o] \in 1 .. lastId
<1>1. MaxOps \in Nat /\ MaxPacketId \in Nat
  BY SendOpsAssumption, PacketIdAssumption
<1>2. lastId \in PacketIds /\ op \in [Ops -> Op]
  BY DEF IndInv, RestTypeOK, StepInv, OpsInv, OpsTypeOK
<1>3. \A o \in Ops : o \in 0 .. MaxOps /\ o # 0
  BY <1>1 DEF Ops
<1>4. \A o \in Ops : op[o].id \in PacketIds /\ op[o].acked \in BOOLEAN /\ op[o] \in Op
  BY <1>2 DEF Op
<1>5. lastId \in Nat /\ 1 .. lastId \subseteq PacketIds
  BY <1>1, <1>2 DEF PacketIds
<1>6. \A o \in Ops : f[o] # 0 => f[o] \in 1 .. lastId
  BY <1>5 DEF IdsOK
<1>7. \A o \in Ops : msgQos[o] \in {1, 2}
  BY DEF IdsOK, FewMessages
<1>8. 0 \in PacketIds /\ 0 \in 0 .. MaxOps
  BY <1>1 DEF PacketIds
<1> QED  BY <1>2, <1>3, <1>4, <1>5, <1>6, <1>7, <1>8

(* Nothing is transmitted for an operation. *)
LEMMA SilentCore ==
  ASSUME FewMessages, IndInv, IndInv', NEW f, CoreOK(f), Frame, Silent, Settled({}), Takes,
         NEW answered \in PacketIds, Transmits(toBroker, answered),
         \A m \in completed' : m \in completed \/ (m \in Ops /\ op'[m].st = "gone")
  PROVE  CoreOK(f)' /\ Moves(f, f, {})
<1>1. IdsOK(f) /\ msgQos' = msgQos /\ Shrinks
  BY DEF CoreOK, Frame, Silent, Shrinks
<1>2. IdsOK(f)' /\ Moves(f, f, {})
  BY <1>1, ShrinkMoves
<1>3. 0 \in PacketIds /\ 0 \in 0 .. MaxOps /\ 0 \in 0 .. 2
  BY <1>1, SmallTypes
<1>4. CASE out'.type = "none"
  <2> DEFINE e == Sent("DISCONNECT", 0, 0, 0)
  <2>1. e \in BrokerPackets /\ e.type = "DISCONNECT"
    BY <1>3, SentFields
  <2>2. toBroker' = toBroker
    BY <1>4, TransmitsFacts
  <2> HIDE DEF e
  <2>3. Follows(e) /\ FitsIn(f, e)
    BY <2>1, <2>2 DEF Follows, FitsIn
  <2> QED  BY <1>2, <2>3, ClientKeeps
<1>5. CASE out'.type # "none"
  <2> DEFINE e == Sent(out'.type, 0, answered, 0)
  <2>1. out'.type \in {"CONNECT", "DISCONNECT"} /\ out'.op = 0
    BY <1>5 DEF Silent
  <2>2. toBroker' = Append(toBroker, e)
    BY <1>5, <2>1, TransmitsFacts
  <2>3. e \in BrokerPackets /\ e.type \in {"CONNECT", "DISCONNECT"}
    BY <1>3, <2>1, SentFields
  <2>4. PICK x : x = e
    OBVIOUS
  <2> HIDE DEF e
  <2>5. Follows(x) /\ FitsIn(f, x)
    BY <2>2, <2>3, <2>4 DEF Follows, FitsIn
  <2> QED  BY <1>2, <2>5, ClientKeeps
<1> QED  BY <1>4, <1>5

(* An operation is prepared. *)
LEMMA PrepareCore ==
  ASSUME FewMessages, IndInv, IndInv', NEW f, CoreOK(f), Frame, NEW o \in Ops, Prepares(o),
         toClient' = toClient, completed' = completed, Transmits(toBroker, None)
  PROVE  CoreOK(f)' /\ Moves(f, f, {})
<1>1. IdsOK(f) /\ msgQos' = msgQos
  BY DEF CoreOK, Frame
<1>2. IdsOK(f)' /\ Moves(f, f, {})
  BY <1>1, PrepareMoves
<1>3. 0 \in PacketIds /\ 0 \in 0 .. MaxOps /\ 0 \in 0 .. 2
  BY <1>1, SmallTypes
<1> DEFINE e == Sent("DISCONNECT", 0, 0, 0)
<1>4. e \in BrokerPackets /\ e.type = "DISCONNECT"
  BY <1>3, SentFields
<1>5. toBroker' = toBroker
  BY TransmitsFacts, PacketFields DEF Prepares
<1> HIDE DEF e
<1>6. Follows(e) /\ FitsIn(f, e)
  BY <1>4, <1>5 DEF Follows, FitsIn
<1>7. Takes
  BY DEF Takes, CoreOK, ToClientOK
<1>8. Settled({})
  BY DEF Settled, CoreOK, ToBrokerOK, PublishOK
<1> QED  BY <1>2, <1>6, <1>7, <1>8, ClientKeeps

(* Nothing is completed, nothing confirmed. *)
LEMMA SettledSame ==
  ASSUME NEW f, CoreOK(f), completed' = completed
  PROVE  Settled({})
BY DEF Settled, CoreOK, ToBrokerOK, PublishOK

(* A transmitted operation is repeated. *)
LEMMA RepeatCore ==
  ASSUME FewMessages, IndInv, IndInv', NEW f, CoreOK(f), Frame, NEW o \in Ops, Repeats(o),
         toClient' = toClient, completed' = completed, Transmits(toBroker, None)
  PROVE  /\ CoreOK(f)' /\ Moves(f, f, {})
         /\ toBroker' = Append(toBroker, Sent(IF op[o].acked THEN "PUBREL" ELSE "PUBLISH",
                                              o, f[o], msgQos[o]))
<1>1. IdsOK(f) /\ msgQos' = msgQos /\ Shrinks /\ HeldOK(f) /\ ToBrokerOK(f)
      /\ ToClientOK(f) /\ DoneOK
  BY DEF CoreOK, Frame, Repeats, Shrinks
<1>2. IdsOK(f)' /\ Moves(f, f, {})
  BY <1>1, ShrinkMoves
<1>3. Takes /\ Settled({})
  BY SettledSame DEF Takes, CoreOK, ToClientOK
<1>4. o \in Published /\ op[o].st = "published" /\ op[o].id = f[o] /\ f[o] # 0
  BY <1>1 DEF Repeats, Published, IdsOK
<1>5. op'[o].st = "published" /\ op'[o].id = f[o] /\ op'[o].acked = op[o].acked
  BY <1>4 DEF Repeats, Kept
<1>6. /\ o \in 0 .. MaxOps /\ o # 0 /\ f[o] \in 1 .. lastId /\ f[o] \in PacketIds
      /\ msgQos[o] \in 0 .. 2 /\ lastId' = lastId
  BY <1>1, <1>4, SmallTypes DEF Repeats, SameIds
<1> DEFINE t == IF op[o].acked THEN "PUBREL" ELSE "PUBLISH"
<1>7. out'.type = t /\ out'.op = o
  BY DEF Repeats, DupPacket, resendsPublish, Packet
<1>8. toBroker' = Append(toBroker, Sent(t, o, f[o], msgQos[o]))
  BY <1>5, <1>6, <1>7, TransmitsFacts
<1>9. PICK e : e = Sent(t, o, f[o], msgQos[o])
  OBVIOUS
<1>10. e \in BrokerPackets /\ e.type = t /\ e.msg = o /\ e.id = f[o] /\ e.qos = msgQos[o]
  <2>1. t \in {"CONNECT", "PUBLISH", "PUBREL", "DISCONNECT"}
    OBVIOUS
  <2> HIDE DEF t
  <2> QED  BY <1>6, <1>9, <2>1, SentFields
<1>11. Follows(e)
  BY <1>8, <1>9, <1>10 DEF Follows
<1>12. CASE op[o].acked
  <2>1. e.type = "PUBREL"
    BY <1>10, <1>12
  <2>2. msgQos[o] = 2
    BY <1>1, <1>12 DEF IdsOK
  <2>3. ASSUME NEW m \in Ops, f[m] = e.id PROVE m = o
    BY <1>1, <1>4, <1>10, <2>3 DEF IdsOK
  <2>4. PubrelOK(f, e)'
    BY <1>1, <1>5, <1>6, <1>10, <1>12, <2>2, <2>3 DEF PubrelOK
  <2>5. FitsIn(f, e)
    BY <2>1, <2>4 DEF FitsIn
  <2> QED  BY <1>2, <1>3, <1>8, <1>11, <2>5, ClientKeeps
<1>13. CASE ~op[o].acked
  <2>1. e.type = "PUBLISH"
    BY <1>10, <1>13
  <2>2. PublishOK(f, e)'
    <3>1. delivered[o] > 0 /\ o \notin early /\ msgQos[o] = 2 => heldAs[f[o]] = o
      BY <1>1, <1>4, <1>13 DEF HeldOK
    <3>2. o \notin completed
      BY <1>1, <1>4 DEF DoneOK
    <3> QED  BY <1>1, <1>4, <1>5, <1>10, <1>13, <3>1, <3>2 DEF PublishOK, Frame
  <2>3. ASSUME NEW i \in DOMAIN toBroker, toBroker[i].type = "PUBREL"
        PROVE  toBroker[i].id # e.id
    BY <1>1, <1>4, <1>10, <1>13, <2>3 DEF ToBrokerOK, PubrelOK
  <2>4. ASSUME NEW i \in DOMAIN toClient, toClient[i].type = "PUBREC",
               toClient[i].code = "success", toClient[i].id = e.id
        PROVE  heldAs[e.id] = e.msg
    BY <1>1, <1>4, <1>10, <1>13, <2>4 DEF ToClientOK, PubrecOK
  <2>5. ASSUME NEW i \in DOMAIN toClient, toClient[i].type = "PUBCOMP"
        PROVE  toClient[i].id # e.id
    BY <1>1, <1>4, <1>10, <1>13, <2>5 DEF ToClientOK, PubcompOK
  <2>6. FitsIn(f, e)
    BY <2>1, <2>2, <2>3, <2>4, <2>5 DEF FitsIn
  <2> QED  BY <1>2, <1>3, <1>8, <1>11, <2>6, ClientKeeps
<1> QED  BY <1>12, <1>13

(* An operation that starts or waits has a packet id of its own. *)
LEMMA SendMoves ==
  ASSUME FewMessages, IndInv, IndInv', OrderInv, NEW f, IdsOK(f), msgQos' = msgQos,
         NEW o \in Ops, Waits(o) \/ Starts(o)
  PROVE  \E g \in [Ops -> 0 .. lastId'] : IdsOK(g)' /\ Moves(f, g, {})
<1>1. CASE Waits(o) \/ (Starts(o) /\ op[o].st = "prepared")
  <2>1. /\ op[o].st = "prepared" /\ NewId(o) /\ Others(o) /\ ~op'[o].acked
        /\ op'[o].qos = op[o].qos /\ op'[o].st \in {"paused", "published"}
    BY <1>1 DEF Waits, Starts, PreparedOps, OrderInv, NoneSending, Sending
  <2>2. PICK g : g = Named(f, o)
    OBVIOUS
  <2>3. IdsOK(g)' /\ Moves(f, g, {})
    BY <2>1, <2>2, NewIdMoves
  <2>4. g \in [Ops -> 0 .. lastId']
    BY <2>3 DEF IdsOK
  <2> QED  BY <2>3, <2>4
<1>2. CASE Starts(o) /\ op[o].st # "prepared"
  <2>1. /\ op[o].st = "paused" /\ op'[o].id = op[o].id /\ SameIds /\ Others(o)
        /\ ~op'[o].acked /\ op'[o].qos = op[o].qos /\ op'[o].st = "published"
    BY <1>2 DEF Starts
  <2>2. IdsOK(f)' /\ Moves(f, f, {})
    BY <2>1, ResumeMoves
  <2>3. f \in [Ops -> 0 .. lastId']
    BY <2>2 DEF IdsOK
  <2> QED  BY <2>2, <2>3
<1> QED  BY <1>1, <1>2

(* A prepared operation waits. *)
LEMMA WaitCore ==
  ASSUME FewMessages, IndInv, IndInv', NEW f, CoreOK(f), Frame, NEW o \in Ops, Waits(o),
         NEW g, IdsOK(g)', Moves(f, g, {}),
         toClient' = toClient, completed' = completed, Transmits(toBroker, None)
  PROVE  CoreOK(g)' /\ toBroker' = toBroker
<1>1. IdsOK(f)
  BY DEF CoreOK
<1>3. 0 \in PacketIds /\ 0 \in 0 .. MaxOps /\ 0 \in 0 .. 2
  BY <1>1, SmallTypes
<1> DEFINE e == Sent("DISCONNECT", 0, 0, 0)
<1>4. e \in BrokerPackets /\ e.type = "DISCONNECT"
  BY <1>3, SentFields
<1>5. toBroker' = toBroker
  BY TransmitsFacts, PacketFields DEF Waits
<1> HIDE DEF e
<1>6. Follows(e) /\ FitsIn(g, e)
  BY <1>4, <1>5 DEF Follows, FitsIn
<1>7. Takes /\ Settled({})
  BY SettledSame DEF Takes, CoreOK, ToClientOK
<1> QED  BY <1>5, <1>6, <1>7, ClientKeeps

(* An operation is transmitted for the first time. *)
LEMMA StartCore ==
  ASSUME FewMessages, IndInv, IndInv', NEW f, CoreOK(f), Frame, NEW o \in Ops, Starts(o),
         NEW g, IdsOK(g)', Moves(f, g, {}),
         toClient' = toClient, completed' = completed, Transmits(toBroker, None)
  PROVE  /\ CoreOK(g)'
         /\ toBroker' = Append(toBroker, Sent("PUBLISH", o, g[o], msgQos[o]))
         /\ \A i \in DOMAIN toBroker : toBroker[i].type \in {"PUBLISH", "PUBREL"} =>
               toBroker[i].id # g[o]
<1>1. IdsOK(f) /\ HeldOK(f) /\ ToBrokerOK(f) /\ ToClientOK(f) /\ DoneOK
  BY DEF CoreOK
<1>2. op[o].st \in {"prepared", "paused"} /\ ~op[o].acked
  BY DEF Starts, IndInv, StepInv, OpsInv, FieldsOfStates
<1>3. op'[o].st = "published" /\ op'[o].acked = FALSE /\ out' = Packet("PUBLISH", o, FALSE)
  <2>1. op'[o].acked \in BOOLEAN
    BY DEF IndInv, StepInv, OpsInv, OpsTypeOK, Op
  <2> QED  BY <2>1 DEF Starts
<1>4. op'[o].id = g[o] /\ g[o] # 0 /\ op'[o].id \in PacketIds
  BY <1>3 DEF IdsOK, IndInv, StepInv, OpsInv, OpsTypeOK, Op
<1>5. o \in 0 .. MaxOps /\ o # 0 /\ msgQos[o] \in 0 .. 2
  BY <1>1, SmallTypes
<1>6. toBroker' = Append(toBroker, Sent("PUBLISH", o, g[o], msgQos[o]))
  <2>1. out'.type = "PUBLISH" /\ out'.op = o
    BY <1>3 DEF Packet
  <2> QED  BY <1>4, <1>5, <2>1, TransmitsFacts
<1>7. PICK e : e = Sent("PUBLISH", o, g[o], msgQos[o])
  OBVIOUS
<1>8. e \in BrokerPackets /\ e.type = "PUBLISH" /\ e.msg = o /\ e.id = g[o]
      /\ e.qos = msgQos[o]
  BY <1>4, <1>5, <1>7, SentFields
<1>9. ~(delivered[o] > 0) /\ o \notin completed
  BY <1>1, <1>2 DEF HeldOK, DoneOK
<1>10. PublishOK(g, e)'
  BY <1>3, <1>4, <1>8, <1>9 DEF PublishOK, Frame
<1>11. ASSUME NEW id \in 1 .. lastId, id = g[o] PROVE f[o] = id
  BY <1>11, AnswerIds
<1>12. ASSUME NEW i \in DOMAIN toBroker, toBroker[i].type = "PUBREL"
       PROVE  toBroker[i].id # g[o]
  BY <1>1, <1>2, <1>11, <1>12 DEF ToBrokerOK, PubrelOK
<1>13. ASSUME NEW i \in DOMAIN toBroker, toBroker[i].type = "PUBLISH"
       PROVE  toBroker[i].id # g[o]
  <2>1. PublishOK(f, toBroker[i])
    BY <1>1, <1>13 DEF ToBrokerOK
  <2>2. toBroker[i].msg \in Ops /\ toBroker[i].id = f[toBroker[i].msg]
        /\ toBroker[i].id # 0 /\ op[toBroker[i].msg].st \in {"published", "gone"}
    BY <2>1 DEF PublishOK
  <2>3. toBroker[i].id \in 1 .. lastId
    BY <1>1, <2>2, SmallTypes
  <2>4. toBroker[i].msg # o
    BY <1>2, <2>2
  <2> QED  BY <1>1, <1>11, <2>2, <2>3, <2>4 DEF IdsOK
<1>14. ASSUME NEW i \in DOMAIN toClient, toClient[i].type = "PUBREC",
              toClient[i].code = "success", toClient[i].id = e.id
       PROVE  FALSE
  <2>1. toClient[i].id \in 1 .. lastId /\ PubrecOK(f, toClient[i])
    BY <1>1, <1>14 DEF ToClientOK
  <2>2. f[o] = toClient[i].id
    BY <1>8, <1>11, <1>14, <2>1
  <2> QED  BY <1>9, <1>14, <2>1, <2>2 DEF PubrecOK
<1>15. ASSUME NEW i \in DOMAIN toClient, toClient[i].type = "PUBCOMP"
       PROVE  toClient[i].id # e.id
  <2>1. toClient[i].id \in 1 .. lastId /\ PubcompOK(f, toClient[i])
    BY <1>1, <1>15 DEF ToClientOK
  <2> QED  BY <1>2, <1>8, <1>11, <2>1 DEF PubcompOK
<1>16. Follows(e)
  BY <1>6, <1>7, <1>8 DEF Follows
<1>17. FitsIn(g, e)
  BY <1>8, <1>10, <1>12, <1>14, <1>15 DEF FitsIn
<1>18. Takes /\ Settled({})
  BY SettledSame DEF Takes, CoreOK, ToClientOK
<1>19. CoreOK(g)'
  BY <1>16, <1>17, <1>18, ClientKeeps
<1> QED  BY <1>6, <1>12, <1>13, <1>19

------------------------------------------------------------------------------
(* What the client does with a packet of the broker. *)

(* Nothing but a new state of the call or the session. *)
RecvRests == Silent /\ op' = op /\ completed' = completed

(* The operation of an answer ends. *)
RecvEnds(o, p) ==
    /\ Ends(o) /\ op[o].id = p.id
    /\ \/ p.type = "PUBACK" /\ (call'.closing <=> op[o].qos # 1)
       \/ p.type = "PUBCOMP" /\ (call'.closing <=> op[o].qos # 2 \/ ~op[o].acked)
       \/ /\ p.type = "PUBREC" /\ (call'.closing <=> op[o].qos # 2 \/ op[o].acked)
          /\ ~call'.closing => p.code = "error"
    /\ completed' = IF ~call'.closing /\ (p.type = "PUBCOMP" \/ p.code = "success")
                    THEN completed \cup {o} ELSE completed

RecvConfirms(o, p) ==
    /\ Confirms(o) /\ op[o].id = p.id /\ p.type = "PUBREC" /\ p.code = "success"
    /\ completed' = completed /\ ~call'.closing /\ call'.loop = "none"

RecvStrange(p) ==
    /\ Strange /\ op' = op /\ p.type = "PUBREC" /\ Found(p) = {}
    /\ completed' = completed /\ ~call'.closing /\ call'.loop = "none"

(* The operations that leave with an answer. *)
LEMMA DroppedEnds ==
  ASSUME NEW o \in Ops, Others(o), IndInv
  PROVE  /\ op'[o].st = "gone" /\ o \in Published => Dropped = {o}
         /\ op'[o].st # "gone" => Dropped = {}
<1>1. \A p \in Ops : p # o /\ p \in Published => op'[p].st # "gone"
  BY DEF Others, Kept, Published
<1>2. \A p \in Dropped : p \in Ops /\ p \in Published /\ op'[p].st = "gone"
  BY OpsAreInts DEF Dropped
<1>3. \A p \in Dropped : p = o
  BY <1>1, <1>2
<1>4. op'[o].st = "gone" /\ o \in Published => o \in Dropped
  BY DEF Dropped
<1> QED  BY <1>2, <1>3, <1>4

(* Nothing leaves when the operations stay as they are. *)
LEMMA DroppedNone ==
  ASSUME op' = op
  PROVE  Dropped = {}
BY DEF Dropped, Published

(* Every packet of the broker is one of these. *)
LEMMA RecvCases ==
  ASSUME IndInv, toClient \in Seq(Answer \cup Connacks), ClientRecv,
         NEW p, p = Head(toClient)
  PROVE  \/ RecvRests
         \/ \E o \in Ops : RecvEnds(o, p)
         \/ \E o \in Ops : RecvConfirms(o, p)
         \/ RecvStrange(p)
<1>1. /\ toClient # <<>> /\ Handle(p)
      /\ completed' = completed \cup {o \in Dropped :
            ~call'.closing /\ (p.type = "PUBCOMP" \/ p.code = "success")}
  BY DEF ClientRecv
<1>2. p \in Answer \cup Connacks
  BY <1>1, TailFacts
<1>3. ASSUME Silent, op' = op PROVE RecvRests
  BY <1>1, <1>3, DroppedNone DEF RecvRests
<1>4. CASE Ignored
  BY <1>3, <1>4, RestingClass
<1>5. CASE p.type = "CONNACK" /\ Connack(p.present, p.limit, p.expiry, FALSE)
  BY <1>3, <1>5, RestingClass
<1>6. CASE p.type = "PUBREC" /\ Found(p) = {} /\ PubrecUnknown
  <2>1. Strange /\ op' = op /\ ~call'.closing /\ call'.loop = "none"
    BY <1>6, StrangeClass
  <2> QED  BY <1>1, <1>6, <2>1, DroppedNone DEF RecvStrange
<1>7. ASSUME p.type # "CONNACK", NEW o \in Found(p), HandleAck(p, o)
      PROVE  RecvRests \/ RecvEnds(o, p) \/ RecvConfirms(o, p)
  <2>1. o \in Ops /\ op[o].id = p.id
    BY OpsAreInts DEF Found
  <2>2. p.code \in {"success", "error"}
    BY <1>2, <1>7 DEF Answer, Connacks
  <2>3. CASE Reacts
    BY <1>3, <2>3 DEF Reacts
  <2>4. ASSUME Ends(o)
        PROVE  completed' = IF ~call'.closing /\ (p.type = "PUBCOMP" \/ p.code = "success")
                            THEN completed \cup {o} ELSE completed
    <3>1. Dropped = {o}
      BY <2>1, <2>4, DroppedEnds DEF Ends, Leaves, OpIn
    <3> QED  BY <1>1, <3>1
  <2>5. CASE p.type = "PUBACK" /\ Puback(o, TRUE)
    <3>1. Reacts \/ (Ends(o) /\ (call'.closing <=> op[o].qos # 1))
      BY <2>1, <2>5, PubackClass
    <3> QED  BY <2>1, <2>3, <2>4, <2>5, <3>1 DEF RecvEnds
  <2>6. CASE p.type = "PUBCOMP" /\ Pubcomp(o, TRUE)
    <3>1. Reacts \/ (Ends(o) /\ (call'.closing <=> op[o].qos # 2 \/ ~op[o].acked))
      BY <2>1, <2>6, PubcompClass
    <3> QED  BY <2>1, <2>3, <2>4, <2>6, <3>1 DEF RecvEnds
  <2>7. CASE p.type = "PUBREC"
             /\ Pubrec(o, IF p.code = "error" THEN "failure" ELSE "success")
    <3> DEFINE reply == IF p.code = "error" THEN "failure" ELSE "success"
    <3>1. reply \in {"success", "failure"} /\ (reply = "failure" <=> p.code = "error")
      OBVIOUS
    <3>2. Pubrec(o, reply)
      BY <2>7
    <3> HIDE DEF reply
    <3>3. \/ Reacts
          \/ Ends(o) /\ (call'.closing <=> op[o].qos # 2 \/ op[o].acked)
                     /\ (~call'.closing => reply = "failure")
          \/ Confirms(o) /\ reply = "success" /\ ~call'.closing /\ call'.loop = "none"
      BY <2>1, <3>1, <3>2, PubrecClass
    <3>4. ASSUME Confirms(o) PROVE completed' = completed
      <4>1. Others(o) /\ op'[o].st # "gone"
        BY <3>4 DEF Confirms
      <4> QED  BY <1>1, <2>1, <4>1, DroppedEnds
    <3> QED  BY <2>1, <2>2, <2>3, <2>4, <2>7, <3>1, <3>3, <3>4
                DEF RecvEnds, RecvConfirms
  <2> QED  BY <1>7, <2>5, <2>6, <2>7 DEF HandleAck
<1>8. \A o \in Found(p) : o \in Ops
  BY OpsAreInts DEF Found
<1>9. \/ Ignored
      \/ p.type = "CONNACK" /\ Connack(p.present, p.limit, p.expiry, FALSE)
      \/ p.type = "PUBREC" /\ Found(p) = {} /\ PubrecUnknown
      \/ p.type # "CONNACK" /\ \E o \in Found(p) : HandleAck(p, o)
  BY <1>1 DEF Handle
<1> QED  BY <1>4, <1>5, <1>6, <1>7, <1>8, <1>9

(* The first packet to the client is taken. *)
LEMMA RecvTakes ==
  ASSUME NEW f, CoreOK(f), ClientRecv, NEW p, p = Head(toClient)
  PROVE  /\ Takes /\ Frame /\ toClient' = Tail(toClient) /\ toClient # <<>>
         /\ Transmits(toBroker, p.id)
         /\ 1 \in DOMAIN toClient /\ p = toClient[1] /\ p \in Answer \cup Connacks
         /\ p.type # "CONNACK" => p.id \in 1 .. lastId /\ p \in Answer
         /\ p.type = "PUBACK" => PubackOK(f, p)
         /\ p.type = "PUBREC" => PubrecOK(f, p)
         /\ p.type = "PUBCOMP" => PubcompOK(f, p)
         /\ p.id \in PacketIds
<1>1. toClient # <<>> /\ toClient' = Tail(toClient) /\ Transmits(toBroker, p.id) /\ Frame
  BY DEF ClientRecv, Frame, brokerVars
<1>2. toClient \in Seq(Answer \cup Connacks)
  BY DEF CoreOK, ToClientOK
<1>3. /\ 1 \in DOMAIN toClient /\ p = toClient[1] /\ p \in Answer \cup Connacks
      /\ Tail(toClient) \in Seq(Answer \cup Connacks)
      /\ \A i \in DOMAIN Tail(toClient) :
            Tail(toClient)[i] = toClient[i + 1] /\ i + 1 \in DOMAIN toClient
  BY <1>1, <1>2, TailFacts
<1>4. Takes
  BY <1>1, <1>3 DEF Takes
<1>5. /\ p.type # "CONNACK" => p.id \in 1 .. lastId
      /\ p.type = "PUBACK" => PubackOK(f, p)
      /\ p.type = "PUBREC" => PubrecOK(f, p)
      /\ p.type = "PUBCOMP" => PubcompOK(f, p)
  BY <1>3 DEF CoreOK, ToClientOK
<1>6. p.type # "CONNACK" => p \in Answer
  BY <1>3 DEF Connacks
<1>7. p.id \in PacketIds
  <2>1. 0 \in PacketIds
    BY PacketIdAssumption DEF PacketIds
  <2> QED  BY <1>3, <2>1 DEF Answer, Connacks, None
<1> QED  BY <1>1, <1>3, <1>4, <1>5, <1>6, <1>7

(* A packet that moves no operation. *)
LEMMA RestCore ==
  ASSUME FewMessages, IndInv, IndInv', NEW f, CoreOK(f), ClientRecv, RecvRests
  PROVE  CoreOK(f)' /\ Moves(f, f, {})
<1>1. PICK p : p = Head(toClient)
  OBVIOUS
<1>2. Takes /\ Frame /\ Transmits(toBroker, p.id) /\ p.id \in PacketIds
  BY <1>1, RecvTakes
<1> QED  BY <1>2, SilentCore, SettledSame DEF RecvRests

(* An operation ends with its answer. *)
LEMMA EndCore ==
  ASSUME FewMessages, IndInv, IndInv', NEW f, CoreOK(f), ClientRecv,
         NEW p, p = Head(toClient), NEW o \in Ops, RecvEnds(o, p)
  PROVE  CoreOK(f)' /\ Moves(f, f, {})
<1>1. /\ Takes /\ Frame /\ Transmits(toBroker, p.id) /\ p.id \in PacketIds
      /\ p.type = "PUBACK" => PubackOK(f, p)
      /\ p.type = "PUBCOMP" => PubcompOK(f, p)
  BY RecvTakes
<1>2. Silent /\ o \in Published /\ op'[o].st = "gone"
  BY DEF RecvEnds, Ends, Leaves, OpIn
<1>3. f[o] = p.id
  BY <1>2 DEF RecvEnds, CoreOK, IdsOK, Published
<1>4. completed' = completed \/ (/\ completed' = completed \cup {o}
                                 /\ p.type = "PUBCOMP" \/ p.type = "PUBACK")
  BY DEF RecvEnds
<1>5. ASSUME NEW i \in DOMAIN toBroker, toBroker[i].type = "PUBLISH", toBroker[i].qos = 2
      PROVE  toBroker[i].msg \notin completed'
  <2>1. PublishOK(f, toBroker[i])
    BY <1>5 DEF CoreOK, ToBrokerOK
  <2>2. toBroker[i].msg \notin completed /\ msgQos[toBroker[i].msg] = 2
        /\ toBroker[i].id = f[toBroker[i].msg]
    BY <1>5, <2>1 DEF PublishOK
  <2>3. CASE completed' = completed
    BY <2>2, <2>3
  <2>4. CASE completed' = completed \cup {o} /\ p.type = "PUBACK"
    BY <1>1, <1>3, <2>2, <2>4 DEF PubackOK
  <2>5. CASE completed' = completed \cup {o} /\ p.type = "PUBCOMP"
    <3>1. toBroker[i].id # p.id
      BY <1>1, <1>5, <2>5 DEF PubcompOK
    <3> QED  BY <1>3, <2>2, <2>5, <3>1
  <2> QED  BY <1>4, <2>3, <2>4, <2>5
<1>6. Settled({})
  BY <1>5 DEF Settled
<1>7. \A m \in completed' : m \in completed \/ (m \in Ops /\ op'[m].st = "gone")
  BY <1>2, <1>4
<1> QED  BY <1>1, <1>2, <1>6, <1>7, SilentCore

(* An operation moves on to its PUBREL. *)
LEMMA ConfirmCore ==
  ASSUME FewMessages, IndInv, IndInv', NEW f, CoreOK(f), ClientRecv,
         NEW p, p = Head(toClient), NEW o \in Ops, RecvConfirms(o, p)
  PROVE  /\ CoreOK(f)' /\ Moves(f, f, {o}) /\ f[o] = p.id
         /\ msgQos[o] = 2 /\ delivered[o] > 0
         /\ toBroker' = Append(toBroker, Sent("PUBREL", o, f[o], msgQos[o]))
<1>1. /\ Takes /\ Frame /\ Transmits(toBroker, p.id) /\ p.id \in PacketIds
      /\ PubrecOK(f, p) /\ p.code = "success" /\ completed' = completed
      /\ p.id \in 1 .. lastId
  BY RecvTakes DEF RecvConfirms
<1>2. Confirms(o) /\ o \in Published /\ op[o].st = "published" /\ ~op[o].acked
      /\ op'[o].acked /\ op'[o].st = "published" /\ op'[o].id = op[o].id
  BY DEF RecvConfirms, Confirms, Published
<1>3. f[o] = p.id /\ op'[o].id = f[o] /\ IdsOK(f) /\ ToBrokerOK(f)
  BY <1>2 DEF RecvConfirms, CoreOK, IdsOK
<1>4. IdsOK(f)' /\ Moves(f, f, {o}) /\ msgQos[o] = 2
  BY <1>1, <1>2, <1>3, ConfirmMoves DEF Frame
<1>5. delivered[o] > 0
  BY <1>1, <1>3 DEF PubrecOK
<1>6. o \in 0 .. MaxOps /\ o # 0 /\ lastId' = lastId
  BY <1>2, <1>3, SmallTypes DEF Confirms, SameIds
<1>7. out'.type = "PUBREL" /\ out'.op = o
  BY <1>2 DEF Confirms, Packet
<1>8. toBroker' = Append(toBroker, Sent("PUBREL", o, f[o], msgQos[o]))
  BY <1>1, <1>3, <1>6, <1>7, TransmitsFacts
<1>9. PICK e : e = Sent("PUBREL", o, f[o], msgQos[o])
  OBVIOUS
<1>10. e \in BrokerPackets /\ e.type = "PUBREL" /\ e.id = f[o]
  BY <1>1, <1>3, <1>4, <1>6, <1>9, SentFields
<1>11. ASSUME NEW m \in Ops, f[m] = e.id PROVE m = o
  <2>1. f[o] # 0
    BY <1>2, <1>3 DEF IdsOK
  <2> QED  BY <1>3, <1>10, <1>11, <2>1 DEF IdsOK
<1>12. PubrelOK(f, e)'
  BY <1>1, <1>2, <1>3, <1>4, <1>6, <1>10, <1>11 DEF PubrelOK, Frame
<1>13. Follows(e) /\ FitsIn(f, e)
  BY <1>8, <1>9, <1>10, <1>12 DEF Follows, FitsIn
<1>14. Settled({o})
  <2>1. ASSUME NEW i \in DOMAIN toBroker, toBroker[i].type = "PUBLISH",
               toBroker[i].qos = 2
        PROVE  /\ toBroker[i].msg \notin completed'
               /\ toBroker[i].msg \in {o} => heldAs[toBroker[i].id] = toBroker[i].msg
    <3>1. PublishOK(f, toBroker[i])
      BY <1>3, <2>1 DEF ToBrokerOK
    <3>2. toBroker[i].msg \notin completed /\ toBroker[i].id = f[toBroker[i].msg]
      BY <2>1, <3>1 DEF PublishOK
    <3>3. toBroker[i].msg = o => toBroker[i].id = p.id
      BY <1>3, <3>2
    <3> QED  BY <1>1, <2>1, <3>2, <3>3 DEF PubrecOK
  <2> QED  BY <2>1 DEF Settled
<1>15. CoreOK(f)'
  BY <1>1, <1>4, <1>13, <1>14, ClientKeeps
<1> QED  BY <1>3, <1>4, <1>5, <1>8, <1>15

(* A PUBREC nobody waits for is answered. *)
LEMMA StrangeCore ==
  ASSUME FewMessages, IndInv, OrderInv, IndInv', NEW f, CoreOK(f), ClientRecv,
         NEW p, p = Head(toClient), RecvStrange(p)
  PROVE  /\ CoreOK(f)' /\ Moves(f, f, {}) /\ p.id \in 1 .. lastId
         /\ toBroker' = Append(toBroker, Sent("PUBREL", 0, p.id, 0))
<1>1. /\ Takes /\ Frame /\ Transmits(toBroker, p.id) /\ p.id \in PacketIds
      /\ PubrecOK(f, p) /\ completed' = completed /\ p.id \in 1 .. lastId
  BY RecvTakes DEF RecvStrange
<1>2. IdsOK(f) /\ msgQos' = msgQos /\ Shrinks /\ op' = op /\ lastId' = lastId
  BY <1>1 DEF CoreOK, Frame, RecvStrange, Strange, Shrinks, SameIds
<1>3. IdsOK(f)' /\ Moves(f, f, {})
  BY <1>2, ShrinkMoves
<1>4. 0 \in PacketIds /\ 0 \in 0 .. MaxOps /\ 0 \in 0 .. 2
  BY <1>2, SmallTypes
<1>5. out'.type = "PUBREL" /\ out'.op = 0
  BY DEF RecvStrange, Strange, Packet
<1>6. toBroker' = Append(toBroker, Sent("PUBREL", 0, p.id, 0))
  BY <1>1, <1>5, TransmitsFacts
<1>7. PICK e : e = Sent("PUBREL", 0, p.id, 0)
  OBVIOUS
<1>8. e \in BrokerPackets /\ e.type = "PUBREL" /\ e.id = p.id
  BY <1>1, <1>4, <1>7, SentFields
<1>9. ASSUME NEW m \in Ops, f[m] = p.id
      PROVE  msgQos[m] = 2 /\ op[m].st = "gone"
  <2>1. msgQos[m] = 2
    BY <1>1, <1>9 DEF PubrecOK
  <2>2. op[m].st \notin {"none", "prepared"}
    BY <1>1, <1>2, <1>9 DEF IdsOK
  <2>3. op[m].st \notin {"paused", "published"}
    <3>1. Found(p) = {}
      BY DEF RecvStrange
    <3>2. op[m].st \in {"paused", "published"} => op[m].id = p.id
      BY <1>2, <1>9 DEF IdsOK
    <3> QED  BY <3>1, <3>2 DEF Found, Paused, Published
  <2>4. op[m].st \in {"none", "prepared", "sending", "paused", "published", "gone"}
    BY DEF IndInv, StepInv, OpsInv, OpsTypeOK, Op
  <2>5. op[m].st # "sending"
    BY DEF OrderInv, NoneSending, Sending
  <2> QED  BY <2>1, <2>2, <2>3, <2>4, <2>5
<1>10. PubrelOK(f, e)'
  BY <1>1, <1>2, <1>8, <1>9 DEF PubrelOK
<1>11. Follows(e) /\ FitsIn(f, e)
  BY <1>6, <1>7, <1>8, <1>10 DEF Follows, FitsIn
<1>12. CoreOK(f)'
  BY <1>1, <1>3, <1>11, SettledSame, ClientKeeps
<1> QED  BY <1>1, <1>3, <1>6, <1>12

------------------------------------------------------------------------------
(* The steps of the broker. *)

Reply(type, id, code) == [type |-> type, id |-> id, code |-> code]

(* An answer enters the channel to the client somewhere. *)
LEMMA AnswersFacts ==
  ASSUME toClient \in Seq(Answer \cup Connacks), NEW type \in {"PUBACK", "PUBREC", "PUBCOMP"},
         NEW id \in PacketIds, NEW code \in {"success", "error"}, Answers(type, id, code)
  PROVE  /\ Reply(type, id, code) \in Answer
         /\ \E k \in 1 .. Len(toClient) + 1 :
               toClient' = InsertAt(toClient, k, Reply(type, id, code))
<1>1. Len(toClient) \in Nat /\ DOMAIN toClient = 1 .. Len(toClient)
  BY LenProperties
<1> DEFINE fixed == {i \in DOMAIN toClient :
                       toClient[i].type \in {type, "CONNACK"} \/ toClient[i].id = id}
<1>2. fixed \subseteq 1 .. Len(toClient)
  BY <1>1
<1>3. Max({0} \cup fixed) \in 0 .. Len(toClient)
  <2> HIDE DEF fixed
  <2> QED  BY <1>1, <1>2, LastPosition
<1>4. PICK i \in Max({0} \cup fixed) .. Len(toClient) :
            toClient' = InsertAt(toClient, i + 1, Reply(type, id, code))
  BY DEF Answers, Reply
<1> HIDE DEF fixed
<1>5. i + 1 \in 1 .. Len(toClient) + 1
  BY <1>1, <1>3, <1>4
<1>6. Reply(type, id, code) \in Answer
  BY DEF Reply, Answer
<1> QED  BY <1>4, <1>5, <1>6

(* What the broker leaves alone. *)
BrokerFrame == UNCHANGED <<op, lastId, allocated, msgQos, completed>>

(* The broker changes no packet id of an operation. *)
LEMMA BrokerFrameIds ==
  ASSUME NEW f, IdsOK(f), BrokerFrame
  PROVE  IdsOK(f)'
BY DEF IdsOK, BrokerFrame, Live

(* The broker may take x over, and hand it over. *)
Gains(f, x) ==
    /\ heldAs' \in [PacketIds -> 0 .. MaxOps] /\ delivered' \in [Ops -> 0 .. 2]
    /\ early' = early
    /\ \A id \in PacketIds : heldAs[id] # 0 => heldAs'[id] = heldAs[id]
    /\ \A id \in PacketIds : heldAs'[id] # heldAs[id] =>
          /\ heldAs'[id] = x /\ f[x] = id /\ id # 0 /\ msgQos[x] = 2 /\ delivered'[x] > 0
    /\ \A m \in Ops : delivered[m] > 0 => delivered'[m] > 0
    /\ \A m \in Ops : delivered'[m] > 0 /\ ~(delivered[m] > 0) =>
          /\ m = x /\ op[x].st \in {"published", "gone"}
          /\ msgQos[x] = 2 => heldAs'[f[x]] = x

(* The packets to the broker are the ones behind the first. *)
Rest == \A i \in DOMAIN toBroker' :
            i + 1 \in DOMAIN toBroker /\ toBroker'[i] = toBroker[i + 1] /\ i \in Nat /\ i > 0

(* The packets to the client are the ones it had and q. *)
Adds(q) ==
    /\ toClient' \in Seq(Answer \cup Connacks)
    /\ \A i \in DOMAIN toClient' :
          toClient'[i] = q \/ \E j \in DOMAIN toClient : toClient'[i] = toClient[j]

AnswerOK(f, q) ==
    /\ q.type # "CONNACK" => q.id \in 1 .. lastId
    /\ q.type = "PUBACK" => PubackOK(f, q)
    /\ q.type = "PUBREC" => PubrecOK(f, q)
    /\ q.type = "PUBCOMP" => PubcompOK(f, q)

(* What is asked of an answer is asked of a packet in the channel. *)
LEMMA AnswerSame ==
  ASSUME NEW f, NEW q, NEW i, toClient'[i] = q, AnswerOK(f, q)'
  PROVE  /\ toClient'[i].type # "CONNACK" => toClient'[i].id \in 1 .. lastId'
         /\ toClient'[i].type = "PUBACK" => PubackOK(f, toClient[i])'
         /\ toClient'[i].type = "PUBREC" => PubrecOK(f, toClient[i])'
         /\ toClient'[i].type = "PUBCOMP" => PubcompOK(f, toClient[i])'
<1>1. toClient'[i].type # "CONNACK" => toClient'[i].id \in 1 .. lastId'
  BY DEF AnswerOK
<1>2. toClient'[i].type = "PUBACK" => PubackOK(f, toClient[i])'
  BY DEF AnswerOK, PubackOK
<1>3. toClient'[i].type = "PUBREC" => PubrecOK(f, toClient[i])'
  BY DEF AnswerOK, PubrecOK
<1>4. toClient'[i].type = "PUBCOMP" => PubcompOK(f, toClient[i])'
  BY DEF AnswerOK, PubcompOK
<1> QED  BY <1>1, <1>2, <1>3, <1>4

(* The messages the broker holds. *)
LEMMA GainsHeld ==
  ASSUME FewMessages, IndInv, NEW f, NEW x \in Ops, IdsOK(f), HeldOK(f), BrokerFrame,
         Gains(f, x)
  PROVE  HeldOK(f)'
<1>1. ASSUME NEW m \in Ops, delivered'[m] > 0
      PROVE  op[m].st \in {"published", "gone"}
  BY <1>1 DEF HeldOK, Gains
<1>2. ASSUME NEW m \in Ops, NEW id \in PacketIds, heldAs'[id] = m
      PROVE  f[m] = id /\ id # 0 /\ msgQos[m] = 2 /\ delivered'[m] > 0
  BY <1>2 DEF HeldOK, Gains
<1>3. ASSUME NEW m \in Ops, op[m].st = "published", msgQos[m] = 2, ~op[m].acked,
             delivered'[m] > 0, m \notin early
      PROVE  heldAs'[f[m]] = m
  <2>1. CASE delivered[m] > 0
    <3>1. heldAs[f[m]] = m
      BY <1>3, <2>1 DEF HeldOK
    <3>2. m # 0 /\ f[m] # 0
      BY <1>3, SmallTypes DEF IdsOK
    <3>3. f[m] \in PacketIds
      BY <3>2, SmallTypes
    <3> QED  BY <3>1, <3>2, <3>3 DEF Gains
  <2>2. CASE ~(delivered[m] > 0)
    BY <1>3, <2>2 DEF Gains
  <2> QED  BY <2>1, <2>2
<1> QED  BY <1>1, <1>2, <1>3 DEF HeldOK, BrokerFrame, Gains

(* The packets on their way to the broker. *)
LEMMA GainsToBroker ==
  ASSUME FewMessages, IndInv, NEW f, NEW x \in Ops, IdsOK(f), HeldOK(f), ToBrokerOK(f),
         BrokerFrame, Gains(f, x), Rest, toBroker' \in Seq(BrokerPackets)
  PROVE  ToBrokerOK(f)'
<1>1. ASSUME NEW i \in DOMAIN toBroker', NEW q, q = toBroker'[i], q.type = "PUBLISH"
      PROVE  PublishOK(f, q)'
  <2>1. PublishOK(f, q)
    BY <1>1 DEF Rest, ToBrokerOK
  <2>2. q.msg \in Ops /\ q.id = f[q.msg] /\ q.id # 0 /\ q.msg # 0
    BY <2>1, SmallTypes DEF PublishOK
  <2>3. q.id \in PacketIds
    BY <2>2, SmallTypes
  <2>4. heldAs[q.id] = q.msg => heldAs'[q.id] = q.msg
    BY <2>2, <2>3 DEF Gains
  <2>5. ASSUME q.qos = 2, delivered'[q.msg] > 0, q.msg \notin early
        PROVE  heldAs'[q.id] = q.msg
    <3>1. CASE delivered[q.msg] > 0
      BY <2>1, <2>4, <2>5, <3>1 DEF PublishOK
    <3>2. CASE ~(delivered[q.msg] > 0)
      BY <2>1, <2>2, <2>5, <3>2 DEF PublishOK, Gains
    <3> QED  BY <3>1, <3>2
  <2> QED  BY <2>1, <2>4, <2>5 DEF PublishOK, BrokerFrame, Gains
<1>2. ASSUME NEW i \in DOMAIN toBroker', NEW q, q = toBroker'[i], q.type = "PUBREL"
      PROVE  PubrelOK(f, q)'
  <2>1. PubrelOK(f, q)
    BY <1>2 DEF Rest, ToBrokerOK
  <2> QED  BY <2>1 DEF PubrelOK, BrokerFrame
<1>3. ASSUME NEW i \in DOMAIN toBroker'
      PROVE  /\ toBroker'[i].type = "PUBLISH" => PublishOK(f, toBroker[i])'
             /\ toBroker'[i].type = "PUBREL" => PubrelOK(f, toBroker[i])'
  <2>1. PICK q : q = toBroker'[i]
    OBVIOUS
  <2>2. q.type = "PUBLISH" => PublishOK(f, q)'
    BY <1>1, <2>1
  <2>3. q.type = "PUBREL" => PubrelOK(f, q)'
    BY <1>2, <2>1
  <2>4. toBroker'[i].type = "PUBLISH" => PublishOK(f, toBroker[i])'
    BY <2>1, <2>2 DEF PublishOK
  <2>5. toBroker'[i].type = "PUBREL" => PubrelOK(f, toBroker[i])'
    BY <2>1, <2>3 DEF PubrelOK
  <2> QED  BY <2>4, <2>5
<1>4. ASSUME NEW i \in DOMAIN toBroker', NEW j \in DOMAIN toBroker', i < j,
             toBroker'[i].type = "PUBREL", toBroker'[j].type = "PUBLISH"
      PROVE  toBroker'[i].id # toBroker'[j].id
  <2>1. i + 1 < j + 1
    BY <1>4 DEF Rest
  <2> QED  BY <1>4, <2>1 DEF Rest, ToBrokerOK
<1> QED  BY <1>3, <1>4 DEF ToBrokerOK

(* The answers on their way to the client. *)
LEMMA GainsToClient ==
  ASSUME FewMessages, IndInv, NEW f, NEW x \in Ops, IdsOK(f), HeldOK(f), ToBrokerOK(f),
         ToClientOK(f), BrokerFrame, Gains(f, x), Rest, NEW r, Adds(r), AnswerOK(f, r)'
  PROVE  ToClientOK(f)'
<1>1. ASSUME NEW j \in DOMAIN toClient, NEW q, q = toClient[j]
      PROVE  AnswerOK(f, q)'
  <2>1. AnswerOK(f, q)
    BY <1>1 DEF ToClientOK, AnswerOK
  <2>2. q.type = "PUBACK" => PubackOK(f, q)'
    BY <2>1 DEF AnswerOK, PubackOK, BrokerFrame, Gains
  <2>3. ASSUME q.type = "PUBREC" PROVE PubrecOK(f, q)'
    <3>1. PubrecOK(f, q) /\ q.id \in PacketIds /\ q.id # 0
      BY <2>1, <2>3, SmallTypes DEF AnswerOK
    <3>2. ASSUME NEW m \in Ops, heldAs[q.id] = m PROVE heldAs'[q.id] = m
      BY <3>1, <3>2, SmallTypes DEF Gains
    <3>3. ASSUME NEW i \in DOMAIN toBroker', q.code = "success",
                 toBroker'[i].type = "PUBLISH", toBroker'[i].id = q.id
          PROVE  heldAs'[q.id] = toBroker'[i].msg
      <4>1. /\ i + 1 \in DOMAIN toBroker /\ toBroker'[i] = toBroker[i + 1]
        BY DEF Rest
      <4>2. toBroker[i + 1].msg \in Ops
        BY <3>3, <4>1 DEF ToBrokerOK, PublishOK
      <4> QED  BY <3>1, <3>2, <3>3, <4>1, <4>2 DEF PubrecOK
    <3>4. ASSUME NEW m \in Ops, f[m] = q.id
          PROVE  /\ msgQos[m] = 2
                 /\ q.code = "success" =>
                      /\ delivered'[m] > 0
                      /\ op[m].st = "published" /\ ~op[m].acked => heldAs'[q.id] = m
      BY <3>1, <3>2, <3>4 DEF PubrecOK, Gains
    <3> QED  BY <3>3, <3>4 DEF PubrecOK, BrokerFrame
  <2>4. ASSUME q.type = "PUBCOMP" PROVE PubcompOK(f, q)'
    <3>1. PubcompOK(f, q)
      BY <2>1, <2>4 DEF AnswerOK
    <3> QED  BY <3>1 DEF PubcompOK, Rest, BrokerFrame
  <2> QED  BY <2>1, <2>2, <2>3, <2>4 DEF AnswerOK, BrokerFrame
<1>2. ASSUME NEW i \in DOMAIN toClient'
      PROVE  /\ toClient'[i].type # "CONNACK" => toClient'[i].id \in 1 .. lastId'
             /\ toClient'[i].type = "PUBACK" => PubackOK(f, toClient[i])'
             /\ toClient'[i].type = "PUBREC" => PubrecOK(f, toClient[i])'
             /\ toClient'[i].type = "PUBCOMP" => PubcompOK(f, toClient[i])'
  <2>1. PICK q : q = toClient'[i]
    OBVIOUS
  <2>2. q = r \/ \E j \in DOMAIN toClient : q = toClient[j]
    BY <2>1 DEF Adds
  <2>3. AnswerOK(f, q)'
    BY <1>1, <2>2
  <2> QED  BY <2>1, <2>3, AnswerSame
<1> QED  BY <1>2 DEF ToClientOK, Adds

(* What the broker does with a packet p, answering r. *)
Drops == UNCHANGED <<heldAs, window, delivered, toClient>>

Refuses(p, r) ==
    /\ p.type = "PUBLISH" /\ r.code = "error"
    /\ p.qos = 1 \/ heldAs[p.id] = None
    /\ r.type = IF p.qos = 1 THEN "PUBACK" ELSE "PUBREC"
    /\ UNCHANGED <<heldAs, window, delivered>>

TakesOne(p, r) ==
    /\ p.type = "PUBLISH" /\ p.qos = 1 /\ HandsOver(p.msg)
    /\ r.type = "PUBACK" /\ r.code = "success"
    /\ UNCHANGED <<heldAs, window>>

TakesTwo(p, r) ==
    /\ p.type = "PUBLISH" /\ p.qos = 2
    /\ heldAs' = [heldAs EXCEPT ![p.id] = p.msg]
    /\ window' = window \cup {p.id}
    /\ IF heldAs[p.id] = None THEN HandsOver(p.msg) ELSE UNCHANGED delivered
    /\ r.type = "PUBREC" /\ r.code = "success"

Frees(p, r) ==
    /\ p.type = "PUBREL" /\ r.type = "PUBCOMP"
    /\ heldAs' = [heldAs EXCEPT ![p.id] = None]
    /\ window' = window \ {p.id} /\ delivered' = delivered

Inserts(r) ==
    \E k \in 1 .. Len(toClient) + 1 : toClient' = InsertAt(toClient, k, r)

(* What every packet to the broker does. *)
LEMMA BrokerTakes ==
  ASSUME NEW f, CoreOK(f), BrokerRecv, NEW p, p = Head(toBroker)
  PROVE  /\ BrokerFrame /\ early' = early /\ Rest /\ toBroker' \in Seq(BrokerPackets)
         /\ toBroker' = Tail(toBroker) /\ toBroker # <<>>
         /\ 1 \in DOMAIN toBroker /\ p = toBroker[1] /\ p \in BrokerPackets
         /\ p.type = "PUBLISH" => PublishOK(f, p)
         /\ p.type = "PUBREL" => PubrelOK(f, p)
         /\ \A i \in DOMAIN toBroker' :
               p.type = "PUBREL" /\ toBroker'[i].type = "PUBLISH" => toBroker'[i].id # p.id
<1>1. /\ toBroker # <<>> /\ toBroker' = Tail(toBroker) /\ BrokerFrame /\ early' = early
  BY DEF BrokerRecv, BrokerFrame, ClientRests, id_vars
<1>2. toBroker \in Seq(BrokerPackets)
  BY DEF CoreOK, ToBrokerOK
<1>3. /\ 1 \in DOMAIN toBroker /\ p = toBroker[1] /\ p \in BrokerPackets
      /\ Tail(toBroker) \in Seq(BrokerPackets)
      /\ \A i \in DOMAIN Tail(toBroker) :
            Tail(toBroker)[i] = toBroker[i + 1] /\ i + 1 \in DOMAIN toBroker
            /\ i \in Nat /\ i > 0
  BY <1>1, <1>2, TailFacts
<1>4. Rest
  BY <1>1, <1>3 DEF Rest
<1>5. ASSUME NEW i \in DOMAIN toBroker', p.type = "PUBREL", toBroker'[i].type = "PUBLISH"
      PROVE  toBroker'[i].id # p.id
  <2>1. /\ i + 1 \in DOMAIN toBroker /\ toBroker'[i] = toBroker[i + 1] /\ 1 < i + 1
    BY <1>4 DEF Rest
  <2> QED  BY <1>3, <1>5, <2>1 DEF CoreOK, ToBrokerOK
<1> QED  BY <1>1, <1>3, <1>4, <1>5 DEF CoreOK, ToBrokerOK

(* Every packet to the broker is one of these. *)
LEMMA BrokerCases ==
  ASSUME NEW f, CoreOK(f), BrokerRecv, NEW p, p = Head(toBroker)
  PROVE  \/ Drops
         \/ /\ serving /\ serving' = serving
            /\ \E r \in Answer : /\ Inserts(r) /\ r.id = p.id
                                 /\ Refuses(p, r) \/ TakesOne(p, r) \/ TakesTwo(p, r)
                                    \/ Frees(p, r)
<1>1. p \in BrokerPackets
  BY BrokerTakes
<1>2. p.id \in PacketIds /\ p.qos \in 0 .. 2
  BY <1>1 DEF BrokerPackets
<1>3. ASSUME NEW type \in {"PUBACK", "PUBREC", "PUBCOMP"}, NEW code \in {"success", "error"},
             Answers(type, p.id, code)
      PROVE  /\ Reply(type, p.id, code) \in Answer /\ Inserts(Reply(type, p.id, code))
             /\ Reply(type, p.id, code).type = type /\ Reply(type, p.id, code).id = p.id
             /\ Reply(type, p.id, code).code = code
  BY <1>2, <1>3, AnswersFacts DEF Inserts, Reply, CoreOK, ToClientOK
<1>4. \/ Drops
      \/ /\ serving /\ serving' = serving
         /\ (p.type = "PUBLISH" /\ BrokerPublish(p)) \/ (p.type = "PUBREL" /\ BrokerPubrel(p))
  BY DEF BrokerRecv, Drops
<1>5. ASSUME p.type = "PUBLISH", p.qos = 1 \/ heldAs[p.id] = None,
             Answers(IF p.qos = 1 THEN "PUBACK" ELSE "PUBREC", p.id, "error"),
             UNCHANGED <<heldAs, window, delivered>>
      PROVE  \E r \in Answer : Inserts(r) /\ r.id = p.id /\ Refuses(p, r)
  <2> DEFINE t == IF p.qos = 1 THEN "PUBACK" ELSE "PUBREC"
             r == Reply(t, p.id, "error")
  <2>1. t \in {"PUBACK", "PUBREC", "PUBCOMP"} /\ Answers(t, p.id, "error")
    BY <1>5
  <2>2. /\ r \in Answer /\ Inserts(r) /\ r.type = t /\ r.id = p.id /\ r.code = "error"
    <3> HIDE DEF t
    <3> QED  BY <1>3, <2>1
  <2> HIDE DEF r
  <2>3. Refuses(p, r)
    BY <1>5, <2>2 DEF Refuses
  <2> QED  BY <2>2, <2>3
<1>6. ASSUME p.type = "PUBLISH", p.qos = 1, HandsOver(p.msg),
             Answers("PUBACK", p.id, "success"), UNCHANGED <<heldAs, window>>
      PROVE  \E r \in Answer : Inserts(r) /\ r.id = p.id /\ TakesOne(p, r)
  <2>1. PICK r : r = Reply("PUBACK", p.id, "success")
    OBVIOUS
  <2>2. r \in Answer /\ Inserts(r) /\ r.type = "PUBACK" /\ r.id = p.id /\ r.code = "success"
    BY <1>3, <1>6, <2>1
  <2> QED  BY <1>6, <2>2 DEF TakesOne
<1>7. ASSUME p.type = "PUBLISH", p.qos = 2, heldAs' = [heldAs EXCEPT ![p.id] = p.msg],
             window' = window \cup {p.id},
             IF heldAs[p.id] = None THEN HandsOver(p.msg) ELSE UNCHANGED delivered,
             Answers("PUBREC", p.id, "success")
      PROVE  \E r \in Answer : Inserts(r) /\ r.id = p.id /\ TakesTwo(p, r)
  <2>1. PICK r : r = Reply("PUBREC", p.id, "success")
    OBVIOUS
  <2>2. r \in Answer /\ Inserts(r) /\ r.type = "PUBREC" /\ r.id = p.id /\ r.code = "success"
    BY <1>3, <1>7, <2>1
  <2> QED  BY <1>7, <2>2 DEF TakesTwo
<1>8. ASSUME p.type = "PUBREL", BrokerPubrel(p)
      PROVE  \E r \in Answer : Inserts(r) /\ r.id = p.id /\ Frees(p, r)
  <2> DEFINE c == IF heldAs[p.id] = None THEN "error" ELSE "success"
             r == Reply("PUBCOMP", p.id, c)
  <2>1. c \in {"success", "error"} /\ Answers("PUBCOMP", p.id, c)
    BY <1>8 DEF BrokerPubrel
  <2>2. r \in Answer /\ Inserts(r) /\ r.type = "PUBCOMP" /\ r.id = p.id
    <3> HIDE DEF c
    <3> QED  BY <1>3, <2>1
  <2> HIDE DEF r
  <2>3. Frees(p, r)
    BY <1>8, <2>2 DEF Frees, BrokerPubrel
  <2> QED  BY <2>2, <2>3
<1>9. p.type = "PUBLISH" /\ BrokerPublish(p) =>
        \E r \in Answer : /\ Inserts(r) /\ r.id = p.id
                          /\ Refuses(p, r) \/ TakesOne(p, r) \/ TakesTwo(p, r)
  BY <1>5, <1>6, <1>7 DEF BrokerPublish
<1> QED  BY <1>4, <1>8, <1>9

(* An answer inserted is the only new packet. *)
LEMMA InsertsAdds ==
  ASSUME toClient \in Seq(Answer \cup Connacks), NEW r \in Answer, Inserts(r)
  PROVE  Adds(r)
<1>1. PICK k \in 1 .. Len(toClient) + 1 : toClient' = InsertAt(toClient, k, r)
  BY DEF Inserts
<1>2. /\ InsertAt(toClient, k, r) \in Seq(Answer \cup Connacks)
      /\ Len(toClient) \in Nat
      /\ DOMAIN InsertAt(toClient, k, r) = 1 .. Len(toClient) + 1
      /\ InsertAt(toClient, k, r)[k] = r
      /\ \A i \in 1 .. Len(toClient) + 1 :
            /\ i < k => i \in DOMAIN toClient /\ InsertAt(toClient, k, r)[i] = toClient[i]
            /\ i > k => i - 1 \in DOMAIN toClient
                        /\ InsertAt(toClient, k, r)[i] = toClient[i - 1]
  <2>1. PICK S : S = Answer \cup Connacks
    OBVIOUS
  <2>2. r \in S /\ toClient \in Seq(S)
    BY <2>1
  <2>3. /\ InsertAt(toClient, k, r) \in Seq(S)
        /\ Len(toClient) \in Nat
        /\ DOMAIN InsertAt(toClient, k, r) = 1 .. Len(toClient) + 1
        /\ InsertAt(toClient, k, r)[k] = r
        /\ \A i \in 1 .. Len(toClient) + 1 :
              /\ i < k => i \in DOMAIN toClient /\ InsertAt(toClient, k, r)[i] = toClient[i]
              /\ i > k => i - 1 \in DOMAIN toClient
                          /\ InsertAt(toClient, k, r)[i] = toClient[i - 1]
    BY <2>2, InsertFacts
  <2> QED  BY <2>1, <2>3
<1>3. ASSUME NEW i \in 1 .. Len(toClient) + 1
      PROVE  toClient'[i] = r \/ \E j \in DOMAIN toClient : toClient'[i] = toClient[j]
  <2>1. i < k \/ i = k \/ i > k
    BY <1>2
  <2> QED  BY <1>1, <1>2, <2>1
<1> QED  BY <1>1, <1>2, <1>3 DEF Adds

(* The broker forgets a released message. *)
LEMMA FreesCore ==
  ASSUME FewMessages, IndInv, NEW f, CoreOK(f), BrokerRecv, NEW p, p = Head(toBroker),
         NEW r \in Answer, Inserts(r), r.id = p.id, Frees(p, r)
  PROVE  CoreOK(f)'
<1>1. /\ IdsOK(f) /\ HeldOK(f) /\ DoneOK /\ ToBrokerOK(f) /\ ToClientOK(f)
      /\ toClient \in Seq(Answer \cup Connacks)
  BY DEF CoreOK, ToClientOK
<1>2. /\ BrokerFrame /\ early' = early /\ Rest /\ toBroker' \in Seq(BrokerPackets)
      /\ PubrelOK(f, p) /\ delivered' = delivered
      /\ \A i \in DOMAIN toBroker' : toBroker'[i].type = "PUBLISH" => toBroker'[i].id # p.id
  BY BrokerTakes DEF Frees
<1>3. IdsOK(f)'
  BY <1>1, <1>2, BrokerFrameIds
<1>4. DoneOK'
  BY <1>1, <1>2 DEF DoneOK, BrokerFrame
<1>5. p.id \in 1 .. lastId /\ p.id \in PacketIds
  BY <1>1, <1>2, SmallTypes DEF PubrelOK
<1>6. /\ heldAs' \in [PacketIds -> 0 .. MaxOps] /\ heldAs'[p.id] = 0
      /\ \A id \in PacketIds : id # p.id => heldAs'[id] = heldAs[id]
  BY <1>1, <1>5, SmallTypes DEF HeldOK, Frees, None
<1>7. \A m \in Ops : f[m] = p.id => msgQos[m] = 2 /\ (op[m].st # "gone" => op[m].acked)
  BY <1>2 DEF PubrelOK
<1>8. HeldOK(f)'
  <2>1. ASSUME NEW m \in Ops, NEW id \in PacketIds, heldAs'[id] = m
        PROVE  f[m] = id /\ id # 0 /\ msgQos[m] = 2 /\ delivered[m] > 0
    BY <1>1, <1>6, <2>1, SmallTypes DEF HeldOK
  <2>2. ASSUME NEW m \in Ops, op[m].st = "published", msgQos[m] = 2, ~op[m].acked,
               delivered[m] > 0, m \notin early
        PROVE  heldAs'[f[m]] = m
    <3>1. heldAs[f[m]] = m /\ f[m] # 0
      BY <1>1, <2>2 DEF HeldOK, IdsOK
    <3>2. f[m] # p.id /\ f[m] \in PacketIds
      BY <1>1, <1>7, <2>2, <3>1, SmallTypes
    <3> QED  BY <1>6, <3>1, <3>2
  <2> QED  BY <1>1, <1>2, <1>6, <2>1, <2>2 DEF HeldOK, BrokerFrame
<1>9. ASSUME NEW i \in DOMAIN toBroker', NEW q, q = toBroker'[i], q.type = "PUBLISH"
      PROVE  PublishOK(f, q)'
  <2>1. PublishOK(f, q) /\ q.id # p.id
    BY <1>1, <1>2, <1>9 DEF Rest, ToBrokerOK
  <2>2. q.id \in PacketIds
    BY <1>1, <2>1, SmallTypes DEF PublishOK
  <2>3. heldAs'[q.id] = heldAs[q.id]
    BY <1>6, <2>1, <2>2
  <2> QED  BY <1>2, <2>1, <2>3 DEF PublishOK, BrokerFrame
<1>10. ToBrokerOK(f)'
  <2>1. ASSUME NEW i \in DOMAIN toBroker', NEW q, q = toBroker'[i], q.type = "PUBREL"
        PROVE  PubrelOK(f, q)'
    <3>1. PubrelOK(f, q)
      BY <1>1, <1>2, <2>1 DEF Rest, ToBrokerOK
    <3> QED  BY <1>2, <3>1 DEF PubrelOK, BrokerFrame
  <2>2. ASSUME NEW i \in DOMAIN toBroker'
        PROVE  /\ toBroker'[i].type = "PUBLISH" => PublishOK(f, toBroker[i])'
               /\ toBroker'[i].type = "PUBREL" => PubrelOK(f, toBroker[i])'
    <3>1. PICK q : q = toBroker'[i]
      OBVIOUS
    <3>2. q.type = "PUBLISH" => PublishOK(f, q)'
      BY <1>9, <3>1
    <3>3. q.type = "PUBREL" => PubrelOK(f, q)'
      BY <2>1, <3>1
    <3>4. toBroker'[i].type = "PUBLISH" => PublishOK(f, toBroker[i])'
      BY <3>1, <3>2 DEF PublishOK
    <3>5. toBroker'[i].type = "PUBREL" => PubrelOK(f, toBroker[i])'
      BY <3>1, <3>3 DEF PubrelOK
    <3> QED  BY <3>4, <3>5
  <2>3. ASSUME NEW i \in DOMAIN toBroker', NEW j \in DOMAIN toBroker', i < j,
               toBroker'[i].type = "PUBREL", toBroker'[j].type = "PUBLISH"
        PROVE  toBroker'[i].id # toBroker'[j].id
    <3>1. i + 1 < j + 1
      BY <1>2, <2>3 DEF Rest
    <3> QED  BY <1>1, <1>2, <2>3, <3>1 DEF Rest, ToBrokerOK
  <2> QED  BY <1>2, <2>2, <2>3 DEF ToBrokerOK
<1>11. ASSUME NEW j \in DOMAIN toClient, NEW q, q = toClient[j]
       PROVE  AnswerOK(f, q)'
  <2>1. AnswerOK(f, q)
    BY <1>1, <1>11 DEF ToClientOK, AnswerOK
  <2>2. q.type = "PUBACK" => PubackOK(f, q)'
    BY <1>2, <2>1 DEF AnswerOK, PubackOK, BrokerFrame
  <2>3. ASSUME q.type = "PUBREC" PROVE PubrecOK(f, q)'
    <3>1. PubrecOK(f, q) /\ q.id \in PacketIds
      BY <1>1, <2>1, <2>3, SmallTypes DEF AnswerOK
    <3>2. CASE q.id = p.id
      BY <1>2, <1>7, <3>1, <3>2 DEF PubrecOK, BrokerFrame
    <3>3. CASE q.id # p.id
      <4>1. heldAs'[q.id] = heldAs[q.id]
        BY <1>6, <3>1, <3>3
      <4> QED  BY <1>2, <3>1, <4>1 DEF PubrecOK, BrokerFrame, Rest
    <3> QED  BY <3>2, <3>3
  <2>4. ASSUME q.type = "PUBCOMP" PROVE PubcompOK(f, q)'
    <3>1. PubcompOK(f, q)
      BY <2>1, <2>4 DEF AnswerOK
    <3> QED  BY <1>2, <3>1 DEF PubcompOK, Rest, BrokerFrame
  <2> QED  BY <1>2, <2>1, <2>2, <2>3, <2>4 DEF AnswerOK, BrokerFrame
<1>12. AnswerOK(f, r)'
  <2>1. r.type = "PUBCOMP"
    BY DEF Frees
  <2>2. PubcompOK(f, r)'
    BY <1>2, <1>7 DEF PubcompOK, BrokerFrame
  <2> QED  BY <1>2, <1>5, <2>1, <2>2 DEF AnswerOK, BrokerFrame
<1>13. Adds(r)
  BY <1>1, InsertsAdds
<1>14. ASSUME NEW i \in DOMAIN toClient'
       PROVE  /\ toClient'[i].type # "CONNACK" => toClient'[i].id \in 1 .. lastId'
              /\ toClient'[i].type = "PUBACK" => PubackOK(f, toClient[i])'
              /\ toClient'[i].type = "PUBREC" => PubrecOK(f, toClient[i])'
              /\ toClient'[i].type = "PUBCOMP" => PubcompOK(f, toClient[i])'
  <2>1. PICK q : q = toClient'[i]
    OBVIOUS
  <2>2. q = r \/ \E j \in DOMAIN toClient : q = toClient[j]
    BY <1>13, <2>1 DEF Adds
  <2>3. AnswerOK(f, q)'
    BY <1>11, <1>12, <2>2
  <2> QED  BY <2>1, <2>3, AnswerSame
<1>15. ToClientOK(f)'
  BY <1>13, <1>14 DEF ToClientOK, Adds
<1> QED  BY <1>3, <1>4, <1>8, <1>10, <1>15 DEF CoreOK

(* A packet that changes nothing the broker holds. *)
LEMMA SameGains ==
  ASSUME NEW f, HeldOK(f), NEW x, early' = early, heldAs' = heldAs, delivered' = delivered
  PROVE  Gains(f, x)
BY DEF HeldOK, Gains

(* From the parts to the whole. *)
LEMMA GainsCore ==
  ASSUME FewMessages, IndInv, NEW f, CoreOK(f), BrokerRecv, NEW x \in Ops, Gains(f, x),
         NEW r, Adds(r), AnswerOK(f, r)'
  PROVE  CoreOK(f)'
<1>1. PICK p : p = Head(toBroker)
  OBVIOUS
<1>2. IdsOK(f) /\ HeldOK(f) /\ DoneOK /\ ToBrokerOK(f) /\ ToClientOK(f)
  BY DEF CoreOK
<1>3. BrokerFrame /\ Rest /\ toBroker' \in Seq(BrokerPackets)
  BY <1>1, BrokerTakes
<1>4. IdsOK(f)'
  BY <1>2, <1>3, BrokerFrameIds
<1>5. HeldOK(f)'
  BY <1>2, <1>3, GainsHeld
<1>6. DoneOK'
  BY <1>2, <1>3 DEF DoneOK, BrokerFrame
<1>7. ToBrokerOK(f)'
  BY <1>2, <1>3, GainsToBroker
<1>8. ToClientOK(f)'
  BY <1>2, <1>3, GainsToClient
<1> QED  BY <1>4, <1>5, <1>6, <1>7, <1>8 DEF CoreOK

(* A packet the broker drops. *)
LEMMA DropsCore ==
  ASSUME FewMessages, IndInv, NEW f, CoreOK(f), BrokerRecv, Drops
  PROVE  CoreOK(f)'
<1>1. PICK p : p = Head(toBroker)
  OBVIOUS
<1>2. early' = early
  BY <1>1, BrokerTakes
<1>3. 1 \in Ops
  BY SendOpsAssumption DEF Ops
<1>4. Gains(f, 1)
  BY <1>2, SameGains DEF CoreOK, Drops
<1>5. PICK r : r = [type |-> "CONNACK"]
  OBVIOUS
<1>6. r.type = "CONNACK"
  BY <1>5
<1>7. Adds(r)
  BY DEF Adds, Drops, CoreOK, ToClientOK
<1>8. AnswerOK(f, r)'
  BY <1>6 DEF AnswerOK
<1> QED  BY <1>3, <1>4, <1>7, <1>8, GainsCore

(* The message of a packet id. *)
LEMMA OneMessage ==
  ASSUME NEW f, IdsOK(f), NEW p, PublishOK(f, p), NEW m \in Ops, f[m] = p.id
  PROVE  m = p.msg
BY DEF IdsOK, PublishOK

(* A message refused. *)
LEMMA RefusesCore ==
  ASSUME FewMessages, IndInv, NEW f, CoreOK(f), BrokerRecv, NEW p, p = Head(toBroker),
         NEW r \in Answer, Inserts(r), r.id = p.id, Refuses(p, r)
  PROVE  CoreOK(f)'
<1>1. IdsOK(f) /\ HeldOK(f) /\ ToClientOK(f)
  BY DEF CoreOK
<1>2. BrokerFrame /\ early' = early /\ PublishOK(f, p)
  BY BrokerTakes DEF Refuses
<1>3. /\ p.msg \in Ops /\ p.id = f[p.msg] /\ p.id # 0 /\ p.qos = msgQos[p.msg]
  BY <1>2 DEF PublishOK
<1>4. p.id \in 1 .. lastId /\ p.qos \in {1, 2}
  BY <1>1, <1>3, SmallTypes
<1>5. \A m \in Ops : f[m] = p.id => m = p.msg
  BY <1>1, <1>2, OneMessage
<1>6. r.code = "error" /\ r.type = IF p.qos = 1 THEN "PUBACK" ELSE "PUBREC"
  BY DEF Refuses
<1>7. r.type = "PUBACK" => PubackOK(f, r)'
  BY <1>2, <1>3, <1>5, <1>6 DEF PubackOK, BrokerFrame
<1>8. r.type = "PUBREC" => PubrecOK(f, r)'
  BY <1>2, <1>3, <1>4, <1>5, <1>6 DEF PubrecOK, BrokerFrame
<1>9. AnswerOK(f, r)'
  BY <1>2, <1>4, <1>6, <1>7, <1>8 DEF AnswerOK, BrokerFrame
<1>10. Gains(f, p.msg)
  BY <1>1, <1>2, SameGains DEF Refuses
<1>11. PICK x \in Ops : x = p.msg
  BY <1>3
<1> QED  BY <1>1, <1>9, <1>10, <1>11, InsertsAdds, GainsCore DEF ToClientOK

(* The count of a message handed over. *)
LEMMA HandsOverCount ==
  ASSUME NEW f, HeldOK(f), NEW m \in Ops, HandsOver(m)
  PROVE  /\ delivered' \in [Ops -> 0 .. 2] /\ delivered'[m] > 0
         /\ \A n \in Ops : n # m => delivered'[n] = delivered[n]
         /\ delivered'[m] = IF delivered[m] = 0 \/ msgQos[m] = 1 THEN 1 ELSE 2
BY DEF HeldOK, HandsOver

(* A QoS 1 message is taken. *)
LEMMA TakesOneCore ==
  ASSUME FewMessages, IndInv, NEW f, CoreOK(f), BrokerRecv, NEW p, p = Head(toBroker),
         NEW r \in Answer, Inserts(r), r.id = p.id, TakesOne(p, r)
  PROVE  CoreOK(f)'
<1>1. IdsOK(f) /\ HeldOK(f) /\ ToClientOK(f)
  BY DEF CoreOK
<1>2. BrokerFrame /\ early' = early /\ PublishOK(f, p)
  BY BrokerTakes DEF TakesOne
<1>3. /\ p.msg \in Ops /\ p.id = f[p.msg] /\ p.id # 0 /\ 1 = msgQos[p.msg]
      /\ op[p.msg].st \in {"published", "gone"}
  BY <1>2 DEF PublishOK, TakesOne
<1>4. p.id \in 1 .. lastId
  BY <1>1, <1>3, SmallTypes
<1>5. \A m \in Ops : f[m] = p.id => m = p.msg
  BY <1>1, <1>2, OneMessage
<1>6. r.code = "success" /\ r.type = "PUBACK" /\ HandsOver(p.msg) /\ heldAs' = heldAs
  BY DEF TakesOne
<1>7. /\ delivered' \in [Ops -> 0 .. 2] /\ delivered'[p.msg] > 0
      /\ \A n \in Ops : n # p.msg => delivered'[n] = delivered[n]
  BY <1>1, <1>3, <1>6, HandsOverCount
<1>8. PubackOK(f, r)'
  BY <1>2, <1>3, <1>5, <1>7 DEF PubackOK, BrokerFrame
<1>9. AnswerOK(f, r)'
  BY <1>2, <1>4, <1>6, <1>8 DEF AnswerOK, BrokerFrame
<1>10. Gains(f, p.msg)
  BY <1>1, <1>2, <1>3, <1>6, <1>7 DEF Gains, HeldOK
<1>11. PICK x \in Ops : x = p.msg
  BY <1>3
<1> QED  BY <1>1, <1>9, <1>10, <1>11, InsertsAdds, GainsCore DEF ToClientOK

(* A QoS 2 message is taken. *)
LEMMA TakesTwoHeld ==
  ASSUME FewMessages, IndInv, NEW f, CoreOK(f), BrokerRecv, NEW p, p = Head(toBroker),
         NEW r \in Answer, TakesTwo(p, r)
  PROVE  /\ p.msg \in Ops /\ p.id = f[p.msg] /\ p.id # 0 /\ msgQos[p.msg] = 2
         /\ p.id \in 1 .. lastId /\ p.id \in PacketIds
         /\ op[p.msg].st \in {"published", "gone"}
         /\ heldAs' \in [PacketIds -> 0 .. MaxOps] /\ heldAs'[p.id] = p.msg
         /\ \A id \in PacketIds : id # p.id => heldAs'[id] = heldAs[id]
         /\ heldAs[p.id] = 0 \/ (heldAs[p.id] = p.msg /\ delivered' = delivered)
         /\ heldAs[p.id] = 0 => HandsOver(p.msg)
         /\ delivered' \in [Ops -> 0 .. 2] /\ delivered'[p.msg] > 0
         /\ \A n \in Ops : n # p.msg => delivered'[n] = delivered[n]
<1>1. IdsOK(f) /\ HeldOK(f)
  BY DEF CoreOK
<1>2. PublishOK(f, p)
  BY BrokerTakes DEF TakesTwo
<1>3. /\ p.msg \in Ops /\ p.id = f[p.msg] /\ p.id # 0 /\ 2 = msgQos[p.msg]
      /\ op[p.msg].st \in {"published", "gone"}
  BY <1>2 DEF PublishOK, TakesTwo
<1>4. p.id \in 1 .. lastId /\ p.id \in PacketIds /\ p.msg \in 0 .. MaxOps
  BY <1>1, <1>3, SmallTypes
<1>5. /\ heldAs' \in [PacketIds -> 0 .. MaxOps] /\ heldAs'[p.id] = p.msg
      /\ \A id \in PacketIds : id # p.id => heldAs'[id] = heldAs[id]
  BY <1>1, <1>4 DEF TakesTwo, HeldOK
<1>6. heldAs[p.id] \in 0 .. MaxOps /\ (heldAs[p.id] # 0 => heldAs[p.id] \in Ops)
  BY <1>1, <1>4, SendOpsAssumption DEF HeldOK, Ops
<1>7. heldAs[p.id] # 0 => heldAs[p.id] = p.msg
  BY <1>1, <1>2, <1>4, <1>6, OneMessage DEF HeldOK
<1>8. CASE heldAs[p.id] = 0
  <2>1. HandsOver(p.msg)
    BY <1>8 DEF TakesTwo, None
  <2>2. /\ delivered' \in [Ops -> 0 .. 2] /\ delivered'[p.msg] > 0
        /\ \A n \in Ops : n # p.msg => delivered'[n] = delivered[n]
    BY <1>1, <1>3, <2>1, HandsOverCount
  <2> QED  BY <1>3, <1>4, <1>5, <1>8, <2>1, <2>2
<1>9. CASE heldAs[p.id] # 0
  <2>1. delivered' = delivered
    BY <1>9 DEF TakesTwo, None
  <2>2. delivered[p.msg] > 0 /\ delivered \in [Ops -> 0 .. 2]
    BY <1>1, <1>3, <1>4, <1>7, <1>9 DEF HeldOK
  <2> QED  BY <1>3, <1>4, <1>5, <1>7, <1>9, <2>1, <2>2
<1> QED  BY <1>8, <1>9

(* A QoS 2 message is taken: the parts. *)
LEMMA TakesTwoCore ==
  ASSUME FewMessages, IndInv, NEW f, CoreOK(f), BrokerRecv, NEW p, p = Head(toBroker),
         NEW r \in Answer, Inserts(r), r.id = p.id, TakesTwo(p, r)
  PROVE  CoreOK(f)'
<1>1. IdsOK(f) /\ HeldOK(f) /\ ToClientOK(f) /\ ToBrokerOK(f)
  BY DEF CoreOK
<1>2. BrokerFrame /\ early' = early /\ PublishOK(f, p) /\ Rest
  BY BrokerTakes DEF TakesTwo
<1>3. /\ p.msg \in Ops /\ p.id = f[p.msg] /\ p.id # 0 /\ msgQos[p.msg] = 2
      /\ p.id \in 1 .. lastId /\ p.id \in PacketIds
      /\ op[p.msg].st \in {"published", "gone"}
      /\ heldAs' \in [PacketIds -> 0 .. MaxOps] /\ heldAs'[p.id] = p.msg
      /\ \A id \in PacketIds : id # p.id => heldAs'[id] = heldAs[id]
      /\ heldAs[p.id] = 0 \/ (heldAs[p.id] = p.msg /\ delivered' = delivered)
      /\ delivered' \in [Ops -> 0 .. 2] /\ delivered'[p.msg] > 0
      /\ \A n \in Ops : n # p.msg => delivered'[n] = delivered[n]
  BY TakesTwoHeld
<1>4. Gains(f, p.msg)
  BY <1>2, <1>3 DEF Gains
<1>5. \A m \in Ops : f[m] = p.id => m = p.msg
  BY <1>1, <1>2, OneMessage
<1>6. r.code = "success" /\ r.type = "PUBREC"
  BY DEF TakesTwo
<1>7. ASSUME NEW i \in DOMAIN toBroker', toBroker'[i].type = "PUBLISH",
             toBroker'[i].id = p.id
      PROVE  toBroker'[i].msg = p.msg
  <2>1. PICK q : q = toBroker'[i]
    OBVIOUS
  <2>2. PublishOK(f, q)
    BY <1>1, <1>2, <1>7, <2>1 DEF Rest, ToBrokerOK
  <2> QED  BY <1>5, <1>7, <2>1, <2>2 DEF PublishOK
<1>8. PubrecOK(f, r)'
  BY <1>2, <1>3, <1>5, <1>6, <1>7 DEF PubrecOK, BrokerFrame
<1>9. AnswerOK(f, r)'
  BY <1>2, <1>3, <1>6, <1>8 DEF AnswerOK, BrokerFrame
<1>10. PICK x \in Ops : x = p.msg
  BY <1>3
<1> QED  BY <1>1, <1>4, <1>9, <1>10, InsertsAdds, GainsCore DEF ToClientOK

(* Every packet to the broker. *)
LEMMA BrokerRecvCore ==
  ASSUME FewMessages, IndInv, NEW f, CoreOK(f), BrokerRecv
  PROVE  CoreOK(f)'
<1>1. PICK p : p = Head(toBroker)
  OBVIOUS
<1>2. CASE Drops
  BY <1>2, DropsCore
<1>3. ASSUME NEW r \in Answer, Inserts(r), r.id = p.id,
             Refuses(p, r) \/ TakesOne(p, r) \/ TakesTwo(p, r) \/ Frees(p, r)
      PROVE  CoreOK(f)'
  BY <1>1, <1>3, RefusesCore, TakesOneCore, TakesTwoCore, FreesCore
<1> QED  BY <1>1, <1>2, <1>3, BrokerCases

(* The channels when they are emptied but for e. *)
LEMMA EmptiedCore ==
  ASSUME NEW f, NEW e \in BrokerPackets, e.type \notin {"PUBLISH", "PUBREL"},
         toBroker' = <<>> \/ toBroker' = <<e>>,
         NEW c, toClient' = <<>> \/ (c \in Connacks /\ toClient' = <<c>>)
  PROVE  ToBrokerOK(f)' /\ ToClientOK(f)'
<1>1. c \in Connacks => c.type = "CONNACK" /\ c \in Answer \cup Connacks
  BY DEF Connacks
<1>2. <<>> \in Seq(BrokerPackets) /\ <<e>> \in Seq(BrokerPackets)
  OBVIOUS
<1>3. <<>> \in Seq(Answer \cup Connacks)
  OBVIOUS
<1>4. c \in Answer \cup Connacks => <<c>> \in Seq(Answer \cup Connacks)
  OBVIOUS
<1>5. toBroker' \in Seq(BrokerPackets) /\ toClient' \in Seq(Answer \cup Connacks)
  BY <1>1, <1>2, <1>3, <1>4
<1>6. \A i \in DOMAIN toBroker' : toBroker'[i] = e
  OBVIOUS
<1>7. \A i \in DOMAIN toClient' : toClient'[i] = c /\ c.type = "CONNACK"
  BY <1>1
<1>8. ToBrokerOK(f)'
  BY <1>5, <1>6 DEF ToBrokerOK
<1>9. ToClientOK(f)'
  BY <1>5, <1>7 DEF ToClientOK
<1> QED  BY <1>8, <1>9

(* A connection begins or ends. *)
LEMMA SeveredCore ==
  ASSUME FewMessages, IndInv, IndInv', NEW f, CoreOK(f), Silent, Severed,
         NEW e \in BrokerPackets, e.type \notin {"PUBLISH", "PUBREL"},
         toBroker' = <<>> \/ toBroker' = <<e>>
  PROVE  CoreOK(f)' /\ Moves(f, f, {})
<1>1. Frame /\ toClient' = <<>> /\ completed' = completed /\ msgQos' = msgQos
  BY DEF Severed, Frame
<1>2. IdsOK(f) /\ HeldOK(f) /\ DoneOK /\ Shrinks
  BY DEF CoreOK, Silent, Shrinks
<1>3. IdsOK(f)' /\ Moves(f, f, {})
  BY <1>1, <1>2, ShrinkMoves
<1>4. HeldOK(f)'
  BY <1>1, <1>2, <1>3, HeldKept
<1>5. DoneOK'
  BY <1>1, <1>2, <1>3, DoneKept
<1>6. ToBrokerOK(f)' /\ ToClientOK(f)'
  BY <1>1, EmptiedCore
<1> QED  BY <1>3, <1>4, <1>5, <1>6 DEF CoreOK

(* A new connection. *)
LEMMA ConnectCore ==
  ASSUME FewMessages, IndInv, IndInv', NEW f, CoreOK(f), ClientConnect
  PROVE  /\ CoreOK(f)' /\ Moves(f, f, {}) /\ op' = op
         /\ toBroker' = <<>> \/ toBroker' = <<Sent("CONNECT", 0, 0, 0)>>
<1>1. Connect /\ Transmits(<<>>, None) /\ Severed
  BY DEF ClientConnect
<1>2. Silent /\ op' = op
  BY <1>1, RestingClass
<1>3. 0 \in PacketIds /\ 0 \in 0 .. MaxOps /\ 0 \in 0 .. 2
  BY SmallTypes DEF CoreOK
<1>4. Sent("CONNECT", 0, 0, 0) \in BrokerPackets /\ Sent("CONNECT", 0, 0, 0).type = "CONNECT"
  BY <1>3, SentFields
<1>5. out' = NoPacket \/ out' = Packet("CONNECT", 0, FALSE)
  BY <1>1 DEF Connect
<1>7. ASSUME out' = Packet("CONNECT", 0, FALSE)
      PROVE  toBroker' = <<Sent("CONNECT", 0, 0, 0)>>
  <2>1. out'.type = "CONNECT" /\ out'.op = 0
    BY <1>7 DEF Packet
  <2>2. toBroker' = Append(<<>>, Sent("CONNECT", 0, 0, 0))
    BY <1>1, <2>1, TransmitsFacts DEF None
  <2>3. ASSUME NEW e PROVE Append(<<>>, e) = <<e>>
    OBVIOUS
  <2> QED  BY <2>2, <2>3
<1>8. toBroker' = <<>> \/ toBroker' = <<Sent("CONNECT", 0, 0, 0)>>
  <2>1. out' = NoPacket => toBroker' = <<>>
    BY <1>1, TransmitsFacts DEF NoPacket
  <2> QED  BY <1>5, <1>7, <2>1
<1>9. PICK e : e = Sent("CONNECT", 0, 0, 0)
  OBVIOUS
<1>10. CoreOK(f)' /\ Moves(f, f, {})
  BY <1>1, <1>2, <1>4, <1>8, <1>9, SeveredCore
<1> QED  BY <1>2, <1>8, <1>10

(* The network is gone. *)
LEMMA LostCore ==
  ASSUME FewMessages, IndInv, IndInv', NEW f, CoreOK(f), NetworkLost
  PROVE  CoreOK(f)' /\ Moves(f, f, {}) /\ Silent
<1>1. NetworkDisconnected /\ toBroker' = <<>> /\ Severed
  BY DEF NetworkLost
<1>2. Silent
  BY <1>1, EndingClass
<1>3. 0 \in PacketIds /\ 0 \in 0 .. MaxOps /\ 0 \in 0 .. 2
  BY SmallTypes DEF CoreOK
<1>4. PICK e : e = Sent("CONNECT", 0, 0, 0)
  OBVIOUS
<1>5. e \in BrokerPackets /\ e.type = "CONNECT"
  BY <1>3, <1>4, SentFields
<1> QED  BY <1>1, <1>2, <1>5, SeveredCore

(* The broker accepts the connection, with or without the session. *)
LEMMA ConnackCore ==
  ASSUME FewMessages, IndInv, NEW f, CoreOK(f), LinkOK,
         NEW present \in SessionReplies, NEW limit \in SendLimits, NEW expiry \in Expiries,
         BrokerConnack(present, limit, expiry)
  PROVE  /\ CoreOK(f)' /\ toBroker' = <<>> /\ BrokerFrame
         /\ \E c \in Connacks : /\ toClient' = <<c>> /\ c.limit = limit /\ c.id = 0
                                /\ c.type = "CONNACK"
<1>1. /\ toBroker # <<>> /\ Head(toBroker).type = "CONNECT" /\ BrokerFrame
      /\ toBroker' = Tail(toBroker) /\ delivered' = delivered
      /\ heldAs' = IF present THEN heldAs ELSE [id \in PacketIds |-> None]
      /\ early' = early \cup {m \in Published : ~present /\ ~op[m].acked
                                /\ \E id \in PacketIds : heldAs[id] = m}
  BY DEF BrokerConnack, BrokerFrame, ClientRests, id_vars
<1>2. IdsOK(f) /\ HeldOK(f) /\ DoneOK /\ toBroker \in Seq(BrokerPackets)
  BY DEF CoreOK, ToBrokerOK
<1>3. /\ 1 \in DOMAIN toBroker /\ Head(toBroker) = toBroker[1]
      /\ Tail(toBroker) \in Seq(BrokerPackets) /\ Len(Tail(toBroker)) = Len(toBroker) - 1
  BY <1>1, <1>2, TailFacts
<1>4. Len(toBroker) = 1
  BY <1>1, <1>3 DEF LinkOK, ChannelsOK
<1>5. toBroker' = <<>>
  BY <1>1, <1>3, <1>4, EmptySeq
<1>6. PICK c : c = [type |-> "CONNACK", present |-> present, limit |-> limit,
                    expiry |-> expiry, id |-> None]
  OBVIOUS
<1>7. c \in Connacks /\ c.limit = limit /\ c.id = 0 /\ c.type = "CONNACK"
  BY <1>6 DEF Connacks, None
<1>8. toClient' = <<c>>
  BY <1>6 DEF BrokerConnack
<1>9. 0 \in PacketIds /\ 0 \in 0 .. MaxOps /\ 0 \in 0 .. 2
  BY SmallTypes DEF CoreOK
<1>10. PICK e : e = Sent("CONNECT", 0, 0, 0)
  OBVIOUS
<1>11. e \in BrokerPackets /\ e.type = "CONNECT"
  BY <1>9, <1>10, SentFields
<1>12. ToBrokerOK(f)' /\ ToClientOK(f)'
  BY <1>5, <1>7, <1>8, <1>11, EmptiedCore
<1>13. IdsOK(f)' /\ DoneOK'
  BY <1>1, <1>2, BrokerFrameIds DEF DoneOK, BrokerFrame
<1>14. HeldOK(f)'
  <2>1. heldAs' \in [PacketIds -> 0 .. MaxOps]
    BY <1>1, <1>2, <1>9 DEF HeldOK, None
  <2>2. early' \subseteq Ops
    BY <1>1, <1>2 DEF HeldOK, Published
  <2>3. ASSUME NEW m \in Ops, NEW id \in PacketIds, heldAs'[id] = m
        PROVE  f[m] = id /\ id # 0 /\ msgQos[m] = 2 /\ delivered[m] > 0
    <3>1. m # 0
      BY <1>2, SmallTypes
    <3>2. heldAs[id] = m
      BY <1>1, <2>3, <3>1 DEF None
    <3> QED  BY <1>2, <3>2 DEF HeldOK
  <2>4. ASSUME NEW m \in Ops, op[m].st = "published", msgQos[m] = 2, ~op[m].acked,
               delivered[m] > 0, m \notin early'
        PROVE  heldAs'[f[m]] = m
    <3>1. heldAs[f[m]] = m /\ f[m] # 0
      BY <1>1, <1>2, <2>4 DEF HeldOK, IdsOK
    <3>2. f[m] \in PacketIds
      BY <1>2, <3>1, SmallTypes
    <3>3. m \in Published
      BY <2>4 DEF Published
    <3>4. present
      BY <1>1, <2>4, <3>1, <3>2, <3>3
    <3> QED  BY <1>1, <3>1, <3>4
  <2> QED  BY <1>1, <1>2, <2>1, <2>2, <2>3, <2>4 DEF HeldOK, BrokerFrame
<1> QED  BY <1>1, <1>5, <1>7, <1>8, <1>12, <1>13, <1>14 DEF CoreOK

------------------------------------------------------------------------------
(* The session and the call in progress. *)

(* The operations in flight were in flight, and their timers stay suspended. *)
StillSuspended ==
    \A o \in Published' : o \in Published /\ op'[o].suspended = op[o].suspended

(* A step that leaves the session alone. *)
SameSession == UNCHANGED <<session, initialized, connecting, fullOrdering>>

(* What is left to show for such a step. *)
LEMMA SessionKept ==
  ASSUME SessionOK, SameSession, ~session.connected => StillSuspended,
         Offline => call'.loop = "none" /\ ~call'.closing
  PROVE  SessionOK'
<1>1. (Offline' <=> Offline) /\ connecting' = connecting
  BY DEF Offline, SameSession
<1> QED  BY <1>1 DEF SessionOK, SameSession, StillSuspended

(* The timers when the operations are left alone. *)
LEMMA SameSuspended ==
  ASSUME op' = op
  PROVE  StillSuspended
<1>1. Published' = Published
  BY DEF Published
<1> QED  BY <1>1 DEF StillSuspended

(* The timers when an operation leaves. *)
LEMMA ErasedSuspended ==
  ASSUME OpsInv, NEW o \in Ops, op' = [op EXCEPT ![o] = OpIn("gone")]
  PROVE  StillSuspended
<1>1. op'[o] = OpIn("gone") /\ \A p \in Ops : p # o => op'[p] = op[p]
  BY DEF OpsInv, OpsTypeOK
<1>2. OpIn("gone").st # "published"
  BY DEF OpIn
<1>3. ASSUME NEW p \in Published' PROVE p \in Ops /\ p # o
  BY <1>1, <1>2, <1>3 DEF Published
<1> QED  BY <1>1, <1>3 DEF StillSuspended, Published

(* opComplete() of one operation. *)
LEMMA CompleteSuspended ==
  ASSUME OpsInv, NEW o \in Ops, NEW from, CompleteWithCb(o, from)
  PROVE  StillSuspended
BY ErasedSuspended DEF CompleteWithCb, Complete, Erased

(* resendDupMsg() *)
LEMMA ResendDupSuspended ==
  ASSUME OpsInv, NEW o \in Ops, NEW from, ResendDupMsg(o, from)
  PROVE  StillSuspended
<1>1. CASE CompleteWithCb(o, from)
  BY <1>1, CompleteSuspended
<1>2. CASE op' = [op EXCEPT ![o].attempts = @ + 1, ![o].timer = TRUE]
  <2>1. op \in [Ops -> Op] /\ op[o] \in Op
    BY DEF OpsInv, OpsTypeOK
  <2>2. op'[o] = [op[o] EXCEPT !.attempts = @ + 1, !.timer = TRUE]
        /\ \A p \in Ops : p # o => op'[p] = op[p]
    BY <1>2, <2>1
  <2>3. op'[o].st = op[o].st /\ op'[o].suspended = op[o].suspended
    BY <2>1, <2>2 DEF Op
  <2> QED  BY <2>2, <2>3 DEF StillSuspended, Published
<1> QED  BY <1>1, <1>2 DEF ResendDupMsg

(* The end of a session suspends the timers of what it keeps. *)
LEMMA DisconnectedSuspends ==
  ASSUME OpsInv, BrokerDisconnected
  PROVE  \A o \in Published' : op'[o].suspended
<1> DEFINE preserve == session.expiry # "zero" /\ Live # {}
<1>1. CASE preserve
  <2>1. op' = [o \in Ops |-> [op[o] EXCEPT !.suspended = op[o].timer \/ op[o].suspended]]
    BY <1>1 DEF BrokerDisconnected
  <2>2. ASSUME NEW o \in Ops, op'[o].st = "published" PROVE op'[o].suspended
    <3>1. op[o] \in Op
      BY DEF OpsInv, OpsTypeOK
    <3>2. op'[o] = [op[o] EXCEPT !.suspended = op[o].timer \/ op[o].suspended]
      BY <2>1
    <3>3. op'[o].st = op[o].st /\ op'[o].suspended = (op[o].timer \/ op[o].suspended)
      BY <3>1, <3>2 DEF Op
    <3>4. op[o].timer
      BY <2>2, <3>3 DEF OpsInv, AwaitsAnswer, Published
    <3> QED  BY <3>3, <3>4
  <2> QED  BY <2>2 DEF Published
<1>2. CASE ~preserve
  <2>1. op' = [o \in Ops |-> IF o \in Live THEN OpIn("gone") ELSE op[o]]
    BY <1>2 DEF BrokerDisconnected
  <2> QED  BY <2>1 DEF Published, Live, OpIn
<1> QED  BY <1>1, <1>2

(* The session once it is closed. *)
LEMMA DisconnectedSession ==
  ASSUME IndInv, SessionOK, BrokerDisconnected, fullOrdering' = fullOrdering
  PROVE  /\ SessionOK' /\ ~session'.connected /\ session'.disconnecting
         /\ ~Offline'
<1>1. /\ session'.connected = FALSE /\ session'.disconnecting = TRUE
      /\ session'.smallPackets = session.smallPackets /\ connecting' = FALSE
  BY DEF BrokerDisconnected, IndInv, RestTypeOK, SessionTypes
<1>2. \A o \in Published' : op'[o].suspended
  BY DisconnectedSuspends DEF IndInv, StepInv
<1> QED  BY <1>1, <1>2 DEF SessionOK, Offline

(* A new session. *)
LEMMA NewSessionFields ==
  /\ ~NewSession.connected /\ ~NewSession.disconnecting /\ ~NewSession.smallPackets
  /\ NewSession.smallPackets = FALSE
BY DEF NewSession

(* connectPrepare() and ConnectOp::send() *)
LEMMA SessionConnect ==
  ASSUME IndInv, SessionOK, Connect
  PROVE  SessionOK' /\ Offline' /\ call' = NoCall
<1>1. /\ initialized' = TRUE /\ session' = IF initialized THEN session ELSE NewSession
      /\ initialized => ~session.disconnecting /\ ~session.connected
      /\ call = NoCall /\ call' = call /\ op' = op /\ fullOrdering' = fullOrdering
  BY DEF Connect, ConnectPrepare, Idle
<1>2. Offline' /\ session'.smallPackets = FALSE
  BY <1>1, NewSessionFields DEF Offline, SessionOK
<1>3. ~session.connected
  BY <1>1 DEF SessionOK
<1>4. \A o \in Published' : op'[o].suspended
  BY <1>1, <1>3 DEF SessionOK, Published
<1>5. call'.loop = "none" /\ ~call'.closing
  BY <1>1, PlainCalls
<1> QED  BY <1>1, <1>2, <1>4, <1>5 DEF SessionOK

(* The ConnectOp ends without a connection. *)
LEMMA SessionConnectFails ==
  ASSUME IndInv, OrderInv, SessionOK, ConnectFails
  PROVE  SessionOK' /\ Offline /\ Offline' /\ call' = Guarded
<1>1. /\ connecting /\ connecting' = FALSE /\ session' = NewSession /\ call' = Guarded
      /\ op' = op /\ fullOrdering' = fullOrdering /\ call = NoCall
  BY DEF ConnectFails, Idle
<1>2. Offline' /\ session'.smallPackets = FALSE /\ ~session'.connected
  BY <1>1, NewSessionFields DEF Offline
<1>3. Offline => ~session.connected
  BY DEF Offline
<1>4. Offline
  BY <1>1 DEF SessionOK
<1>5. \A o \in Published' : op'[o].suspended
  BY <1>1, <1>3, <1>4 DEF SessionOK, Published
<1> QED  BY <1>1, <1>2, <1>4, <1>5, PlainCalls DEF SessionOK

(* What every step of the client but connecting, receiving and losing the    *)
(* network keeps.                                                             *)
Steady ==
    /\ SessionOK'
    /\ Offline <=> Offline'
    /\ Offline => out'.type = "none"
    /\ session'.connected => session' = session
    /\ call'.closing => call.closing
    /\ call'.loop = "reconnect" => call.loop = "reconnect"

(* A step that leaves the session alone. *)
LEMMA SteadyKept ==
  ASSUME SessionOK, SameSession, ~session.connected => StillSuspended,
         Offline => out'.type = "none",
         call'.closing => call.closing,
         call'.loop = "reconnect" => call.loop = "reconnect",
         Offline => call'.loop = "none"
  PROVE  Steady
<1>1. SessionOK'
  BY SessionKept DEF SessionOK
<1>2. Offline <=> Offline'
  BY DEF Offline, SameSession
<1> QED  BY <1>1, <1>2 DEF Steady, SameSession

(* publishPrepare(), send() and cancel() *)
LEMMA SteadyPrepare ==
  ASSUME IndInv, SessionOK, NEW o \in Ops, Prepare(o, msgQos[o])
  PROVE  Steady
<1>1. session.connected /\ call' = call /\ SameSession
  BY DEF Prepare, SameSession, session_vars
<1>2. ~Offline
  BY <1>1 DEF Offline
<1> QED  BY <1>1, <1>2, SteadyKept

(* send() *)
LEMMA SteadySend ==
  ASSUME FewMessages, IndInv, NEW f, IdsOK(f), LinkOK, NEW o \in Ops, Send(o), ~SendsLate
  PROVE  Steady
<1>1. session.connected /\ SameSession /\ op[o].st = "prepared"
  BY DEF Send, SendId, SameSession, session_vars
<1>2. ~Offline /\ SessionOK
  BY <1>1 DEF Offline, LinkOK
<1>3. fits(o) /\ op[o].qos # 0
  <2>1. o \in Live
    BY <1>1 DEF Live
  <2> QED  BY <2>1, AlwaysFits
<1>4. call' = call \/ call' = Guarded
  BY <1>3 DEF Send, SendId
<1> QED  BY <1>1, <1>2, <1>4, SteadyKept, PlainCalls

(* cancel() *)
LEMMA SteadyCancel ==
  ASSUME IndInv, SessionOK, NEW o \in Ops, Cancel(o)
  PROVE  Steady
<1>1. /\ SameSession /\ out' = NoPacket /\ call' = Resuming(o, NoCall)
      /\ op' = [op EXCEPT ![o] = OpIn("gone")]
  BY DEF Cancel, Complete, Erased, SameSession, session_vars
<1>2. StillSuspended
  BY <1>1, ErasedSuspended DEF IndInv, StepInv
<1>3. call'.loop = "none" /\ call'.closing = FALSE
  BY <1>1, ResumingFields, CallsTyped, PlainCalls
<1> QED  BY <1>1, <1>2, <1>3, SteadyKept, PacketFields

(* The ends of a session. *)
LEMMA SteadyEnds ==
  ASSUME IndInv, OrderInv, SessionOK,
         Disconnect(FALSE) \/ ConnectFails \/ SessionExpiryTimeout \/ Terminate
  PROVE  Steady
<1>1. ASSUME Disconnect(FALSE) PROVE Steady
  <2>1. session.connected /\ call' = Guarded /\ BrokerDisconnected
        /\ fullOrdering' = fullOrdering
    BY <1>1 DEF Disconnect
  <2>2. SessionOK' /\ ~session'.connected /\ ~Offline /\ ~Offline'
    BY <2>1, DisconnectedSession DEF Offline
  <2> QED  BY <2>1, <2>2, PlainCalls DEF Steady
<1>2. ASSUME ConnectFails PROVE Steady
  <2>1. SessionOK' /\ Offline /\ Offline' /\ call' = Guarded /\ out' = NoPacket
    BY <1>2, SessionConnectFails DEF ConnectFails
  <2>2. ~session'.connected
    BY <2>1 DEF Offline
  <2> QED  BY <2>1, <2>2, PlainCalls, PacketFields DEF Steady
<1>3. ASSUME SessionExpiryTimeout PROVE Steady
  <2>1. /\ SameSession /\ out' = NoPacket /\ call' = Guarded
        /\ op' = [o \in Ops |-> IF o \in Live THEN OpIn("gone") ELSE op[o]]
    BY <1>3 DEF SessionExpiryTimeout, ExpiryTimer, SameSession
  <2>2. Published' = {}
    BY <2>1 DEF Published, Live, OpIn
  <2>3. StillSuspended
    BY <2>2 DEF StillSuspended
  <2> QED  BY <2>1, <2>3, SteadyKept, PlainCalls, PacketFields
<1>4. ASSUME Terminate PROVE Steady
  <2>1. /\ call.closing /\ call' = [call EXCEPT !.closing = FALSE] /\ BrokerDisconnected
        /\ fullOrdering' = fullOrdering
    BY <1>4 DEF Terminate
  <2>2. SessionOK' /\ ~session'.connected /\ ~Offline'
    BY <2>1, DisconnectedSession
  <2>3. call'.closing = FALSE /\ call'.loop = call.loop
    BY <2>1 DEF IndInv, StepInv, CallOK, CallTypes
  <2>4. ~Offline
    BY <2>1 DEF SessionOK
  <2> QED  BY <2>2, <2>3, <2>4 DEF Steady
<1> QED  BY <1>1, <1>2, <1>3, <1>4

(* resendDupMsg() returns to the call it was made from. *)
LEMMA ResendDupCall ==
  ASSUME NEW o \in Ops, NEW from, CallOK(from), ResendDupMsg(o, from)
  PROVE  call'.closing = from.closing /\ call'.loop = from.loop
BY CompleteCall DEF ResendDupMsg

(* The response timer of an operation. *)
LEMMA SteadyTimeout ==
  ASSUME IndInv, LinkOK, NEW o \in Ops, ResponseTimeout(o)
  PROVE  Steady
<1>1. session.connected
  BY TimeoutClass
<1>2. SameSession /\ ResendDupMsg(o, Guarded)
  BY DEF ResponseTimeout, ResponseTimer, SameSession, session_vars
<1>3. call'.loop = "none" /\ call'.closing = FALSE
  BY <1>2, ResendDupCall, CallsTyped, PlainCalls
<1>4. ~Offline /\ SessionOK
  BY <1>1 DEF Offline, LinkOK
<1> QED  BY <1>1, <1>2, <1>3, <1>4, SteadyKept

(* The loops over the operations do not run outside of a connection. *)
LEMMA SteadyLoop ==
  ASSUME IndInv, SessionOK, SameSession, call.loop # "none", StillSuspended,
         call'.closing => call.closing,
         call'.loop = "reconnect" => call.loop = "reconnect"
  PROVE  Steady
<1>1. ~Offline
  BY DEF SessionOK
<1> QED  BY <1>1, SteadyKept

(* resendAllUntil() *)
LEMMA SteadyResend ==
  ASSUME IndInv, SessionOK, ResendNext
  PROVE  Steady
<1>1. call.loop = "resend" /\ SameSession
  BY DEF ResendNext, InLoop, SameSession, session_vars
<1>2. CallOK(call) /\ OpsInv
  BY DEF IndInv, StepInv
<1>3. CallOK(Advanced) /\ Advanced.closing = call.closing
      /\ Advanced.loop \in {call.loop, "none"}
  BY <1>1, <1>2, AdvancedTyped, AdvancedFields
<1>4. CASE Unsent(call.at)
  BY <1>1, <1>4, SteadyLoop, SameSuspended DEF ResendNext, Faults
<1>5. CASE ~Unsent(call.at) /\ call.at \in Published
  <2>1. ResendDupMsg(call.at, Advanced) /\ call.at \in Ops
    BY <1>5, OpsAreInts DEF ResendNext
  <2>2. call'.closing = call.closing /\ call'.loop \in {call.loop, "none"}
    BY <1>3, <2>1, ResendDupCall
  <2> QED  BY <1>1, <1>2, <2>1, <2>2, SteadyLoop, ResendDupSuspended
<1>6. CASE ~Unsent(call.at) /\ call.at \notin Published
  <2>1. op' = op /\ call' = Advanced
    BY <1>6 DEF ResendNext, Skip
  <2> QED  BY <1>1, <1>3, <2>1, SteadyLoop, SameSuspended
<1> QED  BY <1>4, <1>5, <1>6

(* The loop over the operations of a lost session. *)
LEMMA SteadyAbort ==
  ASSUME IndInv, SessionOK, AbortNext
  PROVE  Steady
<1>1. call.loop = "abort" /\ SameSession
  BY DEF AbortNext, InLoop, SameSession, session_vars
<1>2. CallOK(call) /\ OpsInv
  BY DEF IndInv, StepInv
<1>3. CallOK(Advanced) /\ Advanced.closing = call.closing
      /\ Advanced.loop \in {call.loop, "none"}
  BY <1>1, <1>2, AdvancedTyped, AdvancedFields
<1>4. CASE call.at \in nulls
  BY <1>1, <1>4, SteadyLoop, SameSuspended DEF AbortNext, Faults
<1>5. CASE call.at \notin nulls /\ call.at \in Live
  <2>1. CompleteWithCb(call.at, Advanced) /\ call.at \in Ops
    BY <1>5, OpsAreInts DEF AbortNext
  <2>2. call'.closing = call.closing /\ call'.loop \in {call.loop, "none"}
    BY <1>3, <2>1, CompleteCall
  <2> QED  BY <1>1, <1>2, <2>1, <2>2, SteadyLoop, CompleteSuspended
<1>6. CASE call.at \notin nulls /\ call.at \notin Live
  <2>1. op' = op /\ call' = Advanced
    BY <1>6 DEF AbortNext, Skip
  <2> QED  BY <1>1, <1>3, <2>1, SteadyLoop, SameSuspended
<1> QED  BY <1>4, <1>5, <1>6

(* The loop over the kept operations after a reconnection: it steps over what *)
(* it repeats or what has nothing to be repeated.                             *)
LEMMA SteadyReconnect ==
  ASSUME IndInv, OrderInv, LinkOK, ReconnectNext
  PROVE  /\ Steady /\ session.connected /\ call.loop = "reconnect"
         /\ \/ Silent /\ op' = op /\ out' = NoPacket
               /\ (call' = call \/ (call.at \notin Published /\ call'.at = call.at + 1))
            \/ Repeats(call.at) /\ call'.at = call.at + 1
<1>1. call.loop = "reconnect" /\ SameSession
  BY DEF ReconnectNext, InLoop, SameSession, session_vars
<1>2. session.connected /\ SessionOK
  BY <1>1 DEF LinkOK, SessionOK, Offline, OrderInv, QueueInv, LoopOK
<1>3. ~Offline
  BY <1>2 DEF Offline
<1>4. call' = call \/ call' = [call EXCEPT !.at = @ + 1]
  BY DEF ReconnectNext, Faults
<1>5. call \in CallTypes
  BY DEF IndInv, StepInv, CallOK
<1>6. call'.closing = call.closing /\ call'.loop = call.loop
      /\ (call' = call \/ call'.at = call.at + 1)
  BY <1>4, <1>5 DEF CallTypes
<1>7. Steady
  BY <1>1, <1>2, <1>3, <1>6, SteadyKept
<1>8. \/ Silent /\ op' = op /\ (call' = call \/ call.at \notin Published)
      \/ Repeats(call.at)
  BY ReconnectClass
<1>9. Silent => out' = NoPacket
  <2>1. ReconnectNext /\ ~(out' = NoPacket) => out' = DupPacket(call.at)
    BY DEF ReconnectNext, Faults
  <2>2. DupPacket(call.at).type \in {"PUBLISH", "PUBREL"}
    BY DEF DupPacket, Packet
  <2> QED  BY <2>1, <2>2 DEF Silent
<1>10. Repeats(call.at) => call'.at = call.at + 1
  <2>1. Repeats(call.at) => out' # NoPacket
    BY DEF Repeats, DupPacket, Packet, NoPacket
  <2>2. out' # NoPacket => call' = [call EXCEPT !.at = @ + 1]
    BY DEF ReconnectNext, Faults
  <2> QED  BY <1>5, <2>1, <2>2 DEF CallTypes
<1> QED  BY <1>1, <1>2, <1>6, <1>7, <1>8, <1>9, <1>10

(* resumeSendOpsSince() *)
LEMMA SteadyResume ==
  ASSUME FewMessages, IndInv, OrderInv, NEW f, IdsOK(f), LinkOK, ResumeNext
  PROVE  Steady
<1> DEFINE waiting == {p \in Paused : call.resume <= p}
           o == Least(waiting)
<1>1. SameSession /\ SessionOK /\ CallOK(call)
  BY DEF ResumeNext, SameSession, session_vars, LinkOK, IndInv, StepInv
<1>2. CASE Silent /\ op' = op
  <2>1. Offline => out'.type = "none"
    <3>1. out' = NoPacket \/ \E p : DoSend(p, call)
      BY DEF ResumeNext
    <3>2. ASSUME NEW p, DoSend(p, call) PROVE out' = NoPacket \/ out'.type = "PUBLISH"
      BY <3>2 DEF DoSend, Packet
    <3> QED  BY <1>2, <3>1, <3>2, PacketFields DEF Silent
  <2>2. call'.closing = call.closing /\ call'.loop = call.loop
    <3>1. CASE call' = [call EXCEPT !.resume = 0]
      BY <1>1, <3>1 DEF CallOK, CallTypes
    <3>2. CASE waiting # {} /\ DoSend(o, call)
      <4>1. waiting \subseteq Nat
        BY OpsAreInts
      <4>2. o \in waiting
        <5> HIDE DEF waiting
        <5> QED  BY <3>2, <4>1, LeastInSet
      <4>3. o \in Ops
        BY <4>2, OpsAreInts
      <4> HIDE DEF o, waiting
      <4>4. call' = call \/ CompleteWithCb(o, call)
        BY <3>2 DEF DoSend
      <4> QED  BY <1>1, <4>3, <4>4, CompleteCall
    <3> QED  BY <3>1, <3>2 DEF ResumeNext
  <2> QED  BY <1>1, <1>2, <2>1, <2>2, SteadyKept, SameSuspended DEF SessionOK
<1>3. CASE session.connected /\ call' = call
  <2>1. ~Offline
    BY <1>3 DEF Offline
  <2> QED  BY <1>1, <1>3, <2>1, SteadyKept
<1> QED  BY <1>2, <1>3, ResumeClass

(* The other steps of a call. *)
LEMMA SteadyRest ==
  ASSUME IndInv, SessionOK, CallbackReturns \/ ReconnectResume \/ ApiExit
  PROVE  Steady /\ out' = NoPacket
<1>1. op' = op /\ out' = NoPacket /\ SameSession /\ call \in CallTypes
  BY DEF CallbackReturns, ReconnectResume, ApiExit, SameSession, session_vars, IndInv,
         StepInv, CallOK
<1>2. ASSUME CallbackReturns PROVE call'.closing = call.closing /\ call'.loop = call.loop
  BY <1>1, <1>2 DEF CallbackReturns, CallTypes
<1>3. ASSUME ReconnectResume PROVE call'.closing = call.closing /\ call'.loop = "none"
  BY <1>1, <1>3 DEF ReconnectResume, EndOfLoop, CallTypes
<1>4. ASSUME ApiExit PROVE ~call'.closing /\ call'.loop = "none"
  BY <1>4, PlainCalls DEF ApiExit
<1>5. /\ call'.closing => call.closing
      /\ call'.loop = call.loop \/ call'.loop = "none"
  BY <1>2, <1>3, <1>4
<1> QED  BY <1>1, <1>5, SteadyKept, SameSuspended, PacketFields DEF SessionOK

(* While the loop after a reconnection runs, nothing else does. *)
LEMMA LoopAlone ==
  ASSUME IndInv, OrderInv, call.loop = "reconnect"
  PROVE  /\ ~AppTurn /\ ~Idle /\ ~InCallback /\ call.resume = 0 /\ ~call.closing
         /\ call # Guarded
<1>1. call # NoCall /\ call # Guarded
  BY PlainCalls
<1>2. call.resume = 0 /\ call.cbs = 0 /\ ~call.closing
  BY DEF OrderInv, QueueInv, LoopOK
<1> QED  BY <1>1, <1>2 DEF AppTurn, Idle, InCallback

(* A turn of that loop. *)
Turns ==
    \/ call' = call /\ out' = NoPacket /\ op' = op
    \/ /\ call'.at = call.at + 1
       /\ Repeats(call.at) \/ (op' = op /\ out' = NoPacket /\ call.at \notin Published)

(* What a step of the client does to the channels and to the history. *)
OwnFrame ==
    /\ Frame /\ UNCHANGED <<stored, serving, window, toClient, completed>>
    /\ Transmits(toBroker, None)
    /\ overdrawn' = (overdrawn \/ Dropped # {})
    /\ resent' \in BOOLEAN /\ (resent => resent')

(* The operations it moves. *)
OwnMoves ==
    \/ Silent /\ out'.type \in {"none", "DISCONNECT"}
    \/ \E o \in Ops : Prepares(o)
    \/ session.connected /\ \E o \in Ops : Waits(o) \/ Starts(o)
    \/ \E o \in Ops : Repeats(o) /\ (resent' \/ (call.loop = "reconnect" /\ o = call.at
                                                 /\ call'.at = call.at + 1))

OwnStep ==
    /\ Steady /\ OwnFrame /\ OwnMoves
    /\ call'.loop = "reconnect" => Turns

(* The frame. *)
LEMMA OwnFrames ==
  ASSUME LinkOK, ClientRepeats \/ ClientCall \/ Application
  PROVE  OwnFrame
BY DEF ClientRepeats, ClientCall, Application, ClientStep, OwnFrame, Frame, brokerVars,
       LinkOK, ChannelsOK

(* A step outside of the loop after a reconnection. *)
LEMMA OwnElse ==
  ASSUME IndInv, OrderInv, Steady, OwnFrame, OwnMoves,
         AppTurn \/ Idle \/ InCallback \/ call.resume # 0 \/ call.closing
         \/ call = Guarded \/ call.loop # "reconnect" \/ call'.loop # "reconnect"
  PROVE  OwnStep
<1>1. call'.loop = "reconnect" => call.loop = "reconnect"
  BY DEF Steady
<1>2. call'.loop # "reconnect"
  BY <1>1, LoopAlone
<1> QED  BY <1>2 DEF OwnStep

(* The application's calls. *)
LEMMA ApplicationStep ==
  ASSUME FewMessages, IndInv, OrderInv, NEW f, IdsOK(f), LinkOK, Application
  PROVE  OwnStep
<1>1. OwnFrame /\ SessionOK /\ ~SendsLate
  BY OwnFrames DEF LinkOK, OrderInv, QueueInv, PlainUse
<1>2. ASSUME NEW o \in Ops, Prepare(o, msgQos[o]) PROVE OwnStep
  <2>1. Prepares(o) /\ Steady /\ AppTurn
    BY <1>1, <1>2, PrepareClass, SteadyPrepare DEF Prepare
  <2> QED  BY <1>1, <2>1, OwnElse DEF OwnMoves
<1>3. ASSUME NEW o \in Ops, Send(o) PROVE OwnStep
  <2>1. session.connected /\ (Waits(o) \/ Starts(o)) /\ Steady /\ AppTurn
    BY <1>1, <1>3, SendClass, SteadySend DEF Send, SendId
  <2> QED  BY <1>1, <2>1, OwnElse DEF OwnMoves
<1>4. ASSUME NEW o \in Ops, Cancel(o) PROVE OwnStep
  <2>1. Silent /\ Steady /\ Idle /\ out' = NoPacket
    BY <1>1, <1>4, EndingClass, SteadyCancel DEF Cancel
  <2> QED  BY <1>1, <2>1, OwnElse, PacketFields DEF OwnMoves
<1>5. ASSUME Disconnect(FALSE) PROVE OwnStep
  <2>1. Silent /\ Steady /\ Idle /\ out' = Packet("DISCONNECT", 0, FALSE)
    BY <1>1, <1>5, EndingClass, SteadyEnds DEF Disconnect
  <2>2. out'.type = "DISCONNECT"
    BY <2>1 DEF Packet
  <2> QED  BY <1>1, <2>1, <2>2, OwnElse DEF OwnMoves
<1>6. ASSUME ConnectFails PROVE OwnStep
  <2>1. Silent /\ Steady /\ Idle /\ out' = NoPacket
    BY <1>1, <1>6, RestingClass, SteadyEnds DEF ConnectFails
  <2> QED  BY <1>1, <2>1, OwnElse, PacketFields DEF OwnMoves
<1>7. ASSUME SessionExpiryTimeout PROVE OwnStep
  <2>1. Silent /\ Steady /\ Idle /\ out' = NoPacket
    BY <1>1, <1>7, EndingClass, SteadyEnds DEF SessionExpiryTimeout, ExpiryTimer
  <2> QED  BY <1>1, <2>1, OwnElse, PacketFields DEF OwnMoves
<1> QED  BY <1>2, <1>3, <1>4, <1>5, <1>6, <1>7, NothingInSend DEF Application, ClientStep

(* The steps that repeat packets without being asked to. *)
LEMMA RepeatsStep ==
  ASSUME FewMessages, IndInv, OrderInv, NEW f, IdsOK(f), LinkOK, ClientRepeats
  PROVE  OwnStep
<1>1. OwnFrame /\ SessionOK
  BY OwnFrames DEF LinkOK
<1>2. resent' = (resent \/ out' # NoPacket)
  BY DEF ClientRepeats
<1>3. ASSUME NEW o \in Ops, Repeats(o) PROVE resent' = TRUE
  <2>1. out' # NoPacket
    BY <1>3 DEF Repeats, DupPacket, Packet, NoPacket
  <2> QED  BY <1>1, <1>2, <2>1 DEF OwnFrame
<1>4. ASSUME NEW o \in Ops, ResponseTimeout(o) PROVE OwnStep
  <2>1. (Silent \/ Repeats(o)) /\ Steady /\ Idle
    BY <1>4, TimeoutClass, SteadyTimeout DEF ResponseTimeout, ResponseTimer
  <2>2. Silent => out'.type = "none"
    <3>1. out' = NoPacket \/ out' = DupPacket(o)
      BY <1>4 DEF ResponseTimeout, ResponseTimer, ResendDupMsg
    <3>2. DupPacket(o).type \in {"PUBLISH", "PUBREL"}
      BY DEF DupPacket, Packet
    <3> QED  BY <3>1, <3>2, PacketFields DEF Silent
  <2>3. OwnMoves
    BY <1>3, <2>1, <2>2 DEF OwnMoves
  <2> QED  BY <1>1, <2>1, <2>3, OwnElse
<1>5. ASSUME ResendNext PROVE OwnStep
  <2>1. (Silent \/ \E o \in Ops : Repeats(o)) /\ Steady /\ call.loop = "resend"
    BY <1>1, <1>5, ResendClass, SteadyResend DEF ResendNext, InLoop
  <2>2. Silent => out'.type = "none"
    <3>1. out' = NoPacket \/ out' = DupPacket(call.at)
      BY <1>5 DEF ResendNext, ResendDupMsg, Faults, Skip
    <3>2. DupPacket(call.at).type \in {"PUBLISH", "PUBREL"}
      BY DEF DupPacket, Packet
    <3> QED  BY <3>1, <3>2, PacketFields DEF Silent
  <2>3. OwnMoves
    BY <1>3, <2>1, <2>2 DEF OwnMoves
  <2> QED  BY <1>1, <2>1, <2>3, OwnElse
<1> QED  BY <1>4, <1>5, NothingInSend DEF ClientRepeats, ClientStep

(* The other steps of a call. *)
LEMMA CallStepOwn ==
  ASSUME FewMessages, IndInv, OrderInv, NEW f, IdsOK(f), LinkOK, ClientCall
  PROVE  OwnStep
<1>1. OwnFrame /\ SessionOK
  BY OwnFrames DEF LinkOK
<1>2. ASSUME ResumeNext PROVE OwnStep
  <2>1. call.resume # 0 /\ Steady
    BY <1>2, SteadyResume DEF ResumeNext
  <2>2. ASSUME Silent PROVE out'.type \in {"none", "DISCONNECT"}
    <3>1. out' = NoPacket \/ \E p : DoSend(p, call)
      BY <1>2 DEF ResumeNext
    <3>2. ASSUME NEW p, DoSend(p, call) PROVE out' = NoPacket \/ out'.type = "PUBLISH"
      BY <3>2 DEF DoSend, Packet
    <3> QED  BY <2>2, <3>1, <3>2, PacketFields DEF Silent
  <2>3. OwnMoves
    BY <1>2, <2>2, ResumeClass DEF OwnMoves
  <2> QED  BY <1>1, <2>1, <2>3, OwnElse
<1>3. ASSUME CallbackReturns \/ ReconnectResume \/ ApiExit PROVE OwnStep
  <2>1. Silent /\ Steady /\ out' = NoPacket
    BY <1>1, <1>3, RestingClass, SteadyRest
  <2>2. OwnMoves
    BY <2>1, PacketFields DEF OwnMoves
  <2>3. CallbackReturns => InCallback
    BY DEF CallbackReturns
  <2>4. ApiExit => call = Guarded
    BY DEF ApiExit
  <2>5. ReconnectResume => call'.loop # "reconnect"
    BY DEF ReconnectResume, EndOfLoop, IndInv, StepInv, CallOK, CallTypes
  <2> QED  BY <1>1, <1>3, <2>1, <2>2, <2>3, <2>4, <2>5, OwnElse
<1>4. ASSUME ReconnectNext PROVE OwnStep
  <2>1. /\ Steady /\ session.connected /\ call.loop = "reconnect"
        /\ \/ Silent /\ op' = op /\ out' = NoPacket
              /\ (call' = call \/ (call.at \notin Published /\ call'.at = call.at + 1))
           \/ Repeats(call.at) /\ call'.at = call.at + 1
    BY <1>4, SteadyReconnect
  <2>2. Repeats(call.at) => call.at \in Ops
    BY OpsAreInts DEF Repeats
  <2>3. OwnMoves
    BY <2>1, <2>2, PacketFields DEF OwnMoves
  <2>4. Turns
    BY <2>1 DEF Turns
  <2> QED  BY <1>1, <2>1, <2>3, <2>4 DEF OwnStep
<1>5. ASSUME AbortNext PROVE OwnStep
  <2>1. Silent /\ Steady /\ call.loop = "abort" /\ out' = NoPacket
    BY <1>1, <1>5, AbortClass, SteadyAbort DEF AbortNext, InLoop, Faults, Skip
  <2> QED  BY <1>1, <2>1, OwnElse, PacketFields DEF OwnMoves
<1>6. ASSUME Terminate PROVE OwnStep
  <2>1. Silent /\ Steady /\ call.closing /\ out' = Packet("DISCONNECT", 0, FALSE)
    BY <1>1, <1>6, EndingClass, SteadyEnds DEF Terminate
  <2>2. out'.type = "DISCONNECT"
    BY <2>1 DEF Packet
  <2> QED  BY <1>1, <2>1, <2>2, OwnElse DEF OwnMoves
<1>7. CallStep /\ ~InLoop("resend")
  BY DEF ClientCall, ClientStep
<1>8. ~ResendNext
  BY <1>7 DEF ResendNext
<1> QED  BY <1>2, <1>3, <1>4, <1>5, <1>6, <1>7, <1>8, NothingInSend DEF CallStep

(* Every step of the client but connecting, receiving and losing the network. *)
LEMMA OwnCases ==
  ASSUME FewMessages, IndInv, OrderInv, NEW f, IdsOK(f), LinkOK,
         ClientRepeats \/ ClientCall \/ Application
  PROVE  OwnStep
BY ApplicationStep, RepeatsStep, CallStepOwn

------------------------------------------------------------------------------
(* What a step of the client does to the channel to the broker. *)

Fresh(id) ==
    /\ \A i \in DOMAIN toBroker : toBroker[i].id # id
    /\ \A i \in DOMAIN toClient : toClient[i].id # id

SendsOne(g, o, t) ==
    /\ o \in Published' /\ t \in {"PUBLISH", "PUBREL"}
    /\ t = "PUBLISH" => ~op'[o].acked
    /\ resent' \/ Fresh(g[o])
    /\ toBroker' = Append(toBroker, Sent(t, o, g[o], msgQos[o]))

Closes == toBroker' = Append(toBroker, Sent("DISCONNECT", 0, 0, 0))

Fills(g) ==
    \/ toBroker' = toBroker
    \/ Closes
    \/ \E o \in Ops : \E t \in {"PUBLISH", "PUBREL"} : SendsOne(g, o, t)

(* The packet id of a message on its first way is in no packet. *)
LEMMA FreshStart ==
  ASSUME FewMessages, IndInv, NEW f, CoreOK(f), LinkOK, Unique(f), NEW o \in Ops, Starts(o),
         NEW g, Moves(f, g, {}), IdsOK(g)',
         \A i \in DOMAIN toBroker : toBroker[i].type \in {"PUBLISH", "PUBREL"} =>
               toBroker[i].id # g[o]
  PROVE  Fresh(g[o])
<1>1. g[o] # 0 /\ op[o].st \in {"prepared", "paused"}
  BY DEF Starts, IdsOK
<1>2. \A i \in DOMAIN toBroker : toBroker[i].id # g[o]
  <2>1. ASSUME NEW i \in DOMAIN toBroker PROVE toBroker[i].id # g[o]
    <3>1. toBroker[i] \in BrokerPackets
      BY ElementOfSeq, LenProperties DEF CoreOK, ToBrokerOK
    <3>2. toBroker[i].type \in {"CONNECT", "PUBLISH", "PUBREL", "DISCONNECT"}
      BY <3>1 DEF BrokerPackets
    <3> QED  BY <1>1, <3>2 DEF LinkOK, ChannelsOK
  <2> QED  BY <2>1
<1>3. ASSUME NEW i \in DOMAIN toClient PROVE toClient[i].id # g[o]
  <2>1. toClient[i] \in Answer \cup Connacks
    BY ElementOfSeq, LenProperties DEF CoreOK, ToClientOK
  <2>2. CASE toClient[i].type = "CONNACK"
    <3>1. toClient[i] \in Connacks
      BY <2>1, <2>2 DEF Answer
    <3> QED  BY <1>1, <3>1 DEF Connacks, None
  <2>3. CASE toClient[i].type # "CONNACK"
    <3>1. toClient[i].id \in 1 .. lastId
      BY <2>3 DEF CoreOK, ToClientOK
    <3>2. toClient[i].id = g[o] => f[o] = toClient[i].id
      BY <3>1, AnswerIds
    <3> QED  BY <1>1, <2>3, <3>2 DEF Unique, Known
  <2> QED  BY <2>2, <2>3
<1> QED  BY <1>2, <1>3 DEF Fresh

(* A step of the client keeps the packets and the broker's books in order. *)
LEMMA OwnCore ==
  ASSUME FewMessages, IndInv, IndInv', OrderInv, NEW f, CoreOK(f), LinkOK, Unique(f), OwnStep
  PROVE  \E g \in [Ops -> 0 .. lastId'] : CoreOK(g)' /\ Moves(f, g, {}) /\ Fills(g)
<1>1. /\ Frame /\ toClient' = toClient /\ completed' = completed /\ Transmits(toBroker, None)
      /\ Steady /\ OwnMoves
  BY DEF OwnStep, OwnFrame
<1>2. IdsOK(f) /\ msgQos' = msgQos
  BY <1>1 DEF CoreOK, Frame
<1>3. ASSUME CoreOK(f)', Moves(f, f, {}), Fills(f)
      PROVE  \E g \in [Ops -> 0 .. lastId'] : CoreOK(g)' /\ Moves(f, g, {}) /\ Fills(g)
  <2>1. f \in [Ops -> 0 .. lastId']
    BY <1>3 DEF CoreOK, IdsOK
  <2> QED  BY <1>3, <2>1
<1>4. CASE Silent /\ out'.type \in {"none", "DISCONNECT"}
  <2>1. Takes /\ Settled({})
    BY <1>1, SettledSame DEF Takes, CoreOK, ToClientOK
  <2>2. None \in PacketIds
    BY <1>2, SmallTypes DEF None
  <2>3. \A m \in completed' : m \in completed \/ (m \in Ops /\ op'[m].st = "gone")
    BY <1>1
  <2>4. CoreOK(f)' /\ Moves(f, f, {})
    BY <1>1, <1>4, <2>1, <2>2, <2>3, SilentCore
  <2>5. toBroker' = toBroker \/ Closes
    BY <1>1, <1>4, TransmitsFacts DEF Silent, Closes, None
  <2> QED  BY <1>3, <2>4, <2>5 DEF Fills
<1>5. ASSUME NEW o \in Ops, Prepares(o)
      PROVE  \E g \in [Ops -> 0 .. lastId'] : CoreOK(g)' /\ Moves(f, g, {}) /\ Fills(g)
  <2>1. CoreOK(f)' /\ Moves(f, f, {})
    BY <1>1, <1>5, PrepareCore
  <2>2. toBroker' = toBroker
    BY <1>1, <1>5, TransmitsFacts, PacketFields DEF Prepares
  <2> QED  BY <1>3, <2>1, <2>2 DEF Fills
<1>6. ASSUME NEW o \in Ops, Waits(o) \/ Starts(o)
      PROVE  \E g \in [Ops -> 0 .. lastId'] : CoreOK(g)' /\ Moves(f, g, {}) /\ Fills(g)
  <2>1. PICK g \in [Ops -> 0 .. lastId'] : IdsOK(g)' /\ Moves(f, g, {})
    BY <1>2, <1>6, SendMoves
  <2>2. CASE Waits(o)
    BY <1>1, <2>1, <2>2, WaitCore DEF Fills
  <2>3. CASE Starts(o)
    <3>1. /\ CoreOK(g)'
          /\ toBroker' = Append(toBroker, Sent("PUBLISH", o, g[o], msgQos[o]))
          /\ \A i \in DOMAIN toBroker : toBroker[i].type \in {"PUBLISH", "PUBREL"} =>
                toBroker[i].id # g[o]
      BY <1>1, <2>1, <2>3, StartCore
    <3>2. Fresh(g[o])
      BY <2>1, <2>3, <3>1, FreshStart
    <3>3. o \in Published' /\ ~op'[o].acked
      BY <2>3 DEF Starts, Published
    <3>4. SendsOne(g, o, "PUBLISH")
      BY <3>1, <3>2, <3>3 DEF SendsOne
    <3> QED  BY <2>1, <3>1, <3>4 DEF Fills
  <2> QED  BY <1>6, <2>2, <2>3
<1>7. ASSUME NEW o \in Ops, Repeats(o),
             resent' \/ (call.loop = "reconnect" /\ o = call.at /\ call'.at = call.at + 1)
      PROVE  \E g \in [Ops -> 0 .. lastId'] : CoreOK(g)' /\ Moves(f, g, {}) /\ Fills(g)
  <2> DEFINE t == IF op[o].acked THEN "PUBREL" ELSE "PUBLISH"
  <2>1. /\ CoreOK(f)' /\ Moves(f, f, {})
        /\ toBroker' = Append(toBroker, Sent(t, o, f[o], msgQos[o]))
    BY <1>1, <1>7, RepeatCore
  <2>2. o \in Published /\ op'[o].st = "published" /\ op'[o].acked = op[o].acked
    BY <1>7 DEF Repeats, Kept, Published
  <2>3. o \in Published'
    BY <2>2 DEF Published
  <2>4. resent' \/ Fresh(f[o])
    <3>1. o \in Int
      BY OpsAreInts
    <3> QED  BY <1>7, <2>2, <3>1 DEF Unique, Fresh
  <2>5. t \in {"PUBLISH", "PUBREL"} /\ (t = "PUBLISH" => ~op'[o].acked)
    BY <2>2
  <2> HIDE DEF t
  <2>6. SendsOne(f, o, t)
    BY <2>1, <2>3, <2>4, <2>5 DEF SendsOne
  <2> QED  BY <1>3, <2>1, <2>5, <2>6 DEF Fills
<1> QED  BY <1>1, <1>4, <1>5, <1>6, <1>7 DEF OwnMoves

(* The packets to the client are those behind the first k of them. *)
Shifts(k) ==
    \A i \in DOMAIN toClient' :
        i \in Int /\ i + k \in DOMAIN toClient /\ toClient'[i] = toClient[i + k]

(* While no packet is repeated every packet id is in one packet only, and a   *)
(* PUBLISH or a PUBREC on its way is not of a message acknowledged before.    *)
LEMMA UniqueKept ==
  ASSUME NEW f, NEW g, NEW a, CoreOK(f), Moves(f, g, a), Unique(f),
         NEW e, Follows(e), NEW k \in Int, Shifts(k),
         resent => resent', call'.closing => resent',
         call'.loop = "reconnect" =>
            \A o \in Published' : call'.at <= o =>
               /\ \A i \in DOMAIN toBroker' : toBroker'[i].id # g[o]
               /\ \A i \in DOMAIN toClient' : toClient'[i].id # g[o],
         ~resent' /\ toBroker' # toBroker =>
            \/ e.id = 0
            \/ /\ \A i \in DOMAIN toBroker : toBroker[i].id # e.id
               /\ \A i \in DOMAIN toClient' : toClient'[i].id # e.id,
         e.type = "PUBLISH" => ~op'[e.msg].acked,
         ~resent' => \A m \in a :
            /\ \A i \in DOMAIN toBroker : toBroker[i].type = "PUBLISH" => toBroker[i].msg # m
            /\ \A i \in DOMAIN toClient' : toClient'[i].id # f[m]
  PROVE  Unique(g)'
<1>1. /\ toBroker' \in Seq(BrokerPackets)
      /\ \A i \in DOMAIN toBroker' :
            \/ i \in DOMAIN toBroker /\ toBroker'[i] = toBroker[i]
            \/ /\ i \notin DOMAIN toBroker /\ toBroker'[i] = e
               /\ \A j \in DOMAIN toBroker' : j <= i
               /\ toBroker' = Append(toBroker, e)
      /\ DOMAIN toBroker \subseteq Nat /\ DOMAIN toBroker' \subseteq Nat
  BY FollowsFacts DEF CoreOK, ToBrokerOK
<1>2. ASSUME NEW i \in DOMAIN toBroker'
      PROVE  \/ i \in DOMAIN toBroker /\ toBroker'[i] = toBroker[i]
             \/ i \notin DOMAIN toBroker /\ toBroker'[i] = e /\ toBroker' # toBroker
                /\ \A j \in DOMAIN toBroker' : j \notin DOMAIN toBroker => j = i
  <2>1. CASE i \in DOMAIN toBroker /\ toBroker'[i] = toBroker[i]
    BY <2>1
  <2>2. CASE i \notin DOMAIN toBroker /\ toBroker'[i] = e /\ \A j \in DOMAIN toBroker' : j <= i
    <3>1. toBroker' # toBroker
      BY <2>2
    <3>2. ASSUME NEW j \in DOMAIN toBroker', j \notin DOMAIN toBroker PROVE j = i
      <4>1. i <= j /\ j <= i
        BY <1>1, <2>2, <3>2
      <4> QED  BY <1>1, <4>1
    <3> QED  BY <2>2, <3>1, <3>2
  <2> QED  BY <1>1, <2>1, <2>2
<1>3. ASSUME NEW id \in 1 .. lastId, NEW m \in Ops, g[m] = id PROVE f[m] = id
  BY <1>3, AnswerIds
<1>4. ASSUME NEW i \in DOMAIN toClient, toClient[i].type # "CONNACK"
      PROVE  toClient[i].id \in 1 .. lastId
  BY <1>4 DEF CoreOK, ToClientOK
<1>5. Known(g)'
  <2>1. ASSUME NEW i \in DOMAIN toClient', toClient'[i].type # "CONNACK",
               NEW m \in Ops, g[m] = toClient'[i].id
        PROVE  op'[m].st \in {"published", "gone"}
    <3>1. i + k \in DOMAIN toClient /\ toClient'[i] = toClient[i + k]
      BY DEF Shifts
    <3>2. f[m] = toClient[i + k].id
      BY <1>3, <1>4, <2>1, <3>1
    <3>3. op[m].st \in {"published", "gone"}
      BY <2>1, <3>1, <3>2 DEF Unique, Known
    <3> QED  BY <3>3 DEF Moves
  <2> QED  BY <2>1 DEF Known
<1>6. ASSUME NEW m \in Ops, op'[m].acked PROVE op[m].acked \/ m \in a
  BY <1>6 DEF Moves
<1>7. ASSUME ~resent'
      PROVE  /\ \A i, j \in DOMAIN toBroker' :
                   toBroker'[i].id = toBroker'[j].id /\ toBroker'[i].id # 0 => i = j
             /\ \A i, j \in DOMAIN toClient' :
                   toClient'[i].id = toClient'[j].id /\ toClient'[i].id # 0 => i = j
             /\ \A i \in DOMAIN toBroker' : \A j \in DOMAIN toClient' :
                   toBroker'[i].id = toClient'[j].id => toBroker'[i].id = 0
             /\ \A i \in DOMAIN toBroker' :
                   toBroker'[i].type = "PUBLISH" => ~op'[toBroker'[i].msg].acked
             /\ \A i \in DOMAIN toClient' : toClient'[i].type = "PUBREC" =>
                   \A m \in Ops : g[m] = toClient'[i].id => ~op'[m].acked
  <2>1. /\ ~resent
        /\ \A i, j \in DOMAIN toBroker :
              toBroker[i].id = toBroker[j].id /\ toBroker[i].id # 0 => i = j
        /\ \A i, j \in DOMAIN toClient :
              toClient[i].id = toClient[j].id /\ toClient[i].id # 0 => i = j
        /\ \A i \in DOMAIN toBroker : \A j \in DOMAIN toClient :
              toBroker[i].id = toClient[j].id => toBroker[i].id = 0
        /\ \A i \in DOMAIN toBroker :
              toBroker[i].type = "PUBLISH" => ~op[toBroker[i].msg].acked
        /\ \A i \in DOMAIN toClient : toClient[i].type = "PUBREC" =>
              \A m \in Ops : f[m] = toClient[i].id => ~op[m].acked
    BY <1>7 DEF Unique
  <2>2. ASSUME NEW i \in DOMAIN toBroker', NEW j \in DOMAIN toBroker',
               toBroker'[i].id = toBroker'[j].id, toBroker'[i].id # 0
        PROVE  i = j
    <3>1. CASE i \in DOMAIN toBroker /\ j \in DOMAIN toBroker
      BY <1>2, <2>1, <2>2, <3>1
    <3>2. CASE i \notin DOMAIN toBroker /\ j \notin DOMAIN toBroker
      BY <1>2, <3>2
    <3>3. CASE i \in DOMAIN toBroker /\ j \notin DOMAIN toBroker
      BY <1>2, <1>7, <2>2, <3>3
    <3>4. CASE i \notin DOMAIN toBroker /\ j \in DOMAIN toBroker
      BY <1>2, <1>7, <2>2, <3>4
    <3> QED  BY <3>1, <3>2, <3>3, <3>4
  <2>3. ASSUME NEW i \in DOMAIN toClient', NEW j \in DOMAIN toClient',
               toClient'[i].id = toClient'[j].id, toClient'[i].id # 0
        PROVE  i = j
    <3>1. i + k = j + k
      BY <2>1, <2>3 DEF Shifts
    <3> QED  BY <3>1 DEF Shifts
  <2>4. ASSUME NEW i \in DOMAIN toBroker', NEW j \in DOMAIN toClient',
               toBroker'[i].id = toClient'[j].id
        PROVE  toBroker'[i].id = 0
    BY <1>2, <1>7, <2>1, <2>4 DEF Shifts
  <2>5. ASSUME NEW i \in DOMAIN toBroker', toBroker'[i].type = "PUBLISH"
        PROVE  ~op'[toBroker'[i].msg].acked
    <3>1. CASE toBroker'[i] = e
      BY <2>5, <3>1
    <3>2. CASE i \in DOMAIN toBroker /\ toBroker'[i] = toBroker[i]
      <4>1. toBroker[i].msg \in Ops
        BY <2>5, <3>2 DEF CoreOK, ToBrokerOK, PublishOK
      <4>2. ~op[toBroker[i].msg].acked /\ toBroker[i].msg \notin a
        BY <1>7, <2>1, <2>5, <3>2
      <4> QED  BY <1>6, <3>2, <4>1, <4>2
    <3> QED  BY <1>2, <3>1, <3>2
  <2>6. ASSUME NEW i \in DOMAIN toClient', toClient'[i].type = "PUBREC",
               NEW m \in Ops, g[m] = toClient'[i].id
        PROVE  ~op'[m].acked
    <3>1. i + k \in DOMAIN toClient /\ toClient'[i] = toClient[i + k]
      BY DEF Shifts
    <3>2. f[m] = toClient[i + k].id
      BY <1>3, <1>4, <2>6, <3>1
    <3>3. ~op[m].acked
      BY <2>1, <2>6, <3>1, <3>2
    <3>4. m \notin a
      BY <1>7, <3>1, <3>2
    <3> QED  BY <1>6, <3>3, <3>4
  <2> QED  BY <2>2, <2>3, <2>4, <2>5, <2>6
<1> QED  BY <1>5, <1>7 DEF Unique

(* What the broker counts is in flight, while nothing is repeated and nothing *)
(* given up.                                                                  *)
LEMMA WindowKept ==
  ASSUME NEW f, NEW g, NEW a, CoreOK(f), Moves(f, g, a), Frame, window' = window,
         WindowOK(f), NEW e, Follows(e), Takes,
         resent => resent', overdrawn => overdrawn',
         ~resent' /\ ~overdrawn' => \A o \in Published : o \notin Published' =>
            /\ f[o] \notin window
            /\ \A i \in DOMAIN toBroker : toBroker[i].type = "PUBLISH" => toBroker[i].msg # o,
         e.type = "PUBLISH" => e.msg \in Published',
         session'.connected /\ serving' /\ ~overdrawn' => inFlight' <= session'.limit,
         \A i \in DOMAIN toClient' : toClient'[i].type = "CONNACK" /\ ~overdrawn' =>
            inFlight' <= toClient'[i].limit
  PROVE  WindowOK(g)'
<1>1. window' \subseteq {id \in PacketIds : heldAs'[id] # None}
  BY DEF WindowOK, Frame
<1>2. ASSUME ~resent', NEW i \in DOMAIN toClient',
             toClient'[i].type = "PUBCOMP"
             \/ (toClient'[i].type = "PUBREC" /\ toClient'[i].code = "error")
      PROVE  toClient'[i].id \notin window'
  BY <1>2 DEF WindowOK, Takes
<1>3. ASSUME ~resent', ~overdrawn'
      PROVE  window' \subseteq PublishedIds(g)'
  <2>1. ASSUME NEW id \in window PROVE \E o \in Published' : id = g[o]
    <3>1. PICK o \in Published : id = f[o]
      BY <1>3, <2>1 DEF WindowOK, PublishedIds
    <3>2. o \in Published' /\ o \in Ops
      BY <1>3, <2>1, <3>1, OpsAreInts
    <3>3. f[o] # 0
      BY <3>1, <3>2 DEF CoreOK, IdsOK, Published
    <3>4. g[o] = f[o]
      BY <3>2, <3>3 DEF Moves
    <3> QED  BY <3>1, <3>2, <3>4
  <2> QED  BY <2>1 DEF PublishedIds
<1>4. ASSUME ~resent', ~overdrawn', NEW i \in DOMAIN toBroker', toBroker'[i].type = "PUBLISH"
      PROVE  toBroker'[i].msg \in Published'
  <2>1. (i \in DOMAIN toBroker /\ toBroker'[i] = toBroker[i]) \/ toBroker'[i] = e
    BY FollowsFacts DEF CoreOK, ToBrokerOK
  <2>2. CASE toBroker'[i] = e
    BY <1>4, <2>2
  <2>3. CASE i \in DOMAIN toBroker /\ toBroker'[i] = toBroker[i]
    <3>1. toBroker[i].msg \in Published
      BY <1>4, <2>3 DEF WindowOK
    <3> QED  BY <1>4, <2>3, <3>1
  <2> QED  BY <2>1, <2>2, <2>3
<1> QED  BY <1>1, <1>2, <1>3, <1>4 DEF WindowOK

------------------------------------------------------------------------------
(* The steps of the client on its own. *)

(* What such a step adds to the channel to the broker, if anything. *)
NewPacket(g, e) ==
    /\ Follows(e) /\ e.type \in {"DISCONNECT", "PUBLISH", "PUBREL"}
    /\ e.type = "DISCONNECT" => e.id = 0
    /\ ~resent' /\ toBroker' # toBroker => e.id = 0 \/ Fresh(e.id)
    /\ e.type = "PUBLISH" => e.msg \in Published' /\ ~op'[e.msg].acked

(* There is such a packet. *)
LEMMA FillsPacket ==
  ASSUME FewMessages, IndInv, IndInv', NEW f, IdsOK(f), NEW g, IdsOK(g)', Fills(g)
  PROVE  \E e : NewPacket(g, e)
<1>1. 0 \in PacketIds /\ 0 \in 0 .. MaxOps
  BY SmallTypes
<1>2. CASE toBroker' = toBroker \/ Closes
  <2>1. PICK e : e = Sent("DISCONNECT", 0, 0, 0)
    OBVIOUS
  <2>2. e \in BrokerPackets /\ e.type = "DISCONNECT" /\ e.id = 0
    BY <1>1, <2>1, SentFields
  <2> QED  BY <1>2, <2>1, <2>2 DEF NewPacket, Follows, Closes
<1>3. ASSUME NEW o \in Ops, NEW t \in {"PUBLISH", "PUBREL"}, SendsOne(g, o, t)
      PROVE  \E e : NewPacket(g, e)
  <2>1. PICK e : e = Sent(t, o, g[o], msgQos[o])
    OBVIOUS
  <2>2. g[o] \in PacketIds
    <3>1. lastId' \in PacketIds /\ MaxPacketId \in Nat
      BY PacketIdAssumption DEF IndInv, RestTypeOK
    <3>2. g[o] \in 0 .. lastId'
      BY DEF IdsOK
    <3> QED  BY <3>1, <3>2 DEF PacketIds
  <2>3. o \in 0 .. MaxOps /\ msgQos[o] \in 0 .. 2
    BY SmallTypes
  <2>4. e \in BrokerPackets /\ e.type = t /\ e.id = g[o] /\ e.msg = o
    BY <2>1, <2>2, <2>3, SentFields
  <2> QED  BY <1>3, <2>1, <2>4 DEF NewPacket, Follows, SendsOne
<1> QED  BY <1>2, <1>3 DEF Fills

(* The channels. *)
LEMMA OwnChannels ==
  ASSUME FewMessages, IndInv, NEW f, CoreOK(f), LinkOK, OwnStep, NEW g, NEW e, NewPacket(g, e)
  PROVE  LinkOK'
<1>1. /\ stored' = stored /\ serving' = serving /\ resent' \in BOOLEAN
      /\ window' = window /\ toClient' = toClient
      /\ overdrawn' = (overdrawn \/ Dropped # {}) /\ Transmits(toBroker, None)
      /\ SessionOK' /\ (Offline <=> Offline') /\ (Offline => out'.type = "none")
  BY DEF OwnStep, OwnFrame, Steady
<1>2. Offline => toBroker' = toBroker
  BY <1>1, TransmitsFacts
<1>8. Offline' => /\ \A i \in DOMAIN toBroker' : toBroker'[i].type = "CONNECT"
                  /\ \A i \in DOMAIN toClient' : toClient'[i].type = "CONNACK"
  BY <1>1, <1>2 DEF LinkOK, ChannelsOK
<1>3. ASSUME NEW i \in DOMAIN toBroker'
      PROVE  (i \in DOMAIN toBroker /\ toBroker'[i] = toBroker[i]) \/ toBroker'[i] = e
  BY FollowsFacts DEF CoreOK, ToBrokerOK, NewPacket
<1>4. ASSUME NEW i \in DOMAIN toBroker', toBroker'[i].type \in {"CONNECT", "DISCONNECT"}
      PROVE  toBroker'[i].id = 0
  BY <1>3, <1>4 DEF NewPacket, LinkOK, ChannelsOK
<1>5. ASSUME NEW i \in DOMAIN toBroker', toBroker'[i].type = "CONNECT"
      PROVE  Len(toBroker') = 1 /\ Offline' /\ window' = {}
  <2>1. i \in DOMAIN toBroker /\ toBroker[i].type = "CONNECT"
    BY <1>3, <1>5 DEF NewPacket
  <2>2. Len(toBroker) = 1 /\ Offline /\ window = {}
    BY <2>1 DEF LinkOK, ChannelsOK
  <2> QED  BY <1>1, <1>2, <2>2
<1>6. ASSUME NEW i \in DOMAIN toClient', toClient'[i].type = "CONNACK"
      PROVE  Len(toClient') = 1 /\ toBroker' = <<>> /\ Offline' /\ window' = {}
  <2>1. Len(toClient) = 1 /\ toBroker = <<>> /\ Offline /\ window = {}
    BY <1>1, <1>6 DEF LinkOK, ChannelsOK
  <2> QED  BY <1>1, <1>2, <2>1
<1>7. stored' \in {"none"} \cup Expiries /\ serving' \in BOOLEAN /\ overdrawn' \in BOOLEAN
  BY <1>1 DEF LinkOK, ChannelsOK
<1> QED  BY <1>1, <1>4, <1>5, <1>6, <1>7, <1>8 DEF LinkOK, ChannelsOK

(* The loop after a reconnection comes to operations not repeated before. *)
LEMMA OwnTurns ==
  ASSUME FewMessages, IndInv, IndInv', NEW f, CoreOK(f), LinkOK, Unique(f), OwnStep, NEW g,
         Moves(f, g, {}), call'.loop = "reconnect", NEW o \in Published', call'.at <= o
  PROVE  /\ \A i \in DOMAIN toBroker' : toBroker'[i].id # g[o]
         /\ \A i \in DOMAIN toClient' : toClient'[i].id # g[o]
<1>1. /\ Turns /\ call.loop = "reconnect" /\ Frame /\ toClient' = toClient
      /\ completed' = completed /\ Transmits(toBroker, None)
  BY DEF OwnStep, OwnFrame, Steady
<1>2. o \in Ops /\ o \in Int /\ call.at \in Int /\ call'.at \in Int
  BY OpsAreInts, SendOpsAssumption DEF Published, IndInv, StepInv, CallOK, CallTypes
<1>3. ASSUME o \in Published, call.at <= o
      PROVE  /\ g[o] = f[o]
             /\ \A i \in DOMAIN toBroker : toBroker[i].id # g[o]
             /\ \A i \in DOMAIN toClient' : toClient'[i].id # g[o]
  <2>1. f[o] # 0 /\ op[o].st = "published"
    BY <1>2, <1>3 DEF CoreOK, IdsOK, Published
  <2>2. g[o] = f[o]
    BY <1>2, <2>1 DEF Moves
  <2> QED  BY <1>1, <1>3, <2>2 DEF Unique
<1>4. CASE op' = op /\ out' = NoPacket /\ call.at <= o
  <2>1. o \in Published
    BY <1>4 DEF Published
  <2>2. toBroker' = toBroker
    BY <1>1, <1>4, TransmitsFacts, PacketFields
  <2> QED  BY <1>3, <1>4, <2>1, <2>2
<1>5. CASE Repeats(call.at) /\ call'.at = call.at + 1
  <2>1. call.at \in Published /\ call.at \in Ops /\ o # call.at /\ call.at <= o
    BY <1>2, <1>5, OpsAreInts DEF Repeats
  <2>2. o \in Published
    BY <1>2, <1>5 DEF Repeats, Kept, Published
  <2> DEFINE t == IF op[call.at].acked THEN "PUBREL" ELSE "PUBLISH"
  <2>3. toBroker' = Append(toBroker, Sent(t, call.at, f[call.at], msgQos[call.at]))
    BY <1>1, <1>5, <2>1, RepeatCore
  <2>4. f[call.at] # f[o]
    BY <1>2, <2>1, <2>2 DEF CoreOK, IdsOK, Published
  <2>5. PICK e : e = Sent(t, call.at, f[call.at], msgQos[call.at])
    OBVIOUS
  <2>6. e.id = f[call.at]
    BY <2>5 DEF Sent
  <2>7. toBroker \in Seq(BrokerPackets)
    BY DEF CoreOK, ToBrokerOK
  <2>8. e \in BrokerPackets
    <3>1. f[call.at] \in PacketIds /\ call.at \in 0 .. MaxOps /\ msgQos[call.at] \in 0 .. 2
      <4>1. f[call.at] # 0
        BY <2>1 DEF CoreOK, IdsOK, Published
      <4> QED  BY <2>1, <4>1, SmallTypes DEF CoreOK
    <3>2. t \in {"CONNECT", "PUBLISH", "PUBREL", "DISCONNECT"}
      OBVIOUS
    <3> HIDE DEF t
    <3> QED  BY <2>5, <3>1, <3>2, SentFields
  <2>9. Follows(e)
    BY <2>3, <2>5, <2>8 DEF Follows
  <2>10. ASSUME NEW i \in DOMAIN toBroker' PROVE toBroker'[i].id # g[o]
    <3>1. (i \in DOMAIN toBroker /\ toBroker'[i] = toBroker[i]) \/ toBroker'[i] = e
      BY <2>7, <2>9, FollowsFacts
    <3> QED  BY <1>3, <2>1, <2>2, <2>4, <2>6, <3>1
  <2> QED  BY <1>3, <2>1, <2>2, <2>10
<1>6. CASE op' = op /\ out' = NoPacket /\ call'.at = call.at + 1
  BY <1>2, <1>4, <1>6
<1>7. CASE op' = op /\ out' = NoPacket /\ call' = call
  BY <1>4, <1>7
<1> QED  BY <1>1, <1>5, <1>6, <1>7 DEF Turns

(* Packet ids in the channels. *)
LEMMA OwnUnique ==
  ASSUME FewMessages, IndInv, IndInv', NEW f, CoreOK(f), LinkOK, Unique(f), OwnStep, NEW g,
         Moves(f, g, {}), NEW e, NewPacket(g, e)
  PROVE  Unique(g)'
<1>1. /\ toClient' = toClient /\ (resent => resent') /\ (call'.closing => call.closing)
  BY DEF OwnStep, OwnFrame, Steady
<1>2. Shifts(0)
  <2>1. DOMAIN toClient \subseteq Int
    BY LenProperties DEF CoreOK, ToClientOK
  <2>2. \A i \in DOMAIN toClient : i \in Int /\ i + 0 = i
    BY <2>1
  <2> QED  BY <1>1, <2>2 DEF Shifts
<1>3. call'.closing => resent'
  BY <1>1 DEF Unique
<1>4. call'.loop = "reconnect" =>
        \A o \in Published' : call'.at <= o =>
           /\ \A i \in DOMAIN toBroker' : toBroker'[i].id # g[o]
           /\ \A i \in DOMAIN toClient' : toClient'[i].id # g[o]
  BY OwnTurns
<1>5. ~resent' /\ toBroker' # toBroker =>
         \/ e.id = 0
         \/ /\ \A i \in DOMAIN toBroker : toBroker[i].id # e.id
            /\ \A i \in DOMAIN toClient' : toClient'[i].id # e.id
  BY <1>1 DEF NewPacket, Fresh
<1>6. Follows(e) /\ (e.type = "PUBLISH" => ~op'[e.msg].acked)
  BY DEF NewPacket
<1>7. 0 \in Int
  OBVIOUS
<1> QED  BY <1>1, <1>2, <1>3, <1>4, <1>5, <1>6, <1>7, UniqueKept

(* What the broker counts. *)
LEMMA OwnWindow ==
  ASSUME FewMessages, IndInv, IndInv', OrderInv, NEW f, CoreOK(f), LinkOK, WindowOK(f), OwnStep,
         Next, NEW g, Moves(f, g, {}), NEW e, NewPacket(g, e)
  PROVE  WindowOK(g)'
<1>1. /\ Frame /\ toClient' = toClient /\ (resent => resent') /\ window' = window
      /\ serving' = serving /\ overdrawn' = (overdrawn \/ Dropped # {})
      /\ (session'.connected => session' = session)
  BY DEF OwnStep, OwnFrame, Steady
<1>2. Takes
  BY <1>1 DEF Takes, CoreOK, ToClientOK
<1>3. ~resent' /\ ~overdrawn' => \A o \in Published : o \notin Published' =>
         /\ f[o] \notin window
         /\ \A i \in DOMAIN toBroker : toBroker[i].type = "PUBLISH" => toBroker[i].msg # o
  <2>1. ASSUME NEW o \in Published, o \notin Published' PROVE o \in Dropped
    BY <2>1 DEF Moves, Dropped, Published
  <2> QED  BY <1>1, <2>1
<1>4. /\ inFlight \in Nat /\ inFlight' \in Nat /\ session.limit \in Nat
  BY DEF IndInv, StepInv, OpsInv, OpsTypeOK, RestTypeOK, SessionTypes
<1>5. inFlight' > inFlight => inFlight' <= session.limit
  BY NothingInSend, NextOK DEF StepOK, TakesFreeSlot
<1>6. ASSUME session'.connected, serving', ~overdrawn' PROVE inFlight' <= session'.limit
  <2>1. session' = session /\ session.connected /\ serving /\ ~overdrawn
    BY <1>1, <1>6
  <2>2. inFlight <= session.limit
    BY <2>1 DEF WindowOK
  <2> QED  BY <1>4, <1>5, <2>1, <2>2
<1>7. ASSUME NEW i \in DOMAIN toClient', toClient'[i].type = "CONNACK", ~overdrawn'
      PROVE  inFlight' <= toClient'[i].limit
  <2>1. Offline /\ inFlight <= toClient[i].limit
    BY <1>1, <1>7 DEF LinkOK, ChannelsOK, WindowOK
  <2>2. session.limit = 0
    BY <2>1 DEF Offline, OrderInv, QueueInv, SessionFacts
  <2>3. toClient[i] \in Connacks
    <3>1. toClient[i] \in Answer \cup Connacks
      BY <1>1, ElementOfSeq, LenProperties DEF CoreOK, ToClientOK
    <3> QED  BY <1>1, <1>7, <3>1 DEF Answer
  <2>4. toClient[i].limit \in Nat
    BY <2>3, SendOpsAssumption DEF Connacks
  <2> QED  BY <1>1, <1>4, <1>5, <2>1, <2>2, <2>4
<1>8. Follows(e) /\ (e.type = "PUBLISH" => e.msg \in Published') /\ (overdrawn => overdrawn')
  BY <1>1 DEF NewPacket
<1> QED  BY <1>1, <1>2, <1>3, <1>6, <1>7, <1>8, WindowKept

------------------------------------------------------------------------------
(* The packets the client takes. *)

(* The CONNACK of this connection. *)
RecvConnack(p) ==
    /\ p.type = "CONNACK" /\ session'.connected /\ session'.limit = p.limit
    /\ op' = op /\ inFlight' = inFlight /\ ~call'.closing /\ out' = NoPacket

(* An acknowledgement, or a packet that is ignored. *)
RecvAnswer(p) ==
    /\ SameSession /\ call'.loop # "reconnect"
    /\ Offline => out' = NoPacket
    /\ op' = op => ~call'.closing
    /\ p.type = "CONNACK" => op' = op /\ out' = NoPacket

(* What an acknowledgement does to the timers. *)
LEMMA PubrecSuspended ==
  ASSUME IndInv, NEW o \in Ops, NEW reply, Pubrec(o, reply)
  PROVE  StillSuspended
<1>1. OpsInv
  BY DEF IndInv, StepInv
<1>2. CASE ResendAllUntil(o)
  BY <1>2, SameSuspended DEF ResendAllUntil
<1>3. CASE ProtocolError(o) \/ CompleteWithCb(o, Guarded)
  BY <1>1, <1>3, CompleteSuspended DEF ProtocolError
<1>4. CASE op' = [op EXCEPT ![o].acked = TRUE, ![o].attempts = 1, ![o].timer = TRUE]
  <2>1. op \in [Ops -> Op] /\ op[o] \in Op
    BY <1>1 DEF OpsInv, OpsTypeOK
  <2>2. op'[o] = [op[o] EXCEPT !.acked = TRUE, !.attempts = 1, !.timer = TRUE]
        /\ \A p \in Ops : p # o => op'[p] = op[p]
    BY <1>4, <2>1
  <2>3. op'[o].st = op[o].st /\ op'[o].suspended = op[o].suspended
    BY <2>1, <2>2 DEF Op
  <2> QED  BY <2>2, <2>3 DEF StillSuspended, Published
<1> QED  BY <1>2, <1>3, <1>4 DEF Pubrec

(* The handlers of acknowledgements. *)
LEMMA AckSession ==
  ASSUME IndInv, LinkOK, ~Offline, NEW p, p.type # "CONNACK", NEW o \in Found(p),
         HandleAck(p, o)
  PROVE  /\ SessionOK' /\ RecvAnswer(p)
         /\ out'.type \in {"none", "PUBREL"}
<1>1. o \in Ops /\ OpsInv /\ SessionOK
  BY OpsAreInts DEF Found, IndInv, StepInv, LinkOK
<1>2. PICK reply \in {"success", "failure"} :
         Puback(o, TRUE) \/ Pubcomp(o, TRUE) \/ Pubrec(o, reply)
  BY DEF HandleAck
<1>3. SameSession
  BY <1>2 DEF Puback, Pubcomp, Pubrec, SameSession, session_vars
<1>4. StillSuspended
  <2>1. Pubrec(o, reply) => StillSuspended
    BY <1>1, PubrecSuspended
  <2>2. ResendAllUntil(o) => StillSuspended
    BY SameSuspended DEF ResendAllUntil
  <2>3. ProtocolError(o) \/ CompleteWithCb(o, Guarded) => StillSuspended
    BY <1>1, CompleteSuspended DEF ProtocolError
  <2> QED  BY <1>2, <2>1, <2>2, <2>3 DEF Puback, Pubcomp
<1>5. \/ Reacts
      \/ Ends(o)
      \/ Confirms(o) /\ ~call'.closing /\ call'.loop = "none"
  BY <1>1, <1>2, PubackClass, PubcompClass, PubrecClass
<1>6. call'.loop # "reconnect"
  BY <1>5 DEF Reacts, Ends
<1>7. op' = op => ~call'.closing
  <2>1. Ends(o) => op' # op
    BY DEF Ends, Leaves, OpIn, Published
  <2> QED  BY <1>5, <2>1 DEF Reacts
<1>8. out' = NoPacket \/ out' = Packet("PUBREL", o, FALSE)
  BY <1>2 DEF Puback, Pubcomp, Pubrec, ResendAllUntil, ProtocolError
<1>9. out'.type \in {"none", "PUBREL"}
  BY <1>8 DEF NoPacket, Packet
<1>10. SessionOK'
  BY <1>1, <1>3, <1>4, SessionKept
<1> QED  BY <1>3, <1>6, <1>7, <1>9, <1>10 DEF RecvAnswer

(* The CONNACK. *)
LEMMA ConnackSession ==
  ASSUME IndInv, LinkOK, NEW p, p.type = "CONNACK", Connack(p.present, p.limit, p.expiry, FALSE)
  PROVE  SessionOK' /\ RecvConnack(p)
<1>1. /\ session' = [session EXCEPT !.connected = TRUE, !.limit = p.limit,
                        !.expiry = p.expiry, !.smallPackets = FALSE]
      /\ connecting /\ ~connecting' /\ op' = op /\ inFlight' = inFlight /\ out' = NoPacket
      /\ UNCHANGED <<initialized, fullOrdering>>
  BY DEF Connack
<1>2. session \in SessionTypes
  BY DEF IndInv, RestTypeOK
<1>3. session'.connected /\ session'.limit = p.limit /\ session'.smallPackets = FALSE
  BY <1>1, <1>2 DEF SessionTypes
<1>4. ~call'.closing
  BY DEF Connack, Guarded, NoCall
<1>5. initialized' /\ fullOrdering' = FALSE
  BY <1>1 DEF LinkOK, SessionOK
<1>6. ~Offline'
  BY <1>3 DEF Offline
<1> QED  BY <1>1, <1>3, <1>4, <1>5, <1>6 DEF SessionOK, RecvConnack

(* Both. *)
LEMMA RecvSession ==
  ASSUME IndInv, NEW f, CoreOK(f), LinkOK, ClientRecv, NEW p, p = Head(toClient)
  PROVE  /\ SessionOK' /\ (RecvConnack(p) \/ RecvAnswer(p))
         /\ out'.type \in {"none", "PUBREL"}
<1>1. Handle(p) /\ Idle
  BY DEF ClientRecv
<1>2. SessionOK /\ NoPacket.type = "none"
  BY PacketFields DEF LinkOK
<1>7. 1 \in DOMAIN toClient /\ p = toClient[1]
  BY RecvTakes
<1>8. p.type # "CONNACK" => ~Offline
  BY <1>7 DEF LinkOK, ChannelsOK
<1>3. ASSUME Ignored PROVE SessionOK' /\ RecvAnswer(p) /\ out'.type = "none"
  <2>1. /\ SameSession /\ op' = op /\ out' = NoPacket /\ call' = NoCall
    BY <1>1, <1>3 DEF Ignored, SameSession, session_vars, Idle
  <2>2. call'.loop = "none" /\ call'.closing = FALSE
    BY <2>1, PlainCalls
  <2>3. SessionOK'
    BY <1>2, <2>1, <2>2, SameSuspended, SessionKept
  <2> QED  BY <1>2, <2>1, <2>2, <2>3 DEF RecvAnswer
<1>4. ASSUME p.type = "PUBREC", PubrecUnknown
      PROVE  SessionOK' /\ RecvAnswer(p) /\ out'.type = "PUBREL"
  <2>1. /\ SameSession /\ op' = op /\ out' = Packet("PUBREL", 0, FALSE) /\ call' = Guarded
        /\ ~Offline
    BY <1>4, <1>8 DEF PubrecUnknown, SameSession, session_vars
  <2>2. call'.loop = "none" /\ call'.closing = FALSE
    BY <2>1, PlainCalls
  <2>3. SessionOK'
    BY <1>2, <2>1, <2>2, SameSuspended, SessionKept
  <2>4. out'.type = "PUBREL"
    BY <2>1 DEF Packet
  <2> QED  BY <1>4, <2>1, <2>2, <2>3, <2>4 DEF RecvAnswer
<1>5. ASSUME p.type # "CONNACK", NEW o \in Found(p), HandleAck(p, o)
      PROVE  SessionOK' /\ RecvAnswer(p) /\ out'.type \in {"none", "PUBREL"}
  BY <1>5, <1>8, AckSession
<1>6. ASSUME p.type = "CONNACK", Connack(p.present, p.limit, p.expiry, FALSE)
      PROVE  SessionOK' /\ RecvConnack(p) /\ out'.type = "none"
  BY <1>2, <1>6, ConnackSession DEF RecvConnack
<1> QED  BY <1>1, <1>3, <1>4, <1>5, <1>6 DEF Handle

(* What is left in the channel. *)
LEMMA RecvShifts ==
  ASSUME NEW f, CoreOK(f), ChannelsOK, ClientRecv, NEW p, p = Head(toClient)
  PROVE  /\ Shifts(1)
         /\ \A i \in DOMAIN toClient' : toClient'[i].type # "CONNACK" /\ i + 1 # 1
         /\ p.type = "CONNACK" => toBroker = <<>> /\ toClient' = <<>> /\ Offline /\ window = {}
<1>1. toClient # <<>> /\ toClient' = Tail(toClient) /\ toClient \in Seq(Answer \cup Connacks)
      /\ 1 \in DOMAIN toClient /\ p = toClient[1]
  BY RecvTakes DEF CoreOK, ToClientOK
<1>2. /\ Tail(toClient) \in Seq(Answer \cup Connacks)
      /\ \A i \in DOMAIN Tail(toClient) :
            Tail(toClient)[i] = toClient[i + 1] /\ i + 1 \in DOMAIN toClient
  BY <1>1, TailFacts
<1>3. \A i \in DOMAIN toClient' : i \in Nat /\ i >= 1
  BY <1>1, <1>2, LenProperties
<1>4. Shifts(1)
  BY <1>1, <1>2, <1>3 DEF Shifts
<1>5. Len(toClient) = 1 => toClient' = <<>>
  <2>1. Len(toClient') = Len(toClient) - 1
    BY <1>1, HeadTailProperties
  <2> QED  BY <1>1, <1>2, <2>1, EmptySeq
<1>6. ASSUME NEW i \in DOMAIN toClient, toClient[i].type = "CONNACK"
      PROVE  Len(toClient) = 1 /\ toBroker = <<>> /\ Offline /\ window = {}
  BY <1>6 DEF ChannelsOK
<1>7. ASSUME NEW i \in DOMAIN toClient' PROVE toClient'[i].type # "CONNACK" /\ i + 1 # 1
  <2>1. SUFFICES ASSUME toClient'[i].type = "CONNACK" PROVE FALSE
    BY <1>3
  <2>2. toClient' = <<>>
    BY <1>1, <1>2, <1>5, <1>6, <2>1
  <2> QED  BY <1>3, <2>2
<1> QED  BY <1>1, <1>4, <1>5, <1>6, <1>7

(* While nothing is repeated, no other packet has the id of the first answer. *)
LEMMA RecvFresh ==
  ASSUME NEW f, CoreOK(f), LinkOK, Unique(f), ClientRecv, NEW p, p = Head(toClient),
         p.type # "CONNACK", ~resent
  PROVE  /\ \A i \in DOMAIN toBroker : toBroker[i].id # p.id
         /\ \A i \in DOMAIN toClient' : toClient'[i].id # p.id
<1>1. p.id \in 1 .. lastId /\ 1 \in DOMAIN toClient /\ p = toClient[1]
  BY RecvTakes
<1>2. p.id # 0
  BY <1>1
<1>3. Shifts(1) /\ \A i \in DOMAIN toClient' : i + 1 # 1
  BY RecvShifts DEF LinkOK
<1>4. ASSUME NEW i \in DOMAIN toClient' PROVE toClient'[i].id # p.id
  <2>1. i + 1 \in DOMAIN toClient /\ toClient'[i] = toClient[i + 1]
    BY <1>3 DEF Shifts
  <2> QED  BY <1>1, <1>2, <1>3, <2>1 DEF Unique
<1> QED  BY <1>1, <1>2, <1>4 DEF Unique

(* What the client answers. *)
LEMMA RecvPacket ==
  ASSUME FewMessages, IndInv, OrderInv, IndInv', NEW f, CoreOK(f), LinkOK, ClientRecv,
         NEW p, p = Head(toClient)
  PROVE  \E e : /\ Follows(e) /\ e.type = "PUBREL"
                /\ toBroker' # toBroker => p.type = "PUBREC" /\ e.id = p.id
                /\ RecvRests \/ (\E o \in Ops : RecvEnds(o, p)) => toBroker' = toBroker
<1>1. Transmits(toBroker, p.id) /\ p.id \in PacketIds /\ out'.type \in {"none", "PUBREL"}
  BY RecvTakes, RecvSession
<1>2. 0 \in PacketIds /\ 0 \in 0 .. MaxOps /\ 0 \in 0 .. 2
  BY SmallTypes DEF CoreOK
<1>3. CASE RecvRests \/ \E o \in Ops : RecvEnds(o, p)
  <2>1. toBroker' = toBroker
    BY <1>1, <1>3, TransmitsFacts DEF RecvRests, RecvEnds, Ends, Silent
  <2>2. PICK e : e = Sent("PUBREL", 0, 0, 0)
    OBVIOUS
  <2>3. e \in BrokerPackets /\ e.type = "PUBREL"
    BY <1>2, <2>2, SentFields
  <2> QED  BY <2>1, <2>3 DEF Follows
<1>4. ASSUME NEW o \in Ops, RecvConfirms(o, p), ~(RecvRests \/ \E q \in Ops : RecvEnds(q, p))
      PROVE  \E e : /\ Follows(e) /\ e.type = "PUBREL"
                    /\ toBroker' # toBroker => p.type = "PUBREC" /\ e.id = p.id
  <2>1. f[o] = p.id /\ toBroker' = Append(toBroker, Sent("PUBREL", o, f[o], msgQos[o]))
    BY <1>4, ConfirmCore
  <2>2. PICK e : e = Sent("PUBREL", o, f[o], msgQos[o])
    OBVIOUS
  <2>3. o \in 0 .. MaxOps /\ msgQos[o] \in 0 .. 2
    BY SmallTypes DEF CoreOK
  <2>4. e \in BrokerPackets /\ e.type = "PUBREL" /\ e.id = p.id
    BY <1>1, <2>1, <2>2, <2>3, SentFields
  <2> QED  BY <1>4, <2>1, <2>2, <2>4 DEF Follows, RecvConfirms
<1>5. ASSUME RecvStrange(p)
      PROVE  \E e : /\ Follows(e) /\ e.type = "PUBREL"
                    /\ toBroker' # toBroker => p.type = "PUBREC" /\ e.id = p.id
  <2>1. toBroker' = Append(toBroker, Sent("PUBREL", 0, p.id, 0))
    BY <1>5, StrangeCore
  <2>2. PICK e : e = Sent("PUBREL", 0, p.id, 0)
    OBVIOUS
  <2>3. e \in BrokerPackets /\ e.type = "PUBREL" /\ e.id = p.id
    BY <1>1, <1>2, <2>2, SentFields
  <2> QED  BY <1>5, <2>1, <2>2, <2>3 DEF Follows, RecvStrange
<1>6. toClient \in Seq(Answer \cup Connacks)
  BY DEF CoreOK, ToClientOK
<1>7. \/ RecvRests
      \/ \E o \in Ops : RecvEnds(o, p)
      \/ \E o \in Ops : RecvConfirms(o, p)
      \/ RecvStrange(p)
  BY <1>6, RecvCases
<1> QED  BY <1>3, <1>4, <1>5, <1>7

(* The channels. *)
LEMMA RecvChannels ==
  ASSUME FewMessages, IndInv, OrderInv, IndInv', NEW f, CoreOK(f), LinkOK, ClientRecv
  PROVE  LinkOK'
<1>1. PICK p : p = Head(toClient)
  OBVIOUS
<1>2. PICK e : Follows(e) /\ e.type = "PUBREL"
  BY <1>1, RecvPacket
<1>3. /\ SessionOK' /\ (RecvConnack(p) \/ RecvAnswer(p))
  BY <1>1, RecvSession
<1>4. /\ \A i \in DOMAIN toClient' : toClient'[i].type # "CONNACK"
      /\ p.type = "CONNACK" => toBroker = <<>>
  BY <1>1, RecvShifts DEF LinkOK
<1>5. /\ UNCHANGED <<stored, serving, resent, overdrawn, window>> /\ Transmits(toBroker, p.id)
  BY <1>1 DEF ClientRecv, brokerVars
<1>6. ASSUME NEW i \in DOMAIN toBroker'
      PROVE  (i \in DOMAIN toBroker /\ toBroker'[i] = toBroker[i]) \/ toBroker'[i] = e
  BY <1>2, FollowsFacts DEF CoreOK, ToBrokerOK
<1>7. ASSUME NEW i \in DOMAIN toBroker', toBroker'[i].type \in {"CONNECT", "DISCONNECT"}
      PROVE  toBroker'[i].id = 0
  BY <1>2, <1>6, <1>7 DEF LinkOK, ChannelsOK
<1>8. ASSUME NEW i \in DOMAIN toBroker', toBroker'[i].type = "CONNECT"
      PROVE  Len(toBroker') = 1 /\ Offline' /\ window' = {}
  <2>1. i \in DOMAIN toBroker /\ toBroker[i].type = "CONNECT"
    BY <1>2, <1>6, <1>8
  <2>2. Len(toBroker) = 1 /\ Offline /\ window = {}
    BY <2>1 DEF LinkOK, ChannelsOK
  <2>3. p.type # "CONNACK"
    BY <1>4, <2>1
  <2>4. RecvAnswer(p)
    BY <1>3, <2>3 DEF RecvConnack
  <2>5. toBroker' = toBroker /\ Offline'
    BY <1>5, <2>2, <2>4, TransmitsFacts, PacketFields DEF RecvAnswer, SameSession, Offline
  <2> QED  BY <1>5, <2>2, <2>5
<1>9. ASSUME Offline'
      PROVE  /\ \A i \in DOMAIN toBroker' : toBroker'[i].type = "CONNECT"
             /\ \A i \in DOMAIN toClient' : toClient'[i].type = "CONNACK"
  <2>1. RecvAnswer(p) /\ Offline
    BY <1>3, <1>9 DEF RecvConnack, RecvAnswer, SameSession, Offline
  <2>2. toBroker' = toBroker
    BY <1>5, <2>1, TransmitsFacts, PacketFields DEF RecvAnswer
  <2>3. \A i \in DOMAIN toClient' : \E j \in DOMAIN toClient : toClient'[i] = toClient[j]
    BY <1>1, RecvShifts DEF LinkOK, Shifts
  <2> QED  BY <2>1, <2>2, <2>3 DEF LinkOK, ChannelsOK
<1> QED  BY <1>3, <1>4, <1>5, <1>7, <1>8, <1>9 DEF LinkOK, ChannelsOK

(* An acknowledgement that does not fit its operation follows a repeated packet. *)
LEMMA RecvCloses ==
  ASSUME IndInv, NEW f, CoreOK(f), LinkOK, Unique(f), ClientRecv, NEW p, p = Head(toClient),
         NEW o \in Ops, RecvEnds(o, p)
  PROVE  /\ f[o] = p.id /\ o \in Published /\ op[o].qos = msgQos[o] /\ p.type # "CONNACK"
         /\ call'.closing => resent
         /\ p.type = "PUBACK" => msgQos[o] = 1
<1>1. /\ 1 \in DOMAIN toClient /\ p = toClient[1]
      /\ p.type = "PUBACK" => PubackOK(f, p)
      /\ p.type = "PUBREC" => PubrecOK(f, p)
      /\ p.type = "PUBCOMP" => PubcompOK(f, p)
  BY RecvTakes
<1>2. o \in Published /\ op[o].st = "published" /\ op[o].id = p.id /\ o \in Live
  BY DEF RecvEnds, Ends, Leaves, Published
<1>3. f[o] = p.id /\ op[o].qos = msgQos[o]
  BY <1>2 DEF CoreOK, IdsOK
<1>4. p.type = "PUBACK" => msgQos[o] = 1
  BY <1>1, <1>3 DEF PubackOK
<1>5. p.type = "PUBCOMP" => msgQos[o] = 2 /\ op[o].acked
  BY <1>1, <1>2, <1>3 DEF PubcompOK
<1>6. p.type = "PUBREC" => msgQos[o] = 2 /\ (resent \/ ~op[o].acked)
  BY <1>1, <1>3 DEF PubrecOK, Unique
<1> QED  BY <1>2, <1>3, <1>4, <1>5, <1>6 DEF RecvEnds

(* Packet ids in the channels. *)
LEMMA RecvUnique ==
  ASSUME FewMessages, IndInv, OrderInv, IndInv', NEW f, CoreOK(f), LinkOK, Unique(f), ClientRecv
  PROVE  Unique(f)'
<1>1. PICK p : p = Head(toClient)
  OBVIOUS
<1>2. PICK e : /\ Follows(e) /\ e.type = "PUBREL"
               /\ toBroker' # toBroker => p.type = "PUBREC" /\ e.id = p.id
               /\ RecvRests \/ (\E o \in Ops : RecvEnds(o, p)) => toBroker' = toBroker
  BY <1>1, RecvPacket
<1>3. RecvConnack(p) \/ RecvAnswer(p)
  BY <1>1, RecvSession
<1>4. /\ Shifts(1) /\ 1 \in Int
      /\ p.type = "CONNACK" => toBroker = <<>> /\ toClient' = <<>>
  BY <1>1, RecvShifts DEF LinkOK
<1>5. resent' = resent /\ toClient \in Seq(Answer \cup Connacks)
  BY DEF ClientRecv, CoreOK, ToClientOK
<1>6. ASSUME call'.loop = "reconnect"
      PROVE  \A o \in Published' : call'.at <= o =>
                /\ \A i \in DOMAIN toBroker' : toBroker'[i].id # f[o]
                /\ \A i \in DOMAIN toClient' : toClient'[i].id # f[o]
  <2>1. RecvConnack(p) /\ p.type = "CONNACK"
    BY <1>3, <1>6 DEF RecvAnswer, RecvConnack
  <2>2. toBroker' = <<>> /\ toClient' = <<>>
    BY <1>2, <1>4, <2>1
  <2> QED  BY <2>2
<1>7. ~resent' /\ toBroker' # toBroker =>
         \/ e.id = 0
         \/ /\ \A i \in DOMAIN toBroker : toBroker[i].id # e.id
            /\ \A i \in DOMAIN toClient' : toClient'[i].id # e.id
  BY <1>1, <1>2, <1>5, RecvFresh
<1>8. ASSUME NEW a, Moves(f, f, a), call'.closing => resent,
             ~resent' => \A m \in a :
               /\ \A i \in DOMAIN toBroker : toBroker[i].type = "PUBLISH" => toBroker[i].msg # m
               /\ \A i \in DOMAIN toClient' : toClient'[i].id # f[m]
      PROVE  Unique(f)'
  BY <1>2, <1>4, <1>5, <1>6, <1>7, <1>8, UniqueKept
<1>9. CASE RecvRests
  <2>1. Moves(f, f, {})
    BY <1>9, RestCore
  <2>2. ~call'.closing
    BY <1>3, <1>9 DEF RecvRests, RecvConnack, RecvAnswer
  <2> QED  BY <1>8, <2>1, <2>2
<1>10. ASSUME NEW o \in Ops, RecvEnds(o, p) PROVE Unique(f)'
  <2>1. Moves(f, f, {})
    BY <1>1, <1>10, EndCore
  <2>2. call'.closing => resent
    BY <1>1, <1>10, RecvCloses
  <2> QED  BY <1>8, <2>1, <2>2
<1>11. ASSUME NEW o \in Ops, RecvConfirms(o, p) PROVE Unique(f)'
  <2>1. Moves(f, f, {o}) /\ f[o] = p.id /\ ~call'.closing /\ p.type # "CONNACK"
    BY <1>1, <1>11, ConfirmCore DEF RecvConfirms
  <2>2. ASSUME ~resent', NEW m \in {o}
        PROVE  /\ \A i \in DOMAIN toBroker : toBroker[i].type = "PUBLISH" => toBroker[i].msg # m
               /\ \A i \in DOMAIN toClient' : toClient'[i].id # f[m]
    <3>1. /\ \A i \in DOMAIN toBroker : toBroker[i].id # p.id
          /\ \A i \in DOMAIN toClient' : toClient'[i].id # p.id
      BY <1>1, <1>5, <2>1, <2>2, RecvFresh
    <3>2. \A i \in DOMAIN toBroker : toBroker[i].type = "PUBLISH" =>
             toBroker[i].id = f[toBroker[i].msg]
      BY DEF CoreOK, ToBrokerOK, PublishOK
    <3> QED  BY <2>1, <3>1, <3>2
  <2> QED  BY <1>8, <2>1, <2>2
<1>12. CASE RecvStrange(p)
  <2>1. Moves(f, f, {}) /\ ~call'.closing
    BY <1>1, <1>12, StrangeCore DEF RecvStrange
  <2> QED  BY <1>8, <2>1
<1> QED  BY <1>1, <1>5, <1>9, <1>10, <1>11, <1>12, RecvCases

(* What the broker counts. *)
LEMMA RecvWindow ==
  ASSUME FewMessages, IndInv, OrderInv, IndInv', NEW f, CoreOK(f), LinkOK, Unique(f), WindowOK(f),
         ClientRecv
  PROVE  WindowOK(f)'
<1>1. PICK p : p = Head(toClient)
  OBVIOUS
<1>2. PICK e : Follows(e) /\ e.type = "PUBREL"
  BY <1>1, RecvPacket
<1>3. RecvConnack(p) \/ RecvAnswer(p)
  BY <1>1, RecvSession
<1>4. \A i \in DOMAIN toClient' : toClient'[i].type # "CONNACK"
  BY <1>1, RecvShifts DEF LinkOK
<1>5. /\ UNCHANGED <<serving, resent, overdrawn, window>> /\ Frame /\ Takes
      /\ 1 \in DOMAIN toClient /\ p = toClient[1]
  BY <1>1, RecvTakes DEF ClientRecv, brokerVars
<1>6. toClient \in Seq(Answer \cup Connacks)
  BY DEF CoreOK, ToClientOK
<1>7. /\ inFlight \in Nat /\ inFlight' \in Nat /\ session.limit \in Nat
  BY DEF IndInv, StepInv, OpsInv, OpsTypeOK, RestTypeOK, SessionTypes
<1>8. ASSUME session'.connected, serving', ~overdrawn' PROVE inFlight' <= session'.limit
  <2>1. CASE RecvConnack(p)
    BY <1>5, <1>8, <2>1 DEF RecvConnack, WindowOK
  <2>2. CASE RecvAnswer(p)
    <3>1. session' = session /\ session.connected /\ serving /\ ~overdrawn
      BY <1>5, <1>8, <2>2 DEF RecvAnswer, SameSession
    <3>2. inFlight <= session.limit
      BY <3>1 DEF WindowOK
    <3>3. Next \/ Ignored
      BY <1>6, HandledSteps
    <3>4. Next => (inFlight' > inFlight => inFlight' <= session.limit)
      BY NothingInSend, NextOK DEF StepOK, TakesFreeSlot
    <3>5. Ignored => inFlight' = inFlight
      BY DEF Ignored
    <3> QED  BY <1>7, <3>1, <3>2, <3>3, <3>4, <3>5
  <2> QED  BY <1>3, <2>1, <2>2
<1>9. ASSUME NEW a, Moves(f, f, a),
             ~resent' /\ ~overdrawn' => \A o \in Published : o \notin Published' =>
               /\ f[o] \notin window
               /\ \A i \in DOMAIN toBroker : toBroker[i].type = "PUBLISH" => toBroker[i].msg # o
      PROVE  WindowOK(f)'
  BY <1>2, <1>4, <1>5, <1>8, <1>9, WindowKept
<1>10. CASE RecvRests \/ RecvStrange(p)
  <2>1. Moves(f, f, {}) /\ op' = op
    BY <1>1, <1>10, RestCore, StrangeCore DEF RecvRests, RecvStrange
  <2>2. Published' = Published
    BY <2>1 DEF Published
  <2> QED  BY <1>9, <2>1, <2>2
<1>11. ASSUME NEW o \in Ops, RecvConfirms(o, p) PROVE WindowOK(f)'
  <2>1. Moves(f, f, {o})
    BY <1>1, <1>11, ConfirmCore
  <2>2. \A q \in Published : q \in Published'
    BY <1>11, OpsAreInts DEF RecvConfirms, Confirms, Others, Kept, Published
  <2> QED  BY <1>9, <2>1, <2>2
<1>12. ASSUME NEW o \in Ops, RecvEnds(o, p) PROVE WindowOK(f)'
  <2>1. Moves(f, f, {})
    BY <1>1, <1>12, EndCore
  <2>2. /\ f[o] = p.id /\ o \in Published /\ p.type # "CONNACK"
        /\ call'.closing => resent
        /\ p.type = "PUBACK" => msgQos[o] = 1
    BY <1>1, <1>12, RecvCloses
  <2>3. \A q \in Published : q # o => q \in Published'
    BY <1>12, OpsAreInts DEF RecvEnds, Ends, Others, Kept, Published
  <2>4. f[o] # 0
    BY <2>2 DEF CoreOK, IdsOK, Published
  <2>5. ASSUME ~resent PROVE f[o] \notin window
    <3>1. CASE p.type = "PUBACK"
      <4>1. SUFFICES ASSUME f[o] \in window PROVE FALSE
        OBVIOUS
      <4>2. f[o] \in PacketIds /\ heldAs[f[o]] # None
        BY <4>1 DEF WindowOK
      <4>3. heldAs[f[o]] \in Ops
        BY <4>2, SendOpsAssumption DEF CoreOK, HeldOK, None, Ops
      <4>4. f[heldAs[f[o]]] = f[o] /\ msgQos[heldAs[f[o]]] = 2
        BY <4>2, <4>3 DEF CoreOK, HeldOK
      <4>5. heldAs[f[o]] = o
        BY <2>4, <4>3, <4>4 DEF CoreOK, IdsOK
      <4> QED  BY <2>2, <3>1, <4>4, <4>5
    <3>2. CASE p.type = "PUBCOMP" \/ (p.type = "PUBREC" /\ p.code = "error")
      BY <1>5, <2>2, <2>5, <3>2 DEF WindowOK
    <3>3. CASE p.type = "PUBREC" /\ p.code # "error"
      BY <1>12, <2>2, <2>5, <3>3 DEF RecvEnds
    <3> QED  BY <1>12, <3>1, <3>2, <3>3 DEF RecvEnds
  <2>6. ASSUME ~resent, NEW i \in DOMAIN toBroker, toBroker[i].type = "PUBLISH"
        PROVE  toBroker[i].msg # o
    <3>1. toBroker[i].id # p.id
      BY <1>1, <2>2, <2>6, RecvFresh
    <3>2. toBroker[i].id = f[toBroker[i].msg]
      BY <2>6 DEF CoreOK, ToBrokerOK, PublishOK
    <3> QED  BY <2>2, <3>1, <3>2
  <2> QED  BY <1>5, <1>9, <2>1, <2>3, <2>5, <2>6
<1> QED  BY <1>1, <1>6, <1>10, <1>11, <1>12, RecvCases

------------------------------------------------------------------------------
(* The channels while the broker takes a packet. *)

(* The client rests. *)
LEMMA BrokerRests ==
  ASSUME SessionOK, ClientRests
  PROVE  /\ SessionOK' /\ SameSession /\ op' = op /\ inFlight' = inFlight
         /\ call'.loop = "none" /\ call'.closing = FALSE
         /\ (Offline' <=> Offline) /\ Published' = Published
<1>1. /\ SameSession /\ op' = op /\ inFlight' = inFlight /\ call' = NoCall
  BY DEF ClientRests, SameSession, session_vars, Idle
<1>2. call'.loop = "none" /\ call'.closing = FALSE
  BY <1>1, PlainCalls
<1>3. SessionOK'
  BY <1>1, <1>2, SameSuspended, SessionKept
<1> QED  BY <1>1, <1>2, <1>3 DEF SameSession, Offline, Published

(* Where the packets to the client come from. *)
Places(r, k) ==
    \A i \in DOMAIN toClient' :
        /\ i \in Int
        /\ i < k => i \in DOMAIN toClient /\ toClient'[i] = toClient[i]
        /\ i = k => toClient'[i] = r
        /\ i > k => i - 1 \in DOMAIN toClient /\ toClient'[i] = toClient[i - 1]

(* An answer is inserted. *)
LEMMA InsertsPlaces ==
  ASSUME toClient \in Seq(Answer \cup Connacks), NEW r \in Answer, Inserts(r)
  PROVE  \E k \in Int : Places(r, k)
<1>1. PICK k \in 1 .. Len(toClient) + 1 : toClient' = InsertAt(toClient, k, r)
  BY DEF Inserts
<1>2. PICK S : S = Answer \cup Connacks
  OBVIOUS
<1>3. r \in S /\ toClient \in Seq(S)
  BY <1>2
<1>4. /\ Len(toClient) \in Nat
      /\ DOMAIN InsertAt(toClient, k, r) = 1 .. Len(toClient) + 1
      /\ InsertAt(toClient, k, r)[k] = r
      /\ \A i \in 1 .. Len(toClient) + 1 :
            /\ i < k => i \in DOMAIN toClient /\ InsertAt(toClient, k, r)[i] = toClient[i]
            /\ i > k => i - 1 \in DOMAIN toClient
                        /\ InsertAt(toClient, k, r)[i] = toClient[i - 1]
  BY <1>3, InsertFacts
<1>5. k \in Int /\ Places(r, k)
  BY <1>1, <1>4 DEF Places
<1> QED  BY <1>5

(* No packet behind the first has its id, while nothing is repeated. *)
LEMMA TakenAlone ==
  ASSUME NEW f, CoreOK(f), Unique(f), BrokerRecv, NEW p, p = Head(toBroker), ~resent, p.id # 0
  PROVE  /\ \A i \in DOMAIN toBroker' : toBroker'[i].id # p.id
         /\ \A i \in DOMAIN toClient : toClient[i].id # p.id
<1>1. Rest /\ 1 \in DOMAIN toBroker /\ p = toBroker[1]
  BY BrokerTakes
<1>2. ASSUME NEW i \in DOMAIN toBroker' PROVE toBroker'[i].id # p.id
  <2>1. i + 1 \in DOMAIN toBroker /\ toBroker'[i] = toBroker[i + 1] /\ i + 1 # 1
    BY <1>1 DEF Rest
  <2> QED  BY <1>1, <2>1 DEF Unique
<1> QED  BY <1>1, <1>2 DEF Unique

(* The link. *)
LEMMA BrokerLink ==
  ASSUME NEW f, CoreOK(f), LinkOK, BrokerRecv
  PROVE  /\ LinkOK' /\ \A i \in DOMAIN toClient' : toClient'[i].type # "CONNACK"
<1>1. PICK p : p = Head(toBroker)
  OBVIOUS
<1>2. /\ Rest /\ toBroker # <<>> /\ toBroker \in Seq(BrokerPackets)
      /\ toClient \in Seq(Answer \cup Connacks)
  BY <1>1, BrokerTakes DEF CoreOK, ToBrokerOK, ToClientOK
<1>3. /\ ClientRests /\ UNCHANGED <<stored, resent, overdrawn>>
      /\ serving' = FALSE \/ serving' = serving
  BY DEF BrokerRecv
<1>4. SessionOK'
  BY <1>3, BrokerRests DEF LinkOK
<1>5. ASSUME NEW i \in DOMAIN toClient' PROVE toClient'[i].type # "CONNACK"
  <2>1. \A j \in DOMAIN toClient : toClient[j].type # "CONNACK"
    BY <1>2 DEF LinkOK, ChannelsOK
  <2>2. CASE Drops
    BY <1>5, <2>1, <2>2 DEF Drops
  <2>3. ASSUME NEW r \in Answer, Inserts(r) PROVE toClient'[i].type # "CONNACK"
    <3>1. Adds(r) /\ r.type # "CONNACK"
      BY <1>2, <2>3, InsertsAdds DEF Answer
    <3> QED  BY <1>5, <2>1, <3>1 DEF Adds
  <2> QED  BY <1>1, <2>2, <2>3, BrokerCases
<1>6. ASSUME NEW i \in DOMAIN toBroker', toBroker'[i].type \in {"CONNECT", "DISCONNECT"}
      PROVE  toBroker'[i].id = 0
  BY <1>2, <1>6 DEF Rest, LinkOK, ChannelsOK
<1>7. ASSUME NEW i \in DOMAIN toBroker' PROVE toBroker'[i].type # "CONNECT"
  <2>1. SUFFICES ASSUME toBroker'[i].type = "CONNECT" PROVE FALSE
    OBVIOUS
  <2>2. i + 1 \in DOMAIN toBroker /\ toBroker'[i] = toBroker[i + 1] /\ i \in Nat /\ i > 0
    BY <1>2 DEF Rest
  <2>3. Len(toBroker) = 1
    BY <2>1, <2>2 DEF LinkOK, ChannelsOK
  <2>4. DOMAIN toBroker = 1 .. 1
    BY <1>2, <2>3, LenProperties
  <2> QED  BY <2>2, <2>4
<1>8. ~Offline'
  <2>1. 1 \in DOMAIN toBroker /\ toBroker[1].type # "CONNECT"
    BY <1>2, TailFacts DEF BrokerRecv
  <2>2. ~Offline
    BY <2>1 DEF LinkOK, ChannelsOK
  <2> QED  BY <1>3, <2>2 DEF ClientRests, session_vars, Offline
<1> QED  BY <1>3, <1>4, <1>5, <1>6, <1>7, <1>8 DEF LinkOK, ChannelsOK

(* The packet ids, when p is answered with r. *)
LEMMA ReplyUnique ==
  ASSUME IndInv, NEW f, CoreOK(f), LinkOK, Unique(f), BrokerRecv, NEW p, p = Head(toBroker),
         NEW r \in Answer, Inserts(r), r.id = p.id,
         Refuses(p, r) \/ TakesOne(p, r) \/ TakesTwo(p, r) \/ Frees(p, r)
  PROVE  Unique(f)'
<1>1. /\ Rest /\ 1 \in DOMAIN toBroker /\ p = toBroker[1]
      /\ p.type = "PUBLISH" => PublishOK(f, p)
      /\ p.type = "PUBREL" => PubrelOK(f, p)
  BY BrokerTakes
<1>2. /\ op' = op /\ call'.loop = "none" /\ call'.closing = FALSE /\ resent' = resent
  BY BrokerRests DEF BrokerRecv, LinkOK
<1>3. p.type \in {"PUBLISH", "PUBREL"} /\ (r.type = "PUBREC" => p.type = "PUBLISH")
  BY DEF Refuses, TakesOne, TakesTwo, Frees
<1>4. p.id # 0
  BY <1>1, <1>3 DEF PublishOK, PubrelOK
<1>5. PICK k \in Int : Places(r, k)
  BY InsertsPlaces DEF CoreOK, ToClientOK
<1>6. ASSUME NEW i \in DOMAIN toClient'
      PROVE  i \in Int /\ (toClient'[i] = r \/ \E j \in DOMAIN toClient : toClient'[i] = toClient[j])
  <2>1. i \in Int /\ (i < k \/ i = k \/ i > k)
    BY <1>5 DEF Places
  <2> QED  BY <1>5, <2>1 DEF Places
<1>7. ASSUME NEW m \in Ops, f[m] = p.id
      PROVE  op[m].st \in {"published", "gone"} /\ (p.type = "PUBLISH" => m = p.msg)
  <2>1. CASE p.type = "PUBLISH"
    <3>1. m = p.msg
      BY <1>1, <1>7, <2>1, OneMessage DEF CoreOK
    <3> QED  BY <1>1, <2>1, <3>1 DEF PublishOK
  <2>2. CASE p.type = "PUBREL"
    <3>1. op[m].st # "gone" => op[m].acked
      BY <1>1, <1>7, <2>2 DEF PubrelOK
    <3>2. op[m].acked => op[m].st = "published"
      BY DEF IndInv, StepInv, OpsInv, FieldsOfStates
    <3> QED  BY <2>2, <3>1, <3>2
  <2> QED  BY <1>3, <2>1, <2>2
<1>8. Known(f)'
  <2>1. ASSUME NEW i \in DOMAIN toClient', toClient'[i].type # "CONNACK",
               NEW m \in Ops, f[m] = toClient'[i].id
        PROVE  op'[m].st \in {"published", "gone"}
    <3>1. CASE toClient'[i] = r
      BY <1>2, <1>7, <2>1, <3>1
    <3>2. ASSUME NEW j \in DOMAIN toClient, toClient'[i] = toClient[j]
          PROVE  op'[m].st \in {"published", "gone"}
      BY <1>2, <2>1, <3>2 DEF Unique, Known
    <3> QED  BY <1>6, <3>1, <3>2
  <2> QED  BY <2>1 DEF Known
<1>9. ASSUME ~resent'
      PROVE  /\ \A i, j \in DOMAIN toBroker' :
                   toBroker'[i].id = toBroker'[j].id /\ toBroker'[i].id # 0 => i = j
             /\ \A i, j \in DOMAIN toClient' :
                   toClient'[i].id = toClient'[j].id /\ toClient'[i].id # 0 => i = j
             /\ \A i \in DOMAIN toBroker' : \A j \in DOMAIN toClient' :
                   toBroker'[i].id = toClient'[j].id => toBroker'[i].id = 0
             /\ \A i \in DOMAIN toBroker' :
                   toBroker'[i].type = "PUBLISH" => ~op'[toBroker'[i].msg].acked
             /\ \A i \in DOMAIN toClient' : toClient'[i].type = "PUBREC" =>
                   \A m \in Ops : f[m] = toClient'[i].id => ~op'[m].acked
  <2>1. /\ ~resent
        /\ \A i, j \in DOMAIN toBroker :
              toBroker[i].id = toBroker[j].id /\ toBroker[i].id # 0 => i = j
        /\ \A i, j \in DOMAIN toClient :
              toClient[i].id = toClient[j].id /\ toClient[i].id # 0 => i = j
        /\ \A i \in DOMAIN toBroker : \A j \in DOMAIN toClient :
              toBroker[i].id = toClient[j].id => toBroker[i].id = 0
        /\ \A i \in DOMAIN toBroker :
              toBroker[i].type = "PUBLISH" => ~op[toBroker[i].msg].acked
        /\ \A i \in DOMAIN toClient : toClient[i].type = "PUBREC" =>
              \A m \in Ops : f[m] = toClient[i].id => ~op[m].acked
    BY <1>2, <1>9 DEF Unique
  <2>2. /\ \A i \in DOMAIN toBroker' : toBroker'[i].id # p.id
        /\ \A i \in DOMAIN toClient : toClient[i].id # p.id
    BY <1>4, <2>1, TakenAlone
  <2>3. ASSUME NEW i \in DOMAIN toBroker', NEW j \in DOMAIN toBroker',
               toBroker'[i].id = toBroker'[j].id, toBroker'[i].id # 0
        PROVE  i = j
    <3>1. i + 1 = j + 1
      BY <1>1, <2>1, <2>3 DEF Rest
    <3> QED  BY <1>1, <3>1 DEF Rest
  <2>4. ASSUME NEW i \in DOMAIN toClient', NEW j \in DOMAIN toClient',
               toClient'[i].id = toClient'[j].id, toClient'[i].id # 0
        PROVE  i = j
    <3>1. i \in Int /\ j \in Int
      BY <1>6
    <3>2. CASE i = k \/ j = k
      <4>1. i # k => toClient'[i].id # p.id
        <5>1. i < k \/ i = k \/ i > k
          BY <3>1
        <5> QED  BY <1>5, <2>2, <5>1 DEF Places
      <4>2. j # k => toClient'[j].id # p.id
        <5>1. j < k \/ j = k \/ j > k
          BY <3>1
        <5> QED  BY <1>5, <2>2, <5>1 DEF Places
      <4> QED  BY <1>5, <2>4, <3>2, <4>1, <4>2 DEF Places
    <3>3. CASE i < k /\ j < k
      BY <1>5, <2>1, <2>4, <3>3 DEF Places
    <3>4. CASE i > k /\ j > k
      <4>1. i - 1 = j - 1
        BY <1>5, <2>1, <2>4, <3>4 DEF Places
      <4> QED  BY <3>1, <4>1
    <3>5. CASE i < k /\ j > k
      <4>1. i = j - 1
        BY <1>5, <2>1, <2>4, <3>5 DEF Places
      <4> QED  BY <3>1, <3>5, <4>1
    <3>6. CASE i > k /\ j < k
      <4>1. i - 1 = j
        BY <1>5, <2>1, <2>4, <3>6 DEF Places
      <4> QED  BY <3>1, <3>6, <4>1
    <3> QED  BY <3>1, <3>2, <3>3, <3>4, <3>5, <3>6
  <2>5. ASSUME NEW i \in DOMAIN toBroker', NEW j \in DOMAIN toClient',
               toBroker'[i].id = toClient'[j].id
        PROVE  toBroker'[i].id = 0
    <3>1. toClient'[j].id # p.id
      BY <2>2, <2>5
    <3>2. PICK l \in DOMAIN toClient : toClient'[j] = toClient[l]
      BY <1>6, <3>1
    <3> QED  BY <1>1, <2>1, <2>5, <3>2 DEF Rest
  <2>6. ASSUME NEW i \in DOMAIN toBroker', toBroker'[i].type = "PUBLISH"
        PROVE  ~op'[toBroker'[i].msg].acked
    BY <1>1, <1>2, <2>1, <2>6 DEF Rest
  <2>7. ASSUME NEW i \in DOMAIN toClient', toClient'[i].type = "PUBREC",
               NEW m \in Ops, f[m] = toClient'[i].id
        PROVE  ~op'[m].acked
    <3>1. CASE toClient'[i] = r
      <4>1. p.type = "PUBLISH" /\ f[m] = p.id
        BY <1>3, <2>7, <3>1
      <4>2. m = p.msg
        BY <1>7, <4>1
      <4> QED  BY <1>1, <1>2, <2>1, <4>1, <4>2
    <3>2. ASSUME NEW j \in DOMAIN toClient, toClient'[i] = toClient[j] PROVE ~op'[m].acked
      BY <1>2, <2>1, <2>7, <3>2
    <3> QED  BY <1>6, <3>1, <3>2
  <2> QED  BY <2>3, <2>4, <2>5, <2>6, <2>7
<1> QED  BY <1>2, <1>8, <1>9 DEF Unique

(* The packet ids. *)
LEMMA BrokerUnique ==
  ASSUME IndInv, NEW f, CoreOK(f), LinkOK, Unique(f), BrokerRecv
  PROVE  Unique(f)'
<1>1. PICK p : p = Head(toBroker)
  OBVIOUS
<1>2. CASE Drops
  <2>1. Rest
    BY <1>1, BrokerTakes
  <2>2. /\ op' = op /\ call'.loop = "none" /\ call'.closing = FALSE /\ resent' = resent
        /\ toClient' = toClient
    BY <1>2, BrokerRests DEF BrokerRecv, LinkOK, Drops
  <2>3. Known(f)'
    BY <2>2 DEF Unique, Known
  <2>4. ASSUME ~resent, NEW i \in DOMAIN toBroker', NEW j \in DOMAIN toBroker',
               toBroker'[i].id = toBroker'[j].id, toBroker'[i].id # 0
        PROVE  i = j
    <3>1. i + 1 = j + 1
      BY <2>1, <2>4 DEF Rest, Unique
    <3> QED  BY <2>1, <3>1 DEF Rest
  <2>5. ASSUME ~resent
        PROVE  /\ \A i \in DOMAIN toBroker' : \A j \in DOMAIN toClient :
                     toBroker'[i].id = toClient[j].id => toBroker'[i].id = 0
               /\ \A i \in DOMAIN toBroker' :
                     toBroker'[i].type = "PUBLISH" => ~op[toBroker'[i].msg].acked
    BY <2>1, <2>5 DEF Rest, Unique
  <2> QED  BY <2>2, <2>3, <2>4, <2>5 DEF Unique
<1>3. ASSUME NEW r \in Answer, Inserts(r), r.id = p.id,
             Refuses(p, r) \/ TakesOne(p, r) \/ TakesTwo(p, r) \/ Frees(p, r)
      PROVE  Unique(f)'
  BY <1>1, <1>3, ReplyUnique
<1> QED  BY <1>1, <1>2, <1>3, BrokerCases

(* What the broker counts: the ids it adds and removes. *)
LEMMA BrokerWindow ==
  ASSUME FewMessages, IndInv, NEW f, CoreOK(f), LinkOK, Unique(f), WindowOK(f), BrokerRecv
  PROVE  WindowOK(f)'
<1>1. PICK p : p = Head(toBroker)
  OBVIOUS
<1>2. /\ Rest /\ 1 \in DOMAIN toBroker /\ p = toBroker[1] /\ p \in BrokerPackets
      /\ p.type = "PUBLISH" => PublishOK(f, p)
  BY <1>1, BrokerTakes
<1>3. /\ op' = op /\ inFlight' = inFlight /\ session' = session
      /\ UNCHANGED <<resent, overdrawn>> /\ (serving' => serving)
      /\ Published' = Published
  BY BrokerRests DEF BrokerRecv, LinkOK, SameSession
<1>4. \A i \in DOMAIN toClient' : toClient'[i].type # "CONNACK"
  BY BrokerLink
<1>5. session'.connected /\ serving' /\ ~overdrawn' => inFlight' <= session'.limit
  BY <1>3 DEF WindowOK
<1>6. ~resent /\ ~overdrawn => \A i \in DOMAIN toBroker' :
         toBroker'[i].type = "PUBLISH" => toBroker'[i].msg \in Published
  BY <1>2 DEF Rest, WindowOK
<1>7. PublishedIds(f)' = PublishedIds(f)
  BY <1>3 DEF PublishedIds
<1>8. SUFFICES
        /\ window' \subseteq {id \in PacketIds : heldAs'[id] # None}
        /\ ~resent => \A i \in DOMAIN toClient' :
              toClient'[i].type = "PUBCOMP"
              \/ (toClient'[i].type = "PUBREC" /\ toClient'[i].code = "error")
                 => toClient'[i].id \notin window'
        /\ ~resent /\ ~overdrawn => window' \subseteq PublishedIds(f)
  BY <1>3, <1>4, <1>5, <1>6, <1>7 DEF WindowOK
<1>9. CASE Drops
  BY <1>9 DEF Drops, WindowOK
<1>10. ASSUME NEW r \in Answer, Inserts(r), r.id = p.id,
              Refuses(p, r) \/ TakesOne(p, r) \/ TakesTwo(p, r) \/ Frees(p, r)
       PROVE  /\ window' \subseteq {id \in PacketIds : heldAs'[id] # None}
              /\ ~resent => \A i \in DOMAIN toClient' :
                    toClient'[i].type = "PUBCOMP"
                    \/ (toClient'[i].type = "PUBREC" /\ toClient'[i].code = "error")
                       => toClient'[i].id \notin window'
              /\ ~resent /\ ~overdrawn => window' \subseteq PublishedIds(f)
  <2>1. Adds(r)
    BY <1>10, InsertsAdds DEF CoreOK, ToClientOK
  <2>2. CASE Refuses(p, r) \/ TakesOne(p, r)
    <3>1. window' = window /\ heldAs' = heldAs
      BY <2>2 DEF Refuses, TakesOne
    <3>2. r.type = "PUBCOMP" \/ (r.type = "PUBREC" /\ r.code = "error") => r.id \notin window
      BY <1>10, <2>2 DEF Refuses, TakesOne, WindowOK
    <3> QED  BY <2>1, <3>1, <3>2 DEF Adds, WindowOK
  <2>3. CASE TakesTwo(p, r)
    <3>1. /\ p.msg \in Ops /\ p.id = f[p.msg] /\ p.id # 0 /\ p.id \in PacketIds
          /\ heldAs' \in [PacketIds -> 0 .. MaxOps] /\ heldAs'[p.id] = p.msg
          /\ \A id \in PacketIds : id # p.id => heldAs'[id] = heldAs[id]
      BY <1>1, <2>3, TakesTwoHeld
    <3>2. /\ window' = window \cup {p.id} /\ r.type = "PUBREC" /\ r.code = "success"
          /\ p.type = "PUBLISH"
      BY <2>3 DEF TakesTwo
    <3>3. p.msg # None
      BY <3>1, SmallTypes DEF CoreOK, None
    <3>4. window' \subseteq {id \in PacketIds : heldAs'[id] # None}
      BY <3>1, <3>2, <3>3 DEF WindowOK
    <3>5. ASSUME ~resent, NEW i \in DOMAIN toClient',
                 toClient'[i].type = "PUBCOMP"
                 \/ (toClient'[i].type = "PUBREC" /\ toClient'[i].code = "error")
          PROVE  toClient'[i].id \notin window'
      <4>1. PICK j \in DOMAIN toClient : toClient'[i] = toClient[j]
        BY <2>1, <3>2, <3>5 DEF Adds
      <4>2. toClient[j].id # p.id
        BY <1>1, <3>1, <3>5, TakenAlone
      <4> QED  BY <3>2, <3>5, <4>1, <4>2 DEF WindowOK
    <3>6. ASSUME ~resent, ~overdrawn PROVE window' \subseteq PublishedIds(f)
      <4>1. p.msg \in Published
        BY <1>2, <3>2, <3>6 DEF WindowOK
      <4> QED  BY <3>1, <3>2, <3>6, <4>1 DEF WindowOK, PublishedIds
    <3> QED  BY <3>4, <3>5, <3>6
  <2>4. CASE Frees(p, r)
    <3>1. /\ window' = window \ {p.id} /\ r.id = p.id
          /\ heldAs' = [heldAs EXCEPT ![p.id] = None]
      BY <1>10, <2>4 DEF Frees
    <3>2. heldAs \in [PacketIds -> 0 .. MaxOps] /\ p.id \in PacketIds
      BY <1>2 DEF BrokerPackets, CoreOK, HeldOK
    <3>3. \A id \in PacketIds : id # p.id => heldAs'[id] = heldAs[id]
      BY <3>1, <3>2
    <3> QED  BY <2>1, <3>1, <3>3 DEF Adds, WindowOK
  <2> QED  BY <1>10, <2>2, <2>3, <2>4
<1> QED  BY <1>1, <1>9, <1>10, BrokerCases

------------------------------------------------------------------------------
(* Connections begin and end. *)

(* The broker answers the CONNECT. *)
LEMMA ConnackLink ==
  ASSUME FewMessages, IndInv, NEW f, CoreOK(f), LinkOK, Unique(f), WindowOK(f),
         NEW present \in SessionReplies, NEW limit \in SendLimits, NEW expiry \in Expiries,
         BrokerConnack(present, limit, expiry)
  PROVE  LinkOK' /\ Unique(f)' /\ WindowOK(f)'
<1>1. toBroker' = <<>>
  BY ConnackCore
<1>2. PICK c \in Connacks : /\ toClient' = <<c>> /\ c.limit = limit /\ c.id = 0
                            /\ c.type = "CONNACK"
  BY ConnackCore
<1>3. /\ toBroker # <<>> /\ Head(toBroker).type = "CONNECT" /\ ClientRests
      /\ stored' = expiry /\ serving' = TRUE /\ UNCHANGED <<window, resent>>
      /\ overdrawn' = (Cardinality(Published) > limit)
  BY DEF BrokerConnack
<1>4. 1 \in DOMAIN toBroker /\ Head(toBroker) = toBroker[1]
  BY <1>3, TailFacts DEF CoreOK, ToBrokerOK
<1>5. Offline /\ window = {}
  BY <1>3, <1>4 DEF LinkOK, ChannelsOK
<1>6. /\ SessionOK' /\ SameSession /\ op' = op /\ inFlight' = inFlight
      /\ call'.loop = "none" /\ call'.closing = FALSE /\ Offline'
      /\ Published' = Published
  BY <1>3, <1>5, BrokerRests DEF LinkOK
<1>7. DOMAIN toClient' = {1} /\ toClient'[1] = c /\ Len(toClient') = 1
  BY <1>2
<1>8. DOMAIN toBroker' = {}
  BY <1>1
<1>9. LinkOK'
  <2>1. stored' \in {"none"} \cup Expiries /\ serving' \in BOOLEAN /\ overdrawn' \in BOOLEAN
        /\ resent' \in BOOLEAN
    BY <1>3 DEF LinkOK, ChannelsOK
  <2> QED  BY <1>1, <1>2, <1>3, <1>5, <1>6, <1>7, <1>8, <2>1 DEF LinkOK, ChannelsOK
<1>10. Unique(f)'
  <2>1. Known(f)'
    BY <1>2, <1>7 DEF Known
  <2> QED  BY <1>2, <1>6, <1>7, <1>8, <2>1 DEF Unique
<1>11. WindowOK(f)'
  <2>1. ~session'.connected
    BY <1>6 DEF Offline
  <2>2. ASSUME ~overdrawn' PROVE inFlight' <= c.limit
    <3>1. inFlight = Cardinality(Published) /\ Cardinality(Published) \in Nat
      BY PublishedFinite DEF IndInv, StepInv, OpsInv, InFlightExact
    <3>2. limit \in Nat
      BY SendOpsAssumption
    <3>3. ~(Cardinality(Published) > limit)
      BY <1>3, <2>2
    <3>4. inFlight <= limit
      BY <3>1, <3>2, <3>3
    <3> QED  BY <1>2, <1>6, <3>4
  <2> QED  BY <1>2, <1>3, <1>5, <1>7, <1>8, <2>1, <2>2 DEF WindowOK
<1> QED  BY <1>9, <1>10, <1>11

(* Nothing but a CONNECT is on its way when the connection is severed. *)
LEMMA SeveredLink ==
  ASSUME NEW f, CoreOK(f), CoreOK(f)', LinkOK, Severed, SessionOK',
         call'.loop = "none", call'.closing = FALSE,
         toBroker' = <<>> \/ (toBroker' = <<Sent("CONNECT", 0, 0, 0)>> /\ Offline')
  PROVE  LinkOK' /\ Unique(f)' /\ WindowOK(f)'
<1>1. /\ toClient' = <<>> /\ serving' = FALSE /\ window' = {} /\ resent' = FALSE
      /\ overdrawn' = FALSE /\ stored' = stored
  BY DEF Severed
<1>2. PICK e : e = Sent("CONNECT", 0, 0, 0)
  OBVIOUS
<1>3. e.type = "CONNECT" /\ e.id = 0
  BY <1>2 DEF Sent
<1>4. DOMAIN toClient' = {}
  BY <1>1
<1>5. \/ DOMAIN toBroker' = {}
      \/ DOMAIN toBroker' = {1} /\ toBroker'[1] = e /\ Len(toBroker') = 1 /\ Offline'
  BY <1>2
<1>6. LinkOK'
  BY <1>1, <1>3, <1>4, <1>5 DEF LinkOK, ChannelsOK
<1>7. Unique(f)'
  <2>1. Known(f)'
    BY <1>4 DEF Known
  <2> QED  BY <1>1, <1>3, <1>4, <1>5, <2>1 DEF Unique
<1>8. WindowOK(f)'
  BY <1>1, <1>3, <1>4, <1>5 DEF WindowOK
<1> QED  BY <1>6, <1>7, <1>8

(* A new connection. *)
LEMMA ConnectLink ==
  ASSUME FewMessages, IndInv, IndInv', NEW f, CoreOK(f), LinkOK, ClientConnect
  PROVE  CoreOK(f)' /\ LinkOK' /\ Unique(f)' /\ WindowOK(f)'
<1>1. /\ CoreOK(f)' /\ (toBroker' = <<>> \/ toBroker' = <<Sent("CONNECT", 0, 0, 0)>>)
  BY ConnectCore
<1>2. Severed /\ SessionOK' /\ Offline' /\ call' = NoCall
  BY SessionConnect DEF ClientConnect, LinkOK
<1>3. call'.loop = "none" /\ call'.closing = FALSE
  BY <1>2, PlainCalls
<1> QED  BY <1>1, <1>2, <1>3, SeveredLink

(* The network is gone. *)
LEMMA LostLink ==
  ASSUME FewMessages, IndInv, IndInv', NEW f, CoreOK(f), LinkOK, NetworkLost
  PROVE  CoreOK(f)' /\ LinkOK' /\ Unique(f)' /\ WindowOK(f)'
<1>1. CoreOK(f)' /\ Severed /\ toBroker' = <<>> /\ NetworkDisconnected
  BY LostCore DEF NetworkLost
<1>2. call' = Guarded /\ fullOrdering' = fullOrdering
  BY <1>1 DEF NetworkDisconnected
<1>3. call'.loop = "none" /\ call'.closing = FALSE
  BY <1>2, PlainCalls
<1>4. SessionOK'
  <2>1. CASE session.disconnecting
    <3>1. SameSession /\ op' = op
      BY <1>1, <1>2, <2>1 DEF NetworkDisconnected, SameSession
    <3> QED  BY <1>3, <3>1, SameSuspended, SessionKept DEF LinkOK
  <2>2. CASE ~session.disconnecting
    BY <1>1, <1>2, <2>2, DisconnectedSession DEF NetworkDisconnected, LinkOK
  <2> QED  BY <2>1, <2>2
<1> QED  BY <1>1, <1>3, <1>4, SeveredLink

------------------------------------------------------------------------------
(* The invariant. *)

(* The initial states. *)
LEMMA DeliveryInvInit ==
  ASSUME PlainUse, FewMessages, DeliveryInit
  PROVE  IndInv /\ OrderInv /\ DeliveryInv
<1>1. Init /\ IndInv /\ OrderInv
  BY IndInvInit, OrderInvInit DEF DeliveryInit
<1>2. PICK f : f = [o \in Ops |-> 0]
  OBVIOUS
<1>3. f \in [Ops -> 0 .. lastId] /\ lastId = 0 /\ \A o \in Ops : f[o] = 0
  BY <1>1, <1>2 DEF Init
<1>4. \A o \in Ops : op[o].st = "none" /\ op[o].acked = FALSE /\ o > 0
  BY <1>1, SendOpsAssumption DEF Init, OpIn, Ops
<1>5. MaxOps \in Nat /\ 0 \in PacketIds
  BY SendOpsAssumption, PacketIdAssumption DEF PacketIds
<1>6. /\ msgQos \in [Ops -> Qoses] /\ heldAs = [id \in PacketIds |-> None]
      /\ stored = "none" /\ serving = FALSE /\ window = {}
      /\ toBroker = <<>> /\ toClient = <<>> /\ delivered = [m \in Ops |-> 0]
      /\ completed = {} /\ early = {} /\ resent = FALSE /\ overdrawn = FALSE
  BY DEF DeliveryInit
<1>7. IdsOK(f)
  BY <1>1, <1>3, <1>4, <1>6 DEF IdsOK, Live, Init
<1>8. HeldOK(f)
  <2>1. \A id \in PacketIds : \A m \in Ops : heldAs[id] # m
    BY <1>4, <1>6 DEF None
  <2>2. heldAs \in [PacketIds -> 0 .. MaxOps] /\ delivered \in [Ops -> 0 .. 2]
    BY <1>5, <1>6 DEF None
  <2> QED  BY <1>4, <1>6, <2>1, <2>2 DEF HeldOK
<1>9. DoneOK /\ ToBrokerOK(f) /\ ToClientOK(f)
  BY <1>6 DEF DoneOK, ToBrokerOK, ToClientOK
<1>10. LinkOK
  <2>1. SessionOK
    BY <1>1, <1>4, PlainCalls, NewSessionFields DEF SessionOK, Offline, Init, Published
  <2>2. DOMAIN toBroker = {} /\ DOMAIN toClient = {}
    BY <1>6
  <2> QED  BY <1>6, <2>1, <2>2 DEF LinkOK, ChannelsOK
<1>11. Unique(f) /\ WindowOK(f)
  <2>1. call.loop = "none" /\ call.closing = FALSE
    BY <1>1, PlainCalls DEF Init
  <2> QED  BY <1>6, <2>1 DEF Unique, WindowOK, Known
<1> QED  BY <1>1, <1>3, <1>7, <1>8, <1>9, <1>10, <1>11 DEF DeliveryInv, CoreOK

(* Nothing happens. *)
LEMMA DeliveryInvStutter ==
  ASSUME DeliveryInv, UNCHANGED deliveryVars
  PROVE  DeliveryInv'
<1>1. PICK f \in [Ops -> 0 .. lastId] : CoreOK(f) /\ LinkOK /\ Unique(f) /\ WindowOK(f)
  BY DEF DeliveryInv
<1>2. /\ UNCHANGED <<op, fullOrdering, session, initialized, connecting, inFlight, allocated,
                     lastId, call>>
      /\ UNCHANGED <<msgQos, heldAs, stored, serving, window, delivered, early, toBroker,
                     toClient, completed, resent, overdrawn>>
  BY DEF deliveryVars, vars, brokerVars, session_vars, id_vars
<1>3. CoreOK(f)'
  BY <1>1, <1>2 DEF CoreOK, IdsOK, HeldOK, DoneOK, ToBrokerOK, ToClientOK, PublishOK,
                    PubrelOK, PubackOK, PubrecOK, PubcompOK, Live
<1>4. LinkOK'
  BY <1>1, <1>2 DEF LinkOK, SessionOK, ChannelsOK, Offline, Published
<1>5. Unique(f)'
  BY <1>1, <1>2 DEF Unique, Known, Published
<1>6. WindowOK(f)'
  BY <1>1, <1>2 DEF WindowOK, PublishedIds, Published
<1> QED  BY <1>1, <1>2, <1>3, <1>4, <1>5, <1>6 DEF DeliveryInv, FewMessages

(* One step per kind of action. *)
LEMMA DeliveryInvNext ==
  ASSUME IndInv, OrderInv, DeliveryInv, [DeliveryNext]_deliveryVars
  PROVE  IndInv' /\ OrderInv' /\ DeliveryInv'
<1>1. PICK f \in [Ops -> 0 .. lastId] : CoreOK(f) /\ LinkOK /\ Unique(f) /\ WindowOK(f)
  BY DEF DeliveryInv
<1>2. FewMessages /\ IdsOK(f) /\ msgQos \in [Ops -> Qoses]
      /\ toClient \in Seq(Answer \cup Connacks)
  BY <1>1 DEF DeliveryInv, CoreOK, IdsOK, ToClientOK
<1>3. IndInv' /\ OrderInv'
  BY <1>2, BooksKept
<1>4. ASSUME NEW g, CoreOK(g)', LinkOK', Unique(g)', WindowOK(g)' PROVE DeliveryInv'
  <2>1. g \in [Ops -> 0 .. lastId']
    BY <1>4 DEF CoreOK, IdsOK
  <2> QED  BY <1>2, <1>4, <2>1 DEF DeliveryInv, FewMessages
<1>5. CASE BrokerRecv
  BY <1>1, <1>2, <1>3, <1>4, <1>5, BrokerRecvCore, BrokerLink, BrokerUnique, BrokerWindow
<1>6. ASSUME NEW present \in SessionReplies, NEW limit \in SendLimits,
             NEW expiry \in Expiries, BrokerConnack(present, limit, expiry)
      PROVE  DeliveryInv'
  BY <1>1, <1>2, <1>4, <1>6, ConnackCore, ConnackLink
<1>7. CASE ClientRecv
  <2>1. PICK p : p = Head(toClient)
    OBVIOUS
  <2>2. CoreOK(f)'
    BY <1>1, <1>2, <1>3, <1>7, <2>1, RecvCases, RestCore, EndCore, ConfirmCore, StrangeCore
  <2> QED  BY <1>1, <1>2, <1>3, <1>4, <1>7, <2>2, RecvChannels, RecvUnique, RecvWindow
<1>8. CASE ClientConnect
  BY <1>1, <1>2, <1>3, <1>4, <1>8, ConnectLink
<1>9. CASE NetworkLost
  BY <1>1, <1>2, <1>3, <1>4, <1>9, LostLink
<1>10. CASE ClientRepeats \/ ClientCall \/ Application
  <2>1. OwnStep /\ Next
    BY <1>1, <1>2, <1>10, OwnCases, OwnSteps
  <2>2. PICK g \in [Ops -> 0 .. lastId'] : CoreOK(g)' /\ Moves(f, g, {}) /\ Fills(g)
    BY <1>1, <1>2, <1>3, <2>1, OwnCore
  <2>3. PICK e : NewPacket(g, e)
    BY <1>2, <1>3, <2>2, FillsPacket DEF CoreOK
  <2>4. LinkOK'
    BY <1>1, <1>2, <2>1, <2>3, OwnChannels
  <2>5. Unique(g)'
    BY <1>1, <1>2, <1>3, <2>1, <2>2, <2>3, OwnUnique
  <2>6. WindowOK(g)'
    BY <1>1, <1>2, <1>3, <2>1, <2>2, <2>3, OwnWindow
  <2> QED  BY <1>3, <1>4, <2>2, <2>4, <2>5, <2>6
<1>11. CASE UNCHANGED deliveryVars
  BY <1>3, <1>11, DeliveryInvStutter
<1> QED  BY <1>3, <1>5, <1>6, <1>7, <1>8, <1>9, <1>10, <1>11 DEF DeliveryNext

(* The books of the publish engine, its session and its packets stay in order  *)
(* with a broker that conforms and a network that may fail at any time.        *)
THEOREM DeliveryInductive ==
  PlainUse /\ FewMessages /\ DeliverySpec => [](IndInv /\ OrderInv /\ DeliveryInv)
<1>1. PlainUse /\ FewMessages /\ DeliveryInit => IndInv /\ OrderInv /\ DeliveryInv
  BY DeliveryInvInit
<1>2. IndInv /\ OrderInv /\ DeliveryInv /\ [DeliveryNext]_deliveryVars
         => (IndInv /\ OrderInv /\ DeliveryInv)'
  BY DeliveryInvNext
<1> QED  BY <1>1, <1>2, PTL DEF DeliverySpec

(* The messages on their way to the broker or held by it stay within the       *)
(* Receive Maximum the broker announced: what it counts are packet ids of      *)
(* operations in flight, and canSend() keeps these within the maximum.         *)
THEOREM BrokerWindowKept ==
  PlainUse /\ FewMessages /\ DeliverySpec => []WithinBrokerWindow
<1>1. IndInv /\ DeliveryInv => WithinBrokerWindow
  <2> SUFFICES ASSUME IndInv, DeliveryInv, session.connected, serving, ~resent, ~overdrawn
               PROVE  Cardinality(window \cup {toBroker[i].id : i \in
                          {j \in DOMAIN toBroker : toBroker[j].type = "PUBLISH"}})
                         <= session.limit
    BY DEF WithinBrokerWindow
  <2>1. PICK f \in [Ops -> 0 .. lastId] : CoreOK(f) /\ WindowOK(f)
    BY DEF DeliveryInv
  <2> DEFINE counted == window \cup {toBroker[i].id : i \in
                           {j \in DOMAIN toBroker : toBroker[j].type = "PUBLISH"}}
  <2>2. counted \subseteq PublishedIds(f)
    <3>1. ASSUME NEW i \in DOMAIN toBroker, toBroker[i].type = "PUBLISH"
          PROVE  toBroker[i].id \in PublishedIds(f)
      <4>1. toBroker[i].id = f[toBroker[i].msg] /\ toBroker[i].msg \in Published
        BY <2>1, <3>1 DEF CoreOK, ToBrokerOK, PublishOK, WindowOK
      <4> QED  BY <4>1 DEF PublishedIds
    <3>2. window \subseteq PublishedIds(f)
      BY <2>1 DEF WindowOK
    <3> QED  BY <3>1, <3>2
  <2> HIDE DEF counted
  <2>3. /\ IsFiniteSet(PublishedIds(f))
        /\ Cardinality(PublishedIds(f)) <= Cardinality(Published)
    <3> DEFINE ids == [o \in Published |-> f[o]]
    <3>1. ids \in Surjection(Published, PublishedIds(f))
      BY DEF Surjection, PublishedIds
    <3> HIDE DEF ids
    <3> QED  BY <3>1, PublishedFinite, FS_Surjection
  <2>4. /\ Cardinality(counted) <= Cardinality(PublishedIds(f))
        /\ Cardinality(counted) \in Nat /\ Cardinality(PublishedIds(f)) \in Nat
    BY <2>2, <2>3, FS_Subset, FS_CardinalityType
  <2>5. inFlight = Cardinality(Published) /\ inFlight \in Nat /\ session.limit \in Nat
    BY DEF IndInv, StepInv, OpsInv, OpsTypeOK, InFlightExact, RestTypeOK, SessionTypes
  <2>6. inFlight <= session.limit
    BY <2>1 DEF WindowOK
  <2>7. Cardinality(counted) <= session.limit
    BY <2>3, <2>4, <2>5, <2>6
  <2> QED  BY <2>7 DEF counted
<1> QED  BY <1>1, DeliveryInductive, PTL

(* A broker that conforms loses its connection to a protocol error only after  *)
(* the client repeated a packet on it: no PUBACK, PUBREC or PUBCOMP names an   *)
(* operation in a state it does not fit, whatever sessions were kept or lost.  *)
THEOREM ConformingBrokerKept ==
  PlainUse /\ FewMessages /\ DeliverySpec => ConformingNotTerminated
<1>1. DeliveryInv /\ [DeliveryNext]_deliveryVars
         => [out'.type = "DISCONNECT" /\ call.closing => resent]_deliveryVars
  <2> SUFFICES ASSUME DeliveryInv, call.closing PROVE resent
    OBVIOUS
  <2> QED  BY DEF DeliveryInv, Unique
<1> QED  BY <1>1, DeliveryInductive, PTL DEF DeliverySpec, ConformingNotTerminated

(* The refinement of module Delivery: its stages and the messages it holds. *)
StageMap == [m \in Ops |-> StageOf(m)]
HeldMsgs == {heldAs[id] : id \in PacketIds} \ {None}

(* The states of an operation and the stages of its message. *)
LEMMA StageFacts ==
  ASSUME IndInv, NEW m \in Ops
  PROVE  /\ op[m].st \in {"none", "prepared", "sending", "paused", "published", "gone"}
         /\ op[m].st \in {"none", "prepared", "sending", "paused"} => StageOf(m) = "new"
         /\ op[m].st = "published" /\ ~op[m].acked => StageOf(m) = "offered"
         /\ op[m].st = "published" /\ op[m].acked => StageOf(m) = "released"
         /\ op[m].st = "gone" /\ m \in completed => StageOf(m) = "done"
         /\ op[m].st = "gone" /\ m \notin completed => StageOf(m) = "failed"
<1>1. op[m].st \in {"none", "prepared", "sending", "paused", "published", "gone"}
  BY DEF IndInv, StepInv, OpsInv, OpsTypeOK, Op
<1> QED  BY <1>1 DEF StageOf

(* An operation that is kept keeps the stage of its message. *)
LEMMA StageKept ==
  ASSUME NEW m \in Ops, Kept(m), m \in completed' <=> m \in completed
  PROVE  StageOf(m)' = StageOf(m)
<1> QED  BY DEF Kept, StageOf

(* Nothing that module Delivery speaks of changes. *)
LEMMA RefinesStutter ==
  ASSUME UNCHANGED <<msgQos, delivered, early>>, StageMap' = StageMap, HeldMsgs' = HeldMsgs
  PROVE  UNCHANGED Abstract!vars
<1> QED  BY DEF Abstract!vars, StageMap, HeldMsgs

(* The initial states. *)
LEMMA RefinesInit ==
  ASSUME PlainUse, FewMessages, DeliveryInit
  PROVE  Abstract!Init
<1>1. msgQos \in [Ops -> {1, 2}]
  BY DEF DeliveryInit, FewMessages
<1>2. StageMap = [m \in Ops |-> "new"]
  <2>1. \A m \in Ops : op[m].st = "none"
    BY DEF DeliveryInit, Init, OpIn
  <2>2. \A m \in Ops : StageOf(m) = "new"
    BY <2>1 DEF StageOf
  <2> QED  BY <2>2 DEF StageMap
<1>3. HeldMsgs = {}
  BY DEF HeldMsgs, DeliveryInit
<1>4. delivered = [m \in Ops |-> 0] /\ early = {}
  BY DEF DeliveryInit
<1> QED  BY <1>1, <1>2, <1>3, <1>4 DEF Abstract!Init, StageMap, HeldMsgs

(* A step that leaves the broker alone keeps what it holds. *)
LEMMA FrameHeld ==
  ASSUME Frame
  PROVE  UNCHANGED <<msgQos, delivered, early>> /\ HeldMsgs' = HeldMsgs
<1> QED  BY DEF Frame, HeldMsgs

(* No stage changes. *)
LEMMA RefinesRest ==
  ASSUME Frame, \A m \in Ops : StageOf(m)' = StageOf(m)
  PROVE  UNCHANGED Abstract!vars
<1>1. StageMap' = StageMap
  BY DEF StageMap
<1> QED  BY <1>1, FrameHeld, RefinesStutter

(* The stage of one message changes. *)
LEMMA StageMoves ==
  ASSUME NEW o \in Ops, NEW s, StageOf(o)' = s,
         \A m \in Ops : m # o => StageOf(m)' = StageOf(m)
  PROVE  StageMap' = [StageMap EXCEPT ![o] = s] /\ StageMap[o] = StageOf(o)
<1> QED  BY DEF StageMap

(* Operations that leave without an answer to wait for are given up. *)
LEMMA RefinesFail ==
  ASSUME IndInv, IndInv', DoneOK, Frame, completed' = completed,
         \A m \in Ops : Kept(m) \/ Leaves(m)
  PROVE  Abstract!Next
<1>1. PICK S : S = {m \in Ops : ~Kept(m)}
  OBVIOUS
<1>2. ASSUME NEW m \in S
      PROVE  m \in Ops /\ StageMap[m] \in {"new", "offered", "released"} /\ StageOf(m)' = "failed"
  <2>1. m \in Live /\ op'[m].st = "gone" /\ m \in Ops
    BY <1>1, <1>2 DEF Leaves, OpIn
  <2>2. op[m].st \in {"prepared", "sending", "paused", "published"} /\ m \notin completed
    BY <2>1, StageFacts DEF Live, DoneOK
  <2>3. StageOf(m) \in {"new", "offered", "released"}
    BY <2>1, <2>2, StageFacts
  <2>4. StageOf(m)' = "failed"
    BY <2>1, <2>2 DEF StageOf
  <2> QED  BY <2>1, <2>3, <2>4 DEF StageMap
<1>3. ASSUME NEW m \in Ops, m \notin S PROVE StageOf(m)' = StageOf(m)
  BY <1>1, <1>3, StageKept
<1>4. StageMap' = [m \in Ops |-> IF m \in S THEN "failed" ELSE StageMap[m]]
  BY <1>2, <1>3 DEF StageMap
<1>5. S \in SUBSET Ops
  BY <1>1
<1>6. Abstract!Fail(S)
  BY <1>2, <1>4, FrameHeld DEF Abstract!Fail, StageMap, HeldMsgs
<1> QED  BY <1>5, <1>6 DEF Abstract!Next

(* The first transmission of a message offers it. *)
LEMMA RefinesOffer ==
  ASSUME IndInv, Frame, completed' = completed, NEW o \in Ops, Starts(o)
  PROVE  Abstract!Next
<1>1. StageOf(o) = "new" /\ StageOf(o)' = "offered"
  BY DEF Starts, StageOf
<1>2. \A m \in Ops : m # o => StageOf(m)' = StageOf(m)
  BY StageKept DEF Starts, Others
<1>3. StageMap' = [StageMap EXCEPT ![o] = "offered"] /\ StageMap[o] = "new"
  BY <1>1, <1>2, StageMoves
<1>4. Abstract!Offer(o)
  BY <1>3, FrameHeld DEF Abstract!Offer, StageMap, HeldMsgs
<1> QED  BY <1>4 DEF Abstract!Next

(* The steps the client takes by itself. *)
LEMMA RefinesOwn ==
  ASSUME IndInv, IndInv', DoneOK, OwnStep
  PROVE  Abstract!Next \/ UNCHANGED Abstract!vars
<1>1. Frame /\ completed' = completed /\ OwnMoves
  BY DEF OwnStep, OwnFrame
<1>2. CASE Silent
  BY <1>1, <1>2, RefinesFail DEF Silent
<1>3. ASSUME NEW o \in Ops, Prepares(o) \/ Waits(o)
      PROVE  UNCHANGED Abstract!vars
  <2>1. StageOf(o)' = StageOf(o)
    BY <1>3 DEF Prepares, Waits, PreparedOps, StageOf
  <2>2. \A m \in Ops : m # o => StageOf(m)' = StageOf(m)
    BY <1>1, <1>3, StageKept DEF Prepares, Waits, Others
  <2>3. \A m \in Ops : StageOf(m)' = StageOf(m)
    BY <2>1, <2>2
  <2> QED  BY <1>1, <2>3, RefinesRest
<1>4. ASSUME NEW o \in Ops, Repeats(o) PROVE UNCHANGED Abstract!vars
  <2>1. \A m \in Ops : StageOf(m)' = StageOf(m)
    BY <1>1, <1>4, StageKept DEF Repeats
  <2> QED  BY <1>1, <2>1, RefinesRest
<1> QED  BY <1>1, <1>2, <1>3, <1>4, RefinesOffer DEF OwnMoves

(* An operation that ends with the success its message deserves. *)
LEMMA RefinesFinish ==
  ASSUME FewMessages, IndInv, IndInv', NEW f, CoreOK(f), LinkOK, Unique(f), ClientRecv,
         NEW p, p = Head(toClient), NEW o \in Ops, RecvEnds(o, p),
         completed' = completed \cup {o}, completed' # completed
  PROVE  Abstract!Next
<1>1. Frame /\ f[o] = p.id /\ o \in Published /\ op[o].qos = msgQos[o]
  BY RecvTakes, RecvCloses
<1>2. ~call'.closing /\ (p.type = "PUBCOMP" \/ p.code = "success")
  BY DEF RecvEnds
<1>3. \/ p.type = "PUBACK" /\ msgQos[o] = 1 /\ p.code = "success"
      \/ p.type = "PUBCOMP" /\ msgQos[o] = 2 /\ op[o].acked
  <2>1. \/ p.type = "PUBACK" /\ (call'.closing <=> op[o].qos # 1)
        \/ p.type = "PUBCOMP" /\ (call'.closing <=> op[o].qos # 2 \/ ~op[o].acked)
        \/ p.type = "PUBREC" /\ (~call'.closing => p.code = "error")
    BY DEF RecvEnds
  <2>3. CASE p.type = "PUBACK"
    BY <1>1, <1>2, <2>1, <2>3
  <2>4. CASE p.type = "PUBCOMP"
    BY <1>1, <1>2, <2>1, <2>4
  <2>5. CASE p.type = "PUBREC"
    BY <1>2, <2>1, <2>5
  <2> QED  BY <2>1, <2>3, <2>4, <2>5
<1>4. /\ msgQos[o] = 1 => StageOf(o) = "offered" /\ delivered[o] > 0
      /\ msgQos[o] # 1 => StageOf(o) = "released"
  <2>1. msgQos[o] = 1 => delivered[o] > 0
    BY <1>1, <1>3, RecvTakes DEF PubackOK
  <2>2. op[o].st = "published" /\ (op[o].acked => msgQos[o] = 2)
    BY <1>1 DEF Published, CoreOK, IdsOK
  <2> QED  BY <1>3, <2>1, <2>2, StageFacts
<1>5. StageOf(o)' = "done"
  <2>1. op'[o].st = "gone" /\ o \in completed'
    BY DEF RecvEnds, Ends, Leaves, OpIn
  <2> QED  BY <2>1 DEF StageOf
<1>6. \A m \in Ops : m # o => StageOf(m)' = StageOf(m)
  BY StageKept DEF RecvEnds, Ends, Others
<1>7. StageMap' = [StageMap EXCEPT ![o] = "done"] /\ StageMap[o] = StageOf(o)
  BY <1>5, <1>6, StageMoves
<1>8. Abstract!Finish(o)
  BY <1>1, <1>4, <1>7, FrameHeld DEF Abstract!Finish, StageMap, HeldMsgs
<1> QED  BY <1>8 DEF Abstract!Next

(* The packets of the broker. *)
LEMMA RefinesRecv ==
  ASSUME FewMessages, IndInv, IndInv', NEW f, CoreOK(f), LinkOK, Unique(f), ClientRecv
  PROVE  Abstract!Next \/ UNCHANGED Abstract!vars
<1>1. PICK p : p = Head(toClient)
  OBVIOUS
<1>2. Frame /\ DoneOK /\ toClient \in Seq(Answer \cup Connacks)
  BY <1>1, RecvTakes DEF CoreOK, ToClientOK
<1>3. CASE op' = op /\ completed' = completed
  <2>1. \A m \in Ops : StageOf(m)' = StageOf(m)
    BY <1>3 DEF StageOf
  <2> QED  BY <1>2, <2>1, RefinesRest
<1>4. ASSUME NEW o \in Ops, RecvEnds(o, p) PROVE Abstract!Next
  <2>1. CASE completed' = completed
    <3>1. \A m \in Ops : Kept(m) \/ Leaves(m)
      BY <1>4 DEF RecvEnds, Ends, Silent
    <3> QED  BY <1>2, <2>1, <3>1, RefinesFail
  <2>2. CASE completed' # completed
    <3>1. completed' = completed \cup {o}
      BY <1>4, <2>2 DEF RecvEnds
    <3> QED  BY <1>1, <1>4, <2>2, <3>1, RefinesFinish
  <2> QED  BY <2>1, <2>2
<1>5. ASSUME NEW o \in Ops, RecvConfirms(o, p) PROVE Abstract!Next
  <2>1. msgQos[o] = 2 /\ delivered[o] > 0 /\ completed' = completed /\ Confirms(o)
    BY <1>1, <1>5, ConfirmCore DEF RecvConfirms
  <2>2. StageOf(o) = "offered" /\ StageOf(o)' = "released"
    BY <2>1 DEF Confirms, Published, StageOf
  <2>3. \A m \in Ops : m # o => StageOf(m)' = StageOf(m)
    BY <2>1, StageKept DEF Confirms, Others
  <2>4. StageMap' = [StageMap EXCEPT ![o] = "released"] /\ StageMap[o] = "offered"
    BY <2>2, <2>3, StageMoves
  <2>5. Abstract!Release(o)
    BY <1>2, <2>1, <2>4, FrameHeld DEF Abstract!Release, StageMap, HeldMsgs
  <2> QED  BY <2>5 DEF Abstract!Next
<1> QED  BY <1>1, <1>2, <1>3, <1>4, <1>5, RecvCases DEF RecvRests, RecvStrange

(* A step of the broker changes no stage. *)
LEMMA BrokerStages ==
  ASSUME BrokerFrame
  PROVE  StageMap' = StageMap /\ msgQos' = msgQos
<1> QED  BY DEF BrokerFrame, StageMap, StageOf

(* A message is held under its own packet id. *)
LEMMA HeldFacts ==
  ASSUME NEW f, CoreOK(f)
  PROVE  /\ HeldMsgs \subseteq Ops
         /\ \A m \in Ops : m \in HeldMsgs <=> \E id \in PacketIds : heldAs[id] = m
         /\ \A id \in PacketIds : heldAs[id] # None => heldAs[id] \in Ops /\ f[heldAs[id]] = id
<1>1. MaxOps \in Nat
  BY SendOpsAssumption
<1>2. \A id \in PacketIds : heldAs[id] # None => heldAs[id] \in Ops
  BY <1>1 DEF CoreOK, HeldOK, None, Ops
<1>3. \A m \in Ops : m # None
  BY <1>1 DEF Ops, None
<1>4. \A id \in PacketIds : heldAs[id] # None => f[heldAs[id]] = id
  BY <1>2 DEF CoreOK, HeldOK
<1> QED  BY <1>2, <1>3, <1>4 DEF HeldMsgs

(* A message handed over at QoS 1. *)
LEMMA RefinesTakesOne ==
  ASSUME IndInv, NEW f, CoreOK(f), BrokerRecv, NEW p, p = Head(toBroker), NEW r,
         TakesOne(p, r)
  PROVE  Abstract!Next
<1>1. /\ StageMap' = StageMap /\ msgQos' = msgQos /\ early' = early
      /\ p.type = "PUBLISH" => PublishOK(f, p)
  BY BrokerTakes, BrokerStages
<1>2. /\ p.msg \in Ops /\ msgQos[p.msg] = 1 /\ HandsOver(p.msg) /\ heldAs' = heldAs
      /\ op[p.msg].st \in {"published", "gone"}
  BY <1>1 DEF TakesOne, PublishOK
<1>3. StageMap[p.msg] # "new" /\ HeldMsgs' = HeldMsgs
  <2>1. StageOf(p.msg) # "new"
    BY <1>2 DEF StageOf
  <2> QED  BY <1>2, <2>1 DEF StageMap, HeldMsgs
<1>4. delivered' = [delivered EXCEPT ![p.msg] = IF @ = 0 \/ msgQos[p.msg] = 1 THEN 1 ELSE 2]
  BY <1>2 DEF HandsOver
<1>5. HeldMsgs' = (IF msgQos[p.msg] = 2 THEN HeldMsgs \cup {p.msg} ELSE HeldMsgs) \ {}
      /\ early' = early \cup {m \in {} : StageMap[m] = "offered"}
  BY <1>1, <1>2, <1>3
<1>6. Abstract!Deliver(p.msg, {})
  BY <1>1, <1>2, <1>3, <1>4, <1>5
  DEF Abstract!Deliver, Abstract!Forgetting, StageMap, HeldMsgs
<1> QED  BY <1>2, <1>6 DEF Abstract!Next

(* A message handed over at QoS 2, or one the broker already holds. *)
LEMMA RefinesTakesTwo ==
  ASSUME FewMessages, IndInv, NEW f, CoreOK(f), BrokerRecv, NEW p, p = Head(toBroker),
         NEW r \in Answer, TakesTwo(p, r)
  PROVE  Abstract!Next \/ UNCHANGED Abstract!vars
<1>1. /\ StageMap' = StageMap /\ msgQos' = msgQos /\ early' = early
      /\ p.type = "PUBLISH" => PublishOK(f, p)
  BY BrokerTakes, BrokerStages
<1>2. PICK m : m = p.msg
  OBVIOUS
<1>3. /\ m \in Ops /\ p.id = f[m] /\ msgQos[m] = 2 /\ p.id \in PacketIds
      /\ op[m].st \in {"published", "gone"} /\ heldAs'[p.id] = m
      /\ \A id \in PacketIds : id # p.id => heldAs'[id] = heldAs[id]
      /\ heldAs[p.id] = None \/ (heldAs[p.id] = m /\ delivered' = delivered)
      /\ heldAs[p.id] = None => HandsOver(m)
  BY <1>2, TakesTwoHeld DEF None
<1>4. m # None
  BY <1>3, SendOpsAssumption DEF Ops, None
<1>5. CASE heldAs[p.id] = m
  <2>1. \A id \in PacketIds : heldAs'[id] = heldAs[id]
    BY <1>3, <1>5
  <2>2. HeldMsgs' = HeldMsgs
    BY <2>1 DEF HeldMsgs
  <2>3. delivered' = delivered
    BY <1>3, <1>4, <1>5
  <2> QED  BY <1>1, <2>2, <2>3, RefinesStutter
<1>6. CASE heldAs[p.id] = None
  <2>1. m \notin HeldMsgs
    <3>1. ASSUME m \in HeldMsgs PROVE FALSE
      <4>1. PICK id \in PacketIds : heldAs[id] = m
        BY <1>3, <3>1, HeldFacts
      <4>2. f[m] = id
        BY <1>4, <4>1, HeldFacts
      <4> QED  BY <1>3, <1>4, <1>6, <4>1, <4>2
    <3> QED  BY <3>1
  <2>2. HeldMsgs' = HeldMsgs \cup {m}
    <3>1. ASSUME NEW x \in HeldMsgs PROVE x \in HeldMsgs'
      <4>1. PICK id \in PacketIds : heldAs[id] = x /\ x # None
        BY <3>1 DEF HeldMsgs
      <4> QED  BY <1>3, <1>6, <4>1 DEF HeldMsgs
    <3>2. ASSUME NEW x \in HeldMsgs' PROVE x = m \/ x \in HeldMsgs
      <4>1. PICK id \in PacketIds : heldAs'[id] = x /\ x # None
        BY <3>2 DEF HeldMsgs
      <4> QED  BY <1>3, <4>1 DEF HeldMsgs
    <3>3. m \in HeldMsgs'
      BY <1>3, <1>4 DEF HeldMsgs
    <3> QED  BY <3>1, <3>2, <3>3
  <2>3. \/ StageOf(m) = "offered"
        \/ StageOf(m) = "failed" /\ (delivered[m] = 0 \/ m \in early)
    <3>1. /\ delivered[m] > 0 /\ m \notin early => heldAs[p.id] = m
          /\ op[m].acked => heldAs[p.id] = m
          /\ m \notin completed
      BY <1>1, <1>2 DEF TakesTwo, PublishOK
    <3>2. ~op[m].acked /\ m \notin completed /\ (~(delivered[m] > 0) \/ m \in early)
      BY <1>4, <1>6, <3>1
    <3>3. delivered[m] \in 0 .. 2
      BY <1>3 DEF CoreOK, HeldOK
    <3>4. delivered[m] = 0 \/ m \in early
      BY <3>2, <3>3
    <3> QED  BY <1>3, <3>2, <3>4, StageFacts
  <2>4. StageMap[m] = StageOf(m) /\ StageMap[m] # "new"
    BY <1>3, <2>3 DEF StageMap
  <2>5. delivered' = [delivered EXCEPT ![m] = IF @ = 0 \/ msgQos[m] = 1 THEN 1 ELSE 2]
    BY <1>3, <1>6 DEF HandsOver
  <2>6. HeldMsgs' = (IF msgQos[m] = 2 THEN HeldMsgs \cup {m} ELSE HeldMsgs) \ {}
        /\ early' = early \cup {x \in {} : StageMap[x] = "offered"}
    BY <1>1, <1>3, <2>2
  <2>7. Abstract!Deliver(m, {})
    BY <1>1, <1>3, <2>1, <2>3, <2>4, <2>5, <2>6
    DEF Abstract!Deliver, Abstract!Forgetting, StageMap, HeldMsgs
  <2> QED  BY <1>3, <2>7 DEF Abstract!Next
<1> QED  BY <1>3, <1>5, <1>6

(* A PUBREL lets the broker forget what it held under the id. *)
LEMMA RefinesFrees ==
  ASSUME IndInv, NEW f, CoreOK(f), BrokerRecv, NEW p, p = Head(toBroker), NEW r,
         Frees(p, r)
  PROVE  Abstract!Next
<1>1. /\ StageMap' = StageMap /\ msgQos' = msgQos /\ early' = early
      /\ delivered' = delivered /\ PubrelOK(f, p) /\ p.id \in PacketIds
      /\ heldAs' = [heldAs EXCEPT ![p.id] = None]
  BY BrokerTakes, BrokerStages DEF Frees, BrokerPackets
<1>2. heldAs \in [PacketIds -> 0 .. MaxOps]
  BY DEF CoreOK, HeldOK
<1>3. \A id \in PacketIds : heldAs'[id] = IF id = p.id THEN None ELSE heldAs[id]
  BY <1>1, <1>2
<1>4. PICK S : S = {heldAs[p.id]} \ {None}
  OBVIOUS
<1>5. S \subseteq HeldMsgs /\ S \subseteq Ops
  BY <1>1, <1>4, HeldFacts DEF HeldMsgs
<1>6. HeldMsgs' = HeldMsgs \ S
  <2>1. ASSUME NEW x \in HeldMsgs, x \notin S PROVE x \in HeldMsgs'
    <3>1. PICK id \in PacketIds : heldAs[id] = x /\ x # None
      BY <2>1 DEF HeldMsgs
    <3>2. id # p.id
      BY <1>4, <2>1, <3>1
    <3> QED  BY <1>3, <3>1, <3>2 DEF HeldMsgs
  <2>2. ASSUME NEW x \in HeldMsgs' PROVE x \in HeldMsgs /\ x \notin S
    <3>1. PICK id \in PacketIds : heldAs'[id] = x /\ x # None
      BY <2>2 DEF HeldMsgs
    <3>2. id # p.id /\ heldAs[id] = x
      BY <1>3, <3>1
    <3>3. f[x] = id
      BY <3>1, <3>2, HeldFacts
    <3>4. ASSUME x \in S PROVE FALSE
      <4>1. heldAs[p.id] = x
        BY <1>4, <3>4
      <4>2. f[x] = p.id
        BY <1>1, <3>1, <4>1, HeldFacts
      <4> QED  BY <3>2, <3>3, <4>2
    <3> QED  BY <3>1, <3>2, <3>4 DEF HeldMsgs
  <2> QED  BY <2>1, <2>2
<1>7. {m \in S : StageMap[m] = "offered"} = {}
  <2>1. ASSUME NEW m \in S PROVE StageMap[m] # "offered"
    <3>1. m \in Ops /\ f[m] = p.id
      BY <1>1, <1>4, <1>5, <2>1, HeldFacts
    <3>2. op[m].st # "gone" => op[m].acked
      BY <1>1, <3>1 DEF PubrelOK
    <3>3. StageOf(m) # "offered"
      BY <3>2 DEF StageOf
    <3> QED  BY <3>1, <3>3 DEF StageMap
  <2> QED  BY <2>1
<1>8. Abstract!Forget(S)
  BY <1>1, <1>5, <1>6, <1>7 DEF Abstract!Forget, Abstract!Forgetting, StageMap, HeldMsgs
<1> QED  BY <1>5, <1>8 DEF Abstract!Next

(* The packets of the client. *)
LEMMA RefinesBroker ==
  ASSUME FewMessages, IndInv, NEW f, CoreOK(f), BrokerRecv
  PROVE  Abstract!Next \/ UNCHANGED Abstract!vars
<1>1. PICK p : p = Head(toBroker)
  OBVIOUS
<1>2. ASSUME heldAs' = heldAs, delivered' = delivered PROVE UNCHANGED Abstract!vars
  <2>1. StageMap' = StageMap /\ msgQos' = msgQos /\ early' = early
    BY <1>1, BrokerTakes, BrokerStages
  <2>2. HeldMsgs' = HeldMsgs
    BY <1>2 DEF HeldMsgs
  <2> QED  BY <1>2, <2>1, <2>2, RefinesStutter
<1>3. CASE Drops
  BY <1>2, <1>3 DEF Drops
<1>4. ASSUME NEW r \in Answer,
             Refuses(p, r) \/ TakesOne(p, r) \/ TakesTwo(p, r) \/ Frees(p, r)
      PROVE  Abstract!Next \/ UNCHANGED Abstract!vars
  <2>1. CASE Refuses(p, r)
    BY <1>2, <2>1 DEF Refuses
  <2> QED  BY <1>1, <1>4, <2>1, RefinesTakesOne, RefinesTakesTwo, RefinesFrees
<1> QED  BY <1>1, <1>3, <1>4, BrokerCases

(* A broker that has no session to present forgets what it held. *)
LEMMA RefinesConnack ==
  ASSUME FewMessages, IndInv, NEW f, CoreOK(f), LinkOK,
         NEW present \in SessionReplies, NEW limit \in SendLimits, NEW expiry \in Expiries,
         BrokerConnack(present, limit, expiry)
  PROVE  Abstract!Next
<1>1. StageMap' = StageMap /\ msgQos' = msgQos /\ delivered' = delivered
  BY ConnackCore, BrokerStages DEF BrokerConnack
<1>2. /\ heldAs' = IF present THEN heldAs ELSE [id \in PacketIds |-> None]
      /\ early' = early \cup {m \in Published : ~present /\ ~op[m].acked
                                  /\ \E id \in PacketIds : heldAs[id] = m}
  BY DEF BrokerConnack
<1>3. PICK S : S = IF present THEN {} ELSE HeldMsgs
  OBVIOUS
<1>4. S \subseteq HeldMsgs /\ S \subseteq Ops
  BY <1>3, HeldFacts
<1>5. HeldMsgs' = HeldMsgs \ S
  BY <1>2, <1>3 DEF HeldMsgs
<1>6. early' = early \cup {m \in S : StageMap[m] = "offered"}
  <2>1. CASE present
    BY <1>2, <1>3, <2>1
  <2>2. CASE ~present
    <3>1. ASSUME NEW m \in Ops
          PROVE  (m \in Published /\ ~op[m].acked) <=> StageMap[m] = "offered"
      BY <3>1 DEF Published, StageMap, StageOf
    <3>2. ASSUME NEW m \in Ops
          PROVE  m \in HeldMsgs <=> \E id \in PacketIds : heldAs[id] = m
      BY <3>2, HeldFacts
    <3>3. Published \subseteq Ops
      BY DEF Published
    <3> QED  BY <1>2, <1>3, <1>4, <2>2, <3>1, <3>2, <3>3
  <2> QED  BY <2>1, <2>2
<1>7. Abstract!Forget(S)
  BY <1>1, <1>4, <1>5, <1>6 DEF Abstract!Forget, Abstract!Forgetting, StageMap, HeldMsgs
<1> QED  BY <1>4, <1>7 DEF Abstract!Next

(* Every step is a step of module Delivery or changes nothing it speaks of. *)
LEMMA RefinesStep ==
  ASSUME IndInv, OrderInv, DeliveryInv, [DeliveryNext]_deliveryVars
  PROVE  [Abstract!Next]_Abstract!vars
<1>1. PICK f \in [Ops -> 0 .. lastId] : CoreOK(f) /\ LinkOK /\ Unique(f) /\ WindowOK(f)
  BY DEF DeliveryInv
<1>2. FewMessages /\ IdsOK(f) /\ DoneOK /\ IndInv'
  BY <1>1, DeliveryInvNext DEF DeliveryInv, CoreOK
<1>3. CASE BrokerRecv
  BY <1>1, <1>2, <1>3, RefinesBroker
<1>4. ASSUME NEW present \in SessionReplies, NEW limit \in SendLimits,
             NEW expiry \in Expiries, BrokerConnack(present, limit, expiry)
      PROVE  Abstract!Next
  BY <1>1, <1>2, <1>4, RefinesConnack
<1>5. CASE ClientRecv
  BY <1>1, <1>2, <1>5, RefinesRecv
<1>6. ASSUME Severed, \A m \in Ops : Kept(m) \/ Leaves(m) PROVE Abstract!Next
  <2>1. Frame /\ completed' = completed
    BY <1>6 DEF Severed, Frame
  <2> QED  BY <1>2, <1>6, <2>1, RefinesFail
<1>7. CASE ClientConnect
  <2>1. op' = op /\ Severed
    BY <1>1, <1>2, <1>7, ConnectCore DEF ClientConnect
  <2> QED  BY <1>6, <2>1, KeptAll
<1>8. CASE NetworkLost
  <2>1. Silent /\ Severed
    BY <1>1, <1>2, <1>8, LostCore DEF NetworkLost
  <2> QED  BY <1>6, <2>1 DEF Silent
<1>9. CASE ClientRepeats \/ ClientCall \/ Application
  BY <1>1, <1>2, <1>9, OwnCases, RefinesOwn
<1>10. CASE UNCHANGED deliveryVars
  <2>1. UNCHANGED <<op, completed, msgQos, heldAs, delivered, early>>
    BY <1>10 DEF deliveryVars, vars, brokerVars
  <2>2. Frame /\ \A m \in Ops : StageOf(m)' = StageOf(m)
    BY <2>1 DEF Frame, StageOf
  <2> QED  BY <2>2, RefinesRest
<1> QED  BY <1>3, <1>4, <1>5, <1>7, <1>8, <1>9, <1>10 DEF DeliveryNext

(* The publish engine and a conforming broker implement module Delivery: what  *)
(* timeouts, resendAllUntil() and reconnections repeat is not handed over      *)
(* again while the broker remembers it, PUBREL follows only what has arrived,  *)
(* and an operation that completes with success was handed over.               *)
THEOREM SendImplementsDelivery ==
  PlainUse /\ FewMessages /\ DeliverySpec => ImplementsDelivery
<1>1. PlainUse /\ FewMessages /\ DeliveryInit => Abstract!Init
  BY RefinesInit
<1>2. IndInv /\ OrderInv /\ DeliveryInv /\ [DeliveryNext]_deliveryVars
         => [Abstract!Next]_Abstract!vars
  BY RefinesStep
<1> QED  BY <1>1, <1>2, DeliveryInductive, PTL
         DEF DeliverySpec, ImplementsDelivery, Abstract!Spec
==============================================================================
