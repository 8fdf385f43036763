------------------------- MODULE PacketIdOps_proofs -------------------------
(* What allocPacketId() and releasePacketId() guarantee for every size of the *)
(* id space: the lemmas the proofs about the operations rest on.             *)
EXTENDS PacketIdOps, FiniteSetTheorems, WellFoundedInduction, TLAPS

(* A non-empty set of naturals has a least element, so Least(S) is in S. *)
LEMMA LeastInSet ==
  ASSUME NEW S, S \subseteq Nat, S # {}
  PROVE  /\ Least(S) \in S
         /\ \A y \in S : Least(S) <= y
<1> DEFINE R == {ss \in Nat \X Nat : ss[1] < ss[2]}
<1>1. R = OpToRel(<, Nat)
  BY Zenon DEF OpToRel
<1>2. IsWellFoundedOn(R, Nat)
  BY <1>1, NatLessThanWellFounded, Zenon
<1>3. PICK x \in S : \A y \in S : <<y, x>> \notin R
  <2> HIDE DEF R
  <2> QED  BY <1>2, WFMin
<1>4. \A y \in S : x <= y
  <2> TAKE y \in S
  <2>1. x \in Nat /\ y \in Nat
    OBVIOUS
  <2>2. y < x => <<y, x>> \in R
    BY <2>1
  <2> QED  BY <1>3, <2>1, <2>2
<1> QED  BY <1>4 DEF Least

(* FoundPacketId() answers an id that nobody uses, unless the early return of *)
(* allocPacketId() applies: the search cannot run out of ids.                *)
LEMMA FoundIsFree ==
  ASSUME NEW used, used \subseteq PacketIds,
         NEW last \in PacketIds,
         ~Exhausted(used)
  PROVE  FoundPacketId(used, last) \in PacketIds \ used
<1> USE PacketIdAssumption
<1> DEFINE next == NextPacketId(last)
           upper == next .. MaxPacketId \ used
           lower == 0 .. next - 1 \ used
<1>1. next \in 1 .. MaxPacketId
  BY DEF NextPacketId, PacketIds
<1>2. IsFiniteSet(PacketIds) /\ Cardinality(PacketIds) = MaxPacketId + 1
  BY FS_Interval DEF PacketIds
<1>3. used # PacketIds
  BY <1>2 DEF Exhausted
<1>4. upper \cup lower = PacketIds \ used
  BY <1>1 DEF PacketIds
<1>5. upper # {} \/ lower # {}
  BY <1>3, <1>4
<1>6. upper \subseteq Nat /\ lower \subseteq Nat
  BY <1>1
<1>7. CASE upper # {}
  BY <1>4, <1>6, <1>7, LeastInSet DEF FoundPacketId
<1>8. CASE upper = {}
  BY <1>4, <1>5, <1>6, <1>8, LeastInSet DEF FoundPacketId
<1> QED  BY <1>7, <1>8

(* allocPacketId(): the ids in use grow by a free one, or the answer is 0 and *)
(* nothing changes.                                                          *)
LEMMA AllocEffect ==
  ASSUME NEW used, used \subseteq PacketIds,
         NEW last \in PacketIds
  PROVE  LET a == AllocPacketId(used, last)
         IN  /\ a.id \in PacketIds /\ a.last \in PacketIds
             /\ a.used \subseteq PacketIds
             /\ a.id # 0 => a.id \notin used
             /\ a.used \ {0} = (used \cup {a.id}) \ {0}
<1>1. CASE Exhausted(used)
  BY <1>1, PacketIdAssumption DEF AllocPacketId, PacketIds
<1>2. CASE ~Exhausted(used)
  BY <1>2, FoundIsFree DEF AllocPacketId
<1> QED  BY <1>1, <1>2
==============================================================================
