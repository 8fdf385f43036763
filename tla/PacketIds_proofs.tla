-------------------------- MODULE PacketIds_proofs --------------------------
(* Packet ids are unique and do not leak, for every number of operations,     *)
(* size of the id space and limit of the list.                               *)
EXTENDS PacketIds, PacketIdOps_proofs

Inv == TypeOK /\ IdsExact

(* Taking an id keeps the ids apart: the search returns a free one. *)
LEMMA InvTake ==
  ASSUME Inv, NEW o \in Owners, Take(o)
  PROVE  Inv'
<1> USE DEF Inv
<1> DEFINE a == AllocPacketId(allocated, lastId)
<1>1. /\ held[o] = None /\ held' = [held EXCEPT ![o] = a.id]
      /\ allocated' = a.used /\ lastId' = a.last
  BY DEF Take
<1>2. /\ a.id \in PacketIds /\ a.last \in PacketIds /\ a.used \subseteq PacketIds
      /\ a.id # 0 => a.id \notin allocated
      /\ a.used \ {0} = (allocated \cup {a.id}) \ {0}
  BY AllocEffect DEF TypeOK
<1> HIDE DEF a
<1>3. TypeOK'
  BY <1>1, <1>2 DEF TypeOK
<1>4. held'[o] = a.id /\ \A p \in Owners : p # o => held'[p] = held[p]
  BY <1>1 DEF TypeOK
<1>5. \A p \in Owners : held[p] \notin {0, None} => held[p] \in allocated
  BY DEF IdsExact
<1>6. \A p, q \in Owners :
         held'[p] = held'[q] /\ held'[p] \notin {0, None} => p = q
  BY <1>2, <1>4, <1>5 DEF IdsExact
<1>7. a.id # None /\ None # 0
  BY <1>2, PacketIdAssumption DEF PacketIds, None
<1>8. {held'[p] : p \in Owners} \ {0, None}
        = ({held[p] : p \in Owners} \cup {a.id}) \ {0, None}
  BY <1>1, <1>4
<1>9. None \notin allocated /\ None \notin a.used
  BY <1>2, PacketIdAssumption DEF TypeOK, PacketIds, None
<1>10. allocated' \ {0} = {held'[p] : p \in Owners} \ {0, None}
  BY <1>1, <1>2, <1>7, <1>8, <1>9 DEF IdsExact
<1> QED  BY <1>3, <1>6, <1>10 DEF IdsExact

(* Giving ids back keeps the list exact. *)
LEMMA InvGiveBack ==
  ASSUME Inv, NEW o \in Owners, GiveBack(o)
  PROVE  Inv'
<1> USE DEF Inv
<1>1. held'[o] = None /\ \A p \in Owners : p # o => held'[p] = held[p]
  BY DEF GiveBack, TypeOK
<1>2. TypeOK'
  BY DEF GiveBack, TypeOK, ReleasePacketId
<1>3. \A p, q \in Owners :
         held'[p] = held'[q] /\ held'[p] \notin {0, None} => p = q
  BY <1>1 DEF IdsExact
<1>4. {held'[p] : p \in Owners} \ {0, None}
        = ({held[p] : p \in Owners} \ {0, None}) \ {held[o]}
  BY <1>1 DEF IdsExact
<1>5. allocated' \ {0} = (allocated \ {0}) \ {held[o]}
  BY DEF GiveBack, ReleasePacketId
<1>6. allocated' \ {0} = {held'[p] : p \in Owners} \ {0, None}
  BY <1>4, <1>5 DEF IdsExact
<1> QED  BY <1>2, <1>3, <1>6 DEF IdsExact

(* Two live operations never share a packet id, and the list of ids in use is *)
(* exactly theirs: what allocPacketId() and releasePacketId() promise.        *)
THEOREM UniqueIds == Spec => [](TypeOK /\ IdsExact)
<1>1. Init => Inv
  <2> SUFFICES ASSUME Init PROVE Inv
    OBVIOUS
  <2>1. TypeOK
    BY PacketIdAssumption DEF Init, TypeOK, PacketIds
  <2>2. {held[o] : o \in Owners} \ {0, None} = {}
    BY DEF Init
  <2>3. IdsExact
    BY <2>2 DEF Init, IdsExact
  <2> QED  BY <2>1, <2>3 DEF Inv
<1>2. Inv /\ [Next]_vars => Inv'
  <2> SUFFICES ASSUME Inv, [Next]_vars PROVE Inv'
    OBVIOUS
  <2>1. ASSUME NEW o \in Owners, Take(o) PROVE Inv'
    BY <2>1, InvTake
  <2>2. ASSUME NEW o \in Owners, GiveBack(o) PROVE Inv'
    BY <2>2, InvGiveBack
  <2>3. CASE UNCHANGED vars
    BY <2>3 DEF Inv, TypeOK, IdsExact, vars
  <2> QED  BY <2>1, <2>2, <2>3 DEF Next
<1>3. Inv => TypeOK /\ IdsExact
  BY DEF Inv
<1> QED  BY <1>1, <1>2, <1>3, PTL DEF Spec
==============================================================================
