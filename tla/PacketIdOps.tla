----------------------------- MODULE PacketIdOps -----------------------------
(***************************************************************************)
(* The packet id arithmetic of client/lib/src/op/Op.cpp: allocPacketId()    *)
(* and releasePacketId().  The sorted list m_allocatedPacketIds is a set,    *)
(* m_lastPacketId is the id allocated last.  Both are kept in ClientState,   *)
(* shared by every "publish", "subscribe" and "unsubscribe" operation.       *)
(***************************************************************************)
EXTENDS Integers, FiniteSets

CONSTANTS
    MaxPacketId,        \* std::numeric_limits<std::uint16_t>::max()
    PacketIdsLimit      \* ExtConfig::PacketIdsLimit, max_size() of the list

ASSUME PacketIdAssumption ==
    /\ MaxPacketId \in Nat \ {0}
    /\ PacketIdsLimit \in Nat \ {0}

PacketIds == 0 .. MaxPacketId

Least(S) == CHOOSE x \in S : \A y \in S : x <= y

\* No more available packet ids: the early return of allocPacketId().
Exhausted(used) ==
    \/ PacketIdsLimit <= Cardinality(used)
    \/ MaxPacketId <= Cardinality(used)

\* lastPacketId + 1 in 16 bits, 0 replaced by 1.
NextPacketId(last) == IF last = MaxPacketId THEN 1 ELSE last + 1

\* The search upwards from the next id.  ++nextPacketId wraps to 0 and the
\* loop does not replace that 0 by 1.
FoundPacketId(used, last) ==
    LET next == NextPacketId(last)
        upper == next .. MaxPacketId \ used
        lower == 0 .. next - 1 \ used
    IN  IF upper # {} THEN Least(upper) ELSE Least(lower)

\* allocPacketId(): the id returned, the ids in use and the last id after it.
AllocPacketId(used, last) ==
    IF Exhausted(used)
    THEN [id |-> 0, used |-> used, last |-> last]
    ELSE LET id == FoundPacketId(used, last)
         IN  [id |-> id, used |-> used \cup {id}, last |-> id]

\* releasePacketId(): the id 0 is never given back.
ReleasePacketId(used, id) == IF id = 0 THEN used ELSE used \ {id}

ReleasePacketIds(used, ids) == used \ (ids \ {0})
==============================================================================
