----------------------------- MODULE PacketIds -----------------------------
(***************************************************************************)
(* The life of packet ids: "publish", "subscribe" and "unsubscribe"          *)
(* operations take one when they are sent and give it back in their          *)
(* destructors, in any order (client/lib/src/op/Op.cpp).                     *)
(***************************************************************************)
EXTENDS PacketIdOps

CONSTANT Owners     \* operations, each may be created again after it ended

None == -1          \* the id of an operation that has not been sent

VARIABLES
    held,           \* the packet id of every operation
    allocated,      \* m_allocatedPacketIds
    lastId          \* m_lastPacketId

vars == <<held, allocated, lastId>>

Init ==
    /\ held = [o \in Owners |-> None]
    /\ allocated = {}
    /\ lastId = 0

\* allocPacketId() in send().
Take(o) ==
    LET a == AllocPacketId(allocated, lastId)
    IN  /\ held[o] = None
        /\ held' = [held EXCEPT ![o] = a.id]
        /\ allocated' = a.used
        /\ lastId' = a.last

\* releasePacketId() in the destructor.
GiveBack(o) ==
    /\ held[o] # None
    /\ held' = [held EXCEPT ![o] = None]
    /\ allocated' = ReleasePacketId(allocated, held[o])
    /\ UNCHANGED lastId

Next == \E o \in Owners : Take(o) \/ GiveBack(o)

Spec == Init /\ [][Next]_vars

------------------------------------------------------------------------------
(* Correctness. *)

\* The variables keep their types: ids fit in 16 bits.
TypeOK ==
    /\ held \in [Owners -> PacketIds \cup {None}]
    /\ allocated \subseteq PacketIds
    /\ lastId \in PacketIds

\* Two operations never hold the same packet id, and the list holds the ids of
\* the operations and no others, 0 excepted.
IdsExact ==
    /\ \A o, p \in Owners : held[o] = held[p] /\ held[o] \notin {0, None} => o = p
    /\ allocated \ {0} = {held[o] : o \in Owners} \ {0, None}

\* While the list has room, no operation gets the packet id 0.
NeverZero ==
    [][\A o \in Owners : held[o] = None /\ held'[o] = 0 => Exhausted(allocated)]_vars
==============================================================================
