SPECIFICATION Spec

CONSTANTS
    MaxPacketId = 3
    PacketIdsLimit = 4
    Owners = {o1, o2}

PROPERTIES
    NeverZero
