SPECIFICATION OneDirectionSpec
CONSTANTS
    RecordCount = 3
    PacketIds = {p1, p2, p3, p4}
    NoPacketId = NoPacketId
    PublishQoS = {1, 2}
    ReceiveQoS = {1, 2}
SYMMETRY Symmetry
INVARIANTS TypeOK UniquePacketIds HandshakeAgrees
PROPERTIES RecordsLeaveWhenDone RefusedOnlyWhenFull ImplementsLists ResendsOncePerRound
