SPECIFICATION FairSpec
CONSTANTS
    Streams <- MCStreams
    MaxPackets = 4
INVARIANTS
    OrderKept
    NoDanglingPacket
PROPERTIES
    PlayerChangesInWorldThread
    PacketsTaken
    SessionRemoved
