CONSTANTS
    Packet = {100, 2000, 3000, 9000}
    ByteSize <- SizeOf
    Sender = {s1, s2}
    NoPacket = NoPacket
    SendQueueLimit = 4096
    MaxReads = 1
SPECIFICATION FairSpec
CHECK_DEADLOCK FALSE
INVARIANTS
    NothingLost
    QueueBounded
    OpenIsServed
PROPERTIES
    ImplementsChannel
    SentIsDelivered
