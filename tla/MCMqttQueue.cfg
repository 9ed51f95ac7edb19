SPECIFICATION MCSpec
CONSTANTS
    BufSize = 12
    HdrSize = 2
    MaxSize = 2
    Bytes = {b1, b2}
    HdrByte = h
    Base = 4
    MaxDigits = 2
    RecvSize = 10
    Packets <- MCPackets
    MaxPackets = 2
INVARIANTS TypeOK HeadersIntact Aligned NoFalseError
PROPERTIES MessagesKept AsSent AllHanded
CHECK_DEADLOCK FALSE
