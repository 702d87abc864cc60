\* Packets of 2 to 5 bytes with a header of 2: reads end inside a header,
\* inside a body and between packets, and up to two packets come at once.
SPECIFICATION FairSpec
CONSTANTS
    HeaderLen = 2
    MAX_RECEIVE_BUFFER_LEN = 5
    NPackets = 3
    MaxConnections = 2
INVARIANTS
    TypeOK
    PacketsIntact
    NoneHeldBack
    BuffersSuffice
PROPERTIES
    HandlerReturns
CHECK_DEADLOCK FALSE
