\* Two clients of four bytes, two strings of one; recvBuffer holds two bytes.
SPECIFICATION FairSpec
CONSTANTS
    Clients = {c1, c2}
    BufferSize = 2
    PacketSize = 3
    Zeros = {2, 4}
    MaxBytes = 4
    None = None
INVARIANTS
    TypeOK
    TextComesBack
    ExactIfTerminated
PROPERTIES
    NextIsAccepted
\* The clients may all have left.
CHECK_DEADLOCK FALSE
