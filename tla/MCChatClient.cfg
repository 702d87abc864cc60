\* Four lines, typed at any time before, during and after the connection; two
\* packets from the server, solicited or not.
SPECIFICATION FairSpec
CONSTANTS
    MaxLines = 4
    MaxReceived = 2
INVARIANTS
    TypeOK
    OneWriter
    FifoWhileConnected
PROPERTIES
    FollowsProtocol
    QuitTerminates
    PostedIsSent
\* The program ends.
CHECK_DEADLOCK FALSE
