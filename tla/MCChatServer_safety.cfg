\* Two sessions for three clients: ids are reused while packets are queued.
SPECIFICATION Spec
CONSTANTS
    MaxSessions = 2
    Clients = {c1, c2, c3}
    None = None
    MaxPackets = 2
    AcceptMayFail = TRUE
SYMMETRY ClientSymmetry
INVARIANTS
    TypeOK
    SessionConservation
    AcceptPosted
    OneReader
    OneWrite
    EveryMessageOnce
    NoMixUp
PROPERTIES
    ImplementsRoom
\* The clients may all have left.
CHECK_DEADLOCK FALSE
