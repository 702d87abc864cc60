\* async_accept fails once; a session is closed afterwards.
SPECIFICATION Spec
CONSTANTS
    MaxSessions = 2
    Clients = {c1, c2}
    None = None
    MaxPackets = 1
    AcceptMayFail = TRUE
PROPERTIES
    CloseResumesAccepting
CHECK_DEADLOCK FALSE
