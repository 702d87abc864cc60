\* One session, two clients: the second gets the session of the first.
SPECIFICATION Spec
CONSTANTS
    MaxSessions = 1
    Clients = {c1, c2}
    None = None
    MaxPackets = 2
    AcceptMayFail = FALSE
PROPERTIES
    ReusedSessionIsUnused
CHECK_DEADLOCK FALSE
