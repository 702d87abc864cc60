\* Two clients take turns on one session, the second perhaps with packets of
\* the first still in it.
SPECIFICATION FairSpec
CONSTANTS
    MaxSessions = 1
    Clients = {c1, c2}
    None = None
    MaxPackets = 3
    AcceptMayFail = FALSE
PROPERTIES
    WaitingIsServed
    MembersSeeAll
\* The clients may all have left.
CHECK_DEADLOCK FALSE
