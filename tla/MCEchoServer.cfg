\* Four bytes, the first a zero, read in any portions; a text of three is too
\* long.  The second client stays in the backlog.
SPECIFICATION FairSpec
CONSTANTS
    Clients = {c1, c2}
    BufferSize = 3
    MaxText = 2
    Zeros = {1}
    MaxBytes = 4
    None = None
INVARIANTS
    TypeOK
    RepliesExact
PROPERTIES
    ServesOneClient
\* The server ends with its client.
CHECK_DEADLOCK FALSE
