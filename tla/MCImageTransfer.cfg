\* Buffers of two bytes; images of none, less than one, exactly one, one and
\* a half and two buffers, in every order.
SPECIFICATION FairSpec
CONSTANTS
    BufferSize = 2
    FileSizes = {0, 1, 2, 3, 4}
    MaxImages = 3
INVARIANTS
    TypeOK
    InStep
    ReceivedWhole
PROPERTIES
    ImageArrives
\* Both processes may end.
CHECK_DEADLOCK FALSE
