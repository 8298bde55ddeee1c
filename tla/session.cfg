\* The connection with every fault and all merged events, then packets of every
\* kind of length, read with failures.
SPECIFICATION SessionFairSpec
CONSTANTS
    Faults <- FaultKinds
    ErrorCodes <- Errors
    Base = 2
    MaxLenBytes = 3
    BufferSize = 8
    Types <- OneType
    Lengths <- EveryLength
    MaxPackets = 2
    ReadsFail = TRUE
INVARIANTS
    TlsTypeOK
    SocketMatchesResult
    HandshakeOnConnection
    GivesUpForAReason
    NetTypeOK
    FramingKept
PROPERTIES
    StartEnds
    OnlyTooLargeRejected
    LinkPromise
\* The start may fail, and the bound on the packets stops it.
CHECK_DEADLOCK FALSE
