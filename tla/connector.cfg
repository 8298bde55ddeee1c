\* The CloudConnector alone: any sender, every fault.
SPECIFICATION ConnectorSpec
CONSTANTS
    MaxPacketId = 3
    MaxInFlight = 2
    MaxMessages = 3
    KeepAlive = FALSE
    QosLevels = {1}
    Faults <- AllFaults
INVARIANTS
    ConnectorTypeOK
    SemToken
    ClientExclusive
    HandledMeansConfirmed
    NeverStrays
PROPERTIES
    SilentWithoutSession
\* A failed initialisation, a dead connection or the last message stops it.
CHECK_DEADLOCK FALSE
