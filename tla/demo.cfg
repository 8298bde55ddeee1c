\* The sensor and the CloudConnector, with every fault.
SPECIFICATION DemoFairSpec
CONSTANTS
    MaxPacketId = 3
    MaxInFlight = 2
    MaxMessages = 4
    KeepAlive = FALSE
    QosLevels = {1}
    Faults <- AllFaults
INVARIANTS
    DemoTypeOK
    DataportStable
PROPERTIES
    RelayPromise
    ConnectorSpec
    CallsWhileLinked
\* A failed initialisation, a dead connection or the last message stops it.
CHECK_DEADLOCK FALSE
