\* A CONNECT arrives at the sensor port.
SPECIFICATION ConnectorSpec
CONSTANTS
    MaxPacketId = 3
    MaxInFlight = 2
    MaxMessages = 1
    KeepAlive = FALSE
    QosLevels = {1}
    Faults <- NoFaults
INVARIANTS
    ConnAckReturns
\* A failed initialisation, a dead connection or the last message stops it.
CHECK_DEADLOCK FALSE
