\* The connection dies while the connector waits for a packet.
SPECIFICATION DemoFairSpec
CONSTANTS
    MaxPacketId = 3
    MaxInFlight = 2
    MaxMessages = 2
    KeepAlive = FALSE
    QosLevels = {1}
    Faults <- DropOnly
PROPERTIES
    SensorKeepsCalling
\* A failed initialisation, a dead connection or the last message stops it.
CHECK_DEADLOCK FALSE
