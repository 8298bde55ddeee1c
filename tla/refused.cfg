\* The broker refuses the session.
SPECIFICATION DemoSpec
CONSTANTS
    MaxPacketId = 3
    MaxInFlight = 2
    MaxMessages = 1
    KeepAlive = FALSE
    QosLevels = {1}
    Faults <- RefuseOnly
INVARIANTS
    ConnectedMeansSession
\* A failed initialisation, a dead connection or the last message stops it.
CHECK_DEADLOCK FALSE
