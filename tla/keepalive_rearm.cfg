\* A successful send is said to restart the keep-alive timer.
SPECIFICATION LibraryFairSpec
CONSTANTS
    MaxPacketId = 2
    MaxInFlight = 2
    MaxMessages = 1
    KeepAlive = TRUE
    Faults <- NoFaults
    QosLevels <- AckedQos
PROPERTIES
    SendRearmsKeepAlive
CHECK_DEADLOCK FALSE
