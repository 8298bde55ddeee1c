\* The answer to what follows a torn packet never comes.
SPECIFICATION LibraryFairSpec
CONSTANTS
    MaxPacketId = 2
    MaxInFlight = 2
    MaxMessages = 1
    KeepAlive = TRUE
    Faults <- WriteFaults
    QosLevels <- AckedQos
PROPERTIES
    SilenceNoticed
CHECK_DEADLOCK FALSE
