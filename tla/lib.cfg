\* The client library: keep-alive on, all QoS levels, all stream faults.
SPECIFICATION LibraryFairSpec
CONSTANTS
    MaxPacketId = 2
    MaxInFlight = 2
    MaxMessages = 2
    KeepAlive = TRUE
    Faults <- StreamFaults
    QosLevels <- AllQos
INVARIANTS
    ClientTypeOK
    AckIsForThisPublish
    OneExchange
    PublishWellFormed
    ConfirmedDelivered
    DeliveredInOrder
    PingAccounted
PROPERTIES
    CallReturnsOrBlocks
VIEW LiveState
\* The environment may leave every process waiting.
CHECK_DEADLOCK FALSE
