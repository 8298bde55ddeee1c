\* The file system of the LogServer cannot be mounted.
SPECIFICATION BootSpec
CONSTANTS
    Clients <- Components
    Names <- NamesInUse
    Kept <- CutNames
    Contents <- ShippedOnly
    StorageFails = FALSE
    MayFail <- MountFails
    AddressRoom = 16
    TextLengths <- SomeLengths
INVARIANTS
    LoggerHasFileSystem
CHECK_DEADLOCK FALSE
