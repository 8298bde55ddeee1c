\* The start of all components, every operation may fail.
SPECIFICATION BootFairSpec
CONSTANTS
    Clients <- Components
    Names <- NamesInUse
    Kept <- CutNames
    Contents <- StoredConfigs
    StorageFails = TRUE
    MayFail <- Operations
    AddressRoom = 16
    TextLengths <- SomeLengths
INVARIANTS
    BootTypeOK
    OwnValues
    MessageOnConfiguredStack
    MessageFits
PROPERTIES
    ConfigPromise
    BootSettles
\* The start ends: it may fail, or all components wait for the next event.
CHECK_DEADLOCK FALSE
