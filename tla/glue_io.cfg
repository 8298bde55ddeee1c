\* Writes and reads in parts, with and without a limit, a clock that may fail.
SPECIFICATION GlueFairSpec
CONSTANTS
    TimeModulus = 16
    FirstTime = 2
    MaxTime = 6
    MaxLen = 3
    MaxBytes = 3
    Limits <- NoneOverShort
    ClockFails = TRUE
INVARIANTS
    GlueTypeOK
    TimeoutIsReal
    WrittenInOrder
    ReadInOrder
PROPERTIES
    LimitedCallReturns
\* The bounds on the bytes and the clock stop it.
CHECK_DEADLOCK FALSE
