SPECIFICATION Spec
CONSTANTS
    a = a
    LEDs = {a}
    Aliases = {}
    AliasOf <- MCNoAlias
    All = All
    LockIds = {k1}
    NoLock = NoLock
    Supported <- OnOff
    Accepted <- AllKnown
    ReportedStates <- MCReported
    RequestPriorities <- MCFaultPriorities
    RequestStates <- OnOff
    RequestFlashes <- SlowFlashes
    WritesMayFail = TRUE
    OtherProcess = TRUE
INVARIANTS
    PendingFlashHasFinalState
PROPERTIES
    OnlyUrgentStatesWritten
    AssignmentReachesLed
