SPECIFICATION FairSpec
CONSTANTS
    a = a
    LEDs = {a}
    Aliases = {}
    AliasOf <- MCNoAlias
    All = All
    LockIds = {k1}
    NoLock = NoLock
    Supported <- OnOff
    Accepted <- AllKnown
    ReportedStates <- OnOff
    RequestPriorities <- MCFlashPriorities
    RequestStates <- MCFlashStates
    RequestFlashes <- TimedFlashes
    WritesMayFail = FALSE
    OtherProcess = FALSE
INVARIANTS
    TypeOK
    ShowsUrgentState
    TimerDrivesFlash
PROPERTIES
    TimedFlashEnds
