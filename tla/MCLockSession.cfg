SPECIFICATION ClientSpec
CONSTANTS
    a = a
    b = b
    front = front
    c1 = c1
    c2 = c2
    k1 = k1
    k2 = k2
    LEDs = {a, b}
    Aliases = {front}
    AliasOf <- MCAliasOf
    All = All
    LockIds = {k1, k2}
    NoLock = NoLock
    Supported <- OnOff
    Accepted <- OnOff
    ReportedStates <- JustOff
    RequestPriorities <- NoPriorities
    RequestStates <- OnOff
    RequestFlashes <- Steady
    WritesMayFail = FALSE
    OtherProcess = FALSE
    Clients = {c1, c2}
    IdOf <- MCIdOf
    Commands <- MCCommands
    OpenMayFail = TRUE
    MaxInbox = 2
INVARIANTS
    ClientTypeOK
    ClaimsAreTrue
PROPERTIES
    OthersLeaveLockedLedsAlone
    ReleasedMeansReleased
SYMMETRY MCSymmetry
