SPECIFICATION DisciplinedFrontSpec
CONSTANTS
    a = a
    b = b
    front = front
    nowhere = nowhere
    k1 = k1
    k2 = k2
    missing = missing
    LEDs = {a, b}
    Aliases = {a, front}
    AliasOf <- MCAliasOf
    All = All
    LockIds = {k1, k2}
    NoLock = NoLock
    Supported <- OnOff
    Accepted <- AllKnown
    ReportedStates = {"off"}
    RequestPriorities <- MCPriorities
    RequestStates <- OnOff
    RequestFlashes <- Steady
    WritesMayFail = FALSE
    OtherProcess = FALSE
    Messages <- MCMessages
    Missing <- missing
    NoReply = NoReply
    NotTables = NotTables
INVARIANTS
    LockMatchesPriority
    ShowsHighestState
    RepliesAreTrue
    LockingAllTakesEveryLed
    GetTellsWhatIsShown
PROPERTIES
    ImplementsLocking
    ChangesAreReported
