SPECIFICATION MCSpec
CONSTANTS
    none = none
    k1 = k1
    noLock = noLock
    Patterns <- MCPatterns
    Pattern <- MCPattern
    LedsNamed <- MCLedsNamed
    NoPriority <- none
    DefaultPriority = 3
    SizeLimit = 5
    LEDs <- MCLeds
    Aliases <- MCAliases
    AliasOf <- MCAliasOf
    All = "all"
    LockIds = {k1}
    NoLock <- noLock
    Supported <- OnOff
    Accepted <- OnOff
    ReportedStates <- JustOff
    RequestPriorities <- MCRequestPriorities
    RequestStates <- MCRequestStates
    RequestFlashes <- Steady
    WritesMayFail = FALSE
    OtherProcess = FALSE
CHECK_DEADLOCK FALSE
INVARIANTS
    TypeOK
    PlayingPatternsShareNothing
    PlayingPatternsAreDriven
    ActivePrioritiesHavePlayers
    PlayingPatternShows
    FlashesStopWithPatterns
PROPERTIES
    StoppedPatternsPerformTheirEnd
    EndStepsComeFirst
    PlayedAsOftenAsConfigured
    RepeatingPatternsGoOn
    PatternsLeaveLockedLedsAlone
    FinitePatternsEnd
