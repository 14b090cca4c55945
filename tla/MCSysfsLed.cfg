SPECIFICATION FairSpec
CONSTANTS
    Procs = {p1, p2}
    NoProc = NoProc
INVARIANTS
    TypeOK
    SuccessMeansSet
PROPERTIES
    SteadyNeverBlinks
    SettingEnds
