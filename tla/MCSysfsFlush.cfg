SPECIFICATION Spec
CONSTANTS
    Procs = {p1}
    NoProc = NoProc
INVARIANTS
    FailedWritesAreNoticed
