SPECIFICATION Spec
CONSTANTS
    none = none
    Patterns <- MCPatterns
    Pattern <- MCPattern
    LedsNamed <- MCLedsNamed
    NoPriority <- none
    DefaultPriority = 3
    SizeLimit = 5
CHECK_DEADLOCK FALSE
PROPERTIES
    RetriggerAddsOnePlay
