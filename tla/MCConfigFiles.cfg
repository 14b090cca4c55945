SPECIFICATION Spec
CONSTANTS
    missing = missing
    notTables = notTables
    PatternFiles <- MCPatternFiles
    AliasFiles <- MCAliasFiles
    MaxFiles = 2
    Key <- MCKey
    Missing <- missing
    NotTables <- notTables
CHECK_DEADLOCK FALSE
INVARIANTS
    FirstDefinitionsAreLoaded
    NoPatternIsLoadedInPart
