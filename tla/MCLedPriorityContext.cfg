SPECIFICATION Spec
CONSTANTS
    NumPriorities = 11
    Normal = 10
    Requested <- MCRequested
INVARIANTS
    TypeOK
    GroupSummarisesTable
PROPERTY
    ImplementsPrioritySet
