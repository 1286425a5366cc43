SPECIFICATION Spec
CONSTANTS
    Invalid = Invalid
    Other = Other
    Names <- MCNames
    TempNames <- MCTempNames
    Fold <- MCFold
    Starts <- MCStarts
    MaxBatch = 4
    MaxFaults = 2
    MaxOthers = 1
INVARIANTS
    PlanCarriedOut
    NoneStranded
    UndoRecordsRenamed
CHECK_DEADLOCK FALSE
