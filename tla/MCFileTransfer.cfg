SPECIFICATION Spec
CONSTANTS
    Names = {"a", "b"}
    Parts = {"p", "q"}
    Contents = {"c1", "c2", "c3", "c8", "c9"}
    Starts <- SomeStarts
    Requests <- BothWays
    Writes <- SomeWrites
    Capacity = 2
    MaxOps = 3
    MaxFaults = 1
    MaxOthers = 1
CHECK_DEADLOCK FALSE
INVARIANT NothingLost
INVARIANT EveryItemCounted
INVARIANT UndoRestores
PROPERTY DoneMeansThere
PROPERTY UndoReversesOnlyItsOwn
