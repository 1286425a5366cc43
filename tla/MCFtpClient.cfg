SPECIFICATION Spec
CONSTANT MaxSent = 5
INVARIANTS
    RepliesInStep
    OkMeansDone
PROPERTY CallEnds
CHECK_DEADLOCK FALSE
