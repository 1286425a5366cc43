CONSTANTS
    MaxJobs = 2
    MaxPrompts = 1
    Submissions <- MCSubmissions
    ForegroundOps <- MCForegroundOps
    Fold <- MCFold
SPECIFICATION FairCommanderSpec
INVARIANTS
    ForegroundMeetsOnlyQueued
    NoAnswerWasted
    CancelReachesAll
PROPERTY WaitEnds
