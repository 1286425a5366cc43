CONSTANTS
    MaxJobs = 2
    MaxPrompts = 1
    Submissions <- MCSubmissionsLive
    Fold <- MCFold
SPECIFICATION FairSpec
PROPERTIES
    CancelledJobEnds
    ShutdownCompletes
