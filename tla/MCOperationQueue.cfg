CONSTANTS
    MaxJobs = 3
    Submissions <- MCSubmissions
    Fold <- MCFold
SPECIFICATION QueueSpec
INVARIANTS
    FilesExclusive
    OneJobPerVolume
    QueueOrderKept
PROPERTY KeepsPromise
\* Nothing is left to do once every job has ended.
CHECK_DEADLOCK FALSE
