CONSTANTS
    MaxJobs = 2
    MaxPrompts = 2
    Submissions <- MCSubmissions
    Fold <- MCFold
SPECIFICATION Spec
INVARIANTS
    WorkersExclusive
    SomebodyRestarts
    PromptsMatchJobs
    NoLostWakeup
    PauseShown
PROPERTIES
    ResumeAllResumes
    UsesQueue
