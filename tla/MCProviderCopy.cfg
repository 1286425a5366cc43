SPECIFICATION Spec
CONSTANTS
    s = s
    t = t
    f = f
    g = g
    d = d
    one = one
    two = two
    old = old
    Folder = Folder
    Partial = Partial
    Other = Other
    NoPath = NoPath
    Jobs <- MCJobs
    Names <- MCNames
    NewNames <- MCNewNames
    OtherPaths <- MCOtherPaths
    MaxFaults = 3
    MaxOthers = 1
INVARIANTS
    CacheTracksOwnChanges
    PartsRemembered
    MoveKeepsContent
    SuccessMeansDone
PROPERTIES
    OverwriteAsked
CHECK_DEADLOCK FALSE
