SPECIFICATION Spec
CONSTANTS
    p = p
    q = q
    a = a
    b = b
    Paths <- MCPaths
    Names <- MCNames
    NoPath = NoPath
    NoFolder = NoFolder
    StartPath = p
    StartDisk <- MCStartDisk
    StartModes <- MCStartModes
    PumpSize = 1
    MaxChanges = 1
    MaxUserOps = 2
    Capacity = 2
PROPERTY SelectionStaysInFolder
