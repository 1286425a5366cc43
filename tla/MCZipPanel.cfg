SPECIFICATION Spec
CONSTANTS
    left = left
    right = right
    a = a
    d = d
    x = x
    y = y
    new = new
    pw = pw
    typo = typo
    Marker = Marker
    NoKey = NoKey
    Broken = Broken
    Nobody = Nobody
    Panels <- MCPanels
    Paths <- MCPaths
    NewBytes = {new}
    Passwords = {pw, typo}
    Archives <- MCArchives
    OtherArchives <- MCOtherArchives
    MaxEdits = 3
    MaxFaults = 1
    MaxOthers = 1
INVARIANTS
    CleanViewIsOnDisk
    NoFileIsAFolder
PROPERTIES
    UnsavedChangesKept
    EncryptedStaysEncrypted
CHECK_DEADLOCK FALSE
