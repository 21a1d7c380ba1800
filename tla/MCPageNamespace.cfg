SPECIFICATION ArchiveSpec
CONSTANTS
    None = None
    c1 = c1
    c2 = c2
    p1 = p1
    p2 = p2
    Clients = {c1, c2}
    Ids = {p1, p2}
    Paths <- MCPaths
    Sources <- MCSources
    Targets <- MCTargets
    Settable <- MCSettable
    MaxOps = 2
    Texts <- MCTexts
    MaxFiles = 2
    MaxBytes = 3
    MaxFileOps = 3
SYMMETRY MCSymmetry
CHECK_DEADLOCK FALSE
INVARIANTS
    CachedIconsAreStored
    ShownWasViewable
PROPERTIES
    PathsKeepLeading
    ArchivesKeepContent
    UsedFilesStay
