SPECIFICATION ArchiveSpec
CONSTANTS
    None = None
    c1 = c1
    c2 = c2
    p1 = p1
    p2 = p2
    Clients = {c1}
    Ids = {p1, p2}
    Paths <- MCLinkPaths
    Sources <- MCSources
    Targets <- MCTargets
    Settable <- MCLinkSettable
    MaxOps = 2
    Texts <- MCTexts
    MaxFiles = 1
    MaxBytes = 3
    MaxFileOps = 0
SYMMETRY MCLinkSymmetry
CHECK_DEADLOCK FALSE
INVARIANT
    LinksHideTargets
