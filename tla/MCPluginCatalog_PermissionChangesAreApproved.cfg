SPECIFICATION Spec
CONSTANTS
    None = None
    here = here
    there = there
    r1 = r1
    r2 = r2
    ann = ann
    Affects = FALSE
    Packages <- MCNarrowed
    Catalogs <- MCNarrowedCatalogs
    Builtins <- MCWideBuiltins
    AtStart <- MCWideAtStart
    Required = {}
    Admins = {ann}
    Servers = {here, there}
    Here = here
    Requests = {r1, r2}
    Concurrency = 1
    MaxRefresh = 0
    MaxChanges = 2
    MaxOverlap = 2
SYMMETRY MCSymmetry
CHECK_DEADLOCK FALSE
PROPERTY
    PermissionChangesAreApproved
