SPECIFICATION Spec
CONSTANTS
    None = None
    here = here
    there = there
    r1 = r1
    r2 = r2
    ann = ann
    Affects = TRUE
    Packages <- MCPackages
    Catalogs <- MCCatalogs
    Builtins <- MCBuiltins
    AtStart <- MCAtStart
    Required = {}
    Admins = {ann}
    Servers = {here, there}
    Here = here
    Requests = {r1, r2}
    Concurrency = 1
    MaxRefresh = 1
    MaxChanges = 2
    MaxOverlap = 2
SYMMETRY MCSymmetry
CHECK_DEADLOCK FALSE
INVARIANTS
    RebuildsFollow
