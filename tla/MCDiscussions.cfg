SPECIFICATION Spec
CONSTANTS
    ann = ann
    bob = bob
    h1 = h1
    c1 = c1
    c2 = c2
    k1 = k1
    None = None
    Users <- MCUsers
    Spans <- MCSpans
    Keys <- MCKeys
    Hooks <- MCHooks
    Clients <- MCClients
    MaxRetry = 1
    MaxIds = 3
    InitialThreads <- MCThreads
    Mentioned <- MCMentioned
    MaxContents = 1
    MaxRevisions = 2
    MaxComments = 2
    MaxRows = 3
    MaxRequests = 2
CHECK_DEADLOCK FALSE
SYMMETRY MCSymmetry
INVARIANTS
    HeadersMatchTheirMark
    CreationIsEmittedOnce
    SuggestionsMeetTheirRevision
