SPECIFICATION Spec
CONSTANTS
    c1 = c1
    c2 = c2
    a = a
    b = b
    t1 = t1
    Null = Null
    Clients <- MCClients
    Texts <- MCTexts
    Statuses <- MCStatuses
    Tags <- MCTags
    Authored <- MCAuthored
    MaxStamp = 2
SYMMETRY Symmetry
INVARIANTS
    RewriteKeepsText
