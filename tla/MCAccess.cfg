SPECIFICATION AccessSpec
CONSTANTS
    root = root
    mia = mia
    c1 = c1
    c2 = c2
    s1 = s1
    s2 = s2
    sub1 = sub1
    sub2 = sub2
    ada = ada
    bob = bob
    g1 = g1
    None = None
    Accounts <- MCAccounts
    Clients <- MCClients
    Admin = root
    Legacy = root
    Groups <- MCGroups
    Servers <- MCServers
    Processes <- MCServers
    Subjects <- MCSubjects
    Names <- MCNames
    ProviderName <- MCProviderName
    MaxEpoch = 1
    MaxSaves = 2
    MaxRequests = 3
    Baseline = 3
    Newest = 5
    MaxStarts = 3
    MaxVersion = 2
    MaxCookies = 1
    MaxDecisions = 3
CHECK_DEADLOCK FALSE
SYMMETRY MCSymmetry
INVARIANTS
    SetupOnce
    SessionsAreCurrent
    SchemaIsWhole
    CutOffStays
PROPERTIES
    SavedIsNotUndone
    RejectionStands
    RetirementStands
