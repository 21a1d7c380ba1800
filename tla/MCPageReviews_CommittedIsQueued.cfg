SPECIFICATION MCSpec
CONSTANTS
    editor = editor
    admin = admin
    None = None
    Clients <- MCClients
    Administrators <- MCAdministrators
    Statuses <- MCStatuses
    MaxRevisions = 3
    MaxReviews = 1
    MaxSuggestions = 2
    s1 = s1
    s2 = s2
    c1 = c1
    c2 = c2
    Servers <- MCServers
    Plugins = {p, q}
    Changes <- MCChanges
    Home <- MCHome
    BatchSize = 2
    MaxFailures = 0
    MaxCrashes = 1
    MaxToggles = 0
CHECK_DEADLOCK FALSE
INVARIANT
    CommittedIsQueued
