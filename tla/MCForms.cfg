SPECIFICATION MCSpec
CONSTANTS
    c1 = c1
    c2 = c2
    x = x
    y = y
    t1 = t1
    Null = Null
    Clients <- MCClients
    Texts <- MCTexts
    Statuses <- MCStatuses
    Tags <- MCTags
    Authored <- MCAuthored
    MaxStamp = 2
    None = None
    s1 = s1
    s2 = s2
    r1 = r1
    r2 = r2
    Servers = {s1, s2}
    Requests = {r1, r2}
    Features = {"f", "g"}
    Requires <- MCRequires
    Names = {"a", "b"}
    Own = {"o"}
    FieldType = "colour"
    Required = TRUE
    Default = "#abcdef"
    MaxKeys = 2
    MaxSaves = 3
    HeaderNames = {"X", "x", "Y", "Host"}
    Reserved = {"Host"}
    Fold <- MCFold
    Contributions = {"t", "w"}
    URLs = {None, "u"}
    Override = FALSE
    MaxForms = 3
CHECK_DEADLOCK FALSE
SYMMETRY MCSymmetry
INVARIANTS
    HistoryIntact
    ArtifactCurrent
    StoredIsSound
PROPERTIES
    NoLostUpdate
    RenamesLoseNothing
    PDFSettingsAreOneForm
