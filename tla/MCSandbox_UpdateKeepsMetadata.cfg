SPECIFICATION Spec
CONSTANTS
    Nil = Nil
    i1 = i1
    i2 = i2
    i3 = i3
    a = a
    b = b
    Instances <- MCInstances
    Binary <- MCBinary
    Permissions <- MCPermissions
    Granted <- MCGranted
    Modules <- MCModules
    Callers <- MCCallers
    RetainedLimit = 1
    HTTPLimit = 1
    Quota = 1
    MaxGuests = 3
    MaxCalls = 2
    MaxEdits = 2
CHECK_DEADLOCK FALSE
SYMMETRY MCSymmetry
PROPERTY
    UpdateKeepsMetadata
