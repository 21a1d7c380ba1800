SPECIFICATION Spec
CONSTANTS
    Pages = {p1}
    Admins = {a1}
    Viewers = {v1}
    Worker = worker
    MaxPlans = 2
    MaxMarks = 2
    MaxRestarts = 1
INVARIANTS
    Attended
    SettledIsHonest
PROPERTIES
    QueuedIsRebuilt
