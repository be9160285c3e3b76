SPECIFICATION Spec
CONSTANTS
    Relations <- MCRelations
    Metadata <- MCMetadata
    Uses <- MCUses
    Servers = {s1}
    Shells = {c1}
    Foreign = {39}
    Heavy = {31}
    Users = {u1}
    PlanIds = {1, 2}
    Projects <- MCProjects
    Worlds <- MCWorlds
    MaxGeneration = 2
    MaxUpsets = 1
    None = None
INVARIANTS
    TypeOK
    SparesOthers
    DroppedAsReviewed
    NoDangling
    ExecutedByAdmin
    Recoverable
PROPERTIES
    RecordedTruth
    OncePerPlan
CHECK_DEADLOCK FALSE
