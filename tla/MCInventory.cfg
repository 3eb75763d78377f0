CONSTANTS
    Skus = {tea}
    SourceCodes <- MCSourceCodes
    DefaultSource = 2
    MaxQuantity = 2
    MaxLine = 3
SPECIFICATION Spec
INVARIANTS
    LevelsSound
    PlanUnique
PROPERTIES
    BackorderOnlyWhenDrained
    ImplementsPool
