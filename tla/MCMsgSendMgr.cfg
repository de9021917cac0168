SPECIFICATION Spec
CONSTANTS
    Delays = {0, 1, 3}
    Repeats = {0, 1, 3}
    Counts = {0, 2}
    Ids <- MCIds
    Scripts <- MCScripts
    IntMax = 3
    MaxNesting = 2
INVARIANTS
    NothingStranded
    WaitsForLater
PROPERTIES
    KeepsSchedule
    FiniteScriptCompletes
    NoneStarves
