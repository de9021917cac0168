SPECIFICATION Spec
CONSTANTS
    NFilters = 1
    MaxBatch = 2
    MaxSent = 3
    MaxOwn = 1
    MaxNum = 6
INVARIANTS
    ListsAgree
    EchoesFollow
    PendingIsScheduled
