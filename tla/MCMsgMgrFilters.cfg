SPECIFICATION Spec
CONSTANTS
    NFilters = 2
    MaxBatch = 2
    MaxSent = 3
    MaxOwn = 1
    MaxNum = 6
INVARIANTS
    RoundTrip
