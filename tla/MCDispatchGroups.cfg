SPECIFICATION Spec
CONSTANTS
    Tuples <- MCAnyTuples
    FactoryTuples <- MCFactoryTuples
    MsgIds = {0, 1, 2, 3, 30}
    MaxOffset = 4
    SizeLimit = 8
    Ptrs = {"p", "q"}
INVARIANTS
    FindsTheType
