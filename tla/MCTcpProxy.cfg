SPECIFICATION FairSpec
CONSTANTS
    Links = {near}
    MaxData = 2
    Loads <- MCLoads
INVARIANTS
    ConnectedIsListening
    NothingHeldBack
PROPERTIES
    KeepsPromise
    WordsArrive
CHECK_DEADLOCK FALSE
