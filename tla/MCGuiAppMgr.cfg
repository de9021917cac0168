SPECIFICATION Spec
CONSTANTS
    ListedKinds = {"Received", "Sent"}
    MaxRecv = 2
    MaxScript = 3
    MaxMsgs = 4
    PluginsMayFail = FALSE
INVARIANTS
    TypeOK
    AssertsHold
    SelectionConsistent
    PartsAgree
    SelectionIsDisplayed
PROPERTY
    MoveKeepsSelection
