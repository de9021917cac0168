SPECIFICATION Spec
CONSTANTS
    ByteBits = 3
    Forms <- MCForms
    Samples <- MCSamples
    Versions = {0, 1, 2}
    PeerBytes <- MCPeerBytes
INVARIANTS
    TypeOK
    WritesItsLength
    ReadsWhatWasWritten
    WaitsForTheRest
    WritesWhatWasRead
    VersionReachesAll
\* One exchange, and the program is done with the field.
CHECK_DEADLOCK FALSE
