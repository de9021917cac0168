SPECIFICATION Spec
CONSTANTS
    Base = 4
    SyncPrefix = 3
    AllMessages <- MCAllMessages
    GarbageLimit = 3
    Outgoing <- MCOutgoing
    Surroundings <- MCAround
INVARIANTS
    TypeOK
    ByteConservation
    DecodesTheStream
    SentIsReceived
CHECK_DEADLOCK FALSE
