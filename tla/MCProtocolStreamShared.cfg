SPECIFICATION Spec
CONSTANTS
    Base = 4
    SyncPrefix = 3
    AllMessages <- MCAllMessages
    GarbageLimit = 3
    Outgoing <- MCOutgoing
    Surroundings <- MCDisturbed
INVARIANTS
    ReceiverUndisturbed
CHECK_DEADLOCK FALSE
