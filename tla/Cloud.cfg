\* The delays of the code; three messages overfill a queue of two.
SPECIFICATION FairSpec
CONSTANTS
    OutboundCapacity = 2
    InitialReconnectDelay = 2
    MaxReconnectDelay = 60
    MaxMessages = 3
INVARIANTS
    InOrderAtMostOnce
PROPERTIES
    RegisterFirst
    QueueDrains
    ImplementsConnectionTask
CHECK_DEADLOCK FALSE
