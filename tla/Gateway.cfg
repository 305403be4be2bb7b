\* As many publishes as leave room for on_connected and disconnect among the
\* ten requests of the client; the delay doubles once below its cap and once into it.
SPECIFICATION FairSpec
CONSTANTS
    OutboundCapacity = 2
    RequestCapacity = 10
    InitialReconnectDelay = 2
    MaxReconnectDelay = 7
    MaxPublishes = 6
INVARIANTS
    AliveAfterSubscriptions
    NoSelfWait
PROPERTIES
    AliveNotified
    RevokedReplaced
    ImplementsConnectionTask
CHECK_DEADLOCK FALSE
