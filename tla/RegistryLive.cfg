\* Fair runs of handshakes, messages and sweeps; gateways play no part in them.
SPECIFICATION FairSpec
CONSTANTS
    Beacons = {b1, b2}
    Registration = registration
    Gateways = {}
    Own = None
    Links = {}
    None = None
    BeaconTimeout = 0
    CheckInterval = 1
    TopicCapacity = 1
    InboundCapacity = 1
    Broadcasting = TRUE
INVARIANT
    RegisteredTopicListedOnce
PROPERTIES
    StaleIsSwept
    QueuedBroadcastListed
