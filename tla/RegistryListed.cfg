\* A listed topic without a beacon.
SPECIFICATION Spec
CONSTANTS
    Beacons = {b1, b2}
    Registration = registration
    Gateways = {own, g1, g2}
    Own = own
    Links = {l1, l2}
    None = None
    BeaconTimeout = 1
    CheckInterval = 1
    TopicCapacity = 1
    InboundCapacity = 1
    Broadcasting = TRUE
INVARIANT ListedTopicRegistered
