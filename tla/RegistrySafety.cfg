\* Two beacons, the own gateway and two others, two connection
\* tasks; queues of one, so that they are full as often as not.  The lock of the
\* topic list, which no gateway depends on, is free; see RegistryLive.
SPECIFICATION Spec
CONSTANTS
    Beacons = {b1, b2}
    Registration = registration
    Gateways = {own, g1, g2}
    Own = own
    Links = {l1, l2}
    None = None
    BeaconTimeout = 0
    CheckInterval = 1
    TopicCapacity = 1
    InboundCapacity = 1
    Broadcasting = FALSE
SYMMETRY Symmetry
INVARIANTS
    OwnGatewayNeverDialled
    OneOpenLinkPerGateway
    OpenLinkHasOneHolder
PROPERTY
    OnlyStaleDeregistered
