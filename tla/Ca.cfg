\* Crashes at every step, and two handshakes at a time, of a device whose file is
\* its own and of one called broker, each with the key it always uses.
SPECIFICATION Spec
CONSTANTS
    CaKeys = {a1, a2}
    BrokerKeys = {b1, b2, b3}
    NodeKeys = {n1, n2}
    DeviceKeys = {d1}
    ClientKeys = {e1}
    Hosts = {h1, "broker"}
    Clients = {c1}
    Workers = {w1, w2}
    Faults = TRUE
    None = None
INVARIANTS
    GivenIsStored
    ChainsToStoredCa
PROPERTIES
    FilesMatchWhenServing
    NodeIdentityStable
    
