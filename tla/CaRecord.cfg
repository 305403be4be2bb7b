\* Two handshakes of one host, with no fault.
SPECIFICATION Spec
CONSTANTS
    CaKeys = {a1, a2}
    BrokerKeys = {b1, b2, b3}
    NodeKeys = {n1, n2}
    DeviceKeys = {d1, d2}
    ClientKeys = {e1}
    Hosts = {h1}
    Clients = {}
    Workers = {w1, w2}
    Faults = FALSE
    None = None
INVARIANTS
    RecordIsCurrent
