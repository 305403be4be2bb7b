\* One user with two passwords over the starts, every other setting both ways.
SPECIFICATION FairSpec
CONSTANTS
    Users = {u1}
    Passwords = {p1, p2}
    None = None
INVARIANTS
    OwnClientAccepted
    DevicesSentToBroker
PROPERTIES
    InitializeCompletes
