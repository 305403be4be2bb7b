\* Rotation 4 s, expiry 7 s and up to 2 s in the database: expiry exceeds the
\* rotation by the smallest margin AnnouncedKeyStored allows.  Three ids let
\* an active, a retired and a new key coexist, and collide.
SPECIFICATION FairSpec
CONSTANTS
    KeyIds = {k1, k2, k3}
    None = None
    KeyRotation = 4
    KeyExpiry = 7
    DbDelay = 2
    PublishDelay = 4
INVARIANTS
    AtMostOneActive
    AnnouncedKeyStored
    TokenSlotAccepted
PROPERTIES
    RetiredOnlyWhenDue
    KeyRecovers
    ExpiredSwept
