CONSTANTS
    Ordinary = {o1}
    Upgrades = {u1}
    Chunks = 1
    Cap = 1
    SessionCap = 1
    MaxFaults = 1
SPECIFICATION FairSpec
CHECK_DEADLOCK FALSE
INVARIANTS
    TypeOK
    BodiesFaithful
    EntriesAccounted
PROPERTIES
    RelaysEnd
