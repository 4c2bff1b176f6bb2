CONSTANTS
    OneShot = {c1}
    Streaming = {c2}
    MaxSessions = 2
    Replies = 2
    Cap = 1
    OutCap = 1
SPECIFICATION FairSpec
CHECK_DEADLOCK FALSE
INVARIANTS
    TypeOK
    TablesCurrent
PROPERTIES
    ImplementsCalls
    LostSessionUnregistered
    CallersReturn
