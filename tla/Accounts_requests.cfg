CONSTANTS
    Names = {config, bob}
    Config = config
    Slots = {p1, p2}
    MaxRequests = 5
    MaxRestarts = 1
    MaxDrops = 1
SYMMETRY Symmetry
SPECIFICATION Spec
CHECK_DEADLOCK FALSE
INVARIANTS
    TypeOK
    AdminRemains
    SessionsFollowCredentials
    RowsStayPersonal
