CONSTANTS
    Deps = {d1, d2}
    Requests = {r1}
    Failures = {"timeout", "blip", "restart", "drop"}
    MaxFaults = 1
    MaxRequests = 3
    None = None
SPECIFICATION FairSpec
CHECK_DEADLOCK FALSE
PROPERTIES
    ReconcileRestores
