CONSTANTS
    Deps = {d1, d2}
    Requests = {r1, r2}
    Failures = {"error", "drop"}
    MaxFaults = 1
    MaxRequests = 4
    None = None
SYMMETRY Symmetry
SPECIFICATION Spec
CHECK_DEADLOCK FALSE
INVARIANTS
    TypeOK
    SwitchesSafely
