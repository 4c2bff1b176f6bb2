CONSTANTS
    Deps = {d1, d2}
    Requests = {r1, r2}
    Failures = {}
    MaxFaults = 0
    MaxRequests = 4
    None = None
SYMMETRY Symmetry
SPECIFICATION Spec
CHECK_DEADLOCK FALSE
INVARIANTS
    NeverNothingServing
