CONSTANTS
    Apps = {a1}
    GitApps = {a1}
    Deps = {d1, d2}
    Names = {n1}
    Procs = {p1, p2}
    MaxCrashes = 1
    None = None
SPECIFICATION FairSpec
CHECK_DEADLOCK FALSE
PROPERTIES
    WorkResolves
