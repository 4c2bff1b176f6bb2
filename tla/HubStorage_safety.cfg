CONSTANTS
    Apps = {a1, a2}
    GitApps = {a1}
    Deps = {d1, d2}
    Names = {n1, n2}
    Procs = {p1, p2}
    MaxCrashes = 1
    None = None
SYMMETRY Symmetry
SPECIFICATION Spec
CHECK_DEADLOCK FALSE
INVARIANTS
    TypeOK
    RowsConsistent
    DiskConsistent
PROPERTIES
    StartupLeavesNoOrphans
    ImplementsCatalog
