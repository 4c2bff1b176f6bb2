CONSTANTS
    Deps = {d1, d2}
    Builds = {d1}
    Permits = 1
    MaxOutput = 2
    TailLines = 1
    MaxFaults = 2
SPECIFICATION FairSpec
CHECK_DEADLOCK FALSE
INVARIANTS
    TypeOK
    FetchesContained
    LogComplete
PROPERTIES
    BuildsEnd
