CONSTANTS
    Chunks = 2
    Room = 1
    Starts = {s1, s2}
    MaxFaults = 2
SPECIFICATION FairSpec
CHECK_DEADLOCK FALSE
INVARIANTS
    TypeOK
    FilesWhole
    CleanupSpares
PROPERTIES
    UploadsEnd
    InstallBoxGone
