CONSTANTS
    Activations = {a1}
    Reconciles = {c1}
    Readers = {r1}
    InstallLines = 1
    MaxLines = 2
    TailLines = 1
    RotateAt = 1
    MaxChunk = 2
    Lag = 1
    Room = 1
    MaxFaults = 1
    None = None
SPECIFICATION FairSpec
CHECK_DEADLOCK FALSE
INVARIANTS
    RunLogBounded
    ReadersMissNothing
PROPERTIES
    FollowersEnd
    CaptureResumes
