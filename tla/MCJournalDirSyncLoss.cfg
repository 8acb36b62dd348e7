CONSTANTS
    Ids = {a, b}
    Inodes = {f1, f2, f3}
    NoInode = NoInode
    DedupeEvents = 1
    MaxRows = 2
    MinLines = 3
    MaxLines = 5
    DirSyncFails = TRUE
    MaxCrashes = 2
SPECIFICATION Spec
SYMMETRY InodeSymmetry
INVARIANTS
    AcknowledgedSurvives
