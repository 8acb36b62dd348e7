CONSTANTS
    a1 = a1
    a2 = a2
    b1 = b1
    la = la
    lb = lb
    Ids = {a1, a2, b1}
    Lanes = {la, lb}
    LaneOf <- MCLaneOf
    Weight <- MCWeight
    Conns = {c1, c2}
    NoConn = NoConn
    Batches <- LaneBatches
    RowLimit = 2
    ByteLimit = 3
    MaxBatchRows = 2
    DedupeEvents = 1
    Tokens <- MCTokens
    NoToken = NoToken
    MaxCrashes = 1
SPECIFICATION Spec
SYMMETRY ConnSymmetry
INVARIANTS
    TypeOK
    CrashKeepsQueues
    AckImpliesDurable
    ReplayNeverRefused
    PermitsFollowJobs
PROPERTIES
    ImplementsDurableQueue
