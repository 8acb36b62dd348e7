CONSTANTS
    a1 = a1
    a2 = a2
    b1 = b1
    la = la
    lb = lb
    Ids = {a1, a2}
    Lanes = {la}
    LaneOf <- MCLaneOf
    Weight <- MCWeight
    Conns = {c1, c2}
    NoConn = NoConn
    Batches <- PairBatches
    RowLimit = 2
    ByteLimit = 3
    MaxBatchRows = 2
    DedupeEvents = 2
    Tokens <- MCTokens
    NoToken = NoToken
    MaxCrashes = 1
SPECIFICATION FairSpec
INVARIANTS
    RetiredNeverRunsAgain
PROPERTIES
    AcceptedIsDischarged
    PublishingEnds
