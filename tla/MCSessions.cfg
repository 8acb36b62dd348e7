CONSTANTS
    c1 = c1
    c2 = c2
    c3 = c3
    e1 = e1
    e2 = e2
    e3 = e3
    e4 = e4
    online = online
    logs = logs
    Conns <- MCConns
    Ids <- MCIds
    Lanes <- MCLanes
    Sizes <- MCSizes
    LaneOf <- MCLaneOf
    Weight <- MCWeight
    BadIds <- MCBadIds
    ScriptsOf <- MCScriptsOf
    TokenSet = TRUE
    MaxClients = 2
    MaxInbound = 2
    RowLimit = 2
    ByteLimit = 3
    MaxSpecs = 2
CHECK_DEADLOCK FALSE
SPECIFICATION SessionSpec
INVARIANTS
    ActiveExact
    RowsExact
    SlotsAreHandlers
    AnswersFollowFrames
    OnlyValidBatches

    
