CONSTANTS
    Pieces <- MCPieces
    MaxPieces = 4
    Statements <- MCStatements
    Values <- MCValues
    IntOf <- MCIntOf
    MaxRate = 3000
CHECK_DEADLOCK FALSE
SPECIFICATION TextSpec
INVARIANTS
    OneWholeStatement
    HeaderDecidesLane
    
    
