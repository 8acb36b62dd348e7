CONSTANTS
    la = la
    lb = lb
    Lanes = {la, lb}
    LaneOf <- MCLaneOf
    MaxWrites = 3
    QueueMax = 2
    BatchMax = 2
    MaxAsync = 2
    Sockets = {s1, s2}
    NoSocket = NoSocket
    BatchIds = {b1, b2}
    NoBatch = NoBatch
    MaxFaults = 2
SPECIFICATION Spec
SYMMETRY OutletSymmetry
CHECK_DEADLOCK FALSE
INVARIANTS
    TypeOK
    NoWriteForgotten
    BarrierHolds
    OrderKept
