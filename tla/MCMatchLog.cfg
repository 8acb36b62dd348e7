SPECIFICATION MatchSpec
CONSTANTS
    MaxClients = 2
    p1 = p1
    p2 = p2
    Players = {p1, p2}
    NoPlayer = NoPlayer
    Suspects = {}
    LateIdentity = FALSE
    MaxMatches = 2
    MaxHits = 1
    MaxEvents = 3
SYMMETRY Symmetric
INVARIANTS
    WaitingIsAnswered
    CountedOnce
    NothingForgotten
PROPERTY LogsAdvance
CHECK_DEADLOCK FALSE
