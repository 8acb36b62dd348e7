SPECIFICATION MatchSpec
CONSTANTS
    MaxClients = 2
    p1 = p1
    p2 = p2
    Players = {p1, p2}
    NoPlayer = NoPlayer
    Suspects = {p2}
    LateIdentity = TRUE
    MaxMatches = 2
    MaxHits = 1
    MaxEvents = 2
INVARIANT FallbackIsOwn
CHECK_DEADLOCK FALSE
