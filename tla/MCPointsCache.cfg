CONSTANTS
    d1 = d1
    d2 = d2
    c1 = c1
    Daemons = {d1, d2}
    Owners = {d1, d2}
    Nobody = Nobody
    Orphan = Orphan
    Changes = {c1}
    Debounce = 1
    MaxWait = 1
    Unset = Unset
    MaxCrashes = 1
SPECIFICATION FairSpec
INVARIANTS
    NoInvalidationLost
    ReadersSeeWholeTables
    ScriptSeesItsRebuild
PROPERTIES
    RankingsNeverGoBack
    ChangesArePublished
