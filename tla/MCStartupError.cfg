\* The README has startup fail when the indexer does.
CONSTANTS
    p1 = p1
    p2 = p2
    p3 = p3
    live = live
    sunset = sunset
    Ids = {p1, p2, p3}
    Statuses = {live, sunset}
    Denied = {sunset}
    Uris <- MCUris
    Cut <- MCCut
    Rows <- MCRows
    Configs <- MCConfigs
    MaxRows = 3
    MaxChanges = 1
    None = None
SPECIFICATION Spec
INVARIANTS
    StartupFailsOnError
