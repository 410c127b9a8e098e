SPECIFICATION McSpec
CONSTANTS
    Scenes = {"steer", "review", "watch", "index", "trace", "tail", "stream", "shown"}
    Kind = "detail"
    MaxRevision = 3
    MaxClicks = 1
    MaxDrops = 1
    MaxCrashes = 0
    Resends = TRUE
    Reopens = FALSE
    Refuses = FALSE
INVARIANTS ClicksCountOnce ShownIsWhole
PROPERTIES ViewGoesForward BrowserCatchesUp
CHECK_DEADLOCK FALSE
