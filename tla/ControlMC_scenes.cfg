SPECIFICATION McSpec
CONSTANTS
    Nodes <- McNodes
    Upstream <- McUpstream
    RunOf <- McRunOf
    KindOf <- McKindOf
    KindLimit <- McKindLimit
    MaxActiveRuns = 1
    MaxConcurrentAttempts = 2
    Throwing = {"a2"}
    SameTurn = FALSE
    MaxCommands = 4
    MaxAttempts = 2
    Scenes = {"wake", "live", "gates", "reopen"}
INVARIANTS NoneIsLeftBehind
PROPERTIES GateIsDecidedOnce WorkGoesOn WaitsEnd
CHECK_DEADLOCK FALSE
