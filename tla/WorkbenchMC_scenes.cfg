\* Fifteen scenes; the constants are those of "graph".
SPECIFICATION McSpec
CONSTANTS
    Story <- Snapshots
    KeyOrder <- Order
    KindOf <- KindsOf
    Displayed = {}
    MaxClicks = 2
    MaxFailures = 1
    Scenes = {"survey", "surfaces", "freeze", "overlap", "generate", "refresh", "cite", "forms", "skill", "graph", "models", "fold", "recover", "select", "comment"}
CHECK_DEADLOCK FALSE
INVARIANTS NothingIsLost ShownIsTrue
PROPERTIES OnlyTheNamedChanges WorkIsAnswered
