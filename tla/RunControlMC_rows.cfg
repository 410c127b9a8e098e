SPECIFICATION McSpec
CONSTANTS
    FinalKey = "publish"
    Keys = {"draft", "review", "publish"}
    Upstream <- Join
    AskKeys = {"draft"}
    EvidenceKeys = {"draft"}
    PartialKeys = {"review"}
    AutoRetryKeys = {"review"}
    MaxAutoAttempts = 2
    MaxConcurrent = 2
    MaxGen = 1
    MaxAttempts = 3
    MaxCrashes = 1
    MaxCloses = 1
    Commands = {"cancel", "pause"}
    Scenes = {"branches", "rerun"}
CHECK_DEADLOCK FALSE
INVARIANTS TypeOK AttemptsAreLeased StallsOnlyOnFailure AnswersArrive HistoryIsConsistent RerunIsConsistent
PROPERTIES LateAttemptsCannotCommit CancelIsFinal
