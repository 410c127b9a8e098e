SPECIFICATION Spec
CONSTANTS
    RerunKeys = {"write.root"}
    FailKeys = {}
    Commands = {"pass"}
    LateErrors = FALSE
    MaxGen = 1
    MaxPublish = 1
    MaxForeign = 0
    MaxUpsets = 1
INVARIANT OnlyReviewedOffered
CHECK_DEADLOCK FALSE
