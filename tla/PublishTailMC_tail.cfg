SPECIFICATION Spec
CONSTANTS
    RerunKeys = {"write.root"}
    FailKeys = {"prepare.publication", "publish"}
    Commands = {"pass", "deny fix", "revise fix", "approve", "revise", "deny", "cancel", "pause", "retry"}
    LateErrors = TRUE
    MaxGen = 1
    MaxPublish = 2
    MaxForeign = 1
    MaxUpsets = 1
INVARIANTS TypeOK CandidateIsAccounted
PROPERTY DecisionsAreFinal
CHECK_DEADLOCK FALSE
