SPECIFICATION McSpec
CONSTANTS
    Scenes = {"unapproved"}
    RepairKeys <- ThreeRepairs
    MaxCandidates = 3
    SemanticBudget = 1
    MechanicalBudget = 1
    AutoRepair = TRUE
    MaxFailures = 1
    MaxReruns = 1
INVARIANTS ApprovedPlanIsWritten
CHECK_DEADLOCK FALSE
