SPECIFICATION McSpec
CONSTANTS
    Scenes = {"rounds", "budgets", "waves", "discovery", "light", "unapproved"}
    RepairKeys <- ThreeRepairs
    MaxCandidates = 3
    SemanticBudget = 1
    MechanicalBudget = 1
    AutoRepair = TRUE
    MaxFailures = 1
    MaxReruns = 1
INVARIANTS BudgetsAreKept EvaluationIsOfOneWiki PlanIsOfDiscovery
PROPERTY PlanningEnds
CHECK_DEADLOCK FALSE
