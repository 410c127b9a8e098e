SPECIFICATION FairSpec
CONSTANTS
    e1 = e1
    e2 = e2
    v1 = v1
    v2 = v2
    Old = Old
    Missing = Missing
    Partial = Partial
    Effects = {e1, e2}
    Versions = {v1, v2}
    MaxCrashes = 2
    EditsHeedLock = TRUE
    PromptRestart = FALSE
    MaxFaults = 0
INVARIANTS CrashesAreReconciled
PROPERTIES ImplementsAtomicPublish ApplyingSettles
CHECK_DEADLOCK FALSE
