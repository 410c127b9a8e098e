SPECIFICATION McSpec
CONSTANTS
    a1 = a1
    a2 = a2
    a3 = a3
    b1 = b1
    b2 = b2
    serverA = serverA
    serverB = serverB
    Jobs = {a1, a2, a3}
    Processes = {serverA}
    ProcessOf <- OneServer
    Ages = TRUE
    CanOverstay = TRUE
    MaxCrashes = 2
    Scenes = {"edits", "visit", "owners", "reset", "remove", "keep", "recreate", "listed", "owner", "edit", "gone", "leave", "lock"}
INVARIANTS TypeOK MutualExclusion ServedInOrder LeaseExcludes RemovalIsFinal OwnerIsGuarded SessionsAreExclusive
PROPERTIES ResetSparesOwner StorageAnswers
CHECK_DEADLOCK FALSE
