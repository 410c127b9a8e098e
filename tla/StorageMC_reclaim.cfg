SPECIFICATION McSpec
CONSTANTS
    a1 = a1
    a2 = a2
    a3 = a3
    b1 = b1
    b2 = b2
    serverA = serverA
    serverB = serverB
    Jobs = {a1, a2, b1, b2}
    Processes = {serverA, serverB}
    ProcessOf <- TwoServers
    Ages = TRUE
    CanOverstay = FALSE
    MaxCrashes = 1
    Scenes = {"lock"}
INVARIANT MutualExclusion
CHECK_DEADLOCK FALSE
