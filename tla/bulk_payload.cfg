SPECIFICATION Spec
CONSTANTS
    Numbers = {n1, n2}
    Requests = {r1, r2}
    Servers = {a1}
    Slots = {w1}
    Ops = {"track", "bulk", "stop"}
    InitialCredits = 3
    JobTimeout = 1
    StuckAfter = 2
    MaxTopUps = 0
    MaxApiCrashes = 0
    MaxJobCrashes = 0
    RedisMayFail = FALSE
SYMMETRY RequestSymmetry
INVARIANT HandedOver
