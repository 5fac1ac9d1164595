SPECIFICATION Spec
CONSTANTS
    Numbers = {n1}
    Requests = {r1, r2}
    Servers = {a1, a2}
    Slots = {w1}
    Ops = {"track", "get", "refresh", "bulk", "stop"}
    InitialCredits = 0
    JobTimeout = 1
    StuckAfter = 2
    MaxTopUps = 2
    MaxApiCrashes = 1
    MaxJobCrashes = 1
    RedisMayFail = TRUE
SYMMETRY RequestSymmetry
INVARIANT TypeOK LedgerBalanced ChargeInOnePlace
PROPERTY PaysOnceScrapesOnce
