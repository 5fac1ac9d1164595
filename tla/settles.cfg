SPECIFICATION FairSpec
CONSTANTS
    Numbers = {n1}
    Requests = {r1, r2}
    Servers = {a1}
    Slots = {w1}
    Ops = {"track", "get", "refresh", "bulk", "stop"}
    InitialCredits = 2
    JobTimeout = 1
    StuckAfter = 2
    MaxTopUps = 0
    MaxApiCrashes = 1
    MaxJobCrashes = 1
    RedisMayFail = TRUE
PROPERTY PendingSettles PaidLookupHappens
