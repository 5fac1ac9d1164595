SPECIFICATION Spec
CONSTANTS
    Numbers = {n1}
    Requests = {r1, r2}
    Servers = {a1}
    Slots = {w1}
    Ops = {"track", "refresh", "bulk"}
    InitialCredits = 2
    JobTimeout = 1
    StuckAfter = 2
    MaxTopUps = 0
    MaxApiCrashes = 0
    MaxJobCrashes = 0
    RedisMayFail = TRUE
PROPERTY QueuedUntilAsked
