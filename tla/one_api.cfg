SPECIFICATION Spec
CONSTANTS
    Numbers = {n1}
    Requests = {r1, r2, r3}
    Servers = {a1}
    Slots = {w1}
    Ops = {"track", "get", "refresh", "bulk", "stop"}
    InitialCredits = 2
    JobTimeout = 1
    StuckAfter = 2
    MaxTopUps = 1
    MaxApiCrashes = 0
    MaxJobCrashes = 0
    RedisMayFail = TRUE
SYMMETRY RequestSymmetry
INVARIANT QueuedRowSurvives SettledMessage
PROPERTY SingleFlight LoneJobNotSwept
