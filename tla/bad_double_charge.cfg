SPECIFICATION Spec
CONSTANTS
    Numbers = {n1}
    Requests = {r1, r2, r3}
    Servers = {a1, a2}
    Slots = {w1}
    Ops = {"track", "refresh"}
    InitialCredits = 3
    JobTimeout = 1
    StuckAfter = 2
    MaxTopUps = 1
    MaxApiCrashes = 0
    MaxJobCrashes = 0
    RedisMayFail = TRUE
SYMMETRY RequestSymmetry
PROPERTY SingleFlight
