SPECIFICATION FairSpec
CONSTANTS
    r1 = r1
    g1 = g1
    g2 = g2
    g3 = g3
    Lookups = {r1, g1, g2, g3}
    Romu = {r1}
    Threads = {1, 2}
    MaxConcurrent = 1
    MaxRetries = 3
    Trackers <- MCTrackers
CHECK_DEADLOCK FALSE
INVARIANT TrackersFit
PROPERTY OnlyAwaitedWorkStarts GoCometAlwaysAnswers RomuAnswered
