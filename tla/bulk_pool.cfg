SPECIFICATION FairSpec
CONSTANTS
    n1 = n1
    n2 = n2
    s1 = s1
    NoOne = NoOne
    Numbers = {n1, n2}
    Batch <- TwinBatch
    Single <- OneSingle
    MaxWorkers = 2
    MaxActors = 2
    TargetSize = 1
    Trackers <- NineTrackers
CHECK_DEADLOCK FALSE
INVARIANT AnswersMatch TrackersAccountedFor LostOnlyToTwin
PROPERTY BatchEnds
