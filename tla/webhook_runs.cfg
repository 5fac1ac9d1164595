SPECIFICATION FairSpec
CONSTANTS
    Events = {e1}
    Endpoints = {p1}
    Slots = {w1, w2}
    MaxAttempts = 3
    MaxTries = 2
    MaxCrashes = 2
    RedisMayFail = TRUE
CHECK_DEADLOCK FALSE
INVARIANT TypeOK NoneForgotten AttemptsCounted AnswerRecorded
PROPERTY FinishedStays DeliverySettles
