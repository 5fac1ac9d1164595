SPECIFICATION FairSpec
CONSTANTS
    p1 = p1
    p2 = p2
    Plans = {p1, p2}
    Included <- TwoPlans
    Subs = {s1}
    Servers = {a1, a2}
    SignupCredits = 1
    Pack = 1
    MaxEvents = 3
    MaxFaults = 1
CHECK_DEADLOCK FALSE
INVARIANT TypeOK OnePlanOneRefill NothingStacks PurchasesCounted AllotmentFollowsPlan FirstInvoiceCovered
PROPERTY EventsSettle
