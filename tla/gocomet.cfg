SPECIFICATION FairSpec
CONSTANTS
    Lookups = {l1, l2}
    MaxRotations = 1
    MaxRecords = 3
    MaxCrashes = 1
CHECK_DEADLOCK FALSE
INVARIANT OneLiveRecord
PROPERTY SavedRecordKept LookupsEnd KeepsProtocol
