SPECIFICATION FairSpec
CONSTANTS
    None = None
    MaxReplicas = 2
    MaxEdits = 1
    MaxEvictions = 2
    MaxFaults = 1
INVARIANTS TypeOK OwnedByItsPod
PROPERTIES  Served
CHECK_DEADLOCK FALSE
