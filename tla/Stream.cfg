CONSTANTS
    Buffer = 1
    MaxEvents = 2
    MaxFaults = 1
SPECIFICATION FairSpec
INVARIANTS TypeOK OkMeansHanded
PROPERTIES StreamCleansUp ChangeIsHanded
CHECK_DEADLOCK FALSE
