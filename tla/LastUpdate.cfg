CONSTANTS
    Buffer = 1
    MaxEvents = 1
    MaxFaults = 0
SPECIFICATION Spec
INVARIANTS OkMeansTold
CHECK_DEADLOCK FALSE
