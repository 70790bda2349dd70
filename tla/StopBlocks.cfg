CONSTANTS
    Events = {"e1"}
    MaxBatch = 1
    SlowCalls = FALSE
SPECIFICATION Spec
INVARIANTS StopIsGraceful
CHECK_DEADLOCK FALSE
