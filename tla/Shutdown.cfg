CONSTANTS
    Events = {"e1", "e2"}
    MaxBatch = 2
    SlowCalls = TRUE
    Environments <- FourEnvironments
    MaxCalls = 1
SPECIFICATION ServiceFair
INVARIANTS ServiceType GracefulIsComplete ClosedAfterUse
PROPERTIES ShutdownEnds ServedIsProcessed
CHECK_DEADLOCK FALSE
