CONSTANTS
    Sessions <- TwoSessions
    Events = {"e1"}
    EventOf <- EventOfTwo
    MaxConcurrent = 1
    BatchSize = 2
    RetryAttempts = 1
    Messages <- TwoOutcomes
    Pollers = {}
    Leavers = {2}
    MayLapse = {1}
    MaxClock = 1
    MaxFaults = 0
    MaxCrashes = 0
    None = None
SPECIFICATION Spec
INVARIANTS RecordInv SpentTokenStaysInvalid NoneLost HeldPlaceIsLive
CHECK_DEADLOCK FALSE
