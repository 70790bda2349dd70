CONSTANTS
    Sessions <- TwoSessions
    Events = {"e1"}
    EventOf <- EventOfTwo
    MaxConcurrent = 1
    BatchSize = 0
    RetryAttempts = 1
    Messages <- NoMessages
    Pollers = {}
    Leavers = {}
    MayLapse = {}
    MaxClock = 0
    MaxFaults = 0
    MaxCrashes = 0
    None = None
SPECIFICATION Spec
INVARIANTS SlotBound
CHECK_DEADLOCK FALSE
