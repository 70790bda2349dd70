CONSTANTS
    Sessions <- TwoSessions
    Events = {"e1"}
    EventOf <- EventOfTwo
    MaxConcurrent = 1
    BatchSize = 1
    RetryAttempts = 1
    Messages <- NoMessages
    Pollers = {}
    Leavers = {}
    MayLapse = {}
    MaxClock = 0
    MaxFaults = 0
    MaxCrashes = 0
    None = None
SPECIFICATION Spec
INVARIANTS AnnouncedIsAdmitted
CHECK_DEADLOCK FALSE
