CONSTANTS
    Sessions <- ThreeSessions
    Events = {"e1"}
    EventOf <- EventOfThree
    MaxConcurrent = 2
    BatchSize = 2
    RetryAttempts = 2
    Messages <- NoMessages
    Pollers = {}
    Leavers = {}
    MayLapse = {}
    MaxClock = 0
    MaxFaults = 1
    MaxCrashes = 1
    None = None
SPECIFICATION Spec
INVARIANTS TypeOK IInv SlotBound BothOnlyIfResent NotifiedOncePerEntry
PROPERTIES Promise
CHECK_DEADLOCK FALSE
