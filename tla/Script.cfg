CONSTANTS
    Sessions <- TwoSessions
    Events = {"e1"}
    EventOf <- EventOfTwo
    MaxConcurrent = 1
    BatchSize = 2
    RetryAttempts = 1
    Messages <- NoMessages
    Pollers = {}
    Leavers = {2}
    MayLapse = {}
    MaxClock = 0
    MaxFaults = 1
    MaxCrashes = 0
    Demo = {1}
    DemoBatch = 1
    DemoEvent = "e1"
    None = None
SPECIFICATION SimSpec
INVARIANTS SimType ScriptKeepsPlaces
PROPERTIES Promise
CHECK_DEADLOCK FALSE
