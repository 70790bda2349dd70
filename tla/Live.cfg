CONSTANTS
    Sessions <- TwoSessions
    Events = {"e1"}
    EventOf <- EventOfTwo
    MaxConcurrent = 1
    BatchSize = 2
    RetryAttempts = 1
    Messages <- OneCompletion
    Pollers = {1}
    Leavers = {}
    MayLapse = {1}
    MaxClock = 0
    MaxFaults = 0
    MaxCrashes = 0
    MaxMisses = 1
    None = None
SPECIFICATION GrpcFair
INVARIANTS GrpcType AnswerInv RefusalIsNamed SpentTokenStaysInvalid
PROPERTIES AnswersMoveForward QueuedIsNotified PollIsTold
CHECK_DEADLOCK FALSE
