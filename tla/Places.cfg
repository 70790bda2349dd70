CONSTANTS
    Members = {r1, r2}
    Readers = {r1}
    Sessions = {1, 2}
    None = None
    MaxConcurrent = 1
    BatchSize = 2
    RetryAttempts = 2
    Life = 2
    MayLapse = {1}
    MaxTroubles = 1
SPECIFICATION FairSpec
INVARIANTS TypeOK PlaceOutlivesToken AdmittedByOne EachKeepsBound
PROPERTIES CommitsFollowTries OutcomeIsTried FullFreesUp
CHECK_DEADLOCK FALSE
