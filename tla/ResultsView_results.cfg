\* Two selections and a success; three requests of a configuration fail.
SPECIFICATION FairSpec
CONSTANTS
    r1 = r1  r2 = r2  none = none
    Results = {r1, r2}
    NoResult = none
    MaxCalls = 2
    MaxSuccesses = 1
    MaxFailures = 3
INVARIANTS NothingLeftOn ChartMountable
PROPERTY LockReleased
CHECK_DEADLOCK FALSE
