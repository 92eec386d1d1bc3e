\* Two symbols, one mounted twice; candles at the edge and of a date, and a failure: a file
\* that cannot be read may be the first, the middle or the last of an answer.
SPECIFICATION FairSpec
CONSTANTS
    s1 = s1  s2 = s2
    Symbols = {s1, s2}
    NumFiles = 4
    InitialCount = 3
    DateCount = 2
    HasIndicators = TRUE
    MaxRequests = 2
    MaxDates = 1
    MaxSwitches = 2
    MaxFaults = 1
INVARIANTS OfThisSymbol MissingIsUnread
PROPERTY LoadingEnds
CHECK_DEADLOCK FALSE
