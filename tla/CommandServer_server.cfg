\* Stops and errors at any point of a run; every interleaving of the two threads.
SPECIFICATION FairSpec
CONSTANTS
    c1 = c1  c2 = c2
    Configs = {c1, c2}
    NumBarData = 2
    MaxLines = 1
    MaxOutput = 1
    MayFail = TRUE
INVARIANTS BarDataWhole FreshBarData
PROPERTIES CommandTaken ImplementsEngine
