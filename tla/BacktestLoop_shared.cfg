\* Two symbols share the flags of the order handler; no funding liquidates.
SPECIFICATION Spec
CONSTANTS
    a = a  b = b  x = x  y = y
    NumSymbols = 2
    EntryNames = {a}
    ExitNames = {x}
    NumPrices = 1
    NumBars = 3
    MaxOrders = 4
    MaxCalls = 3
    FundingLiquidates = FALSE
INVARIANTS StrategiesCaughtUp EndedIsClosed
PROPERTY AfterExitEarned
