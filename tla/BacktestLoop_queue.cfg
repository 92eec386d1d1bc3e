\* Two names, two prices a bar: what the queue holds goes out of date.
SPECIFICATION FairSpec
CONSTANTS
    a = a  b = b  x = x  y = y
    NumSymbols = 1
    EntryNames = {a, b}
    ExitNames = {x}
    NumPrices = 2
    NumBars = 2
    MaxOrders = 4
    MaxCalls = 3
    FundingLiquidates = TRUE
INVARIANT ExitsKeepTheirEntry
PROPERTIES QueueNeverRevives Terminates
