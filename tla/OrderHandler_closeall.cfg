\* CloseAll from ON_CLOSE with two positions open.
CONSTANTS
    btc = btc   eth = eth   a = a   b = b   x1 = x1   x2 = x2   ca = ca
    Symbols = {btc}
    EntryNames = {a, b}
    ExitNames = {x1}
    CloseAllName = ca
    MaxEntries = 2
    MaxExits = 2
    Kinds = {"MARKET", "LIMIT"}
    Directions = {"LONG", "SHORT"}
    Leverages = {1, 2}
    Sizes = {1}
    Margins = {2}
    UnitFees = {0}
    ExitFees = {0}
    Profits <- MCLosses
    LiquidationFees = {0}
    Fundings <- MCNoFundings
    InitialBalance = 4
    MaxBalance = 4
    MayRefuse = FALSE
    ReusesFilledName = FALSE
SPECIFICATION Spec

PROPERTIES CloseAllClosesAll
CHECK_DEADLOCK FALSE
