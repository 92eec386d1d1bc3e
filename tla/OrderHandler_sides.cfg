\* Reverse exits, changes of leverage and margin reservations of one symbol.
CONSTANTS
    btc = btc   eth = eth   a = a   b = b   x1 = x1   x2 = x2   ca = ca
    Symbols = {btc}
    EntryNames = {a, b}
    ExitNames = {x1}
    CloseAllName = ca
    MaxEntries = 3
    MaxExits = 1
    Kinds = {"MARKET", "LIMIT"}
    Directions = {"LONG", "SHORT"}
    Leverages = {1, 2}
    Sizes = {1}
    Margins = {1, 2}
    UnitFees = {1}
    ExitFees = {0}
    Profits <- MCLosses
    LiquidationFees = {0}
    Fundings <- MCNoFundings
    InitialBalance = 4
    MaxBalance = 4
    MayRefuse = TRUE
    ReusesFilledName = FALSE
SPECIFICATION Spec
INVARIANTS
    OneSide
    OneLeverage
    FilledNamesUnique
    PendingNamesUnique
PROPERTIES
    MarginCovered
CHECK_DEADLOCK FALSE
