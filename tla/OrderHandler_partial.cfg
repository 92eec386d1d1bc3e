\* Partial exits, funding, liquidation, added margin and fees of two symbols that
\* share the account.
CONSTANTS
    btc = btc   eth = eth   a = a   b = b   x1 = x1   x2 = x2   ca = ca
    Symbols = {btc, eth}
    EntryNames = {a}
    ExitNames = {x1}
    CloseAllName = ca
    MaxEntries = 2
    MaxExits = 2
    Kinds = {"LIMIT", "LIT"}
    Directions = {"LONG"}
    Leverages = {1, 2}
    Sizes = {1, 2}
    Margins = {2}
    UnitFees = {1}
    ExitFees = {1}
    Profits <- MCWideLosses
    LiquidationFees = {1}
    Fundings <- MCFundings
    InitialBalance = 5
    MaxBalance = 5
    MayRefuse = TRUE
    ReusesFilledName = FALSE
SPECIFICATION Spec
INVARIANTS
    MarginConservation
    PnlConservation
    ExitsTrackEntries
CHECK_DEADLOCK FALSE
