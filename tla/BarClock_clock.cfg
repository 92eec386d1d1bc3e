\* Two symbols; any bars missing, with the magnifier and without.
SPECIFICATION Spec
CONSTANTS
    s1 = s1  s2 = s2
    Symbols = {s1, s2}
    TradingDiff = 2
    ReferenceDiff = 4
    Backtests <- MCBacktests
INVARIANTS OnItsBar FundingsCatchUp ReadsThePast ClosedAtABar
