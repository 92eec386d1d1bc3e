\* Two selections, a filter and a failure over two workers.
SPECIFICATION FairSpec
CONSTANTS
    r1 = r1  r2 = r2  none = none  a = a  b = b
    Results = {r1, r2}
    NoResult = none
    TradesOf <- MCTradesOf
    SymbolsOf <- MCSymbolsOf
    UserFilters <- MCUserFilters
    Workers <- MCWorkers
    ChunkSize = 2
    MaxSelects = 2
    MaxFilters = 1
    MaxFaults = 1
INVARIANTS ShownIsFiltered BalancesFollow TradesOfSelected ShownWhole ChunksAccounted
PROPERTY FilteringEnds
CHECK_DEADLOCK FALSE
