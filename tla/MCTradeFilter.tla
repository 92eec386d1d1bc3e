--------------------------- MODULE MCTradeFilter ---------------------------
(* Results, trades and filters.                                             *)
EXTENDS TradeFilter, TLC

CONSTANTS r1, r2, none, a, b

Row(n, s, p, bal) == [number |-> n, symbol |-> s, profit |-> p, balance |-> bal]

\* Two chunks of two, and one chunk.
MCTradesOf ==
    r1 :> <<Row(0, none, 0, 2), Row(1, a, 2, 4), Row(2, b, -1, 3), Row(2, b, -2, 1),
            Row(3, a, 1, 2)>>
    @@ r2 :> <<Row(0, none, 0, 2), Row(1, b, 1, 3)>>

MCSymbolsOf == r1 :> {a, b} @@ r2 :> {b}

Of(symbols, others, least, recalculate) ==
    [symbols |-> symbols, others |-> others, least |-> least, recalculate |-> recalculate]

MCUserFilters ==
    {Of({a}, TRUE, 0, TRUE), Of({b}, TRUE, 0, TRUE), Of({a, b}, TRUE, 2, FALSE), Of({}, FALSE, 0, FALSE)}
MCWorkers == {1, 2}
=============================================================================
