----------------------------- MODULE MCBarClock -----------------------------
(* Data with any bars missing, of one symbol, and of another that goes     *)
(* with it.  Bars are given as sets of opening times; a trading bar is two *)
(* magnifier bars, a reference bar two trading bars.                       *)
EXTENDS BarClock, TLC

CONSTANTS s1, s2

Sorted(S) == [i \in 1..Cardinality(S) |->
                CHOOSE x \in S : Cardinality({y \in S : y < x}) = i - 1]

MarketOf(t, r, g, k, f) ==
    [trading |-> Sorted(t), reference |-> Sorted(r), magnifier |-> Sorted(g),
     mark |-> Sorted(k), fundings |-> Sorted(f)]

Some(S) == SUBSET S \ {{}}

\* Without the magnifier: trading, reference and mark bars and fundings missing.
PlainMarkets ==
    {s1 :> MarketOf(t, r, {}, k, f)
        @@ s2 :> MarketOf({0, 2, 4}, {-4, 0, 4}, {}, {0, 2, 4, 6, 8}, {2}) :
        t \in Some({0, 2, 4, 6, 8}), r \in Some({-4, 0, 4}),
        k \in {{0, 2, 4, 6, 8}, {2, 6}, {4}}, f \in {{}, {2, 6}, {2, 4, 6}}}
PlainPeriods == {[begin |-> 0, end |-> 10], [begin |-> 2, end |-> 8]}

\* With it: trading and magnifier bars missing; the other symbol soon ends.
MagnifiedMarkets ==
    {s1 :> MarketOf(t, r, g, 0..7, {1, 2, 3, 5})
        @@ s2 :> MarketOf({0, 2}, {-4}, 0..3, 0..3, {}) :
        t \in Some({0, 2, 4, 6}), r \in {{-4, 0, 4}, {-4}, {0}}, g \in Some(0..7)}
MagnifiedPeriods == {[begin |-> 0, end |-> 8], [begin |-> 2, end |-> 6]}

MCBacktests ==
    [market: PlainMarkets, period: PlainPeriods, useMagnifier: {FALSE}]
        \cup [market: MagnifiedMarkets, period: MagnifiedPeriods, useMagnifier: {TRUE}]
=============================================================================
