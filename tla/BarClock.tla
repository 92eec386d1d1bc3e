------------------------------ MODULE BarClock ------------------------------
(***************************************************************************)
(* The clock of a backtest: which bar of its data each symbol stands at,   *)
(* when a symbol begins, pauses over missing bars and ends, the bars of a  *)
(* higher timeframe an indicator reads, and the fundings that fall due.    *)
(*                                                                         *)
(* Times are counted in magnifier bars, and the close of a bar is written  *)
(* as the first instant after it: the code's close_time plus one           *)
(* millisecond.  A time of funding stands for the first instant a bar may  *)
(* open at or after it.  Indices start at 1 where the code's start at 0,   *)
(* so that 0 is the index the code's size_t wraps to.  Bars have no price  *)
(* here; of the orders only the symbols that have any are kept.            *)
(*                                                                         *)
(* One timeframe above the trading one is modelled: each is checked alone. *)
(* The reference bars of the trading timeframe itself are the trading bars *)
(* and nothing reads their index.                                          *)
(***************************************************************************)
EXTENDS Integers, Sequences, FiniteSets, FiniteSetsExt

CONSTANTS
    Symbols,
    TradingDiff,    \* trading_bar_time_diff_
    ReferenceDiff,  \* reference_bar_time_diff_ of the higher timeframe
    Backtests       \* the data the symbols may have, with a period and a setting

\* Trading bars are whole timeframes apart, as some may be missing; reference bars
\* are in order; and no two fundings fall into one of the finest bars, whose
\* timeframe IsValidBarData keeps to the shortest interval of fundings at most.
InOrder(m, finest) ==
    /\ m.trading \in Seq(Int) \ {<<>>} /\ m.reference \in Seq(Int) \ {<<>>} /\ m.fundings \in Seq(Int)
    /\ \A i, j \in DOMAIN m.trading : i < j =>
          \E n \in 1..m.trading[j] - m.trading[i] : m.trading[j] = m.trading[i] + n * TradingDiff
    /\ \A i, j \in DOMAIN m.reference : i < j => m.reference[i] < m.reference[j]
    /\ \A i, j \in DOMAIN m.fundings : i < j => m.fundings[i] + finest <= m.fundings[j]

ASSUME ClockAssumption ==
    /\ IsFiniteSet(Symbols) /\ Symbols # {}
    /\ TradingDiff \in Nat \ {0} /\ ReferenceDiff \in Nat \ {0}
    /\ ReferenceDiff > TradingDiff /\ ReferenceDiff % TradingDiff = 0
    /\ \A b \in Backtests :
          /\ b.useMagnifier \in BOOLEAN /\ b.period.begin \in Int /\ b.period.end \in Int
          /\ DOMAIN b.market = Symbols
          /\ \A s \in Symbols : InOrder(b.market[s], IF b.useMagnifier THEN 1 ELSE TradingDiff)

VARIABLES
    pc,
    market,       \* per symbol the opening times of its bars, in order, and its fundings
    period,       \* begin_open_time_ and end_close_time_
    useMagnifier, \* use_bar_magnifier_: the finest data are magnifier bars
    openTime,     \* current_open_time_
    closeTime,    \* current_close_time_
    barTimes,     \* original_open_time and original_close_time of the magnifier's loop
    trading, reference, magnifier, mark,  \* the index of each symbol in its bars
    began,        \* trading_began_
    ended,        \* trading_ended_
    active,       \* activated_symbol_indices_
    checked,      \* the symbols whose orders are checked in this step
    nextFunding,  \* funding_rates_indices_
    ordered,      \* symbols that have orders or positions
    closedOut,    \* history: symbols that ended with some
    missed        \* history: steps in which fundings of a symbol were not looked at

data    == <<market, period, useMagnifier>>
times   == <<openTime, closeTime, barTimes>>
indices == <<trading, reference, magnifier, mark>>
states  == <<began, ended, active>>
closing == <<ordered, closedOut>>
funds   == <<nextFunding, missed>>
vars    == <<pc, data, times, indices, states, checked, closing, funds>>

\* The timeframe of magnifier and mark bars; without a magnifier that of trading bars.
Finest == IF useMagnifier THEN 1 ELSE TradingDiff

-----------------------------------------------------------------------------
(* Bars.                                                                   *)

\* ProcessBarIndex: forward from i to the last bar that has closed at the target.
ProcessBarIndex(bars, diff, i, target) ==
    Max({i} \cup {j \in i + 1..Len(bars) : bars[j] + diff <= target})

\* The trading bar s stands at opens now.
OpensNow(s) == /\ trading[s] \in DOMAIN market[s].trading
               /\ market[s].trading[trading[s]] = openTime

MovedReference(s) ==
    ProcessBarIndex(market[s].reference, ReferenceDiff, reference[s], closeTime)
ReferenceClose(s) == market[s].reference[MovedReference(s)] + ReferenceDiff

\* To the last magnifier bar before the trading bar.
MovedMagnifier(s) ==
    ProcessBarIndex(market[s].magnifier, Finest, magnifier[s], openTime)
MagnifierClose(s) == market[s].magnifier[MovedMagnifier(s)] + Finest

-----------------------------------------------------------------------------
(* UpdateTradingStatus: each symbol in turn; they do not affect each other. *)

\* Neither missing nor past its data, and not ended.
HasBar(s) == s \notin ended /\ OpensNow(s)

OutOfTradingBars(s) == s \in began \ ended /\ trading[s] = Len(market[s].trading) + 1

ReferenceLate(s) == ReferenceClose(s) > closeTime
ReferenceOver(s) == /\ MovedReference(s) = Len(market[s].reference)
                    /\ closeTime = ReferenceClose(s) + ReferenceDiff

MagnifierLate(s) == MagnifierClose(s) >= closeTime
MagnifierOver(s) == MovedMagnifier(s) = Len(market[s].magnifier)

\* The bars of the higher timeframe allow trading, so the magnifier's are looked at.
ReferenceUsable(s) == HasBar(s) /\ ~ReferenceLate(s) /\ ~ReferenceOver(s)

Late(s) == HasBar(s) /\ ( \/ ReferenceLate(s)
                          \/ ReferenceUsable(s) /\ useMagnifier /\ MagnifierLate(s) )
Over(s) == \/ OutOfTradingBars(s)
           \/ HasBar(s) /\ ~ReferenceLate(s) /\ ReferenceOver(s)
           \/ ReferenceUsable(s) /\ useMagnifier /\ ~MagnifierLate(s) /\ MagnifierOver(s)
Activated(s) == ReferenceUsable(s) /\ (useMagnifier => ~MagnifierLate(s) /\ ~MagnifierOver(s))

\* ExecuteTradingEnd of the symbols of S: everything is closed at the trading bar
\* before the one the symbol stands at.
ExecuteTradingEnd(S) ==
    /\ ended' = ended \cup S
    /\ ordered' = ordered \ S
    /\ closedOut' = closedOut \cup (ordered \cap S)

\* A symbol that waits for its other data still moves along its trading bars.
StatusIndexMutant(s) == IF Over(s) THEN trading[s] - 1 ELSE trading[s]
StatusIndex(s) ==
    CASE Over(s) -> trading[s] - 1
      [] Late(s) -> trading[s] + 1
      [] OTHER   -> trading[s]

UpdateTradingStatus ==
    /\ pc = "update"
    /\ began' = began \cup {s \in Symbols : HasBar(s)}
    /\ active' = {s \in Symbols : Activated(s)}
    /\ ExecuteTradingEnd({s \in Symbols : Over(s)})
    /\ trading' = [s \in Symbols |-> StatusIndex(s)]
    /\ reference' = [s \in Symbols |-> IF HasBar(s) THEN MovedReference(s) ELSE reference[s]]
    /\ magnifier' = [s \in Symbols |-> IF useMagnifier /\ ReferenceUsable(s)
                                       THEN MovedMagnifier(s) ELSE magnifier[s]]
    /\ pc' = "updated"
    /\ UNCHANGED <<data, times, mark, checked, funds>>

-----------------------------------------------------------------------------
(* BacktestingMain.                                                        *)

\* ExecuteAllTradingEnd, past the end of the period.
SymbolsToEndMutant == Symbols
SymbolsToEnd == Symbols \ ended

ExecuteAllTradingEnd ==
    /\ pc = "updated" /\ closeTime > period.end
    /\ ExecuteTradingEnd(SymbolsToEnd)
    /\ trading' = [s \in Symbols |-> IF s \in SymbolsToEnd THEN trading[s] - 1 ELSE trading[s]]
    /\ pc' = "done"
    /\ UNCHANGED <<data, times, reference, magnifier, mark, began, active, checked, funds>>

EveryoneEnded ==
    /\ pc = "updated" /\ closeTime <= period.end /\ ended = Symbols
    /\ pc' = "done"
    /\ UNCHANGED <<data, times, indices, states, checked, closing, funds>>

\* Without the magnifier the bar is one step.
MovedMark(s) == ProcessBarIndex(market[s].mark, Finest, mark[s], closeTime)

TradingBar ==
    /\ pc = "updated" /\ closeTime <= period.end /\ ended # Symbols /\ ~useMagnifier
    /\ mark' = [s \in Symbols |-> IF s \in active THEN MovedMark(s) ELSE mark[s]]
    /\ checked' = active /\ pc' = "funding"
    /\ UNCHANGED <<data, times, trading, reference, magnifier, states, closing, funds>>

\* With it the clock is put one magnifier bar before the trading bar.
EnterMagnifier ==
    /\ pc = "updated" /\ closeTime <= period.end /\ ended # Symbols /\ useMagnifier
    /\ barTimes' = [open |-> openTime, close |-> closeTime]
    /\ openTime' = openTime - Finest /\ closeTime' = openTime
    /\ pc' = "magnify"
    /\ UNCHANGED <<data, indices, states, checked, closing, funds>>

\* A magnifier bar: symbols that have it are checked, the mark index of those that
\* miss it is moved, and those past their magnifier data end in mid-bar.
MagnifierBar ==
    LET open  == openTime + Finest
        close == closeTime + Finest
        moved == [s \in Symbols |->
                    IF s \in active
                    THEN ProcessBarIndex(market[s].magnifier, Finest, magnifier[s], close)
                    ELSE magnifier[s]]
        has   == {s \in active : market[s].magnifier[moved[s]] + Finest = close}
        over  == {s \in active \ has : moved[s] = Len(market[s].magnifier)}
        waits == (active \ has) \ over
    IN  /\ pc = "magnify"
        /\ openTime' = open /\ closeTime' = close
        /\ magnifier' = moved
        /\ mark' = [s \in Symbols |->
                      IF s \in waits THEN ProcessBarIndex(market[s].mark, Finest, mark[s], close)
                      ELSE mark[s]]
        /\ ExecuteTradingEnd(over)
        /\ trading' = [s \in Symbols |-> IF s \in over THEN trading[s] - 1 ELSE trading[s]]
        /\ active' = active \ over /\ checked' = has
        /\ pc' = "funding"
        /\ UNCHANGED <<data, barTimes, reference, began, funds>>

\* CheckFundingTime: at most one funding of each symbol, whether or not there is a
\* price to settle it at.
IsDueMutant(s) == /\ nextFunding[s] <= Len(market[s].fundings)
                  /\ openTime > market[s].fundings[nextFunding[s]]
IsDue(s) == /\ nextFunding[s] <= Len(market[s].fundings)
            /\ openTime >= market[s].fundings[nextFunding[s]]

CheckFundingTime ==
    /\ pc = "funding"
    /\ nextFunding' = [s \in Symbols |->
                         nextFunding[s] + IF s \in active /\ IsDue(s) THEN 1 ELSE 0]
    /\ \E liquidated \in SUBSET {s \in ordered \cap active : IsDue(s)} :
         ordered' = ordered \ liquidated
    /\ missed' = [s \in Symbols |-> missed[s] + IF s \in active THEN 0 ELSE 1]
    /\ pc' = "ohlc"
    /\ UNCHANGED <<data, times, indices, states, checked, closedOut>>

\* ProcessOhlc: the orders of a symbol may be filled, and AFTER strategies place
\* others; a symbol without any gets none.
ProcessOhlc ==
    /\ pc = "ohlc"
    /\ \E gone \in SUBSET (ordered \cap checked) : ordered' = ordered \ gone
    /\ IF useMagnifier /\ closeTime # barTimes.close
       THEN pc' = "magnify" /\ UNCHANGED times
       ELSE /\ pc' = "close"
            /\ IF useMagnifier
               THEN openTime' = barTimes.open /\ closeTime' = barTimes.close /\ UNCHANGED barTimes
               ELSE UNCHANGED times
    /\ checked' = {}
    /\ UNCHANGED <<data, indices, states, closedOut, funds>>

\* ON_CLOSE strategies, then one bar on.
Increased(s) == IF s \in active THEN trading[s] + 1 ELSE trading[s]

ExecuteOnClose ==
    /\ pc = "close"
    /\ \E S \in SUBSET active : ordered' = (ordered \ active) \cup S
    /\ trading' = [s \in Symbols |-> Increased(s)]
    /\ openTime' = openTime + TradingDiff /\ closeTime' = closeTime + TradingDiff
    /\ pc' = "update"
    /\ UNCHANGED <<data, barTimes, reference, magnifier, mark, states, checked, closedOut, funds>>

-----------------------------------------------------------------------------
(* IsValidDateRange, InitializeEngine and InitializeSymbolInfo.            *)

FirstOpen(s) == market[s].trading[1]
LastClose(s) == market[s].trading[Len(market[s].trading)] + TradingDiff

\* The first funding of the period; those before it are skipped.
FirstFunding(s) ==
    Min({Len(market[s].fundings) + 1} \cup
        {i \in DOMAIN market[s].fundings : market[s].fundings[i] \in period.begin..period.end - 1})

InitialTrading(s) ==
    ProcessBarIndex(market[s].trading, TradingDiff, 1, period.begin + TradingDiff)

Init ==
    /\ \E b \in Backtests :
         market = b.market /\ period = b.period /\ useMagnifier = b.useMagnifier
    /\ period.begin >= Min({FirstOpen(s) : s \in Symbols})
    /\ period.end <= Max({LastClose(s) : s \in Symbols})
    /\ openTime = period.begin /\ closeTime = period.begin + TradingDiff
    /\ barTimes = [open |-> period.begin, close |-> period.begin + TradingDiff]
    /\ trading = [s \in Symbols |-> InitialTrading(s)]
    /\ reference = [s \in Symbols |-> 1] /\ magnifier = [s \in Symbols |-> 1]
    /\ mark = [s \in Symbols |-> IF useMagnifier THEN 1
                                 ELSE ProcessBarIndex(market[s].mark, Finest, 1, closeTime)]
    /\ began = {s \in Symbols : market[s].trading[trading[s]] = period.begin}
    /\ ended = {} /\ active = {} /\ checked = {}
    /\ nextFunding = [s \in Symbols |-> FirstFunding(s)]
    /\ ordered = {} /\ closedOut = {} /\ missed = [s \in Symbols |-> 0]
    /\ pc = "update"

Stopped == pc = "done" /\ UNCHANGED vars

Engine ==
    \/ UpdateTradingStatus \/ ExecuteAllTradingEnd \/ EveryoneEnded
    \/ TradingBar \/ EnterMagnifier \/ MagnifierBar
    \/ CheckFundingTime \/ ProcessOhlc \/ ExecuteOnClose

Next == Engine \/ Stopped

Spec == Init /\ [][Next]_vars
-----------------------------------------------------------------------------
(* Indicators of the higher timeframe, as the strategies read them.        *)

\* operator[]: from the index of the reference bar back, then forward, to the last
\* bar that had closed at the close of the trading bar asked for; 0 is NaN.
Backwards(s, target) ==
    Max({1} \cup {j \in 1..reference[s] : market[s].reference[j] + ReferenceDiff <= target})

ReferenceRead(s, bar) ==
    LET target == market[s].trading[bar] + TradingDiff
        back   == Backwards(s, target)
    IN  IF market[s].reference[back] + ReferenceDiff > target THEN 0
        ELSE ProcessBarIndex(market[s].reference, ReferenceDiff, back, target)

\* The bars back a strategy may read: AFTER strategies, which run in the middle of
\* a bar, not the bar itself.
FirstReadableMutant(s) == trading[s]
FirstReadable(s) == IF pc = "ohlc" THEN trading[s] - 1 ELSE trading[s]

Readers == IF pc = "close" THEN active ELSE IF pc = "ohlc" THEN checked ELSE {}

-----------------------------------------------------------------------------
(* Properties.                                                             *)

\* Whenever the status of the symbols is looked at, one that trades stands at its
\* first bar that opens now or later: over missing bars, late references and a
\* late magnifier it neither falls behind the clock, from where it never returns,
\* nor runs ahead of it.
OnItsBar ==
    pc = "update" =>
        \A s \in began \ ended : \A i \in DOMAIN market[s].trading :
            i < trading[s] <=> market[s].trading[i] < openTime

\* What a strategy reads of the higher timeframe had closed by the time it runs,
\* is the latest that had closed at the bar it asks for, and is there for the bar
\* that closes now.
ReadsThePast ==
    \A s \in Readers : \A bar \in 1..FirstReadable(s) :
        LET read   == ReferenceRead(s, bar)
            target == market[s].trading[bar] + TradingDiff
            closed == {j \in DOMAIN market[s].reference :
                          market[s].reference[j] + ReferenceDiff <= target}
        IN  /\ read = (IF closed = {} THEN 0 ELSE Max(closed))
            /\ read # 0 => market[s].reference[read] + ReferenceDiff <=
                              IF pc = "close" THEN closeTime ELSE openTime
            /\ bar = trading[s] => read # 0

\* What a symbol still has when it ends is closed at a bar of its data: the step
\* back to the bar before is never made from the first one.
ClosedAtABar ==
    \A s \in closedOut : trading[s] \in DOMAIN market[s].trading

\* The fundings due by now that are not settled.
Owed(s) == {i \in DOMAIN market[s].fundings :
              i >= nextFunding[s] /\ market[s].fundings[i] <= openTime}

\* One funding is settled at a time: a symbol that trades owes no more fundings than
\* steps were missed, and none if it missed none.
FundingsCatchUp ==
    pc = "ohlc" => \A s \in active : Cardinality(Owed(s)) <= missed[s]

\* The prices of a step are read at the bar of the mark price that opens with it, if
\* the data have one ("because the Close Time is matched before ProcessOhlc is
\* called, the Open Time must match if there are data").
MarkMatched ==
    pc = "ohlc" => \A s \in checked : \A i \in DOMAIN market[s].mark :
        market[s].mark[i] = openTime => mark[s] = i

\* Trading of a symbol ends once the last reference bar is older than its timeframe
\* ("once the timeframe has passed since the last reference bar it can no longer be
\* used, so that trading of the symbol ends").
StaleEnds ==
    pc = "close" => \A s \in active :
        LET last == market[s].reference[Len(market[s].reference)] + ReferenceDiff
        IN  closeTime < last + ReferenceDiff
=============================================================================
