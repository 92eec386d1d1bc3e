--------------------------- MODULE BarClock_proofs ---------------------------
(***************************************************************************)
(* Proofs about BarClock, for any symbols, timeframes and data in order.   *)
(***************************************************************************)
EXTENDS BarClock, SequenceTheorems, FiniteSetTheorems, WellFoundedInduction, TLAPS

-----------------------------------------------------------------------------
(* The inductive invariant.                                                *)

\* Two instants a whole number of trading bars apart.
OnGrid(a, b) == \E k \in Int : b - a = k * TradingDiff

\* The steps of the magnifier's loop, or of a trading bar without it.
InBar == {"funding", "ohlc"}

\* The trading bar the clock is in.
BarOpen == IF useMagnifier /\ pc \in InBar \cup {"magnify"} THEN barTimes.open ELSE openTime

DataOK ==
    /\ useMagnifier \in BOOLEAN /\ period.begin \in Int /\ period.end \in Int
    /\ \A s \in Symbols : InOrder(market[s], Finest)

\* In the magnifier's loop the clock counts magnifier bars, from one before the
\* trading bar; everywhere else it stands at a trading bar.
TimesOK ==
    /\ pc \in InBar \cup {"update", "updated", "magnify", "close", "done"}
    /\ openTime \in Int /\ closeTime \in Int /\ barTimes \in [open : Int, close : Int]
    /\ pc = "magnify" => useMagnifier
    /\ IF useMagnifier /\ pc \in InBar \cup {"magnify"}
       THEN /\ closeTime = openTime + 1 /\ barTimes.close = barTimes.open + TradingDiff
            /\ openTime >= (IF pc = "magnify" THEN barTimes.open - 1 ELSE barTimes.open)
       ELSE closeTime = openTime + TradingDiff

TypesOK ==
    /\ trading \in [Symbols -> Int] /\ reference \in [Symbols -> Nat]
    /\ nextFunding \in [Symbols -> Nat \ {0}] /\ missed \in [Symbols -> Nat]
    /\ began \subseteq Symbols /\ ended \subseteq Symbols /\ closedOut \subseteq ended
    /\ active \subseteq Symbols /\ ordered \subseteq began \ ended
    /\ checked \subseteq active /\ (pc \notin InBar => checked = {})
    /\ pc # "done" => active \subseteq began \ ended
    /\ \A s \in Symbols : reference[s] \in DOMAIN market[s].reference

\* The bars of s before the one it stands at are those that opened before time.
StandsAt(s, time) ==
    \A i \in DOMAIN market[s].trading : i < trading[s] <=> market[s].trading[i] < time

\* A symbol that trades is on the clock's grid, one past its last bar at most: at
\* its first bar from now on when the statuses are updated; later in the bar at
\* this bar if it is active, and otherwise already at the first of those to come.
PlacesOK ==
    /\ \A s \in began \ ended :
          /\ trading[s] \in 1..Len(market[s].trading) + 1
          /\ \A i \in DOMAIN market[s].trading : OnGrid(market[s].trading[i], BarOpen)
          /\ pc = "update" => StandsAt(s, openTime)
          /\ pc \notin {"update", "done"} /\ s \notin active => StandsAt(s, BarOpen + TradingDiff)
    /\ pc \notin {"update", "done"} => \A s \in active :
          /\ trading[s] \in DOMAIN market[s].trading
          /\ market[s].trading[trading[s]] = BarOpen
          /\ market[s].reference[reference[s]] + ReferenceDiff <= BarOpen + TradingDiff

\* A symbol has orders only after its first bar, and what it had when it ended was
\* closed at a bar.
OrderedOK ==
    /\ \A s \in ordered : trading[s] >= 2
    /\ \A s \in closedOut : trading[s] \in DOMAIN market[s].trading

\* The last instant the fundings were looked at.
LastLook ==
    IF pc \in {"ohlc", "magnify"} THEN openTime
    ELSE IF pc = "close" THEN closeTime - Finest ELSE openTime - Finest

\* No more fundings than steps missed were due by then and not settled.
FundsOK ==
    pc # "done" => \A s \in Symbols : \A i \in DOMAIN market[s].fundings :
        i >= nextFunding[s] + missed[s] => market[s].fundings[i] > LastLook

IInv == DataOK /\ TimesOK /\ TypesOK /\ PlacesOK /\ OrderedOK /\ FundsOK

-----------------------------------------------------------------------------
(* Least and greatest elements, and the last bar that has closed.          *)

\* Every nonempty set of naturals has a least element.
LEMMA LeastNat ==
    ASSUME NEW T, T \subseteq Nat, T # {}
    PROVE  \E x \in T : \A y \in T : x <= y
<1>1. PICK x \in T : \A y \in T : ~(<<y, x>> \in OpToRel(<, Nat))
  <2>1. IsWellFoundedOn(OpToRel(<, Nat), Nat)
    BY NatLessThanWellFounded, Zenon
  <2> QED BY <2>1, WFMin, Zenon
<1>2. ASSUME NEW y \in T PROVE x <= y
  <2>1. <<y, x>> \notin OpToRel(<, Nat)
    BY <1>1
  <2>2. x \in Nat /\ y \in Nat
    OBVIOUS
  <2>3. ~(y < x)
    BY <2>1, <2>2 DEF OpToRel
  <2> QED BY <2>2, <2>3
<1> QED BY <1>2

\* The least of a nonempty set of naturals.
LEMMA MinOK ==
    ASSUME NEW S, S \subseteq Nat, S # {}
    PROVE  Min(S) \in S /\ \A y \in S : Min(S) <= y
<1>1. \E x \in S : \A y \in S : x =< y
  BY LeastNat
<1> QED BY <1>1 DEF Min

\* The greatest of a nonempty set of naturals that has a bound.
LEMMA MaxOK ==
    ASSUME NEW S, S \subseteq Nat, S # {}, NEW n \in Nat, \A y \in S : y <= n
    PROVE  Max(S) \in S /\ \A y \in S : y <= Max(S)
<1> DEFINE T == {n - y : y \in S}
<1>1. T \subseteq Nat /\ T # {}
  <2>1. \A y \in S : y \in Nat /\ n - y \in Nat
    OBVIOUS
  <2> QED BY <2>1
<1>2. PICK t \in T : \A u \in T : t <= u
  <2> HIDE DEF T
  <2> QED BY <1>1, LeastNat
<1>3. PICK x \in S : t = n - x
  OBVIOUS
<1>4. ASSUME NEW y \in S PROVE x >= y
  <2>1. n - x <= n - y
    BY <1>2, <1>3
  <2> QED BY <1>3, <2>1
<1>5. \E z \in S : \A y \in S : z >= y
  BY <1>4
<1>6. Max(S) \in S /\ \A y \in S : Max(S) >= y
  BY <1>5 DEF Max
<1> QED BY <1>6

\* ProcessBarIndex moves forward to the last bar that has closed at the target, if
\* that is ahead.
LEMMA ProcessBarIndexOK ==
    ASSUME NEW bars \in Seq(Int), NEW diff, NEW i \in Nat, NEW target
    PROVE  LET r == ProcessBarIndex(bars, diff, i, target)
           IN  /\ r \in Nat /\ r >= i
               /\ r = i \/ (r \in i + 1..Len(bars) /\ bars[r] + diff <= target)
               /\ \A j \in i + 1..Len(bars) : bars[j] + diff <= target => j <= r
<1>1. Len(bars) \in Nat
  BY LenProperties
<1> DEFINE S == {i} \cup {j \in i + 1..Len(bars) : bars[j] + diff <= target}
<1>2. S \subseteq Nat /\ i \in S /\ \A y \in S : y <= i + Len(bars)
  BY <1>1
<1>3. Max(S) \in S /\ \A y \in S : y <= Max(S)
  <2>1. i + Len(bars) \in Nat
    BY <1>1
  <2> HIDE DEF S
  <2>2. S # {}
    BY <1>2
  <2> QED BY <1>2, <2>1, <2>2, MaxOK
<1>4. ProcessBarIndex(bars, diff, i, target) = Max(S)
  BY DEF ProcessBarIndex
<1>5. PICK r : r = Max(S)
  OBVIOUS
<1>6. r \in Nat /\ r \in S /\ \A y \in S : y <= r
  <2> HIDE DEF S
  <2> QED BY <1>2, <1>3, <1>5
<1> QED BY <1>1, <1>2, <1>4, <1>5, <1>6

\* It stays within the bars.
LEMMA ProcessBarIndexIn ==
    ASSUME NEW bars \in Seq(Int), NEW diff, NEW i \in DOMAIN bars, NEW target
    PROVE  ProcessBarIndex(bars, diff, i, target) \in DOMAIN bars
<1>1. Len(bars) \in Nat /\ DOMAIN bars = 1..Len(bars) /\ i \in Nat
  BY LenProperties
<1> QED BY <1>1, ProcessBarIndexOK

-----------------------------------------------------------------------------
(* The grid of trading bars.                                               *)

\* Instants on the grid that differ are a bar apart at least.
LEMMA GridApart ==
    ASSUME NEW a \in Int, NEW b \in Int, OnGrid(a, b)
    PROVE  (a < b => a + TradingDiff <= b) /\ (b < a => b + TradingDiff <= a)
<1>1. PICK k \in Int : b - a = k * TradingDiff
  BY DEF OnGrid
<1>2. TradingDiff \in Nat /\ TradingDiff > 0
  BY ClockAssumption
<1>3. PICK d \in Nat : d = TradingDiff /\ d > 0
  BY <1>2
<1>4. b - a = k * d
  BY <1>1, <1>3
<1>5. k >= 1 => k * d >= d
  BY <1>3
<1>6. k <= -1 => k * d <= -d
  BY <1>3
<1>7. k = 0 => k * d = 0
  BY <1>3
<1> QED BY <1>3, <1>4, <1>5, <1>6, <1>7

\* A time on the grid of the trading bars is followed by one on it.
LEMMA GridNext ==
    ASSUME NEW a \in Int, NEW b \in Int, OnGrid(a, b)
    PROVE  OnGrid(a, b + TradingDiff)
<1>1. PICK k \in Int : b - a = k * TradingDiff
  BY DEF OnGrid
<1>2. TradingDiff \in Int
  BY ClockAssumption
<1>3. (b + TradingDiff) - a = (k + 1) * TradingDiff
  BY <1>1, <1>2
<1> QED BY <1>3 DEF OnGrid

\* The trading bars of a symbol are on one grid, in order.
LEMMA TradingGrid ==
    ASSUME DataOK, NEW s \in Symbols, NEW i \in DOMAIN market[s].trading,
           NEW j \in DOMAIN market[s].trading
    PROVE  /\ market[s].trading[i] \in Int /\ OnGrid(market[s].trading[i], market[s].trading[j])
           /\ i \in Nat /\ (i < j <=> market[s].trading[i] < market[s].trading[j])
<1>1. PICK t : t = market[s].trading
  OBVIOUS
<1>2. /\ t \in Seq(Int)
      /\ \A h, l \in DOMAIN t : h < l => \E n \in 1..t[l] - t[h] : t[l] = t[h] + n * TradingDiff
  BY <1>1 DEF DataOK, InOrder
<1>3. \A h \in DOMAIN t : t[h] \in Int /\ h \in Nat
  BY <1>2, ElementOfSeq, LenProperties
<1>4. TradingDiff \in Int
  BY ClockAssumption
<1>5. ASSUME NEW h \in DOMAIN t, NEW l \in DOMAIN t, h < l
      PROVE  OnGrid(t[h], t[l]) /\ OnGrid(t[l], t[h]) /\ t[h] < t[l]
  <2>1. PICK n \in 1..t[l] - t[h] : t[l] = t[h] + n * TradingDiff
    BY <1>2, <1>5
  <2>2. t[h] \in Int /\ t[l] \in Int /\ n \in Int /\ -n \in Int
    BY <1>3, <2>1
  <2>3. t[l] - t[h] = n * TradingDiff /\ t[h] - t[l] = (-n) * TradingDiff
    BY <1>4, <2>1, <2>2
  <2>4. t[h] < t[l]
    BY <2>1, <2>2
  <2> QED BY <2>2, <2>3, <2>4 DEF OnGrid
<1>6. ASSUME NEW h \in DOMAIN t PROVE OnGrid(t[h], t[h])
  <2>1. t[h] - t[h] = 0 * TradingDiff
    BY <1>3, <1>4
  <2> QED BY <2>1 DEF OnGrid
<1>7. i \in Nat /\ j \in Nat /\ t[i] \in Int /\ t[j] \in Int /\ (i < j \/ i = j \/ j < i)
  BY <1>1, <1>3
<1> QED BY <1>1, <1>5, <1>6, <1>7

\* The bars up to the k-th are those that opened before the one after it can.
LEMMA AfterBar ==
    ASSUME DataOK, NEW s \in Symbols, NEW k \in DOMAIN market[s].trading
    PROVE  \A i \in DOMAIN market[s].trading :
              i < k + 1 <=> market[s].trading[i] < market[s].trading[k] + TradingDiff
<1>1. SUFFICES ASSUME NEW i \in DOMAIN market[s].trading
               PROVE  i < k + 1 <=> market[s].trading[i] < market[s].trading[k] + TradingDiff
  OBVIOUS
<1>2. PICK t : t = market[s].trading
  OBVIOUS
<1>3. /\ t[i] \in Int /\ t[k] \in Int /\ i \in Nat /\ k \in Nat /\ OnGrid(t[k], t[i])
      /\ (i < k <=> t[i] < t[k]) /\ (k < i <=> t[k] < t[i])
  BY <1>2, TradingGrid
<1>4. t[k] < t[i] => t[k] + TradingDiff <= t[i]
  BY <1>3, GridApart
<1>5. TradingDiff \in Nat /\ TradingDiff > 0
  BY ClockAssumption
<1> QED BY <1>2, <1>3, <1>4, <1>5

\* If the first bar from time on does not open at time, it opens a bar later at
\* least.
LEMMA BeforeBar ==
    ASSUME DataOK, NEW s \in Symbols, NEW k \in DOMAIN market[s].trading, NEW time \in Int,
           \A i \in DOMAIN market[s].trading : OnGrid(market[s].trading[i], time),
           \A i \in DOMAIN market[s].trading : i < k <=> market[s].trading[i] < time,
           market[s].trading[k] # time
    PROVE  \A i \in DOMAIN market[s].trading :
              i < k <=> market[s].trading[i] < time + TradingDiff
<1>1. SUFFICES ASSUME NEW i \in DOMAIN market[s].trading
               PROVE  i < k <=> market[s].trading[i] < time + TradingDiff
  OBVIOUS
<1>2. PICK t : t = market[s].trading
  OBVIOUS
<1>3. /\ t[i] \in Int /\ t[k] \in Int /\ i \in Nat /\ k \in Nat
      /\ (i < k <=> t[i] < t[k]) /\ (k < i <=> t[k] < t[i])
  BY <1>2, TradingGrid
<1>4. OnGrid(t[k], time) /\ (i < k <=> t[i] < time) /\ ~(t[k] < time) /\ t[k] # time
  BY <1>2, <1>3
<1>5. time + TradingDiff <= t[k]
  BY <1>3, <1>4, GridApart
<1>6. TradingDiff \in Nat /\ TradingDiff > 0
  BY ClockAssumption
<1>7. i = k \/ i < k \/ k < i
  BY <1>3
<1> QED BY <1>2, <1>3, <1>4, <1>5, <1>6, <1>7

\* The types of the timeframes.
LEMMA Diffs ==
    ASSUME DataOK
    PROVE  /\ TradingDiff \in Nat /\ TradingDiff > 0 /\ ReferenceDiff \in Nat
           /\ Finest \in Nat /\ Finest > 0 /\ Finest = IF useMagnifier THEN 1 ELSE TradingDiff
BY ClockAssumption DEF Finest, DataOK

-----------------------------------------------------------------------------
(* The status of a symbol.                                                 *)

\* A symbol ends, waits with a bar, is activated, or has no bar.
LEMMA StatusCases ==
    ASSUME DataOK, NEW s \in Symbols
    PROVE  \/ Over(s) /\ ~Activated(s) /\ StatusIndex(s) = trading[s] - 1
           \/ Late(s) /\ ~Over(s) /\ ~Activated(s) /\ HasBar(s) /\ StatusIndex(s) = trading[s] + 1
           \/ /\ Activated(s) /\ ~Over(s) /\ ~Late(s) /\ ReferenceUsable(s) /\ HasBar(s)
              /\ StatusIndex(s) = trading[s]
           \/ ~HasBar(s) /\ ~Over(s) /\ ~Late(s) /\ ~Activated(s) /\ StatusIndex(s) = trading[s]
<1>1. ReferenceUsable(s) <=> HasBar(s) /\ ~ReferenceLate(s) /\ ~ReferenceOver(s)
  BY DEF ReferenceUsable
<1>2. Late(s) <=> HasBar(s) /\ ( \/ ReferenceLate(s)
                                 \/ ReferenceUsable(s) /\ useMagnifier /\ MagnifierLate(s) )
  BY DEF Late
<1>3. Over(s) <=> \/ OutOfTradingBars(s)
                  \/ HasBar(s) /\ ~ReferenceLate(s) /\ ReferenceOver(s)
                  \/ ReferenceUsable(s) /\ useMagnifier /\ ~MagnifierLate(s) /\ MagnifierOver(s)
  BY DEF Over
<1>4. Activated(s) <=> /\ ReferenceUsable(s)
                       /\ useMagnifier => ~MagnifierLate(s) /\ ~MagnifierOver(s)
  BY DEF Activated
<1>5. ~(OutOfTradingBars(s) /\ HasBar(s))
  <2>1. SUFFICES ASSUME OutOfTradingBars(s), HasBar(s) PROVE FALSE
    OBVIOUS
  <2>2. PICK t : t = market[s].trading
    OBVIOUS
  <2>3. trading[s] = Len(t) + 1 /\ trading[s] \in DOMAIN t
    BY <2>1, <2>2 DEF OutOfTradingBars, HasBar, OpensNow
  <2>4. t \in Seq(Int)
    BY <2>2 DEF DataOK, InOrder
  <2> QED BY <2>3, <2>4, LenProperties
<1>6. \/ Over(s) /\ StatusIndex(s) = trading[s] - 1
      \/ ~Over(s) /\ Late(s) /\ StatusIndex(s) = trading[s] + 1
      \/ ~Over(s) /\ ~Late(s) /\ StatusIndex(s) = trading[s]
  <2>0. ~(Over(s) /\ Late(s))
    BY <1>1, <1>2, <1>3, <1>5, Zenon
  <2>1. CASE Over(s)
    BY <2>0, <2>1 DEF StatusIndex
  <2>2. CASE ~Over(s) /\ Late(s)
    BY <2>2 DEF StatusIndex
  <2>3. CASE ~Over(s) /\ ~Late(s)
    BY <2>3 DEF StatusIndex
  <2> QED BY <2>1, <2>2, <2>3, Zenon
<1> QED BY <1>1, <1>2, <1>3, <1>4, <1>5, <1>6, Zenon

\* Where the status leaves a symbol that trades on.
LEMMA StatusPlaces ==
    ASSUME DataOK, TimesOK, TypesOK, PlacesOK, pc = "update", NEW s \in Symbols, s \notin ended, ~Over(s),
           s \in began \/ HasBar(s)
    PROVE  LET t == market[s].trading
               k == StatusIndex(s)
           IN  /\ k \in 1..Len(t) + 1 /\ k >= trading[s]
               /\ \A i \in DOMAIN t : OnGrid(t[i], openTime)
               /\ Activated(s) => k \in DOMAIN t /\ t[k] = openTime
               /\ ~Activated(s) => \A i \in DOMAIN t : i < k <=> t[i] < openTime + TradingDiff
<1>1. PICK t : t = market[s].trading
  OBVIOUS
<1>2. t \in Seq(Int) /\ Len(t) \in Nat /\ DOMAIN t = 1..Len(t) /\ openTime \in Int /\ trading[s] \in Int
  BY <1>1, LenProperties DEF DataOK, InOrder, TimesOK, TypesOK
<1>3. BarOpen = openTime
  BY DEF BarOpen, InBar
<1>4. CASE HasBar(s)
  <2>1. trading[s] \in DOMAIN t /\ t[trading[s]] = openTime
    BY <1>1, <1>4 DEF HasBar, OpensNow
  <2>2. \A i \in DOMAIN t : OnGrid(t[i], openTime)
    BY <1>1, <2>1, TradingGrid
  <2>3. CASE Activated(s)
    <3>1. StatusIndex(s) = trading[s]
      BY <2>3, StatusCases
    <3> QED BY <1>1, <1>2, <2>1, <2>2, <2>3, <3>1
  <2>4. CASE ~Activated(s)
    <3>1. StatusIndex(s) = trading[s] + 1
      BY <1>4, <2>4, StatusCases
    <3>2. \A i \in DOMAIN t : i < trading[s] + 1 <=> t[i] < openTime + TradingDiff
      BY <1>1, <2>1, AfterBar
    <3> QED BY <1>1, <1>2, <2>1, <2>2, <2>4, <3>1, <3>2
  <2> QED BY <2>3, <2>4
<1>5. CASE ~HasBar(s)
  <2>1. StatusIndex(s) = trading[s] /\ ~Activated(s)
    BY <1>5, StatusCases
  <2>2. s \in began \ ended
    BY <1>5
  <2>3. /\ trading[s] \in 1..Len(t) + 1 /\ \A i \in DOMAIN t : OnGrid(t[i], openTime)
        /\ \A i \in DOMAIN t : i < trading[s] <=> t[i] < openTime
    BY <1>1, <1>3, <2>2 DEF PlacesOK, StandsAt
  <2>4. trading[s] # Len(t) + 1
    BY <1>1, <2>2 DEF Over, OutOfTradingBars
  <2>5. trading[s] \in DOMAIN t /\ t[trading[s]] # openTime
    BY <1>1, <1>2, <1>5, <2>3, <2>4 DEF HasBar, OpensNow
  <2>6. \A i \in DOMAIN t : i < trading[s] <=> t[i] < openTime + TradingDiff
    BY <1>1, <1>2, <2>3, <2>5, BeforeBar
  <2> QED BY <1>1, <1>2, <2>1, <2>3, <2>6
<1> QED BY <1>4, <1>5

-----------------------------------------------------------------------------
(* Every step keeps the invariant.                                         *)

\* What the data and the clock say does not depend on the rest.
LEMMA DataKept ==
    ASSUME DataOK, UNCHANGED data
    PROVE  DataOK' /\ market' = market /\ useMagnifier' = useMagnifier /\ Finest' = Finest
<1>1. market' = market /\ period' = period /\ useMagnifier' = useMagnifier
  BY DEF data
<1>2. Finest' = Finest
  BY <1>1 DEF Finest
<1> QED BY <1>1, <1>2 DEF DataOK

\* The data of a symbol.
LEMMA MarketOK ==
    ASSUME DataOK, NEW s \in Symbols
    PROVE  /\ market[s].trading \in Seq(Int) /\ market[s].reference \in Seq(Int)
           /\ market[s].fundings \in Seq(Int)
           /\ Len(market[s].trading) \in Nat /\ Len(market[s].fundings) \in Nat
           /\ DOMAIN market[s].trading = 1..Len(market[s].trading)
           /\ DOMAIN market[s].fundings = 1..Len(market[s].fundings)
           /\ \A i \in DOMAIN market[s].trading : market[s].trading[i] \in Int
           /\ \A i \in DOMAIN market[s].reference : market[s].reference[i] \in Int /\ i \in Nat
           /\ \A i \in DOMAIN market[s].fundings : market[s].fundings[i] \in Int
<1>1. /\ market[s].trading \in Seq(Int) /\ market[s].reference \in Seq(Int)
      /\ market[s].fundings \in Seq(Int)
  BY DEF DataOK, InOrder
<1> QED BY <1>1, LenProperties, ElementOfSeq

\* The reference bar a symbol is moved to is one of its data.
LEMMA ReferenceMoved ==
    ASSUME DataOK, TypesOK, NEW s \in Symbols
    PROVE  MovedReference(s) \in DOMAIN market[s].reference
BY MarketOK, ProcessBarIndexIn DEF TypesOK, MovedReference

\* A symbol that trades on stands at the bar that opens now, or waits at the one after
\* the gap; what an ending symbol had is closed at a bar it has.
LEMMA UpdateStep ==
    ASSUME IInv, UpdateTradingStatus
    PROVE  IInv'
<1> USE DEF IInv
<1>1. DataOK' /\ market' = market /\ useMagnifier' = useMagnifier /\ Finest' = Finest
  BY DataKept DEF UpdateTradingStatus
<1>2. /\ pc = "update" /\ pc' = "updated"
      /\ openTime' = openTime /\ closeTime' = closeTime /\ barTimes' = barTimes
      /\ trading' = [s \in Symbols |-> StatusIndex(s)]
      /\ reference' = [s \in Symbols |-> IF HasBar(s) THEN MovedReference(s) ELSE reference[s]]
      /\ began' = began \cup {s \in Symbols : HasBar(s)}
      /\ active' = {s \in Symbols : Activated(s)}
      /\ ended' = ended \cup {s \in Symbols : Over(s)}
      /\ ordered' = ordered \ {s \in Symbols : Over(s)}
      /\ closedOut' = closedOut \cup (ordered \cap {s \in Symbols : Over(s)})
      /\ checked' = checked /\ nextFunding' = nextFunding /\ missed' = missed
  BY DEF UpdateTradingStatus, ExecuteTradingEnd, times, funds
<1>3. BarOpen = openTime /\ BarOpen' = openTime /\ openTime \in Int /\ closeTime = openTime + TradingDiff
  BY <1>2 DEF BarOpen, InBar, TimesOK
<1>4. \A s \in Symbols : trading[s] \in Int /\ reference[s] \in Nat
  BY DEF TypesOK
<1>5. TimesOK'
  BY <1>1, <1>2, <1>3 DEF TimesOK, InBar
<1>6. TypesOK'
  <2>1. \A s \in Symbols : StatusIndex(s) \in Int
    BY <1>4, StatusCases
  <2>2. \A s \in Symbols : MovedReference(s) \in DOMAIN market[s].reference
    BY ReferenceMoved
  <2>3. \A s \in Symbols : MovedReference(s) \in Nat
    BY <2>2, MarketOK
  <2>4. trading' \in [Symbols -> Int] /\ reference' \in [Symbols -> Nat]
    BY <1>2, <1>4, <2>1, <2>3
  <2>5. \A s \in Symbols : reference'[s] \in DOMAIN market'[s].reference
    BY <1>1, <1>2, <2>2 DEF TypesOK
  <2>6. \A s \in Symbols : Activated(s) => HasBar(s) /\ s \notin ended /\ ~Over(s)
    BY StatusCases DEF HasBar
  <2>7. active' \subseteq began' \ ended'
    BY <1>2, <2>6
  <2>8. checked' = {}
    BY <1>2 DEF TypesOK, InBar
  <2> QED BY <1>2, <2>4, <2>5, <2>7, <2>8 DEF TypesOK
<1>7. PlacesOK'
  <2>1. ASSUME NEW s \in began' \ ended'
        PROVE  /\ trading'[s] \in 1..Len(market'[s].trading) + 1
               /\ \A i \in DOMAIN market'[s].trading : OnGrid(market'[s].trading[i], BarOpen')
               /\ s \notin active' => StandsAt(s, BarOpen + TradingDiff)'
    <3>1. s \in Symbols /\ s \notin ended /\ ~Over(s) /\ (s \in began \/ HasBar(s))
      BY <1>2 DEF TypesOK
    <3>2. trading'[s] = StatusIndex(s) /\ (s \in active' <=> Activated(s))
      BY <1>2, <3>1
    <3>3. PICK t : t = market[s].trading
      OBVIOUS
    <3>4. /\ StatusIndex(s) \in 1..Len(t) + 1 /\ \A i \in DOMAIN t : OnGrid(t[i], openTime)
          /\ ~Activated(s) => \A i \in DOMAIN t : i < StatusIndex(s) <=> t[i] < openTime + TradingDiff
      BY <1>2, <3>1, <3>3, StatusPlaces
    <3>5. (BarOpen + TradingDiff)' = openTime + TradingDiff
      BY <1>3
    <3> QED BY <1>1, <1>3, <3>2, <3>3, <3>4, <3>5 DEF StandsAt
  <2>2. ASSUME NEW s \in active'
        PROVE  /\ trading'[s] \in DOMAIN market'[s].trading
               /\ market'[s].trading[trading'[s]] = BarOpen'
               /\ market'[s].reference[reference'[s]] + ReferenceDiff <= BarOpen' + TradingDiff
    <3>1. s \in Symbols /\ Activated(s)
      BY <1>2
    <3>2. ~Over(s) /\ HasBar(s) /\ ReferenceUsable(s) /\ s \notin ended
      BY <3>1, StatusCases DEF HasBar
    <3>3. trading'[s] = StatusIndex(s) /\ reference'[s] = MovedReference(s)
      BY <1>2, <3>1, <3>2
    <3>4. StatusIndex(s) \in DOMAIN market[s].trading /\ market[s].trading[StatusIndex(s)] = openTime
      BY <1>2, <3>1, <3>2, StatusPlaces
    <3>5. ReferenceClose(s) \in Int /\ ~(ReferenceClose(s) > closeTime)
      <4>1. MovedReference(s) \in DOMAIN market[s].reference
        BY <3>1, ReferenceMoved
      <4>2. market[s].reference[MovedReference(s)] \in Int
        BY <3>1, <4>1, MarketOK
      <4> QED BY <3>2, <4>2, Diffs DEF ReferenceUsable, ReferenceLate, ReferenceClose
    <3>6. ReferenceClose(s) <= openTime + TradingDiff
      BY <1>3, <3>5, Diffs
    <3> QED BY <1>1, <1>3, <3>3, <3>4, <3>6 DEF ReferenceClose
  <2> QED BY <1>2, <2>1, <2>2 DEF PlacesOK
<1>8. OrderedOK'
  <2>1. ASSUME NEW s \in ordered' PROVE trading'[s] >= 2
    <3>1. s \in ordered /\ s \in Symbols /\ s \in began /\ s \notin ended /\ ~Over(s)
      BY <1>2, <2>1 DEF TypesOK
    <3>2. StatusIndex(s) >= trading[s] /\ StatusIndex(s) \in Int
      BY <1>2, <1>4, <3>1, StatusPlaces, StatusCases
    <3>3. trading[s] >= 2
      BY <3>1 DEF OrderedOK
    <3> QED BY <1>2, <1>4, <3>1, <3>2, <3>3
  <2>2. ASSUME NEW s \in closedOut' PROVE trading'[s] \in DOMAIN market'[s].trading
    <3>1. CASE s \in closedOut
      <4>1. s \in Symbols /\ s \in ended
        BY <3>1 DEF TypesOK
      <4>2. ~HasBar(s) /\ ~Over(s)
        BY <4>1 DEF HasBar, Over, OutOfTradingBars, ReferenceUsable
      <4>3. StatusIndex(s) = trading[s]
        BY <4>1, <4>2, StatusCases
      <4> QED BY <1>1, <1>2, <3>1, <4>1, <4>3 DEF OrderedOK
    <3>2. CASE s \notin closedOut
      <4>1. s \in ordered /\ s \in Symbols /\ Over(s) /\ s \in began \ ended
        BY <1>2, <3>2 DEF TypesOK
      <4>2. trading[s] >= 2 /\ trading[s] \in 1..Len(market[s].trading) + 1
        BY <4>1 DEF OrderedOK, PlacesOK
      <4>3. trading'[s] = trading[s] - 1
        BY <1>2, <4>1, StatusCases
      <4> QED BY <1>1, <4>1, <4>2, <4>3, MarketOK
    <3> QED BY <3>1, <3>2
  <2> QED BY <2>1, <2>2 DEF OrderedOK
<1>9. FundsOK'
  BY <1>1, <1>2 DEF FundsOK, LastLook
<1> QED BY <1>1, <1>5, <1>6, <1>7, <1>8, <1>9

\* A trading bar without the magnifier is one step, which leaves every symbol's place alone.
LEMMA TradingBarStep ==
    ASSUME IInv, TradingBar
    PROVE  IInv'
<1> USE DEF IInv
<1>1. DataOK' /\ market' = market /\ useMagnifier' = useMagnifier /\ Finest' = Finest
  BY DataKept DEF TradingBar
<1>2. /\ pc = "updated" /\ ~useMagnifier /\ pc' = "funding" /\ checked' = active
      /\ openTime' = openTime /\ closeTime' = closeTime /\ barTimes' = barTimes
      /\ trading' = trading /\ reference' = reference
      /\ began' = began /\ ended' = ended /\ active' = active
      /\ ordered' = ordered /\ closedOut' = closedOut
      /\ nextFunding' = nextFunding /\ missed' = missed
  BY DEF TradingBar, times, states, closing, funds
<1>3. BarOpen' = BarOpen
  BY <1>1, <1>2 DEF BarOpen
<1>4. TimesOK' /\ TypesOK'
  BY <1>1, <1>2 DEF TimesOK, TypesOK, InBar
<1>5. PlacesOK'
  BY <1>1, <1>2, <1>3 DEF PlacesOK, StandsAt
<1>6. OrderedOK' /\ FundsOK'
  BY <1>1, <1>2 DEF OrderedOK, FundsOK, LastLook
<1> QED BY <1>1, <1>4, <1>5, <1>6

\* The clock enters the magnifier's loop one magnifier bar before the trading bar.
LEMMA EnterMagnifierStep ==
    ASSUME IInv, EnterMagnifier
    PROVE  IInv'
<1> USE DEF IInv
<1>1. DataOK' /\ market' = market /\ useMagnifier' = useMagnifier /\ Finest' = Finest
  BY DataKept DEF EnterMagnifier
<1>2. /\ pc = "updated" /\ useMagnifier /\ pc' = "magnify" /\ checked' = checked
      /\ barTimes' = [open |-> openTime, close |-> closeTime]
      /\ openTime' = openTime - Finest /\ closeTime' = openTime
      /\ trading' = trading /\ reference' = reference
      /\ began' = began /\ ended' = ended /\ active' = active
      /\ ordered' = ordered /\ closedOut' = closedOut
      /\ nextFunding' = nextFunding /\ missed' = missed
  BY DEF EnterMagnifier, indices, states, closing, funds
<1>3. Finest = 1 /\ openTime \in Int /\ closeTime = openTime + TradingDiff
  BY <1>2, Diffs DEF TimesOK, InBar
<1>4. BarOpen = openTime /\ BarOpen' = openTime
  BY <1>1, <1>2 DEF BarOpen, InBar
<1>5. TimesOK'
  BY <1>1, <1>2, <1>3, Diffs DEF TimesOK, InBar
<1>6. TypesOK'
  BY <1>1, <1>2 DEF TypesOK, InBar
<1>7. PlacesOK'
  BY <1>1, <1>2, <1>4 DEF PlacesOK, StandsAt
<1>8. OrderedOK' /\ FundsOK'
  BY <1>1, <1>2 DEF OrderedOK, FundsOK, LastLook
<1> QED BY <1>1, <1>5, <1>6, <1>7, <1>8

\* A magnifier bar: some symbols end in the middle of the trading bar they stand at.
LEMMA MagnifierBarStep ==
    ASSUME IInv, MagnifierBar
    PROVE  IInv'
<1> USE DEF IInv
<1>1. DataOK' /\ market' = market /\ useMagnifier' = useMagnifier /\ Finest' = Finest
  BY DataKept DEF MagnifierBar
<1>2. PICK over, has :
      /\ over \subseteq active /\ has \subseteq active /\ has \cap over = {}
      /\ pc = "magnify" /\ pc' = "funding"
      /\ openTime' = openTime + Finest /\ closeTime' = closeTime + Finest /\ barTimes' = barTimes
      /\ trading' = [s \in Symbols |-> IF s \in over THEN trading[s] - 1 ELSE trading[s]]
      /\ reference' = reference /\ began' = began
      /\ active' = active \ over /\ checked' = has
      /\ ended' = ended \cup over /\ ordered' = ordered \ over
      /\ closedOut' = closedOut \cup (ordered \cap over)
      /\ nextFunding' = nextFunding /\ missed' = missed
  <2> DEFINE moved == [s \in Symbols |->
                         IF s \in active
                         THEN ProcessBarIndex(market[s].magnifier, Finest, magnifier[s], closeTime + Finest)
                         ELSE magnifier[s]]
             has == {s \in active : market[s].magnifier[moved[s]] + Finest = closeTime + Finest}
             over == {s \in active \ has : moved[s] = Len(market[s].magnifier)}
  <2>1. over \subseteq active /\ has \subseteq active /\ has \cap over = {}
    OBVIOUS
  <2>2. /\ pc = "magnify" /\ pc' = "funding"
        /\ openTime' = openTime + Finest /\ closeTime' = closeTime + Finest /\ barTimes' = barTimes
        /\ trading' = [s \in Symbols |-> IF s \in over THEN trading[s] - 1 ELSE trading[s]]
        /\ reference' = reference /\ began' = began
        /\ active' = active \ over /\ checked' = has
        /\ ExecuteTradingEnd(over)
        /\ nextFunding' = nextFunding /\ missed' = missed
    BY Zenon DEF MagnifierBar, funds
  <2> HIDE DEF over, has, moved
  <2>3. /\ ended' = ended \cup over /\ ordered' = ordered \ over
        /\ closedOut' = closedOut \cup (ordered \cap over)
    BY <2>2 DEF ExecuteTradingEnd
  <2> QED BY <2>1, <2>2, <2>3
<1>3. useMagnifier /\ Finest = 1 /\ openTime \in Int
  BY <1>2, Diffs DEF TimesOK
<1>4. BarOpen = barTimes.open /\ BarOpen' = barTimes.open
  BY <1>1, <1>2, <1>3 DEF BarOpen, InBar
<1>5. TimesOK'
  BY <1>1, <1>2, <1>3 DEF TimesOK, InBar
<1>6. TypesOK'
  <2>1. trading' \in [Symbols -> Int] /\ active \subseteq began \ ended
    BY <1>2 DEF TypesOK
  <2> QED BY <1>1, <1>2, <2>1 DEF TypesOK, InBar
<1>7. PlacesOK'
  <2>1. \A s \in began \ ended' : s \in began \ ended /\ s \in Symbols /\ trading'[s] = trading[s]
                                  /\ (s \in active' <=> s \in active)
    BY <1>2 DEF TypesOK
  <2>2. \A s \in active' : s \in active /\ trading'[s] = trading[s]
    BY <1>2 DEF TypesOK
  <2> QED BY <1>1, <1>2, <1>4, <2>1, <2>2 DEF PlacesOK, StandsAt
<1>8. OrderedOK'
  <2>1. \A s \in ordered' : s \in ordered /\ s \in Symbols /\ trading'[s] = trading[s]
    BY <1>2 DEF TypesOK
  <2>2. ASSUME NEW s \in closedOut' PROVE trading'[s] \in DOMAIN market[s].trading
    <3>1. CASE s \in closedOut
      <4>1. s \in Symbols /\ s \notin over
        BY <1>2, <3>1 DEF TypesOK
      <4> QED BY <1>2, <3>1, <4>1 DEF OrderedOK
    <3>2. CASE s \notin closedOut
      <4>1. s \in over /\ s \in ordered /\ s \in Symbols /\ s \in active
        BY <1>2, <3>2 DEF TypesOK
      <4>2. trading[s] >= 2 /\ trading[s] \in DOMAIN market[s].trading
        BY <1>2, <4>1 DEF OrderedOK, PlacesOK
      <4>3. trading'[s] = trading[s] - 1
        BY <1>2, <4>1
      <4> QED BY <4>1, <4>2, <4>3, MarketOK
    <3> QED BY <3>1, <3>2
  <2> QED BY <1>1, <2>1, <2>2 DEF OrderedOK
<1>9. FundsOK'
  <2>1. LastLook' = LastLook
    BY <1>1, <1>2, <1>3 DEF LastLook
  <2> QED BY <1>1, <1>2, <2>1 DEF FundsOK
<1> QED BY <1>1, <1>5, <1>6, <1>7, <1>8, <1>9

\* Of the fundings that fall due in a step one is settled, or the step is missed.
LEMMA CheckFundingTimeStep ==
    ASSUME IInv, CheckFundingTime
    PROVE  IInv'
<1> USE DEF IInv
<1>1. DataOK' /\ market' = market /\ useMagnifier' = useMagnifier /\ Finest' = Finest
  BY DataKept DEF CheckFundingTime
<1>2. /\ pc = "funding" /\ pc' = "ohlc" /\ checked' = checked
      /\ openTime' = openTime /\ closeTime' = closeTime /\ barTimes' = barTimes
      /\ trading' = trading /\ reference' = reference
      /\ began' = began /\ ended' = ended /\ active' = active
      /\ ordered' \subseteq ordered /\ closedOut' = closedOut
      /\ nextFunding' = [s \in Symbols |-> nextFunding[s] + IF s \in active /\ IsDue(s) THEN 1 ELSE 0]
      /\ missed' = [s \in Symbols |-> missed[s] + IF s \in active THEN 0 ELSE 1]
  BY DEF CheckFundingTime, times, indices, states
<1>3. BarOpen' = BarOpen
  BY <1>1, <1>2 DEF BarOpen, InBar
<1>4. TimesOK'
  BY <1>1, <1>2 DEF TimesOK, InBar
<1>5. TypesOK'
  <2>1. nextFunding' \in [Symbols -> Nat \ {0}] /\ missed' \in [Symbols -> Nat]
    BY <1>2 DEF TypesOK
  <2> QED BY <1>1, <1>2, <2>1 DEF TypesOK, InBar
<1>6. PlacesOK'
  BY <1>1, <1>2, <1>3 DEF PlacesOK, StandsAt
<1>7. OrderedOK'
  BY <1>1, <1>2 DEF OrderedOK
<1>8. FundsOK'
  <2>1. SUFFICES ASSUME NEW s \in Symbols, NEW i \in DOMAIN market[s].fundings,
                        i >= nextFunding'[s] + missed'[s]
                 PROVE  market[s].fundings[i] > openTime
    BY <1>1, <1>2 DEF FundsOK, LastLook
  <2>2. PICK f : f = market[s].fundings
    OBVIOUS
  <2>3. /\ Len(f) \in Nat /\ DOMAIN f = 1..Len(f) /\ i \in 1..Len(f)
        /\ \A j \in 1..Len(f) : f[j] \in Int
        /\ openTime \in Int /\ Finest \in Nat
        /\ nextFunding[s] \in Nat /\ nextFunding[s] >= 1 /\ missed[s] \in Nat
    <3>1. Len(f) \in Nat /\ DOMAIN f = 1..Len(f) /\ \A j \in 1..Len(f) : f[j] \in Int
      BY <2>2, MarketOK
    <3>2. nextFunding[s] \in Nat \ {0} /\ missed[s] \in Nat
      BY DEF TypesOK
    <3>3. openTime \in Int /\ Finest \in Nat
      BY Diffs DEF TimesOK
    <3> QED BY <2>1, <2>2, <3>1, <3>2, <3>3
  <2>4. \A j \in 1..Len(f) : j >= nextFunding[s] + missed[s] => f[j] > openTime - Finest
    BY <1>2, <2>2, <2>3 DEF FundsOK, LastLook
  <2>5. \A j, k \in 1..Len(f) : j < k => f[j] + Finest <= f[k]
    BY <2>2, <2>3 DEF DataOK, InOrder
  <2>6. CASE s \in active /\ ~IsDue(s)
    <3>1. i >= nextFunding[s] + missed[s]
      <4>1. nextFunding'[s] = nextFunding[s] /\ missed'[s] = missed[s]
        BY <1>2, <2>3, <2>6
      <4> QED BY <2>1, <4>1
    <3>2. nextFunding[s] \in 1..Len(f) /\ nextFunding[s] <= i
      BY <2>3, <3>1
    <3>3. f[nextFunding[s]] > openTime
      BY <2>2, <2>3, <2>6, <3>2 DEF IsDue
    <3>4. f[i] >= f[nextFunding[s]]
      BY <2>3, <2>5, <3>2
    <3> QED BY <2>2, <2>3, <3>2, <3>3, <3>4
  <2>7. CASE ~(s \in active /\ ~IsDue(s))
    <3>1. i >= nextFunding[s] + missed[s] + 1
      BY <1>2, <2>1, <2>3, <2>7
    <3>2. i - 1 \in 1..Len(f) /\ i - 1 >= nextFunding[s] + missed[s] /\ i - 1 < i
      BY <2>3, <3>1
    <3>3. f[i - 1] > openTime - Finest /\ f[i - 1] + Finest <= f[i]
      BY <2>3, <2>4, <2>5, <3>2
    <3> QED BY <2>2, <2>3, <3>2, <3>3
  <2> QED BY <2>6, <2>7
<1> QED BY <1>1, <1>4, <1>5, <1>6, <1>7, <1>8

\* The prices of a step; after the last one the clock is back at the trading bar.
LEMMA ProcessOhlcStep ==
    ASSUME IInv, ProcessOhlc
    PROVE  IInv'
<1> USE DEF IInv
<1>1. DataOK' /\ market' = market /\ useMagnifier' = useMagnifier /\ Finest' = Finest
  BY DataKept DEF ProcessOhlc
<1>2. /\ pc = "ohlc" /\ checked' = {}
      /\ trading' = trading /\ reference' = reference
      /\ began' = began /\ ended' = ended /\ active' = active
      /\ ordered' \subseteq ordered /\ closedOut' = closedOut
      /\ nextFunding' = nextFunding /\ missed' = missed
  BY DEF ProcessOhlc, indices, states, funds
<1>3. openTime \in Int /\ closeTime \in Int /\ barTimes \in [open : Int, close : Int]
  BY DEF TimesOK
<1>4. TimesOK' /\ BarOpen' = BarOpen /\ LastLook' = LastLook /\ pc' \in {"magnify", "close"}
  <2>1. CASE useMagnifier /\ closeTime # barTimes.close
    <3>1. pc' = "magnify" /\ openTime' = openTime /\ closeTime' = closeTime /\ barTimes' = barTimes
      BY <2>1 DEF ProcessOhlc, times
    <3>2. TimesOK'
      BY <1>1, <1>2, <1>3, <2>1, <3>1 DEF TimesOK, InBar
    <3> QED BY <1>1, <1>2, <2>1, <3>1, <3>2 DEF BarOpen, LastLook, InBar
  <2>2. CASE useMagnifier /\ closeTime = barTimes.close
    <3>1. pc' = "close" /\ openTime' = barTimes.open /\ closeTime' = barTimes.close
          /\ barTimes' = barTimes
      BY <2>2 DEF ProcessOhlc, times
    <3>2. TimesOK'
      BY <1>1, <1>2, <1>3, <2>2, <3>1 DEF TimesOK, InBar
    <3>3. Finest = 1 /\ closeTime = openTime + 1
      BY <1>2, <2>2, Diffs DEF TimesOK, InBar
    <3> QED BY <1>1, <1>2, <1>3, <2>2, <3>1, <3>2, <3>3 DEF BarOpen, LastLook, InBar
  <2>3. CASE ~useMagnifier
    <3>1. pc' = "close" /\ openTime' = openTime /\ closeTime' = closeTime /\ barTimes' = barTimes
      BY <2>3 DEF ProcessOhlc, times
    <3>2. TimesOK'
      BY <1>1, <1>2, <1>3, <2>3, <3>1 DEF TimesOK, InBar
    <3>3. Finest = TradingDiff /\ closeTime = openTime + TradingDiff /\ TradingDiff \in Int
      BY <1>2, <2>3, Diffs DEF TimesOK, InBar
    <3> QED BY <1>1, <1>2, <1>3, <2>3, <3>1, <3>2, <3>3 DEF BarOpen, LastLook, InBar
  <2> QED BY <2>1, <2>2, <2>3
<1>5. TypesOK'
  BY <1>1, <1>2, <1>4 DEF TypesOK, InBar
<1>6. PlacesOK'
  <2>1. pc \notin {"update", "done"} /\ pc' \notin {"update", "done"}
    BY <1>2, <1>4
  <2> QED BY <1>1, <1>2, <1>4, <2>1 DEF PlacesOK, StandsAt
<1>7. OrderedOK'
  BY <1>1, <1>2 DEF OrderedOK
<1>8. FundsOK'
  BY <1>1, <1>2, <1>4 DEF FundsOK
<1> QED BY <1>1, <1>4, <1>5, <1>6, <1>7, <1>8

\* One bar on: an active symbol moves to its next bar, any other is already at the
\* first of those to come.
LEMMA ExecuteOnCloseStep ==
    ASSUME IInv, ExecuteOnClose
    PROVE  IInv'
<1> USE DEF IInv
<1>1. DataOK' /\ market' = market /\ useMagnifier' = useMagnifier /\ Finest' = Finest
  BY DataKept DEF ExecuteOnClose
<1>2. /\ pc = "close" /\ pc' = "update" /\ checked' = checked
      /\ openTime' = openTime + TradingDiff /\ closeTime' = closeTime + TradingDiff
      /\ barTimes' = barTimes
      /\ trading' = [s \in Symbols |-> Increased(s)] /\ reference' = reference
      /\ began' = began /\ ended' = ended /\ active' = active
      /\ ordered' \subseteq ordered \cup active /\ closedOut' = closedOut
      /\ nextFunding' = nextFunding /\ missed' = missed
  BY DEF ExecuteOnClose, states, funds
<1>3. /\ openTime \in Int /\ closeTime = openTime + TradingDiff /\ closeTime \in Int
      /\ TradingDiff \in Nat /\ Finest \in Nat
  BY <1>2, Diffs DEF TimesOK, InBar
<1>4. BarOpen = openTime /\ BarOpen' = openTime + TradingDiff
  BY <1>2 DEF BarOpen, InBar
<1>5. TimesOK'
  BY <1>1, <1>2, <1>3 DEF TimesOK, InBar
<1>6. \A s \in Symbols : trading'[s] = (IF s \in active THEN trading[s] + 1 ELSE trading[s])
                         /\ trading[s] \in Int
  BY <1>2 DEF Increased, TypesOK
<1>7. TypesOK'
  <2>1. trading' \in [Symbols -> Int]
    BY <1>2, <1>6
  <2>2. active \subseteq began \ ended
    BY <1>2 DEF TypesOK
  <2> QED BY <1>1, <1>2, <2>1, <2>2 DEF TypesOK, InBar
<1>8. PlacesOK'
  <2>1. SUFFICES ASSUME NEW s \in began \ ended
                 PROVE  /\ trading'[s] \in 1..Len(market[s].trading) + 1
                        /\ \A i \in DOMAIN market[s].trading :
                              OnGrid(market[s].trading[i], openTime + TradingDiff)
                        /\ \A i \in DOMAIN market[s].trading :
                              i < trading'[s] <=> market[s].trading[i] < openTime + TradingDiff
    BY <1>1, <1>2, <1>4 DEF PlacesOK, StandsAt
  <2>2. s \in Symbols
    BY DEF TypesOK
  <2>3. PICK t : t = market[s].trading
    OBVIOUS
  <2>4. /\ DOMAIN t = 1..Len(t) /\ Len(t) \in Nat /\ \A i \in DOMAIN t : t[i] \in Int
    BY <2>2, <2>3, MarketOK
  <2>5. trading[s] \in 1..Len(t) + 1 /\ \A i \in DOMAIN t : OnGrid(t[i], openTime)
    BY <1>4, <2>3 DEF PlacesOK
  <2>6. \A i \in DOMAIN t : OnGrid(t[i], openTime + TradingDiff)
    BY <1>3, <2>4, <2>5, GridNext
  <2>7. CASE s \in active
    <3>1. trading[s] \in DOMAIN t /\ t[trading[s]] = openTime
      BY <1>2, <1>4, <2>3, <2>7 DEF PlacesOK
    <3>2. \A i \in DOMAIN t : i < trading[s] + 1 <=> t[i] < openTime + TradingDiff
      BY <2>2, <2>3, <3>1, AfterBar
    <3>3. trading'[s] = trading[s] + 1
      BY <1>6, <2>2, <2>7
    <3> QED BY <2>3, <2>4, <2>6, <3>1, <3>2, <3>3
  <2>8. CASE s \notin active
    <3>1. \A i \in DOMAIN t : i < trading[s] <=> t[i] < openTime + TradingDiff
      BY <1>2, <1>4, <2>3, <2>8 DEF PlacesOK, StandsAt
    <3>2. trading'[s] = trading[s]
      BY <1>6, <2>2, <2>8
    <3> QED BY <2>3, <2>5, <2>6, <3>1, <3>2
  <2> QED BY <2>7, <2>8
<1>9. OrderedOK'
  <2>1. ASSUME NEW s \in ordered' PROVE trading'[s] >= 2
    <3>1. s \in Symbols /\ (s \in active \/ (s \notin active /\ s \in ordered))
      BY <1>2 DEF TypesOK
    <3>2. s \in active => trading[s] >= 1
      BY <1>2, <3>1, MarketOK DEF PlacesOK
    <3>3. s \in ordered => trading[s] >= 2
      BY DEF OrderedOK
    <3> QED BY <1>6, <3>1, <3>2, <3>3
  <2>2. ASSUME NEW s \in closedOut PROVE trading'[s] = trading[s]
    BY <1>2, <1>6 DEF TypesOK
  <2> QED BY <1>1, <1>2, <2>1, <2>2 DEF OrderedOK
<1>10. FundsOK'
  <2>1. LastLook = closeTime - Finest /\ LastLook' = openTime + TradingDiff - Finest
    <3>1. LastLook = closeTime - Finest
      BY <1>2 DEF LastLook
    <3>2. LastLook' = openTime' - Finest'
      BY <1>2 DEF LastLook
    <3> QED BY <1>1, <1>2, <1>3, <3>1, <3>2
  <2>2. LastLook' = LastLook
    BY <1>3, <2>1
  <2> QED BY <1>1, <1>2, <2>2 DEF FundsOK
<1> QED BY <1>1, <1>5, <1>7, <1>8, <1>9, <1>10

\* Past the period every symbol that has not ended does.
LEMMA ExecuteAllTradingEndStep ==
    ASSUME IInv, ExecuteAllTradingEnd
    PROVE  IInv'
<1> USE DEF IInv
<1>1. DataOK' /\ market' = market /\ useMagnifier' = useMagnifier /\ Finest' = Finest
  BY DataKept DEF ExecuteAllTradingEnd
<1>2. /\ pc = "updated" /\ pc' = "done" /\ checked' = checked
      /\ openTime' = openTime /\ closeTime' = closeTime /\ barTimes' = barTimes
      /\ trading' = [s \in Symbols |-> IF s \in Symbols \ ended THEN trading[s] - 1 ELSE trading[s]]
      /\ reference' = reference /\ began' = began /\ active' = active
      /\ ended' = ended \cup (Symbols \ ended) /\ ordered' = ordered \ (Symbols \ ended)
      /\ closedOut' = closedOut \cup (ordered \cap (Symbols \ ended))
      /\ nextFunding' = nextFunding /\ missed' = missed
  BY DEF ExecuteAllTradingEnd, ExecuteTradingEnd, SymbolsToEnd, times, funds
<1>3. ended' = Symbols /\ ordered' = {} /\ ordered \subseteq began \ ended
  BY <1>2 DEF TypesOK
<1>4. TimesOK'
  BY <1>1, <1>2 DEF TimesOK, InBar
<1>5. TypesOK'
  <2>1. trading' \in [Symbols -> Int]
    BY <1>2 DEF TypesOK
  <2> QED BY <1>1, <1>2, <1>3, <2>1 DEF TypesOK, InBar
<1>6. PlacesOK'
  <2>1. began' \ ended' = {}
    BY <1>2, <1>3 DEF TypesOK
  <2> QED BY <1>2, <2>1 DEF PlacesOK
<1>7. OrderedOK'
  <2>1. ASSUME NEW s \in closedOut' PROVE trading'[s] \in DOMAIN market[s].trading
    <3>1. CASE s \in closedOut
      <4>1. s \in Symbols /\ s \in ended
        BY <3>1 DEF TypesOK
      <4> QED BY <1>2, <3>1, <4>1 DEF OrderedOK
    <3>2. CASE s \notin closedOut
      <4>1. s \in Symbols \ ended /\ s \in ordered /\ s \in began
        BY <1>2, <1>3, <3>2
      <4>2. trading[s] >= 2 /\ trading[s] \in 1..Len(market[s].trading) + 1
        BY <4>1 DEF OrderedOK, PlacesOK
      <4>3. trading'[s] = trading[s] - 1
        BY <1>2, <4>1
      <4> QED BY <4>1, <4>2, <4>3, MarketOK
    <3> QED BY <3>1, <3>2
  <2> QED BY <1>1, <1>3, <2>1 DEF OrderedOK
<1>8. FundsOK'
  BY <1>2 DEF FundsOK
<1> QED BY <1>1, <1>4, <1>5, <1>6, <1>7, <1>8

\* Once every symbol has ended the backtest is over.
LEMMA EveryoneEndedStep ==
    ASSUME IInv, EveryoneEnded
    PROVE  IInv'
<1> USE DEF IInv
<1>1. DataOK' /\ market' = market /\ useMagnifier' = useMagnifier /\ Finest' = Finest
  BY DataKept DEF EveryoneEnded
<1>2. /\ pc = "updated" /\ pc' = "done" /\ checked' = checked /\ ended = Symbols
      /\ openTime' = openTime /\ closeTime' = closeTime /\ barTimes' = barTimes
      /\ trading' = trading /\ reference' = reference
      /\ began' = began /\ ended' = ended /\ active' = active
      /\ ordered' = ordered /\ closedOut' = closedOut
      /\ nextFunding' = nextFunding /\ missed' = missed
  BY DEF EveryoneEnded, times, indices, states, closing, funds
<1>3. TimesOK' /\ TypesOK'
  BY <1>1, <1>2 DEF TimesOK, TypesOK, InBar
<1>4. PlacesOK'
  <2>1. began' \ ended' = {}
    BY <1>2 DEF TypesOK
  <2> QED BY <1>2, <2>1 DEF PlacesOK
<1>5. OrderedOK' /\ FundsOK'
  BY <1>1, <1>2 DEF OrderedOK, FundsOK
<1> QED BY <1>1, <1>3, <1>4, <1>5

\* A step that changes nothing.
LEMMA StutterStep ==
    ASSUME IInv, UNCHANGED vars
    PROVE  IInv'
<1> USE DEF IInv
<1>1. DataOK' /\ market' = market /\ useMagnifier' = useMagnifier /\ Finest' = Finest
  BY DataKept DEF vars
<1>2. /\ pc' = pc /\ checked' = checked
      /\ openTime' = openTime /\ closeTime' = closeTime /\ barTimes' = barTimes
      /\ trading' = trading /\ reference' = reference
      /\ began' = began /\ ended' = ended /\ active' = active
      /\ ordered' = ordered /\ closedOut' = closedOut
      /\ nextFunding' = nextFunding /\ missed' = missed
  BY DEF vars, times, indices, states, closing, funds
<1>3. BarOpen' = BarOpen /\ LastLook' = LastLook
  BY <1>1, <1>2 DEF BarOpen, LastLook
<1>4. TimesOK' /\ TypesOK'
  BY <1>1, <1>2 DEF TimesOK, TypesOK
<1>5. PlacesOK' /\ OrderedOK' /\ FundsOK'
  BY <1>1, <1>2, <1>3 DEF PlacesOK, OrderedOK, FundsOK, StandsAt
<1> QED BY <1>1, <1>4, <1>5

-----------------------------------------------------------------------------
(* The initial states.                                                     *)

\* A symbol starts at its last bar that opened by the start of the period, or at
\* its first; it has begun if that bar opens with the period.
LEMMA InitIInv ==
    ASSUME Init
    PROVE  IInv
<1>1. PICK b \in Backtests : market = b.market /\ period = b.period /\ useMagnifier = b.useMagnifier
  BY DEF Init
<1>2. /\ openTime = period.begin /\ closeTime = period.begin + TradingDiff
      /\ barTimes = [open |-> period.begin, close |-> period.begin + TradingDiff]
      /\ trading = [s \in Symbols |-> InitialTrading(s)]
      /\ reference = [s \in Symbols |-> 1]
      /\ began = {s \in Symbols : market[s].trading[trading[s]] = period.begin}
      /\ ended = {} /\ active = {} /\ checked = {}
      /\ nextFunding = [s \in Symbols |-> FirstFunding(s)]
      /\ ordered = {} /\ closedOut = {} /\ missed = [s \in Symbols |-> 0]
      /\ pc = "update"
  BY DEF Init
<1>3. DataOK
  BY <1>1, ClockAssumption DEF DataOK, Finest
<1>4. BarOpen = openTime /\ openTime \in Int /\ TradingDiff \in Int
  BY <1>2, <1>3, Diffs DEF BarOpen, InBar, DataOK
<1>5. TimesOK
  BY <1>2, <1>4 DEF TimesOK, InBar
<1>6. \A s \in Symbols : /\ trading[s] \in DOMAIN market[s].trading
                         /\ reference[s] \in DOMAIN market[s].reference /\ reference[s] \in Nat
  <2>1. SUFFICES ASSUME NEW s \in Symbols
                 PROVE  /\ trading[s] \in DOMAIN market[s].trading
                        /\ 1 \in DOMAIN market[s].reference
    BY <1>2
  <2>2. /\ market[s].trading \in Seq(Int) /\ market[s].reference \in Seq(Int)
        /\ market[s].trading # <<>> /\ market[s].reference # <<>>
    BY <1>3 DEF DataOK, InOrder
  <2>3. 1 \in DOMAIN market[s].trading /\ 1 \in DOMAIN market[s].reference
    BY <2>2, EmptySeq, LenProperties
  <2>4. trading[s] = ProcessBarIndex(market[s].trading, TradingDiff, 1, period.begin + TradingDiff)
    BY <1>2 DEF InitialTrading
  <2> QED BY <2>2, <2>3, <2>4, ProcessBarIndexIn
<1>7. \A s \in Symbols : FirstFunding(s) \in Nat \ {0} /\
         \A i \in DOMAIN market[s].fundings :
            i >= FirstFunding(s) => market[s].fundings[i] > period.begin - Finest
  <2>1. TAKE s \in Symbols
  <2>2. PICK f : f = market[s].fundings
    OBVIOUS
  <2>3. /\ Len(f) \in Nat /\ DOMAIN f = 1..Len(f) /\ \A j \in 1..Len(f) : f[j] \in Int
        /\ period.begin \in Int /\ period.end \in Int /\ Finest \in Nat /\ Finest > 0
        /\ \A j, k \in 1..Len(f) : j < k => f[j] + Finest <= f[k]
    BY <1>3, <2>2, MarketOK, Diffs DEF DataOK, InOrder
  <2> DEFINE S == {Len(f) + 1} \cup {i \in DOMAIN f : f[i] \in period.begin..period.end - 1}
  <2>4. S \subseteq Nat /\ S # {}
    BY <2>3
  <2>5. PICK m : m = FirstFunding(s)
    OBVIOUS
  <2>6. m = Min(S)
    BY <2>2, <2>5 DEF FirstFunding
  <2>7. m \in S
    <3> HIDE DEF S
    <3> QED BY <2>4, <2>6, MinOK
  <2>8. m \in 1..Len(f) + 1 /\ (m # Len(f) + 1 => f[m] >= period.begin)
    BY <2>3, <2>7
  <2>9. ASSUME NEW i \in 1..Len(f), i >= m PROVE f[i] > period.begin - Finest
    <3>1. m \in 1..Len(f) /\ f[m] >= period.begin
      BY <2>3, <2>8, <2>9
    <3>2. f[i] >= f[m]
      BY <2>3, <2>9, <3>1
    <3> QED BY <2>3, <3>1, <3>2
  <2> QED BY <2>2, <2>3, <2>5, <2>8, <2>9
<1>8. TypesOK
  <2>1. \A s \in Symbols : trading[s] \in Int
    BY <1>3, <1>6, MarketOK
  <2>2. trading \in [Symbols -> Int]
    BY <1>2, <2>1
  <2>3. nextFunding \in [Symbols -> Nat \ {0}]
    BY <1>2, <1>7
  <2> QED BY <1>2, <1>6, <2>2, <2>3 DEF TypesOK
<1>9. PlacesOK
  <2>1. SUFFICES ASSUME NEW s \in began
                 PROVE  /\ trading[s] \in 1..Len(market[s].trading) + 1
                        /\ \A i \in DOMAIN market[s].trading : OnGrid(market[s].trading[i], openTime)
                        /\ StandsAt(s, openTime)
    BY <1>2, <1>4 DEF PlacesOK
  <2>2. s \in Symbols /\ trading[s] \in DOMAIN market[s].trading
        /\ market[s].trading[trading[s]] = openTime
    BY <1>2, <1>6
  <2>3. trading[s] \in 1..Len(market[s].trading) + 1
    BY <1>3, <2>2, MarketOK
  <2>4. \A i \in DOMAIN market[s].trading :
           /\ OnGrid(market[s].trading[i], openTime)
           /\ i < trading[s] <=> market[s].trading[i] < openTime
    BY <1>3, <2>2, TradingGrid
  <2> QED BY <2>3, <2>4 DEF StandsAt
<1>10. OrderedOK
  BY <1>2 DEF OrderedOK
<1>11. FundsOK
  <2>1. SUFFICES ASSUME NEW s \in Symbols, NEW i \in DOMAIN market[s].fundings,
                        i >= nextFunding[s] + missed[s]
                 PROVE  market[s].fundings[i] > period.begin - Finest
    BY <1>2 DEF FundsOK, LastLook
  <2>2. nextFunding[s] + missed[s] = FirstFunding(s)
    BY <1>2, <1>7
  <2> QED BY <1>7, <2>1, <2>2
<1> QED BY <1>3, <1>5, <1>8, <1>9, <1>10, <1>11 DEF IInv

\* The invariant, at every moment of every backtest.
THEOREM Invariance == Spec => []IInv
<1>1. IInv /\ [Next]_vars => IInv'
  BY UpdateStep, ExecuteAllTradingEndStep, EveryoneEndedStep, TradingBarStep, EnterMagnifierStep,
     MagnifierBarStep, CheckFundingTimeStep, ProcessOhlcStep, ExecuteOnCloseStep, StutterStep
     DEF Next, Engine, Stopped
<1> QED BY InitIInv, <1>1, PTL DEF Spec

-----------------------------------------------------------------------------
(* The properties.                                                         *)

\* Whenever the status of the symbols is looked at, one that trades stands at its
\* first bar that opens now or later.
THEOREM OnItsBarHolds == Spec => []OnItsBar
<1>1. IInv => OnItsBar
  BY DEF IInv, PlacesOK, StandsAt, OnItsBar
<1> QED BY <1>1, Invariance, PTL

\* What a symbol still has when it ends is closed at a bar of its data.
THEOREM ClosedAtABarHolds == Spec => []ClosedAtABar
<1>1. IInv => ClosedAtABar
  BY DEF IInv, OrderedOK, ClosedAtABar
<1> QED BY <1>1, Invariance, PTL

\* A symbol that trades owes no more fundings than steps were missed: those owed
\* are among that many from the next one on.
THEOREM FundingsCatchUpHolds == Spec => []FundingsCatchUp
<1>1. ASSUME IInv PROVE FundingsCatchUp
  <2>1. SUFFICES ASSUME pc = "ohlc", NEW s \in active
                 PROVE  Cardinality(Owed(s)) <= missed[s]
    BY DEF FundingsCatchUp
  <2>2. s \in Symbols /\ nextFunding[s] \in Nat /\ missed[s] \in Nat /\ openTime \in Int
    BY <1>1 DEF IInv, TypesOK, TimesOK
  <2>3. \A i \in DOMAIN market[s].fundings : i >= nextFunding[s] + missed[s] =>
           market[s].fundings[i] > openTime
    BY <1>1, <2>1, <2>2 DEF IInv, FundsOK, LastLook
  <2>4. DOMAIN market[s].fundings \subseteq Nat /\ \A i \in DOMAIN market[s].fundings :
           market[s].fundings[i] \in Int
    BY <1>1, <2>2, MarketOK DEF IInv
  <2> DEFINE a == nextFunding[s]
             c == nextFunding[s] + missed[s] - 1
  <2>5. Owed(s) \subseteq a..c
    BY <2>2, <2>3, <2>4 DEF Owed
  <2>6. a \in Int /\ c \in Int /\ (IF a > c THEN 0 ELSE c - a + 1) = missed[s]
    BY <2>2
  <2>7. IsFiniteSet(a..c) /\ Cardinality(a..c) = missed[s]
    <3> HIDE DEF a, c
    <3> QED BY <2>6, FS_Interval
  <2>8. Cardinality(Owed(s)) <= Cardinality(a..c)
    BY <2>5, <2>7, FS_Subset
  <2> QED BY <2>7, <2>8
<1> QED BY <1>1, Invariance, PTL

\* What operator[] reads is the last reference bar that had closed at the close of
\* the trading bar, wherever the index of the reference bars stands.
LEMMA ReferenceReadOK ==
    ASSUME DataOK, TypesOK, NEW s \in Symbols, NEW bar \in DOMAIN market[s].trading
    PROVE  LET read   == ReferenceRead(s, bar)
               target == market[s].trading[bar] + TradingDiff
               closed == {j \in DOMAIN market[s].reference :
                             market[s].reference[j] + ReferenceDiff <= target}
           IN  /\ read = (IF closed = {} THEN 0 ELSE Max(closed))
               /\ read # 0 => market[s].reference[read] + ReferenceDiff <= target
               /\ closed # {} => read # 0
<1>1. PICK r : r = market[s].reference
  OBVIOUS
<1>2. PICK target : target = market[s].trading[bar] + TradingDiff
  OBVIOUS
<1>3. PICK k : k = reference[s]
  OBVIOUS
<1>4. /\ r \in Seq(Int) /\ Len(r) \in Nat /\ DOMAIN r = 1..Len(r)
      /\ k \in 1..Len(r) /\ k \in Nat /\ 1 \in 1..Len(r)
  <2>1. r \in Seq(Int) /\ k \in DOMAIN r
    BY <1>1, <1>3 DEF DataOK, InOrder, TypesOK
  <2>2. Len(r) \in Nat /\ DOMAIN r = 1..Len(r)
    BY <2>1, LenProperties
  <2> QED BY <2>1, <2>2
<1>5. target \in Int /\ ReferenceDiff \in Nat
  BY <1>2, MarketOK, Diffs
<1>6. \A j \in 1..Len(r) : r[j] \in Int
  BY <1>1, <1>4, MarketOK
<1>7. \A i, j \in 1..Len(r) : i < j => r[i] < r[j]
  BY <1>1, <1>4 DEF DataOK, InOrder
<1> DEFINE closed == {j \in DOMAIN r : r[j] + ReferenceDiff <= target}
           passed == {1} \cup {j \in 1..k : r[j] + ReferenceDiff <= target}
<1>8. PICK back : back = Max(passed)
  OBVIOUS
<1>9. back \in passed
  <2>1. passed \subseteq Nat /\ passed # {} /\ \A y \in passed : y <= k
    BY <1>4
  <2> HIDE DEF passed
  <2> QED BY <1>4, <1>8, <2>1, MaxOK
<1>10. back \in 1..Len(r) /\ back \in Nat /\ (back = 1 \/ back \in closed)
  BY <1>4, <1>9
<1>11. PICK p : p = ProcessBarIndex(r, ReferenceDiff, back, target)
  OBVIOUS
<1>12. /\ p \in Nat /\ p >= back
       /\ p = back \/ (p \in back + 1..Len(r) /\ r[p] + ReferenceDiff <= target)
       /\ \A j \in back + 1..Len(r) : r[j] + ReferenceDiff <= target => j <= p
  BY <1>4, <1>10, <1>11, ProcessBarIndexOK
<1>13. ReferenceRead(s, bar) = IF r[back] + ReferenceDiff > target THEN 0 ELSE p
  BY <1>1, <1>2, <1>3, <1>8, <1>11 DEF ReferenceRead, Backwards
<1>14. CASE closed = {}
  <2>1. back = 1 /\ ~(r[1] + ReferenceDiff <= target)
    BY <1>4, <1>10, <1>14
  <2>2. ReferenceRead(s, bar) = 0
    BY <1>4, <1>5, <1>6, <1>13, <2>1
  <2> QED BY <1>1, <1>2, <1>14, <2>2
<1>15. CASE closed # {}
  <2>1. PICK c \in 1..Len(r) : r[c] + ReferenceDiff <= target
    BY <1>4, <1>15
  <2>2. r[1] + ReferenceDiff <= target
    <3>1. r[1] <= r[c]
      BY <1>4, <1>6, <1>7, <2>1
    <3> QED BY <1>4, <1>5, <1>6, <2>1, <3>1
  <2>3. r[back] + ReferenceDiff <= target
    BY <1>10, <2>2
  <2>4. p \in 1..Len(r) /\ r[p] + ReferenceDiff <= target
    BY <1>10, <1>12, <2>3
  <2>5. \A j \in 1..Len(r) : r[j] + ReferenceDiff <= target => j <= p
    BY <1>4, <1>10, <1>12
  <2>6. closed \subseteq Nat /\ closed # {} /\ p \in closed /\ \A j \in closed : j <= p
    BY <1>4, <1>15, <2>4, <2>5
  <2>7. Max(closed) \in closed /\ \A j \in closed : j <= Max(closed)
    <3> HIDE DEF closed
    <3> QED BY <1>12, <2>6, MaxOK
  <2>8. Max(closed) = p
    <3>1. Max(closed) \in Nat /\ Max(closed) <= p /\ p <= Max(closed)
      <4> HIDE DEF closed
      <4> QED BY <2>6, <2>7
    <3> QED BY <1>12, <3>1
  <2>9. ReferenceRead(s, bar) = p
    BY <1>5, <1>6, <1>10, <1>13, <2>3
  <2>10. p # 0
    BY <2>4
  <2> QED BY <1>1, <1>2, <1>15, <2>4, <2>8, <2>9, <2>10
<1> QED BY <1>14, <1>15

\* What a strategy reads of the higher timeframe had closed by the time it runs, is
\* the latest that had closed at the bar it asks for, and is there for the bar that
\* closes now.
THEOREM ReadsThePastHolds == Spec => []ReadsThePast
<1>1. ASSUME IInv PROVE ReadsThePast
  <2>1. SUFFICES ASSUME NEW s \in Readers, NEW bar \in 1..FirstReadable(s)
                 PROVE  LET read   == ReferenceRead(s, bar)
                            target == market[s].trading[bar] + TradingDiff
                            closed == {j \in DOMAIN market[s].reference :
                                          market[s].reference[j] + ReferenceDiff <= target}
                        IN  /\ read = (IF closed = {} THEN 0 ELSE Max(closed))
                            /\ read # 0 => market[s].reference[read] + ReferenceDiff <=
                                              IF pc = "close" THEN closeTime ELSE openTime
                            /\ bar = trading[s] => read # 0
    BY DEF ReadsThePast
  <2>2. pc \in {"close", "ohlc"} /\ s \in active /\ s \in Symbols
    BY <1>1 DEF Readers, IInv, TypesOK
  <2>3. PICK t : t = market[s].trading
    OBVIOUS
  <2>4. /\ trading[s] \in DOMAIN t /\ t[trading[s]] = BarOpen
        /\ market[s].reference[reference[s]] + ReferenceDiff <= BarOpen + TradingDiff
    BY <1>1, <2>2, <2>3 DEF IInv, PlacesOK
  <2>5. DOMAIN t = 1..Len(t) /\ Len(t) \in Nat /\ \A i \in DOMAIN t : t[i] \in Int
    BY <1>1, <2>2, <2>3, MarketOK DEF IInv
  <2>6. bar \in DOMAIN t /\ bar <= trading[s] /\ (pc = "ohlc" => bar < trading[s])
    BY <2>4, <2>5 DEF FirstReadable
  <2>7. TradingDiff \in Nat /\ openTime \in Int /\ BarOpen \in Int
        /\ (pc = "close" => closeTime = BarOpen + TradingDiff)
        /\ (pc = "ohlc" => BarOpen <= openTime)
    BY <1>1, <2>2, Diffs DEF IInv, TimesOK, BarOpen, InBar
  <2>8. t[bar] + TradingDiff <= IF pc = "close" THEN closeTime ELSE openTime
    <3>1. OnGrid(t[bar], t[trading[s]]) /\ (bar < trading[s] <=> t[bar] < t[trading[s]])
      BY <1>1, <2>2, <2>3, <2>4, <2>6, TradingGrid DEF IInv
    <3>2. t[bar] < BarOpen => t[bar] + TradingDiff <= BarOpen
      BY <2>4, <2>5, <2>6, <2>7, <3>1, GridApart
    <3>3. bar = trading[s] \/ bar < trading[s]
      BY <2>4, <2>5, <2>6
    <3>4. CASE pc = "close"
      <4>1. t[bar] <= BarOpen
        BY <2>4, <2>5, <2>6, <2>7, <3>1, <3>3
      <4> QED BY <2>5, <2>6, <2>7, <3>4, <4>1
    <3>5. CASE pc = "ohlc"
      BY <2>4, <2>5, <2>6, <2>7, <3>1, <3>2, <3>5
    <3> QED BY <2>2, <3>4, <3>5
  <2> DEFINE target == market[s].trading[bar] + TradingDiff
             closed == {j \in DOMAIN market[s].reference :
                           market[s].reference[j] + ReferenceDiff <= target}
  <2>9. /\ ReferenceRead(s, bar) = (IF closed = {} THEN 0 ELSE Max(closed))
        /\ ReferenceRead(s, bar) # 0 =>
              market[s].reference[ReferenceRead(s, bar)] + ReferenceDiff <= target
        /\ closed # {} => ReferenceRead(s, bar) # 0
    BY <1>1, <2>2, <2>3, <2>6, ReferenceReadOK DEF IInv
  <2>10. bar = trading[s] => closed # {}
    <3>1. reference[s] \in DOMAIN market[s].reference
      BY <1>1, <2>2 DEF IInv, TypesOK
    <3> QED BY <2>3, <2>4, <3>1
  <2>11. ReferenceRead(s, bar) # 0 =>
            market[s].reference[ReferenceRead(s, bar)] + ReferenceDiff <=
               IF pc = "close" THEN closeTime ELSE openTime
    <3>1. SUFFICES ASSUME ReferenceRead(s, bar) # 0
                   PROVE  market[s].reference[ReferenceRead(s, bar)] + ReferenceDiff <=
                             IF pc = "close" THEN closeTime ELSE openTime
      OBVIOUS
    <3>2. ReferenceRead(s, bar) \in DOMAIN market[s].reference
      <4>1. closed # {}
        BY <2>9, <3>1
      <4>2. closed \subseteq Nat /\ \A j \in closed : j <= Len(market[s].reference)
            /\ Len(market[s].reference) \in Nat
        <5>1. market[s].reference \in Seq(Int)
          BY <1>1, <2>2, MarketOK DEF IInv
        <5>2. DOMAIN market[s].reference = 1..Len(market[s].reference)
              /\ Len(market[s].reference) \in Nat
          BY <5>1, LenProperties
        <5> QED BY <5>2
      <4>3. Max(closed) \in closed
        <5> HIDE DEF closed
        <5> QED BY <4>1, <4>2, MaxOK
      <4> QED BY <2>9, <4>1, <4>3
    <3>3. PICK x \in Int : x = market[s].reference[ReferenceRead(s, bar)]
      BY <1>1, <2>2, <3>2, MarketOK DEF IInv
    <3>4. PICK y : y = t[bar] + TradingDiff
      OBVIOUS
    <3>5. PICK z : z = IF pc = "close" THEN closeTime ELSE openTime
      OBVIOUS
    <3>6. x + ReferenceDiff <= y /\ y <= z
      BY <2>3, <2>8, <2>9, <3>1, <3>3, <3>4, <3>5
    <3>7. y \in Int /\ z \in Int /\ ReferenceDiff \in Int
      BY <1>1, <2>2, <2>5, <2>6, <2>7, <3>4, <3>5, Diffs DEF IInv
    <3> QED BY <3>3, <3>5, <3>6, <3>7
  <2> QED BY <2>9, <2>10, <2>11
<1> QED BY <1>1, Invariance, PTL
=============================================================================
