-------------------------- MODULE ChartData_proofs --------------------------
(***************************************************************************)
(* Proofs about ChartData, for any number of symbols, files, requests,     *)
(* dates, charts and failures.                                             *)
(***************************************************************************)
EXTENDS ChartData, WellFoundedInduction, TLAPS

Of(C) == {c[2] : c \in C}

NoHole(S) == \A f, g \in S : \A h \in f..g : h \in S

-----------------------------------------------------------------------------
(* The inductive invariant.                                                *)

BoundsOK ==
    /\ dates \in 0..MaxDates /\ switches \in 0..MaxSwitches /\ faults \in 0..MaxFaults
    /\ requestId \in 0..MaxRequests

FlagsOK ==
    /\ pendingRequest \in BOOLEAN /\ timer \in BOOLEAN /\ throttled \in BOOLEAN
    /\ closed \in BOOLEAN /\ crossed \in BOOLEAN
    /\ isLoading \in BOOLEAN /\ hasError \in BOOLEAN
    /\ isCandleReady \in BOOLEAN /\ isChartInitialized \in BOOLEAN
    /\ finalize \in BOOLEAN /\ restore \in BOOLEAN /\ passDone \in BOOLEAN
    /\ passes \in BOOLEAN /\ panes \in BOOLEAN
    /\ requestId = 0 => closed

CacheOK ==
    /\ symbol \in Symbols
    /\ cache \subseteq {symbol} \X Files /\ unread \subseteq Files
    /\ requestId > 1 \/ passes \/ panes => cache # {}

Numbers == [symbol : Symbols, chart : Nat, id : Nat,
            type : {"initial", "newer", "date"}, reference : Int]

\* The number of a request tells its type, and, among those of one chart, more candles
\* asked for from others.
RequestOK(q) ==
    /\ q \in Numbers /\ q.chart <= switches
    /\ q.type = "date" => q.id = 0
    /\ q.type = "initial" => q.id = 1
    /\ q.type = "newer" => q.id > 1
    /\ q.chart = switches => q.symbol = symbol /\ q.id <= requestId

RequestsOK ==
    /\ \A q \in requests : RequestOK(q)
    /\ \A p, q \in requests :
        p.type = "newer" /\ q.type = "newer" /\ p.chart = q.chart /\ p.id = q.id => p = q

\* What the chart waits for is asked for at its last candle.
AtTheEdge(q) ==
    q.type = "newer" /\ q.chart = switches /\ q.id = requestId =>
        <<symbol, q.reference>> \in cache

\* The files on the chart and those that could not be read follow each other.
GapOK == ~crossed => NoHole(Of(cache) \cup unread) /\ \A q \in requests : AtTheEdge(q)

\* With indicators, a blank chart that no longer loads is one that failed.
BlankOK ==
    HasIndicators /\ cache = {} =>
        /\ isCandleReady => ~isLoading
        /\ ~isLoading => hasError

IInv == BoundsOK /\ FlagsOK /\ CacheOK /\ RequestsOK /\ GapOK /\ BlankOK /\ PendingIsTimed

-----------------------------------------------------------------------------
(* The files of an answer.                                                 *)

\* Every nonempty set of naturals has a least element.
LEMMA LeastNat ==
    ASSUME NEW T, T \subseteq Nat, T # {}
    PROVE  \E x \in T : \A y \in T : x <= y
<1>1. PICK x \in T : \A y \in T : ~(<<y, x>> \in OpToRel(<, Nat))
  <2>1. IsWellFoundedOn(OpToRel(<, Nat), Nat)
    BY NatLessThanWellFounded, Zenon
  <2> QED BY <2>1, WFMin, Zenon
<1>2. ASSUME NEW y \in T PROVE x <= y
  <2>1. <<y, x>> \notin OpToRel(<, Nat)
    BY <1>1
  <2>2. x \in Nat /\ y \in Nat
    OBVIOUS
  <2>3. ~(y < x)
    BY <2>1, <2>2 DEF OpToRel
  <2> QED BY <2>2, <2>3
<1> QED BY <1>2

\* The lesser of two numbers.
LEMMA MinOfTwo ==
    ASSUME NEW a \in Int, NEW b \in Int
    PROVE  Min({a, b}) \in Int /\ Min({a, b}) <= a /\ Min({a, b}) <= b
<1>1. \E x \in {a, b} : \A y \in {a, b} : x <= y
  <2>1. CASE a <= b
    BY <2>1
  <2>2. CASE b <= a
    BY <2>2
  <2> QED BY <2>1, <2>2
<1>2. Min({a, b}) \in {a, b} /\ \A y \in {a, b} : Min({a, b}) <= y
  BY <1>1 DEF Min
<1> QED BY <1>2

\* A set of files that is not empty has a last one.
LEMMA MaxOfFiles ==
    ASSUME NEW S, S \subseteq Files, S # {}
    PROVE  Max(S) \in S /\ \A f \in S : f <= Max(S)
<1> DEFINE T == {NumFiles - f : f \in S}
<1>1. NumFiles \in Nat /\ \A f \in S : f \in Int /\ f <= NumFiles
  BY ChartAssumption DEF Files
<1>2. T \subseteq Nat /\ T # {}
  BY <1>1
<1>3. PICK x \in T : \A y \in T : x <= y
  <2> HIDE DEF T
  <2> QED BY <1>2, LeastNat
<1>4. PICK m \in S : x = NumFiles - m
  BY <1>3
<1>5. ASSUME NEW f \in S PROVE m >= f
  <2>1. NumFiles - f \in T
    OBVIOUS
  <2>2. x <= NumFiles - f
    <3> HIDE DEF T
    <3> QED BY <1>3, <2>1
  <2>3. m \in Int /\ f \in Int /\ NumFiles \in Int
    BY <1>1, <1>4
  <2> HIDE DEF T
  <2> QED BY <1>4, <2>2, <2>3
<1> HIDE DEF T
<1>6. Max(S) \in S /\ \A f \in S : Max(S) >= f
  BY <1>4, <1>5 DEF Max
<1> QED BY <1>1, <1>6

\* An answer holds files of the symbol, without a hole; one for more candles, the file
\* after the last.
LEMMA FilesOfRequest ==
    ASSUME NEW q \in Numbers
    PROVE  /\ FilesOf(q) \subseteq Files /\ NoHole(FilesOf(q))
           /\ q.type = "newer" => FilesOf(q) \subseteq {q.reference + 1}
<1>1. q.reference \in Int /\ NumFiles \in Nat /\ InitialCount \in Nat /\ DateCount \in Nat
  BY ChartAssumption DEF Numbers
<1>2. CASE q.type = "initial"
  <2> DEFINE m == Min({InitialCount, NumFiles})
  <2>1. m \in Int /\ m <= NumFiles
    BY <1>1, MinOfTwo
  <2>2. FilesOf(q) = 1..m
    BY <1>2 DEF FilesOf, FirstFiles
  <2> HIDE DEF m
  <2> QED BY <1>1, <1>2, <2>1, <2>2 DEF Files, NoHole
<1>3. CASE q.type = "newer"
  <2>1. FilesOf(q) = {f \in Files : f > q.reference /\ f <= q.reference + 1}
    BY <1>3 DEF FilesOf
  <2> QED BY <1>1, <2>1 DEF Files, NoHole
<1>4. CASE q.type = "date"
  <2>1. CASE q.reference < 1
    <3> DEFINE m == Min({DateCount, NumFiles})
    <3>1. m \in Int /\ m <= NumFiles
      BY <1>1, MinOfTwo
    <3>2. FilesOf(q) = 1..m
      BY <1>4, <2>1 DEF FilesOf
    <3> HIDE DEF m
    <3> QED BY <1>1, <1>4, <3>1, <3>2 DEF Files, NoHole
  <2>2. CASE ~(q.reference < 1)
    <3> DEFINE last == Min({q.reference, NumFiles})
    <3>1. last \in Int
      <4>1. \A a, b \in Int : Min({a, b}) \in Int
        BY MinOfTwo
      <4> QED BY <1>1, <4>1
    <3>2. FilesOf(q) = {f \in Files : f > last - DateCount /\ f <= last}
      BY <1>4, <2>2 DEF FilesOf
    <3> HIDE DEF last
    <3> QED BY <1>1, <1>4, <3>1, <3>2 DEF Files, NoHole
  <2> QED BY <2>1, <2>2
<1> QED BY <1>2, <1>3, <1>4 DEF Numbers

\* What the candles of an answer are of.
LEMMA CandlesOfRequest ==
    ASSUME NEW q \in Numbers
    PROVE  /\ Candles(q) \subseteq {q.symbol} \X Files
           /\ Of(Candles(q)) = FilesOf(q)
<1>1. FilesOf(q) \subseteq Files
  BY FilesOfRequest
<1>2. Candles(q) = {<<q.symbol, f>> : f \in FilesOf(q)}
  BY DEF Candles
<1>3. Candles(q) \subseteq {q.symbol} \X Files
  BY <1>1, <1>2
<1>4. ASSUME NEW f PROVE f \in Of(Candles(q)) <=> f \in FilesOf(q)
  <2>1. ASSUME f \in FilesOf(q) PROVE f \in Of(Candles(q))
    <3>1. <<q.symbol, f>> \in Candles(q) /\ <<q.symbol, f>>[2] = f
      BY <2>1, <1>2
    <3> QED BY <3>1 DEF Of
  <2>2. ASSUME f \in Of(Candles(q)) PROVE f \in FilesOf(q)
    <3>1. PICK c \in Candles(q) : f = c[2]
      BY <2>2 DEF Of
    <3> QED BY <1>2, <3>1
  <2> QED BY <2>1, <2>2
<1>5. Of(Candles(q)) = FilesOf(q)
  BY <1>4
<1> QED BY <1>3, <1>5

-----------------------------------------------------------------------------
(* The steps.                                                              *)

\* The chart that is mounted first keeps the invariant.
LEMMA InitOK == Init => IInv
<1> SUFFICES ASSUME Init PROVE IInv
  OBVIOUS
<1>1. BoundsOK /\ FlagsOK /\ CacheOK
  <2>1. BoundsOK
    BY ChartAssumption DEF Init, BoundsOK
  <2>2. FlagsOK
    <3>1. requestId # 0
      BY DEF Init
    <3> QED BY <3>1 DEF Init, FlagsOK
  <2>3. CacheOK
    BY DEF Init, CacheOK
  <2> QED BY <2>1, <2>2, <2>3
<1>2. requests = {[symbol |-> symbol, chart |-> 0, id |-> 1, type |-> "initial", reference |-> 0]}
      /\ symbol \in Symbols /\ switches = 0 /\ requestId = 1
  BY DEF Init, Request
<1>3. RequestsOK
  BY <1>2 DEF RequestsOK, RequestOK, Numbers
<1>4. GapOK
  BY <1>2 DEF Init, GapOK, NoHole, Of, AtTheEdge, Request
<1>5. BlankOK /\ PendingIsTimed
  BY DEF Init, BlankOK, PendingIsTimed
<1> QED BY <1>1, <1>3, <1>4, <1>5 DEF IInv

\* So does a chart that takes the place of another, whether it can ask for candles or not.
LEMMA SelectSymbolOK ==
    ASSUME IInv, NEW s \in Symbols, SelectSymbol(s)
    PROVE  IInv'
<1> USE DEF SelectSymbol, Mounted
<1>0. PICK new : new = [symbol |-> s, chart |-> switches', id |-> 1, type |-> "initial", reference |-> 0]
  OBVIOUS
<1>1. /\ symbol' = s /\ cache' = {} /\ unread' = {} /\ UNCHANGED <<closed, dates, faults, crossed>>
      /\ requests' \subseteq requests \cup {new} /\ requestId' \in {0, 1}
      /\ new \in requests' => new \in requests \/ requestId' = 1
  BY <1>0 DEF Request
<1>2. switches \in Nat /\ switches' = switches + 1 /\ MaxSwitches \in Nat /\ switches' <= MaxSwitches
      /\ MaxRequests \in Nat \ {0}
  BY ChartAssumption DEF IInv, BoundsOK
<1>3. BoundsOK'
  BY <1>1, <1>2 DEF IInv, BoundsOK
<1>4. FlagsOK' /\ CacheOK'
  <2>1. FlagsOK'
    <3>1. closed' = closed /\ pendingRequest' = ~closed /\ timer' = ~closed /\ closed \in BOOLEAN
          /\ crossed' = crossed /\ crossed \in BOOLEAN
      BY DEF IInv, FlagsOK
    <3>2. pendingRequest' \in BOOLEAN /\ timer' \in BOOLEAN /\ closed' \in BOOLEAN /\ crossed' \in BOOLEAN
      BY <3>1, Zenon
    <3>3. requestId' = 0 => closed'
      BY <3>1
    <3> QED BY <3>2, <3>3 DEF FlagsOK
  <2>2. CacheOK'
    BY <1>1 DEF CacheOK
  <2> QED BY <2>1, <2>2
<1>5. \A q \in requests : RequestOK(q)
  BY DEF IInv, RequestsOK
<1>6. new \in Numbers /\ new.type = "initial" /\ new.id = 1 /\ new.chart = switches'
      /\ new.symbol = s
  BY <1>0, <1>2 DEF Numbers
<1>8. ASSUME NEW q \in requests PROVE RequestOK(q)' /\ q.chart # switches'
  <2>1. q \in Numbers /\ q.chart \in Nat /\ q.chart <= switches
    BY <1>5 DEF RequestOK, Numbers
  <2> QED BY <1>2, <1>5, <2>1 DEF RequestOK
<1>7. ASSUME new \in requests' PROVE RequestOK(new)'
  <2>1. new \notin requests
    BY <1>6, <1>8
  <2>2. requestId' = 1
    BY <1>1, <1>7, <2>1
  <2> QED BY <1>1, <1>2, <1>6, <2>2 DEF RequestOK
<1>9. RequestsOK'
  <2>1. \A q \in requests' : RequestOK(q)'
    BY <1>1, <1>7, <1>8
  <2>2. ASSUME NEW p \in requests', NEW q \in requests',
               p.type = "newer", q.type = "newer", p.chart = q.chart, p.id = q.id
        PROVE  p = q
    <3>1. p \in requests /\ q \in requests
      BY <1>1, <1>6, <2>2
    <3> QED BY <2>2, <3>1 DEF IInv, RequestsOK
  <2> QED BY <2>1, <2>2 DEF RequestsOK
<1>10. \A q \in requests' : AtTheEdge(q)'
  BY <1>1, <1>6, <1>8 DEF AtTheEdge
<1>11. GapOK'
  BY <1>1, <1>10 DEF GapOK, NoHole, Of
<1>12. BlankOK' /\ PendingIsTimed'
  BY DEF BlankOK, PendingIsTimed
<1> QED BY <1>3, <1>4, <1>9, <1>11, <1>12 DEF IInv

\* More candles are asked for at the last one.
LEMMA VisibleRangeChangeOK ==
    ASSUME IInv, VisibleRangeChange
    PROVE  IInv'
<1> USE DEF VisibleRangeChange, shown, rendering, bounds
<1>0. PICK edge : edge = Max({c[2] : c \in cache})
  OBVIOUS
<1>00. PICK new : new = [symbol |-> symbol, chart |-> switches, id |-> requestId', type |-> "newer",
                         reference |-> edge]
  OBVIOUS
<1>1. requests' = requests \cup {new} /\ requestId' = requestId + 1 /\ UNCHANGED <<symbol, switches, cache, unread, crossed>>
  BY <1>0, <1>00 DEF Request, history
<1>2. requestId \in Nat \ {0} /\ switches \in Nat /\ MaxRequests \in Nat
  BY ChartAssumption DEF IInv, BoundsOK, FlagsOK
<1>3. BoundsOK'
  BY <1>2, ChartAssumption DEF IInv, BoundsOK
<1>4. FlagsOK' /\ CacheOK'
  <2>1. FlagsOK'
    BY <1>1, <1>2 DEF IInv, FlagsOK, history
  <2>2. CacheOK'
    BY <1>1 DEF IInv, CacheOK
  <2> QED BY <2>1, <2>2
<1>5. <<symbol, edge>> \in cache /\ edge \in Int
  <2>1. cache \subseteq {symbol} \X Files /\ cache # {}
    BY DEF IInv, CacheOK
  <2>2. Of(cache) \subseteq Files /\ Of(cache) # {}
    BY <2>1 DEF Of
  <2>3. Max(Of(cache)) \in Of(cache) /\ \A f \in Of(cache) : f <= Max(Of(cache))
    BY <2>2, MaxOfFiles
  <2>4. edge = Max(Of(cache))
    BY <1>0 DEF Of
  <2>5. PICK c \in cache : edge = c[2]
    BY <2>3, <2>4 DEF Of
  <2>6. c = <<symbol, edge>>
    BY <2>1, <2>5
  <2> QED BY <2>2, <2>3, <2>4, <2>5, <2>6 DEF Files
<1>6. \A q \in requests : RequestOK(q)
  BY DEF IInv, RequestsOK
<1>7. new \in Numbers /\ new.type = "newer" /\ new.id = requestId + 1 /\ new.chart = switches
      /\ new.symbol = symbol /\ new.reference = edge
  BY <1>00, <1>1, <1>2, <1>5 DEF Numbers, IInv, CacheOK
<1>8. RequestOK(new)'
  BY <1>1, <1>2, <1>7 DEF RequestOK
<1>9. ASSUME NEW q \in requests
      PROVE  RequestOK(q)' /\ (q.chart = switches => q.id < requestId')
  <2>1. q \in Numbers /\ q.id \in Nat
    BY <1>6 DEF RequestOK, Numbers
  <2> QED BY <1>1, <1>2, <1>6, <2>1 DEF RequestOK
<1>10. \A q \in requests : q.chart = switches => q.id # requestId + 1
  <2>1. \A q \in requests : q.id \in Nat
    BY <1>6 DEF RequestOK, Numbers
  <2> QED BY <1>1, <1>2, <1>9, <2>1
<1>11. RequestsOK'
  <2>1. \A q \in requests' : RequestOK(q)'
    BY <1>1, <1>8, <1>9
  <2>2. ASSUME NEW p \in requests', NEW q \in requests',
               p.type = "newer", q.type = "newer", p.chart = q.chart, p.id = q.id
        PROVE  p = q
    <3>1. CASE p \in requests /\ q \in requests
      BY <2>2, <3>1 DEF IInv, RequestsOK
    <3>2. CASE p = new /\ q = new
      BY <3>2
    <3>3. CASE p = new /\ q \in requests
      BY <2>2, <3>3, <1>7, <1>10
    <3>4. CASE q = new /\ p \in requests
      BY <2>2, <3>4, <1>7, <1>10
    <3> QED BY <1>1, <3>1, <3>2, <3>3, <3>4
  <2> QED BY <2>1, <2>2 DEF RequestsOK
<1>12. \A q \in requests' : AtTheEdge(q)'
  BY <1>1, <1>5, <1>7, <1>10 DEF AtTheEdge
<1>13. GapOK'
  BY <1>1, <1>12 DEF IInv, GapOK
<1>14. BlankOK' /\ PendingIsTimed'
  BY DEF IInv, BlankOK, PendingIsTimed
<1> QED BY <1>3, <1>4, <1>11, <1>13, <1>14 DEF IInv

\* A date is asked for without a number.
LEMMA ReloadOK ==
    ASSUME IInv, NEW date \in 0..NumFiles + 1, ReloadDataFromTimestamp(date)
    PROVE  IInv'
<1> USE DEF ReloadDataFromTimestamp, shown, rendering
<1>0. PICK new : new = [symbol |-> symbol, chart |-> switches, id |-> 0, type |-> "date", reference |-> date]
  OBVIOUS
<1>1. requests' = requests \cup {new} /\ UNCHANGED <<symbol, switches, cache, requestId, crossed, unread>>
  BY <1>0 DEF Request, history
<1>2. requestId \in Nat /\ switches \in Nat /\ symbol \in Symbols /\ date \in Int
  BY ChartAssumption DEF IInv, BoundsOK, CacheOK
<1>3. BoundsOK'
  BY ChartAssumption DEF IInv, BoundsOK
<1>4. FlagsOK' /\ CacheOK'
  BY <1>1 DEF IInv, FlagsOK, CacheOK, history
<1>5. new \in Numbers /\ new.type = "date" /\ new.id = 0 /\ new.chart = switches /\ new.symbol = symbol
  BY <1>0, <1>2 DEF Numbers
<1>6. RequestOK(new)'
  BY <1>1, <1>2, <1>5 DEF RequestOK
<1>7. \A q \in requests : RequestOK(q)'
  BY <1>1 DEF IInv, RequestsOK, RequestOK
<1>8. RequestsOK'
  BY <1>1, <1>5, <1>6, <1>7 DEF IInv, RequestsOK
<1>9. GapOK'
  BY <1>1, <1>5 DEF IInv, GapOK, AtTheEdge
<1>10. BlankOK' /\ PendingIsTimed'
  BY DEF IInv, BlankOK, PendingIsTimed
<1> QED BY <1>3, <1>4, <1>8, <1>9, <1>10 DEF IInv

\* An answer, whichever of them, whole or in part, to this chart or not.
LEMMA OnWsMessageOK ==
    ASSUME IInv, NEW q \in requests, NEW failed \in SUBSET FilesOf(q),
           NEW candles \in SUBSET Candles(q), {c \in Candles(q) : c[2] \notin failed} \subseteq candles,
           NEW indicators \in BOOLEAN, indicators => candles # {}, NEW visible \in BOOLEAN,
           OnWsMessage(q, failed, candles, indicators, visible), faults' \in 0..MaxFaults
    PROVE  IInv'
<1>1. /\ requests' = requests \ {q}
      /\ UNCHANGED <<symbol, isChartInitialized, requestId, throttled, closed, dates, switches>>
  BY DEF OnWsMessage
<1>2. BoundsOK'
  BY <1>1 DEF IInv, BoundsOK
<1>3. RequestsOK'
  BY <1>1 DEF IInv, RequestsOK, RequestOK
<1>4. RequestOK(q) /\ q \in Numbers
  BY DEF IInv, RequestsOK, RequestOK
<1>5. CASE ~Accepts(q)
  <2>1. UNCHANGED <<cache, isLoading, hasError, isCandleReady, rendering, crossed, unread, pendingRequest,
                    timer>>
    BY <1>5 DEF OnWsMessage, history
  <2>2. FlagsOK'
    BY <1>1, <2>1 DEF IInv, FlagsOK, rendering
  <2>3. CacheOK'
    BY <1>1, <2>1 DEF IInv, CacheOK, rendering
  <2>4. GapOK' /\ BlankOK' /\ PendingIsTimed'
    BY <1>1, <2>1 DEF IInv, GapOK, AtTheEdge, BlankOK, PendingIsTimed
  <2> QED BY <1>2, <1>3, <2>2, <2>3, <2>4 DEF IInv
<1>6. CASE Accepts(q)
  <2> DEFINE initial == q.type = "initial" \/ cache = {}
             date == q.type = "date"
             received == candles # {}
             incomplete == HasIndicators /\ ~indicators
             drawn == visible /\ (initial \/ date) /\ received
  <2>1. pendingRequest' = FALSE /\ timer' = FALSE /\ Apply(q, failed, candles, indicators, visible)
    BY <1>6 DEF OnWsMessage
  <2>2. /\ cache' = IF ~received THEN cache
                   ELSE IF initial \/ date THEN candles ELSE cache \cup candles
        /\ unread' = IF ~received THEN unread
                     ELSE IF initial \/ date THEN failed ELSE (unread \ FilesOf(q)) \cup failed
    BY <2>1 DEF Apply
  <2>3. q.symbol = symbol /\ q.id \in {0, requestId}
    BY <1>6 DEF Accepts
  <2>4. candles \subseteq {symbol} \X Files /\ Of(candles) \cup failed = FilesOf(q)
        /\ FilesOf(q) \subseteq Files
    <3>1. Candles(q) \subseteq {symbol} \X Files /\ Of(Candles(q)) = FilesOf(q)
      BY <1>4, <2>3, CandlesOfRequest
    <3>2. Of(candles) \subseteq FilesOf(q)
      BY <3>1 DEF Of
    <3>3. ASSUME NEW f \in FilesOf(q), f \notin failed PROVE f \in Of(candles)
      <4>1. PICK c \in Candles(q) : f = c[2]
        BY <3>1, <3>3 DEF Of
      <4>2. c \in candles
        BY <3>3, <4>1
      <4> QED BY <4>1, <4>2 DEF Of
    <3> QED BY <1>4, <3>1, <3>2, <3>3, FilesOfRequest
  <2>5. FlagsOK'
    <3>1. pendingRequest' \in BOOLEAN /\ timer' \in BOOLEAN /\ throttled' \in BOOLEAN
          /\ closed' \in BOOLEAN /\ isChartInitialized' \in BOOLEAN
      BY <1>1, <2>1 DEF IInv, FlagsOK
    <3>2. crossed' \in BOOLEAN
      BY <2>1, Zenon DEF IInv, FlagsOK, Apply
    <3>3. hasError' \in BOOLEAN
      BY <2>1, Zenon DEF IInv, FlagsOK, Apply
    <3>4. isLoading' \in BOOLEAN /\ isCandleReady' \in BOOLEAN
      BY <2>1, Zenon DEF IInv, FlagsOK, Apply
    <3>5. finalize' \in BOOLEAN /\ restore' \in BOOLEAN /\ passDone' \in BOOLEAN
          /\ passes' \in BOOLEAN /\ panes' \in BOOLEAN
      <4>1. CASE drawn
        <5>1. /\ restore' = (initial /\ ~date /\ HasIndicators) /\ finalize' = (initial /\ ~date)
              /\ passDone' = FALSE /\ passes' = TRUE /\ panes' = indicators
          BY <2>1, <4>1 DEF Apply
        <5> QED BY <5>1, Zenon
      <4>2. CASE ~drawn
        <5>1. /\ panes' = (panes \/ (indicators /\ isChartInitialized))
              /\ UNCHANGED <<restore, finalize, passDone, passes>>
          BY <2>1, <4>2 DEF Apply
        <5> QED BY <5>1 DEF IInv, FlagsOK
      <4> QED BY <4>1, <4>2
    <3>6. requestId' = 0 => closed'
      BY <1>1 DEF IInv, FlagsOK
    <3> QED BY <3>1, <3>2, <3>3, <3>4, <3>5, <3>6 DEF FlagsOK
  <2>6. CacheOK'
    <3>1. symbol' \in Symbols /\ cache' \subseteq {symbol'} \X Files /\ unread' \subseteq Files
      BY <1>1, <2>2, <2>4 DEF IInv, CacheOK
    <3>2. cache # {} \/ received => cache' # {}
      BY <2>2
    <3>3. passes' => passes \/ received
      BY <2>1 DEF Apply
    <3>4. panes' => panes \/ received
      BY <2>1 DEF Apply
    <3>5. requestId > 1 \/ passes \/ panes => cache # {}
      BY DEF IInv, CacheOK
    <3>6. requestId' = requestId
      BY <1>1
    <3> HIDE DEF received
    <3> QED BY <3>1, <3>2, <3>3, <3>4, <3>5, <3>6 DEF CacheOK
  <2>7. GapOK'
    <3> DEFINE known == Of(cache) \cup unread
    <3> SUFFICES ASSUME ~crossed' PROVE NoHole(known)' /\ \A p \in requests' : AtTheEdge(p)'
      BY DEF GapOK
    <3>1. ~crossed /\ (date => ~received \/ \A p \in requests : ~(p.type = "newer" /\ Accepts(p)))
          /\ (~date /\ q.type = "newer" => q.chart = switches)
      BY <2>1 DEF Apply
    <3>2. NoHole(known) /\ \A p \in requests : AtTheEdge(p)
      BY <3>1 DEF IInv, GapOK
    <3>3. NoHole(FilesOf(q)) /\ (q.type = "newer" => FilesOf(q) \subseteq {q.reference + 1})
      BY <1>4, FilesOfRequest
    <3>4. \A p \in requests : RequestOK(p)
      BY DEF IInv, RequestsOK
    <3>5. CASE ~received
      BY <1>1, <2>2, <3>2, <3>5 DEF AtTheEdge
    <3>6. CASE received /\ date
      <4>1. NoHole(known)'
        BY <2>2, <2>4, <3>3, <3>6
      <4>2. ASSUME NEW p \in requests' PROVE AtTheEdge(p)'
        <5>1. p \in requests /\ ~(p.type = "newer" /\ Accepts(p))
          BY <1>1, <3>1, <3>6, <4>2
        <5>2. p.chart = switches => p.symbol = symbol
          BY <3>4, <5>1 DEF RequestOK
        <5> QED BY <1>1, <5>1, <5>2 DEF AtTheEdge, Accepts
      <4> QED BY <4>1, <4>2
    <3>7. CASE received /\ q.type = "initial"
      <4>1. NoHole(known)'
        BY <2>2, <2>4, <3>3, <3>7
      <4>2. requestId = 1
        BY <1>4, <2>3, <3>7 DEF RequestOK
      <4>3. ASSUME NEW p \in requests' PROVE AtTheEdge(p)'
        <5>1. p \in requests /\ RequestOK(p) /\ p.id \in Nat
          BY <1>1, <3>4, <4>3 DEF RequestOK, Numbers
        <5>2. p.type = "newer" => p.id # 1
          BY <5>1 DEF RequestOK
        <5> QED BY <1>1, <4>2, <5>2 DEF AtTheEdge
      <4> QED BY <4>1, <4>3
    <3>8. CASE received /\ q.type = "newer"
      <4>1. q.id = requestId /\ requestId > 1 /\ q.chart = switches
        <5>1. q.id > 1 /\ q.id # 0
          BY <1>4, <3>8 DEF RequestOK
        <5> QED BY <2>3, <3>1, <3>8, <5>1
      <4>2. cache' = cache \cup candles /\ unread' = (unread \ FilesOf(q)) \cup failed
        <5>1. cache # {}
          BY <4>1 DEF IInv, CacheOK
        <5> QED BY <2>2, <3>8, <5>1
      <4>3. <<symbol, q.reference>> \in cache
        BY <3>2, <3>8, <4>1 DEF AtTheEdge
      <4>4. known' = known \cup FilesOf(q)
        <5>1. Of(cache \cup candles) = Of(cache) \cup Of(candles)
          BY DEF Of
        <5> QED BY <2>4, <4>2, <5>1
      <4>5. known \subseteq Int /\ q.reference \in known /\ q.reference \in Int
        <5>1. cache \subseteq {symbol} \X Files /\ unread \subseteq Files
          BY DEF IInv, CacheOK
        <5>2. Of(cache) \subseteq Files
          BY <5>1 DEF Of
        <5>3. q.reference \in Of(cache)
          <6>1. <<symbol, q.reference>>[2] = q.reference
            OBVIOUS
          <6> QED BY <4>3, <6>1 DEF Of
        <5>4. Files \subseteq Int
          BY DEF Files
        <5>5. known \subseteq Files /\ q.reference \in known
          BY <5>1, <5>2, <5>3
        <5> HIDE DEF known
        <5> QED BY <5>4, <5>5
      <4>6. NoHole(known')
        <5> HIDE DEF known
        <5> SUFFICES ASSUME NEW f \in known', NEW g \in known', NEW h \in f..g
                     PROVE  h \in known'
          BY DEF NoHole
        <5>1. FilesOf(q) \subseteq {q.reference + 1}
          BY <3>3, <3>8
        <5>2. CASE f \in known /\ g \in known
          BY <3>2, <4>4, <5>2 DEF NoHole
        <5>3. CASE f \in known /\ g \in FilesOf(q)
          <6>1. g = q.reference + 1
            BY <5>1, <5>3
          <6>2. h = g \/ h \in f..q.reference
            BY <4>5, <5>3, <6>1
          <6>3. h \in f..q.reference => h \in known
            BY <3>2, <4>5, <5>3 DEF NoHole
          <6> QED BY <4>4, <5>3, <6>2, <6>3
        <5>4. CASE f \in FilesOf(q) /\ g \in FilesOf(q)
          <6>1. f = q.reference + 1 /\ g = q.reference + 1
            BY <5>1, <5>4
          <6>2. h = g
            BY <4>5, <6>1
          <6> QED BY <4>4, <5>4, <6>2
        <5>5. CASE f \in FilesOf(q) /\ g \in known
          <6>1. f = q.reference + 1 /\ g \in Int
            BY <4>5, <5>1, <5>5
          <6>2. h \in q.reference..g
            BY <4>5, <6>1
          <6>3. h \in known
            BY <3>2, <4>5, <5>5, <6>2 DEF NoHole
          <6> QED BY <4>4, <6>3
        <5> QED BY <4>4, <5>2, <5>3, <5>4, <5>5
      <4>7. ASSUME NEW p \in requests' PROVE AtTheEdge(p)'
        <5>1. p \in requests /\ p # q
          BY <1>1, <4>7
        <5>2. ~(p.type = "newer" /\ p.chart = switches /\ p.id = requestId)
          BY <3>8, <4>1, <5>1 DEF IInv, RequestsOK
        <5> QED BY <1>1, <5>2 DEF AtTheEdge
      <4>8. NoHole(known)'
        BY <4>6
      <4> QED BY <4>7, <4>8
    <3> QED BY <1>4, <3>5, <3>6, <3>7, <3>8 DEF Numbers
  <2>8. BlankOK'
    <3> SUFFICES ASSUME HasIndicators, cache' = {} PROVE hasError' /\ ~isLoading'
      BY DEF BlankOK
    <3>1. ~received /\ cache = {}
      BY <2>2
    <3>2. incomplete /\ initial
      BY <3>1
    <3>3. hasError' = TRUE
      BY <2>1, <3>2 DEF Apply
    <3>4. ~isLoading'
      BY <2>1, <3>2 DEF Apply
    <3> QED BY <3>3, <3>4
  <2>9. PendingIsTimed'
    BY <2>1 DEF PendingIsTimed
  <2> QED BY <1>2, <1>3, <2>5, <2>6, <2>7, <2>8, <2>9 DEF IInv
<1> QED BY <1>5, <1>6

\* Timers, the loss of the connection and the drawing ask for nothing and change no candle.
LEMMA SameCandlesOK ==
    ASSUME IInv, UNCHANGED <<symbol, cache, requestId, dates, switches, crossed, unread>>,
           requests' \subseteq requests, faults' \in 0..MaxFaults,
           FlagsOK', passes' => passes, panes' => panes, BlankOK', PendingIsTimed'
    PROVE  IInv'
<1>1. BoundsOK'
  BY DEF IInv, BoundsOK
<1>2. CacheOK'
  BY DEF IInv, CacheOK
<1>3. RequestsOK'
  BY DEF IInv, RequestsOK, RequestOK
<1>4. GapOK'
  BY DEF IInv, GapOK, AtTheEdge
<1> QED BY <1>1, <1>2, <1>3, <1>4 DEF IInv

\* They keep the invariant.
LEMMA OthersOK ==
    ASSUME IInv, ThrottleEnds \/ TimesOut \/ WsCloses \/ ScheduledPass \/ HandlePanesCreated
                 \/ CheckLoadingStatus
    PROVE  IInv'
<1> USE DEF shown, rendering, asking, bounds, history
<1>0. FlagsOK /\ BlankOK /\ PendingIsTimed /\ faults \in 0..MaxFaults
      /\ (passes \/ panes => cache # {})
  BY DEF IInv, BoundsOK, CacheOK
<1>1. CASE ThrottleEnds
  <2>1. FlagsOK'
    <3>1. throttled' = FALSE /\ UNCHANGED <<shown, rendering, pendingRequest, timer, closed, crossed, requestId>>
      BY <1>1 DEF ThrottleEnds
    <3>2. pendingRequest' \in BOOLEAN /\ timer' \in BOOLEAN /\ throttled' \in BOOLEAN
      BY <1>0, <3>1, Zenon DEF FlagsOK
    <3>3. closed' \in BOOLEAN /\ crossed' \in BOOLEAN /\ (requestId' = 0 => closed')
      BY <1>0, <3>1, Zenon DEF FlagsOK
    <3>4. isLoading' \in BOOLEAN /\ hasError' \in BOOLEAN
          /\ isCandleReady' \in BOOLEAN /\ isChartInitialized' \in BOOLEAN
      BY <1>0, <3>1, Zenon DEF FlagsOK
    <3>5. finalize' \in BOOLEAN /\ restore' \in BOOLEAN /\ passDone' \in BOOLEAN
          /\ passes' \in BOOLEAN /\ panes' \in BOOLEAN
      BY <1>0, <3>1, Zenon DEF FlagsOK
    <3> QED BY <3>2, <3>3, <3>4, <3>5, Zenon DEF FlagsOK
  <2>2. BlankOK' /\ PendingIsTimed'
    BY <1>0, <1>1 DEF ThrottleEnds, BlankOK, PendingIsTimed
  <2> QED BY <1>0, <1>1, <2>1, <2>2, SameCandlesOK DEF ThrottleEnds
<1>2. CASE TimesOut
  <2>1. FlagsOK'
    BY <1>0, <1>2 DEF TimesOut, FlagsOK
  <2>2. BlankOK' /\ PendingIsTimed'
    BY <1>0, <1>2 DEF TimesOut, BlankOK, PendingIsTimed
  <2> QED BY <1>0, <1>2, <2>1, <2>2, SameCandlesOK DEF TimesOut
<1>3. CASE WsCloses
  <2>1. FlagsOK'
    BY <1>0, <1>3 DEF WsCloses, FlagsOK
  <2>2. BlankOK' /\ PendingIsTimed'
    BY <1>0, <1>3 DEF WsCloses, BlankOK, PendingIsTimed
  <2>3. faults' \in 0..MaxFaults
    BY <1>0, <1>3, ChartAssumption DEF WsCloses
  <2> QED BY <1>0, <1>3, <2>1, <2>2, <2>3, SameCandlesOK DEF WsCloses
<1>4. CASE ScheduledPass
  <2>1. FlagsOK'
    BY <1>0, <1>4 DEF ScheduledPass, FlagsOK
  <2>2. BlankOK' /\ PendingIsTimed'
    BY <1>0, <1>4 DEF ScheduledPass, BlankOK, PendingIsTimed
  <2> QED BY <1>0, <1>4, <2>1, <2>2, SameCandlesOK DEF ScheduledPass
<1>5. CASE HandlePanesCreated
  <2>1. FlagsOK'
    BY <1>0, <1>5 DEF HandlePanesCreated, FlagsOK
  <2>2. BlankOK' /\ PendingIsTimed'
    BY <1>0, <1>5 DEF HandlePanesCreated, BlankOK, PendingIsTimed
  <2> QED BY <1>0, <1>5, <2>1, <2>2, SameCandlesOK DEF HandlePanesCreated
<1>6. CASE CheckLoadingStatus
  <2>1. FlagsOK'
    BY <1>0, <1>6, Zenon DEF CheckLoadingStatus, FlagsOK
  <2>2. BlankOK' /\ PendingIsTimed'
    BY <1>0, <1>6 DEF CheckLoadingStatus, BlankOK, PendingIsTimed
  <2> QED BY <1>0, <1>6, <2>1, <2>2, SameCandlesOK DEF CheckLoadingStatus
<1> QED BY <1>1, <1>2, <1>3, <1>4, <1>5, <1>6

-----------------------------------------------------------------------------
(* The theorems.                                                           *)

\* Every step of the chart keeps the invariant, from its mounting on.
THEOREM Inductive == Spec => []IInv
<1>1. ASSUME IInv, [Next]_vars PROVE IInv'
  <2> USE <1>1
  <2>1. ASSUME NEW s \in Symbols, SelectSymbol(s) PROVE IInv'
    BY <2>1, SelectSymbolOK
  <2>2. CASE VisibleRangeChange
    BY <2>2, VisibleRangeChangeOK
  <2>3. ASSUME NEW date \in 0..NumFiles + 1, ReloadDataFromTimestamp(date) PROVE IInv'
    BY <2>3, ReloadOK
  <2>4. ASSUME NEW q \in requests, NEW visible \in BOOLEAN, Answered(q, visible) PROVE IInv'
    <3>1. FilesOf(q) # {} => Candles(q) # {}
      BY DEF Candles
    <3>2. (HasIndicators /\ FilesOf(q) # {}) \in BOOLEAN /\ faults' \in 0..MaxFaults
      BY <2>4 DEF Answered, IInv, BoundsOK
    <3>3. OnWsMessage(q, {}, Candles(q), HasIndicators /\ FilesOf(q) # {}, visible)
      BY <2>4 DEF Answered
    <3> QED BY <3>1, <3>2, <3>3, OnWsMessageOK
  <2>5. ASSUME NEW q \in requests, NEW visible \in BOOLEAN, NEW failed \in SUBSET FilesOf(q),
               NEW candles \in SUBSET Candles(q), NEW indicators \in BOOLEAN,
               AnsweredInPart(q, failed, candles, indicators, visible)
        PROVE  IInv'
    <3>1. /\ OnWsMessage(q, failed, candles, indicators, visible) /\ faults < MaxFaults
          /\ {c \in Candles(q) : c[2] \notin failed} \subseteq candles /\ (indicators => candles # {})
          /\ faults' = faults + 1
      BY <2>5 DEF AnsweredInPart
    <3>2. faults \in 0..MaxFaults /\ MaxFaults \in Nat
      BY ChartAssumption DEF IInv, BoundsOK
    <3>3. faults' \in 0..MaxFaults
      BY <3>1, <3>2
    <3> QED BY <3>1, <3>3, OnWsMessageOK
  <2>6. CASE ThrottleEnds \/ TimesOut \/ WsCloses \/ ScheduledPass \/ HandlePanesCreated
             \/ CheckLoadingStatus
    BY <2>6, OthersOK
  <2>7. CASE UNCHANGED vars
    <3>1. BoundsOK' /\ FlagsOK' /\ CacheOK'
      BY <2>7 DEF vars, shown, rendering, asking, bounds, history, IInv, BoundsOK, FlagsOK, CacheOK
    <3>2. RequestsOK'
      BY <2>7 DEF vars, shown, rendering, asking, bounds, history, IInv, RequestsOK, RequestOK
    <3>3. GapOK' /\ BlankOK' /\ PendingIsTimed'
      BY <2>7 DEF vars, shown, rendering, asking, bounds, history, IInv, GapOK, AtTheEdge, BlankOK, PendingIsTimed
    <3> QED BY <3>1, <3>2, <3>3 DEF IInv
  <2> QED BY <2>1, <2>2, <2>3, <2>4, <2>5, <2>6, <2>7 DEF Next
<1> QED BY <1>1, InitOK, PTL DEF Spec

\* Type correctness: the counters stay below their bounds, the flags are flags.
THEOREM TypeCorrect == Spec => []TypeOK
<1>1. IInv => TypeOK
  <2> SUFFICES ASSUME IInv PROVE TypeOK
    OBVIOUS
  <2>1. symbol \in Symbols /\ cache \subseteq Symbols \X Files /\ unread \subseteq Files
    BY DEF IInv, CacheOK
  <2>2. \A q \in requests : q.symbol \in Symbols /\ q.type \in {"initial", "newer", "date"}
    BY DEF IInv, RequestsOK, RequestOK, Numbers
  <2>3. /\ {pendingRequest, timer, throttled, closed, crossed} \subseteq BOOLEAN
        /\ {isLoading, hasError, isCandleReady, isChartInitialized} \subseteq BOOLEAN
        /\ {finalize, restore, passDone, passes, panes} \subseteq BOOLEAN
    BY DEF IInv, FlagsOK
  <2> QED BY <2>1, <2>2, <2>3 DEF IInv, BoundsOK, TypeOK
<1> QED BY <1>1, Inductive, PTL

\* The candles on the chart are those of its symbol, in whichever order the answers to it
\* and to the charts before it come.
THEOREM CandlesOfThisSymbol == Spec => []OfThisSymbol
<1>1. IInv => OfThisSymbol
  BY DEF IInv, CacheOK, OfThisSymbol
<1> QED BY <1>1, Inductive, PTL

\* Late, partial and dropped answers leave no hole in the candles but the files the server
\* failed to read: only a date that overtakes the request the chart waits for does, or an
\* answer to an earlier mount.
THEOREM OnlyUnreadMissing == Spec => []MissingIsUnread
<1>1. IInv => MissingIsUnread
  <2> SUFFICES ASSUME IInv, ~crossed, NEW f \in OnChart, NEW g \in OnChart, NEW h \in f..g
               PROVE  h \in OnChart \cup unread
    BY DEF MissingIsUnread
  <2>1. OnChart = Of(cache)
    BY DEF OnChart, Of
  <2> QED BY <2>1 DEF IInv, GapOK, NoHole
<1> QED BY <1>1, Inductive, PTL

\* A chart never waits without a timer, except when the connection is lost.
THEOREM WaitingIsTimed == Spec => []PendingIsTimed
<1>1. IInv => PendingIsTimed
  BY DEF IInv
<1> QED BY <1>1, Inductive, PTL

\* A chart with indicators that ends loading without a candle shows the error.
THEOREM BlankShowsError == Spec => []BlankIsError
<1>1. IInv => BlankIsError
  BY DEF IInv, BlankOK, BlankIsError
<1> QED BY <1>1, Inductive, PTL
=============================================================================
