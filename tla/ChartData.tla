----------------------------- MODULE ChartData -----------------------------
(***************************************************************************)
(* The candles of a chart: a few files of bars at first, one more each     *)
(* time the user nears the right edge, or those around a date he chooses   *)
(* in the calendar.                                                        *)
(*                                                                         *)
(* The server answers each request as its files are read, in any order,    *)
(* and without those that cannot be read.                                  *)
(* The requests of the chart carry a number, and an answer to another one  *)
(* is dropped; those of the calendar carry none.  A timer ends the waiting *)
(* but not the request.  What ends the loading of a chart is a handshake   *)
(* of its own: the pass after the candles, and the panes of indicators.    *)
(***************************************************************************)
EXTENDS Integers, FiniteSets, FiniteSetsExt

CONSTANTS
    Symbols,
    NumFiles,       \* files of bars of each symbol, in the order of time
    InitialCount,   \* files of the first request
    DateCount,      \* files up to a date
    HasIndicators,  \* the configuration plots indicators
    MaxRequests, MaxDates, MaxSwitches, MaxFaults  \* bounds

ASSUME ChartAssumption ==
    /\ Symbols # {} /\ HasIndicators \in BOOLEAN
    /\ {NumFiles, InitialCount, DateCount} \subseteq Nat \ {0}
    /\ MaxRequests \in Nat \ {0} /\ {MaxDates, MaxSwitches, MaxFaults} \subseteq Nat

Files == 1..NumFiles

VARIABLES
    symbol,         \* the chart that is mounted
    cache,          \* dataCacheRef, sorted and without duplicates: the files in it
    pendingRequest, \* pendingRequestRef
    isLoading, hasError,
    isCandleReady, isChartInitialized,
    finalize,       \* initialRenderFinalizePendingRef
    restore,        \* initialRangeRestorePendingRef
    passDone,       \* initialRangeScheduledPassDoneRef
    passes,         \* the pass after the candles is scheduled
    panes,          \* indicators are being put in their panes
    requestId,      \* requestIdRef and latestRequestIdRef
    timer,          \* timeoutTimerRef
    throttled,
    requests,       \* asked and not answered
    closed,         \* the connection to the server
    dates, switches, faults,
    crossed,        \* more candles came than the last are followed by: a date replaced them
                    \* meanwhile, or the chart mounted before had asked
    unread          \* history: the files that could not be read, or not to the end, for the
                    \* answers the candles come from

shown == <<isLoading, hasError, isCandleReady, isChartInitialized>>
rendering == <<finalize, restore, passDone, passes, panes>>
asking == <<pendingRequest, requestId, timer, throttled, requests>>
bounds == <<dates, switches, faults>>
history == <<crossed, unread>>
vars == <<symbol, cache, shown, rendering, asking, closed, bounds, history>>

\* What a request is about: the number 0 is that of the calendar.  That it is the n-th
\* chart that asks is not in the request, and no answer is told from another by it.
Request(s, n, id, type, reference) ==
    [symbol |-> s, chart |-> n, id |-> id, type |-> type, reference |-> reference]

----------------------------------------------------------------------------
(* The server.                                                              *)

FirstFiles == 1..Min({InitialCount, NumFiles})

FilesOfMutant(q) ==
    CASE q.type = "initial" -> FirstFiles
      [] q.type = "newer" -> {f \in Files : f >= q.reference + 2 /\ f < q.reference + 3}
      [] q.type = "date" ->
            IF q.reference < 1 THEN 1..Min({DateCount, NumFiles})
            ELSE LET last == Min({q.reference, NumFiles})
                 IN {f \in Files : f > last - DateCount /\ f <= last}

\* The first files, the one after the last candle, or those up to the one that holds the
\* date or is the last before it.
FilesOf(q) ==
    CASE q.type = "initial" -> FirstFiles
      [] q.type = "newer" -> {f \in Files : f > q.reference /\ f <= q.reference + 1}
      [] q.type = "date" ->
            IF q.reference < 1 THEN 1..Min({DateCount, NumFiles})
            ELSE LET last == Min({q.reference, NumFiles})
                 IN {f \in Files : f > last - DateCount /\ f <= last}

Candles(q) == {<<q.symbol, f>> : f \in FilesOf(q)}

----------------------------------------------------------------------------
(* The chart.                                                               *)

\* A chart is mounted, with numbers of its own.
Mounted(s) ==
    /\ symbol' = s /\ cache' = {} /\ unread' = {} /\ throttled' = FALSE
    /\ isLoading' = TRUE /\ hasError' = FALSE /\ isCandleReady' = FALSE
    /\ isChartInitialized' = FALSE
    /\ finalize' = FALSE /\ restore' = FALSE /\ passDone' = FALSE /\ passes' = FALSE /\ panes' = FALSE

\* It asks for its first files.  Without a connection it waits for one to open, which
\* never happens: it asks for nothing and sets no timer.
SelectSymbol(s) ==
    /\ s # symbol /\ switches < MaxSwitches /\ switches' = switches + 1
    /\ Mounted(s)
    /\ pendingRequest' = ~closed /\ timer' = ~closed
    /\ IF closed THEN requestId' = 0 /\ UNCHANGED requests
       ELSE /\ requestId' = 1
            /\ requests' = requests \cup {Request(s, switches', 1, "initial", 0)}
    /\ UNCHANGED <<closed, dates, faults, crossed>>

\* The user scrolls to the right edge, at most once in a second.
VisibleRangeChange ==
    /\ isChartInitialized /\ ~pendingRequest /\ ~isLoading /\ ~throttled /\ cache # {} /\ ~closed
    /\ requestId < MaxRequests
    /\ throttled' = TRUE /\ pendingRequest' = TRUE /\ timer' = TRUE /\ requestId' = requestId + 1
    /\ requests' = requests \cup {Request(symbol, switches, requestId', "newer",
                                        Max({c[2] : c \in cache}))}
    /\ UNCHANGED <<symbol, cache, shown, rendering, closed, bounds, history>>

ThrottleEnds ==
    /\ throttled /\ throttled' = FALSE
    /\ UNCHANGED <<symbol, cache, shown, rendering, pendingRequest, requestId, timer, requests, closed,
                   bounds, history>>

\* A date outside the candles; one among them needs no request.  The last file holds dates
\* after its candles if it was not read to the end.
ReloadDataFromTimestamp(date) ==
    /\ cache # {} /\ ~closed
    /\ \/ date \notin Min({c[2] : c \in cache})..Max({c[2] : c \in cache})
       \/ date = Max({c[2] : c \in cache}) /\ date \in unread
    /\ dates < MaxDates /\ dates' = dates + 1
    /\ requests' = requests \cup {Request(symbol, switches, 0, "date", date)}
    /\ UNCHANGED <<symbol, cache, shown, rendering, pendingRequest, requestId, timer, throttled, closed,
                   switches, faults, history>>

AcceptsMutant(q) == q.id \in {0, requestId}

Accepts(q) == q.id \in {0, requestId} /\ q.symbol = symbol

\* The candles, all but those of the files that failed, and whether those of an indicator
\* came with them.
Apply(q, failed, candles, indicators, visible) ==
    LET initial == q.type = "initial" \/ cache = {}
        date == q.type = "date"
        received == candles # {}
        incomplete == HasIndicators /\ ~indicators
        drawn == visible /\ (initial \/ date) /\ received
    IN /\ cache' = IF ~received THEN cache
                   ELSE IF initial \/ date THEN candles ELSE cache \cup candles
       /\ unread' = IF ~received THEN unread
                    ELSE IF initial \/ date THEN failed ELSE (unread \ FilesOf(q)) \cup failed
       /\ hasError' = IF incomplete /\ initial THEN TRUE
                      ELSE IF ~incomplete /\ (drawn \/ (~visible /\ initial)) THEN FALSE
                      ELSE hasError \/ (initial /\ ~received)
       /\ isLoading' = (isLoading /\ ~(initial /\ (incomplete \/ ~received))
                                  /\ ~(~received /\ ~HasIndicators))
       /\ isCandleReady' = (isCandleReady \/ drawn \/ (~visible /\ initial))
       /\ IF drawn
          THEN /\ restore' = (initial /\ ~date /\ HasIndicators) /\ finalize' = (initial /\ ~date)
               /\ passDone' = FALSE /\ passes' = TRUE /\ panes' = indicators
          ELSE /\ panes' = (panes \/ (indicators /\ isChartInitialized))
               /\ UNCHANGED <<restore, finalize, passDone, passes>>
       /\ crossed' = (crossed \/ (IF date THEN received /\ \E p \in requests : p.type = "newer" /\ Accepts(p)
                                  ELSE q.type = "newer" /\ q.chart # switches))

\* An answer ends the waiting whatever it brings.
OnWsMessage(q, failed, candles, indicators, visible) ==
    /\ requests' = requests \ {q}
    /\ IF Accepts(q)
       THEN /\ Apply(q, failed, candles, indicators, visible)
            /\ pendingRequest' = FALSE /\ timer' = FALSE
       ELSE UNCHANGED <<cache, isLoading, hasError, isCandleReady, rendering, history, pendingRequest,
                        timer>>
    /\ UNCHANGED <<symbol, isChartInitialized, requestId, throttled, closed, dates, switches>>

Answered(q, visible) ==
    /\ OnWsMessage(q, {}, Candles(q), HasIndicators /\ FilesOf(q) # {}, visible)
    /\ UNCHANGED faults

\* A file that cannot be read, or not to the end, is passed over, and so is an indicator:
\* the answer is what is left, with the first candles of a file that failed or without any.
AnsweredInPart(q, failed, candles, indicators, visible) ==
    /\ faults < MaxFaults /\ faults' = faults + 1
    /\ {c \in Candles(q) : c[2] \notin failed} \subseteq candles /\ (indicators => candles # {})
    /\ OnWsMessage(q, failed, candles, indicators, visible)

\* The timer: the answer may still come, and count.
TimesOut ==
    /\ timer /\ timer' = FALSE /\ pendingRequest' = FALSE
    /\ isLoading' = FALSE /\ hasError' = TRUE
    /\ UNCHANGED <<symbol, cache, isCandleReady, isChartInitialized, rendering, requestId, throttled,
                   requests, closed, bounds, history>>

\* The connection is lost for good: nothing is answered any more.  The request stays
\* marked as pending.
WsCloses ==
    /\ ~closed /\ faults < MaxFaults /\ faults' = faults + 1
    /\ closed' = TRUE /\ requests' = {} /\ timer' = FALSE /\ isLoading' = FALSE /\ hasError' = TRUE
    /\ UNCHANGED <<symbol, cache, pendingRequest, isCandleReady, isChartInitialized, rendering, requestId,
                   throttled, dates, switches, history>>

\* The pass after the candles of the first request or of a date.
ScheduledPassMutant ==
    /\ passes /\ passes' = FALSE /\ passDone' = FALSE /\ isChartInitialized' = TRUE
    /\ IF finalize /\ ~restore THEN finalize' = FALSE /\ isLoading' = FALSE
       ELSE UNCHANGED <<finalize, isLoading>>
    /\ UNCHANGED <<symbol, cache, hasError, isCandleReady, restore, panes, asking, closed, bounds,
                   history>>

ScheduledPass ==
    /\ passes /\ passes' = FALSE /\ passDone' = TRUE /\ isChartInitialized' = TRUE
    /\ IF finalize /\ ~restore THEN finalize' = FALSE /\ isLoading' = FALSE
       ELSE UNCHANGED <<finalize, isLoading>>
    /\ UNCHANGED <<symbol, cache, hasError, isCandleReady, restore, panes, asking, closed, bounds,
                   history>>

HandlePanesCreated ==
    /\ panes /\ panes' = FALSE /\ restore' = FALSE
    /\ IF finalize /\ ~passDone THEN UNCHANGED <<finalize, isLoading>>
       ELSE finalize' = FALSE /\ isLoading' = FALSE
    /\ UNCHANGED <<symbol, cache, hasError, isCandleReady, isChartInitialized, passDone, passes, asking,
                   closed, bounds, history>>

\* Every second, and the timer that opens a chart which was not drawn.
CheckLoadingStatus ==
    /\ isCandleReady /\ ~finalize
    /\ \/ isLoading /\ ~pendingRequest
       \/ cache # {} /\ ~isChartInitialized
    /\ isLoading' = (isLoading /\ pendingRequest)
    /\ isChartInitialized' = (isChartInitialized \/ cache # {})
    /\ UNCHANGED <<symbol, cache, hasError, isCandleReady, rendering, asking, closed, bounds, history>>

Init ==
    /\ symbol \in Symbols /\ cache = {} /\ pendingRequest = TRUE /\ requestId = 1 /\ timer = TRUE
    /\ throttled = FALSE /\ isLoading = TRUE /\ hasError = FALSE /\ isCandleReady = FALSE
    /\ isChartInitialized = FALSE
    /\ finalize = FALSE /\ restore = FALSE /\ passDone = FALSE /\ passes = FALSE /\ panes = FALSE
    /\ requests = {Request(symbol, 0, 1, "initial", 0)} /\ closed = FALSE
    /\ dates = 0 /\ switches = 0 /\ faults = 0 /\ crossed = FALSE /\ unread = {}

Next ==
    \/ \E s \in Symbols : SelectSymbol(s)
    \/ VisibleRangeChange \/ ThrottleEnds
    \/ \E date \in 0..NumFiles + 1 : ReloadDataFromTimestamp(date)
    \/ \E q \in requests, visible \in BOOLEAN :
        \/ Answered(q, visible)
        \/ \E failed \in SUBSET FilesOf(q), candles \in SUBSET Candles(q), indicators \in BOOLEAN :
              AnsweredInPart(q, failed, candles, indicators, visible)
    \/ TimesOut \/ WsCloses
    \/ ScheduledPass \/ HandlePanesCreated \/ CheckLoadingStatus

Spec == Init /\ [][Next]_vars

\* Timers fire and frames are drawn; the server need not answer.
Progress == TimesOut \/ ScheduledPass \/ HandlePanesCreated \/ CheckLoadingStatus

FairSpec == Spec /\ WF_vars(Progress)

----------------------------------------------------------------------------
(* Properties.                                                              *)

TypeOK ==
    /\ symbol \in Symbols /\ cache \subseteq Symbols \X Files
    /\ {pendingRequest, timer, throttled, closed, crossed} \subseteq BOOLEAN
    /\ {isLoading, hasError, isCandleReady, isChartInitialized} \subseteq BOOLEAN
    /\ {finalize, restore, passDone, passes, panes} \subseteq BOOLEAN
    /\ requestId \in 0..MaxRequests /\ unread \subseteq Files
    /\ \A q \in requests : q.symbol \in Symbols /\ q.type \in {"initial", "newer", "date"}
    /\ dates \in 0..MaxDates /\ switches \in 0..MaxSwitches /\ faults \in 0..MaxFaults

\* The candles are those of the symbol on the chart, whatever was asked for before.
OfThisSymbol == \A c \in cache : c[1] = symbol

OnChart == {c[2] : c \in cache}

\* Between the first and the last candle on the chart only bars the server could not read
\* are missing, whatever is answered late, in part or after its timer: the chart neither
\* skips nor forgets any itself, unless a date was answered while the chart waited, or an
\* answer to the same chart mounted before bears the number it waits for.
MissingIsUnread ==
    ~crossed => \A f, g \in OnChart : \A h \in f..g : h \in OnChart \cup unread

\* A chart that asks for more waits for an answer and for a timer, until the connection
\* is lost.
PendingIsTimed == pendingRequest /\ ~closed => timer

\* A chart without candles says that something went wrong, if it plots indicators.
BlankIsError == HasIndicators /\ ~isLoading /\ cache = {} => hasError

\* Loading ends, drawn or in an error, in whichever order candles, panes and the pass come,
\* if the chart could ask for candles at all (one mounted without a connection could not).
LoadingEnds == isLoading /\ requestId > 0 ~> ~isLoading \/ requestId = 0

\* Loading ends.  The code does not keep this: a chart mounted after the connection is lost
\* never gets to loadChartData, which would give up after a few failures to ask.
LoadingAlwaysEnds == isLoading ~> ~isLoading

\* No bars are missing on the chart.  The code does not keep this: a file the server cannot
\* read is left out without a word, a date is not held up by the request the chart waits
\* for, and the numbers of a chart start again at 1.
NoGap == \A f, g \in OnChart : f..g \subseteq OnChart
=============================================================================
