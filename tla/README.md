# Verification of the backtesting engine

TLA+ models of this repository's own core logic, in three layers: the C++ backtesting engine (order handler,
account, main loop, command server), the Node server that drives it (bridge to the engine, configuration on disk,
chart data), and the parts of the React application in which answers, timers and workers race (strategy editor, chart,
trade filter, selected result). TLC checks them on small instances (`*.cfg`); TLAPS proves their safety properties, but for those of the bridge, and the
two refinements, for every value of the constants (`*_proofs.tla`).

Paths below are relative to the repository, with `E/` for `Sources/Cores/Engines/`, `S/` for `Sources/Clients/Servers/`
and `A/` for `Sources/Clients/Apps/`.

## 1. The system

A Windows desktop application ("BackBoard") for backtesting strategies on cryptocurrency futures. A React application
talks over a WebSocket to a Node server (`S/Launch.js`), which drives one C++ engine process over its standard input and
output. The engine reads price bars of several symbols, runs a strategy compiled to a DLL over them, simulates an
exchange's order book, margin, funding and liquidation, and writes a trade list and a report.

| Component | State | Operations | Interacts with |
|---|---|---|---|
| **Order handler** `E/OrderHandler.cpp`, `E/BaseOrderHandler.cpp` | per symbol: pending entries, pending exits, filled entries, leverage; the flags `just_entered_`, `just_exited_`, `is_reverse_exit_` | market, limit, MIT, LIT and trailing entries and exits; `Cancel`, `CancelAll`, `CloseAll`; checks of liquidation, pending entries and exits; fills; `ExecuteFunding`, `AdjustLeverage`, `IncreaseMargin` | called by strategies and by the main loop; moves the account; gives trades to the analyzer |
| **Account** `E/BaseEngine.cpp` | `wallet_balance_`, `used_margin_`, `available_balance_`, drawdown statistics | increase and decrease of each, which throw when a balance would go negative | called by the order handler |
| **Main loop** `E/Engine.cpp` | the open and close time of the bar, the active and the ended symbols, funding positions, the queue `should_fill_orders_`, the strategy type that runs | `BacktestingMain`, `UpdateTradingStatus`, `CheckFundingTime`, `ProcessBarIndex`, `ProcessOhlc`, `ExecuteStrategy`, `ExecuteChainedAfterStrategies`, `ExecuteTradingEnd`, `ExecuteAllTradingEnd` | calls the order handler and the strategies |
| **Strategies** `E/Strategy.cpp`, `E/StrategyLoader.cpp` | user code in a DLL | `ExecuteOnClose`, `ExecuteAfterEntry`, `ExecuteAfterExit` | call the order handler re-entrantly, from within the loop over the fills |
| **Bar handler** `E/BarHandler.cpp`, `E/BarData.cpp` | the bars per symbol, type and timeframe, and a current index of each | `AddBarData`, `ProcessBarIndices`, `ResetBarHandler` | read by the loop, the indicators and the strategies |
| **Indicators, slippage, symbol information, configuration** | series of numbers; value objects | computed or built once | read by strategies and orders |
| **Analyzer** `E/Analyzer.cpp` | the trade list and the report | `AddTrade`, `Save...` | called by the order handler and the engine |
| **Logger** `E/Logger.cpp` | buffers, files | `Log`, flush | everyone |
| **Fetcher** `E/BinanceFetcher.cpp` | none | downloads bars, funding rates, exchange information | the command server |
| **Command server** `E/Backtesting.cpp` | the slot `pending_command`, `should_exit`, `stop_requested_`, whether cached bars are to be added again, the cached bars and funding rates | `RunServer` (a reader thread and the main thread), `RunSingleBacktesting`, `FetchOrUpdateBarData`, `ResetCores` | reads its standard input, writes its standard output |
| **Engine bridge** `S/BacktestingEngine.js` | the engine process, whether it is ready, the requesters waiting for a result, the clients | starts and kills the engine, writes commands, turns output lines into messages | between the WebSocket server and the command server |
| **Editor configuration** `S/BacktestingEngine.js` | `editor.json`, its backup and temporary file, the value in memory | load with recovery, signed atomic save | WebSocket server, bridge |
| **WebSocket and HTTP server** `S/Launch.js` | connections, a shutdown timer | routes | clients, bridge, chart data |
| **Chart data handler** `S/ChartDataHandler.js` | parquet readers, caches | slices of series | HTTP server |
| **Electron shell** `Sources/Clients/Electron/` | a window | starts the server | server |
| **Strategy editor** `A/Components/StrategyEditor/` | per window: running, stop requested, building, hash of the last configuration sent, reload flag | run, stop, fetch, change of the configuration; messages of what ended | WebSocket server |
| **Selected result** `A/Contexts/ResultsContext.tsx`, `A/Components/Window/TitleBar.tsx`, `A/App.tsx` | the selected result and its version, the spinner, the title bar's lock, the configuration of the result and whose it is | a selection by the user, a success or the first load; requests with retries | HTTP server; every view |
| **Trade filter** `A/Components/TradeFilter/TradeFilterProvider.tsx`, `A/Workers/TradeFilterManager.ts`, `A/Workers/TradeFilterWorker.ts` | the trades of the result, the filter, the filtered trades; tasks, chunks that wait, busy workers | load, filter in chunks over a pool of workers, recalculate balances | HTTP server, selected result; every view |
| **Chart** `A/Components/Chart/Chart.tsx`, `A/Components/Chart/Calendar.tsx` | the candles held, the request it waits for and its timer, how far the first drawing is | first request, more at the right edge, a date, answers, time-outs | WebSocket server |
| **Other views** `A/Components/` | what they draw | reports, logs, tables, curves | selected result, trade filter |

### What is hard, and what makes each component correct

* **Order handler.** An entry's margin is reserved, released, taken again when the leverage changes, split by partial
  exits, topped up by the strategy, drained by funding and freed by liquidation; pending exits hold *copies* of the
  margin and the funding of the entry they target; and both sides meet by name. Correct when, at every point, the used
  margin is what the orders hold (`MarginConservation`), the wallet is explained by the trades
  (`PnlConservation`), no step takes more than the wallet covers (`MarginCovered`), the copies are current
  (`ExitsTrackEntries`), names denote one order (`FilledNamesUnique`, `PendingNamesUnique`), positions of a symbol
  face one way at one leverage (`OneSide`, `OneLeverage`) and `CloseAll` closes all (`CloseAllClosesAll`).
* **Main loop.** Strategies run between two fills of a queue collected before, and may cancel, replace or close what
  the queue still holds; two flags serve every symbol. Correct when nothing stale is filled (`QueueNeverRevives`,
  `ExitsKeepTheirEntry`), AFTER strategies run exactly for what happened
  (`AfterExitEarned`, `AfterEntryEarned`, `StrategiesCaughtUp`), of a symbol whose data end nothing is left that may be closed (`EndedIsClosed`), and
  it ends (`Terminates`).
* **Command server.** Two threads around a slot of one command and a flag set by one and cleared by the other; bar data
  that outlive a run which a stop or an error may interrupt anywhere. Correct when no command is lost
  or left lying (`CommandTaken`), a run has the bars it needs
  (`BarDataWhole`, `FreshBarData`) and one run leaves nothing that breaks the next (`FailsOnErrorsOnly`).
* **Bridge, editor and clients.** Results are matched with requesters by the order of the requests, and successes wait for
  files; a client tells the engine to add the bars again by comparing with what it *sent*; an engine that dies is not
  started again. Correct when no success or failure finds nobody to tell (`SomeoneIsTold`), a backtest runs on the bars its
  client shows (`BarsMatch`, `BarsAsShown`) and whoever asked is released (`AnsweredIsReleased`, `UINotStuck`).
* **Editor configuration.** A save is a sequence of file operations a crash may cut and any of which may fail; loads wait
  half-way while other handlers run; every client saves what it shows, and the engine's reports change the same file.
  Correct when the files behave as one register (`ImplementsRegister`), memory agrees with them (`MemoryOnDisk`), only a
  configuration that was loaded is saved (`TypeOK`), and a start finds what was saved (`DefaultOnlyWithoutConfig`).
* **Trade filter.** Workers cannot be interrupted, so that chunks of filters nobody waits for any more are still answered;
  two requests per result arrive in any order, also after another was selected. Correct when what is shown is what the filter
  keeps of the selected result (`ShownIsFiltered`, `TradesOfSelected`, `ShownWhole`), recalculated balances follow one from another
  (`BalancesFollow`), no chunk is lost or filtered twice (`ChunksAccounted`), no worker idles while one waits
  (`NoWorkerSpared`) and it ends (`FilteringEnds`).
* **Selected result.** The number that tells the current selection from those before is a field of a function that each change
  makes anew; three actors call versions of it from different renders. Correct when nothing stays locked or under the spinner
  (`NothingLeftOn`, `LockReleased`, `SpinnerCovers`) and the chart gets its own result's configuration (`ChartMountable`).
* **Chart.** A timer ends the waiting but not the request; requests of the calendar carry no number; what ends the loading
  is a handshake of frames, panes and timers in no fixed order; a file the server cannot read is passed over in silence. Correct when
  candles are of the chart's symbol (`OfThisSymbol`) and none are missing but those of such files (`MissingIsUnread`, `NoGap`), waiting and blank
  charts do not last (`PendingIsTimed`, `BlankIsError`, `LoadingEnds`, `LoadingAlwaysEnds`).
* **Bar handler and clock of the main loop.** Data of several timeframes with bars missing anywhere, and an index into each that several
  places move. Correct when a symbol that trades stands at the bar of the moment (`OnItsBar`) and at the mark price of the moment (`MarkMatched`), no
  strategy reads a bar that has not closed (`ReadsThePast`), what is left at the end of the data is closed at a bar of them (`ClosedAtABar`), no funding
  is left behind (`FundingsCatchUp`) and nobody trades on reference bars that have ended (`StaleEnds`).

The list in `PROJECT.json` under `hazards` names the line at which each of these bites.

## 2. Modules

| Module | Models |
|---|---|
| `Sums` | the total of a function over `1..n`, by a recursive function |
| `OrderHandler` | order handler and account |
| `BacktestLoop` | main loop with its strategies, orders reduced to identity and name |
| `BarClock` | main loop with its times, indices and bars, orders reduced to whether there are any |
| `CommandLines` | the lines between bridge and engine |
| `CommandServer` | engine run as a server: its two threads |
| `CommandEngine` | the same as the bridge sees it, one process; `CommandServer` implements it |
| `EngineBridge` | strategy editors, bridge and engine together, built on `CommandEngine` |
| `EditorConfig` | the configuration on disk, in the server's memory and in the clients |
| `ConfigRegister` | what saving promises: a register written as a whole; `EditorConfig` implements it |
| `TradeFilter` | provider, manager and workers of the trade filter |
| `ResultsView` | selected result and its configuration |
| `ChartData` | chart, calendar and the handler that answers them |
| `OrderHandler_proofs`, `BacktestLoop_proofs`, `BarClock_proofs`, `ServerAndBridge_proofs`, `EditorConfig_proofs`, `TradeFilter_proofs`, `ResultsView_proofs`, `ChartData_proofs` | theorems |
| `MCOrderHandler`, `MCBacktestLoop`, `MCBarClock`, `MCCommandServer`, `MCEngineBridge`, `MCEditorConfig`, `MCTradeFilter`, `MCResultsView`, `MCChartData` | constants of the runs |

`OrderHandler` and `BacktestLoop` look at the same handler from two sides. The first has the money and lets fills,
strategies and funding come in any order, a superset of the orders the loop produces; the second has that order and no
money. Their shared names (`FillLiquidation`, `IsValidEntryName`, ...) stand for the same functions.

### OrderHandler

State and code: `wallet`, `usedMargin`, `leverage` are `wallet_balance_`, `used_margin_`, `leverages_`; the available
balance is derived, as `SetAvailableBalance` does after each change. `pending_entries_` and `filled_entries_` are the
stages of one array of slots, `entry`; `pending_exits_` is `exit`. `netPnl` is the sum of the net profits of the trades
the analyzer was given.

Prices are abstracted to what they decide. Whether a price touches an order, the margin it needs, the profit and the fee of
a fill and the amount of a funding are inputs chosen from the constants; every guard on balances, names, sizes and
leverages is the code's. Amounts are integers; the share of margin and funding a partial exit takes is rounded down, as
an integer, where the code has floating point: both sides of each conservation law use the same share, so that nothing
depends on the rounding.

A fill of an entry is a call that loops: it closes opposite positions (`ReverseExit`), then changes the leverage
(`AdjustLeverage`) and re-margins each pending entry of the symbol (`Readjust`), then admits the position or drops it
(`Admit`). Each iteration is a step, and while the call is on the stack (`step # "none"`) nothing else is enabled. So is
a change of leverage that a strategy asks for (`AdjustLeverageOf`, then `Readjust` with `filling = 0`), refused while the symbol has a position. An
exception ends the backtest (`engineError`). `ExecuteFunding` settles one position at a time where the code loops over
the positions of a symbol: the behaviours of the loop are among these. A strategy may call any operation at any time
outside a fill. `ReusesFilledName` says whether a strategy's immediate market entry may use the name of a filled entry,
which the code allows: with `TRUE`, `FilledNamesUnique` is violated. The runs and the theorems assume strategies that do not.

MIT and trailing entries are `PlaceEntry` of kind MARKET: they wait without margin and fill at market. The checks that
reject an order before anything changes (a price on the wrong side, a zero size) are inputs not offered.

### BacktestLoop

`pc` is the loop the single thread is in. A bar goes through `UpdateTradingStatus` (a symbol has a bar, lacks one or
has ended), `CheckFundingTime`, `NumPrices` prices for each symbol, and ON_CLOSE for each symbol; a price collects the
orders it triggers in `queue`, which is filled one at a time, each fill followed by `ExecuteChainedAfterStrategies`
(`Chain`, `AfterExit`, `AfterEntry`, `Return`) whose two local variables are `locals`. The strategy that runs makes any
calls: entering or exiting at once from AFTER strategies, placing, cancelling. `entered` and `exited` are history
variables, the symbols entered or exited since the last strategy told of it. The bar magnifier's inner loop has the same
shape as the one over prices and is in `BarClock`. The reading of a destroyed element in `CloseAll` at the end of the data is
a choice between the outcomes: the loop stops early, or the process dies (`crashed`).

### BarClock

The data (`market`: per symbol the opening times of its trading, reference, magnifier and mark bars, and its fundings) and the `period` are chosen
at the start and fixed; what follows is the code's one thread, in steps that treat all symbols at once, since within such a step they do not affect each
other: `UpdateTradingStatus`; the end of everything, or a `TradingBar` or the `MagnifierBar`s of one; for each of these `CheckFundingTime` and
`ProcessOhlc`; then ON_CLOSE and the next bar. `trading`, `reference`, `magnifier` and `mark` are the indices in `BarHandler`; they start at 1, so
that 0 is the index before the first bar, to which the code's `size_t` wraps. Times count magnifier bars, and the close of a bar is the first instant after it.
`ProcessBarIndex` is written as what its loop finds, and `ReferenceRead` as the search of `Indicator::operator[]`, back and then forward.

The model takes the timeframes as given. The code finds them from the most frequent distance between bars, which the few bars of an
instance need not show: they stand for the part of longer data that matters. Opening times are multiples of the timeframe, as the exchange gives them, and the period begins
at one. Whether a due funding is settled or skipped for want of a price changes money only, and so is left to `OrderHandler`; either way
it is done with. `ordered` says who has orders or positions, `closedOut` and `missed` are history variables.

### CommandServer

`readerPc` and `mainPc` are the two threads of `RunServer`. Taking the mutex, testing the predicate, going to sleep and
being notified are separate steps, so that a lost notification is possible wherever the code leaves room for one. A command
executes in the phases between two looks at the stop flag; each phase may throw. Of the data, `barData` is the list of
configurations the entries in the bar handler were added for, and `fundingLoads` how many times the funding rates are in the
engine. Of the process that drives the server nothing is assumed but that it reads the output. That a command carries
a list under `barDataConfigs` is assumed: the bridge always sends one.

`ImplementsEngine` maps the two threads to `CommandEngine`. A line in the reader's hand (`line`) is still in the pipe, so that
publishing it is the abstract `Read`; `Phase` is `mainPc` without the steps that only take or leave the mutex; `Bars` is the
configuration the cached bars can be used for, none while they are incomplete or an error is noted. The mutex, the condition
variable and the spurious wake-ups are stutters.

### CommandEngine and EngineBridge

`CommandEngine` is `RunServer` seen from its pipes: `Read` a line, `Take` what waits in the slot, `Start` it (which clears the
stop flag), phases in which a stop or an error may end it, an answer. `EngineBridge` contains it (`Core == INSTANCE
CommandEngine`): its variables are the engine's part of the state, `Core!Step` is a step of the engine, `Core!Write` and `Core!ReadAnswer`
are the bridge's `stdin.write` and its handling of an output line. What is checked of the bridge therefore holds for the
two threads of `CommandServer`, as far as safety goes. So that one module can prove about both sides of the interface, the names of
`EngineBridge` that both would have begin with `Bridge` (`BridgeSpec`, `BridgeTypeOK`, ...).

`config`, `running`, `stopRequestedRef`, `building`, `configHash`, `needsReload` are the state and refs of `StrategyEditor.tsx` per
window; `Click` is one of its buttons or an input, `BuildEnds` the end of the build of a strategy, `HandleMessage` what it does with a
message. `up` and `down` are the messages of each WebSocket in either direction. `PassOn` is the handler in `Launch.js` with
`runSingleBacktesting`, `stopSingleBacktesting` and `fetchOrUpdateBarData` of the bridge; `requesters` is
`_pendingBacktestRequesters`. A success waits for the log and the list of results to be there (`Listed`, `NotifySuccess`),
and other answers may overtake it. What the engine writes comes in chunks that are split into lines each for itself, so that an answer
which two chunks share is recognized by nobody (`CutLine`; `cut` remembers that there was one). `EngineEnds` is the exit of the process at
any time with a code other than 0, or an error on starting it: what it wrote is still read, what was written to it is lost, and no engine is
started again. Without the executable there is none from the beginning, and nobody is told (`BridgeInit`). An exit with code 0 tells nobody either; it comes after
the bridge's own `shutdown` or with the end of its input, when there is no server to talk to, and is left out. `unapplied` is a history variable: a run that was to
have the bars added again was lost, dropped or ended before it did.

### EditorConfig

`cfg` and `bak` are `editor.json` and `editor.json.bak`, each absent, torn or signed; `config` is `editorConfig` in memory;
`clients` and `inbox` are what each client shows and the messages under way to it. The server is one thread: while `pc` is
not `idle` a synchronous handler runs, one step per operation on files, and only a crash can come between (`Crash`, which
is also the exit 500 ms after the last client has left). `load` is where the asynchronous load waits: before it first looks
at the file, before it creates the default, and while the configuration is validated; other handlers run meanwhile.

Calls and code: `WriteTmp`, `UnlinkBak`, `RenameToBak`, `RenameToCfg`, `CopyToBak`, `CopiedToBak` are `writeSignedFileAtomic`;
`Read`, `Recover`, `Recovered` are `readSignedConfigWithRecovery` with its migration of old signatures; `HasRead` and
`Wrote` are what their callers do next. The temporary file has no variable, because nothing but the rename that
follows reads it. A copy is torn while it runs. `MayFail` names the operations that may fail; a copy that fails
removes its destination (as Node does), or with `"cleanup"` may leave it torn.

`ConfigRegister` holds one value; a write begins, then commits or aborts. `EditorConfig` maps `stored` to `Readable`, what
`readSignedConfigWithRecovery` would find now, and `writing` to the value of the write under way. A crash at any point maps
to an abort or a stutter: that is the promise of writing over a backup. `Readable` is not what a *start* finds, which looks
for `editor.json` first: see the finding of `restart`.

### TradeFilter

`selected`, `filter`, `allTrades`, `filteredTrades`, `loading`, `isFiltering` are the provider's state; `loads` are the requests to the server,
`loadSeq` and `filterSeq` the numbers by which answers that come too late are told. `changed` says that the effect on filter
and trades has yet to run: `ImmediateFiltering`, a render and its effects as one step. `active`, `input`, `results` are the
manager's one current task, `pending` its `pendingTasks`, and `jobs` what each worker is at.

`StartTask` cuts the trades into chunks (`Chunks`) and hands the first of them out; an answer (`WorkerAnswers`) is
`handleTaskResult` and `processNextTask`; `HandleTaskError` and `HandleWorkerError` are a worker's message of an error and the breaking of the
worker. `Filtered`, `Recalculated` and `Combined` are the algorithms as operators. A filter is the set of symbols,
one flag for the names and the times (`others`, which the trades that are loaded set to let all pass) and the least number of a trade, which stands
for the ranges of numbers and the directions (`least`, which stays as the user set it when another result is selected); a trade has a number, a symbol, a profit
and a balance. Left out: a worker that cannot be
replaced, a `postMessage` that throws, the release on unload, and the effect of `TradeFilterProvider.tsx:414`, whose condition is
false once the trades are there. A list without row 0 is a failed load.

### ResultsView

`functions` are the versions of `selectResult`, one per change of the selected result: the result in its closure and its
`_current`. A call holds the version it was made through and the number it took; three seconds later, or as soon as the same function
is called again, it is at its end (`Finish`). Time is abstracted: `Finish` is possible at once. `handlers` are
successes waiting for the list of results with the function they were rendered with (`ResultsRefreshed`), and with the result they will take: none
if the server names none and the list is empty or was not to be had. `Render` makes another function and runs
the effect of `App.tsx` that cancels the request before and asks for the configuration; `ConfigLoaded` and `ConfigFailed` are its
answer and its failure, tried three times. `overtaken` is history: a call that was ignored, as the result was selected already,
took the number of one under way. The list of results and which tab is open are left out.

### ChartData

The candles are files: `cache` is the set of `<<symbol, file>>` held. `pendingRequest`, `requestId`, `timer`, `throttled` are
the refs of `Chart.tsx` of the same names; `finalize`, `restore`, `passDone`, `passes`, `panes`, `isCandleReady` and `isChartInitialized` are the
handshake that ends the loading. `requests` are what was asked and not answered: the server reads files asynchronously and answers in any order
(`Answered`), or without some of them, the end of some, or the indicators (`AnsweredInPart`: each file's failure is caught alone, and the rows read before
it are kept); `unread` is the history of the files missed so. `FilesOf` is what `ChartDataHandler.js` picks for each
type of request. Another symbol mounts another chart, whose numbers start at 1 while answers to the one before are still to
come: `chart` in a request, which no code sees, tells them apart in properties only, and `crossed` is the history of
answers that came across a jump to a date or from an earlier mount of the same symbol. A chart mounted after the connection is lost asks for nothing, and
`requestId` is 0. Left out: the calendar's
wait for its answer and its move afterwards, the caches of indicator series and of readers. Nothing reconnects, in the model or in the code.

## 3. Runs

| Run | Instance | Shows |
|---|---|---|
| `sides` | 1 symbol, 3 entries, 1 exit, LONG and SHORT, leverages 1 and 2, margins 1 and 2, wallet 4 | reversals, changes of leverage and the re-margining they cause keep margin, names, sides and leverage consistent |
| `partial` | 2 symbols, 2 entries, 2 exits, LIMIT and LIT, leverages 1 and 2, sizes 1 and 2, fees, funding both ways, liquidation | margin and profit are conserved; copies in the exits stay current; operations on one symbol leave the other alone |
| `closeall` *violation* | 2 positions | `CloseAll` leaves one without an exit |
| `shared` | 2 symbols, 3 bars, 1 price, 3 calls | AFTER strategies run for their own symbol and miss nothing; with one entry name, at the end of a symbol's data every position is closed whose exit is not refused |
| `queue` | 1 symbol, 2 names, 2 prices, 2 bars, 3 calls, fairness | nothing out of date is filled, and the backtest ends |
| `clock` | 2 symbols, 1 to 5 trading bars of which any are missing, reference bars of two of them, without the magnifier and with two magnifier bars a trading bar, any missing; 2 periods each | a symbol that trades is at its bar after any gap; fundings that came due in a gap are caught up with; strategies read reference bars that have closed, and the latest; ends close at a bar |
| `server` | 2 configurations of 2 entries, stops and errors anywhere, fairness | the cached bars are whole and, when asked for, fresh; no command stays in the slot; the threads implement `CommandEngine` |
| `bridge` | 1 window, 2 configurations, 3 commands, fetches, the engine ends at any time, fairness | each success and failure finds a requester; backtests run on the bars shown unless a run was lost; who has a command in the engine is released |
| `files` | 2 clients, 3 settings of which one is not valid, 1 update, every operation may fail, crashes anywhere | the files are a register written as a whole; memory agrees with them; nothing is saved that was not loaded |
| `filter` | 2 results, 2 workers, chunks of 2, 2 selections, 1 change of the filter, 1 fault, fairness | what is shown is what the filter keeps of the selected result, with balances that follow |
| `results` | 2 results, 2 selections, 1 success, 3 failures, fairness | spinner and lock are released; the chart gets its configuration |
| `chart` | 2 symbols of 4 files, 3 at first, 2 at a date, 2 requests, 1 date, 2 other charts, 1 fault (any files of an answer, or the connection), fairness | candles of the chart's symbol, whichever chart asked for them; no bars missing but those the server could not read; loading ends |

Why the bounds are enough to be interesting. Two pending and one filled entry (or one and two) are needed for a fill that
re-margins others, and for a reversal of one position while another order waits: three slots. A partial exit
needs a size of two; a copy going stale needs one entry, one exit and one event in between. A wallet of 4 or 5 with margins
of 1 and 2 makes every balance check succeed and fail. In the loop, a stale queue needs two triggered orders and a strategy that
acts between them: two names, three calls. Flags shared by symbols need two symbols, and the end of data of one
needs one bar more. For the clock, data begin before, at and after the period, reference data end before it or within it, and gaps of any length precede or follow each other. For the server, two entries of bar data are the least that can be added in part, and two
configurations the least that can be mixed; one waiting line suffices because a second can be sent as soon as the first is
read. For the bridge, an answer that overtakes another needs two commands and a stale answer to the first while a third is asked for; with two windows
`SomeoneIsTold` holds as well, for any number of commands (section 5), but `BarsMatch` does not, and what each is told is mixed up (section 4). For the configuration, two clients are the least of which one asks while the other's load waits, and two saves in
a row from any of the initial files visit every combination of the two files. For the filter, one result is cut into two chunks and one is
not; chunks wait when a second task starts while a worker is at a chunk of the first. For the selected result, one of two calls overtakes the
other, and three failures are those after which a request is given up. For the chart, a symbol that is left and mounted
again needs two switches; a gap needs an answer of three files with the middle one unread, or an answer to a chart before. That an answer to an
extension, come after its timer, is told from one to a later extension needs three requests, which together with two switches are too
many for TLC: the theorems `CandlesOfThisSymbol` and `OnlyUnreadMissing` cover it, for any number of requests. `MaxUpdates`, `MaxBalance`,
`MaxEntries`, `MaxExits`, `MaxOrders`, `MaxCalls`, `NumBars`, `MaxLines`, `MaxOutput`, `MaxCommands`, `MaxSelects`, `MaxFilters`,
`MaxSuccesses`, `MaxFailures`, `MaxFaults`, `MaxRequests`, `MaxDates` and `MaxSwitches` are bounds and
named so in the modules; none stands for a limit in the code. `TypeOK` is checked in `files`, where it says more than
types; it holds in the instances of the other runs too, and so do `NoWorkerSpared` (`filter`), `PendingIsTimed` and `BlankIsError` (`chart`), which theorems state.

Fairness. `BacktestLoop!FairSpec` is weak fairness of the engine's own steps: it is one thread that never waits.
The strategies' calls are not fair, and bounded per bar by `MaxCalls`: a strategy that enters and exits for ever in its AFTER
handlers does keep the engine in that loop, so that `Terminates` says the engine's flags do not do so by themselves.
`CommandServer!FairSpec` is weak fairness of each of the two threads, which the operating system schedules, and of the
reader of the output, an event handler of the bridge; not of spurious wake-ups, which cannot be relied upon.
`EngineBridge!BridgeFairSpec` is weak fairness of the engine becoming ready, of its steps, of reading its output, of the notifications of a success,
and for each window of the end of a build, of its messages in both directions: an event loop serves each event that has occurred. Nobody has to click, and the
engine does not have to end, nor an answer to be cut. (A line of readiness that is cut leaves the engine "starting"; it then has no command, and
`AnsweredIsReleased` nothing to say.) `TradeFilter!FairSpec` is weak fairness of the effect and of workers that answer: not of the server, so that a filter does not wait for a
load. `ResultsView!FairSpec` is weak fairness of timers, of the list of results, of rendering and of answers.
`ChartData!FairSpec` is weak fairness of timers, frames and panes, not of the server: that loading ends without it is the timer's doing.

`CHECK_DEADLOCK FALSE` is set for `OrderHandler`, which stops after an exception, and for `TradeFilter`, `ResultsView` and `ChartData`, in which
the user need not do anything more. Everywhere else the end, if there is one, is an explicit
stuttering action and deadlock is checked.

Every property of a passing run has a mutant, a plausible slip in one of the mapped definitions (written beside it as
`...Mutant`) for which the same run finds the property violated.

## 4. Findings

One run exhibits a difference between the code and the repository's own words, and `PROJECT.json` quotes them. `closeall`: `CloseAll` on close
places its exits under one name, each replacing the last.

More are in the models but in no run. The following have a definition in their module: added to the cfg (as `INVARIANT` or `PROPERTY`),
it is violated.

* `FailsOnErrorsOnly` with `MayFail = FALSE` (`CommandServer_server.cfg`): `RET_IF_STOP_REQUESTED` returns without `ResetCores`. A stop after the
  funding rates were added (`E/Backtesting.cpp:489`) leaves them in the engine; the next run appends as many again and `IsValidSymbolInfo` throws. The
  comment at the end of the backtest (`:633`) avoids the macro for that very reason.
* `MarkMatched` (`BarClock_clock.cfg`): in the loop over magnifier bars the index of the mark price is moved only for a symbol whose magnifier bar is
  missing (`E/Engine.cpp:1328`, `:1358`), so that liquidations and fundings look at the market price instead, whatever the data. The comment at
  `:1869` says that the open times must match if there are data, because the close times were matched before.
* `StaleEnds` (`BarClock_clock.cfg`): the end of the reference data is looked for at one instant (`E/Engine.cpp:1562`); if the trading bar that closes
  then is missing, the symbol trades on, on the last reference bar, where the comment (`:1556`) has its trading end.
* `FilledNamesUnique` with `ReusesFilledName = TRUE` (`OrderHandler_sides.cfg`): an AFTER strategy's market entry skips the check of the name
  (`E/OrderHandler.cpp:178`), so that two filled entries of one name may stand side by side.
* `EndedIsFlat` (`BacktestLoop_shared.cfg`), with one entry name as well: `MarketExit` refuses an exit whose size or notional value the exchange would not
  take (`E/OrderHandler.cpp:668`), and `CloseAll` does not look at its answer: a remainder below the minimum, or a position above the market maximum that
  limit orders filled, stays open after the end of the data.
* `EndedIsClosed` with two names for entries (`EntryNames = {a, b}` in `BacktestLoop_shared.cfg`): at the end of the data `CloseAll` iterates over the
  vector that its own exits shrink (`E/Engine.cpp:1647`, `E/OrderHandler.cpp:1237`): of two positions one stays, with no exit refused, or an element that
  was destroyed is read. `src/Includes/Engines/Engine.hpp:213-214` says that `ExecuteTradingEnd` exits the filled entries in full. Hence the one name of `shared`.
* `AfterEntryEarned` (`BacktestLoop`): `||` keeps the flag of an entry already reported, and AFTER_ENTRY runs again (`E/Engine.cpp:2133`).
* `DefaultOnlyWithoutConfig` (`EditorConfig`): a server killed between the two renames of a save comes back with the default
  configuration, the backup notwithstanding: the start looks for `editor.json` only (`S/BacktestingEngine.js:661`).
* `UINotStuck` (`EngineBridge`): what is asked for while there is no engine, or not yet, is dropped with a line in the log
  (`S/BacktestingEngine.js:378`), and so is the stop: the window shows a backtest that runs for ever.
* `AnsweredIsReleased` without `\/ cut`: the output is split into lines chunk by chunk (`S/BacktestingEngine.js:69-78`), and a line of which one
  chunk has the beginning and the next the end matches nothing: the window whose answer it was shows a run for ever, or until another answer comes.
* `BarsAsShown` (`EngineBridge`): a client records the configuration when it sends the run (`StrategyEditor.tsx:508`). When that run was lost, stopped
  before it added its bars or overwritten in the engine's slot, the next runs on the bars from before.
* `BarsMatch` with two windows (`MaxCommands = 3`, `Fetching = FALSE`): a window compares its configuration with the last one *it* sent
  (`StrategyEditor.tsx:513`). The first runs one configuration, the second another, the first its own again: it does not ask for the bars to be
  added, and its backtest runs on those of the second, with nothing lost. Hence the one window of `bridge` and of the theorem.
* `SpinnerCovers` (`ResultsView`): the end of a call of an older `selectResult` turns off the spinner of a later one
  (`A/Contexts/ResultsContext.tsx:86`).
* `LoadingAlwaysEnds` (`ChartData_chart.cfg`): a chart mounted after the connection is lost only waits for an `open` that does not come, as
  `WebSocketContext.tsx:23-57` creates the socket once (`A/Components/Chart/Chart.tsx:903`); it never reaches the retries and the error that
  `loadChartData` (`:322-330`) has for that case, and loads for ever. `LoadingEnds` is therefore about charts that could ask.
* `NoGap` (`ChartData`): a file the server cannot read is left out of its answer without a word (`S/ChartDataHandler.js:484`), and the chart draws the
  candles before and after it side by side; a date chosen in the calendar has no number and is not held up by the request under way (`Calendar.tsx:947`), whose answer
  is then put behind the candles of the date; and numbers start at 1 for each mount, so that an answer to a chart before may be taken for one to this.

Others show in single actions:

* The third failure of a request for a configuration, come after another result was selected and answered, forgets whose the held
  configuration is: the chart is unmounted (`A/App.tsx:431`, `ResultsView!ConfigFailed`; hence `failures < Attempts` in `ChartMountable`).
* When a worker breaks, its chunk is not given to another and the filter's promise never settles (`A/Workers/TradeFilterManager.ts:308`,
  `TradeFilter!HandleWorkerError`); an error it reports gives an empty list that looks like a filter nothing passes (`:360`).
* The manager takes a filter with empty lists for none (`:611`), a worker for one that lets nothing pass (`TradeFilter!Active`, `Passes`):
  a filter without symbols shows no trade, one without anything all of them.
* A connection that is lost leaves `pendingRequestRef` set (`ChartData!WsCloses`): the chart asks for nothing more, even though its
  error is shown (hence `~closed` in `PendingIsTimed`).
* A symbol whose data began before the period and whose bar at its very beginning is missing never trades: its index stays at the bar before, which no
  later time equals (`E/Engine.cpp:970` and `:1492`, `BarClock!Init`, `HasBar`; `OnItsBar` speaks of symbols that began).
* Fundings that came due while a symbol had no bar are settled one per step after it, and charged to positions opened since
  (`E/Engine.cpp:1726`, `BarClock!CheckFundingTime`).
* When the magnifier data end in the middle of a trading bar, what was opened in that bar is closed at the close of the bar before
  (`E/Engine.cpp:1362`, `BarClock!MagnifierBar`); a comment (`:1643`) grants it for simplicity.
* A success or failure takes the first requester in the queue, which a stop leaves there (`S/BacktestingEngine.js:22`, `EngineBridge!ReadOutput`):
  with two windows one may be told of the other's result.
* `ExecuteFunding` may liquidate, which sets the handler's one `just_exited_` flag; no AFTER strategy runs after
  `CheckFundingTime`, so the first fill of whichever symbol comes next runs AFTER_EXIT for that symbol (`E/Engine.cpp:1767`).
  `FundingLiquidates` says whether fundings do; the run `shared` checks `AfterExitEarned` with fundings that do not.
* When recovery fails to copy the backup over a torn `editor.json` and leaves it torn, the next save removes the valid backup
  before the torn file takes its name: a crash there loses both (`"cleanup"` in `MayFail` shows it; `files` leaves it out).
* A client that asks for the configuration while another handler loads it is sent the empty one and goes on showing it
  (`S/Launch.js:1671`, `EditorConfig!LoadEditorConfig`); it cannot save it, `saveEditorConfig` wants a project folder.
* A client's save puts back the time of the last update it holds, unless that is empty, even if the server has a newer one
  (`S/Launch.js:1708`, `EditorConfig!Saved`).
* `FillOrder` decides by name whether the entry of a queued liquidation is still there (`E/OrderHandler.cpp:1470`). If an
  earlier order of the queue closed it and an AFTER strategy entered again under the name, the liquidation is executed
  against the new entry, which takes over the old one's margin and loses its exits (`BacktestLoop!FillLiquidation`).
* A command that arrives before the main thread took the one before it replaces it in `pending_command`
  (`E/Backtesting.cpp:145`, `CommandServer!Publish`), where the comment speaks of adding it to a queue.
* A stop that the reader thread sees after a command but before the main thread starts it is cleared by the start
  (`E/Backtesting.cpp:201`, `CommandServer!Start`).

## 5. Theorems

Each module of proofs rests on an inductive invariant, `IInv` (`TradeFilter_proofs` on three), of which the theorem `Inductive` or `Invariance` says that
every behaviour keeps it. TLC checks each invariant on the module's run before it is proved, with the constants of that run (and a
finite range in place of `Int` where one is quantified over). The assumptions are
those the modules state of their constants (`...Assumption`), on the data a backtest is given and on what surrounds the code; a theorem that needs another
says so in its ASSUME.

**`OrderHandler_proofs`**, for strategies that do not
reuse the name of a filled entry (`NoReuse == ~ReusesFilledName`; section 4 says why this is needed):

* `TypeCorrect`: `Spec => []TypeOK`. The wallet and the used margin are never negative.
* `MarginConserved`: `Spec => []MarginConservation`.
* `PnlConserved`: `Spec => []PnlConservation`.
* `ExitsTrack`: `Spec => []ExitsTrackEntries`.
* `OneSideOnly`, `OneLeverageOnly`, `FilledNamesDiffer`: `Spec => []OneSide`, `[]OneLeverage`, `[]FilledNamesUnique`.
* `PendingNamesDiffer`: `Spec => []PendingNamesUnique`.
* `MarginAlwaysCovered`: `Spec => MarginCovered`.

None is inductive alone: that the used margin
equals the sum is kept by `DecreaseUsedMargin`, which clips at zero, only because the sum bounds what is taken from it; that an
exit takes the right share from its copy only because the copy is current; that copies are kept current by name only
because names are unique among filled entries; and names stay unique, sides and leverages agree during the steps of a
fill or of a change of leverage only because of what `step` and `todo` remember of it. `IInv` has therefore two parts: `StateOK` for the account, the
entries and the exits, and `FillOK` for the call under way (which stage the entry being filled is in, that no position
faces it once it has passed the reversal, that the entries in `todo` are still pending). The proof
of the step goes operation by operation; the operations that end in an exit share the lemmas on `ExecuteExit`
and `ExitEntry`, and those that cancel the lemmas on `WithoutEntries`. The names of pending orders need no more than `IInv`: an operation
either places one order, having cancelled those of its name, or leaves pending a part of what was. The sums rest on lemmas about `Total`, at the
beginning of the module: the total of a function
changed at one point changes by the difference, and totals of naturals are naturals no smaller than any term,
each by induction over the length.

**`BacktestLoop_proofs`**, for any number of symbols, names, prices, bars, orders and calls:

* `TypeCorrect`: `Spec => []TypeOK`.
* `ExitsKeepTheirEntryHolds`: `Spec => []ExitsKeepTheirEntry`.
* `QueueNeverRevivesHolds`: `Spec => QueueNeverRevives`.
* `EndedHasNoOrders`: a symbol that has ended has no pending orders. `EndedIsClosedHolds`: `Spec => []EndedIsClosed`, with one name for
  entries (`OneEntryName`).
* `StrategiesCaughtUpHolds`: `Spec => []StrategiesCaughtUp`, and `AfterExitEarnedHolds`: `Spec => AfterExitEarned`, if no funding
  liquidates (`FundingLiquidates = FALSE`).

Both hypotheses exclude what section 4 shows to be violated: with two positions open at the end of the data, `CloseAll` leaves one, and a liquidation by
funding leaves a flag to whichever symbol is filled next. The code meets the first when a strategy uses one name for its entries (those of the repository use one for each side, of which a symbol has one at a time: the
module has no sides and cannot tell), and the second when no funding takes a position's margin below the maintenance margin. The run `shared` has both.

The difficulty is that orders are found by name at one moment and by identity at another, with strategies in between. `IInv` says where the loop stands (`LoopOK`:
which symbols are active, ended and visited at each `pc`), of the variables of the chain that they are of their types (`ChainOK`), and of the orders
(`OrdersOK`) that an identity has one name in *all* the places an order may be, the queue included (`OneName`), that the positions of a symbol
have different names, and that each exit targets a position by both. An order the strategies cancelled stays in
the queue with its old name; only because no other order has its identity does `FillOrder` find either the order itself or nothing. Each operation on the
books of one symbol is proved to leave them sound (`Sound`), and one lemma (`BooksStep`) carries that to the others. `EndedOK` and `HistoryOK` are invariants
on top: the first needs that no strategy runs for a symbol that has ended, the second that `entered` and `exited` are the history of the symbol
visited, and agree with the flags at every step of the chain.

**`BarClock_proofs`**, for any symbols, timeframes, periods and data, with the magnifier or without:

* `OnItsBarHolds`: `Spec => []OnItsBar`.
* `ClosedAtABarHolds`: `Spec => []ClosedAtABar`.
* `FundingsCatchUpHolds`: `Spec => []FundingsCatchUp`.
* `ReadsThePastHolds`: `Spec => []ReadsThePast`.

The data are any that are in order (`InOrder`): trading bars whole timeframes apart, reference bars one after the other, and fundings no
closer than one of the finest bars. The code does not check the first two, which are properties of the exchange's
candles; that one timeframe is a multiple of the other is asked for by a comment (`E/Backtesting.cpp:36`) and validated. The third is what `IsValidBarData` is for: it refuses a
finest timeframe above one hour, the least interval of fundings (`E/Engine.cpp:660`). Any bars may be missing, of any symbol and any kind.

`OnItsBar` is about one moment of the bar; `IInv` says where a symbol stands at all of them (`PlacesOK`): when the statuses are looked at its
index divides its bars at the clock's time (`StandsAt`), in the bar an active symbol stands at the bar that is open while any other is already
at the first to come, on the same grid of times. Gaps are why the second half is needed: a symbol without a bar
must not move, and finds itself at the right one again when the clock gets there. The clock itself counts magnifier bars inside
a bar and trading bars outside (`TimesOK`). `FundsOK` bounds the fundings due by the steps that were missed: no two are due in
one step, and a step without a bar is the only one that settles none. For `ReadsThePast` the search of `Indicator::operator[]`, back and
then forward from the index of the loop, is proved to find the last bar that had closed, whichever the index.

**`ServerAndBridge_proofs`**. Of `CommandServer`, for any configurations and bounds (that no configuration is the constant for "no command" is part of
`ServerAssumption`): `TypeCorrect`, `RunsOnWholeBarData` (`[]BarDataWhole`), `RunsOnFreshBarData` (`[]FreshBarData`) and `Implements`
(`Spec => ImplementsEngine`). The invariant says of the reader that it holds a command only to publish it, of the main thread that it executes what it
took, and of the bars that unless an error is noted they are none, a part of those being added, or all of one
configuration. The last is what a stop between two entries could break, and what the note of an error is for. The refinement goes step by step; those of the mutex and the
condition variable are stutters.

Of `EngineBridge`, for any windows, configurations and number of commands (that "listing" is not a window is part of `BridgeAssumption`):

* `BridgeTypeCorrect`: `BridgeSpec => []BridgeTypeOK`.
* `SomeoneIsToldHolds`: `BridgeSpec => []SomeoneIsTold`.
* `BarsMatchHolds`: `BridgeSpec => []BarsMatch`, with one window (`OneWindow`).

`BridgeOK` adds to the types that the engine is in a phase of the command it executes, that one which is not ready has none, and that one which never was has
done nothing. `SomeoneIsTold` is then inductive, by counting: a run is owed an answer in the pipe, in the slot, while it executes and in the output
(`Owed`), a step of the engine never makes that more (`CoreOwes`: a run that is overwritten or stopped is owed nothing, one that has said
it is complete does not count again when it is stopped), and a run that is passed on adds one to both sides. Six lemmas say how
many of a kind a sequence holds after an append, a removal or a replacement (`CountWithout` and those after it).

`BarsMatch` is about one moment and needs all of the way there. `BarsInv` follows the configuration from the window to the engine: among the
messages on their way and the lines in the pipe, a run that keeps the bars is of the configuration of the run before it, and the last is of the one the window
remembers (`Chained`); the first is of the configuration there will be when what executes and what is in the slot are over (`Waiting`), or there will be no
bars. A stop or an error can only turn these into none, which a run finds out for itself, unless the run was to drop
them and had not yet: that is `unapplied`. With two windows the messages of one are not a chain, as section 4 shows. It speaks of an engine that has not
ended: after that nothing executes.

**`EditorConfig_proofs`**, for any clients, settings and failing operations, but not for a failed copy whose torn destination cannot be
removed (`NoTornCopy`; section 4 says what happens then): `TypeCorrect`, `MemoryMatchesFiles` (`[]MemoryOnDisk`) and `Implements`
(`Spec => ImplementsRegister`). The invariant follows the two files through a save, a recovery and a load: the file about to be given up is never the
only good one, which is why a crash at any operation leaves the old configuration or the new.

**`TradeFilter_proofs`**, for any results, trades, filters, workers and size of chunks, and any number of selections, changes and faults:

* `ListOfSelected`: `Spec => []TradesOfSelected`. `WorkersUsed`: `Spec => []NoWorkerSpared`.
* `ChunksAccountedHolds`: `Spec => []ChunksAccounted`.
* `ShownIsFilteredHolds`: `Spec => []ShownIsFiltered`.
* `ShownWholeHolds`: `Spec => []ShownWhole`.
* `BalancesFollowHolds`: `Spec => []BalancesFollow`.

A trade is assumed to be a record with a number, a profit and a balance, row 0 to come first, and a result's trades to be of symbols of its
configuration, as the analyzer writes them (`TradeFilterAssumption`).

The first two rest on `IInv`: a request with the last number is for the selected result; and a worker that becomes free takes one chunk, so that as many may
be free while chunks wait as have broken. The next two rest on `TInv`, about the task under way: the chunks that wait are its last ones, in
order, and each of the others is at one worker or filtered, once (`Accounted`); so long as the views wait it is the task for
the filter they show (`IsFor`), and when they do not what they show is the filtered list (`ShownOK`). That the answers are complete when there are as many as chunks
is counting (`AllAnswered`: as many different places as there are places are all of them), and that chunks cut with row 0 in front,
filtered apart and joined without it are the whole list filtered is `CombinedFiltered`. `WholeOK` follows the two requests of a result that nobody has filtered, in whichever
order they come. `BalancesFollow` needs no more than `TInv` and what `recalculateBalanceInMainThread` computes: `BalancesEquations` and
`RecalculatedOK`, of which the hard part is that numbers given in the order of first appearance have no gap after the list is cut (`NoGap`).

`Filtered`, `BalanceAt` and `Combined` recurse over a list. They are written as recursive functions whose equations are proved (`Follows`, `FollowsExists`: such
a function exists, by well-founded induction on its domain); what they compute is then proved by taking the least place at which it would fail.

**`ResultsView_proofs`**, for any results and number of calls, successes and failures: `SelectionsEnd` (`[]NothingLeftOn`) and `ChartIsMountable`
(`[]ChartMountable`). A spinner that is on has a current call that will turn it off, unless overtaken; the last
request is for the result last rendered, and under way, answered, or failed three times.

**`ChartData_proofs`**, for any symbols, files, requests and faults: `TypeCorrect`, `CandlesOfThisSymbol` (`[]OfThisSymbol`), `OnlyUnreadMissing`
(`[]MissingIsUnread`), `WaitingIsTimed` (`[]PendingIsTimed`) and `BlankShowsError` (`[]BlankIsError`). The inductive form is that the files held and those
unread, together, have no hole (`GapOK`): an answer to a request for more adds the file after the reference. It needs to know of the request a chart
waits for that its reference is on the chart (`AtTheEdge`), also after its timer, and that the number of a request tells its type.

Only model-checked: liveness (`Terminates`, `CommandTaken`, `AnsweredIsReleased`, `FilteringEnds`, `LockReleased`, `LoadingEnds`), which the
proof system cannot reach. Every invariant and action property of a passing run is stated by a theorem.

## 6. Not modelled

The formulas of indicators, slippage and prices (floating point over series: nothing a bounded state space tells apart); the
analyzer's output, the logger, the fetcher and its network, the Electron shell; and the views of the React application that draw what they are
given (lists, reports, curves, inputs of the filter and of the editor), which are most of the repository's lines and have no state that
outlives a gesture.
Of the order handler: the checks on prices, which sizes and notional values the exchange allows, the drawdown
statistics. Of the main loop: the validation of data and configuration and the order of prices in a bar; of the bar handler: reading files into bars. Of the configuration: its formats, the
key, a project folder that moves. Of the bridge: how strategies are built, its logs. Of the chart, filter and selected result: see their
subsections in section 2. `PROJECT.json` gives for each component the reason.

## 7. Plan

Done: `OrderHandler`, `BacktestLoop`, `BarClock`, `CommandServer` with `CommandEngine`, `EngineBridge`, `EditorConfig` with `ConfigRegister`,
`TradeFilter`, `ResultsView`, `ChartData`, and the theorems of section 5. Left, in order of importance:

1. `MarginAccount`: an abstract account (deposits, reservations, releases) that `OrderHandler` implements.
2. The order of fills (`SortOrders`, `GetPriceQueue`) as operators against reference definitions.
3. The shutdown timer of `Launch.js`, and the calendar's move after its answer.
