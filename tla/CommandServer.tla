---------------------------- MODULE CommandServer ----------------------------
(***************************************************************************)
(* The engine run as a server: Backtesting::RunServer.  One thread reads   *)
(* lines from the standard input and leaves a command in a slot shared     *)
(* under a mutex and a condition variable, or sets the flag that stops     *)
(* what runs; the main thread takes commands from the slot and executes    *)
(* them.  Bar data stay cached in the process between two backtests.       *)
(*                                                                         *)
(* A command executes in phases, each ending where the code looks at the   *)
(* stop flag.  Configurations are those of the bar data (symbols,          *)
(* timeframes, folders); what a backtest computes is in the other modules. *)
(***************************************************************************)
EXTENDS CommandLines, Integers, Sequences, SequencesExt

CONSTANTS
    NumBarData,  \* entries of barDataConfigs in a configuration
    MaxLines,    \* bound: lines waiting on the standard input
    MaxOutput,   \* bound: lines the pipe of the standard output holds
    MayFail      \* whether a command may throw for a reason of its own

ASSUME ServerAssumption ==
    /\ Configs # {} /\ [cmd |-> "none"] \notin Configs /\ NumBarData \in Nat \ {0}
    /\ MaxLines \in Nat \ {0} /\ MaxOutput \in Nat \ {0} /\ MayFail \in BOOLEAN

VARIABLES
    stdin, stdout,  \* the pipes
    readerPc,       \* the reader thread
    line,           \* the command it has read
    mainPc,         \* the main thread
    command,        \* the command it executes
    pendingCommand, \* pending_command: the slot
    stopRequested,  \* stop_requested_
    shouldExit,     \* should_exit
    barData,        \* bar data in the handler: the configuration each was added for
    isFirstAdding, addingError, \* is_first_adding, bar_data_adding_error_occurred
    fundingLoads    \* times funding_rates_ holds the rates of every symbol, 2 for more

sharedVars == <<pendingCommand, stopRequested, shouldExit>>
cores      == <<barData, isFirstAdding, addingError, fundingLoads>>
vars == <<stdin, stdout, readerPc, line, mainPc, command, sharedVars, cores>>

Lines   == Runs \cup {Fetch, Stop, Exit}
Outputs == {"completed", "stopped", "failed", "fetchCompleted", "fetchStopped", "fetchFailed"}

\* The bar data of configuration c, all of them.
AllOf(c) == [i \in 1..NumBarData |-> c]

-----------------------------------------------------------------------------
(* The reader thread.                                                      *)

ReadLine ==
    /\ readerPc = "reading" /\ stdin # <<>> /\ stdin' = Tail(stdin)
    /\ CASE Head(stdin) = Stop ->
              stopRequested' = TRUE /\ UNCHANGED <<readerPc, line, shouldExit>>
         [] Head(stdin) = Exit ->
              shouldExit' = TRUE /\ readerPc' = "closing"
              /\ UNCHANGED <<line, stopRequested>>
         [] OTHER ->
              line' = Head(stdin) /\ readerPc' = "publishing"
              /\ UNCHANGED <<stopRequested, shouldExit>>
    /\ UNCHANGED <<stdout, mainPc, command, pendingCommand, cores>>

\* The main thread holds command_mutex while it evaluates the predicate of the
\* wait and until it is asleep.
MutexFreeMutant == TRUE
MutexFree == mainPc \notin {"locked", "blocking"}

Publish ==
    /\ readerPc = "publishing" /\ MutexFree
    /\ pendingCommand' = line /\ line' = None /\ readerPc' = "notifying"
    /\ UNCHANGED <<stdin, stdout, mainPc, command, stopRequested, shouldExit, cores>>

\* notify_one: lost unless the main thread is asleep.
Notify ==
    /\ readerPc \in {"notifying", "closing"}
    /\ mainPc' = IF mainPc = "waiting" THEN "locking" ELSE mainPc
    /\ readerPc' = IF readerPc = "closing" THEN "ended" ELSE "reading"
    /\ UNCHANGED <<stdin, stdout, line, command, sharedVars, cores>>

Reader == ReadLine \/ Publish \/ Notify

-----------------------------------------------------------------------------
(* The main thread: taking a command.                                      *)

\* A step of the main thread that stays within the process.
Quiet == UNCHANGED <<stdin, stdout, readerPc, line>>

TestExit ==
    /\ mainPc = "testing" /\ mainPc' = IF shouldExit THEN "joining" ELSE "locking"
    /\ Quiet /\ UNCHANGED <<command, sharedVars, cores>>

Lock ==
    /\ mainPc = "locking" /\ mainPc' = "locked"
    /\ Quiet /\ UNCHANGED <<command, sharedVars, cores>>

\* The predicate of the wait; when it holds, the command leaves the slot unless
\* the server exits.
TakeCommand ==
    /\ mainPc = "locked"
    /\ IF shouldExit THEN mainPc' = "joining" /\ UNCHANGED <<command, pendingCommand>>
       ELSE IF pendingCommand = None
       THEN mainPc' = "blocking" /\ UNCHANGED <<command, pendingCommand>>
       ELSE /\ command' = pendingCommand /\ pendingCommand' = None
            /\ mainPc' = IF pendingCommand = Fetch THEN "fetchStarting" ELSE "starting"
    /\ Quiet /\ UNCHANGED <<stopRequested, shouldExit, cores>>

Sleep ==
    /\ mainPc = "blocking" /\ mainPc' = "waiting"
    /\ Quiet /\ UNCHANGED <<command, sharedVars, cores>>

\* A condition variable may wake without a notification.
WakeSpuriously ==
    /\ mainPc = "waiting" /\ mainPc' = "locking"
    /\ Quiet /\ UNCHANGED <<command, sharedVars, cores>>

Join ==
    /\ mainPc = "joining" /\ readerPc = "ended" /\ mainPc' = "exited"
    /\ Quiet /\ UNCHANGED <<command, sharedVars, cores>>

-----------------------------------------------------------------------------
(* The main thread: RunSingleBacktesting.                                  *)

Output(o) ==
    /\ Len(stdout) < MaxOutput /\ stdout' = Append(stdout, o)
    /\ UNCHANGED <<stdin, readerPc, line, sharedVars>>

\* ResetCores keeps the bar data.
ResetCores == fundingLoads' = 0

Done == mainPc' = "testing" /\ command' = None

\* RET_IF_STOP_REQUESTED returns at once: nothing is reset.
ReturnIfStopped ==
    /\ stopRequested /\ Output("stopped") /\ Done /\ UNCHANGED cores

StartMutant ==
    /\ mainPc \in {"starting", "fetchStarting"}
    /\ mainPc' = IF mainPc = "starting" THEN "preparing" ELSE "fetching"
    /\ Quiet /\ UNCHANGED <<command, sharedVars, cores>>
Start ==
    /\ mainPc \in {"starting", "fetchStarting"} /\ stopRequested' = FALSE
    /\ mainPc' = IF mainPc = "starting" THEN "preparing" ELSE "fetching"
    /\ Quiet /\ UNCHANGED <<command, pendingCommand, shouldExit, cores>>

NeedsAddingMutant == addingError \/ isFirstAdding
NeedsAdding == command.clear \/ addingError \/ isFirstAdding

\* ResetBarHandler, except for the first adding.
Cleared == IF isFirstAdding THEN barData ELSE <<>>

\* Up to the choice whether the cached bar data are used.
Prepare ==
    /\ mainPc = "preparing"
    /\ \/ ReturnIfStopped
       \/ /\ ~stopRequested /\ Quiet /\ UNCHANGED <<command, sharedVars, fundingLoads>>
          /\ IF NeedsAdding
             THEN /\ mainPc' = "adding" /\ isFirstAdding' = FALSE
                  /\ barData' = Cleared
                  /\ addingError' = (isFirstAdding /\ addingError)
             ELSE mainPc' = "loading" /\ UNCHANGED <<barData, isFirstAdding, addingError>>

\* What the handler holds when a stop interrupts the adding.
InterruptedMutant == /\ barData' \in {barData, Append(barData, command.config)}
                     /\ UNCHANGED addingError
Interrupted == /\ barData' \in {barData, Append(barData, command.config)}
               /\ addingError' = TRUE

\* One AddBarData, then a look at the stop flag.
AddBarData ==
    /\ mainPc = "adding"
    /\ \/ /\ stopRequested /\ Interrupted /\ UNCHANGED isFirstAdding
          /\ Output("stopped") /\ ResetCores /\ Done
       \/ /\ ~stopRequested /\ barData' = Append(barData, command.config)
          /\ mainPc' = IF Len(barData') = NumBarData THEN "loading" ELSE "adding"
          /\ Quiet /\ UNCHANGED <<command, sharedVars, isFirstAdding, addingError, fundingLoads>>

\* AddFundingRates appends to what the engine has.
AddFundingRates ==
    /\ mainPc = "loading"
    /\ \/ ReturnIfStopped
       \/ /\ ~stopRequested /\ mainPc' = "configuring"
          /\ fundingLoads' = IF fundingLoads < 2 THEN fundingLoads + 1 ELSE 2
          /\ Quiet /\ UNCHANGED <<command, sharedVars, barData, isFirstAdding, addingError>>

\* The engine's settings and the strategy.
Configure ==
    /\ mainPc = "configuring"
    /\ \/ ReturnIfStopped
       \/ /\ ~stopRequested /\ mainPc' = "backtesting"
          /\ Quiet /\ UNCHANGED <<command, sharedVars, cores>>

\* An exception that leaves RunSingleBacktesting; one of the adding makes the next
\* run add the bar data again.
Fail ==
    /\ Output("failed") /\ ResetCores /\ Done
    /\ addingError' = (addingError \/ mainPc = "adding")
    /\ barData' \in IF mainPc = "adding" THEN {barData, Append(barData, command.config)}
                    ELSE {barData}
    /\ UNCHANGED isFirstAdding

Throws ==
    /\ mainPc \in {"preparing", "adding", "loading", "configuring", "backtesting"}
    /\ MayFail /\ Fail

\* IsValidSymbolInfo: as many funding rates as symbols.
IsValidSymbolInfo == fundingLoads = 1

\* RunBacktesting returns silently when stopped.
RunBacktesting ==
    /\ mainPc = "backtesting"
    /\ \/ /\ stopRequested /\ mainPc' = "ending"
          /\ Quiet /\ UNCHANGED <<command, sharedVars, cores>>
       \/ ~stopRequested /\ ~IsValidSymbolInfo /\ Fail
       \/ /\ ~stopRequested /\ IsValidSymbolInfo /\ Output("completed") /\ mainPc' = "ending"
          /\ UNCHANGED <<command, cores>>

EndBacktesting ==
    /\ mainPc = "ending" /\ Done
    /\ IF stopRequested THEN Output("stopped") ELSE Quiet /\ UNCHANGED sharedVars
    /\ ResetCores /\ UNCHANGED <<barData, isFirstAdding, addingError>>

\* FetchOrUpdateBarData: the flag is looked at before each file but not after the
\* last one.
FetchOrUpdateBarData ==
    /\ mainPc \in {"fetching", "fetched"}
    /\ \/ /\ mainPc = "fetching" /\ stopRequested /\ Output("fetchStopped")
          /\ ResetCores /\ Done
       \/ /\ mainPc = "fetching" /\ ~stopRequested /\ mainPc' = "fetched"
          /\ Quiet /\ UNCHANGED <<command, sharedVars, fundingLoads>>
       \/ /\ mainPc = "fetched" /\ Output("fetchCompleted") /\ ResetCores /\ Done
       \/ /\ MayFail /\ Output("fetchFailed") /\ ResetCores /\ Done
    /\ UNCHANGED <<barData, isFirstAdding, addingError>>

Main ==
    \/ TestExit \/ Lock \/ TakeCommand \/ Sleep \/ Join
    \/ Start \/ Prepare \/ AddBarData \/ AddFundingRates \/ Configure
    \/ RunBacktesting \/ EndBacktesting \/ Throws \/ FetchOrUpdateBarData

-----------------------------------------------------------------------------
(* The process that started the server writes lines and reads the output.  *)

SendLine(l) ==
    /\ Len(stdin) < MaxLines /\ stdin' = Append(stdin, l)
    /\ UNCHANGED <<stdout, readerPc, line, mainPc, command, sharedVars, cores>>

Receive ==
    /\ stdout # <<>> /\ stdout' = Tail(stdout)
    /\ UNCHANGED <<stdin, readerPc, line, mainPc, command, sharedVars, cores>>

Exited == mainPc = "exited" /\ stdout = <<>> /\ UNCHANGED vars

Init ==
    /\ stdin = <<>> /\ stdout = <<>> /\ readerPc = "reading" /\ line = None
    /\ mainPc = "testing" /\ command = None /\ pendingCommand = None
    /\ stopRequested = FALSE /\ shouldExit = FALSE
    /\ barData = <<>> /\ isFirstAdding = TRUE /\ addingError = FALSE /\ fundingLoads = 0

Next ==
    \/ Reader \/ Main \/ WakeSpuriously
    \/ \E l \in Lines : SendLine(l)
    \/ Receive \/ Exited

Spec == Init /\ [][Next]_vars

\* Both threads are scheduled and the output is read; a spurious wake-up cannot be
\* relied upon.
FairSpec == Spec /\ WF_vars(Reader) /\ WF_vars(Main) /\ WF_vars(Receive)
-----------------------------------------------------------------------------
(* Properties.                                                             *)

\* Every variable stays in its domain: in particular no more bar data are cached
\* than a configuration has.
TypeOK ==
    /\ stdin \in Seq(Lines) /\ stdout \in Seq(Outputs)
    /\ readerPc \in {"reading", "publishing", "notifying", "closing", "ended"}
    /\ line \in Runs \cup {Fetch, None} /\ command \in Runs \cup {Fetch, None}
    /\ pendingCommand \in Runs \cup {Fetch, None}
    /\ mainPc \in {"testing", "locking", "locked", "blocking", "waiting", "joining", "exited",
                   "starting", "preparing", "adding", "loading", "configuring", "backtesting",
                   "ending", "fetchStarting", "fetching", "fetched"}
    /\ stopRequested \in BOOLEAN /\ shouldExit \in BOOLEAN
    /\ barData \in BoundedSeq(Configs, NumBarData)
    /\ isFirstAdding \in BOOLEAN /\ addingError \in BOOLEAN /\ fundingLoads \in 0..2

\* A backtest runs on the complete bar data of one configuration, whatever stops
\* and errors interrupted the adding before.
BarDataWhole == mainPc = "backtesting" => \E c \in Configs : barData = AllOf(c)

\* A backtest that asked for its bar data to be added runs on these.
FreshBarData == mainPc = "backtesting" /\ command.clear => barData = AllOf(command.config)

\* A command that is in the slot is taken out of it, unless the server exits: no
\* notification that matters is lost.
CommandTaken == pendingCommand # None ~> (pendingCommand = None \/ shouldExit)

\* What the two threads look like from outside: the lines not read, one of which the
\* reader may have in its hand, the phase of the command and the bar data of use to it.
Pipe == (IF line = None THEN <<>> ELSE <<line>>) \o stdin
Phase == CASE mainPc \in {"starting", "fetchStarting"} -> "taken"
           [] mainPc \in {"loading", "configuring", "backtesting"} -> "running"
           [] mainPc \in {"fetching", "fetched"} -> "fetching"
           [] mainPc \in {"preparing", "adding", "ending"} -> mainPc
           [] OTHER -> "idle"
Bars == IF addingError \/ Len(barData) < NumBarData THEN None ELSE barData[1]

Engine == INSTANCE CommandEngine WITH
    NoBars <- None, pipe <- Pipe, slot <- pendingCommand, busy <- command, phase <- Phase,
    stop <- stopRequested, exiting <- shouldExit, bars <- Bars, out <- stdout

\* The two threads and the slot between them implement CommandEngine: a command is
\* started once, in order, on bar data that are whole, and answered before the next.
ImplementsEngine == Engine!Spec

\* Without an error of its own no backtest fails.
FailsOnErrorsOnly == MayFail \/ ~Contains(stdout, "failed")
=============================================================================
