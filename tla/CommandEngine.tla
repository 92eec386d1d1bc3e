---------------------------- MODULE CommandEngine ----------------------------
(***************************************************************************)
(* What the engine run as a server promises to the process that feeds it,  *)
(* Backtesting::RunServer seen from outside: lines are read in order, the  *)
(* last command read waits in one slot, a stop is a flag, and a command    *)
(* that was started ends with an answer.  CommandServer, with its two      *)
(* threads, implements this specification; EngineBridge builds on it.      *)
(***************************************************************************)
EXTENDS Naturals, Sequences

CONSTANTS
    Runs,    \* commands that run a backtest: records with a config and a clear
    Fetch,   \* the command that downloads or updates bar data
    Stop,    \* the line that stops what runs
    Exit,    \* the line that ends the server
    None,    \* no command
    NoBars   \* no usable bar data are cached

VARIABLES
    pipe,      \* lines not read yet
    slot,      \* the command that waits
    busy,      \* the command that executes
    phase,     \* how far it is
    stop,      \* the flag that stops it
    exiting,   \* the server was told to end
    bars,      \* the configuration of the cached bar data
    out        \* answers not read yet

vars == <<pipe, slot, busy, phase, stop, exiting, bars, out>>

\* A command the server has read but not started is overwritten by the next one.
Read ==
    /\ pipe # <<>> /\ ~exiting /\ pipe' = Tail(pipe)
    /\ slot' = IF Head(pipe) \in Runs \cup {Fetch} THEN Head(pipe) ELSE slot
    /\ stop' = (stop \/ Head(pipe) = Stop)
    /\ exiting' = (Head(pipe) = Exit)
    /\ UNCHANGED <<busy, phase, bars, out>>

Take ==
    /\ phase = "idle" /\ slot # None /\ ~exiting
    /\ busy' = slot /\ slot' = None /\ phase' = "taken"
    /\ UNCHANGED <<pipe, stop, exiting, bars, out>>

\* A stop that was read before is forgotten here.
Start ==
    /\ phase = "taken" /\ stop' = FALSE
    /\ phase' = IF busy = Fetch THEN "fetching" ELSE "preparing"
    /\ UNCHANGED <<pipe, slot, busy, exiting, bars, out>>

\* A step of the command within the engine.
Goto(p) == phase' = p /\ UNCHANGED <<pipe, slot, busy, stop, exiting, out>>

NeedsAdding == busy.clear \/ bars = NoBars

\* The cached bar data are used, or dropped before others are added.
Prepare ==
    /\ phase = "preparing" /\ ~stop
    /\ IF NeedsAdding THEN Goto("adding") /\ bars' = NoBars
                      ELSE Goto("running") /\ UNCHANGED bars

Added == phase = "adding" /\ ~stop /\ Goto("running") /\ bars' = busy.config

Answer(a) == out' = Append(out, a) /\ UNCHANGED <<pipe, slot, stop, exiting>>
Done == phase' = "idle" /\ busy' = None

Stopped ==
    /\ phase \in {"preparing", "adding", "running"} /\ stop
    /\ Answer("stopped") /\ Done /\ UNCHANGED bars

Fails ==
    /\ phase \in {"preparing", "adding", "running"}
    /\ Answer("failed") /\ Done /\ UNCHANGED bars

\* A backtest says that it is complete before it ends, and then also that it was
\* stopped when a stop came in between.
Complete ==
    /\ phase = "running" /\ phase' = "ending" /\ UNCHANGED <<busy, bars>>
    /\ IF stop THEN UNCHANGED <<pipe, slot, stop, exiting, out>> ELSE Answer("completed")

End ==
    /\ phase = "ending" /\ Done /\ UNCHANGED bars
    /\ IF stop THEN Answer("stopped") ELSE UNCHANGED <<pipe, slot, stop, exiting, out>>

Fetched ==
    /\ phase = "fetching" /\ Done /\ UNCHANGED bars
    /\ \/ stop /\ Answer("fetchStopped")
       \/ Answer("fetchCompleted")
       \/ Answer("fetchFailed")

Step == Read \/ Take \/ Start \/ Prepare \/ Added \/ Stopped \/ Fails \/ Complete \/ End \/ Fetched

\* The process on the other side.
Write(l) == pipe' = Append(pipe, l) /\ UNCHANGED <<slot, busy, phase, stop, exiting, bars, out>>
ReadAnswer ==
    /\ out # <<>> /\ out' = Tail(out)
    /\ UNCHANGED <<pipe, slot, busy, phase, stop, exiting, bars>>

Init ==
    /\ pipe = <<>> /\ slot = None /\ busy = None /\ phase = "idle" /\ stop = FALSE
    /\ exiting = FALSE /\ bars = NoBars /\ out = <<>>

Next == Step \/ (\E l \in Runs \cup {Fetch, Stop, Exit} : Write(l)) \/ ReadAnswer

Spec == Init /\ [][Next]_vars
=============================================================================
