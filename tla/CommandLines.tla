----------------------------- MODULE CommandLines -----------------------------
(***************************************************************************)
(* The lines that the bridge writes to the standard input of the engine.   *)
(* Of a run's JSON only the configuration of the bar data is kept, and     *)
(* whether those the engine has are to be dropped (clearAndAddBarData).    *)
(***************************************************************************)

CONSTANT Configs  \* configurations of the bar data

Run(c, clear) == [cmd |-> "runSingleBacktesting", config |-> c, clear |-> clear]

Runs  == {Run(c, clear) : c \in Configs, clear \in BOOLEAN}
Fetch == [cmd |-> "fetchOrUpdateBarData"]
Stop  == [cmd |-> "stopSingleBacktesting"]
Exit  == [cmd |-> "shutdown"]
None  == [cmd |-> "none"]  \* no command
=============================================================================
