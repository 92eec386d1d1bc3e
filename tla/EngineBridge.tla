---------------------------- MODULE EngineBridge ----------------------------
(***************************************************************************)
(* From the button of a client to the engine and back: the strategy editor *)
(* of each window, the server that passes commands on and tells clients    *)
(* what became of them, and the engine as CommandEngine promises it.       *)
(*                                                                         *)
(* A client believes that something runs until it hears of an end; it has  *)
(* the engine drop its bar data when it thinks they are not those of its   *)
(* configuration.  The server remembers who asked for each backtest in one *)
(* queue, from which every success and every failure takes one.            *)
(***************************************************************************)
EXTENDS CommandLines, Naturals, Sequences, FiniteSets, SequencesExt

CONSTANTS
    Clients,      \* windows and tabs
    NoConfig,     \* the hash before the first run
    MaxCommands,  \* bound: backtests and fetches that are asked for
    Fetching      \* whether bar data are fetched

ASSUME BridgeAssumption ==
    /\ Configs # {} /\ NoConfig \notin Configs /\ "listing" \notin Clients
    /\ MaxCommands \in Nat /\ Fetching \in BOOLEAN

VARIABLES
    config,         \* the configuration each client shows
    running,        \* isBacktestingRunning
    stopRequestedRef,
    building,       \* isBuildingRef
    builds,         \* strategies being built: the configuration of each run that waits
    configHash,     \* previousConfigHash
    needsReload,    \* barDataNeedsReloadRef
    up, down,       \* messages to and from the server
    engine,         \* the process: "starting", "ready" or "none"
    requesters,     \* _pendingBacktestRequesters
    successes,      \* notifications of a success that wait for files
    pipe, slot, busy, phase, stop, exiting, bars, out,  \* CommandEngine
    commands,       \* backtests and fetches so far
    unapplied,      \* a run that was to drop the bar data ended before it did
    cut             \* an answer was read in two parts

editor == <<config, running, stopRequestedRef, building, builds, configHash, needsReload>>
server == <<engine, requesters, successes>>
core   == <<pipe, slot, busy, phase, stop, exiting, bars, out>>
bridgeVars   == <<editor, up, down, server, core, commands, unapplied, cut>>

Core == INSTANCE CommandEngine WITH NoBars <- NoConfig

-----------------------------------------------------------------------------
(* The strategy editor.                                                    *)

\* Whether the engine is asked to drop the bar data it holds.
NeedsClearAndAddMutant(k, c) == configHash[k] = NoConfig \/ needsReload[k]
NeedsClearAndAdd(k, c) == configHash[k] = NoConfig \/ c # configHash[k] \/ needsReload[k]

Send(k, m) == up' = [up EXCEPT ![k] = Append(@, m)]

\* The client no longer believes that something runs.
Release(k) ==
    /\ running' = [running EXCEPT ![k] = FALSE]
    /\ stopRequestedRef' = [stopRequestedRef EXCEPT ![k] = FALSE]

Begin(k) ==
    /\ ~running[k] /\ commands < MaxCommands /\ commands' = commands + 1
    /\ running' = [running EXCEPT ![k] = TRUE]
    /\ stopRequestedRef' = [stopRequestedRef EXCEPT ![k] = FALSE]

\* The strategy is built first.
HandleRunSingleBacktesting(k) ==
    /\ Begin(k) /\ building' = [building EXCEPT ![k] = TRUE]
    /\ builds' = [builds EXCEPT ![k] = @ \cup {<<commands, config[k]>>}]
    /\ UNCHANGED <<config, configHash, needsReload, up, down, server, core, unapplied, cut>>

\* The configuration is recorded when it is sent, and so is the reload.
Built(k, b) ==
    /\ builds' = [builds EXCEPT ![k] = @ \ {b}] /\ building' = [building EXCEPT ![k] = FALSE]
    /\ IF stopRequestedRef[k]
       THEN Release(k) /\ UNCHANGED <<configHash, needsReload, up>>
       ELSE /\ Send(k, Run(b[2], NeedsClearAndAdd(k, b[2])))
            /\ configHash' = [configHash EXCEPT ![k] = b[2]]
            /\ needsReload' = [needsReload EXCEPT ![k] = FALSE]
            /\ UNCHANGED <<running, stopRequestedRef>>
    /\ UNCHANGED <<config, down, server, core, commands, unapplied, cut>>

BuildFailed(k, b) ==
    /\ builds' = [builds EXCEPT ![k] = @ \ {b}] /\ building' = [building EXCEPT ![k] = FALSE]
    /\ Release(k)
    /\ UNCHANGED <<config, configHash, needsReload, up, down, server, core, commands, unapplied, cut>>

\* A stop during the building is left to Built.
HandleStopBacktesting(k) ==
    /\ running[k] /\ ~stopRequestedRef[k]
    /\ stopRequestedRef' = [stopRequestedRef EXCEPT ![k] = TRUE]
    /\ IF building[k] THEN UNCHANGED up ELSE Send(k, Stop)
    /\ UNCHANGED <<config, running, building, builds, configHash, needsReload, down, server, core,
                   commands, unapplied, cut>>

HandleFetchOrUpdateBarData(k) ==
    /\ Fetching /\ Begin(k) /\ Send(k, Fetch)
    /\ UNCHANGED <<config, building, builds, configHash, needsReload, down, server, core, unapplied, cut>>

ChangeConfig(k) ==
    /\ config' \in {[config EXCEPT ![k] = c] : c \in Configs \ {config[k]}}
    /\ UNCHANGED <<running, stopRequestedRef, building, builds, configHash, needsReload, up, down,
                   server, core, commands, unapplied, cut>>

\* Any end releases the client, whatever it belongs to.
HandleMessage(k) ==
    /\ down[k] # <<>> /\ down' = [down EXCEPT ![k] = Tail(@)] /\ Release(k)
    /\ needsReload' = [needsReload EXCEPT ![k] = @ \/ Head(down[k]) = "fetchSuccess"]
    /\ UNCHANGED <<config, building, builds, configHash, up, server, core, commands, unapplied, cut>>

-----------------------------------------------------------------------------
(* The server: commands on their way to the engine.                        *)

IsRun(c) == c \in Runs
Loses(c) == IsRun(c) /\ c.clear

\* Without an engine that is ready a command ends in a line of the log.
PassOn(k) ==
    /\ up[k] # <<>> /\ up' = [up EXCEPT ![k] = Tail(@)]
    /\ IF engine = "ready"
       THEN /\ Core!Write(Head(up[k])) /\ UNCHANGED unapplied
            /\ requesters' = IF IsRun(Head(up[k])) THEN Append(requesters, k) ELSE requesters
       ELSE /\ unapplied' = (unapplied \/ Loses(Head(up[k])))
            /\ UNCHANGED <<core, requesters>>
    /\ UNCHANGED <<editor, down, engine, successes, commands, cut>>

\* A line of the log tells that the engine is ready.
EngineReady ==
    /\ engine = "starting" /\ engine' = "ready"
    /\ UNCHANGED <<editor, up, down, requesters, successes, core, commands, unapplied, cut>>

\* A step of the engine, which may lose what a run was to do.
EngineStep ==
    /\ engine = "ready" /\ Core!Step
    /\ unapplied' = \/ unapplied
                    \/ phase = "preparing" /\ phase' = "idle" /\ Loses(busy)
                    \/ slot' \notin {slot, None} /\ Loses(slot)
    /\ UNCHANGED <<editor, up, down, server, commands, cut>>

-----------------------------------------------------------------------------
(* The server: what the engine says.                                       *)

Broadcast(m) == down' = [k \in Clients |-> Append(down[k], m)]
Shifted == IF requesters = <<>> THEN <<>> ELSE Tail(requesters)

\* All clients are told of a failure, and the next requester once more.
NotifyAllClientsBacktestingFailedMutant == requesters' = Shifted /\ UNCHANGED down
NotifyAllClientsBacktestingFailed ==
    /\ requesters' = Shifted
    /\ down' = [k \in Clients |-> down[k] \o
                    IF requesters # <<>> /\ k = Head(requesters)
                    THEN <<"backtestingFailed", "backtestingFailed">> ELSE <<"backtestingFailed">>]

\* A success waits for the list of the results before it takes a requester; the
\* other answers are passed on at once.
ReadOutputMutant ==
    /\ Core!ReadAnswer
    /\ requesters' = IF Head(out) \in {"stopped", "failed"} THEN Shifted ELSE requesters
    /\ IF Head(out) = "completed"
       THEN successes' = Append(successes, "listing") /\ UNCHANGED down
       ELSE Broadcast(Head(out)) /\ UNCHANGED successes
    /\ UNCHANGED <<editor, up, engine, commands, unapplied, cut>>
ReadOutput ==
    /\ Core!ReadAnswer
    /\ CASE Head(out) = "completed" ->
              successes' = Append(successes, "listing") /\ UNCHANGED <<down, requesters>>
         [] Head(out) = "failed" ->
              NotifyAllClientsBacktestingFailed /\ UNCHANGED successes
         [] Head(out) = "stopped" ->
              Broadcast("backtestingStopped") /\ UNCHANGED <<requesters, successes>>
         [] Head(out) = "fetchCompleted" ->
              Broadcast("fetchSuccess") /\ UNCHANGED <<requesters, successes>>
         [] OTHER ->
              Broadcast(Head(out)) /\ UNCHANGED <<requesters, successes>>
    /\ UNCHANGED <<editor, up, engine, commands, unapplied, cut>>

\* What the engine wrote is split into lines chunk by chunk: a line that two chunks share
\* is none of the answers.
CutLine ==
    /\ Core!ReadAnswer /\ cut' = TRUE
    /\ UNCHANGED <<editor, up, down, server, commands, unapplied>>

\* Results were listed: the requester is taken, and waits for the log to be there.
Listed(i) ==
    /\ successes[i] = "listing" /\ requesters' = Shifted
    /\ successes' = IF requesters = <<>> THEN RemoveAt(successes, i)
                    ELSE [successes EXCEPT ![i] = Head(requesters)]
    /\ UNCHANGED <<editor, up, down, engine, core, commands, unapplied, cut>>

NotifySuccess(i) ==
    /\ successes[i] \in Clients /\ successes' = RemoveAt(successes, i)
    /\ down' = [down EXCEPT ![successes[i]] = Append(@, "backtestingSuccess")]
    /\ UNCHANGED <<editor, up, engine, requesters, core, commands, unapplied, cut>>

\* The process ends by itself, with a code other than 0, or could not be started.  What
\* it wrote is still read; it is not started again.
EngineEnds ==
    /\ engine # "none" /\ engine' = "none" /\ NotifyAllClientsBacktestingFailed
    /\ pipe' = <<>> /\ slot' = None /\ busy' = None /\ phase' = "idle"
    /\ unapplied' = (unapplied \/ (\E i \in DOMAIN pipe : Loses(pipe[i])) \/ Loses(slot)
                     \/ (phase \in {"taken", "preparing"} /\ Loses(busy)))
    /\ UNCHANGED <<editor, up, successes, stop, exiting, bars, out, commands, cut>>

-----------------------------------------------------------------------------
\* Without its executable the engine is not started, and nobody is told.
BridgeInit ==
    /\ config \in [Clients -> Configs]
    /\ running = [k \in Clients |-> FALSE] /\ stopRequestedRef = running /\ building = running
    /\ needsReload = running /\ builds = [k \in Clients |-> {}]
    /\ configHash = [k \in Clients |-> NoConfig]
    /\ up = [k \in Clients |-> <<>>] /\ down = up
    /\ engine \in {"starting", "none"} /\ requesters = <<>> /\ successes = <<>>
    /\ Core!Init /\ commands = 0 /\ unapplied = FALSE /\ cut = FALSE

Click(k) ==
    \/ HandleRunSingleBacktesting(k) \/ HandleStopBacktesting(k)
    \/ HandleFetchOrUpdateBarData(k) \/ ChangeConfig(k)
BuildEnds(k) == \E b \in builds[k] : Built(k, b) \/ BuildFailed(k, b)
Notifies == \E i \in DOMAIN successes : Listed(i) \/ NotifySuccess(i)

BridgeNext ==
    \/ \E k \in Clients : Click(k) \/ BuildEnds(k) \/ HandleMessage(k) \/ PassOn(k)
    \/ EngineReady \/ EngineStep \/ ReadOutput \/ CutLine \/ Notifies \/ EngineEnds

BridgeSpec == BridgeInit /\ [][BridgeNext]_bridgeVars

\* Messages arrive, builds end, the engine runs and the server answers; nobody has
\* to click and the engine does not have to end.
BridgeFairSpec ==
    /\ BridgeSpec /\ WF_bridgeVars(EngineReady) /\ WF_bridgeVars(EngineStep)
    /\ WF_bridgeVars(ReadOutput) /\ WF_bridgeVars(Notifies)
    /\ \A k \in Clients :
        WF_bridgeVars(BuildEnds(k)) /\ WF_bridgeVars(HandleMessage(k)) /\ WF_bridgeVars(PassOn(k))

-----------------------------------------------------------------------------
(* Properties.                                                             *)

Answered == phase = "ending"
CountIn(s, S) == Cardinality({i \in DOMAIN s : s[i] \in S})
RunsIn(s) == CountIn(s, Runs)
EndsIn(s) == CountIn(s, {"completed", "failed"})
ListingIn(s) == CountIn(s, {"listing"})

\* Backtests whose success or failure is still to take a requester.
Outstanding ==
    RunsIn(pipe) + RunsIn(<<slot>>) + (IF IsRun(busy) /\ ~Answered THEN 1 ELSE 0)
    + EndsIn(out) + ListingIn(successes)

BridgeTypeOK ==
    /\ config \in [Clients -> Configs] /\ configHash \in [Clients -> Configs \cup {NoConfig}]
    /\ running \in [Clients -> BOOLEAN] /\ stopRequestedRef \in [Clients -> BOOLEAN]
    /\ building \in [Clients -> BOOLEAN] /\ needsReload \in [Clients -> BOOLEAN]
    /\ \A k \in Clients :
        /\ builds[k] \subseteq (0..MaxCommands - 1) \X Configs
        /\ up[k] \in Seq(Runs \cup {Fetch, Stop})
    /\ engine \in {"starting", "ready", "none"}
    /\ requesters \in Seq(Clients) /\ successes \in Seq(Clients \cup {"listing"})
    /\ pipe \in Seq(Runs \cup {Fetch, Stop}) /\ slot \in Runs \cup {Fetch, None}
    /\ busy \in Runs \cup {Fetch, None} /\ bars \in Configs \cup {NoConfig}
    /\ commands \in 0..MaxCommands /\ ~exiting /\ cut \in BOOLEAN

\* Whatever was stopped, overwritten or answered twice, no success and no failure of
\* a backtest ever finds the queue of requesters empty.
SomeoneIsTold == engine = "ready" => Outstanding <= Len(requesters)

\* A backtest executes on the bar data its client shows, unless a run that was to
\* replace them was lost before.
BarsMatch ==
    ~unapplied /\ IsRun(busy) /\ phase = "running" => bars = busy.config

\* The client whose command the engine has is released, even if the engine ends, unless
\* an answer was cut (with one client: the answers of two take each other's requesters).
EngineHas == busy # None \/ slot # None \/ \E i \in DOMAIN pipe : pipe[i] # Stop
AnsweredIsReleased ==
    \A k \in Clients : EngineHas /\ running[k] ~> ~running[k] \/ cut

\* What a client asks for is always answered.  The code does not keep this: what is
\* asked for while there is no engine is dropped, and so is the stop.
UINotStuck == \A k \in Clients : running[k] ~> ~running[k]

\* A backtest executes on the bar data its client shows.  The code does not keep
\* this: the configuration is recorded before the engine has its bar data.
BarsAsShown == IsRun(busy) /\ phase = "running" => bars = busy.config
=============================================================================
