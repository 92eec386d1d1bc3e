---------------------------- MODULE ResultsView ----------------------------
(***************************************************************************)
(* The result all views show: chosen by the user in the title bar, by a    *)
(* backtest that succeeds, or on the first load; and the configuration of  *)
(* it, without which the chart is not mounted.                             *)
(*                                                                         *)
(* A selection lasts three seconds, under a spinner.  What is to keep two  *)
(* of them apart, the number of the current one, is a field of the         *)
(* function selectResult itself; and a render after the selected result    *)
(* has changed makes another function, whose numbers start again.          *)
(***************************************************************************)
EXTENDS Naturals, Sequences, FiniteSets, SequencesExt

CONSTANTS
    Results,      \* folders of results
    NoResult,     \* null
    MaxCalls,     \* bound: calls of selectResult
    MaxSuccesses, \* bound: backtests that succeed
    MaxFailures   \* bound: requests of a configuration that fail

ASSUME ResultsAssumption ==
    /\ Results # {} /\ NoResult \notin Results
    /\ MaxCalls \in Nat /\ MaxSuccesses \in Nat /\ MaxFailures \in Nat

VARIABLES
    selected,       \* selectedResult
    version,        \* selectedResultVersion
    functions,      \* each selectResult so far: selectedResult in its closure, and _current
    calls,          \* selections that are not at their end
    spinner,        \* isSelectingResult
    localSelecting, \* the title bar waits for its selection
    handlers,       \* messages of a success that wait for the list of results
    mounting,       \* the list of the first load is not there yet
    renderedVersion,
    loads, loadSeq, \* requests of a configuration; all but the last are cancelled
    config, configResult,
    made,           \* calls so far
    successes, failures,
    overtaken       \* a call that was ignored took the number of one under way

selectVars == <<selected, version, functions, calls, spinner, made, overtaken>>
loadVars == <<renderedVersion, loads, loadSeq, config, configResult, failures>>
vars == <<selectVars, localSelecting, handlers, mounting, loadVars, successes>>

Latest == Len(functions)
Attempts == 3

\* What the views were last rendered with.
Rendered == selected = functions[Latest].closure /\ version = renderedVersion

Current(c) == functions[c.function].current = c.id

----------------------------------------------------------------------------
(* selectResult                                                             *)

SelectResultMutant(f, name, user) ==
    LET id == functions[f].current + 1
    IN /\ made < MaxCalls /\ made' = made + 1
       /\ functions' = [functions EXCEPT ![f].current = id]
       /\ IF name = functions[f].closure
          THEN /\ overtaken' = (overtaken \/ \E c \in calls : c.function = f /\ Current(c))
               /\ UNCHANGED <<selected, calls, spinner, localSelecting>>
          ELSE /\ selected' = name /\ spinner' = TRUE
               /\ calls' = {c \in calls : c.function # f}
                           \cup {[function |-> f, id |-> id, user |-> user]}
               /\ localSelecting' = (localSelecting \/ user) /\ UNCHANGED overtaken
       /\ UNCHANGED version

\* The function of some render is called.  It takes a number even if it then ignores
\* the call, as the result is the one it knows.
SelectResult(f, name, user) ==
    LET id == functions[f].current + 1
    IN /\ made < MaxCalls /\ made' = made + 1
       /\ functions' = [functions EXCEPT ![f].current = id]
       /\ IF name = functions[f].closure
          THEN /\ overtaken' = (overtaken \/ \E c \in calls : c.function = f /\ Current(c))
               /\ UNCHANGED <<selected, calls, spinner, localSelecting>>
          ELSE /\ selected' = name /\ spinner' = TRUE
               /\ calls' = calls \cup {[function |-> f, id |-> id, user |-> user]}
               /\ localSelecting' = (localSelecting \/ user) /\ UNCHANGED overtaken
       /\ UNCHANGED version

FinishMutant(c) ==
    /\ calls' = calls \ {c}
    /\ IF Current(c) /\ c.function = Latest THEN spinner' = FALSE /\ version' = version + 1
       ELSE UNCHANGED <<spinner, version>>
    /\ localSelecting' = (localSelecting /\ ~c.user)
    /\ UNCHANGED <<selected, functions, made, overtaken, handlers, mounting, loadVars, successes>>

\* Three seconds are over, or the same function was called again.
Finish(c) ==
    /\ calls' = calls \ {c}
    /\ IF Current(c) THEN spinner' = FALSE /\ version' = version + 1
       ELSE UNCHANGED <<spinner, version>>
    /\ localSelecting' = (localSelecting /\ ~c.user)
    /\ UNCHANGED <<selected, functions, made, overtaken, handlers, mounting, loadVars, successes>>

\* The user chooses in the title bar, which is closed during his own selection.
OnSelectOption(name) ==
    /\ ~localSelecting /\ SelectResult(Latest, name, TRUE)
    /\ UNCHANGED <<handlers, mounting, loadVars, successes>>

\* The handler of the last render hears of a success and asks for the list of results:
\* it takes the one that is named, or else the last of the list, which may be empty.
BacktestingSuccess(r) ==
    /\ successes < MaxSuccesses /\ successes' = successes + 1
    /\ handlers' = handlers \cup {[n |-> successes', function |-> Latest, pick |-> r]}
    /\ UNCHANGED <<selectVars, localSelecting, mounting, loadVars>>

\* The list is there.  The handler compares with the result it was rendered with.
ResultsRefreshed(h) ==
    /\ handlers' = handlers \ {h}
    /\ CASE h.pick = NoResult -> UNCHANGED <<selectVars, localSelecting>>
         [] h.pick # NoResult /\ h.pick = functions[h.function].closure ->
              /\ version' = version + 1
              /\ UNCHANGED <<selected, functions, calls, spinner, localSelecting, made, overtaken>>
         [] OTHER -> SelectResult(h.function, h.pick, FALSE)
    /\ UNCHANGED <<mounting, loadVars, successes>>

\* On the first load a result is selected unless one is, without a spinner; none if the
\* list is empty.
SelectFirst(r) ==
    /\ mounting /\ mounting' = FALSE
    /\ selected' = IF selected = NoResult THEN r ELSE selected
    /\ UNCHANGED <<version, functions, calls, spinner, made, overtaken, localSelecting, handlers,
                   loadVars, successes>>

----------------------------------------------------------------------------
(* The configuration of the selected result.                                *)

\* A render: another function if the result changed; the effect cancels the request
\* before, forgets the configuration and asks for it.
Render ==
    /\ ~Rendered
    /\ functions' = IF selected = functions[Latest].closure THEN functions
                    ELSE Append(functions, [closure |-> selected, current |-> 0])
    /\ renderedVersion' = version
    /\ config' = NoResult /\ configResult' = NoResult
    /\ loadSeq' = loadSeq + 1
    /\ loads' = IF selected = NoResult THEN loads
                ELSE loads \cup {[seq |-> loadSeq', result |-> selected, attempt |-> 1]}
    /\ UNCHANGED <<selected, version, calls, spinner, made, overtaken, localSelecting, handlers,
                   mounting, successes, failures>>

ConfigLoadedMutant(l) ==
    /\ loads' = loads \ {l} /\ config' = l.result /\ configResult' = l.result
    /\ UNCHANGED <<selectVars, localSelecting, handlers, mounting, renderedVersion, loadSeq,
                   successes, failures>>

\* A request that was cancelled is not looked at.
ConfigLoaded(l) ==
    /\ loads' = loads \ {l}
    /\ IF l.seq = loadSeq THEN config' = l.result /\ configResult' = l.result
       ELSE UNCHANGED <<config, configResult>>
    /\ UNCHANGED <<selectVars, localSelecting, handlers, mounting, renderedVersion, loadSeq,
                   successes, failures>>

\* It is tried again, cancelled or not; the last failure of a cancelled one forgets whose
\* the configuration is.
ConfigFailed(l) ==
    /\ failures < MaxFailures /\ failures' = failures + 1
    /\ IF l.attempt < Attempts
       THEN /\ loads' = (loads \ {l}) \cup {[l EXCEPT !.attempt = @ + 1]}
            /\ UNCHANGED <<config, configResult>>
       ELSE /\ loads' = loads \ {l}
            /\ IF l.seq = loadSeq THEN config' = NoResult /\ UNCHANGED configResult
               ELSE configResult' = NoResult /\ UNCHANGED config
    /\ UNCHANGED <<selectVars, localSelecting, handlers, mounting, renderedVersion, loadSeq,
                   successes>>

Init ==
    /\ selected = NoResult /\ version = 0 /\ spinner = FALSE /\ localSelecting = FALSE
    /\ functions = <<[closure |-> NoResult, current |-> 0]>> /\ calls = {} /\ handlers = {}
    /\ mounting = TRUE /\ renderedVersion = 0 /\ loads = {} /\ loadSeq = 0
    /\ config = NoResult /\ configResult = NoResult
    /\ made = 0 /\ successes = 0 /\ failures = 0 /\ overtaken = FALSE

Next ==
    \/ \E name \in Results \cup {NoResult} : OnSelectOption(name)
    \/ \E c \in calls : Finish(c)
    \/ \E r \in Results \cup {NoResult} : BacktestingSuccess(r) \/ SelectFirst(r)
    \/ \E h \in handlers : ResultsRefreshed(h)
    \/ Render
    \/ \E l \in loads : ConfigLoaded(l) \/ ConfigFailed(l)

Spec == Init /\ [][Next]_vars

\* Timers fire, promises settle and views are rendered.
Progress ==
    \/ \E c \in calls : Finish(c)
    \/ \E h \in handlers : ResultsRefreshed(h)
    \/ Render
    \/ \E l \in loads : ConfigLoaded(l)

FairSpec == Spec /\ WF_vars(Progress)

----------------------------------------------------------------------------
(* Properties.                                                              *)

TypeOK ==
    /\ selected \in Results \cup {NoResult} /\ version \in Nat /\ renderedVersion \in 0..version
    /\ functions \in Seq([closure : Results \cup {NoResult}, current : 0..made])
    /\ \A c \in calls : c.function \in 1..Latest /\ c.id \in 1..functions[c.function].current
    /\ \A h \in handlers : h.function \in 1..Latest /\ h.pick \in Results \cup {NoResult}
    /\ {spinner, localSelecting, mounting, overtaken} \subseteq BOOLEAN
    /\ \A l \in loads : l.seq \in 1..loadSeq /\ l.result \in Results /\ l.attempt \in 1..Attempts
    /\ {config, configResult} \subseteq Results \cup {NoResult}
    /\ made \in 0..MaxCalls /\ successes \in 0..MaxSuccesses /\ failures \in 0..MaxFailures

\* When no selection is under way the spinner is off and the title bar can be used,
\* whichever functions were called in whichever order; but for a call that is ignored
\* and takes the number of the one under way.
NothingLeftOn ==
    /\ calls = {} /\ ~overtaken => ~spinner
    /\ localSelecting <=> \E c \in calls : c.user

ChartMounted == config # NoResult /\ configResult = selected

\* The views settle: once everything is answered the chart of a selected result can be
\* mounted, and with its own configuration, whoever selected it, however often, and
\* whatever was asked for before, if no three requests fail.
ChartMountable ==
    Rendered /\ loads = {} /\ selected # NoResult /\ failures < Attempts =>
        ChartMounted /\ config = selected

\* The title bar can be used again after each selection.
LockReleased == localSelecting ~> ~localSelecting

\* The spinner stays until the selection under way is over.  The code does not keep
\* this: the end of a call of an earlier function turns it off.
SpinnerCovers == (\E c \in calls : Current(c)) => spinner
=============================================================================
