-------------------------- MODULE ResultsView_proofs --------------------------
(***************************************************************************)
(* Proofs about ResultsView, for any results, and any number of            *)
(* selections, successes and failures.                                     *)
(***************************************************************************)
EXTENDS ResultsView, SequenceTheorems, TLAPS

Held == Results \cup {NoResult}
Calls == [function : Nat, id : Nat, user : BOOLEAN]
Selectors == [closure : Held, current : Nat]
Loads == [seq : Nat, result : Results, attempt : 1..Attempts]

\* The result the views were last rendered with.
Shown == functions[Latest].closure

-----------------------------------------------------------------------------
(* The inductive invariant.                                                *)

TypedOK ==
    /\ functions \in Seq(Selectors) /\ functions # <<>>
    /\ calls \in SUBSET Calls /\ loads \in SUBSET Loads
    /\ selected \in Held /\ loadSeq \in Nat /\ failures \in Nat
    /\ \A h \in handlers : h.function \in DOMAIN functions /\ h.pick \in Held
    /\ spinner \in BOOLEAN /\ localSelecting \in BOOLEAN /\ overtaken \in BOOLEAN

\* Each call has a number its function has given, and the user waits for one.
CallsOK ==
    /\ \A c \in calls : c.function \in DOMAIN functions /\ c.id <= functions[c.function].current
    /\ \A c, d \in calls : c.user /\ d.user => c = d
    /\ localSelecting <=> \E c \in calls : c.user

\* The spinner waits for a call that will turn it off.
SpinnerOK == spinner /\ ~overtaken => \E c \in calls : Current(c)

\* The last request is for the result the views were rendered with: it is under way, or
\* its answer is held, or too much has failed.
LoadsOK ==
    /\ \A l \in loads : l.seq <= loadSeq /\ l.attempt <= failures + 1
                        /\ (l.seq = loadSeq => l.result = Shown)
    /\ Shown # NoResult =>
         \/ \E l \in loads : l.seq = loadSeq
         \/ config = Shown /\ configResult = Shown
         \/ failures >= Attempts

IInv == TypedOK /\ CallsOK /\ SpinnerOK /\ LoadsOK

-----------------------------------------------------------------------------
(* The steps.                                                              *)

\* There is a last rendered selectResult, with its number.
LEMMA Functions1 ==
    ASSUME TypedOK
    PROVE  Latest \in DOMAIN functions /\ Shown \in Held /\ Latest \in Nat
           /\ DOMAIN functions = 1..Latest
           /\ \A f \in DOMAIN functions : functions[f] \in Selectors
<1>1. Latest \in Nat \ {0} /\ DOMAIN functions = 1..Latest
  BY EmptySeq, LenProperties DEF TypedOK, Latest
<1>2. \A f \in 1..Latest : functions[f] \in Selectors
  BY ElementOfSeq DEF TypedOK, Latest
<1>3. Latest \in 1..Latest
  BY <1>1
<1>4. functions[Latest].closure \in Held
  BY <1>2, <1>3 DEF Selectors
<1> QED BY <1>1, <1>2, <1>3, <1>4 DEF Shown

\* A function takes a number.
LEMMA Numbered ==
    ASSUME TypedOK, NEW f \in DOMAIN functions,
           functions' = [functions EXCEPT ![f].current = functions[f].current + 1]
    PROVE  /\ functions' \in Seq(Selectors) /\ functions' # <<>>
           /\ DOMAIN functions' = DOMAIN functions /\ Shown' = Shown
           /\ \A g \in DOMAIN functions :
                functions'[g].closure = functions[g].closure
                /\ functions'[g].current = IF g = f THEN functions[f].current + 1
                                           ELSE functions[g].current
<1>1. PICK e : e = [functions[f] EXCEPT !.current = functions[f].current + 1]
  OBVIOUS
<1>2. e \in Selectors /\ e.closure = functions[f].closure
      /\ e.current = functions[f].current + 1
  BY <1>1, Functions1 DEF Selectors
<1>3. functions' = [functions EXCEPT ![f] = e]
  BY <1>1
<1>4. functions' \in Seq(Selectors) /\ Len(functions') = Len(functions)
      /\ \A g \in DOMAIN functions : functions'[g] = IF g = f THEN e ELSE functions[g]
  <2>1. functions \in Seq(Selectors) /\ f \in 1..Len(functions) /\ DOMAIN functions = 1..Len(functions)
    BY Functions1 DEF TypedOK, Latest
  <2> QED BY <1>2, <1>3, <2>1, ExceptSeq
<1>5. DOMAIN functions' = DOMAIN functions
  BY <1>3
<1> QED BY <1>2, <1>4, <1>5, Functions1 DEF Shown, Latest

\* A call of selectResult by the user or a handler is under way with a number of its own.
LEMMA SelectResultOK ==
    ASSUME IInv, NEW f \in DOMAIN functions, NEW name \in Held, NEW user \in BOOLEAN,
           user => ~localSelecting, SelectResult(f, name, user)
    PROVE  /\ functions' \in Seq(Selectors) /\ functions' # <<>>
           /\ DOMAIN functions' = DOMAIN functions /\ Shown' = Shown
           /\ calls' \in SUBSET Calls /\ selected' \in Held
           /\ spinner' \in BOOLEAN /\ localSelecting' \in BOOLEAN /\ overtaken' \in BOOLEAN
           /\ CallsOK' /\ SpinnerOK'
<1>0. TypedOK /\ CallsOK /\ SpinnerOK
  BY DEF IInv
<1>1. PICK id \in Nat : id = functions[f].current + 1
  BY <1>0, Functions1 DEF Selectors
<1>2. functions' = [functions EXCEPT ![f].current = functions[f].current + 1]
  BY DEF SelectResult
<1>3. /\ functions' \in Seq(Selectors) /\ functions' # <<>>
      /\ DOMAIN functions' = DOMAIN functions /\ Shown' = Shown
      /\ \A g \in DOMAIN functions :
           functions'[g].current = IF g = f THEN id ELSE functions[g].current
  BY <1>0, <1>1, <1>2, Numbered
<1>4. /\ \A g \in DOMAIN functions : functions[g].current \in Nat
      /\ \A c \in calls : c.id \in Nat
  BY <1>0, Functions1 DEF Selectors, TypedOK, Calls
<1>5. CASE name = functions[f].closure
  <2>1. overtaken' = (overtaken \/ \E c \in calls : c.function = f /\ Current(c))
        /\ UNCHANGED <<selected, calls, spinner, localSelecting>>
    BY <1>5 DEF SelectResult
  <2>2. CallsOK'
    <3>1. ASSUME NEW c \in calls PROVE c.function \in DOMAIN functions' /\ c.id <= functions'[c.function].current
      <4>1. c.function \in DOMAIN functions /\ c.id <= functions[c.function].current
        BY <1>0 DEF CallsOK
      <4> QED BY <1>1, <1>3, <1>4, <4>1
    <3> QED BY <1>0, <2>1, <3>1 DEF CallsOK
  <2>3. SpinnerOK'
    <3>1. ASSUME spinner', ~overtaken' PROVE \E c \in calls' : Current(c)'
      <4>1. PICK c \in calls : Current(c)
        BY <1>0, <2>1, <3>1 DEF SpinnerOK
      <4>2. c.function # f /\ c.function \in DOMAIN functions
        BY <1>0, <2>1, <3>1, <4>1 DEF CallsOK
      <4> QED BY <1>3, <2>1, <4>1, <4>2 DEF Current
    <3> QED BY <3>1 DEF SpinnerOK
  <2>4. overtaken' \in BOOLEAN
    BY <2>1
  <2> QED BY <1>0, <1>3, <2>1, <2>2, <2>3, <2>4 DEF TypedOK
<1>6. CASE name # functions[f].closure
  <2>1. PICK c : c = [function |-> f, id |-> id, user |-> user]
    OBVIOUS
  <2>2. selected' = name /\ spinner' = TRUE /\ calls' = calls \cup {c}
        /\ localSelecting' = (localSelecting \/ user) /\ overtaken' = overtaken
    BY <1>1, <1>6, <2>1 DEF SelectResult
  <2>3. c \in Calls /\ c.function = f /\ c.id = id /\ c.user = user
    BY <1>0, <1>1, <2>1, Functions1 DEF Calls
  <2>4. CallsOK'
    <3>1. \A d \in calls' : d.function \in DOMAIN functions' /\ d.id <= functions'[d.function].current
      <4>1. ASSUME NEW d \in calls
            PROVE  d.function \in DOMAIN functions' /\ d.id <= functions'[d.function].current
        <5>1. d.function \in DOMAIN functions /\ d.id <= functions[d.function].current
          BY <1>0 DEF CallsOK
        <5> QED BY <1>1, <1>3, <1>4, <5>1
      <4> QED BY <1>1, <1>3, <2>2, <2>3, <4>1
    <3>2. \A d, e \in calls' : d.user /\ e.user => d = e
      BY <1>0, <2>2, <2>3 DEF CallsOK
    <3>3. localSelecting' <=> \E d \in calls' : d.user
      BY <1>0, <2>2, <2>3 DEF CallsOK
    <3> QED BY <3>1, <3>2, <3>3 DEF CallsOK
  <2>5. Current(c)'
    BY <1>3, <2>3 DEF Current
  <2>6. SpinnerOK'
    BY <2>2, <2>5 DEF SpinnerOK
  <2>7. localSelecting' \in BOOLEAN
    BY <2>2
  <2> QED BY <1>0, <1>3, <2>2, <2>3, <2>4, <2>6, <2>7 DEF TypedOK
<1> QED BY <1>5, <1>6

\* The end of a call turns off the spinner and the lock that are its own.
LEMMA FinishOK ==
    ASSUME IInv, NEW c \in calls, Finish(c)
    PROVE  IInv'
<1>0. TypedOK /\ CallsOK /\ SpinnerOK /\ LoadsOK
  BY DEF IInv
<1>1. /\ calls' = calls \ {c} /\ localSelecting' = (localSelecting /\ ~c.user)
      /\ (IF Current(c) THEN spinner' = FALSE ELSE UNCHANGED spinner)
      /\ UNCHANGED <<selected, functions, overtaken, handlers, loads, loadSeq, config, configResult, failures>>
  BY DEF Finish, loadVars
<1>2. TypedOK'
  <2>1. localSelecting' \in BOOLEAN /\ spinner' \in BOOLEAN
    BY <1>0, <1>1 DEF TypedOK
  <2> QED BY <1>0, <1>1, <2>1 DEF TypedOK
<1>3. CallsOK'
  <2>1. localSelecting' <=> \E d \in calls' : d.user
    BY <1>0, <1>1 DEF CallsOK
  <2> QED BY <1>0, <1>1, <2>1 DEF CallsOK
<1>4. SpinnerOK'
  BY <1>0, <1>1 DEF SpinnerOK, Current
<1>5. LoadsOK'
  BY <1>0, <1>1 DEF LoadsOK, Shown, Latest
<1> QED BY <1>2, <1>3, <1>4, <1>5 DEF IInv

\* A selection leaves the requests alone.
LEMMA SelectionOK ==
    ASSUME IInv, NEW f \in DOMAIN functions, NEW name \in Held, NEW user \in BOOLEAN,
           user => ~localSelecting, SelectResult(f, name, user), handlers' \subseteq handlers,
           UNCHANGED loadVars
    PROVE  IInv'
<1>1. UNCHANGED <<loads, loadSeq, config, configResult, failures>>
  BY DEF loadVars
<1>2. TypedOK'
  BY <1>1, SelectResultOK DEF IInv, TypedOK
<1>3. LoadsOK'
  BY <1>1, SelectResultOK DEF IInv, LoadsOK
<1> QED BY <1>2, <1>3, SelectResultOK DEF IInv

\* The user selects a result: the lock is on as long as the call.
LEMMA OnSelectOptionOK ==
    ASSUME IInv, NEW name \in Held, OnSelectOption(name)
    PROVE  IInv'
<1>1. Latest \in DOMAIN functions
  BY Functions1 DEF IInv
<1> QED BY <1>1, SelectionOK DEF OnSelectOption

\* The calls are as they were, of functions as they were.
LEMMA CallsAlone ==
    ASSUME IInv, UNCHANGED <<functions, calls, spinner, localSelecting, overtaken>>
    PROVE  CallsOK' /\ SpinnerOK'
BY DEF IInv, CallsOK, SpinnerOK, Current

\* A success asks for the list of results.
LEMMA BacktestingSuccessOK ==
    ASSUME IInv, NEW r \in Held, BacktestingSuccess(r)
    PROVE  IInv'
<1>1. /\ handlers' = handlers \cup {[n |-> successes', function |-> Latest, pick |-> r]}
      /\ UNCHANGED <<selected, functions, calls, spinner, localSelecting, overtaken, loads, loadSeq,
                     config, configResult, failures>>
  BY DEF BacktestingSuccess, selectVars, loadVars
<1>2. TypedOK'
  BY <1>1, Functions1 DEF IInv, TypedOK
<1>3. LoadsOK'
  BY <1>1 DEF IInv, LoadsOK, Shown, Latest
<1> QED BY <1>1, <1>2, <1>3, CallsAlone DEF IInv

\* The list has come, and the new result is selected with the function of that time.
LEMMA ResultsRefreshedOK ==
    ASSUME IInv, NEW h \in handlers, ResultsRefreshed(h)
    PROVE  IInv'
<1>1. handlers' = handlers \ {h} /\ UNCHANGED loadVars /\ h.function \in DOMAIN functions
      /\ h.pick \in Held
  BY DEF ResultsRefreshed, IInv, TypedOK
<1>2. CASE SelectResult(h.function, h.pick, FALSE)
  BY <1>1, <1>2, SelectionOK
<1>3. CASE UNCHANGED <<selected, functions, calls, spinner, localSelecting, made, overtaken>>
  <2>1. UNCHANGED <<loads, loadSeq, config, configResult, failures>>
    BY <1>1 DEF loadVars
  <2>2. TypedOK'
    BY <1>1, <1>3, <2>1 DEF IInv, TypedOK
  <2>3. LoadsOK'
    BY <1>3, <2>1 DEF IInv, LoadsOK, Shown, Latest
  <2> QED BY <1>3, <2>2, <2>3, CallsAlone DEF IInv
<1> QED BY <1>2, <1>3 DEF ResultsRefreshed, selectVars

\* The first result is selected without a call.
LEMMA SelectFirstOK ==
    ASSUME IInv, NEW r \in Held, SelectFirst(r)
    PROVE  IInv'
<1>1. /\ selected' \in Held
      /\ UNCHANGED <<functions, calls, spinner, localSelecting, overtaken, handlers, loads, loadSeq,
                     config, configResult, failures>>
  BY DEF SelectFirst, loadVars, IInv, TypedOK, Held
<1>2. TypedOK'
  BY <1>1 DEF IInv, TypedOK
<1>3. LoadsOK'
  BY <1>1 DEF IInv, LoadsOK, Shown, Latest
<1> QED BY <1>1, <1>2, <1>3, CallsAlone DEF IInv

\* Rendering makes selectResult anew, and asks for the configuration of another result.
LEMMA RenderOK ==
    ASSUME IInv, Render
    PROVE  IInv'
<1>0. TypedOK /\ CallsOK /\ SpinnerOK /\ LoadsOK
  BY DEF IInv
<1>1. /\ functions' = IF selected = Shown THEN functions
                      ELSE Append(functions, [closure |-> selected, current |-> 0])
      /\ loadSeq' = loadSeq + 1
      /\ loads' = IF selected = NoResult THEN loads
                  ELSE loads \cup {[seq |-> loadSeq', result |-> selected, attempt |-> 1]}
      /\ UNCHANGED <<selected, calls, spinner, overtaken, localSelecting, handlers, failures>>
  BY DEF Render, Shown
<1>2. /\ functions' \in Seq(Selectors) /\ functions' # <<>>
      /\ DOMAIN functions \subseteq DOMAIN functions' /\ Shown' = selected
      /\ \A g \in DOMAIN functions : functions'[g] = functions[g]
  <2>1. CASE selected = Shown
    BY <1>0, <1>1, <2>1 DEF TypedOK, Shown, Latest
  <2>2. CASE selected # Shown
    <3>1. PICK e : e = [closure |-> selected, current |-> 0]
      OBVIOUS
    <3>2. e \in Selectors /\ e.closure = selected
      BY <1>0, <3>1 DEF TypedOK, Selectors
    <3>3. functions' = Append(functions, e)
      BY <1>1, <2>2, <3>1
    <3>4. /\ functions' \in Seq(Selectors)
          /\ Len(functions') = Len(functions) + 1
          /\ \A g \in 1..Len(functions) : functions'[g] = functions[g]
          /\ functions'[Len(functions) + 1] = e
      BY <1>0, <3>2, <3>3, AppendProperties DEF TypedOK
    <3>5. DOMAIN functions = 1..Len(functions) /\ DOMAIN functions' = 1..Len(functions')
          /\ Len(functions) \in Nat
      BY <1>0, <3>4, LenProperties DEF TypedOK
    <3> QED BY <3>2, <3>4, <3>5, EmptySeq DEF Shown, Latest
  <2> QED BY <2>1, <2>2
<1>3. TypedOK'
  <2>1. loads' \in SUBSET Loads
    BY <1>0, <1>1 DEF TypedOK, Loads, Held, Attempts
  <2> QED BY <1>0, <1>1, <1>2, <2>1 DEF TypedOK
<1>4. CallsOK' /\ SpinnerOK'
  BY <1>0, <1>1, <1>2 DEF CallsOK, SpinnerOK, Current
<1>5. LoadsOK'
  <2>1. \A l \in loads : l.seq \in Nat /\ l.seq <= loadSeq
    BY <1>0 DEF TypedOK, Loads, LoadsOK
  <2>2. loadSeq \in Nat /\ failures \in Nat
    BY <1>0 DEF TypedOK
  <2>3. CASE selected = NoResult
    BY <1>0, <1>1, <1>2, <2>1, <2>2, <2>3 DEF LoadsOK
  <2>4. CASE selected # NoResult
    <3>1. PICK l : l = [seq |-> loadSeq', result |-> selected, attempt |-> 1]
      OBVIOUS
    <3>2. l.seq = loadSeq' /\ l.result = selected /\ l.attempt = 1 /\ loads' = loads \cup {l}
      BY <1>1, <2>4, <3>1
    <3> QED BY <1>0, <1>1, <1>2, <2>1, <2>2, <3>2 DEF LoadsOK
  <2> QED BY <2>3, <2>4
<1> QED BY <1>3, <1>4, <1>5 DEF IInv

\* A configuration that came is held if its request is the last.
LEMMA ConfigLoadedOK ==
    ASSUME IInv, NEW l \in loads, ConfigLoaded(l)
    PROVE  IInv'
<1>0. TypedOK /\ LoadsOK
  BY DEF IInv
<1>1. /\ loads' = loads \ {l}
      /\ (IF l.seq = loadSeq THEN config' = l.result /\ configResult' = l.result
          ELSE UNCHANGED <<config, configResult>>)
      /\ UNCHANGED <<selected, functions, calls, spinner, localSelecting, overtaken, handlers, loadSeq,
                     failures>>
  BY DEF ConfigLoaded, selectVars
<1>2. TypedOK'
  BY <1>0, <1>1 DEF TypedOK
<1>3. LoadsOK'
  BY <1>0, <1>1 DEF LoadsOK, Shown, Latest
<1> QED BY <1>1, <1>2, <1>3, CallsAlone DEF IInv

\* A request that failed is made again, three times at most.
LEMMA ConfigFailedOK ==
    ASSUME IInv, NEW l \in loads, ConfigFailed(l)
    PROVE  IInv'
<1>0. TypedOK /\ LoadsOK /\ l \in Loads /\ failures \in Nat
  BY DEF IInv, TypedOK
<1>1. /\ failures' = failures + 1
      /\ UNCHANGED <<selected, functions, calls, spinner, localSelecting, overtaken, handlers, loadSeq>>
  BY DEF ConfigFailed, selectVars
<1>2. \A k \in loads : k \in Loads /\ k.attempt \in Nat /\ k.attempt <= failures + 1
  BY <1>0 DEF TypedOK, Loads, LoadsOK
<1>3. CASE l.attempt < Attempts
  <2>1. PICK k : k = [l EXCEPT !.attempt = l.attempt + 1]
    OBVIOUS
  <2>2. loads' = (loads \ {l}) \cup {k} /\ UNCHANGED <<config, configResult>>
    BY <1>3, <2>1 DEF ConfigFailed
  <2>3. k \in Loads /\ k.seq = l.seq /\ k.result = l.result /\ k.attempt = l.attempt + 1
    BY <1>0, <1>3, <2>1 DEF Loads, Attempts
  <2>4. TypedOK'
    BY <1>0, <1>1, <2>2, <2>3 DEF TypedOK
  <2>5. LoadsOK'
    <3>1. \A j \in loads' : j.seq <= loadSeq' /\ j.attempt <= failures' + 1
                            /\ (j.seq = loadSeq' => j.result = Shown')
      BY <1>0, <1>1, <1>2, <2>2, <2>3 DEF LoadsOK, Shown, Latest
    <3>2. (\E j \in loads : j.seq = loadSeq) => \E j \in loads' : j.seq = loadSeq'
      BY <1>1, <2>2, <2>3
    <3>3. failures >= Attempts => failures' >= Attempts
      BY <1>0, <1>1 DEF Attempts
    <3> QED BY <1>0, <1>1, <2>2, <3>1, <3>2, <3>3 DEF LoadsOK, Shown, Latest
  <2> QED BY <1>1, <2>4, <2>5, CallsAlone DEF IInv
<1>4. CASE ~(l.attempt < Attempts)
  <2>1. loads' = loads \ {l}
    BY <1>4 DEF ConfigFailed
  <2>2. failures' >= Attempts
    BY <1>0, <1>1, <1>2, <1>4 DEF Loads, Attempts
  <2>3. TypedOK'
    BY <1>0, <1>1, <2>1 DEF TypedOK
  <2>4. LoadsOK'
    BY <1>0, <1>1, <1>2, <2>1, <2>2 DEF LoadsOK, Shown, Latest
  <2> QED BY <1>1, <2>3, <2>4, CallsAlone DEF IInv
<1> QED BY <1>3, <1>4

-----------------------------------------------------------------------------
(* The theorems.                                                           *)

\* At first no result is selected.
LEMMA InitOK == Init => IInv
<1> SUFFICES ASSUME Init PROVE IInv
  OBVIOUS
<1>1. PICK e : e = [closure |-> NoResult, current |-> 0]
  OBVIOUS
<1>2. e \in Selectors /\ e.closure = NoResult
  BY <1>1 DEF Held, Selectors
<1>3. functions = <<e>>
  BY <1>1 DEF Init
<1>4. functions \in Seq(Selectors) /\ functions # <<>> /\ Shown = NoResult
  BY <1>2, <1>3 DEF Shown, Latest
<1>5. TypedOK
  BY <1>4 DEF Init, TypedOK, Held
<1> QED BY <1>4, <1>5 DEF Init, IInv, CallsOK, SpinnerOK, LoadsOK

\* The calls, the spinner, the lock of the title bar and the requests of configurations
\* fit together in every state.
THEOREM Inductive == Spec => []IInv
<1>1. IInv /\ [Next]_vars => IInv'
  <2> SUFFICES ASSUME IInv, [Next]_vars PROVE IInv'
    OBVIOUS
  <2>1. CASE Next
    BY <2>1, OnSelectOptionOK, FinishOK, BacktestingSuccessOK, SelectFirstOK, ResultsRefreshedOK,
       RenderOK, ConfigLoadedOK, ConfigFailedOK DEF Next, Held
  <2>2. CASE UNCHANGED vars
    BY <2>2 DEF vars, selectVars, loadVars, IInv, TypedOK, CallsOK, SpinnerOK, LoadsOK, Current,
                Shown, Latest
  <2> QED BY <2>1, <2>2
<1> QED BY <1>1, InitOK, PTL DEF Spec

\* No spinner and no lock of the title bar outlives the selections, but for a call that
\* is ignored and takes the number of the one under way (ResultsContext.tsx selectResult).
THEOREM SelectionsEnd == Spec => []NothingLeftOn
<1>1. IInv => NothingLeftOn
  BY DEF IInv, TypedOK, CallsOK, SpinnerOK, NothingLeftOn
<1> QED BY <1>1, Inductive, PTL

\* Once everything is answered the chart of the result that is shown can be mounted, if
\* no three requests failed.
THEOREM ChartIsMountable == Spec => []ChartMountable
<1>1. IInv => ChartMountable
  BY DEF IInv, LoadsOK, TypedOK, ChartMountable, ChartMounted, Rendered, Shown, Attempts
<1> QED BY <1>1, Inductive, PTL
=============================================================================
