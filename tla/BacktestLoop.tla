---------------------------- MODULE BacktestLoop ----------------------------
(***************************************************************************)
(* The main loop of the engine: which symbols trade in a bar, the funding, *)
(* the queue of orders a price fills, and the strategies run on close and  *)
(* after each fill until nothing more is entered or exited.                *)
(*                                                                         *)
(* The code is one thread; `pc' says which loop it is in and `symbol' the  *)
(* symbol that loop has reached.  Prices are abstracted: a price triggers  *)
(* any set of orders, and as their fill prices are free, SortOrders may    *)
(* put them in any order.  Orders are compared in the code now by object,  *)
(* now by name, so that an order here has an identity and a name.  Money   *)
(* is left to OrderHandler: whether an entry is admitted, which margin a   *)
(* filled entry holds, and which exits are refused at the end of the data, *)
(* are all that matters here.  Elsewhere a refused exit changes nothing,   *)
(* but for that of a reversal, which ends the program (OrderHandler).      *)
(***************************************************************************)
EXTENDS Integers, Sequences, SequencesExt, FiniteSets, FiniteSetsExt

CONSTANTS
    NumSymbols,        \* trading_bar_num_symbols_
    EntryNames,        \* entry names the strategy uses
    ExitNames,         \* exit names the strategy uses
    NumPrices,         \* prices visited per bar: 4 in the code (OHLC)
    NumBars,           \* bound: bars until end_close_time_
    MaxOrders,         \* bound: orders alive at the same time
    MaxCalls,          \* bound: orders and cancellations the strategies make in a bar
    FundingLiquidates  \* whether a funding may leave a position without enough margin

ASSUME LoopAssumption ==
    /\ NumSymbols \in Nat \ {0} /\ NumPrices \in Nat \ {0} /\ NumBars \in Nat \ {0}
    /\ MaxOrders \in Nat \ {0} /\ MaxCalls \in Nat
    /\ FundingLiquidates \in BOOLEAN

VARIABLES
    pc,           \* the loop the engine is in
    symbol,       \* the symbol that loop visits
    bar, price,   \* the bar, and the price within it
    active,       \* activated_symbol_indices_
    ended,        \* trading_ended_
    filled,       \* filled_entries_: a vector per symbol
    entries,      \* pending_entries_
    exits,        \* pending_exits_
    queue,        \* should_fill_orders_
    justEntered, justExited,  \* flags of the order handler
    locals,       \* just_entered and just_exited of ExecuteChainedAfterStrategies
    strategy,     \* the strategy that runs
    caller,       \* the loop to return to once no more strategies run
    calls,        \* calls the strategies have made in this bar
    entered,      \* history: symbols entered since their last AFTER_ENTRY strategy
    exited,       \* history: symbols exited since their last AFTER_EXIT strategy
    unclosed      \* history: entries whose exit at the end of the data was refused

orders == <<filled, entries, exits>>
flags  == <<justEntered, justExited>>
history == <<entered, exited>>
vars   == <<pc, symbol, bar, price, active, ended, filled, entries, exits, queue,
            justEntered, justExited, locals, strategy, caller, calls, entered, exited, unclosed>>

Symbols == 1..NumSymbols
Ids     == 1..MaxOrders

Entries == [id : Ids, name : EntryNames, margin : Ids]
Exits   == [id : Ids, name : ExitNames, target : EntryNames, of : Ids]
Fills   == [signal : {"LIQUIDATION"}, order : Entries] \cup
           [signal : {"ENTRY"}, order : Entries] \cup [signal : {"EXIT"}, order : Exits]

IdsOf(S) == {o.id : o \in S}

\* An identity no order in a list or in the queue has.
FreshIds ==
    Ids \ ((UNION {IdsOf(Range(filled[s])) \cup IdsOf(entries[s]) \cup IdsOf(exits[s]) :
                      s \in Symbols}) \cup {queue[i].order.id : i \in DOMAIN queue})
Fresh == Min(FreshIds)

Named(s, n) == {o \in Range(filled[s]) : o.name = n}

\* The first symbol of S after s, or 0.
After(s, S) == IF \E t \in S : t > s THEN Min({t \in S : t > s}) ELSE 0

-----------------------------------------------------------------------------
(* Filling.  The flags are global, not one per symbol.                     *)

Entered == justEntered' = TRUE /\ entered' = entered \cup {symbol}
Exited  == justExited' = TRUE /\ exited' = exited \cup {symbol}

\* A position leaves: it is erased, and the exits that target its name with it.
WithoutExits(s, n) == {x \in exits[s] : x.target # n}
Place(s, id)       == {i \in DOMAIN filled[s] : filled[s][i].id = id}
Erase(s, id)       == IF Place(s, id) = {} THEN filled[s]
                      ELSE RemoveAt(filled[s], CHOOSE i \in Place(s, id) : TRUE)

CloseMutant(s, o) ==
    /\ filled' = [filled EXCEPT ![s] = Erase(s, o.id)]
    /\ UNCHANGED <<exits, entries>>
Close(s, o) ==
    /\ filled' = [filled EXCEPT ![s] = Erase(s, o.id)]
    /\ exits' = [exits EXCEPT ![s] = WithoutExits(s, o.name)]
    /\ UNCHANGED entries

\* FillLiquidation erases the object it was given, then ExecuteExit looks its
\* name up: an entry still filled under that name takes over the margin of o.
FillLiquidation(s, o) ==
    /\ filled' = [filled EXCEPT ![s] =
                    [i \in DOMAIN Erase(s, o.id) |->
                        IF Erase(s, o.id)[i].name = o.name
                        THEN [Erase(s, o.id)[i] EXCEPT !.margin = o.margin]
                        ELSE Erase(s, o.id)[i]]]
    /\ exits' = [exits EXCEPT ![s] = WithoutExits(s, o.name)]
    /\ Exited /\ UNCHANGED <<entries, justEntered, entered>>

\* FillPendingExitOrder: the exit leaves its queue and closes its target, in full
\* or in part.
FillExit(s, x) ==
    /\ \E o \in Named(s, x.target) :
         \/ Close(s, o)
         \/ exits' = [exits EXCEPT ![s] = @ \ {x}] /\ UNCHANGED <<filled, entries>>
    /\ Exited /\ UNCHANGED <<justEntered, entered>>

\* FillMarketEntry and FillPendingLimitEntry, e no longer among the pending ones:
\* the opposite positions are exited, which are all those of the symbol or none,
\* and e is filled if leverage and balance allow it.
Enter(s, e) ==
    \E reverse, admitted \in BOOLEAN :
        /\ reverse => filled[s] # <<>>
        /\ filled' = [filled EXCEPT ![s] = (IF reverse THEN <<>> ELSE @)
                                           \o IF admitted THEN <<e>> ELSE <<>>]
        /\ exits' = [exits EXCEPT ![s] = IF reverse THEN {} ELSE @]
        /\ IF reverse THEN Exited ELSE UNCHANGED <<justExited, exited>>
        /\ IF admitted THEN Entered ELSE UNCHANGED <<justEntered, entered>>

\* ExistsPendingOrder compares objects: an order that was cancelled, or replaced
\* by one of the same name, is not there any more.
ExistsPendingOrderMutant(s, o) == \E e \in entries[s] \cup exits[s] : e.name = o.name
ExistsPendingOrder(s, o) == o \in entries[s] \cup exits[s]

\* The entry of the same name a pending entry would fill next to.
IsValidEntryName(s, n) == Named(s, n) = {}

\* FillOrder: what the queue holds may be out of date by now.
FillOrder(s, f) ==
    CASE f.signal = "LIQUIDATION" /\ Named(s, f.order.name) # {} -> FillLiquidation(s, f.order)
      [] f.signal = "EXIT" /\ ExistsPendingOrder(s, f.order) /\ Named(s, f.order.target) # {} ->
            FillExit(s, f.order)
      [] f.signal = "ENTRY" /\ ExistsPendingOrder(s, f.order) ->
            /\ entries' = [entries EXCEPT ![s] = @ \ {f.order}]
            /\ IF IsValidEntryName(s, f.order.name) THEN Enter(s, f.order)
               ELSE UNCHANGED <<filled, exits, justEntered, justExited, entered, exited>>
      [] OTHER -> UNCHANGED <<filled, entries, exits, justEntered, justExited, entered, exited>>

-----------------------------------------------------------------------------
(* UpdateTradingStatus: each symbol in turn is active, is skipped because  *)
(* a bar is missing or not yet there, or ends.                             *)

\* The next iteration of a loop over the symbols of S, or what follows it.
Advance(S, following) ==
    IF After(symbol, S) # 0
    THEN symbol' = After(symbol, S) /\ UNCHANGED pc
    ELSE symbol' = 0 /\ pc' = following

\* CloseAll once the symbol has ended: each MarketExit erases from the vector the loop
\* runs over, whose end was taken before, unless size or notional value are refused.
\* The vector after k iterations; one past its end reads an element that was destroyed.
CloseAllSteps(v, refused) ==
    LET left[k \in 0..Len(v)] ==
            IF k = 0 THEN v
            ELSE IF k > Len(left[k - 1]) \/ left[k - 1][k].id \in refused THEN left[k - 1]
            ELSE RemoveAt(left[k - 1], k)
    IN  left

LeftByCloseAll(v, refused) == CloseAllSteps(v, refused)[Len(v)]

ReadsDestroyedElement(v, refused) ==
    \E k \in DOMAIN v : k > Len(CloseAllSteps(v, refused)[k - 1])

\* ExecuteTradingEnd: cancels and closes everything; the exits it makes are not
\* reported to the strategy.  Reading a destroyed element crashes or does nothing.
CancelledMutant(s) == /\ entries' = [entries EXCEPT ![s] = {}] /\ UNCHANGED exits
Cancelled(s) == /\ entries' = [entries EXCEPT ![s] = {}]
                /\ exits' = [exits EXCEPT ![s] = {}]

ExecuteTradingEndMutant(s, following) ==
    /\ ended' = ended \cup {s}
    /\ Cancelled(s)
    /\ \E refused \in SUBSET IdsOf(Range(filled[s])) :
         /\ filled' = [filled EXCEPT ![s] = LeftByCloseAll(@, refused)]
         /\ unclosed' = unclosed \cup refused
         /\ justExited' = (justExited \/ filled'[s] # filled[s])
    /\ Advance(Symbols \ ended, following)
ExecuteTradingEnd(s, following) ==
    /\ ended' = ended \cup {s}
    /\ Cancelled(s)
    /\ justExited' = FALSE
    /\ \E refused \in SUBSET IdsOf(Range(filled[s])) :
         /\ filled' = [filled EXCEPT ![s] = LeftByCloseAll(@, refused)]
         /\ unclosed' = unclosed \cup refused
         /\ \/ Advance(Symbols \ ended, following)
            \/ ReadsDestroyedElement(filled[s], refused) /\ pc' = "crashed" /\ UNCHANGED symbol

UpdateTradingStatus ==
    /\ pc = "status"
    /\ \/ /\ Advance(Symbols \ ended, "started") /\ active' = active \cup {symbol}
          /\ UNCHANGED <<ended, unclosed, orders, justExited>>
       \/ /\ Advance(Symbols \ ended, "started")
          /\ UNCHANGED <<active, ended, unclosed, orders, justExited>>
       \/ ExecuteTradingEnd(symbol, "started") /\ UNCHANGED active
    /\ UNCHANGED <<bar, price, queue, justEntered, locals, strategy, caller, calls, history>>

\* Past the end of the period every symbol ends; when all have, so does the
\* backtest.
StartBar ==
    /\ pc = "started"
    /\ IF Symbols \subseteq ended
       THEN pc' = "done" /\ UNCHANGED <<symbol, active>>
       ELSE IF bar > NumBars
       THEN pc' = "ending" /\ symbol' = After(0, Symbols \ ended) /\ active' = {}
       ELSE /\ pc' = IF active = {} THEN "barEnd" ELSE "funding"
            /\ symbol' = After(0, active) /\ UNCHANGED active
    /\ UNCHANGED <<bar, price, ended, unclosed, orders, queue, flags, locals, strategy, caller,
                   calls, history>>

ExecuteAllTradingEnd ==
    /\ pc = "ending" /\ ExecuteTradingEnd(symbol, "done")
    /\ UNCHANGED <<bar, price, active, queue, justEntered, locals, strategy, caller,
                   calls, history>>

-----------------------------------------------------------------------------
(* CheckFundingTime, then ProcessOhlc.                                     *)

\* A funding liquidates some positions of the symbol: those at other places than
\* kept.  The flag it leaves is not looked at before the next fill.
Liquidate(v, n, kept) ==
    /\ \A i, j \in 1..n : i < j => kept[i] < kept[j]
    /\ filled' = [filled EXCEPT ![symbol] = [i \in 1..n |-> v[kept[i]]]]
    /\ exits' = [exits EXCEPT ![symbol] =
                   {x \in @ : \A i \in DOMAIN v : x.target = v[i].name => i \in Range(kept)}]

CheckFundingTime ==
    /\ pc = "funding"
    /\ \/ UNCHANGED <<orders, justExited, exited>>
       \/ /\ FundingLiquidates
          /\ \E n \in 0..Len(filled[symbol]) - 1 : \E kept \in [1..n -> DOMAIN filled[symbol]] :
               Liquidate(filled[symbol], n, kept)
          /\ Exited /\ UNCHANGED entries
    /\ IF After(symbol, active) # 0
       THEN symbol' = After(symbol, active) /\ UNCHANGED <<pc, price>>
       ELSE symbol' = After(0, active) /\ pc' = "price" /\ price' = 1
    /\ UNCHANGED <<bar, active, ended, unclosed, queue, justEntered, locals, strategy, caller,
                   calls, entered>>

\* The price after this one: of the next symbol, or the next price of the first.
NextPrice ==
    IF After(symbol, active) # 0
    THEN symbol' = After(symbol, active) /\ pc' = "price" /\ UNCHANGED price
    ELSE /\ symbol' = After(0, active)
         /\ IF price < NumPrices THEN pc' = "price" /\ price' = price + 1
            ELSE pc' = "close" /\ price' = 0

\* CheckLiquidation, CheckPendingEntries, CheckPendingExits and SortOrders.
Triggerable(s) ==
    {[signal |-> "LIQUIDATION", order |-> o] : o \in Range(filled[s])} \cup
    {[signal |-> "ENTRY", order |-> o] : o \in entries[s]} \cup
    {[signal |-> "EXIT", order |-> o] : o \in exits[s]}

CheckPrice ==
    /\ pc = "price"
    /\ \E triggered \in SUBSET Triggerable(symbol) :
         IF triggered = {} THEN NextPrice /\ UNCHANGED queue
         ELSE /\ queue' \in SetToSeqs(triggered)
              /\ pc' = "fill" /\ UNCHANGED <<symbol, price>>
    /\ UNCHANGED <<bar, active, ended, unclosed, orders, flags, locals, strategy, caller, calls,
                   history>>

\* One iteration over the queue: an order is filled, then strategies run.
FillNext ==
    /\ pc = "fill"
    /\ IF queue = <<>> THEN NextPrice /\ UNCHANGED <<orders, flags, history, queue, locals, caller>>
       ELSE /\ FillOrder(symbol, Head(queue)) /\ queue' = Tail(queue)
            /\ pc' = "chain" /\ caller' = "fill"
            /\ locals' = [entered |-> FALSE, exited |-> FALSE]
            /\ UNCHANGED <<symbol, price>>
    /\ UNCHANGED <<bar, active, ended, unclosed, strategy, calls>>

-----------------------------------------------------------------------------
(* Strategies.                                                             *)

ExecuteStrategy(type) == pc' = "strategy" /\ strategy' = type

\* ExecuteOnClose for every active symbol.
OnClose ==
    /\ pc = "close"
    /\ ExecuteStrategy("ON_CLOSE") /\ caller' = "closed"
    /\ UNCHANGED <<symbol, bar, price, active, ended, unclosed, orders, queue, flags, locals, calls,
                   history>>

NextClose ==
    /\ pc = "closed"
    /\ IF After(symbol, active) # 0
       THEN symbol' = After(symbol, active) /\ pc' = "close"
       ELSE symbol' = 0 /\ pc' = "barEnd"
    /\ UNCHANGED <<bar, price, active, ended, unclosed, orders, queue, flags, locals, strategy, caller,
                   calls, history>>

BarEnd ==
    /\ pc = "barEnd"
    /\ pc' = "status" /\ symbol' = After(0, Symbols \ ended) /\ active' = {}
    /\ bar' = bar + 1 /\ calls' = 0
    /\ UNCHANGED <<price, ended, unclosed, orders, queue, flags, locals, strategy, caller, history>>

\* The condition of ExecuteChainedAfterStrategies' loop.  `||' short-circuits: the
\* local just_entered is assigned only when nothing was exited.
LoopTest ==
    locals' = [entered |-> IF justExited THEN locals.entered ELSE justEntered,
               exited |-> justExited]

Chain ==
    /\ pc = "chain" /\ LoopTest
    /\ pc' = IF justExited \/ justEntered THEN "afterExit" ELSE caller
    /\ UNCHANGED <<symbol, bar, price, active, ended, unclosed, orders, queue, flags, strategy, caller,
                   calls, history>>

InitializeJustEnteredMutant == UNCHANGED justEntered
InitializeJustEntered == justEntered' = FALSE

AfterExit ==
    /\ pc = "afterExit"
    /\ IF locals.exited
       THEN ExecuteStrategy("AFTER_EXIT") /\ justExited' = FALSE /\ exited' = exited \ {symbol}
       ELSE pc' = "afterEntry" /\ UNCHANGED <<strategy, justExited, exited>>
    /\ UNCHANGED <<symbol, bar, price, active, ended, unclosed, orders, queue, justEntered, locals,
                   caller, calls, entered>>

AfterEntry ==
    /\ pc = "afterEntry"
    /\ IF locals.entered
       THEN ExecuteStrategy("AFTER_ENTRY") /\ InitializeJustEntered /\ entered' = entered \ {symbol}
       ELSE pc' = "chain" /\ UNCHANGED <<strategy, justEntered, entered>>
    /\ UNCHANGED <<symbol, bar, price, active, ended, unclosed, orders, queue, justExited, locals,
                   caller, calls, exited>>

\* A strategy returns: after AFTER_EXIT comes the test of just_entered, after the
\* others that of the loop.
AfterReturnMutant ==
    IF strategy = "AFTER_EXIT" THEN "afterEntry"
    ELSE IF strategy = "ON_CLOSE" THEN "chain" ELSE caller
AfterReturn == IF strategy = "AFTER_EXIT" THEN "afterEntry" ELSE "chain"

Return ==
    /\ pc = "strategy"
    /\ pc' = AfterReturn
    /\ locals' = IF strategy = "ON_CLOSE" THEN [entered |-> FALSE, exited |-> FALSE] ELSE locals
    /\ UNCHANGED <<symbol, bar, price, active, ended, unclosed, orders, queue, flags, strategy, caller,
                   calls, history>>

\* What a strategy may do, to the orders of its own symbol.
Call ==
    /\ pc = "strategy" /\ calls < MaxCalls /\ calls' = calls + 1
    /\ UNCHANGED <<pc, symbol, bar, price, active, ended, unclosed, queue, locals, strategy, caller>>

CancelEntry(n) ==
    /\ Call /\ \E e \in entries[symbol] : e.name = n
    /\ entries' = [entries EXCEPT ![symbol] = {e \in @ : e.name # n}]
    /\ UNCHANGED <<filled, exits, flags, history>>

CancelExit(xn) ==
    /\ Call /\ \E x \in exits[symbol] : x.name = xn
    /\ exits' = [exits EXCEPT ![symbol] = {x \in @ : x.name # xn}]
    /\ UNCHANGED <<filled, entries, flags, history>>

NewEntry(n) == [id |-> Fresh, name |-> n, margin |-> Fresh]

PlaceEntry(n) ==
    /\ Call /\ FreshIds # {}
    /\ entries' = [entries EXCEPT ![symbol] = {e \in @ : e.name # n} \cup {NewEntry(n)}]
    /\ UNCHANGED <<filled, exits, flags, history>>

\* MarketEntry of an AFTER strategy, under a name no filled entry has.
EnterNow(n) ==
    /\ Call /\ strategy # "ON_CLOSE" /\ FreshIds # {} /\ Named(symbol, n) = {}
    /\ entries' = [entries EXCEPT ![symbol] = {e \in @ : e.name # n}]
    /\ Enter(symbol, NewEntry(n))

PlaceExit(xn, n) ==
    /\ Call /\ FreshIds # {}
    /\ \E o \in Named(symbol, n) :
         exits' = [exits EXCEPT ![symbol] =
                     {x \in @ : x.name # xn}
                     \cup {[id |-> Fresh, name |-> xn, target |-> n, of |-> o.id]}]
    /\ UNCHANGED <<filled, entries, flags, history>>

\* MarketExit of an AFTER strategy, or on the close of the last bar: in full or in
\* part.
ExitNow(n) ==
    /\ Call
    /\ \E o \in Named(symbol, n) : Close(symbol, o) \/ UNCHANGED orders
    /\ Exited /\ UNCHANGED <<justEntered, entered>>

-----------------------------------------------------------------------------
Init ==
    /\ pc = "status" /\ symbol = 1 /\ bar = 1 /\ price = 0 /\ active = {} /\ ended = {}
    /\ filled = [s \in Symbols |-> <<>>]
    /\ entries = [s \in Symbols |-> {}] /\ exits = [s \in Symbols |-> {}]
    /\ queue = <<>> /\ justEntered = FALSE /\ justExited = FALSE
    /\ locals = [entered |-> FALSE, exited |-> FALSE]
    /\ strategy = "ON_CLOSE" /\ caller = "fill" /\ calls = 0
    /\ entered = {} /\ exited = {} /\ unclosed = {}

StrategyCall ==
    \/ \E n \in EntryNames : CancelEntry(n) \/ PlaceEntry(n) \/ EnterNow(n) \/ ExitNow(n)
    \/ \E xn \in ExitNames : CancelExit(xn) \/ \E n \in EntryNames : PlaceExit(xn, n)

Stopped == pc \in {"done", "crashed"} /\ UNCHANGED vars

Engine ==
    \/ UpdateTradingStatus \/ StartBar \/ ExecuteAllTradingEnd
    \/ CheckFundingTime \/ CheckPrice \/ FillNext
    \/ OnClose \/ NextClose \/ BarEnd
    \/ Chain \/ AfterExit \/ AfterEntry \/ Return

Next == Engine \/ StrategyCall \/ Stopped

Spec == Init /\ [][Next]_vars

\* The engine's own steps are taken; what a strategy calls is up to it.
FairSpec == Spec /\ WF_vars(Engine)
-----------------------------------------------------------------------------
(* Properties.                                                             *)

\* The loops stay where the code can be: in particular no fifth price of a bar is
\* ever looked at.
TypeOK ==
    /\ pc \in {"status", "started", "ending", "funding", "price", "fill", "chain",
               "afterExit", "afterEntry", "strategy", "close", "closed", "barEnd",
               "done", "crashed"}
    /\ symbol \in {0} \cup Symbols /\ bar \in 1..NumBars + 1 /\ price \in 0..NumPrices
    /\ active \subseteq Symbols /\ ended \subseteq Symbols
    /\ \A s \in Symbols : /\ filled[s] \in Seq(Entries)
                          /\ entries[s] \subseteq Entries /\ exits[s] \subseteq Exits
    /\ queue \in Seq(Fills)
    /\ justEntered \in BOOLEAN /\ justExited \in BOOLEAN
    /\ locals \in [entered : BOOLEAN, exited : BOOLEAN]
    /\ strategy \in {"ON_CLOSE", "AFTER_EXIT", "AFTER_ENTRY"} /\ caller \in {"fill", "closed"}
    /\ calls \in 0..MaxCalls /\ entered \subseteq Symbols /\ exited \subseteq Symbols
    /\ unclosed \subseteq Ids

\* A pending exit will close the very entry it was placed against, never a later
\* one that reuses the name.
ExitsKeepTheirEntry ==
    \A s \in Symbols : \A x \in exits[s] :
        \E i \in DOMAIN filled[s] : filled[s][i].id = x.of /\ filled[s][i].name = x.target

\* What the queue still holds when a strategy has cancelled or replaced it does
\* not become a position.
QueueNeverRevives ==
    [][pc = "fill" =>
         \A s \in Symbols :
            IdsOf(Range(filled'[s])) \subseteq IdsOf(Range(filled[s])) \cup IdsOf(entries[s])]_vars

\* No price is looked at, and no bar begins, before the strategies have seen
\* every entry and every exit.
StrategiesCaughtUp ==
    pc \in {"status", "started", "price", "close"} => entered = {} /\ exited = {}

\* An AFTER_EXIT strategy runs for a symbol only when that symbol was exited.
AfterExitEarned ==
    [][pc = "afterExit" /\ locals.exited => symbol \in exited]_vars

\* An AFTER_ENTRY strategy runs for a symbol only when that symbol was entered.
AfterEntryEarned ==
    [][pc = "afterEntry" /\ locals.entered => symbol \in entered]_vars

\* A symbol that has ended has no orders, and no positions but those whose exit was
\* refused for its size or notional value.  The code keeps this with one entry name:
\* with more, CloseAll passes over some positions.
EndedIsClosed ==
    \A s \in ended : IdsOf(Range(filled[s])) \subseteq unclosed /\ entries[s] = {} /\ exits[s] = {}

\* A symbol that has ended has no positions.  The code does not keep this: nothing
\* closes one whose exit is refused, and nobody is told of it.
EndedIsFlat == \A s \in ended : filled[s] = <<>>

\* The backtest ends, however the strategies it runs feed the chain.
Terminates == <>(pc \in {"done", "crashed"})
=============================================================================
