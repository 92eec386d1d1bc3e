---------------------------- MODULE OrderHandler ----------------------------
(***************************************************************************)
(* The order handler of the backtesting engine and the account it moves:   *)
(* entry and exit orders of every symbol, the margin they reserve or hold, *)
(* the wallet, and the leverage of each symbol.                            *)
(*                                                                         *)
(* Prices are abstracted.  What a price decides in the code is an input    *)
(* here: whether an order is touched or filled, the margin an order needs, *)
(* the fee and the profit of a fill, the funding a position pays.  Amounts *)
(* are integers.  The code is single threaded, but entering a position     *)
(* loops over other orders (reverse exits, re-margining after a change of  *)
(* leverage), and so does a change of leverage a strategy asks for; each   *)
(* iteration is one step, and `step' is not "none" while that call is on   *)
(* the stack, so that nothing else runs in between.                        *)
(***************************************************************************)
EXTENDS Sums, FiniteSets

CONSTANTS
    Symbols,          \* the symbols traded
    EntryNames,       \* the entry names the strategy uses
    ExitNames,        \* the exit names the strategy uses
    CloseAllName,     \* the exit name CloseAll gives to every exit it places
    MaxEntries,       \* bound: entry orders alive at the same time
    MaxExits,         \* bound: pending exits alive at the same time
    Kinds,            \* kinds of entry order the strategy places
    Directions,       \* LONG, SHORT
    Leverages,        \* leverages the strategy asks for
    Sizes,            \* order sizes
    Margins,          \* margins CalculateMargin may return
    UnitFees,         \* entry fee per unit of size
    ExitFees,         \* fee of one exit
    Profits,          \* profit or loss CalculatePnl may return
    LiquidationFees,  \* liquidation fee before it is capped
    Fundings,         \* funding one position receives (> 0) or pays (< 0)
    InitialBalance,   \* wallet balance the backtest starts with
    MaxBalance,       \* bound: no gain takes the wallet above it
    MayRefuse,        \* whether size and notional checks may refuse an exit
    ReusesFilledName  \* whether an AFTER strategy may enter, at market, under
                      \* the name of an entry that is already filled

ASSUME SymbolsAssumption == Symbols # {} /\ EntryNames # {} /\ Directions # {}
ASSUME NamesAssumption == ExitNames # {} /\ CloseAllName \notin ExitNames
ASSUME BoundsAssumption == MaxEntries \in Nat \ {0} /\ MaxExits \in Nat \ {0}
ASSUME KindsAssumption == Kinds \subseteq {"MARKET", "LIMIT", "LIT"}
ASSUME AmountsAssumption ==
    /\ Sizes \subseteq Nat \ {0} /\ Sizes # {}
    /\ Margins \subseteq Nat \ {0} /\ Leverages \subseteq Nat \ {0} /\ Leverages # {}
    /\ UnitFees \subseteq Nat /\ ExitFees \subseteq Nat /\ LiquidationFees \subseteq Nat
    /\ Profits \subseteq Int /\ Fundings \subseteq Int
    /\ InitialBalance \in Nat /\ MaxBalance \in Nat
    /\ MayRefuse \in BOOLEAN /\ ReusesFilledName \in BOOLEAN

VARIABLES
    wallet,       \* wallet_balance_
    usedMargin,   \* used_margin_
    leverage,     \* leverages_: the leverage of each symbol
    entry,        \* the entry order in each slot: pending, being filled or filled
    exit,         \* the pending exit order in each slot
    netPnl,       \* sum of the net profits of the trades given to the analyzer
    filling,      \* slot of the entry being filled, 0 when none is
    step,         \* where that fill, or a change of leverage by a strategy, has got to
    todo,         \* pending entries AdjustLeverage has not visited yet
    engineError   \* a runtime_error was thrown: the backtest is over

vars == <<wallet, usedMargin, leverage, entry, exit, netPnl, filling, step,
          todo, engineError>>

EntryIds == 1..MaxEntries
ExitIds  == 1..MaxExits

Entries ==
    [stage: {"free", "pending", "filling", "filled"}, sym: Symbols,
     name: EntryNames, kind: {"MARKET", "LIMIT", "LIT"}, dir: Directions,
     lev: Leverages, size: Nat, exited: Nat, margin: Nat, unitFee: Nat,
     funding: Int]

Exits ==
    [stage: {"free", "pending"}, sym: Symbols, name: ExitNames \cup {CloseAllName},
     target: EntryNames, size: Nat, margin: Nat, funding: Int]

Some(S) == CHOOSE x \in S : TRUE

\* An empty slot.
NoEntry ==
    [stage |-> "free", sym |-> Some(Symbols), name |-> Some(EntryNames),
     kind |-> "MARKET", dir |-> Some(Directions), lev |-> Some(Leverages),
     size |-> 0, exited |-> 0, margin |-> 0, unitFee |-> 0, funding |-> 0]

NoExit ==
    [stage |-> "free", sym |-> Some(Symbols), name |-> CloseAllName,
     target |-> Some(EntryNames), size |-> 0, margin |-> 0, funding |-> 0]

-----------------------------------------------------------------------------
(* The account: BaseEngine.                                                *)

AvailableBalance == wallet - usedMargin

HasEnoughBalanceMutant(available, required) == available + 1 >= required
HasEnoughBalance(available, required) == available >= required

\* DecreaseUsedMargin clips to zero instead of going negative.
Decrease(used, amount) == IF amount > used THEN 0 ELSE used - amount

\* The call throws, and the exception ends the backtest.
Throw ==
    /\ engineError' = TRUE
    /\ UNCHANGED <<wallet, usedMargin, leverage, entry, exit, netPnl, filling,
                   step, todo>>

-----------------------------------------------------------------------------
(* Looking orders up.                                                      *)

FreeEntry(ent) == {i \in EntryIds : ent[i].stage = "free"}
FreeExit       == {x \in ExitIds : exit[x].stage = "free"}

Filled(s) == {i \in EntryIds : entry[i].stage = "filled" /\ entry[i].sym = s}

PendingNamedMutant(s, n) == {}
PendingNamed(s, n) ==
    {i \in EntryIds : entry[i].stage = "pending" /\ entry[i].sym = s /\ entry[i].name = n}

FilledNamed(ent, s, n) ==
    {i \in EntryIds : ent[i].stage = "filled" /\ ent[i].sym = s /\ ent[i].name = n}

\* A pending entry may fill only under a name no filled entry has.
IsValidEntryNameMutant(s, n) == TRUE
IsValidEntryName(s, n) == FilledNamed(entry, s, n) = {}

ExitsNamed(s, n) ==
    {x \in ExitIds : exit[x].stage = "pending" /\ exit[x].sym = s /\ exit[x].name = n}

Remaining(e) == e.size - e.exited

\* What remains of the position, if less is left than the exit asks for.
GetAdjustedExitSize(size, e) == IF size > Remaining(e) THEN Remaining(e) ELSE size

-----------------------------------------------------------------------------
(* Cancelling.                                                             *)

\* The entries once those in S are cancelled, and the margin that frees.
WithoutEntries(S) == [i \in EntryIds |-> IF i \in S THEN NoEntry ELSE entry[i]]
WithoutExits(S)   == [x \in ExitIds |-> IF x \in S THEN NoExit ELSE exit[x]]
ReservedBy(S)     == Total([i \in EntryIds |-> IF i \in S THEN entry[i].margin ELSE 0],
                           MaxEntries)
UsedWithout(S)    == Decrease(usedMargin, ReservedBy(S))

CallUnchanged == UNCHANGED <<filling, step, todo, engineError>>
Idle == step = "none" /\ ~engineError

\* A strategy cancels a pending entry by name.
CancelEntry(s, n) ==
    /\ Idle /\ PendingNamed(s, n) # {}
    /\ entry' = WithoutEntries(PendingNamed(s, n))
    /\ usedMargin' = UsedWithout(PendingNamed(s, n))
    /\ UNCHANGED <<wallet, leverage, exit, netPnl>> /\ CallUnchanged

\* A strategy cancels a pending exit by name.
CancelExit(s, n) ==
    /\ Idle /\ ExitsNamed(s, n) # {}
    /\ exit' = WithoutExits(ExitsNamed(s, n))
    /\ UNCHANGED <<wallet, usedMargin, leverage, entry, netPnl>> /\ CallUnchanged

\* Every pending entry and exit of the symbol.
CancelAll(s) ==
    LET entries == {i \in EntryIds : entry[i].stage = "pending" /\ entry[i].sym = s}
        exits   == {x \in ExitIds : exit[x].stage = "pending" /\ exit[x].sym = s}
    IN  /\ Idle /\ entries \cup exits # {}
        /\ entry' = WithoutEntries(entries)
        /\ exit' = WithoutExits(exits)
        /\ usedMargin' = UsedWithout(entries)
        /\ UNCHANGED <<wallet, leverage, netPnl>> /\ CallUnchanged
-----------------------------------------------------------------------------
(* Ordering.  Every order first cancels the pending one of the same name.  *)

NewEntry(s, n, k, d, q, l, m, st) ==
    [stage |-> st, sym |-> s, name |-> n, kind |-> k, dir |-> d, lev |-> l,
     size |-> q, exited |-> 0, margin |-> m, unitFee |-> 0, funding |-> 0]

\* MarketEntry from ON_CLOSE, MitEntry, TrailingEntry and LitEntry: no margin is
\* reserved while the order waits.
PlaceEntry(s, n, k, d, q, l) ==
    LET kept == WithoutEntries(PendingNamed(s, n))
    IN  /\ Idle /\ k \in Kinds \ {"LIMIT"}
        /\ \E i \in FreeEntry(kept) :
             entry' = [kept EXCEPT ![i] = NewEntry(s, n, k, d, q, l, 0, "pending")]
        /\ usedMargin' = UsedWithout(PendingNamed(s, n))
        /\ UNCHANGED <<wallet, leverage, exit, netPnl>> /\ CallUnchanged

\* LimitEntry: the margin m is reserved at once.  The balance is checked while
\* the order about to be replaced still holds its own reservation.
LimitEntry(s, n, d, q, l, m) ==
    LET kept == WithoutEntries(PendingNamed(s, n))
    IN  /\ Idle /\ "LIMIT" \in Kinds
        /\ HasEnoughBalance(AvailableBalance, m)
        /\ \E i \in FreeEntry(kept) :
             entry' = [kept EXCEPT ![i] = NewEntry(s, n, "LIMIT", d, q, l, m, "pending")]
        /\ usedMargin' = UsedWithout(PendingNamed(s, n)) + m
        /\ UNCHANGED <<wallet, leverage, exit, netPnl>> /\ CallUnchanged

\* MarketEntry from AFTER_ENTRY or AFTER_EXIT: filled within the call, without
\* the check of IsValidEntryName.
MarketEntryNow(s, n, d, q, l) ==
    LET kept == WithoutEntries(PendingNamed(s, n))
    IN  /\ Idle /\ "MARKET" \in Kinds
        /\ ReusesFilledName \/ IsValidEntryName(s, n)
        /\ \E i \in FreeEntry(kept) :
             /\ entry' = [kept EXCEPT ![i] = NewEntry(s, n, "MARKET", d, q, l, 0, "filling")]
             /\ filling' = i /\ step' = "reverse" /\ todo' = {}
        /\ usedMargin' = UsedWithout(PendingNamed(s, n))
        /\ UNCHANGED <<wallet, leverage, exit, netPnl, engineError>>

\* An exit order is a copy of the entry it targets, taken when it is placed.
ExitOf(e, xn, q) ==
    [stage |-> "pending", sym |-> e.sym, name |-> xn, target |-> e.name,
     size |-> q, margin |-> e.margin, funding |-> e.funding]

\* MarketExit from ON_CLOSE, LimitExit, MitExit, LitExit and TrailingExit.
PlaceExit(s, xn, n, q) ==
    LET kept == WithoutExits(ExitsNamed(s, xn))
    IN  /\ Idle /\ FilledNamed(entry, s, n) # {}
        /\ LET e == entry[Some(FilledNamed(entry, s, n))]
           IN  \E x \in {y \in ExitIds : kept[y].stage = "free"} :
                 exit' = [kept EXCEPT ![x] = ExitOf(e, xn, GetAdjustedExitSize(q, e))]
        /\ UNCHANGED <<wallet, usedMargin, leverage, entry, netPnl>> /\ CallUnchanged

\* CloseAll while the symbol still trades: one MarketExit after the other, all
\* under CloseAllName, so that each cancels the one before; the last of those
\* that are not refused is the one that stays.
CloseAll(s) ==
    LET kept == WithoutExits(ExitsNamed(s, CloseAllName))
    IN  /\ Idle
        /\ \E refused \in SUBSET Filled(s) :
             /\ MayRefuse \/ refused = {}
             /\ \E last \in Filled(s) \ refused, x \in {y \in ExitIds : kept[y].stage = "free"} :
                  exit' = [kept EXCEPT
                             ![x] = ExitOf(entry[last], CloseAllName, Remaining(entry[last]))]
        /\ UNCHANGED <<wallet, usedMargin, leverage, entry, netPnl>> /\ CallUnchanged

-----------------------------------------------------------------------------
(* Exits.                                                                  *)

\* A loss is capped at the margin the position has left.
Realized(profit, margin) == IF profit < 0 /\ -profit >= margin THEN -margin ELSE profit

\* The liquidation fee is charged only on what the loss leaves of the margin.
LiquidationFee(fee, profit, margin) ==
    LET left == margin + Realized(profit, margin)
    IN  IF (profit < 0 /\ -profit >= margin) \/ left <= 0 THEN 0
        ELSE IF fee >= left THEN left ELSE fee

\* The pending exits once the entry they target holds this margin and funding.
SyncExitsMutant(exs, f, margin, funding) ==
    [x \in ExitIds |->
        IF exs[x].stage = "pending" /\ exs[x].sym = f.sym /\ exs[x].target = f.name
        THEN [exs[x] EXCEPT !.margin = margin]
        ELSE exs[x]]
SyncExits(exs, f, margin, funding) ==
    [x \in ExitIds |->
        IF exs[x].stage = "pending" /\ exs[x].sym = f.sym /\ exs[x].target = f.name
        THEN [exs[x] EXCEPT !.margin = margin, !.funding = funding]
        ELSE exs[x]]

DropExits(exs, s, n) ==
    [x \in ExitIds |-> IF exs[x].stage = "pending" /\ exs[x].sym = s /\ exs[x].target = n
                       THEN NoExit ELSE exs[x]]

\* ExecuteExit: q units of order e leave for a fee and a profit, out of a wallet w
\* and a used margin u.  `margin' and `funding' are the exit order's copies, ent
\* and exs the orders once the exit is counted and a fully closed entry erased.
\* An entry of that name that is still there means a partial exit.
ExecuteExit(w, u, ent, exs, e, q, margin, funding, fee, profit, liquidationFee) ==
    LET open     == FilledNamed(ent, e.sym, e.name)
        f        == Some(open)
        before   == e.size - ent[f].exited + q
        part     == IF open = {} THEN margin ELSE (margin * q) \div before
        share    == IF open = {} THEN funding ELSE (ent[f].funding * q) \div before
        realized == Realized(profit, margin)
        penalty  == LiquidationFee(liquidationFee, profit, margin)
        balance  == w - fee + realized
    IN  IF fee > w \/ balance < 0 \/ penalty > balance
        THEN Throw
        ELSE /\ wallet' = balance - penalty
             /\ usedMargin' = Decrease(u, part)
             /\ netPnl' = netPnl + realized + share - q * e.unitFee - fee - penalty
             /\ entry' = IF open = {} THEN ent
                         ELSE [ent EXCEPT ![f].margin = margin - part, ![f].funding = @ - share]
             /\ exit' = IF open = {} THEN exs
                        ELSE SyncExits(exs, e, margin - part, ent[f].funding - share)
             /\ UNCHANGED leverage /\ CallUnchanged

\* q units of the filled entry i leave: count them, erase the entry and drop the
\* exits that target it once nothing remains, then settle.
ExitEntry(w, u, ent, i, exs, q, margin, funding, fee, profit, liquidationFee) ==
    LET e == ent[i]
    IN  IF e.exited + q = e.size
        THEN ExecuteExit(w, u, [ent EXCEPT ![i] = NoEntry], DropExits(exs, e.sym, e.name),
                         e, q, margin, funding, fee, profit, liquidationFee)
        ELSE ExecuteExit(w, u, [ent EXCEPT ![i].exited = @ + q], exs,
                         e, q, margin, funding, fee, profit, liquidationFee)

\* All that remains of the filled entry i leaves.
CloseEntry(w, u, ent, i, exs, fee, profit, liquidationFee) ==
    ExitEntry(w, u, ent, i, exs, Remaining(ent[i]), ent[i].margin, ent[i].funding,
              fee, profit, liquidationFee)

\* A gain never takes the wallet above the bound.
Affordable(gain) == wallet + gain <= MaxBalance

\* MarketExit that executes within the call (AFTER strategies, last bar, end of
\* trading).
MarketExitNow(s, xn, n, q, fee, profit) ==
    /\ Idle /\ Affordable(profit) /\ FilledNamed(entry, s, n) # {}
    /\ LET i == Some(FilledNamed(entry, s, n))
       IN  ExitEntry(wallet, usedMargin, entry, i, WithoutExits(ExitsNamed(s, xn)),
                     GetAdjustedExitSize(q, entry[i]), entry[i].margin, entry[i].funding,
                     fee, profit, 0)

\* FillPendingExitOrder: the price reached a pending exit.  FillOrder skips it
\* when its target is gone.
FillPendingExitOrder(x, fee, profit) ==
    LET o == exit[x]
        i == Some(FilledNamed(entry, o.sym, o.target))
    IN  /\ Idle /\ Affordable(profit)
        /\ o.stage = "pending" /\ FilledNamed(entry, o.sym, o.target) # {}
        /\ ExitEntry(wallet, usedMargin, entry, i, WithoutExits({x}),
                     GetAdjustedExitSize(o.size, entry[i]), o.margin, o.funding, fee, profit, 0)

\* FillLiquidation: the mark price reached the liquidation price of an entry.
FillLiquidation(i, fee, profit, liquidationFee) ==
    /\ Idle /\ Affordable(profit) /\ entry[i].stage = "filled"
    /\ CloseEntry(wallet, usedMargin, entry, i, exit, fee, profit, liquidationFee)

\* One position of ExecuteFunding: it receives an amount or pays it out of its
\* own margin, and is liquidated when the margin left does not maintain it.
FundedEntryMarginMutant(i, amount) == [entry EXCEPT ![i].funding = @ + amount]
FundedEntryTallyMutant(i, amount) == [entry EXCEPT ![i].margin = @ + amount]
FundedEntry(i, amount) ==
    [entry EXCEPT ![i].margin = @ + amount, ![i].funding = @ + amount]

ExecuteFunding(i, rate, maintained, fee, profit, liquidationFee) ==
    LET e      == entry[i]
        amount == IF rate < 0 /\ -rate > e.margin THEN -e.margin ELSE rate
        funded == FundedEntry(i, amount)
        exits  == IF amount = 0 THEN exit
                  ELSE SyncExits(exit, e, e.margin + amount, e.funding + amount)
        used   == IF amount < 0 THEN Decrease(usedMargin, -amount) ELSE usedMargin + amount
    IN  /\ Idle /\ e.stage = "filled" /\ Affordable(amount)
        /\ IF \/ amount > 0 /\ used > wallet + amount
              \/ amount < 0 /\ -amount > wallet
           THEN Throw
           ELSE IF maintained
           THEN /\ wallet' = wallet + amount /\ usedMargin' = used
                /\ entry' = funded /\ exit' = exits
                /\ UNCHANGED <<leverage, netPnl>> /\ CallUnchanged
           ELSE /\ wallet + amount + profit <= MaxBalance
                /\ CloseEntry(wallet + amount, used, funded, i, exits, fee, profit, liquidationFee)

\* The strategy adds margin to a filled entry out of the available balance.
IncreaseMargin(s, n, m) ==
    /\ Idle /\ FilledNamed(entry, s, n) # {} /\ HasEnoughBalance(AvailableBalance, m)
    /\ LET i == Some(FilledNamed(entry, s, n))
       IN  /\ entry' = [entry EXCEPT ![i].margin = @ + m]
           /\ exit' = SyncExits(exit, entry[i], entry[i].margin + m, entry[i].funding)
    /\ usedMargin' = usedMargin + m
    /\ UNCHANGED <<wallet, leverage, netPnl>> /\ CallUnchanged

-----------------------------------------------------------------------------
(* Entries.                                                                *)

\* The price touched a LIT entry: it becomes a limit order and reserves its
\* margin, or is dropped when the balance does not cover it.
OrderPendingLitEntry(i, m) ==
    /\ Idle /\ entry[i].stage = "pending" /\ entry[i].kind = "LIT" /\ entry[i].margin = 0
    /\ IF ~HasEnoughBalance(AvailableBalance, m)
       THEN entry' = WithoutEntries({i}) /\ UNCHANGED usedMargin
       ELSE entry' = [entry EXCEPT ![i].margin = m] /\ usedMargin' = usedMargin + m
    /\ UNCHANGED <<wallet, leverage, exit, netPnl>> /\ CallUnchanged

\* The pending entry i leaves the queue.  A filled entry of that name refuses
\* it, which frees what it reserved; otherwise the fill begins.
StartFill(i) ==
    /\ Idle /\ entry[i].stage = "pending"
    /\ IF ~IsValidEntryName(entry[i].sym, entry[i].name)
       THEN /\ entry' = WithoutEntries({i}) /\ usedMargin' = UsedWithout({i})
            /\ UNCHANGED <<filling, step>>
       ELSE /\ entry' = [entry EXCEPT ![i].stage = "filling"]
            /\ filling' = i /\ step' = "reverse" /\ UNCHANGED usedMargin
    /\ UNCHANGED <<wallet, leverage, exit, netPnl, todo, engineError>>

FillPendingMarketEntry(i) == entry[i].kind = "MARKET" /\ StartFill(i)
FillPendingLimitEntry(i)  == entry[i].margin > 0 /\ StartFill(i)

OppositeMutant(i) == {o \in Filled(entry[i].sym) : entry[o].dir # entry[i].dir /\ o < i}
Opposite(i) == {o \in Filled(entry[i].sym) : entry[o].dir # entry[i].dir}

\* ExitOppositeFilledEntries: one opposite position is closed at market.  A
\* refused exit throws.
ReverseExit(o, fee, profit) ==
    /\ filling # 0 /\ step = "reverse" /\ ~engineError
    /\ o \in Opposite(filling) /\ Affordable(profit)
    /\ \/ MayRefuse /\ Throw
       \/ CloseEntry(wallet, usedMargin, entry, o, exit, fee, profit, 0)

\* The fill fails: the order is dropped and what it reserved is freed.
AbandonFill ==
    /\ entry' = WithoutEntries({filling}) /\ usedMargin' = UsedWithout({filling})
    /\ filling' = 0 /\ step' = "none"

\* A symbol with a filled entry keeps its leverage.
LeverageLockedMutant(s) == FALSE
LeverageLocked(s) == Filled(s) # {}

WithLeverage(s, l) == [leverage EXCEPT ![s] = l]

\* The leverage of s becomes l; every pending entry of s is to be visited before the
\* call goes on with the step `next'.
ChangeLeverage(s, l, next) ==
    LET pending == {i \in EntryIds : entry[i].stage = "pending" /\ entry[i].sym = s}
    IN  /\ leverage[s] # l /\ ~LeverageLocked(s)
        /\ leverage' = WithLeverage(s, l)
        /\ todo' = pending /\ step' = IF pending = {} THEN next ELSE "leverage"
        /\ UNCHANGED <<usedMargin, entry, filling>>

\* A strategy adjusts the leverage of a symbol that has no position.
AdjustLeverageOf(s, l) ==
    /\ Idle /\ ChangeLeverage(s, l, "none")
    /\ UNCHANGED <<wallet, exit, netPnl, engineError>>

\* AdjustLeverage within a fill, once no opposite position is left.
AdjustLeverage ==
    LET e == entry[filling]
    IN  /\ filling # 0 /\ step = "reverse" /\ ~engineError /\ Opposite(filling) = {}
        /\ \/ /\ leverage[e.sym] = e.lev /\ step' = "admit"
              /\ UNCHANGED <<usedMargin, leverage, entry, filling, todo>>
           \/ /\ leverage[e.sym] # e.lev /\ LeverageLocked(e.sym)
              /\ AbandonFill /\ UNCHANGED <<leverage, todo>>
           \/ ChangeLeverage(e.sym, e.lev, "admit")
        /\ UNCHANGED <<wallet, exit, netPnl, engineError>>

\* One iteration of AdjustLeverage's loop: a pending entry is cancelled when its
\* notional does not allow the new leverage (~allowed) or the balance does not
\* cover its new margin m; otherwise it takes the new leverage.
Readjust(o, m, allowed) ==
    LET lev  == leverage[entry[o].sym]
        free == Decrease(usedMargin, entry[o].margin)
        need == IF entry[o].margin > 0 THEN m ELSE 0
    IN  /\ step = "leverage" /\ ~engineError /\ o \in todo
        /\ IF ~allowed \/ (need > 0 /\ ~HasEnoughBalance(wallet - free, need))
           THEN entry' = WithoutEntries({o}) /\ usedMargin' = free
           ELSE /\ entry' = [entry EXCEPT ![o].margin = need, ![o].lev = lev]
                /\ usedMargin' = free + need
        /\ todo' = todo \ {o}
        /\ step' = IF todo' # {} THEN "leverage" ELSE IF filling = 0 THEN "none" ELSE "admit"
        /\ UNCHANGED <<wallet, leverage, exit, netPnl, filling, engineError>>

\* The end of FillMarketEntry and FillPendingLimitEntry: the reservation, if any,
\* is given back, and the position opens if the balance covers its margin and fee.
Admit(m, unitFee) ==
    LET e    == entry[filling]
        free == Decrease(usedMargin, e.margin)
        fee  == unitFee * e.size
    IN  /\ filling # 0 /\ step = "admit" /\ ~engineError
        /\ IF ~HasEnoughBalance(wallet - free, m + fee)
           THEN AbandonFill /\ UNCHANGED wallet
           ELSE /\ wallet' = wallet - fee /\ usedMargin' = free + m
                /\ entry' = [entry EXCEPT ![filling] =
                               [e EXCEPT !.stage = "filled", !.margin = m, !.unitFee = unitFee]]
                /\ filling' = 0 /\ step' = "none"
        /\ UNCHANGED <<leverage, exit, netPnl, todo, engineError>>

-----------------------------------------------------------------------------
Init ==
    /\ wallet = InitialBalance /\ usedMargin = 0 /\ netPnl = 0
    /\ leverage = [s \in Symbols |-> 1]
    /\ entry = [i \in EntryIds |-> NoEntry] /\ exit = [x \in ExitIds |-> NoExit]
    /\ filling = 0 /\ step = "none" /\ todo = {} /\ engineError = FALSE

Order ==
    \E s \in Symbols, n \in EntryNames :
        \/ CancelEntry(s, n)
        \/ \E d \in Directions, q \in Sizes, l \in Leverages :
             \/ \E k \in Kinds : PlaceEntry(s, n, k, d, q, l)
             \/ \E m \in Margins : LimitEntry(s, n, d, q, l, m)
             \/ MarketEntryNow(s, n, d, q, l)
        \/ \E xn \in ExitNames, q \in Sizes :
             \/ PlaceExit(s, xn, n, q)
             \/ \E fee \in ExitFees, p \in Profits : MarketExitNow(s, xn, n, q, fee, p)
        \/ \E m \in Margins : IncreaseMargin(s, n, m)

Leveraging == \E s \in Symbols, l \in Leverages : AdjustLeverageOf(s, l)

Cancelling ==
    \E s \in Symbols :
        \/ CancelAll(s)
        \/ CloseAll(s)
        \/ \E xn \in ExitNames \cup {CloseAllName} : CancelExit(s, xn)

Market ==
    \/ \E i \in EntryIds :
         \/ FillPendingMarketEntry(i)
         \/ FillPendingLimitEntry(i)
         \/ \E m \in Margins : OrderPendingLitEntry(i, m)
         \/ \E fee \in ExitFees, p \in Profits, lf \in LiquidationFees :
              \/ FillLiquidation(i, fee, p, lf)
              \/ \E r \in Fundings, maintained \in BOOLEAN :
                   ExecuteFunding(i, r, maintained, fee, p, lf)
    \/ \E x \in ExitIds, fee \in ExitFees, p \in Profits : FillPendingExitOrder(x, fee, p)

Filling ==
    \/ \E o \in EntryIds, fee \in ExitFees, p \in Profits : ReverseExit(o, fee, p)
    \/ AdjustLeverage
    \/ \E o \in EntryIds, m \in Margins, allowed \in BOOLEAN : Readjust(o, m, allowed)
    \/ \E m \in Margins, f \in UnitFees : Admit(m, f)

Next == Order \/ Leveraging \/ Cancelling \/ Market \/ Filling

Spec == Init /\ [][Next]_vars
-----------------------------------------------------------------------------
(* Properties.                                                             *)

\* What the entries reserve or hold.
HeldMargins(ent) == [i \in EntryIds |-> ent[i].margin]

\* What an open position has already moved in the wallet and no trade reports
\* yet: the funding it received, less the entry fee of the part still open.
Unreported(e) == IF e.stage = "filled" THEN e.funding - e.unitFee * Remaining(e) ELSE 0
Accruals(ent) == [i \in EntryIds |-> Unreported(ent[i])]

\* Every amount, order and marker stays in its domain; in particular the used
\* margin never goes negative and the wallet never does.
TypeOK ==
    /\ wallet \in Nat /\ usedMargin \in Nat /\ netPnl \in Int
    /\ leverage \in [Symbols -> Leverages \cup {1}]
    /\ entry \in [EntryIds -> Entries] /\ exit \in [ExitIds -> Exits]
    /\ filling \in {0} \cup EntryIds /\ step \in {"none", "reverse", "leverage", "admit"}
    /\ todo \subseteq EntryIds /\ engineError \in BOOLEAN

\* used_margin_ is exactly what the pending and the filled entries hold: nothing
\* the handler reserves is leaked or freed twice, whatever is cancelled,
\* re-margined, partly exited, funded or liquidated in between.
MarginConservation == usedMargin = Total(HeldMargins(entry), MaxEntries)

\* The wallet is the initial balance plus the net profits of the trades plus
\* what the open positions have not reported: the trade list explains every
\* change of the balance.
PnlConservation == wallet = InitialBalance + netPnl + Total(Accruals(entry), MaxEntries)

\* Every pending exit targets an entry that is filled, and its copies of that
\* entry's margin and funding are current.
ExitsTrackEntries ==
    \A x \in ExitIds : exit[x].stage = "pending" =>
        \E i \in FilledNamed(entry, exit[x].sym, exit[x].target) :
            exit[x].margin = entry[i].margin /\ exit[x].funding = entry[i].funding

\* Two filled entries of a symbol never face each other: the opposite ones are
\* closed before an entry is filled.
OneSide ==
    \A i, j \in EntryIds :
        entry[i].stage = "filled" /\ entry[j].stage = "filled" /\ entry[i].sym = entry[j].sym
            => entry[i].dir = entry[j].dir

\* Every filled entry has the leverage of its symbol.
OneLeverage ==
    \A i \in EntryIds : entry[i].stage = "filled" => entry[i].lev = leverage[entry[i].sym]

\* Within a symbol, a name denotes one filled entry.
FilledNamesUnique ==
    \A i, j \in EntryIds :
        entry[i].stage = "filled" /\ entry[j].stage = "filled"
        /\ entry[i].sym = entry[j].sym /\ entry[i].name = entry[j].name => i = j

\* Within a symbol, a name denotes one pending entry and one pending exit.
PendingNamesUnique ==
    /\ \A i, j \in EntryIds :
        entry[i].stage = "pending" /\ entry[j].stage = "pending"
        /\ entry[i].sym = entry[j].sym /\ entry[i].name = entry[j].name => i = j
    /\ \A x, y \in ExitIds :
        exit[x].stage = "pending" /\ exit[y].stage = "pending"
        /\ exit[x].sym = exit[y].sym /\ exit[x].name = exit[y].name => x = y

\* The margin in use rises only when the wallet covers it: no order, entry, added
\* margin or funding takes more than the available balance.
MarginCovered == [][usedMargin' > usedMargin => usedMargin' <= wallet']_vars

\* CloseAll leaves every filled entry of the symbol with an exit at market.
CloseAllClosesAll ==
    [][\A s \in Symbols : CloseAll(s) =>
          \A i \in Filled(s) :
             \E x \in ExitIds : exit'[x].stage = "pending" /\ exit'[x].sym = s
                                /\ exit'[x].name = CloseAllName
                                /\ exit'[x].target = entry[i].name]_vars
=============================================================================
