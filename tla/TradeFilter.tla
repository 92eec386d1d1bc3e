---------------------------- MODULE TradeFilter ----------------------------
(***************************************************************************)
(* The trade list that every view of a result draws: what is loaded when   *)
(* another result is selected, the filter over it, and the pool of workers *)
(* that applies the filter in chunks.                                      *)
(*                                                                         *)
(* Three things race: the answers of the server, the user who changes the  *)
(* filter, and the workers, which cannot be interrupted: the chunks of a   *)
(* filter nobody waits for any more are still answered.  Numbers tell the  *)
(* answers that count from those that do not.                              *)
(***************************************************************************)
EXTENDS Integers, Sequences, FiniteSets, SequencesExt

CONSTANTS
    Results,      \* folders of results
    NoResult,     \* no folder is selected
    TradesOf,     \* the trade list of each result: row 0, then its trades
    SymbolsOf,    \* the symbols in the configuration of each result
    UserFilters,  \* the filters a user may set
    Workers,      \* indices of the workers of the pool
    ChunkSize,
    MaxSelects, MaxFilters, MaxFaults  \* bounds

Trades == UNION {{TradesOf[r][i] : i \in DOMAIN TradesOf[r]} : r \in Results}
Symbols == UNION {SymbolsOf[r] : r \in Results}

(* A filter is a set of symbols, whether the names and the times let all   *)
(* trades pass (FALSE: every one of their lists is empty), the least       *)
(* number of a trade, for all the ranges of numbers and the directions (0: *)
(* no bound), and whether balances are calculated anew.                    *)
Filters == [symbols : SUBSET Symbols, others : BOOLEAN, least : Nat, recalculate : BOOLEAN]

ASSUME TradeFilterAssumption ==
    /\ Results # {} /\ NoResult \notin Results
    /\ TradesOf \in [Results -> Seq(Trades)]
    /\ \A r \in Results : TradesOf[r] # <<>> => TradesOf[r][1].number = 0
    /\ SymbolsOf \in [Results -> SUBSET Symbols]
    /\ \A t \in Trades : /\ DOMAIN t = {"number", "symbol", "profit", "balance"}
                         /\ t.number \in Nat /\ t.profit \in Int /\ t.balance \in Int
    /\ \A r \in Results : \A i \in DOMAIN TradesOf[r] :
          TradesOf[r][i].number # 0 => TradesOf[r][i].symbol \in SymbolsOf[r]
    /\ UserFilters \subseteq Filters
    /\ Workers \subseteq Nat /\ Workers # {} /\ IsFiniteSet(Workers)
    /\ ChunkSize \in Nat \ {0}
    /\ MaxSelects \in Nat /\ MaxFilters \in Nat /\ MaxFaults \in Nat

VARIABLES
    selected,        \* selectedResult
    filter,
    allTrades, filteredTrades, hasBankruptcy,
    loading, tradeListError,
    isFiltering,
    changed,         \* the effect on filter and allTrades is to run
    loads,           \* requests to the server that are not answered
    loadSeq,         \* configRequestSeqRef and tradesRequestSeqRef, which move together
    filterSeq,       \* filteringRequestSeqRef
    active,          \* activeTasks, the tasks with a callback: none but latestTaskId
    input,           \* the trades of the latest task, and whether to recalculate
    results,         \* the chunks of the latest task that are filtered
    pending,         \* pendingTasks
    jobs,            \* the chunk each worker is at; busyWorkers are those that have one
    changes, faults  \* filters set by the user, failures of workers and requests

providerVars == <<filter, allTrades, filteredTrades, hasBankruptcy, loading,
                  tradeListError, isFiltering, changed, filterSeq>>
loadVars == <<selected, loads, loadSeq>>
taskVars == <<active, input, results>>
poolVars == <<pending, jobs>>
managerVars == <<taskVars, poolVars>>
vars == <<providerVars, loadVars, managerVars, changes, faults>>

NoJob == [task |-> 0]

----------------------------------------------------------------------------
(* What a filter lets pass, and balances calculated anew.                   *)

IsRowZero(t) == t.number = 0

\* The manager takes empty lists for no filter, a worker for one that nothing passes.
Active(f) == f.symbols # {} \/ f.others \/ f.least > 0

Passes(f, t) == IsRowZero(t) \/ (f.others /\ t.symbol \in f.symbols /\ t.number >= f.least)

\* The first trades that pass, of each number of trades looked at.
FilteredUpTo(f, trades) ==
    LET kept[i \in 0..Len(trades)] ==
          IF i = 0 THEN <<>>
          ELSE IF Passes(f, trades[i]) THEN Append(kept[i - 1], trades[i]) ELSE kept[i - 1]
    IN  kept

Filtered(f, trades) == FilteredUpTo(f, trades)[Len(trades)]

\* The balance after row i when only these trades are made.
Balances(trades) ==
    LET balance[i \in 1..Len(trades)] ==
          IF i = 1 THEN trades[1].balance ELSE balance[i - 1] + trades[i].profit
    IN  balance

BalanceAt(trades, i) == Balances(trades)[i]

\* Numbers from 1 in the order in which the trades first appear.
Renumbered(trades, i) ==
    LET first == Min({j \in 2..i : trades[j].number = trades[i].number})
    IN Cardinality({trades[j].number : j \in 2..first})

Bankrupt(trades) == {i \in 2..Len(trades) : BalanceAt(trades, i) < 0}

RecalculatedMutant(trades, all) ==
    IF Len(trades) <= 1 THEN [trades |-> trades, bankrupt |-> FALSE]
    ELSE [trades |-> [i \in 1..Len(trades) |->
              IF i = 1 THEN trades[1]
              ELSE [trades[i] EXCEPT !.balance = BalanceAt(trades, i), !.number = i - 1]],
          bankrupt |-> FALSE]

\* All trades are as they were; of some, the balances follow from their own profits, up
\* to the one that ruins the account.
Recalculated(trades, all) ==
    IF Len(trades) <= 1 \/ [i \in DOMAIN trades |-> trades[i].number]
                           = [i \in DOMAIN all |-> all[i].number]
    THEN [trades |-> IF Len(trades) <= 1 THEN trades ELSE all, bankrupt |-> FALSE]
    ELSE LET end == IF Bankrupt(trades) = {} THEN Len(trades) ELSE Min(Bankrupt(trades)) - 1
         IN [trades |-> [i \in 1..end |->
                 IF i = 1 THEN trades[1]
                 ELSE [trades[i] EXCEPT !.balance = BalanceAt(trades, i),
                                        !.number = Renumbered(trades, i)]],
             bankrupt |-> Bankrupt(trades) # {}]

----------------------------------------------------------------------------
(* The manager: one task at a time, cut into chunks.                        *)

Idle == {w \in Workers : jobs[w] = NoJob}

\* Row 0 leads every chunk.  A short list is not cut.
Chunks(trades) ==
    IF Len(trades) < 2 * ChunkSize THEN <<trades>>
    ELSE [i \in 1..((Len(trades) - 2) \div ChunkSize) + 1 |->
             <<trades[1]>> \o SubSeq(trades, (i - 1) * ChunkSize + 2,
                                     IF i * ChunkSize + 1 < Len(trades) THEN i * ChunkSize + 1
                                     ELSE Len(trades))]

JobsOf(id, trades, f) ==
    LET chunks == Chunks(trades)
    IN [i \in DOMAIN chunks |-> [task |-> id, index |-> i, total |-> Len(chunks),
                                 trades |-> chunks[i], filter |-> f]]

\* The first chunks go to the workers that are free, in their order.
Rank(w) == Cardinality({v \in Idle : v <= w})

StartTaskMutant(id, trades, f) ==
    /\ active' = {id} /\ results' = <<>>
    /\ input' = [trades |-> trades, recalculate |-> f.recalculate]
    /\ LET new == JobsOf(id, trades, f)
       IN /\ jobs' = [w \in Workers |-> IF w \in Idle /\ Rank(w) <= Len(new) THEN new[Rank(w)]
                                        ELSE jobs[w]]
          /\ pending' = SubSeq(new, Cardinality(Idle) + 2, Len(new))

\* The task before and its chunks that wait are dropped, its promise never settles.
StartTask(id, trades, f) ==
    /\ active' = {id} /\ results' = <<>>
    /\ input' = [trades |-> trades, recalculate |-> f.recalculate]
    /\ LET new == JobsOf(id, trades, f)
       IN /\ jobs' = [w \in Workers |-> IF w \in Idle /\ Rank(w) <= Len(new) THEN new[Rank(w)]
                                        ELSE jobs[w]]
          /\ pending' = SubSeq(new, Cardinality(Idle) + 1, Len(new))

\* Worker w is free: one chunk that waits goes to the first free worker.
ProcessNextTask(w) ==
    LET free == Idle \cup {w}
    IN IF pending = <<>> THEN jobs' = [jobs EXCEPT ![w] = NoJob] /\ UNCHANGED pending
       ELSE /\ jobs' = [jobs EXCEPT ![w] = NoJob, ![Min(free)] = Head(pending)]
            /\ pending' = Tail(pending)

CombinedMutant(chunks) ==
    FlattenSeq([i \in DOMAIN chunks |-> IF i = 1 THEN chunks[i].trades ELSE Tail(chunks[i].trades)])

\* The chunks in their order, each but the first without its row 0.
ChunkAt(chunks, i) == CHOOSE r \in ToSet(chunks) : r.index = i

Joined(chunks) ==
    LET joined[i \in 0..Len(chunks)] ==
          IF i = 0 THEN <<>>
          ELSE IF i = 1 THEN ChunkAt(chunks, 1).trades
          ELSE joined[i - 1] \o Tail(ChunkAt(chunks, i).trades)
    IN  joined

Combined(chunks) == Joined(chunks)[Len(chunks)]

\* The provider takes the result of the filter it last asked for.
Deliver(id, trades, bankrupt) ==
    IF id = filterSeq
    THEN /\ filteredTrades' = trades /\ hasBankruptcy' = bankrupt /\ isFiltering' = FALSE
         /\ UNCHANGED <<filter, allTrades, loading, tradeListError, changed, filterSeq>>
    ELSE UNCHANGED providerVars

HandleTaskResult(job) ==
    LET chunks == Append(results, [index |-> job.index,
                                   trades |-> Filtered(job.filter, job.trades)])
        made == IF input.recalculate THEN Recalculated(Combined(chunks), input.trades)
                ELSE [trades |-> Combined(chunks), bankrupt |-> FALSE]
    IN IF job.task \notin active THEN UNCHANGED <<taskVars, providerVars>>
       ELSE IF Len(chunks) < job.total
       THEN results' = chunks /\ UNCHANGED <<active, input, providerVars>>
       ELSE /\ Deliver(job.task, made.trades, made.bankrupt)
            /\ active' = {} /\ results' = <<>> /\ UNCHANGED input

WorkerAnswers(w) ==
    /\ jobs[w] # NoJob
    /\ HandleTaskResult(jobs[w]) /\ ProcessNextTask(w)
    /\ UNCHANGED <<loadVars, changes, faults>>

\* A worker reports an error: the task ends with no trades at all.
HandleTaskError(w) ==
    /\ jobs[w] # NoJob /\ faults < MaxFaults /\ faults' = faults + 1
    /\ IF jobs[w].task \in active
       THEN /\ Deliver(jobs[w].task, <<>>, FALSE)
            /\ active' = {} /\ results' = <<>> /\ UNCHANGED input
       ELSE UNCHANGED <<taskVars, providerVars>>
    /\ ProcessNextTask(w)
    /\ UNCHANGED <<loadVars, changes>>

\* A worker breaks and is replaced; nobody hears of its chunk.
HandleWorkerError(w) ==
    /\ jobs[w] # NoJob /\ faults < MaxFaults /\ faults' = faults + 1
    /\ jobs' = [jobs EXCEPT ![w] = NoJob]
    /\ UNCHANGED <<providerVars, loadVars, taskVars, pending, changes>>

----------------------------------------------------------------------------
(* The provider.                                                            *)

\* Another result, or none: both effects on it.
Select(r) ==
    /\ r # selected /\ loadSeq < MaxSelects
    /\ selected' = r /\ loadSeq' = loadSeq + 1
    /\ loads' = IF r = NoResult THEN loads
                ELSE loads \cup {[kind |-> k, seq |-> loadSeq', result |-> r] : k \in {"config", "trades"}}
    /\ allTrades' = <<>> /\ filteredTrades' = <<>> /\ hasBankruptcy' = FALSE
    /\ loading' = (r # NoResult) /\ tradeListError' = FALSE /\ changed' = TRUE
    /\ UNCHANGED <<filter, isFiltering, filterSeq, managerVars, changes, faults>>

ConfigLoadedMutant(l) ==
    /\ l.kind = "config" /\ loads' = loads \ {l}
    /\ filter' = [filter EXCEPT !.symbols = SymbolsOf[l.result]] /\ changed' = TRUE
    /\ UNCHANGED <<selected, loadSeq, allTrades, filteredTrades, hasBankruptcy, loading,
                   tradeListError, isFiltering, filterSeq, managerVars, changes, faults>>

\* The symbols of the result replace those that were chosen.
ConfigLoaded(l) ==
    /\ l.kind = "config" /\ loads' = loads \ {l}
    /\ IF l.seq = loadSeq
       THEN filter' = [filter EXCEPT !.symbols = SymbolsOf[l.result]] /\ changed' = TRUE
       ELSE UNCHANGED <<filter, changed>>
    /\ UNCHANGED <<selected, loadSeq, allTrades, filteredTrades, hasBankruptcy, loading,
                   tradeListError, isFiltering, filterSeq, managerVars, changes, faults>>

TradesLoadedMutant(l) ==
    /\ l.kind = "trades" /\ loads' = loads \ {l}
    /\ allTrades' = TradesOf[l.result] /\ filter' = [filter EXCEPT !.others = TRUE]
    /\ loading' = FALSE /\ changed' = TRUE
    /\ UNCHANGED <<selected, loadSeq, hasBankruptcy, isFiltering, filterSeq, managerVars, changes,
                   faults, filteredTrades, tradeListError>>

\* The names and the times are set to let every trade of the list pass; the ranges of
\* numbers stay as the user has set them.
TradesLoaded(l) ==
    /\ l.kind = "trades" /\ loads' = loads \ {l}
    /\ IF l.seq = loadSeq
       THEN /\ allTrades' = TradesOf[l.result] /\ filter' = [filter EXCEPT !.others = TRUE]
            /\ loading' = FALSE /\ changed' = TRUE
       ELSE UNCHANGED <<filter, allTrades, loading, changed>>
    /\ UNCHANGED <<selected, loadSeq, filteredTrades, hasBankruptcy, tradeListError, isFiltering,
                   filterSeq, managerVars, changes, faults>>

\* No answer, or (broken) a list without row 0.  The symbols stay those of the result
\* before.
LoadFailed(l, broken) ==
    /\ faults < MaxFaults /\ faults' = faults + 1 /\ loads' = loads \ {l}
    /\ IF l.kind = "trades" /\ l.seq = loadSeq
       THEN /\ allTrades' = <<>> /\ filteredTrades' = <<>> /\ loading' = FALSE /\ changed' = TRUE
            /\ tradeListError' = broken
       ELSE UNCHANGED <<allTrades, filteredTrades, loading, tradeListError, changed>>
    /\ UNCHANGED <<selected, loadSeq, filter, hasBankruptcy, isFiltering, filterSeq, managerVars,
                   changes>>

SetFilter(f) ==
    /\ f # filter /\ changes < MaxFilters /\ changes' = changes + 1
    /\ filter' = f /\ changed' = TRUE
    /\ UNCHANGED <<allTrades, filteredTrades, hasBankruptcy, loading, tradeListError, isFiltering,
                   filterSeq, loadVars, managerVars, faults>>

\* The effect: the number moves on once for the filter before and once for this one.
ImmediateFiltering ==
    /\ changed /\ changed' = FALSE /\ filterSeq' = filterSeq + 2
    /\ IF allTrades # <<>> /\ Active(filter)
       THEN /\ isFiltering' = TRUE /\ StartTask(filterSeq', allTrades, filter)
            /\ UNCHANGED <<filteredTrades, hasBankruptcy>>
       ELSE /\ isFiltering' = FALSE /\ filteredTrades' = allTrades
            /\ hasBankruptcy' = (hasBankruptcy /\ allTrades = <<>>)
            /\ UNCHANGED managerVars
    /\ UNCHANGED <<filter, allTrades, loading, tradeListError, loadVars, changes, faults>>

Init ==
    /\ selected = NoResult /\ loads = {} /\ loadSeq = 0
    /\ filter = [symbols |-> {}, others |-> FALSE, least |-> 0, recalculate |-> FALSE]
    /\ allTrades = <<>> /\ filteredTrades = <<>> /\ hasBankruptcy = FALSE
    /\ loading = FALSE /\ tradeListError = FALSE
    /\ isFiltering = FALSE /\ changed = FALSE /\ filterSeq = 0
    /\ active = {} /\ results = <<>>
    /\ input = [trades |-> <<>>, recalculate |-> FALSE]
    /\ pending = <<>> /\ jobs = [w \in Workers |-> NoJob]
    /\ changes = 0 /\ faults = 0

Next ==
    \/ \E r \in Results \cup {NoResult} : Select(r)
    \/ \E l \in loads : 
        \/ ConfigLoaded(l) \/ TradesLoaded(l) \/ \E broken \in BOOLEAN : LoadFailed(l, broken)
    \/ \E f \in UserFilters : SetFilter(f)
    \/ ImmediateFiltering
    \/ \E w \in Workers : WorkerAnswers(w) \/ HandleTaskError(w) \/ HandleWorkerError(w)

Spec == Init /\ [][Next]_vars

\* Effects run, and as long as workers filter one of them comes to an end.
Progress == ImmediateFiltering \/ \E w \in Workers : WorkerAnswers(w)

FairSpec == Spec /\ WF_vars(Progress)

----------------------------------------------------------------------------
(* Properties.                                                              *)

JobSet == [task : Nat, index : Nat, total : Nat, trades : Seq(Trades), filter : Filters]

TypeOK ==
    /\ selected \in Results \cup {NoResult} /\ filter \in Filters
    /\ allTrades \in Seq(Trades) /\ loadSeq \in Nat /\ filterSeq \in Nat
    /\ \A l \in loads : l.seq \in 1..loadSeq /\ l.result \in Results
    /\ {hasBankruptcy, loading, tradeListError, isFiltering, changed} \subseteq BOOLEAN
    /\ active = {} \/ \E id \in 1..filterSeq : active = {id}
    /\ pending \in Seq(JobSet) /\ jobs \in [Workers -> JobSet \cup {NoJob}]
    /\ changes \in 0..MaxFilters /\ faults \in 0..MaxFaults

Settled == ~changed /\ ~isFiltering

Kept == IF Active(filter) THEN Filtered(filter, allTrades) ELSE allTrades

\* Whatever order the workers answer in and whatever was asked before, the trades shown
\* are those the filter keeps of the list, all of them; or none, after a failure.
ShownIsFiltered ==
    Settled =>
        \/ filteredTrades = IF filter.recalculate /\ Active(filter)
                            THEN Recalculated(Kept, allTrades).trades ELSE Kept
        \/ faults > 0 /\ filteredTrades = <<>>

\* Balances calculated anew follow one from another, none is negative, trades are
\* numbered without a gap, and a ruin is told exactly when it cuts the list.
BalancesFollow ==
    Settled /\ filter.recalculate /\ filteredTrades # <<>> /\ Len(filteredTrades) # Len(allTrades) =>
        /\ \A i \in 2..Len(filteredTrades) :
            /\ filteredTrades[i].balance = filteredTrades[i - 1].balance + filteredTrades[i].profit
            /\ filteredTrades[i].balance >= 0
        /\ \E n \in 0..Len(filteredTrades) : {filteredTrades[i].number : i \in DOMAIN filteredTrades} = 0..n
        /\ hasBankruptcy <=> Len(filteredTrades) < Len(Kept)

\* The list is the one of the result that is selected, never of one selected before.
TradesOfSelected ==
    allTrades # <<>> => selected \in Results /\ allTrades = TradesOf[selected]

\* A result nobody filters is shown whole, in whichever order its configuration and its
\* trades arrive and whatever was selected before.
ShownWhole ==
    /\ Settled /\ changes = 0 /\ faults = 0 /\ selected # NoResult
    /\ {l \in loads : l.seq = loadSeq} = {}
    => filteredTrades = TradesOf[selected]

\* No chunk waits while a worker is free, but for those that broke.
NoWorkerSpared == pending # <<>> => Cardinality(Idle) <= faults

\* Each chunk of the task is filtered, in work or waiting, once.
ChunksAccounted ==
    active # {} /\ faults = 0 =>
        Len(results) + Cardinality({w \in Workers : jobs[w].task \in active}) + Len(pending)
        = Len(Chunks(input.trades))

\* A filter comes to an end, unless a worker breaks: then the code waits for ever.
FilteringEnds == isFiltering /\ faults = 0 ~> ~isFiltering \/ faults > 0
=============================================================================
