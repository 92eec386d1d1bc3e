-------------------------- MODULE TradeFilter_proofs --------------------------
(***************************************************************************)
(* Proofs about TradeFilter, for any results, trades, filters, workers and *)
(* size of the chunks, and any number of faults.                           *)
(***************************************************************************)
EXTENDS TradeFilter, FiniteSetTheorems, SequenceTheorems, WellFoundedInduction, TLAPS

-----------------------------------------------------------------------------
(* The inductive invariant.                                                *)

\* A request of the last selection is for the result that is selected.
RequestsOK ==
    /\ loadSeq \in Nat
    /\ \A l \in loads : l.seq \in Nat /\ l.seq <= loadSeq
                        /\ (l.seq = loadSeq => l.result = selected /\ selected \in Results)

TradesOK == allTrades # <<>> => selected \in Results /\ allTrades = TradesOf[selected]

\* The chunks that wait are chunks.
QueueOK ==
    /\ jobs = [w \in Workers |-> jobs[w]] /\ faults \in Nat
    /\ \E J : NoJob \notin J /\ pending \in Seq(J)

SparedOK == pending # <<>> => Cardinality(Idle) <= faults

IInv == RequestsOK /\ TradesOK /\ QueueOK /\ SparedOK

-----------------------------------------------------------------------------
(* The workers.                                                            *)

\* Every nonempty set of naturals has a least element.
LEMMA LeastNat ==
    ASSUME NEW T, T \subseteq Nat, T # {}
    PROVE  \E x \in T : \A y \in T : x <= y
<1>1. PICK x \in T : \A y \in T : ~(<<y, x>> \in OpToRel(<, Nat))
  <2>1. IsWellFoundedOn(OpToRel(<, Nat), Nat)
    BY NatLessThanWellFounded, Zenon
  <2> QED BY <2>1, WFMin, Zenon
<1>2. ASSUME NEW y \in T PROVE x <= y
  <2>1. <<y, x>> \notin OpToRel(<, Nat)
    BY <1>1
  <2>2. x \in Nat /\ y \in Nat
    OBVIOUS
  <2>3. ~(y < x)
    BY <2>1, <2>2 DEF OpToRel
  <2> QED BY <2>2, <2>3
<1> QED BY <1>2

\* The workers that are free.
LEMMA IdleFinite ==
    /\ IsFiniteSet(Idle) /\ Cardinality(Idle) \in Nat
    /\ \A w \in Workers : IsFiniteSet(Idle \cup {w})
    /\ Idle \cup Workers \subseteq Nat
<1>1. Idle \in SUBSET Workers /\ IsFiniteSet(Workers) /\ Workers \subseteq Nat
  BY TradeFilterAssumption DEF Idle
<1> QED BY <1>1, FS_Subset, FS_CardinalityType, FS_AddElement

\* A free worker's rank is a place among the free.
LEMMA RankOK ==
    ASSUME NEW w \in Idle
    PROVE  Rank(w) \in 1..Cardinality(Idle)
<1>1. PICK S : S = {v \in Idle : v <= w}
  OBVIOUS
<1>2. S \in SUBSET Idle /\ w \in S
  BY <1>1, IdleFinite
<1>3. IsFiniteSet(S) /\ Cardinality(S) <= Cardinality(Idle) /\ Cardinality(S) \in Nat
  BY <1>2, IdleFinite, FS_Subset, FS_CardinalityType
<1>4. Cardinality(S) # 0
  BY <1>2, <1>3, FS_EmptySet
<1> QED BY <1>1, <1>3, <1>4, IdleFinite DEF Rank

\* The least of a nonempty set of naturals is one of them.
LEMMA MinIn ==
    ASSUME NEW S, S \subseteq Nat, S # {}
    PROVE  Min(S) \in S
<1>1. \E x \in S : \A y \in S : x =< y
  BY LeastNat
<1> QED BY <1>1 DEF Min

\* A list of trades is cut into a sequence of chunks.
LEMMA JobsSeq ==
    ASSUME NEW trades \in Seq(Trades), NEW id, NEW f
    PROVE  \E J : NoJob \notin J /\ JobsOf(id, trades, f) \in Seq(J)
<1>1. PICK n \in Nat : DOMAIN Chunks(trades) = 1..n
  <2>1. CASE Len(trades) < 2 * ChunkSize
    <3>1. Chunks(trades) = <<trades>>
      BY <2>1 DEF Chunks
    <3>2. DOMAIN Chunks(trades) = 1..1
      BY <3>1
    <3> QED BY <3>2
  <2>2. CASE ~(Len(trades) < 2 * ChunkSize)
    <3>1. PICK n : n = ((Len(trades) - 2) \div ChunkSize) + 1
      OBVIOUS
    <3>2. n \in Nat
      <4>1. Len(trades) \in Nat /\ ChunkSize \in Nat /\ ChunkSize > 0
        BY TradeFilterAssumption, LenProperties
      <4>2. Len(trades) - 2 \in Nat
        BY <2>2, <4>1
      <4>3. (Len(trades) - 2) \div ChunkSize \in Nat
        BY <4>1, <4>2
      <4> QED BY <3>1, <4>3
    <3>3. DOMAIN Chunks(trades) = 1..n
      BY <2>2, <3>1 DEF Chunks
    <3> QED BY <3>2, <3>3
  <2> QED BY <2>1, <2>2
<1>2. PICK s : s = JobsOf(id, trades, f)
  OBVIOUS
<1>3. /\ s = [i \in 1..n |-> s[i]]
      /\ \A i \in 1..n : s[i] = [task |-> id, index |-> i, total |-> Len(Chunks(trades)),
                                 trades |-> Chunks(trades)[i], filter |-> f]
  BY <1>1, <1>2 DEF JobsOf
<1>4. PICK J : J = {s[i] : i \in 1..n}
  OBVIOUS
<1>5. s \in Seq(J)
  BY <1>3, <1>4, IsASeq
<1>6. NoJob \notin J
  <2>1. \A i \in 1..n : "filter" \in DOMAIN s[i]
    BY <1>3
  <2>2. "filter" \notin DOMAIN NoJob
    BY DEF NoJob
  <2> QED BY <1>4, <2>1, <2>2
<1> QED BY <1>2, <1>5, <1>6

\* A task takes every free worker before a chunk of it waits.
LEMMA StartTaskOK ==
    ASSUME QueueOK, NEW trades \in Seq(Trades), NEW id, NEW f, StartTask(id, trades, f),
           faults' = faults
    PROVE  QueueOK' /\ SparedOK'
<1>1. PICK new : new = JobsOf(id, trades, f)
  OBVIOUS
<1>2. PICK J : NoJob \notin J /\ new \in Seq(J)
  BY <1>1, JobsSeq
<1>3. PICK n \in Nat : n = Cardinality(Idle)
  BY IdleFinite
<1>4. /\ jobs' = [w \in Workers |-> IF w \in Idle /\ Rank(w) <= Len(new) THEN new[Rank(w)] ELSE jobs[w]]
      /\ pending' = SubSeq(new, n + 1, Len(new))
  BY <1>1, <1>3 DEF StartTask
<1>5. Len(new) \in Nat /\ \A i \in 1..Len(new) : new[i] \in J
  BY <1>2, LenProperties, ElementOfSeq
<1>6. pending' \in Seq(J) /\ (n + 1 > Len(new) => pending' = <<>>)
  <2>1. CASE n + 1 > Len(new)
    <3>1. pending' = <<>>
      BY <1>4, <1>5, <2>1
    <3> QED BY <3>1, EmptySeq
  <2>2. CASE n + 1 <= Len(new)
    <3>1. \A i \in n + 1..Len(new) : new[i] \in J
      BY <1>5
    <3> QED BY <1>2, <1>4, <1>5, <2>2, <3>1, SubSeqProperties
  <2> QED BY <1>5, <2>1, <2>2
<1>7. QueueOK'
  BY <1>2, <1>4, <1>6 DEF QueueOK
<1>8. ASSUME pending' # <<>> PROVE Cardinality(Idle') <= faults'
  <2>1. n + 1 <= Len(new)
    BY <1>5, <1>6, <1>8
  <2>2. \A w \in Idle : w \in Workers /\ Rank(w) \in 1..n
    BY <1>3, RankOK DEF Idle
  <2>3. \A w \in Idle : jobs'[w] # NoJob
    BY <1>2, <1>4, <1>5, <2>1, <2>2
  <2>4. \A w \in Workers \ Idle : jobs'[w] # NoJob
    BY <1>4 DEF Idle
  <2>5. Idle' = {}
    BY <2>3, <2>4 DEF Idle
  <2>6. Cardinality(Idle') = 0
    BY <2>5, FS_EmptySet
  <2> QED BY <2>6 DEF QueueOK
<1> QED BY <1>7, <1>8 DEF SparedOK

\* A worker that is free again takes a chunk that waits, or another free one does.
LEMMA ProcessNextTaskOK ==
    ASSUME QueueOK, SparedOK, NEW w \in Workers, jobs[w] # NoJob, ProcessNextTask(w),
           faults' \in Nat, faults <= faults'
    PROVE  QueueOK' /\ SparedOK'
<1>1. PICK J : NoJob \notin J /\ pending \in Seq(J)
  BY DEF QueueOK
<1>2. CASE pending = <<>>
  <2>1. jobs' = [jobs EXCEPT ![w] = NoJob] /\ pending' = pending
    BY <1>2 DEF ProcessNextTask
  <2>2. jobs' = [v \in Workers |-> jobs'[v]]
    BY <2>1 DEF QueueOK
  <2> QED BY <1>1, <1>2, <2>1, <2>2 DEF QueueOK, SparedOK
<1>3. CASE pending # <<>>
  <2>1. PICK m : m = Min(Idle \cup {w})
    OBVIOUS
  <2>2. jobs' = [jobs EXCEPT ![w] = NoJob, ![m] = Head(pending)] /\ pending' = Tail(pending)
    BY <1>3, <2>1 DEF ProcessNextTask
  <2>3. m \in Idle \cup {w} /\ m \in Workers
    BY <2>1, MinIn, IdleFinite DEF Idle
  <2>4. Head(pending) # NoJob /\ Tail(pending) \in Seq(J)
    BY <1>1, <1>3, HeadTailProperties
  <2>5. jobs' = [v \in Workers |-> jobs'[v]]
        /\ \A v \in Workers : jobs'[v] = IF v = m THEN Head(pending)
                                         ELSE IF v = w THEN NoJob ELSE jobs[v]
    BY <2>2, <2>3 DEF QueueOK
  <2>6. Idle' = (Idle \cup {w}) \ {m}
    BY <2>3, <2>4, <2>5 DEF Idle
  <2>7. Cardinality(Idle') = Cardinality(Idle)
    <3>1. w \notin Idle
      BY DEF Idle
    <3>2. Cardinality(Idle \cup {w}) = Cardinality(Idle) + 1 /\ IsFiniteSet(Idle \cup {w})
      BY <3>1, IdleFinite, FS_AddElement
    <3>3. Cardinality((Idle \cup {w}) \ {m}) = Cardinality(Idle \cup {w}) - 1
      BY <2>3, <3>2, FS_RemoveElement
    <3> QED BY <2>6, <3>2, <3>3, IdleFinite
  <2>8. Cardinality(Idle) <= faults /\ Cardinality(Idle) \in Nat /\ faults \in Nat
    BY <1>3, IdleFinite DEF SparedOK, QueueOK
  <2> QED BY <1>1, <2>2, <2>4, <2>5, <2>7, <2>8 DEF QueueOK, SparedOK
<1> QED BY <1>2, <1>3

-----------------------------------------------------------------------------
(* The steps.                                                              *)

\* A step of the pool leaves the list and the requests alone.
LEMMA PoolStep ==
    ASSUME IInv, QueueOK', SparedOK', UNCHANGED <<selected, loads, loadSeq, allTrades>>
    PROVE  IInv'
BY DEF IInv, RequestsOK, TradesOK

\* A step that leaves the pool alone, with no more than a fault more.
LEMMA OtherStep ==
    ASSUME IInv, RequestsOK', TradesOK', UNCHANGED <<pending, jobs>>, faults' \in {faults, faults + 1}
    PROVE  IInv'
<1>1. Idle' = Idle
  BY DEF Idle
<1>2. faults' \in Nat /\ faults <= faults' /\ faults \in Nat
  BY DEF IInv, QueueOK
<1>3. QueueOK'
  BY <1>2 DEF IInv, QueueOK
<1>4. SparedOK'
  BY <1>1, <1>2, IdleFinite DEF IInv, SparedOK
<1> QED BY <1>3, <1>4 DEF IInv

\* What a worker's answer leaves alone.
LEMMA Delivered ==
    ASSUME NEW id, NEW trades, NEW bankrupt, Deliver(id, trades, bankrupt)
    PROVE  allTrades' = allTrades
BY DEF Deliver, providerVars

\* An answer frees its worker.
LEMMA WorkerAnswersOK ==
    ASSUME IInv, NEW w \in Workers, WorkerAnswers(w)
    PROVE  IInv'
<1>1. HandleTaskResult(jobs[w]) => allTrades' = allTrades
  BY Delivered DEF HandleTaskResult, providerVars
<1>2. jobs[w] # NoJob /\ ProcessNextTask(w) /\ UNCHANGED <<selected, loads, loadSeq, allTrades, faults>>
  BY <1>1 DEF WorkerAnswers, loadVars
<1>3. faults' \in Nat /\ faults <= faults'
  BY <1>2 DEF IInv, QueueOK
<1> QED BY <1>2, <1>3, ProcessNextTaskOK, PoolStep DEF IInv

\* So does an error that a worker reports.
LEMMA HandleTaskErrorOK ==
    ASSUME IInv, NEW w \in Workers, HandleTaskError(w)
    PROVE  IInv'
<1>1. allTrades' = allTrades
  BY Delivered DEF HandleTaskError, providerVars
<1>2. jobs[w] # NoJob /\ ProcessNextTask(w) /\ UNCHANGED <<selected, loads, loadSeq>> /\ faults' = faults + 1
  BY DEF HandleTaskError, loadVars
<1>3. faults' \in Nat /\ faults <= faults'
  BY <1>2 DEF IInv, QueueOK
<1> QED BY <1>1, <1>2, <1>3, ProcessNextTaskOK, PoolStep DEF IInv

\* The worker that is replaced is free, and the chunks that wait stay where they are.
LEMMA HandleWorkerErrorOK ==
    ASSUME IInv, NEW w \in Workers, HandleWorkerError(w)
    PROVE  IInv'
<1>1. /\ jobs[w] # NoJob /\ faults' = faults + 1 /\ jobs' = [jobs EXCEPT ![w] = NoJob]
      /\ UNCHANGED <<selected, loads, loadSeq, allTrades, pending>>
  BY DEF HandleWorkerError, providerVars, loadVars
<1>2. jobs' = [v \in Workers |-> jobs'[v]] /\ Idle' = Idle \cup {w}
  BY <1>1 DEF IInv, QueueOK, Idle
<1>3. Cardinality(Idle') = Cardinality(Idle) + 1
  <2>1. w \notin Idle
    BY <1>1 DEF Idle
  <2> QED BY <1>2, <2>1, IdleFinite, FS_AddElement
<1>4. QueueOK'
  BY <1>1, <1>2 DEF IInv, QueueOK
<1>5. SparedOK'
  BY <1>1, <1>3, IdleFinite DEF IInv, SparedOK, QueueOK
<1> QED BY <1>1, <1>4, <1>5, PoolStep

\* A selection drops the list of the result before.
LEMMA SelectOK ==
    ASSUME IInv, NEW r \in Results \cup {NoResult}, Select(r)
    PROVE  IInv'
<1>1. /\ selected' = r /\ loadSeq' = loadSeq + 1 /\ allTrades' = <<>>
      /\ UNCHANGED <<pending, jobs, faults>>
  BY DEF Select, managerVars, poolVars
<1>2. \A l \in loads' : l \in loads \/ (l.seq = loadSeq' /\ l.result = r /\ r \in Results)
  BY DEF Select
<1>3. RequestsOK'
  BY <1>1, <1>2 DEF IInv, RequestsOK
<1>4. TradesOK'
  BY <1>1 DEF TradesOK
<1> QED BY <1>1, <1>3, <1>4, OtherStep

\* Answers of the server.
LEMMA LoadsOK ==
    ASSUME IInv, NEW l \in loads, NEW broken,
           ConfigLoaded(l) \/ TradesLoaded(l) \/ LoadFailed(l, broken)
    PROVE  IInv'
<1>1. /\ loads' = loads \ {l} /\ UNCHANGED <<selected, loadSeq, pending, jobs>>
      /\ faults' \in {faults, faults + 1}
      /\ (allTrades' \in {allTrades, <<>>}
          \/ (l.seq = loadSeq /\ allTrades' = TradesOf[l.result]))
  BY DEF ConfigLoaded, TradesLoaded, LoadFailed, managerVars, poolVars
<1>2. RequestsOK'
  BY <1>1 DEF IInv, RequestsOK
<1>3. TradesOK'
  BY <1>1 DEF IInv, RequestsOK, TradesOK
<1> QED BY <1>1, <1>2, <1>3, OtherStep

\* The user sets a filter.
LEMMA SetFilterOK ==
    ASSUME IInv, NEW f, SetFilter(f)
    PROVE  IInv'
<1>1. UNCHANGED <<selected, loads, loadSeq, allTrades, pending, jobs, faults>>
  BY DEF SetFilter, loadVars, managerVars, poolVars
<1> QED BY <1>1, OtherStep DEF IInv, RequestsOK, TradesOK

\* The effect starts a task, or none.
LEMMA ImmediateFilteringOK ==
    ASSUME IInv, ImmediateFiltering
    PROVE  IInv'
<1>1. UNCHANGED <<selected, loads, loadSeq, allTrades, faults>>
  BY DEF ImmediateFiltering, loadVars
<1>2. CASE StartTask(filterSeq', allTrades, filter) /\ allTrades # <<>>
  <2>1. allTrades \in Seq(Trades)
    BY <1>2, TradeFilterAssumption DEF IInv, TradesOK
  <2> QED BY <1>1, <1>2, <2>1, StartTaskOK, PoolStep DEF IInv
<1>3. CASE UNCHANGED managerVars
  <2>1. UNCHANGED <<pending, jobs>>
    BY <1>3 DEF managerVars, poolVars
  <2> QED BY <1>1, <2>1, OtherStep DEF IInv, RequestsOK, TradesOK
<1> QED BY <1>2, <1>3 DEF ImmediateFiltering

-----------------------------------------------------------------------------
(* The theorems.                                                           *)

\* At first nothing is selected and all workers are free.
LEMMA InitOK == Init => IInv
<1> SUFFICES ASSUME Init PROVE IInv
  OBVIOUS
<1>1. <<>> \in Seq({}) /\ NoJob \notin {}
  OBVIOUS
<1>2. QueueOK
  BY <1>1 DEF Init, QueueOK
<1> QED BY <1>2 DEF Init, IInv, RequestsOK, TradesOK, SparedOK

\* Requests, the list, and the chunks that wait fit together in every state.
THEOREM Inductive == Spec => []IInv
<1>1. IInv /\ [Next]_vars => IInv'
  <2> SUFFICES ASSUME IInv, [Next]_vars PROVE IInv'
    OBVIOUS
  <2>1. CASE Next
    BY <2>1, SelectOK, LoadsOK, SetFilterOK, ImmediateFilteringOK, WorkerAnswersOK,
       HandleTaskErrorOK, HandleWorkerErrorOK DEF Next
  <2>2. CASE UNCHANGED vars
    <3>1. UNCHANGED <<selected, loads, loadSeq, allTrades, pending, jobs, faults>>
      BY <2>2 DEF vars, providerVars, loadVars, managerVars, poolVars
    <3> QED BY <3>1, OtherStep DEF IInv, RequestsOK, TradesOK
  <2> QED BY <2>1, <2>2
<1> QED BY <1>1, InitOK, PTL DEF Spec

\* Answers that come late, to a selection before this one, never become the list
\* (TradeFilterProvider.tsx, configRequestSeqRef and tradesRequestSeqRef).
THEOREM ListOfSelected == Spec => []TradesOfSelected
<1>1. IInv => TradesOfSelected
  BY DEF IInv, TradesOK, TradesOfSelected
<1> QED BY <1>1, Inductive, PTL

\* A chunk waits only when all the workers are busy, or as many are free as broke: a
\* worker that is replaced is given nothing (TradeFilterManager.ts processNextTask).
THEOREM WorkersUsed == Spec => []NoWorkerSpared
<1>1. IInv => NoWorkerSpared
  BY DEF IInv, SparedOK, NoWorkerSpared
<1> QED BY <1>1, Inductive, PTL

-----------------------------------------------------------------------------
(* Recursive functions, and the filter as one.                             *)

\* Induction up to a bound, over a set.
LEMMA UpTo ==
    ASSUME NEW n \in Nat, NEW T, 0 \in T, \A k \in 1..n : k - 1 \in T => k \in T
    PROVE  0..n \subseteq T
<1> SUFFICES ASSUME NEW x \in 0..n, x \notin T PROVE FALSE
  OBVIOUS
<1> DEFINE U == {y \in 0..n : y \notin T}
<1>1. U \subseteq Nat /\ x \in U
  OBVIOUS
<1>2. PICK y \in U : \A z \in U : y <= z
  <2> HIDE DEF U
  <2> QED BY <1>1, LeastNat
<1>3. y \in 1..n /\ y \notin T
  BY <1>2
<1>4. y - 1 \in T
  BY <1>2, <1>3
<1> QED BY <1>3, <1>4

\* Each value from that before it, from b at m.
Follows(g, m, n, b, F) == g = [i \in m..n |-> IF i = m THEN b ELSE F[<<i, g[i - 1]>>]]

\* A recursive definition over m..n does define a function.
LEMMA FollowsExists ==
    ASSUME NEW m \in Nat, NEW n \in Nat, NEW D, NEW b \in D, NEW F \in [(m..n) \X D -> D]
    PROVE  \E g \in [m..n -> D] : Follows(g, m, n, b, F)
<1> DEFINE Rec(g, k) == \A i \in m..k : g[i] = IF i = m THEN b ELSE F[<<i, g[i - 1]>>]
           T == {k \in 0..n : \E g \in [m..k -> D] : Rec(g, k)}
<1>1. \A k \in 0..n : k <= m => k \in T
  <2>1. TAKE k \in 0..n
  <2>2. HAVE k <= m
  <2> DEFINE g == [i \in m..k |-> b]
  <2>3. g \in [m..k -> D] /\ Rec(g, k)
    BY <2>2
  <2> QED BY <2>3
<1>2. ASSUME NEW k \in 1..n, k - 1 \in T, k > m PROVE k \in T
  <2>1. PICK g \in [m..k - 1 -> D] : Rec(g, k - 1)
    BY <1>2
  <2> DEFINE h == [i \in m..k |-> IF i = k THEN F[<<k, g[k - 1]>>] ELSE g[i]]
  <2>2. k - 1 \in m..k - 1 /\ <<k, g[k - 1]>> \in (m..n) \X D
    BY <1>2
  <2>3. h \in [m..k -> D]
    <3>1. F[<<k, g[k - 1]>>] \in D
      BY <2>2
    <3>2. \A i \in m..k : i # k => i \in m..k - 1
      BY <1>2
    <3> QED BY <3>1, <3>2
  <2>4. ASSUME NEW i \in m..k PROVE h[i] = IF i = m THEN b ELSE F[<<i, h[i - 1]>>]
    <3>1. CASE i = k
      <4>1. i # m /\ i - 1 \in m..k /\ i - 1 # k
        BY <1>2, <3>1
      <4>2. h[i] = F[<<k, g[k - 1]>>] /\ h[i - 1] = g[i - 1]
        BY <3>1, <4>1
      <4> QED BY <3>1, <4>1, <4>2
    <3>2. CASE i # k
      <4>1. i \in m..k - 1 /\ (i # m => i - 1 \in m..k /\ i - 1 # k)
        BY <1>2, <3>2
      <4>2. h[i] = g[i] /\ (i # m => h[i - 1] = g[i - 1])
        BY <3>2, <4>1
      <4>3. g[i] = IF i = m THEN b ELSE F[<<i, g[i - 1]>>]
        BY <2>1, <4>1
      <4> QED BY <4>2, <4>3
    <3> QED BY <3>1, <3>2
  <2> QED
    <3> HIDE DEF h
    <3> QED BY <2>3, <2>4
<1>3. 0 \in T /\ \A k \in 1..n : k - 1 \in T => k \in T
  <2>1. \A k \in 1..n : k \in 0..n /\ (k <= m \/ k > m)
    OBVIOUS
  <2>2. 0 \in 0..n /\ 0 <= m
    OBVIOUS
  <2> HIDE DEF T
  <2> QED BY <1>1, <1>2, <2>1, <2>2
<1>4. n \in T
  <2> HIDE DEF T
  <2>1. 0..n \subseteq T
    BY <1>3, UpTo
  <2> QED BY <2>1
<1>5. PICK g \in [m..n -> D] : Rec(g, n)
  BY <1>4
<1>6. g = [i \in m..n |-> g[i]]
  OBVIOUS
<1>7. Follows(g, m, n, b, F)
  BY <1>5, <1>6 DEF Follows
<1> QED BY <1>7

\* What such a function is at each place.
LEMMA FollowsAt ==
    ASSUME NEW m \in Nat, NEW n \in Nat, NEW b, NEW F, NEW g, Follows(g, m, n, b, F)
    PROVE  \A i \in m..n : g[i] = IF i = m THEN b ELSE F[<<i, g[i - 1]>>]
BY DEF Follows

\* The trades that pass, one row after another.
LEMMA FilteredEquations ==
    ASSUME NEW f, NEW trades \in Seq(Trades)
    PROVE  LET kept == FilteredUpTo(f, trades)
           IN  /\ kept[0] = <<>>
               /\ \A i \in 1..Len(trades) :
                     kept[i] = IF Passes(f, trades[i]) THEN Append(kept[i - 1], trades[i])
                               ELSE kept[i - 1]
               /\ \A i \in 0..Len(trades) : kept[i] \in Seq(Trades)
<1>1. Len(trades) \in Nat /\ \A i \in 1..Len(trades) : trades[i] \in Trades
  BY LenProperties, ElementOfSeq
<1> DEFINE kept == FilteredUpTo(f, trades)
           n == Len(trades)
           D == Seq(Trades)
           Is(g) == g = [i \in 0..n |->
                           IF i = 0 THEN <<>>
                           ELSE IF Passes(f, trades[i]) THEN Append(g[i - 1], trades[i]) ELSE g[i - 1]]
           F == [x \in (0..n) \X D |->
                   IF x[1] = 0 THEN <<>>
                   ELSE IF Passes(f, trades[x[1]]) THEN Append(x[2], trades[x[1]]) ELSE x[2]]
<1>2. F \in [(0..n) \X D -> D]
  <2>1. ASSUME NEW x \in (0..n) \X D PROVE F[x] \in D
    <3>1. x[1] \in 0..n /\ x[2] \in D
      BY <2>1
    <3>2. x[1] # 0 => trades[x[1]] \in Trades
      BY <1>1, <3>1
    <3>3. x[1] # 0 => Append(x[2], trades[x[1]]) \in D
      BY <3>1, <3>2, AppendProperties
    <3> QED BY <2>1, <3>1, <3>3, EmptySeq
  <2> QED BY <2>1
<1>3. PICK g \in [0..n -> D] : Follows(g, 0, n, <<>>, F)
  <2>1. <<>> \in D
    BY EmptySeq
  <2> HIDE DEF F, D
  <2> QED BY <1>1, <1>2, <2>1, FollowsExists
<1>4. Is(g)
  <2>1. \A i \in 0..n : g[i] = IF i = 0 THEN <<>> ELSE F[<<i, g[i - 1]>>]
    <3> HIDE DEF F
    <3> QED BY <1>1, <1>3, FollowsAt
  <2>2. ASSUME NEW i \in 0..n, i # 0
        PROVE  F[<<i, g[i - 1]>>] =
                  IF Passes(f, trades[i]) THEN Append(g[i - 1], trades[i]) ELSE g[i - 1]
    <3>1. <<i, g[i - 1]>> \in (0..n) \X D
      <4>1. i - 1 \in 0..n
        BY <1>1, <2>2
      <4>2. g[i - 1] \in D
        <5> HIDE DEF F, D
        <5> QED BY <1>3, <4>1
      <4> QED BY <4>2
    <3> QED BY <2>2, <3>1
  <2>3. g = [i \in 0..n |-> g[i]]
    BY <1>3
  <2> HIDE DEF F
  <2> QED BY <2>1, <2>2, <2>3
<1>5. Is(kept)
  <2>1. kept = CHOOSE h : Is(h)
    BY DEF FilteredUpTo
  <2> HIDE DEF Is, kept
  <2> QED BY <1>4, <2>1
<1>6. /\ kept[0] = <<>>
      /\ \A i \in 1..n : kept[i] = IF Passes(f, trades[i]) THEN Append(kept[i - 1], trades[i])
                                   ELSE kept[i - 1]
  <2>1. \A i \in 0..n : kept[i] = IF i = 0 THEN <<>>
                                ELSE IF Passes(f, trades[i]) THEN Append(kept[i - 1], trades[i])
                                ELSE kept[i - 1]
    <3> HIDE DEF kept
    <3> QED BY <1>5, Zenon
  <2>2. 0 \in 0..n /\ \A i \in 1..n : i \in 0..n /\ i # 0
    BY <1>1
  <2> HIDE DEF kept
  <2> QED BY <2>1, <2>2
<1>7. 0..n \subseteq {i \in 0..n : kept[i] \in Seq(Trades)}
  <2> HIDE DEF kept
  <2> DEFINE T == {i \in 0..n : kept[i] \in Seq(Trades)}
  <2>1. 0 \in T
    <3>1. <<>> \in Seq(Trades)
      BY EmptySeq
    <3>2. 0 \in 0..n
      BY <1>1
    <3> QED BY <1>6, <3>1, <3>2
  <2>2. ASSUME NEW k \in 1..n, k - 1 \in T PROVE k \in T
    <3>1. kept[k - 1] \in Seq(Trades) /\ trades[k] \in Trades
      BY <1>1, <2>2
    <3>2. Append(kept[k - 1], trades[k]) \in Seq(Trades)
      BY <3>1, AppendProperties
    <3>3. k \in 0..n
      BY <1>1
    <3> QED BY <1>6, <3>1, <3>2, <3>3
  <2> HIDE DEF T
  <2>3. 0..n \subseteq T
    BY <1>1, <2>1, <2>2, UpTo
  <2> QED BY <2>3 DEF T
<1> QED BY <1>6, <1>7

-----------------------------------------------------------------------------
(* Chunks, filtered one by one and put together.                           *)

\* Quotients, as the cut into chunks needs them.
LEMMA Quotient ==
    ASSUME NEW a \in Nat, NEW c \in Nat, c > 0
    PROVE  LET q == a \div c IN q \in Nat /\ q * c <= a /\ a < q * c + c
<1>1. a \div c \in Nat
  OBVIOUS
<1>2. c * (a \div c) <= a
  OBVIOUS
<1>3. a < c * (a \div c) + c
  OBVIOUS
<1>4. c * (a \div c) = (a \div c) * c
  BY <1>1
<1> QED BY <1>1, <1>2, <1>3, <1>4

\* A sequence is its first element and the rest.
LEMMA HeadAndTail ==
    ASSUME NEW S, NEW s \in Seq(S), s # <<>>
    PROVE  s = <<Head(s)>> \o Tail(s)
<1>1. Len(s) \in Nat \ {0}
  BY EmptySeq
<1>2. 1 \in 1..Len(s) /\ Len(s) \in 1..Len(s)
  BY <1>1
<1>3. SubSeq(s, 1, Len(s)) = <<s[1]>> \o SubSeq(s, 2, Len(s))
  BY <1>2, SubSeqRecursiveFirst
<1> QED BY <1>3, SubSeqFull, TailIsSubSeq

\* Each chunk holds row 0 and the trades from the end of the one before to its own.
LEMMA ChunksOK ==
    ASSUME NEW trades \in Seq(Trades), trades # <<>>
    PROVE  LET n == Len(Chunks(trades))
           IN  /\ n \in Nat /\ n > 0 /\ DOMAIN Chunks(trades) = 1..n
               /\ \E ends \in [0..n -> Nat] :
                    /\ ends[0] = 1 /\ ends[n] = Len(trades)
                    /\ \A i \in 1..n :
                         LET c == Chunks(trades)[i]
                             k == ends[i] - ends[i - 1]
                         IN  /\ k \in Nat /\ ends[i] <= Len(trades) /\ ends[i - 1] >= 1
                             /\ c \in Seq(Trades) /\ Len(c) = k + 1 /\ c[1] = trades[1]
                             /\ \A j \in 1..k : c[j + 1] = trades[ends[i - 1] + j]
<1>1. PICK len : len = Len(trades)
  OBVIOUS
<1>2. len \in Nat /\ len > 0 /\ \A i \in 1..len : trades[i] \in Trades
  BY <1>1, EmptySeq, ElementOfSeq
<1>3. PICK size : size = ChunkSize
  OBVIOUS
<1>4. size \in Nat /\ size > 0
  BY <1>3, TradeFilterAssumption
<1>5. CASE len < 2 * size
  <2>1. Chunks(trades) = <<trades>>
    BY <1>1, <1>3, <1>5 DEF Chunks
  <2>2. PICK n \in Nat : n = 1
    OBVIOUS
  <2>3. Len(Chunks(trades)) = n /\ DOMAIN Chunks(trades) = 1..n /\ Chunks(trades)[n] = trades
    BY <2>1, <2>2
  <2> DEFINE ends == [i \in 0..n |-> IF i = 0 THEN 1 ELSE len]
  <2>4. ends \in [0..n -> Nat] /\ ends[0] = 1 /\ ends[n] = len
    BY <1>2, <2>2
  <2>5. \A i \in 1..n : i = n /\ i - 1 = 0
    BY <2>2
  <2> HIDE DEF ends
  <2>6. ASSUME NEW i \in 1..n
        PROVE  LET c == Chunks(trades)[i]
                   k == ends[i] - ends[i - 1]
               IN  /\ k \in Nat /\ ends[i] <= Len(trades) /\ ends[i - 1] >= 1
                   /\ c \in Seq(Trades) /\ Len(c) = k + 1 /\ c[1] = trades[1]
                   /\ \A j \in 1..k : c[j + 1] = trades[ends[i - 1] + j]
    <3>1. Chunks(trades)[i] = trades /\ ends[i] = len /\ ends[i - 1] = 1
      BY <2>3, <2>4, <2>5
    <3> QED BY <1>1, <1>2, <3>1
  <2>7. n > 0
    BY <2>2
  <2> QED BY <1>1, <2>3, <2>4, <2>6, <2>7
<1>6. CASE ~(len < 2 * size)
  <2>1. len - 2 \in Nat
    BY <1>2, <1>4, <1>6
  <2>2. PICK q \in Nat : q = (len - 2) \div size /\ q * size <= len - 2 /\ len - 2 < q * size + size
    BY <1>4, <2>1, Quotient
  <2>3. PICK n : n = q + 1
    OBVIOUS
  <2> DEFINE end(i) == IF i * size + 1 < len THEN i * size + 1 ELSE len
             ends == [i \in 0..n |-> end(i)]
  <2>4. n \in Nat /\ n > 0 /\ n * size = q * size + size
    BY <1>4, <2>2, <2>3
  <2>5. Chunks(trades) = [i \in 1..n |->
           <<trades[1]>> \o SubSeq(trades, (i - 1) * size + 2, end(i))]
    BY <1>1, <1>3, <1>6, <2>2, <2>3 DEF Chunks
  <2>6. Len(Chunks(trades)) = n /\ DOMAIN Chunks(trades) = 1..n
    <3>1. PICK x : x = Chunks(trades)
      OBVIOUS
    <3>2. DOMAIN x = 1..n
      BY <2>5, <3>1
    <3> QED BY <2>4, <2>5, <3>1, <3>2
  <2>7. \A i \in 0..n : i * size \in Nat /\ end(i) \in Nat /\ end(i) <= len
    BY <1>2, <1>4, <2>4
  <2>8. ends \in [0..n -> Nat]
    BY <2>7
  <2>9. ends[0] = 1 /\ ends[n] = len
    <3>1. 0 * size = 0 /\ 1 < len
      BY <1>2, <1>4, <2>1
    <3>2. end(0) = 1
      BY <1>2, <3>1
    <3>3. ~(n * size + 1 < len)
      BY <1>2, <1>4, <2>2, <2>4
    <3> QED BY <2>4, <3>2, <3>3
  <2>10. ASSUME NEW i \in 1..n
         PROVE  /\ ends[i - 1] = (i - 1) * size + 1 /\ ends[i] = end(i)
                /\ (i - 1) * size \in Nat /\ (i - 1) * size + 1 <= end(i) /\ end(i) <= len
    <3>1. i - 1 \in 0..n /\ i - 1 <= q /\ i \in 0..n /\ i - 1 \in Nat
      BY <2>2, <2>3
    <3>2. (i - 1) * size <= q * size
      <4>1. PICK d \in Nat : q = (i - 1) + d
        <5>1. q - (i - 1) \in Nat /\ q = (i - 1) + (q - (i - 1))
          BY <2>2, <3>1
        <5> QED BY <5>1
      <4>2. q * size = (i - 1) * size + d * size /\ d * size >= 0
        BY <1>4, <3>1, <4>1
      <4>3. (i - 1) * size \in Int /\ d * size \in Int
        BY <1>4, <3>1, <4>1
      <4> QED BY <4>2, <4>3
    <3>3. i * size = (i - 1) * size + size
      BY <1>4, <3>1
    <3>4. PICK p \in Nat : p = (i - 1) * size
      BY <1>4, <3>1
    <3>5. p + 1 < len
      <4>1. q * size \in Int
        BY <1>4, <2>2
      <4> QED BY <1>2, <2>2, <3>2, <3>4, <4>1
    <3>6. end(i - 1) = p + 1
      BY <3>4, <3>5
    <3>7. p + 1 <= end(i) /\ end(i) <= len
      BY <1>2, <1>4, <3>3, <3>4, <3>5
    <3>8. ends[i - 1] = end(i - 1) /\ ends[i] = end(i)
      BY <3>1
    <3> HIDE DEF end, ends
    <3> QED BY <3>4, <3>6, <3>7, <3>8
  <2>11. ASSUME NEW i \in 1..n
         PROVE  LET c == Chunks(trades)[i]
                    k == ends[i] - ends[i - 1]
                IN  /\ k \in Nat /\ ends[i] <= Len(trades) /\ ends[i - 1] >= 1
                    /\ c \in Seq(Trades) /\ Len(c) = k + 1 /\ c[1] = trades[1]
                    /\ \A j \in 1..k : c[j + 1] = trades[ends[i - 1] + j]
    <3>1. PICK p \in Nat : p = (i - 1) * size
      BY <2>10
    <3>2. PICK e \in Nat : e = end(i)
      BY <2>7
    <3>3. p + 1 <= e /\ e <= len /\ ends[i - 1] = p + 1 /\ ends[i] = e
      BY <2>10, <3>1, <3>2
    <3>4. PICK c : c = Chunks(trades)[i]
      OBVIOUS
    <3>5. c = <<trades[1]>> \o SubSeq(trades, p + 2, e)
      <4> HIDE DEF end, ends
      <4> QED BY <2>5, <3>1, <3>2, <3>4
    <3>6. PICK t : t = SubSeq(trades, p + 2, e)
      OBVIOUS
    <3>7. t \in Seq(Trades) /\ Len(t) = e - p - 1 /\ \A j \in 1..e - p - 1 : t[j] = trades[p + 1 + j]
      <4>1. \A j \in p + 2..e : trades[j] \in Trades
        BY <1>2, <3>3
      <4>2. /\ t \in Seq(Trades) /\ Len(t) = (IF p + 2 <= e THEN e - (p + 2) + 1 ELSE 0)
            /\ \A j \in 1..e - (p + 2) + 1 : t[j] = trades[(p + 2) + j - 1]
        BY <3>6, <4>1, SubSeqProperties
      <4>3. e - (p + 2) + 1 = e - p - 1 /\ \A j \in 1..e - p - 1 : (p + 2) + j - 1 = p + 1 + j
        OBVIOUS
      <4> QED BY <3>3, <4>2, <4>3
    <3>8. <<trades[1]>> \in Seq(Trades) /\ Len(<<trades[1]>>) = 1
      BY <1>2
    <3>9. /\ c \in Seq(Trades) /\ Len(c) = 1 + Len(t)
          /\ \A j \in 1..1 + Len(t) : c[j] = IF j <= 1 THEN <<trades[1]>>[j] ELSE t[j - 1]
      BY <3>5, <3>6, <3>7, <3>8, ConcatProperties
    <3>10. c[1] = trades[1] /\ \A j \in 1..e - p - 1 : c[j + 1] = trades[p + 1 + j]
      BY <3>3, <3>7, <3>9
    <3> HIDE DEF ends
    <3> QED BY <1>1, <3>3, <3>4, <3>7, <3>9, <3>10
  <2> HIDE DEF ends
  <2> QED BY <1>1, <2>4, <2>6, <2>8, <2>9, <2>11
<1> QED BY <1>5, <1>6

\* One more trade, for the list and for the chunk.
LEMMA FilterStep ==
    ASSUME NEW S, NEW t \in S, NEW low \in Seq(S), NEW m \in Seq(S), m # <<>>, NEW pass
    PROVE  LET next(s) == IF pass THEN Append(s, t) ELSE s
           IN  /\ next(m) # <<>> /\ Head(next(m)) = Head(m)
               /\ next(low \o Tail(m)) = low \o Tail(next(m))
<1>1. Append(m, t) # <<>> /\ Head(Append(m, t)) = Head(m) /\ Tail(Append(m, t)) = Append(Tail(m), t)
  BY HeadTailAppend, AppendProperties
<1>2. Tail(m) \in Seq(S)
  BY HeadTailProperties
<1>3. low \o Tail(m) \in Seq(S) /\ <<t>> \in Seq(S)
  BY <1>2, ConcatProperties
<1>4. (low \o Tail(m)) \o <<t>> = low \o (Tail(m) \o <<t>>)
  BY <1>2, <1>3, ConcatAssociative
<1>5. Append(low \o Tail(m), t) = low \o Append(Tail(m), t)
  BY <1>2, <1>3, <1>4, AppendIsConcat
<1> QED BY <1>1, <1>5

\* The filter over a chunk gives row 0 and what passes between the ends of the chunk.
LEMMA ChunkFiltered ==
    ASSUME NEW f, NEW trades \in Seq(Trades), NEW c \in Seq(Trades),
           NEW low \in 1..Len(trades), NEW k \in Nat, low + k <= Len(trades),
           Len(c) = k + 1, c[1] = trades[1], Passes(f, trades[1]),
           \A j \in 1..k : c[j + 1] = trades[low + j]
    PROVE  LET kept == FilteredUpTo(f, trades)
               mine == Filtered(f, c)
           IN  /\ mine \in Seq(Trades) /\ mine # <<>> /\ Head(mine) = trades[1]
               /\ kept[low + k] = kept[low] \o Tail(mine)
<1>1. Len(trades) \in Nat /\ trades[1] \in Trades
  BY LenProperties, ElementOfSeq
<1>2. PICK kept : kept = FilteredUpTo(f, trades)
  OBVIOUS
<1>3. PICK mine : mine = FilteredUpTo(f, c)
  OBVIOUS
<1>4. /\ \A i \in 1..Len(trades) :
            kept[i] = IF Passes(f, trades[i]) THEN Append(kept[i - 1], trades[i]) ELSE kept[i - 1]
      /\ \A i \in 0..Len(trades) : kept[i] \in Seq(Trades)
  BY <1>2, FilteredEquations
<1>5. /\ mine[0] = <<>>
      /\ \A i \in 1..k + 1 : mine[i] = IF Passes(f, c[i]) THEN Append(mine[i - 1], c[i]) ELSE mine[i - 1]
      /\ \A i \in 0..k + 1 : mine[i] \in Seq(Trades)
  BY <1>3, FilteredEquations
<1> DEFINE T == {j \in 0..k : /\ mine[j + 1] # <<>> /\ Head(mine[j + 1]) = trades[1]
                              /\ kept[low + j] = kept[low] \o Tail(mine[j + 1])}
<1>6. 0 \in T
  <2>1. mine[1] = Append(<<>>, trades[1])
    <3>1. 1 \in 1..k + 1 /\ 1 - 1 = 0
      OBVIOUS
    <3> QED BY <1>5, <3>1
  <2>2. <<>> \in Seq(Trades)
    BY EmptySeq
  <2>3. mine[1] # <<>> /\ Head(mine[1]) = trades[1] /\ Tail(mine[1]) = <<>>
    BY <1>1, <2>1, <2>2, HeadTailAppend, AppendProperties
  <2>4. kept[low] \in Seq(Trades)
    BY <1>1, <1>4
  <2>5. kept[low] \o <<>> = kept[low]
    BY <2>4, ConcatEmptySeq
  <2>6. 0 \in 0..k /\ low + 0 = low /\ 0 + 1 = 1
    OBVIOUS
  <2> QED BY <2>3, <2>5, <2>6
<1>7. ASSUME NEW j \in 1..k, j - 1 \in T PROVE j \in T
  <2>1. /\ mine[j] # <<>> /\ Head(mine[j]) = trades[1]
        /\ kept[low + j - 1] = kept[low] \o Tail(mine[j])
    <3>1. (j - 1) + 1 = j /\ low + (j - 1) = low + j - 1
      OBVIOUS
    <3> QED BY <1>7, <3>1
  <2>2. PICK t : t = trades[low + j]
    OBVIOUS
  <2>3. t \in Trades /\ c[j + 1] = t /\ low + j \in 1..Len(trades) /\ j + 1 \in 1..k + 1
    BY <1>1, <2>2, ElementOfSeq
  <2>4. kept[low + j] = IF Passes(f, t) THEN Append(kept[low + j - 1], t) ELSE kept[low + j - 1]
    BY <1>4, <2>2, <2>3
  <2>5. mine[j + 1] = IF Passes(f, t) THEN Append(mine[j], t) ELSE mine[j]
    <3>1. (j + 1) - 1 = j
      OBVIOUS
    <3> QED BY <1>5, <2>3, <3>1
  <2>6. mine[j] \in Seq(Trades) /\ kept[low] \in Seq(Trades)
    <3>1. j \in 0..k + 1 /\ low \in 0..Len(trades)
      BY <1>1
    <3> QED BY <1>4, <1>5, <3>1
  <2>7. /\ mine[j + 1] # <<>> /\ Head(mine[j + 1]) = Head(mine[j])
        /\ kept[low + j] = kept[low] \o Tail(mine[j + 1])
    <3>1. PICK a, b, low1, a2, b2 :
             /\ a = mine[j] /\ b = kept[low + j - 1] /\ low1 = kept[low]
             /\ a2 = mine[j + 1] /\ b2 = kept[low + j]
      OBVIOUS
    <3>2. /\ a \in Seq(Trades) /\ low1 \in Seq(Trades) /\ a # <<>> /\ b = low1 \o Tail(a)
          /\ a2 = (IF Passes(f, t) THEN Append(a, t) ELSE a)
          /\ b2 = (IF Passes(f, t) THEN Append(b, t) ELSE b)
      BY <2>1, <2>4, <2>5, <2>6, <3>1
    <3>3. t \in Trades
      BY <2>3
    <3>4. a2 # <<>> /\ Head(a2) = Head(a) /\ b2 = low1 \o Tail(a2)
      BY <3>2, <3>3, FilterStep
    <3> QED BY <3>1, <3>4
  <2>8. j \in 0..k
    OBVIOUS
  <2> QED BY <2>1, <2>7, <2>8
<1>8. k \in T
  <2> HIDE DEF T
  <2>1. 0..k \subseteq T
    BY <1>6, <1>7, UpTo
  <2> QED BY <2>1
<1>9. Filtered(f, c) = mine[k + 1]
  BY <1>3 DEF Filtered
<1>10. k + 1 \in 0..k + 1
  OBVIOUS
<1> QED BY <1>2, <1>5, <1>8, <1>9, <1>10

\* The chunks joined up to each of them.
LEMMA JoinedEquations ==
    ASSUME NEW chunks, Len(chunks) \in Nat,
           \A i \in 1..Len(chunks) : ChunkAt(chunks, i).trades \in Seq(Trades)
                                     /\ ChunkAt(chunks, i).trades # <<>>
    PROVE  LET joined == Joined(chunks)
           IN  /\ \A i \in 0..Len(chunks) : joined[i] = IF i = 0 THEN <<>>
                     ELSE IF i = 1 THEN ChunkAt(chunks, 1).trades
                     ELSE joined[i - 1] \o Tail(ChunkAt(chunks, i).trades)
               /\ \A i \in 0..Len(chunks) : joined[i] \in Seq(Trades)
<1> DEFINE joined == Joined(chunks)
           n == Len(chunks)
           D == Seq(Trades)
           At(i) == ChunkAt(chunks, i).trades
           Is(g) == g = [i \in 0..n |->
                           IF i = 0 THEN <<>> ELSE IF i = 1 THEN At(1) ELSE g[i - 1] \o Tail(At(i))]
           F == [x \in (0..n) \X D |->
                   IF x[1] = 0 THEN <<>> ELSE IF x[1] = 1 THEN At(1) ELSE x[2] \o Tail(At(x[1]))]
<1>1. n \in Nat /\ <<>> \in D /\ \A i \in 1..n : At(i) \in D /\ Tail(At(i)) \in D
  <2>1. ASSUME NEW i \in 1..n PROVE At(i) \in D /\ Tail(At(i)) \in D
    <3>1. At(i) \in Seq(Trades) /\ At(i) # <<>>
      OBVIOUS
    <3> HIDE DEF At
    <3> QED BY <3>1, HeadTailProperties
  <2> QED BY <2>1, EmptySeq
<1>2. F \in [(0..n) \X D -> D]
  <2>1. ASSUME NEW i \in 0..n, NEW s \in D PROVE F[<<i, s>>] \in D
    <3>1. i \notin {0, 1} => s \o Tail(At(i)) \in D
      <4> HIDE DEF At
      <4>1. i \notin {0, 1} => i \in 1..n
        BY <1>1
      <4> QED BY <1>1, <4>1, ConcatProperties
    <3>2. i = 1 => At(1) \in D
      BY <1>1
    <3> QED BY <1>1, <3>1, <3>2
  <2>2. F = [x \in (0..n) \X D |-> F[x]]
    OBVIOUS
  <2> HIDE DEF F
  <2>3. \A x \in (0..n) \X D : F[x] \in D
    BY <2>1
  <2> QED BY <2>2, <2>3
<1>3. PICK g \in [0..n -> D] : Follows(g, 0, n, <<>>, F)
  <2> HIDE DEF F, D
  <2> QED BY <1>1, <1>2, FollowsExists
<1>4. \A i \in 0..n : g[i] \in D /\ g[i] = IF i = 0 THEN <<>> ELSE F[<<i, g[i - 1]>>]
  <2> HIDE DEF F, D
  <2> QED BY <1>1, <1>3, FollowsAt
<1>5. Is(g)
  <2>1. ASSUME NEW i \in 0..n, i # 0
        PROVE  F[<<i, g[i - 1]>>] = IF i = 1 THEN At(1) ELSE g[i - 1] \o Tail(At(i))
    <3>1. i - 1 \in 0..n
      BY <1>1, <2>1
    <3>2. <<i, g[i - 1]>> \in (0..n) \X D
      <4> HIDE DEF F, D
      <4> QED BY <1>4, <3>1
    <3> QED BY <2>1, <3>2
  <2>2. g = [i \in 0..n |-> g[i]]
    BY <1>3
  <2> HIDE DEF F, D
  <2> QED BY <1>4, <2>1, <2>2
<1>6. Is(joined)
  <2>1. joined = CHOOSE h : Is(h)
    BY DEF Joined
  <2> HIDE DEF Is, joined
  <2> QED BY <1>5, <2>1
<1>7. \A i \in 0..n : joined[i] = IF i = 0 THEN <<>> ELSE IF i = 1 THEN At(1)
                                  ELSE joined[i - 1] \o Tail(At(i))
  <2> HIDE DEF joined
  <2> QED BY <1>6, Zenon
<1>8. 0..n \subseteq {i \in 0..n : joined[i] \in Seq(Trades)}
  <2> HIDE DEF joined
  <2> DEFINE T == {i \in 0..n : joined[i] \in Seq(Trades)}
  <2>1. 0 \in T
    <3>1. 0 \in 0..n
      BY <1>1
    <3> QED BY <1>1, <1>7, <3>1
  <2>2. ASSUME NEW k \in 1..n, k - 1 \in T PROVE k \in T
    <3>1. joined[k - 1] \in Seq(Trades) /\ k \in 0..n /\ k # 0
      BY <1>1, <2>2
    <3>2. joined[k - 1] \o Tail(At(k)) \in Seq(Trades)
      <4> HIDE DEF At
      <4> QED BY <1>1, <3>1, ConcatProperties
    <3>3. At(1) \in Seq(Trades)
      BY <1>1
    <3> HIDE DEF At
    <3> QED BY <1>7, <3>1, <3>2, <3>3
  <2> HIDE DEF T
  <2>3. 0..n \subseteq T
    BY <1>1, <2>1, <2>2, UpTo
  <2> QED BY <2>3 DEF T
<1> QED BY <1>7, <1>8

\* Chunks filtered one by one, whatever order they come in, make up the filtered
\* list.
LEMMA CombinedFiltered ==
    ASSUME NEW f, NEW trades \in Seq(Trades), trades # <<>>, IsRowZero(trades[1]),
           NEW chunks, Len(chunks) = Len(Chunks(trades)),
           \A i \in 1..Len(chunks) : ChunkAt(chunks, i).trades = Filtered(f, Chunks(trades)[i])
    PROVE  Combined(chunks) = Filtered(f, trades)
<1> DEFINE n == Len(Chunks(trades))
<1>2. PICK ends \in [0..n -> Nat] :
         /\ ends[0] = 1 /\ ends[n] = Len(trades)
         /\ \A i \in 1..n :
              LET c == Chunks(trades)[i]
                  k == ends[i] - ends[i - 1]
              IN  /\ k \in Nat /\ ends[i] <= Len(trades) /\ ends[i - 1] >= 1
                  /\ c \in Seq(Trades) /\ Len(c) = k + 1 /\ c[1] = trades[1]
                  /\ \A j \in 1..k : c[j + 1] = trades[ends[i - 1] + j]
  BY ChunksOK
<1>1. n \in Nat /\ n = Len(chunks) /\ n > 0
  BY ChunksOK
<1> HIDE DEF n
<1>3. Passes(f, trades[1])
  BY DEF Passes
<1>4. PICK kept : kept = FilteredUpTo(f, trades)
  OBVIOUS
<1>5. Len(trades) \in Nat /\ Len(trades) > 0 /\ trades[1] \in Trades
  BY EmptySeq, ElementOfSeq
<1>6. ASSUME NEW i \in 1..n
      PROVE  /\ ChunkAt(chunks, i).trades \in Seq(Trades) /\ ChunkAt(chunks, i).trades # <<>>
             /\ Head(ChunkAt(chunks, i).trades) = trades[1]
             /\ kept[ends[i]] = kept[ends[i - 1]] \o Tail(ChunkAt(chunks, i).trades)
             /\ ends[i - 1] \in 1..Len(trades)
  <2>1. PICK c : c = Chunks(trades)[i]
    OBVIOUS
  <2>2. PICK low, k : low = ends[i - 1] /\ k = ends[i] - ends[i - 1]
    OBVIOUS
  <2>3. i - 1 \in 0..n /\ i \in 0..n
    BY <1>1
  <2>4. low \in Nat /\ ends[i] \in Nat
    BY <1>2, <2>2, <2>3
  <2>5. /\ k \in Nat /\ ends[i] <= Len(trades) /\ low >= 1
        /\ c \in Seq(Trades) /\ Len(c) = k + 1 /\ c[1] = trades[1]
        /\ \A j \in 1..k : c[j + 1] = trades[low + j]
    BY <1>2, <2>1, <2>2
  <2>6. low \in 1..Len(trades) /\ low + k = ends[i] /\ low + k <= Len(trades)
    <3>1. PICK e : e = ends[i]
      OBVIOUS
    <3>2. k = e - low /\ e \in Nat /\ low \in Nat /\ k \in Nat /\ e <= Len(trades) /\ low >= 1
      BY <2>2, <2>4, <2>5, <3>1
    <3> QED BY <1>5, <3>1, <3>2
  <2>7. PICK mine : mine = Filtered(f, c)
    OBVIOUS
  <2>8. /\ mine \in Seq(Trades) /\ mine # <<>> /\ Head(mine) = trades[1]
        /\ kept[low + k] = kept[low] \o Tail(mine)
    BY <1>3, <1>4, <2>5, <2>6, <2>7, ChunkFiltered
  <2>9. ChunkAt(chunks, i).trades = mine
    BY <1>1, <2>1, <2>7
  <2> QED BY <2>2, <2>6, <2>8, <2>9
<1>7. PICK joined : joined = Joined(chunks)
  OBVIOUS
<1>8. \A i \in 0..n : joined[i] = IF i = 0 THEN <<>>
                     ELSE IF i = 1 THEN ChunkAt(chunks, 1).trades
                     ELSE joined[i - 1] \o Tail(ChunkAt(chunks, i).trades)
  BY <1>1, <1>6, <1>7, JoinedEquations
<1> DEFINE T == {j \in 0..n : j # 0 => joined[j] = kept[ends[j]]}
<1>9. 0 \in T
  BY <1>1
<1>10. ASSUME NEW j \in 1..n, j - 1 \in T PROVE j \in T
  <2>1. PICK a : a = ChunkAt(chunks, j).trades
    OBVIOUS
  <2>2. /\ a \in Seq(Trades) /\ a # <<>> /\ Head(a) = trades[1]
        /\ kept[ends[j]] = kept[ends[j - 1]] \o Tail(a)
    BY <1>6, <2>1
  <2>3. j \in 0..n /\ j # 0 /\ j - 1 \in 0..n
    BY <1>1
  <2>4. CASE j = 1
    <3>1. joined[j] = a
      BY <1>8, <2>1, <2>3, <2>4
    <3>2. ends[j - 1] = 1
      BY <1>2, <2>4
    <3>3. kept[1] = <<trades[1]>>
      <4>1. kept[1] = Append(kept[0], trades[1]) /\ kept[0] = <<>>
        <5>1. 1 \in 1..Len(trades) /\ 1 - 1 = 0
          BY <1>5
        <5> QED BY <1>3, <1>4, <5>1, FilteredEquations
      <4> QED BY <4>1
    <3>4. a = <<trades[1]>> \o Tail(a)
      BY <2>2, HeadAndTail
    <3> QED BY <2>2, <2>3, <3>1, <3>2, <3>3, <3>4
  <2>5. CASE j # 1
    <3>1. j - 1 # 0
      BY <2>5
    <3>2. joined[j - 1] = kept[ends[j - 1]]
      BY <1>10, <3>1
    <3>3. joined[j] = joined[j - 1] \o Tail(a)
      BY <1>8, <2>1, <2>3, <2>5
    <3> QED BY <2>2, <2>3, <3>2, <3>3
  <2> QED BY <2>4, <2>5
<1>11. n \in T
  <2> HIDE DEF T
  <2>1. 0..n \subseteq T
    BY <1>1, <1>9, <1>10, UpTo
  <2>2. n \in 0..n
    BY <1>1
  <2> QED BY <2>1, <2>2
<1>12. joined[n] = kept[Len(trades)]
  BY <1>1, <1>2, <1>11
<1> QED BY <1>1, <1>4, <1>7, <1>12 DEF Combined, Filtered

\* A filter that everything passes keeps everything.
LEMMA AllPass ==
    ASSUME NEW f, NEW trades \in Seq(Trades), \A i \in 1..Len(trades) : Passes(f, trades[i])
    PROVE  Filtered(f, trades) = trades
<1>1. PICK n \in Nat : n = Len(trades)
  BY LenProperties
<1>2. PICK kept : kept = FilteredUpTo(f, trades)
  OBVIOUS
<1>3. /\ kept[0] = <<>>
      /\ \A i \in 1..n : kept[i] = Append(kept[i - 1], trades[i])
      /\ \A i \in 0..n : kept[i] \in Seq(Trades)
  BY <1>1, <1>2, FilteredEquations
<1> DEFINE T == {j \in 0..n : Len(kept[j]) = j /\ \A i \in 1..j : kept[j][i] = trades[i]}
<1>4. 0 \in T
  <2>1. Len(kept[0]) = 0 /\ 1..0 = {}
    BY <1>3
  <2> QED BY <2>1
<1>5. ASSUME NEW j \in 1..n, j - 1 \in T PROVE j \in T
  <2>1. PICK a, t : a = kept[j - 1] /\ t = trades[j]
    OBVIOUS
  <2>2. a \in Seq(Trades) /\ t \in Trades /\ kept[j] = Append(a, t)
    <3>1. j - 1 \in 0..n
      BY <1>1
    <3> QED BY <1>1, <1>3, <2>1, <3>1, ElementOfSeq
  <2>3. Len(a) = j - 1 /\ \A i \in 1..j - 1 : a[i] = trades[i]
    BY <1>5, <2>1
  <2>4. /\ Len(kept[j]) = j /\ \A i \in 1..j - 1 : kept[j][i] = a[i]
        /\ kept[j][j] = t
    <3>1. /\ Len(Append(a, t)) = Len(a) + 1 /\ \A i \in 1..Len(a) : Append(a, t)[i] = a[i]
          /\ Append(a, t)[Len(a) + 1] = t
      BY <2>2, AppendProperties
    <3> QED BY <2>2, <2>3, <3>1
  <2>5. \A i \in 1..j : kept[j][i] = trades[i]
    BY <2>1, <2>3, <2>4
  <2>6. j \in 0..n
    BY <1>1
  <2> QED BY <2>4, <2>5, <2>6
<1>6. n \in T
  <2> HIDE DEF T
  <2>1. 0..n \subseteq T
    BY <1>4, <1>5, UpTo
  <2>2. n \in 0..n
    BY <1>1
  <2> QED BY <2>1, <2>2
<1>7. kept[n] \in Seq(Trades) /\ Len(kept[n]) = n /\ \A i \in 1..n : kept[n][i] = trades[i]
  BY <1>1, <1>3, <1>6
<1>8. kept[n] = trades
  BY <1>1, <1>7, SeqEqual
<1> QED BY <1>1, <1>2, <1>8 DEF Filtered

-----------------------------------------------------------------------------
(* The second inductive invariant: a task, and what it delivers.           *)

\* Chunk x is one of those, c, that task id was cut into.
IsPiece(x, id, c) ==
    /\ x.task = id /\ x.index \in 1..Len(c) /\ x.total = Len(c) /\ x.trades = c[x.index]

\* How many of the chunks c have left the queue q.
Handed(c, q) == Len(c) - Len(q)

\* The chunks that wait, q, are the last of the task, in order; each of the others is at
\* one worker, in j, or filtered, in r; and none is lost without a fault, of m.
Accounted(id, c, j, q, r, m) ==
    /\ Len(q) <= Len(c)
    /\ \A i \in 1..Len(q) : IsPiece(q[i], id, c) /\ q[i].index = Handed(c, q) + i
    /\ \A w \in Workers : j[w].task = id => IsPiece(j[w], id, c) /\ j[w].index <= Handed(c, q)
    /\ \A i \in 1..Len(r) : r[i].index \in 1..Handed(c, q)
    /\ \A v, w \in Workers : j[v].task = id /\ j[w].task = id /\ j[v].index = j[w].index => v = w
    /\ \A i, l \in 1..Len(r) : r[i].index = r[l].index => i = l
    /\ \A w \in Workers : \A i \in 1..Len(r) : j[w].task = id => j[w].index # r[i].index
    /\ m = 0 => \A h \in 1..Handed(c, q) :
          \/ \E w \in Workers : j[w].task = id /\ j[w].index = h
          \/ \E i \in 1..Len(r) : r[i].index = h

\* All of it is for filter f.
IsFor(f, id, c, j, q, r) ==
    /\ \A w \in Workers : j[w].task = id => j[w].filter = f
    /\ \A i \in 1..Len(q) : q[i].filter = f
    /\ \A i \in 1..Len(r) : r[i].trades = Filtered(f, c[r[i].index])

ResultSet == [index : Nat, trades : Seq(Trades)]

\* Tasks have the numbers of the filters they are for.
NumbersOK ==
    /\ filterSeq \in Nat /\ (active = {} \/ \E id \in 1..filterSeq : active = {id})
    /\ \A w \in Workers : jobs[w].task \in 0..filterSeq
    /\ \A i \in 1..Len(pending) : pending[i].task \in 0..filterSeq
    /\ results \in Seq(ResultSet)

TaskOK == \A id \in active :
    /\ input.trades \in Seq(Trades) /\ input.trades # <<>>
    /\ Accounted(id, Chunks(input.trades), jobs, pending, results, faults)

\* While the views wait for the filter they show, the task is the one for it; while
\* they do not, there is none.
CurrentOK ==
    /\ filterSeq \in active => isFiltering
    /\ ~changed /\ isFiltering =>
         /\ active = {filterSeq} /\ Active(filter) /\ allTrades # <<>>
         /\ input.trades = allTrades /\ input.recalculate = filter.recalculate
         /\ IsFor(filter, filterSeq, Chunks(allTrades), jobs, pending, results)

\* The list a filter shows.
Shown == IF filter.recalculate /\ Active(filter) THEN Recalculated(Kept, allTrades).trades ELSE Kept

\* What is shown once the views do not wait, and whether a ruin is told.
ShownOK ==
    Settled =>
        \/ /\ filteredTrades = Shown
           /\ filter.recalculate /\ Active(filter) /\ allTrades # <<>> =>
                 hasBankruptcy = Recalculated(Kept, allTrades).bankrupt
        \/ faults > 0 /\ filteredTrades = <<>>

TInv == NumbersOK /\ TaskOK /\ CurrentOK /\ ShownOK

-----------------------------------------------------------------------------
(* Chunks at the workers.                                                  *)

\* As many numbers as there are places, all different, are all of them.
LEMMA AllPlaces ==
    ASSUME NEW S, IsFiniteSet(S), NEW n \in Nat, Cardinality(S) = n, NEW g \in [S -> 1..n],
           \A x, y \in S : g[x] = g[y] => x = y
    PROVE  \A h \in 1..n : \E x \in S : g[x] = h
<1>1. g \in Injection(S, 1..n)
  BY DEF Injection, IsInjective
<1>2. IsFiniteSet(1..n) /\ Cardinality(1..n) = n
  BY FS_Interval
<1>3. g \in Surjection(S, 1..n)
  BY <1>1, <1>2, FS_Injection
<1> QED BY <1>3 DEF Surjection

\* The free workers have the places from 1 on, one each.
LEMMA RankPlaces ==
    /\ \A v, w \in Idle : Rank(v) = Rank(w) => v = w
    /\ \A h \in 1..Cardinality(Idle) : \E w \in Idle : Rank(w) = h
<1>1. Idle \subseteq Nat /\ IsFiniteSet(Idle) /\ Cardinality(Idle) \in Nat
  BY IdleFinite
<1>2. ASSUME NEW v \in Idle, NEW w \in Idle, v < w PROVE Rank(v) < Rank(w)
  <2>1. PICK A : A = {x \in Idle : x <= v}
    OBVIOUS
  <2>2. PICK B : B = {x \in Idle : x <= w}
    OBVIOUS
  <2>3. v \in Nat /\ w \in Nat
    BY <1>1
  <2>10. \A x \in Idle : x <= v => x <= w /\ x # w
    BY <1>1, <1>2, <2>3
  <2>11. w <= w
    BY <2>3
  <2>12. \A x \in A : x \in B \ {w}
    BY <2>1, <2>2, <2>10
  <2>4. A \in SUBSET (B \ {w}) /\ w \in B /\ B \in SUBSET Idle
    BY <2>2, <2>11, <2>12, Zenon
  <2>5. IsFiniteSet(B) /\ Cardinality(B) \in Nat
    BY <1>1, <2>4, FS_Subset, FS_CardinalityType
  <2>6. IsFiniteSet(B \ {w}) /\ Cardinality(B \ {w}) = Cardinality(B) - 1
    BY <2>4, <2>5, FS_RemoveElement
  <2>7. Cardinality(A) <= Cardinality(B \ {w}) /\ IsFiniteSet(A)
    BY <2>4, <2>6, FS_Subset
  <2>8. Cardinality(A) \in Nat
    BY <2>7, FS_CardinalityType
  <2>9. Rank(v) = Cardinality(A) /\ Rank(w) = Cardinality(B)
    BY <2>1, <2>2 DEF Rank
  <2> QED BY <2>5, <2>6, <2>7, <2>8, <2>9
<1>3. ASSUME NEW v \in Idle, NEW w \in Idle, Rank(v) = Rank(w) PROVE v = w
  <2>1. v \in Nat /\ w \in Nat /\ Rank(v) \in Nat /\ Rank(w) \in Nat
    BY <1>1, RankOK
  <2>2. ~(v < w) /\ ~(w < v)
    BY <1>2, <1>3, <2>1
  <2> QED BY <2>1, <2>2
<1>4. ASSUME NEW h \in 1..Cardinality(Idle) PROVE \E w \in Idle : Rank(w) = h
  <2>1. PICK g : g = [w \in Idle |-> Rank(w)]
    OBVIOUS
  <2>5. PICK n \in Nat : n = Cardinality(Idle)
    BY <1>1
  <2>2. g \in [Idle -> 1..n] /\ \A w \in Idle : g[w] = Rank(w)
    BY <2>1, <2>5, RankOK
  <2>3. \A x, y \in Idle : g[x] = g[y] => x = y
    BY <1>3, <2>2
  <2>6. PICK S : S = Idle
    OBVIOUS
  <2>8. IsFiniteSet(S) /\ Cardinality(S) = n
    BY <1>1, <2>5, <2>6
  <2>9. g \in [S -> 1..n] /\ \A x, y \in S : g[x] = g[y] => x = y
    BY <2>2, <2>3, <2>6
  <2>7. \A l \in 1..n : \E x \in S : g[x] = l
    BY <2>8, <2>9, AllPlaces
  <2>4. \E w \in Idle : g[w] = h
    BY <2>5, <2>6, <2>7
  <2> QED BY <2>2, <2>4
<1> QED BY <1>3, <1>4

\* Worker w is done with a chunk of another task, or breaks.
LEMMA Freed ==
    ASSUME NEW id, NEW c, NEW j, NEW q, NEW r, NEW m, NEW w \in Workers, NEW k, NEW n,
           id # 0, Accounted(id, c, j, q, r, m),
           \A v \in Workers : k[v] = IF v = w THEN NoJob ELSE j[v],
           n = 0 => m = 0 /\ j[w].task # id
    PROVE  Accounted(id, c, k, q, r, n)
<1>1. NoJob.task # id
  BY DEF NoJob
<1>2. \A v \in Workers : k[v].task = id => v # w /\ k[v] = j[v]
  BY <1>1
<1>3. ASSUME n = 0, NEW h \in 1..Handed(c, q), NEW v \in Workers, j[v].task = id /\ j[v].index = h
      PROVE  k[v].task = id /\ k[v].index = h
  BY <1>3
<1> QED BY <1>2, <1>3 DEF Accounted

\* The jobs k are the jobs j without that of worker w.
Emptied(k, j, w) == \A v \in Workers : k[v] = IF v = w THEN NoJob ELSE j[v]

\* Worker w has filtered its chunk.
LEMMA Answered ==
    ASSUME NEW id, NEW c, NEW j, NEW q, NEW r \in Seq(ResultSet), NEW m, NEW w \in Workers, NEW k,
           NEW x \in ResultSet, NEW u, u = Append(r, x),
           id # 0, Accounted(id, c, j, q, r, m), j[w].task = id, x.index = j[w].index,
           Len(c) \in Nat, Len(q) \in Nat,
           Emptied(k, j, w)
    PROVE  Accounted(id, c, k, q, u, m)
<1>1. NoJob.task # id
  BY DEF NoJob
<1>2. \A v \in Workers : k[v].task = id => v # w /\ k[v] = j[v]
  BY <1>1 DEF Emptied
<1>3. PICK n \in Nat : n = Len(r)
  BY LenProperties
<1>4. u = Append(r, x)
  OBVIOUS
<1>5. Len(u) = n + 1 /\ u[n + 1] = x /\ \A i \in 1..n : u[i] = r[i]
  BY <1>3, <1>4, AppendProperties
<1>6. j[w].index \in 1..Handed(c, q)
  BY DEF Accounted, IsPiece, Handed
<1>7. \A i \in 1..Len(u) : u[i].index \in 1..Handed(c, q)
  BY <1>3, <1>5, <1>6 DEF Accounted
<1>8. \A i \in 1..n : u[i].index # x.index
  BY <1>3, <1>5 DEF Accounted
<1>9. ASSUME NEW i \in 1..Len(u), NEW l \in 1..Len(u), u[i].index = u[l].index PROVE i = l
  <2>1. i \in 1..n /\ l \in 1..n => i = l
    BY <1>3, <1>5, <1>9 DEF Accounted
  <2>2. i = n + 1 \/ i \in 1..n
    BY <1>5
  <2>3. l = n + 1 \/ l \in 1..n
    BY <1>5
  <2> QED BY <1>5, <1>8, <1>9, <2>1, <2>2, <2>3
<1>10. ASSUME NEW v \in Workers, NEW i \in 1..Len(u), k[v].task = id PROVE k[v].index # u[i].index
  <2>1. v # w /\ k[v] = j[v]
    BY <1>2, <1>10
  <2>2. CASE i \in 1..n
    BY <1>3, <1>5, <1>10, <2>1, <2>2 DEF Accounted
  <2>3. CASE i = n + 1
    BY <1>5, <1>10, <2>1, <2>3 DEF Accounted
  <2> QED BY <1>5, <2>2, <2>3
<1>11. ASSUME m = 0, NEW h \in 1..Handed(c, q)
       PROVE  \/ \E v \in Workers : k[v].task = id /\ k[v].index = h
              \/ \E i \in 1..Len(u) : u[i].index = h
  <2>1. CASE \E i \in 1..Len(r) : r[i].index = h
    <3>1. PICK i \in 1..n : r[i].index = h
      BY <1>3, <2>1
    <3>2. i \in 1..Len(u) /\ u[i].index = h
      BY <1>5, <3>1
    <3> QED BY <3>2
  <2>2. CASE \E v \in Workers : j[v].task = id /\ j[v].index = h
    <3>1. PICK v \in Workers : j[v].task = id /\ j[v].index = h
      BY <2>2
    <3>2. CASE v = w
      <4>1. n + 1 \in 1..Len(u) /\ u[n + 1].index = h
        BY <1>5, <3>1, <3>2
      <4> QED BY <4>1
    <3>3. CASE v # w
      BY <3>1, <3>3 DEF Emptied
    <3> QED BY <3>2, <3>3
  <2> QED BY <1>11, <2>1, <2>2 DEF Accounted
<1>12. \A v \in Workers : k[v].task = id => IsPiece(k[v], id, c) /\ k[v].index <= Handed(c, q)
  BY <1>2 DEF Accounted
<1>13. \A v, z \in Workers : k[v].task = id /\ k[z].task = id /\ k[v].index = k[z].index => v = z
  BY <1>2 DEF Accounted
<1>14. Len(q) <= Len(c) /\ \A i \in 1..Len(q) : IsPiece(q[i], id, c) /\ q[i].index = Handed(c, q) + i
  BY DEF Accounted
<1>15. \A i, l \in 1..Len(u) : u[i].index = u[l].index => i = l
  BY <1>9
<1>16. \A v \in Workers : \A i \in 1..Len(u) : k[v].task = id => k[v].index # u[i].index
  BY <1>10
<1>17. m = 0 => \A h \in 1..Handed(c, q) :
          \/ \E v \in Workers : k[v].task = id /\ k[v].index = h
          \/ \E i \in 1..Len(u) : u[i].index = h
  BY <1>11
<1>18. Accounted(id, c, k, q, u, m)
  BY <1>7, <1>12, <1>13, <1>14, <1>15, <1>16, <1>17, Zenon DEF Accounted
<1> QED BY <1>4, <1>18

\* The first chunk that waits goes to worker m.
LEMMA HandedOver ==
    ASSUME NEW id, NEW c, NEW j, NEW S, NEW q \in Seq(S), NEW r, NEW lost, NEW m \in Workers, NEW k,
           Accounted(id, c, j, q, r, lost), j[m].task # id, q # <<>>, Len(c) \in Nat,
           \A v \in Workers : k[v] = IF v = m THEN Head(q) ELSE j[v]
    PROVE  Accounted(id, c, k, Tail(q), r, lost)
<1>1. PICK n \in Nat : n = Len(q)
  BY LenProperties
<1>2. PICK t : t = Tail(q)
  OBVIOUS
<1>3. n > 0 /\ Len(t) = n - 1 /\ \A i \in 1..n - 1 : t[i] = q[i + 1]
  BY <1>1, <1>2, HeadTailProperties, EmptySeq
<1>4. Head(q) = q[1]
  OBVIOUS
<1>5. PICK h : h = Len(c) - n
  OBVIOUS
<1>6. h \in Nat /\ Handed(c, q) = h /\ Handed(c, t) = h + 1
  BY <1>1, <1>3, <1>5 DEF Accounted, Handed
<1>7. \A i \in 1..n : IsPiece(q[i], id, c) /\ q[i].index = h + i
  BY <1>1, <1>6 DEF Accounted
<1>8. IsPiece(k[m], id, c) /\ k[m].index = h + 1 /\ k[m].task = id
  BY <1>3, <1>4, <1>7 DEF IsPiece
<1>9. \A v \in Workers : v # m => k[v] = j[v]
  OBVIOUS
<1>10. \A v \in Workers : j[v].task = id => v # m /\ IsPiece(j[v], id, c) /\ j[v].index <= h /\ j[v].index \in Nat
  BY <1>6 DEF Accounted, IsPiece
<1>11. \A i \in 1..Len(r) : r[i].index \in 1..h
  BY <1>6 DEF Accounted
<1>12. Len(t) <= Len(c) /\ \A i \in 1..Len(t) : IsPiece(t[i], id, c) /\ t[i].index = h + 1 + i
  <2>1. ASSUME NEW i \in 1..n - 1 PROVE IsPiece(t[i], id, c) /\ t[i].index = h + 1 + i
    <3>1. i + 1 \in 1..n /\ t[i] = q[i + 1]
      BY <1>3
    <3>2. IsPiece(q[i + 1], id, c) /\ q[i + 1].index = h + (i + 1)
      BY <1>7, <3>1
    <3> QED BY <1>6, <3>1, <3>2
  <2>2. Len(t) <= Len(c)
    BY <1>3, <1>5, <1>6
  <2> QED BY <1>3, <2>1, <2>2
<1>13. \A v \in Workers : k[v].task = id => IsPiece(k[v], id, c) /\ k[v].index <= h + 1
  BY <1>6, <1>8, <1>9, <1>10
<1>14. \A i \in 1..Len(r) : r[i].index \in 1..h + 1
  BY <1>6, <1>11
<1>15. ASSUME NEW v \in Workers, NEW z \in Workers, k[v].task = id, k[z].task = id, k[v].index = k[z].index
       PROVE  v = z
  <2>1. v # m => k[v].index <= h /\ k[v].index \in Nat
    BY <1>9, <1>10, <1>15
  <2>2. z # m => k[z].index <= h /\ k[z].index \in Nat
    BY <1>9, <1>10, <1>15
  <2>3. v = m <=> z = m
    BY <1>6, <1>8, <1>15, <2>1, <2>2
  <2>4. v # m /\ z # m => v = z
    BY <1>9, <1>15 DEF Accounted
  <2> QED BY <2>3, <2>4
<1>16. \A i, l \in 1..Len(r) : r[i].index = r[l].index => i = l
  BY DEF Accounted
<1>17. ASSUME NEW v \in Workers, NEW i \in 1..Len(r), k[v].task = id PROVE k[v].index # r[i].index
  <2>1. CASE v = m
    BY <1>6, <1>8, <1>11, <2>1
  <2>2. CASE v # m
    BY <1>9, <1>17, <2>2 DEF Accounted
  <2> QED BY <2>1, <2>2
<1>18. ASSUME lost = 0, NEW l \in 1..h + 1
       PROVE  \/ \E v \in Workers : k[v].task = id /\ k[v].index = l
              \/ \E i \in 1..Len(r) : r[i].index = l
  <2>1. CASE l = h + 1
    BY <1>8, <2>1
  <2>2. CASE l \in 1..h
    <3>1. \/ \E v \in Workers : j[v].task = id /\ j[v].index = l
          \/ \E i \in 1..Len(r) : r[i].index = l
      BY <1>6, <1>18, <2>2 DEF Accounted
    <3> QED BY <1>9, <1>10, <3>1
  <2> QED BY <1>6, <2>1, <2>2
<1>19. \A v, z \in Workers : k[v].task = id /\ k[z].task = id /\ k[v].index = k[z].index => v = z
  BY <1>15
<1>20. \A v \in Workers : \A i \in 1..Len(r) : k[v].task = id => k[v].index # r[i].index
  BY <1>17
<1>21. lost = 0 => \A l \in 1..h + 1 :
          \/ \E v \in Workers : k[v].task = id /\ k[v].index = l
          \/ \E i \in 1..Len(r) : r[i].index = l
  BY <1>18
<1>22. Accounted(id, c, k, t, r, lost)
  <2>1. Handed(c, t) = h + 1
    BY <1>6
  <2>2. \A i \in 1..Len(t) : IsPiece(t[i], id, c) /\ t[i].index = Handed(c, t) + i
    BY <1>12, <2>1
  <2>3. \A v \in Workers : k[v].task = id => IsPiece(k[v], id, c) /\ k[v].index <= Handed(c, t)
    BY <1>13, <2>1
  <2>4. \A i \in 1..Len(r) : r[i].index \in 1..Handed(c, t)
    BY <1>14, <2>1
  <2>5. lost = 0 => \A l \in 1..Handed(c, t) :
          \/ \E v \in Workers : k[v].task = id /\ k[v].index = l
          \/ \E i \in 1..Len(r) : r[i].index = l
    BY <1>21, <2>1
  <2> QED BY <1>12, <1>16, <1>19, <1>20, <2>2, <2>3, <2>4, <2>5, Zenon DEF Accounted
<1> QED BY <1>2, <1>22

\* The chunks of a list are numbered pieces of it.
LEMMA JobsOfOK ==
    ASSUME NEW trades \in Seq(Trades), trades # <<>>, NEW id, NEW f
    PROVE  LET c == Chunks(trades)
               new == JobsOf(id, trades, f)
           IN  /\ Len(c) \in Nat /\ Len(new) = Len(c)
               /\ \A i \in 1..Len(c) : IsPiece(new[i], id, c) /\ new[i].index = i /\ new[i].filter = f
<1>1. PICK c : c = Chunks(trades)
  OBVIOUS
<1>2. PICK n \in Nat : n = Len(c) /\ DOMAIN c = 1..n
  BY <1>1, ChunksOK
<1>3. PICK new : new = JobsOf(id, trades, f)
  OBVIOUS
<1>4. /\ new = [i \in 1..n |-> new[i]]
      /\ \A i \in 1..n : new[i] = [task |-> id, index |-> i, total |-> Len(c), trades |-> c[i], filter |-> f]
  BY <1>1, <1>2, <1>3 DEF JobsOf
<1>5. Len(new) = n
  BY <1>4
<1>6. ASSUME NEW i \in 1..n PROVE IsPiece(new[i], id, c) /\ new[i].index = i /\ new[i].filter = f
  BY <1>2, <1>4 DEF IsPiece
<1> QED BY <1>1, <1>2, <1>3, <1>5, <1>6

\* A task that starts has its first chunks at the free workers and the rest in the queue;
\* what the other workers are at is of another task.
LEMMA StartTaskAccounted ==
    ASSUME QueueOK, NEW trades \in Seq(Trades), trades # <<>>, NEW id, NEW f, StartTask(id, trades, f),
           id # 0, \A w \in Workers : jobs[w].task # id, NEW lost
    PROVE  /\ Accounted(id, Chunks(trades), jobs', pending', results', lost)
           /\ IsFor(f, id, Chunks(trades), jobs', pending', results')
           /\ \A w \in Workers : jobs'[w].task \in {id, jobs[w].task}
           /\ \A i \in 1..Len(pending') : pending'[i].task = id
<1>1. PICK c : c = Chunks(trades)
  OBVIOUS
<1>2. PICK new : new = JobsOf(id, trades, f)
  OBVIOUS
<1>3. PICK n \in Nat : n = Cardinality(Idle)
  BY IdleFinite
<1>4. PICK p \in Nat : p = Len(c) /\ Len(new) = p
  BY <1>1, <1>2, JobsOfOK
<1>5. \A i \in 1..p : IsPiece(new[i], id, c) /\ new[i].index = i /\ new[i].filter = f /\ new[i].task = id
  BY <1>1, <1>2, <1>4, JobsOfOK DEF IsPiece
<1>6. /\ jobs' = [w \in Workers |-> IF w \in Idle /\ Rank(w) <= p THEN new[Rank(w)] ELSE jobs[w]]
      /\ pending' = SubSeq(new, n + 1, p) /\ results' = <<>>
  BY <1>2, <1>3, <1>4 DEF StartTask
<1>7. PICK g : g = [w \in Idle |-> Rank(w)]
  OBVIOUS
<1>8. /\ \A w \in Idle : g[w] \in 1..n /\ w \in Workers
      /\ \A v, w \in Idle : g[v] = g[w] => v = w
      /\ \A h \in 1..n : \E w \in Idle : g[w] = h
  BY <1>3, <1>7, RankOK, RankPlaces DEF Idle
<1>9. PICK j : j = jobs'
  OBVIOUS
<1>10. \A w \in Workers : j[w] = IF w \in Idle /\ g[w] <= p THEN new[g[w]] ELSE jobs[w]
  BY <1>6, <1>7, <1>9
<1>11. PICK q : q = pending'
  OBVIOUS
<1>12. PICK h \in Nat : h <= p /\ h <= n /\ Len(q) = p - h /\ \A i \in 1..p - h : q[i] = new[h + i]
  <2>1. CASE n <= p
    <3>1. \A i \in n + 1..p : new[i] \in {new[l] : l \in 1..p}
      BY <2>1
    <3>2. Len(q) = IF n + 1 <= p THEN p - (n + 1) + 1 ELSE 0
      BY <1>6, <1>11, <3>1, SubSeqProperties
    <3>3. \A i \in 1..p - (n + 1) + 1 : q[i] = new[n + 1 + i - 1]
      BY <1>6, <1>11, <3>1, SubSeqProperties
    <3>4. Len(q) = p - n
      BY <2>1, <3>2
    <3>5. \A i \in 1..p - n : q[i] = new[n + i]
      BY <3>3
    <3> QED BY <2>1, <3>4, <3>5
  <2>2. CASE n > p
    <3>1. q = <<>>
      BY <1>6, <1>11, <2>2
    <3>2. Len(q) = 0
      BY <3>1
    <3> QED BY <2>2, <3>2
  <2> QED BY <2>1, <2>2
<1>13. h = n \/ h = p
  <2>1. CASE n <= p /\ h # n /\ h # p
    <3>1. \A i \in n + 1..p : new[i] \in {new[l] : l \in 1..p}
      BY <2>1
    <3>2. Len(q) = IF n + 1 <= p THEN p - (n + 1) + 1 ELSE 0
      BY <1>6, <1>11, <3>1, SubSeqProperties
    <3> QED BY <1>12, <2>1, <3>2
  <2>2. CASE n > p
    <3>1. q = <<>>
      BY <1>6, <1>11, <2>2
    <3>2. Len(q) = 0
      BY <3>1
    <3> QED BY <1>12, <3>2
  <2> QED BY <2>1, <2>2
<1>14. Handed(c, q) = h
  BY <1>4, <1>12 DEF Handed
<1>15. \A w \in Workers : j[w].task = id => w \in Idle /\ g[w] \in 1..h /\ j[w] = new[g[w]]
  <2>1. ASSUME NEW w \in Workers, j[w].task = id PROVE w \in Idle /\ g[w] <= p /\ j[w] = new[g[w]]
    BY <1>10, <2>1
  <2>2. \A w \in Workers : j[w].task = id => g[w] \in 1..n
    BY <1>8, <2>1
  <2> QED BY <1>13, <2>1, <2>2
<1>16. \A i \in 1..h : i \in 1..p
  BY <1>12
<1>17. Accounted(id, c, j, q, <<>>, lost)
  <2>1. Len(q) <= Len(c)
    BY <1>4, <1>12
  <2>2. ASSUME NEW i \in 1..Len(q) PROVE IsPiece(q[i], id, c) /\ q[i].index = Handed(c, q) + i
    <3>1. h + i \in 1..p /\ q[i] = new[h + i]
      BY <1>12
    <3> QED BY <1>5, <1>14, <3>1
  <2>3. ASSUME NEW w \in Workers, j[w].task = id PROVE IsPiece(j[w], id, c) /\ j[w].index <= Handed(c, q)
    BY <1>5, <1>14, <1>15, <1>16, <2>3
  <2>4. \A v, w \in Workers : j[v].task = id /\ j[w].task = id /\ j[v].index = j[w].index => v = w
    <3>1. \A v \in Workers : j[v].task = id => v \in Idle /\ j[v].index = g[v]
      BY <1>5, <1>15, <1>16
    <3> QED BY <1>8, <3>1
  <2>5. ASSUME NEW l \in 1..Handed(c, q) PROVE \E w \in Workers : j[w].task = id /\ j[w].index = l
    <3>1. PICK w \in Idle : g[w] = l
      BY <1>8, <1>12, <1>14
    <3>2. w \in Workers /\ l \in 1..p /\ j[w] = new[l]
      BY <1>8, <1>10, <1>12, <1>14, <3>1
    <3> QED BY <1>5, <3>2
  <2>6. Len(<<>>) = 0
    OBVIOUS
  <2>7. \A i \in 1..Len(<<>>) : FALSE
    BY <2>6
  <2> QED BY <2>1, <2>2, <2>3, <2>4, <2>5, <2>7, Zenon DEF Accounted
<1>18. IsFor(f, id, c, j, q, <<>>)
  <2>1. \A w \in Workers : j[w].task = id => j[w].filter = f
    BY <1>5, <1>15, <1>16
  <2>2. \A i \in 1..Len(q) : q[i].filter = f
    BY <1>5, <1>12
  <2>3. Len(<<>>) = 0
    OBVIOUS
  <2>4. \A i \in 1..Len(<<>>) : FALSE
    BY <2>3
  <2> QED BY <2>1, <2>2, <2>4, Zenon DEF IsFor
<1>19. \A w \in Workers : j[w].task \in {id, jobs[w].task}
  BY <1>5, <1>8, <1>10
<1>20. ASSUME NEW i \in 1..Len(q) PROVE q[i].task = id
  <2>1. h + i \in 1..p /\ q[i] = new[h + i]
    BY <1>12
  <2> QED BY <1>5, <2>1
<1> QED BY <1>1, <1>6, <1>9, <1>11, <1>17, <1>18, <1>19, <1>20

\* What the workers are at once worker w is free.
Without(w) == [v \in Workers |-> IF v = w THEN NoJob ELSE jobs[v]]

\* A free worker takes the first chunk that waits.
LEMMA PassedOn ==
    ASSUME QueueOK, NEW w \in Workers, ProcessNextTask(w)
    PROVE  \/ jobs' = Without(w) /\ pending' = pending
           \/ \E m \in Workers :
                /\ pending # <<>> /\ Without(w)[m] = NoJob
                /\ \A v \in Workers : jobs'[v] = IF v = m THEN Head(pending) ELSE Without(w)[v]
                /\ pending' = Tail(pending)
<1>1. PICK u : u = Without(w)
  OBVIOUS
<1>2. \A v \in Workers : u[v] = IF v = w THEN NoJob ELSE jobs[v]
  BY <1>1 DEF Without
<1>3. CASE pending = <<>>
  <2>1. jobs' = [jobs EXCEPT ![w] = NoJob] /\ pending' = pending
    BY <1>3 DEF ProcessNextTask
  <2>2. jobs' = u
    BY <1>1, <2>1 DEF QueueOK, Without
  <2> QED BY <1>1, <2>1, <2>2
<1>4. CASE pending # <<>>
  <2>1. PICK m : m = Min(Idle \cup {w})
    OBVIOUS
  <2>2. jobs' = [jobs EXCEPT ![w] = NoJob, ![m] = Head(pending)] /\ pending' = Tail(pending)
    BY <1>4, <2>1 DEF ProcessNextTask
  <2>3. m \in Idle \cup {w} /\ m \in Workers
    BY <2>1, MinIn, IdleFinite DEF Idle
  <2>4. u[m] = NoJob
    BY <1>2, <2>3 DEF Idle
  <2>5. \A v \in Workers : jobs'[v] = IF v = m THEN Head(pending) ELSE u[v]
    BY <1>2, <2>2, <2>3 DEF QueueOK
  <2> QED BY <1>1, <1>4, <2>2, <2>3, <2>4, <2>5
<1> QED BY <1>3, <1>4

\* All chunks stay accounted for when one that waits is handed over.
LEMMA PassedAccounted ==
    ASSUME QueueOK, NEW w \in Workers, ProcessNextTask(w), NEW id, id # 0, NEW c, Len(c) \in Nat,
           NEW r, NEW lost, Accounted(id, c, Without(w), pending, r, lost)
    PROVE  Accounted(id, c, jobs', pending', r, lost)
<1>1. CASE jobs' = Without(w) /\ pending' = pending
  BY <1>1
<1>2. ASSUME NEW m \in Workers, pending # <<>>, Without(w)[m] = NoJob,
             \A v \in Workers : jobs'[v] = IF v = m THEN Head(pending) ELSE Without(w)[v],
             pending' = Tail(pending)
      PROVE  Accounted(id, c, jobs', pending', r, lost)
  <2>1. PICK J : pending \in Seq(J)
    BY DEF QueueOK
  <2>2. PICK u : u = Without(w)
    OBVIOUS
  <2>3. u[m].task # id
    BY <1>2, <2>2 DEF NoJob
  <2>4. PICK k : k = jobs'
    OBVIOUS
  <2>5. \A v \in Workers : k[v] = IF v = m THEN Head(pending) ELSE u[v]
    BY <1>2, <2>2, <2>4
  <2>6. Accounted(id, c, u, pending, r, lost)
    BY <2>2
  <2>7. Accounted(id, c, k, Tail(pending), r, lost)
    BY <1>2, <2>1, <2>3, <2>5, <2>6, HandedOver
  <2> QED BY <1>2, <2>4, <2>7
<1> QED BY <1>1, <1>2, PassedOn, Zenon

\* And are for the filter they were for.
LEMMA PassedFor ==
    ASSUME QueueOK, NEW w \in Workers, ProcessNextTask(w), NEW id, NEW c, NEW r, NEW f, id # 0,
           IsFor(f, id, c, jobs, pending, results),
           \A i \in 1..Len(r) : r[i].trades = Filtered(f, c[r[i].index])
    PROVE  IsFor(f, id, c, jobs', pending', r)
<1>1. PICK u : u = Without(w)
  OBVIOUS
<1>2. \A v \in Workers : u[v].task = id => u[v] = jobs[v]
  BY <1>1 DEF Without, NoJob
<1>3. /\ \A v \in Workers : jobs[v].task = id => jobs[v].filter = f
      /\ \A i \in 1..Len(pending) : pending[i].filter = f
  BY DEF IsFor
<1>4. \A v \in Workers : u[v].task = id => u[v].filter = f
  BY <1>2, <1>3
<1>5. CASE jobs' = u /\ pending' = pending
  BY <1>3, <1>4, <1>5 DEF IsFor
<1>6. ASSUME NEW m \in Workers, pending # <<>>, pending' = Tail(pending),
             \A v \in Workers : jobs'[v] = IF v = m THEN Head(pending) ELSE u[v]
      PROVE  IsFor(f, id, c, jobs', pending', r)
  <2>1. PICK J : pending \in Seq(J)
    BY DEF QueueOK
  <2>2. Len(pending) \in Nat \ {0} /\ Head(pending) = pending[1]
    BY <1>6, <2>1, EmptySeq
  <2>3. Head(pending).filter = f
    BY <1>3, <2>2
  <2>4. \A v \in Workers : jobs'[v].task = id => jobs'[v].filter = f
    BY <1>4, <1>6, <2>3
  <2>5. Len(pending') = Len(pending) - 1 /\ \A i \in 1..Len(pending) - 1 : pending'[i] = pending[i + 1]
    BY <1>6, <2>1, HeadTailProperties
  <2>6. \A i \in 1..Len(pending') : pending'[i].filter = f
    BY <1>3, <2>2, <2>5
  <2> QED BY <2>4, <2>6 DEF IsFor
<1> QED BY <1>1, <1>5, <1>6, PassedOn, Zenon

\* The numbers of the tasks stay those given.
LEMMA PassedNumbers ==
    ASSUME QueueOK, NEW w \in Workers, ProcessNextTask(w), NEW S, 0 \in S,
           \A v \in Workers : jobs[v].task \in S, \A i \in 1..Len(pending) : pending[i].task \in S
    PROVE  /\ \A v \in Workers : jobs'[v].task \in S
           /\ \A i \in 1..Len(pending') : pending'[i].task \in S
<1>1. PICK u : u = Without(w)
  OBVIOUS
<1>2. \A v \in Workers : u[v].task \in S
  BY <1>1 DEF Without, NoJob
<1>3. CASE jobs' = u /\ pending' = pending
  BY <1>2, <1>3
<1>4. ASSUME NEW m \in Workers, pending # <<>>, pending' = Tail(pending),
             \A v \in Workers : jobs'[v] = IF v = m THEN Head(pending) ELSE u[v]
      PROVE  /\ \A v \in Workers : jobs'[v].task \in S
             /\ \A i \in 1..Len(pending') : pending'[i].task \in S
  <2>1. PICK J : pending \in Seq(J)
    BY DEF QueueOK
  <2>2. Len(pending) \in Nat \ {0} /\ Head(pending) = pending[1]
    BY <1>4, <2>1, EmptySeq
  <2>3. \A v \in Workers : jobs'[v].task \in S
    BY <1>2, <1>4, <2>2
  <2>4. Len(pending') = Len(pending) - 1 /\ \A i \in 1..Len(pending) - 1 : pending'[i] = pending[i + 1]
    BY <1>4, <2>1, HeadTailProperties
  <2>5. \A i \in 1..Len(pending') : pending'[i].task \in S
    BY <2>2, <2>4
  <2> QED BY <2>3, <2>5
<1> QED BY <1>1, <1>3, <1>4, PassedOn, Zenon

-----------------------------------------------------------------------------
(* What a task delivers.                                                   *)

\* The list a task is for starts with row 0.
LEMMA ListOK ==
    ASSUME TradesOK, allTrades # <<>>
    PROVE  allTrades \in Seq(Trades) /\ IsRowZero(allTrades[1])
BY TradeFilterAssumption DEF TradesOK, IsRowZero

\* What passes of a chunk is a list of trades.
LEMMA FilteredOK ==
    ASSUME NEW f, NEW trades \in Seq(Trades)
    PROVE  Filtered(f, trades) \in Seq(Trades)
<1>1. Len(trades) \in Nat
  BY LenProperties
<1>2. Len(trades) \in 0..Len(trades)
  BY <1>1
<1> QED BY <1>2, FilteredEquations DEF Filtered

\* The numbers up to n are n.
LEMMA CountTo ==
    ASSUME NEW n \in Nat
    PROVE  IsFiniteSet(1..n) /\ Cardinality(1..n) = n
<1>1. 1 \in Int /\ n \in Int
  OBVIOUS
<1>2. IsFiniteSet(1..n) /\ Cardinality(1..n) = IF 1 > n THEN 0 ELSE n - 1 + 1
  BY <1>1, FS_Interval
<1> QED BY <1>2

\* A task has no more chunks filtered than it was cut into, and when it has as many,
\* they are what the filter keeps of its list.
LEMMA AllAnswered ==
    ASSUME NEW trades \in Seq(Trades), trades # <<>>, IsRowZero(trades[1]), NEW f, NEW id,
           NEW j, NEW q, NEW r \in Seq(ResultSet), NEW lost, Len(q) \in Nat,
           Accounted(id, Chunks(trades), j, q, r, lost),
           \A i \in 1..Len(r) : r[i].trades = Filtered(f, Chunks(trades)[r[i].index]),
           ~(Len(r) < Len(Chunks(trades)))
    PROVE  Combined(r) = Filtered(f, trades)
<1>1. PICK c : c = Chunks(trades)
  OBVIOUS
<1>2. PICK p \in Nat : p = Len(c)
  BY <1>1, ChunksOK
<1>3. PICK n \in Nat : n = Len(r) /\ n >= p
  BY <1>1, <1>2, LenProperties
<1>4. \A i \in 1..n : r[i] \in ToSet(r) /\ r[i].index \in 1..p
  <2>1. \A i \in 1..n : r[i].index \in 1..Handed(c, q)
    BY <1>1, <1>3 DEF Accounted
  <2>2. \A i \in 1..n : r[i].index \in 1..p
    BY <1>2, <2>1 DEF Handed
  <2>3. DOMAIN r = 1..n
    BY <1>3, LenProperties
  <2> QED BY <2>2, <2>3 DEF ToSet
<1>5. PICK g : g = [i \in 1..n |-> r[i].index]
  OBVIOUS
<1>6. g \in [1..n -> 1..p] /\ \A i \in 1..n : g[i] = r[i].index
  BY <1>4, <1>5
<1>7. \A i, l \in 1..n : g[i] = g[l] => i = l
  BY <1>3, <1>6 DEF Accounted
<1>8. n = p
  <2>1. g \in Injection(1..n, 1..p)
    BY <1>6, <1>7 DEF Injection, IsInjective
  <2>2. IsFiniteSet(1..n) /\ Cardinality(1..n) = n /\ IsFiniteSet(1..p) /\ Cardinality(1..p) = p
    BY CountTo
  <2>3. Cardinality(1..n) <= Cardinality(1..p)
    BY <2>1, <2>2, FS_Injection
  <2> QED BY <1>3, <2>2, <2>3
<1>9. \A h \in 1..p : \E i \in 1..n : g[i] = h
  <2>1. IsFiniteSet(1..n) /\ Cardinality(1..n) = n
    BY CountTo
  <2>2. PICK S : S = 1..n
    OBVIOUS
  <2>3. g \in [S -> 1..n] /\ IsFiniteSet(S) /\ Cardinality(S) = n /\ \A i, l \in S : g[i] = g[l] => i = l
    BY <1>6, <1>7, <1>8, <2>1, <2>2
  <2>4. \A h \in 1..n : \E i \in S : g[i] = h
    BY <2>3, AllPlaces
  <2> QED BY <1>8, <2>2, <2>4
<1>10. ASSUME NEW h \in 1..n PROVE ChunkAt(r, h).trades = Filtered(f, c[h])
  <2>8. h \in 1..p
    BY <1>8
  <2>9. PICK i \in 1..n : g[i] = h
    BY <1>9, <2>8
  <2>1. r[i].index = h
    BY <1>6, <2>9
  <2>2. \E x \in ToSet(r) : x.index = h
    BY <1>4, <2>1
  <2>3. PICK x : x = ChunkAt(r, h)
    OBVIOUS
  <2>4. x \in ToSet(r) /\ x.index = h
    BY <2>2, <2>3 DEF ChunkAt
  <2>5. DOMAIN r = 1..n
    BY <1>3, LenProperties
  <2>6. PICK l \in 1..n : x = r[l]
    BY <2>4, <2>5 DEF ToSet
  <2>7. x.trades = Filtered(f, c[x.index])
    BY <1>1, <1>3, <2>6
  <2> QED BY <2>3, <2>4, <2>7
<1>11. Len(r) = Len(Chunks(trades))
  BY <1>1, <1>2, <1>3, <1>8
<1>12. \A i \in 1..Len(r) : ChunkAt(r, i).trades = Filtered(f, Chunks(trades)[i])
  BY <1>1, <1>3, <1>10
<1> QED BY <1>11, <1>12, CombinedFiltered

\* A step that leaves the workers alone either asks for the filter anew or leaves what
\* is shown and what it is shown of.
LEMMA OtherTaskStep ==
    ASSUME TInv, faults \in Nat, faults' \in {faults, faults + 1},
           UNCHANGED <<managerVars, filterSeq, isFiltering>>,
           changed' = TRUE \/ UNCHANGED <<filter, allTrades, filteredTrades, hasBankruptcy, changed>>
    PROVE  TInv'
<1>1. UNCHANGED <<active, input, results, pending, jobs>>
  BY DEF managerVars, taskVars, poolVars
<1>2. NumbersOK'
  BY <1>1 DEF TInv, NumbersOK
<1>3. ASSUME NEW id \in active PROVE Accounted(id, Chunks(input.trades), jobs, pending, results, faults')
  <2>1. Accounted(id, Chunks(input.trades), jobs, pending, results, faults)
    BY DEF TInv, TaskOK
  <2>2. faults' = 0 => faults = 0
    OBVIOUS
  <2> QED BY <2>1, <2>2 DEF Accounted
<1>4. TaskOK'
  BY <1>1, <1>3 DEF TInv, TaskOK
<1>5. CASE changed' = TRUE
  <2>1. CurrentOK' /\ ShownOK'
    BY <1>1, <1>5 DEF TInv, CurrentOK, ShownOK, Settled
  <2> QED BY <1>2, <1>4, <2>1 DEF TInv
<1>6. CASE UNCHANGED <<filter, allTrades, filteredTrades, hasBankruptcy, changed>>
  <2>1. CurrentOK'
    BY <1>1, <1>6 DEF TInv, CurrentOK
  <2>2. Shown' = Shown /\ Kept' = Kept
    BY <1>6 DEF Shown, Kept
  <2>3. ShownOK'
    BY <1>6, <2>2 DEF TInv, ShownOK, Settled
  <2> QED BY <1>2, <1>4, <2>1, <2>3 DEF TInv
<1> QED BY <1>5, <1>6

\* The result of a task, of worker w's answer or its error, leaves the question alone.
LEMMA DeliverOK ==
    ASSUME NEW id, NEW trades, NEW bankrupt, Deliver(id, trades, bankrupt)
    PROVE  /\ UNCHANGED <<filter, allTrades, changed, filterSeq>>
           /\ IF id = filterSeq THEN filteredTrades' = trades /\ hasBankruptcy' = bankrupt /\ isFiltering' = FALSE
              ELSE UNCHANGED <<filteredTrades, hasBankruptcy, isFiltering>>
BY DEF Deliver, providerVars

\* A task that ends delivers what its filter shows, or nothing after a fault.
LEMMA TaskEnds ==
    ASSUME TInv, NEW id \in active, active' = {}, results' = <<>>, input' = input, filterSeq' = filterSeq,
           QueueOK, NEW w \in Workers, ProcessNextTask(w),
           NEW trades, NEW bankrupt, Deliver(id, trades, bankrupt),
           faults \in Nat, faults' \in {faults, faults + 1},
           \/ faults' > 0 /\ trades = <<>>
           \/ ~changed /\ id = filterSeq =>
                /\ trades = Shown
                /\ filter.recalculate /\ Active(filter) /\ allTrades # <<>> =>
                      bankrupt = Recalculated(Kept, allTrades).bankrupt
    PROVE  TInv'
<1>1. /\ UNCHANGED <<filter, allTrades, changed>>
      /\ IF id = filterSeq THEN filteredTrades' = trades /\ hasBankruptcy' = bankrupt /\ isFiltering' = FALSE
         ELSE UNCHANGED <<filteredTrades, hasBankruptcy, isFiltering>>
  BY DeliverOK
<1>2. NumbersOK'
  <2>1. /\ \A v \in Workers : jobs'[v].task \in 0..filterSeq
        /\ \A i \in 1..Len(pending') : pending'[i].task \in 0..filterSeq
    <3>1. PICK S : S = 0..filterSeq
      OBVIOUS
    <3>2. /\ 0 \in S /\ \A v \in Workers : jobs[v].task \in S
          /\ \A i \in 1..Len(pending) : pending[i].task \in S
      BY <3>1 DEF TInv, NumbersOK
    <3> QED BY <3>1, <3>2, PassedNumbers
  <2>2. <<>> \in Seq(ResultSet)
    OBVIOUS
  <2> QED BY <2>1, <2>2 DEF TInv, NumbersOK
<1>3. TaskOK'
  BY DEF TaskOK
<1>4. CurrentOK'
  <2>1. ~(~changed' /\ isFiltering')
    BY <1>1 DEF TInv, CurrentOK
  <2> QED BY <2>1 DEF CurrentOK
<1>5. Shown' = Shown /\ Kept' = Kept
  BY <1>1 DEF Shown, Kept
<1>6. ShownOK'
  <2>1. CASE id = filterSeq
    <3>1. filteredTrades' = trades /\ hasBankruptcy' = bankrupt
      BY <1>1, <2>1
    <3>2. CASE faults' > 0 /\ trades = <<>>
      BY <3>1, <3>2 DEF ShownOK
    <3>3. CASE ~changed => /\ trades = Shown
                           /\ filter.recalculate /\ Active(filter) /\ allTrades # <<>> =>
                                 bankrupt = Recalculated(Kept, allTrades).bankrupt
      BY <1>1, <1>5, <3>1, <3>3 DEF ShownOK, Settled
    <3> QED BY <2>1, <3>2, <3>3
  <2>2. CASE id # filterSeq
    <3>1. UNCHANGED <<filteredTrades, hasBankruptcy, isFiltering, changed>>
      BY <1>1, <2>2
    <3>2. faults > 0 => faults' > 0
      OBVIOUS
    <3> QED BY <1>1, <1>5, <3>1, <3>2 DEF TInv, ShownOK, Settled
  <2> QED BY <2>1, <2>2
<1> QED BY <1>2, <1>3, <1>4, <1>6 DEF TInv

-----------------------------------------------------------------------------
(* The steps keep the second invariant.                                    *)

\* A worker's chunk is one of the task it is of.
LEMMA ChunkOfTask ==
    ASSUME TInv, NEW w \in Workers, NEW id, jobs[w].task = id, id \in active
    PROVE  LET c == Chunks(input.trades)
           IN  /\ id \in Nat /\ id # 0 /\ id <= filterSeq /\ active = {id} /\ filterSeq \in Nat
               /\ input.trades \in Seq(Trades) /\ input.trades # <<>> /\ Len(c) \in Nat
               /\ Accounted(id, c, jobs, pending, results, faults)
               /\ jobs[w].total = Len(c) /\ jobs[w].index \in 1..Len(c)
               /\ jobs[w].trades = c[jobs[w].index]
               /\ jobs[w].trades \in Seq(Trades)
<1>1. PICK c : c = Chunks(input.trades)
  OBVIOUS
<1>2. input.trades \in Seq(Trades) /\ input.trades # <<>>
      /\ Accounted(id, c, jobs, pending, results, faults)
  BY <1>1 DEF TInv, TaskOK
<1>3. IsPiece(jobs[w], id, c)
  BY <1>2 DEF Accounted
<1>4. Len(c) \in Nat /\ \A i \in 1..Len(c) : c[i] \in Seq(Trades)
  BY <1>1, <1>2, ChunksOK
<1>5. jobs[w].total = Len(c) /\ jobs[w].index \in 1..Len(c) /\ jobs[w].trades = c[jobs[w].index]
  BY <1>3 DEF IsPiece
<1>6. jobs[w].trades \in Seq(Trades)
  BY <1>4, <1>5
<1>7. id \in Nat /\ id # 0 /\ id <= filterSeq /\ active = {id} /\ filterSeq \in Nat
  BY DEF TInv, NumbersOK
<1> QED BY <1>1, <1>2, <1>4, <1>5, <1>6, <1>7

\* The length of the queue.
LEMMA QueueLen ==
    ASSUME QueueOK
    PROVE  Len(pending) \in Nat
<1>1. PICK J : pending \in Seq(J)
  BY DEF QueueOK
<1> QED BY <1>1, LenProperties

\* A step that leaves what is asked and what is shown alone.
LEMMA SameQuestion ==
    ASSUME ShownOK, UNCHANGED providerVars, faults \in Nat, faults' \in {faults, faults + 1}
    PROVE  ShownOK'
<1>1. UNCHANGED <<filter, allTrades, filteredTrades, hasBankruptcy, isFiltering, changed>>
  BY DEF providerVars
<1>2. Shown' = Shown /\ Kept' = Kept
  BY <1>1 DEF Shown, Kept
<1>3. faults > 0 => faults' > 0
  OBVIOUS
<1> QED BY <1>1, <1>2, <1>3 DEF ShownOK, Settled

\* An answer, or an error, for a task that has ended only frees the worker.
LEMMA StaleStep ==
    ASSUME TInv, QueueOK, NEW w \in Workers, jobs[w].task \notin active, ProcessNextTask(w),
           UNCHANGED <<taskVars, providerVars>>, faults \in Nat, faults' \in {faults, faults + 1}
    PROVE  TInv'
<1>1. UNCHANGED <<active, input, results, filter, allTrades, isFiltering, changed, filterSeq>>
  BY DEF taskVars, providerVars
<1>2. NumbersOK'
  <2>1. PICK S : S = 0..filterSeq
    OBVIOUS
  <2>2. /\ 0 \in S /\ \A v \in Workers : jobs[v].task \in S
        /\ \A i \in 1..Len(pending) : pending[i].task \in S
    BY <2>1 DEF TInv, NumbersOK
  <2>3. /\ \A v \in Workers : jobs'[v].task \in S
        /\ \A i \in 1..Len(pending') : pending'[i].task \in S
    BY <2>2, PassedNumbers
  <2> QED BY <1>1, <2>1, <2>3 DEF TInv, NumbersOK
<1>3. ASSUME NEW id \in active
      PROVE  Accounted(id, Chunks(input.trades), jobs', pending', results, faults')
  <2>1. PICK c : c = Chunks(input.trades)
    OBVIOUS
  <2>2. /\ input.trades \in Seq(Trades) /\ input.trades # <<>>
        /\ Accounted(id, c, jobs, pending, results, faults)
    BY <2>1 DEF TInv, TaskOK
  <2>3. Len(c) \in Nat
    BY <2>1, <2>2, ChunksOK
  <2>4. id # 0 /\ jobs[w].task # id
    BY DEF TInv, NumbersOK
  <2>13. PICK k : k = Without(w)
    OBVIOUS
  <2>5. \A v \in Workers : k[v] = IF v = w THEN NoJob ELSE jobs[v]
    BY <2>13 DEF Without
  <2>8. PICK n : n = faults'
    OBVIOUS
  <2>9. n = 0 => faults = 0 /\ jobs[w].task # id
    BY <2>4, <2>8
  <2>14. Accounted(id, c, k, pending, results, n)
    BY <2>2, <2>4, <2>5, <2>9, Freed
  <2>11. Accounted(id, c, Without(w), pending, results, n)
    BY <2>13, <2>14
  <2>12. Accounted(id, c, jobs', pending', results, n)
    BY <2>3, <2>4, <2>11, PassedAccounted
  <2> QED BY <2>1, <2>8, <2>12
<1>4. TaskOK'
  BY <1>1, <1>3 DEF TInv, TaskOK
<1>5. CurrentOK'
  <2>1. ASSUME ~changed, isFiltering
        PROVE  IsFor(filter, filterSeq, Chunks(allTrades), jobs', pending', results)
    <3>1. PICK c : c = Chunks(allTrades)
      OBVIOUS
    <3>5. active = {filterSeq} /\ IsFor(filter, filterSeq, Chunks(allTrades), jobs, pending, results)
      BY <2>1 DEF TInv, CurrentOK
    <3>6. filterSeq # 0
      BY <3>5 DEF TInv, NumbersOK
    <3>2. IsFor(filter, filterSeq, c, jobs, pending, results) /\ filterSeq # 0
      BY <3>1, <3>5, <3>6
    <3>3. \A i \in 1..Len(results) : results[i].trades = Filtered(filter, c[results[i].index])
      BY <3>2 DEF IsFor
    <3>4. IsFor(filter, filterSeq, c, jobs', pending', results)
      BY <3>2, <3>3, PassedFor
    <3> QED BY <3>1, <3>4
  <2> QED BY <1>1, <2>1 DEF TInv, CurrentOK
<1>6. ShownOK'
  BY SameQuestion DEF TInv
<1> QED BY <1>2, <1>4, <1>5, <1>6 DEF TInv

\* A chunk is filtered: with the others, and for the filter of the task.
LEMMA ChunkAnswered ==
    ASSUME TInv, QueueOK, NEW w \in Workers, NEW id \in active, jobs[w].task = id,
           NEW x, x = [index |-> jobs[w].index, trades |-> Filtered(jobs[w].filter, jobs[w].trades)]
    PROVE  LET c == Chunks(input.trades)
               chunks == Append(results, x)
           IN  /\ chunks \in Seq(ResultSet)
               /\ Accounted(id, c, Without(w), pending, chunks, faults)
               /\ ~changed /\ isFiltering =>
                     \A i \in 1..Len(chunks) : chunks[i].trades = Filtered(filter, c[chunks[i].index])
<1>1. PICK c : c = Chunks(input.trades)
  OBVIOUS
<1>2. /\ id # 0 /\ Len(c) \in Nat /\ active = {id}
      /\ jobs[w].index \in 1..Len(c) /\ jobs[w].trades = c[jobs[w].index] /\ jobs[w].trades \in Seq(Trades)
  BY <1>1, ChunkOfTask
<1>3. Accounted(id, c, jobs, pending, results, faults)
  BY <1>1, ChunkOfTask
<1>4. x \in ResultSet /\ x.index = jobs[w].index /\ x.trades = Filtered(jobs[w].filter, jobs[w].trades)
  BY <1>2, FilteredOK DEF ResultSet
<1>5. results \in Seq(ResultSet)
  BY DEF TInv, NumbersOK
<1>6. PICK u : u = Append(results, x)
  OBVIOUS
<1>7. PICK n \in Nat : n = Len(results)
  BY <1>5, LenProperties
<1>8. u \in Seq(ResultSet) /\ Len(u) = n + 1 /\ u[n + 1] = x /\ \A i \in 1..n : u[i] = results[i]
  BY <1>4, <1>5, <1>6, <1>7, AppendProperties
<1>9. Len(pending) \in Nat
  BY QueueLen
<1>13. PICK k : k = Without(w)
  OBVIOUS
<1>10. Emptied(k, jobs, w)
  BY <1>13 DEF Emptied, Without
<1>14. Accounted(id, c, k, pending, u, faults)
  <2>1. id # 0 /\ Len(c) \in Nat /\ x.index = jobs[w].index
    BY <1>2, <1>4
  <2> QED BY <1>3, <1>4, <1>5, <1>6, <1>9, <1>10, <2>1, Answered
<1>11. Accounted(id, c, Without(w), pending, u, faults)
  BY <1>13, <1>14
<1>12. ASSUME ~changed, isFiltering, NEW i \in 1..Len(u)
       PROVE  u[i].trades = Filtered(filter, c[u[i].index])
  <2>1. IsFor(filter, id, c, jobs, pending, results)
    BY <1>1, <1>2, <1>12 DEF TInv, CurrentOK
  <2>2. CASE i \in 1..n
    BY <1>7, <1>8, <2>1, <2>2 DEF IsFor
  <2>3. CASE i = n + 1
    <3>1. jobs[w].filter = filter
      BY <2>1 DEF IsFor
    <3> QED BY <1>2, <1>4, <1>8, <2>3, <3>1
  <2> QED BY <1>8, <2>2, <2>3
<1> QED BY <1>1, <1>3, <1>6, <1>8, <1>11, <1>12

\* A chunk that is not the last to be filtered joins those that are.
LEMMA PartialStep ==
    ASSUME TInv, QueueOK, NEW w \in Workers, NEW id \in active, jobs[w].task = id,
           results' = Append(results, [index |-> jobs[w].index,
                                       trades |-> Filtered(jobs[w].filter, jobs[w].trades)]),
           UNCHANGED <<active, input, providerVars, faults>>, ProcessNextTask(w), faults \in Nat
    PROVE  TInv'
<1>1. UNCHANGED <<filter, allTrades, isFiltering, changed, filterSeq>>
  BY DEF providerVars
<1>2. PICK c : c = Chunks(input.trades)
  OBVIOUS
<1>4. /\ results' \in Seq(ResultSet) /\ Accounted(id, c, Without(w), pending, results', faults)
      /\ ~changed /\ isFiltering =>
            \A i \in 1..Len(results') : results'[i].trades = Filtered(filter, c[results'[i].index])
  BY <1>2, ChunkAnswered
<1>5. /\ id # 0 /\ Len(c) \in Nat /\ active = {id}
      /\ input.trades \in Seq(Trades) /\ input.trades # <<>>
  BY <1>2, ChunkOfTask
<1>6. NumbersOK'
  <2>1. PICK S : S = 0..filterSeq
    OBVIOUS
  <2>2. /\ 0 \in S /\ \A v \in Workers : jobs[v].task \in S
        /\ \A i \in 1..Len(pending) : pending[i].task \in S
    BY <2>1 DEF TInv, NumbersOK
  <2>3. /\ \A v \in Workers : jobs'[v].task \in S
        /\ \A i \in 1..Len(pending') : pending'[i].task \in S
    BY <2>2, PassedNumbers
  <2> QED BY <1>1, <1>4, <2>1, <2>3 DEF TInv, NumbersOK
<1>7. PICK r : r = results'
  OBVIOUS
<1>8. Accounted(id, c, jobs', pending', r, faults)
  BY <1>4, <1>5, <1>7, PassedAccounted
<1>9. TaskOK'
  BY <1>2, <1>5, <1>7, <1>8 DEF TaskOK
<1>10. CurrentOK'
  <2>1. ASSUME ~changed, isFiltering
        PROVE  IsFor(filter, filterSeq, Chunks(allTrades), jobs', pending', results')
    <3>1. IsFor(filter, id, c, jobs, pending, results) /\ id = filterSeq /\ c = Chunks(allTrades)
      BY <1>2, <1>5, <2>1 DEF TInv, CurrentOK
    <3>2. \A i \in 1..Len(r) : r[i].trades = Filtered(filter, c[r[i].index])
      BY <1>4, <1>7, <2>1
    <3>3. IsFor(filter, id, c, jobs', pending', r)
      BY <1>5, <3>1, <3>2, PassedFor
    <3> QED BY <1>7, <3>1, <3>3
  <2> QED BY <1>1, <2>1 DEF TInv, CurrentOK
<1>11. ShownOK'
  BY SameQuestion DEF TInv
<1> QED BY <1>6, <1>9, <1>10, <1>11 DEF TInv

\* The last chunk of a task makes its result.
LEMMA WorkerAnswersTask ==
    ASSUME IInv, TInv, NEW w \in Workers, WorkerAnswers(w)
    PROVE  TInv'
<1>1. PICK id : id = jobs[w].task
  OBVIOUS
<1>2. PICK x : x = [index |-> jobs[w].index, trades |-> Filtered(jobs[w].filter, jobs[w].trades)]
  OBVIOUS
<1>3. PICK chunks : chunks = Append(results, x)
  OBVIOUS
<1>4. QueueOK /\ TradesOK /\ ProcessNextTask(w) /\ faults' = faults /\ faults \in Nat
  BY DEF WorkerAnswers, IInv, QueueOK
<1>5. CASE id \notin active
  <2>1. UNCHANGED <<taskVars, providerVars>>
    BY <1>1, <1>5 DEF WorkerAnswers, HandleTaskResult
  <2> QED BY <1>1, <1>4, <1>5, <2>1, StaleStep
<1>6. CASE id \in active /\ Len(chunks) < jobs[w].total
  <2>1. results' = chunks /\ UNCHANGED <<active, input, providerVars>>
    BY <1>1, <1>2, <1>3, <1>6 DEF WorkerAnswers, HandleTaskResult
  <2> QED BY <1>1, <1>2, <1>3, <1>4, <1>6, <2>1, PartialStep
<1>7. CASE id \in active /\ ~(Len(chunks) < jobs[w].total)
  <2>1. PICK made : made = IF input.recalculate THEN Recalculated(Combined(chunks), input.trades)
                           ELSE [trades |-> Combined(chunks), bankrupt |-> FALSE]
    OBVIOUS
  <2>2. /\ Deliver(id, made.trades, made.bankrupt)
        /\ active' = {} /\ results' = <<>> /\ input' = input
    BY <1>1, <1>2, <1>3, <1>7, <2>1 DEF WorkerAnswers, HandleTaskResult
  <2>3. filterSeq' = filterSeq
    BY <2>2, DeliverOK
  <2>4. ASSUME ~changed, id = filterSeq
        PROVE  /\ made.trades = Shown
               /\ filter.recalculate /\ Active(filter) /\ allTrades # <<>> =>
                     made.bankrupt = Recalculated(Kept, allTrades).bankrupt
    <3>1. /\ isFiltering /\ Active(filter) /\ allTrades # <<>>
          /\ input.trades = allTrades /\ input.recalculate = filter.recalculate
      BY <1>7, <2>4 DEF TInv, CurrentOK
    <3>2. PICK c : c = Chunks(allTrades)
      OBVIOUS
    <3>3. /\ chunks \in Seq(ResultSet)
          /\ Accounted(id, c, Without(w), pending, chunks, faults)
          /\ \A i \in 1..Len(chunks) : chunks[i].trades = Filtered(filter, c[chunks[i].index])
      BY <1>1, <1>2, <1>3, <1>4, <1>7, <2>4, <3>1, <3>2, ChunkAnswered
    <3>4. jobs[w].total = Len(c)
      BY <1>1, <1>7, <3>1, <3>2, ChunkOfTask
    <3>5. allTrades \in Seq(Trades) /\ IsRowZero(allTrades[1])
      BY <1>4, <3>1, ListOK
    <3>6. Len(pending) \in Nat
      BY <1>4, QueueLen
    <3>7. Combined(chunks) = Filtered(filter, allTrades)
      BY <1>7, <3>1, <3>2, <3>3, <3>4, <3>5, <3>6, AllAnswered
    <3>8. Kept = Combined(chunks)
      BY <3>1, <3>7 DEF Kept
    <3>9. CASE filter.recalculate
      BY <2>1, <3>1, <3>8, <3>9 DEF Shown
    <3>10. CASE ~filter.recalculate
      BY <2>1, <3>1, <3>8, <3>10 DEF Shown
    <3> QED BY <3>9, <3>10
  <2>5. PICK trades : trades = made.trades
    OBVIOUS
  <2>6. PICK bankrupt : bankrupt = made.bankrupt
    OBVIOUS
  <2>7. Deliver(id, trades, bankrupt)
    BY <2>2, <2>5, <2>6
  <2>8. ~changed /\ id = filterSeq =>
          /\ trades = Shown
          /\ filter.recalculate /\ Active(filter) /\ allTrades # <<>> =>
                bankrupt = Recalculated(Kept, allTrades).bankrupt
    BY <2>4, <2>5, <2>6
  <2> QED BY <1>4, <1>7, <2>2, <2>3, <2>7, <2>8, TaskEnds
<1> QED BY <1>5, <1>6, <1>7

\* A worker's error ends the task without trades.
LEMMA HandleTaskErrorTask ==
    ASSUME IInv, TInv, NEW w \in Workers, HandleTaskError(w)
    PROVE  TInv'
<1>1. QueueOK /\ ProcessNextTask(w) /\ faults' = faults + 1 /\ faults \in Nat
  BY DEF HandleTaskError, IInv, QueueOK
<1>2. PICK id : id = jobs[w].task
  OBVIOUS
<1>3. CASE id \notin active
  <2>1. UNCHANGED <<taskVars, providerVars>>
    BY <1>2, <1>3 DEF HandleTaskError
  <2> QED BY <1>1, <1>2, <1>3, <2>1, StaleStep
<1>4. CASE id \in active
  <2>1. Deliver(id, <<>>, FALSE) /\ active' = {} /\ results' = <<>> /\ input' = input
    BY <1>2, <1>4 DEF HandleTaskError
  <2>2. filterSeq' = filterSeq
    BY <2>1, DeliverOK
  <2>3. PICK trades : trades = <<>>
    OBVIOUS
  <2>4. Deliver(id, trades, FALSE)
    BY <2>1, <2>3
  <2>5. faults' > 0
    BY <1>1
  <2> QED BY <1>1, <1>4, <2>1, <2>2, <2>3, <2>4, <2>5, TaskEnds
<1> QED BY <1>3, <1>4

\* A worker that breaks takes its chunk with it.
LEMMA HandleWorkerErrorTask ==
    ASSUME IInv, TInv, NEW w \in Workers, HandleWorkerError(w)
    PROVE  TInv'
<1>1. /\ UNCHANGED <<providerVars, active, input, results, pending>>
      /\ jobs' = [jobs EXCEPT ![w] = NoJob] /\ faults' = faults + 1 /\ faults \in Nat /\ QueueOK
  BY DEF HandleWorkerError, taskVars, IInv, QueueOK
<1>2. PICK k : k = jobs'
  OBVIOUS
<1>3. \A v \in Workers : k[v] = IF v = w THEN NoJob ELSE jobs[v]
  BY <1>1, <1>2 DEF QueueOK
<1>4. UNCHANGED <<filter, allTrades, isFiltering, changed, filterSeq>>
  BY <1>1 DEF providerVars
<1>5. NumbersOK'
  <2>1. \A v \in Workers : k[v].task \in 0..filterSeq
    BY <1>3 DEF TInv, NumbersOK, NoJob
  <2> QED BY <1>1, <1>2, <1>4, <2>1 DEF TInv, NumbersOK
<1>6. ASSUME NEW id \in active PROVE Accounted(id, Chunks(input.trades), k, pending, results, faults')
  <2>1. id # 0 /\ faults' # 0
    BY <1>1 DEF TInv, NumbersOK
  <2>5. PICK c : c = Chunks(input.trades)
    OBVIOUS
  <2>2. Accounted(id, c, jobs, pending, results, faults)
    BY <2>5 DEF TInv, TaskOK
  <2>3. PICK n : n = faults' /\ n # 0
    BY <2>1
  <2>4. n = 0 => faults = 0 /\ jobs[w].task # id
    BY <2>3
  <2>7. id # 0
    BY <2>1
  <2>6. Accounted(id, c, k, pending, results, n)
    <3>1. PICK r : r = results
      OBVIOUS
    <3>2. PICK q : q = pending
      OBVIOUS
    <3>3. PICK j : j = jobs
      OBVIOUS
    <3>4. PICK m : m = faults
      OBVIOUS
    <3>5. Accounted(id, c, j, q, r, m)
      BY <2>2, <3>1, <3>2, <3>3, <3>4
    <3>6. \A v \in Workers : k[v] = IF v = w THEN NoJob ELSE j[v]
      BY <1>3, <3>3
    <3>7. n = 0 => m = 0 /\ j[w].task # id
      BY <2>4, <3>3, <3>4
    <3>8. Accounted(id, c, k, q, r, n)
      BY <2>7, <3>5, <3>6, <3>7, Freed
    <3> QED BY <3>1, <3>2, <3>8
  <2> QED BY <2>3, <2>5, <2>6
<1>7. TaskOK'
  BY <1>1, <1>2, <1>6 DEF TInv, TaskOK
<1>8. CurrentOK'
  <2>1. ASSUME ~changed, isFiltering
        PROVE  IsFor(filter, filterSeq, Chunks(allTrades), k, pending, results)
    <3>1. PICK c : c = Chunks(allTrades)
      OBVIOUS
    <3>5. active = {filterSeq} /\ IsFor(filter, filterSeq, Chunks(allTrades), jobs, pending, results)
      BY <2>1 DEF TInv, CurrentOK
    <3>6. filterSeq # 0
      BY <3>5 DEF TInv, NumbersOK
    <3>2. IsFor(filter, filterSeq, c, jobs, pending, results) /\ filterSeq # 0
      BY <3>1, <3>5, <3>6
    <3>3. \A v \in Workers : k[v].task = filterSeq => k[v].filter = filter
      BY <1>3, <3>2 DEF IsFor, NoJob
    <3>4. IsFor(filter, filterSeq, c, k, pending, results)
      BY <3>2, <3>3 DEF IsFor
    <3> QED BY <3>1, <3>4
  <2> QED BY <1>1, <1>2, <1>4, <2>1 DEF TInv, CurrentOK
<1>9. ShownOK'
  BY <1>1, SameQuestion DEF TInv
<1> QED BY <1>5, <1>7, <1>8, <1>9 DEF TInv

\* Of no trades nothing is kept, and there is nothing to calculate anew.
LEMMA NothingKept ==
    ASSUME NEW f
    PROVE  Filtered(f, <<>>) = <<>> /\ Recalculated(<<>>, <<>>).trades = <<>>
<1>1. PICK none : none = <<>>
  OBVIOUS
<1>2. none \in Seq(Trades) /\ Len(none) = 0
  BY <1>1
<1>3. FilteredUpTo(f, none)[0] = <<>>
  BY <1>2, FilteredEquations
<1>4. Filtered(f, none) = <<>>
  BY <1>2, <1>3 DEF Filtered
<1>5. Recalculated(none, none).trades = none
  BY <1>2 DEF Recalculated
<1> QED BY <1>1, <1>4, <1>5

\* The effect asks for the filter anew, or shows the list at once.
LEMMA ImmediateFilteringTask ==
    ASSUME IInv, TInv, ImmediateFiltering
    PROVE  TInv'
<1>1. /\ ~changed' /\ filterSeq' = filterSeq + 2 /\ filterSeq \in Nat
      /\ UNCHANGED <<filter, allTrades, faults>>
  BY DEF ImmediateFiltering, TInv, NumbersOK
<1>2. CASE allTrades # <<>> /\ Active(filter)
  <2>1. isFiltering' /\ StartTask(filterSeq', allTrades, filter)
    BY <1>2 DEF ImmediateFiltering
  <2>2. PICK id \in Nat : id = filterSeq'
    BY <1>1
  <2>3. PICK c : c = Chunks(allTrades)
    OBVIOUS
  <2>4. QueueOK /\ allTrades \in Seq(Trades)
    BY <1>2, ListOK DEF IInv
  <2>5. id # 0 /\ \A w \in Workers : jobs[w].task # id /\ jobs[w].task \in 0..id
    BY <1>1, <2>2 DEF TInv, NumbersOK
  <2>6. StartTask(id, allTrades, filter)
    BY <2>1, <2>2
  <2>7. /\ active' = {id} /\ results' = <<>>
        /\ input' = [trades |-> allTrades, recalculate |-> filter.recalculate]
    BY <2>6 DEF StartTask
  <2>8. PICK m : m = faults
    OBVIOUS
  <2>9. /\ Accounted(id, c, jobs', pending', results', m)
        /\ IsFor(filter, id, c, jobs', pending', results')
        /\ \A w \in Workers : jobs'[w].task \in {id, jobs[w].task}
        /\ \A i \in 1..Len(pending') : pending'[i].task = id
    BY <1>2, <2>3, <2>4, <2>5, <2>6, StartTaskAccounted
  <2>10. NumbersOK'
    <3>1. \A w \in Workers : jobs'[w].task \in 0..id
      BY <2>5, <2>9
    <3>2. \A i \in 1..Len(pending') : pending'[i].task \in 0..id
      BY <2>9
    <3>3. results' \in Seq(ResultSet)
      BY <2>7
    <3>4. active' = {id} /\ id \in 1..id /\ filterSeq' = id
      BY <2>2, <2>5, <2>7
    <3> QED BY <3>1, <3>2, <3>3, <3>4 DEF NumbersOK
  <2>11. TaskOK'
    BY <1>1, <1>2, <2>3, <2>4, <2>7, <2>8, <2>9 DEF TaskOK
  <2>12. CurrentOK'
    <3>1. Active(filter)' /\ allTrades' # <<>> /\ isFiltering' /\ active' = {filterSeq'}
      BY <1>1, <1>2, <2>1, <2>2, <2>7 DEF Active
    <3>2. input'.trades = allTrades' /\ input'.recalculate = filter'.recalculate
      BY <1>1, <2>7
    <3>3. IsFor(filter, filterSeq, Chunks(allTrades), jobs, pending, results)'
      BY <1>1, <2>2, <2>3, <2>9
    <3> QED BY <3>1, <3>2, <3>3 DEF CurrentOK
  <2>13. ShownOK'
    BY <2>1 DEF ShownOK, Settled
  <2> QED BY <2>10, <2>11, <2>12, <2>13 DEF TInv
<1>3. CASE ~(allTrades # <<>> /\ Active(filter))
  <2>1. /\ isFiltering' = FALSE /\ filteredTrades' = allTrades
        /\ UNCHANGED <<active, input, results, pending, jobs>>
    BY <1>3 DEF ImmediateFiltering, managerVars, taskVars, poolVars
  <2>2. NumbersOK'
    <3>1. \A x : x \in 0..filterSeq => x \in 0..filterSeq'
      BY <1>1
    <3>2. \A x : x \in 1..filterSeq => x \in 1..filterSeq'
      BY <1>1
    <3>3. filterSeq' \in Nat
      BY <1>1
    <3> QED BY <2>1, <3>1, <3>2, <3>3 DEF TInv, NumbersOK
  <2>3. TaskOK'
    BY <1>1, <2>1 DEF TInv, TaskOK
  <2>4. CurrentOK'
    <3>1. filterSeq' \notin active'
      BY <1>1, <2>1 DEF TInv, NumbersOK
    <3> QED BY <2>1, <3>1 DEF CurrentOK
  <2>5. ShownOK'
    <3>1. Shown = allTrades
      BY <1>3, NothingKept DEF Shown, Kept
    <3>2. Shown' = Shown
      BY <1>1 DEF Shown, Kept
    <3>3. ~(Active(filter) /\ allTrades # <<>>)'
      BY <1>1, <1>3 DEF Active
    <3> QED BY <1>1, <2>1, <3>1, <3>2, <3>3 DEF ShownOK
  <2> QED BY <2>2, <2>3, <2>4, <2>5 DEF TInv
<1> QED BY <1>2, <1>3

\* Steps of the user and answers of the server.
LEMMA OthersTask ==
    ASSUME IInv, TInv, NEW l, NEW r, NEW f, NEW broken,
           Select(r) \/ ConfigLoaded(l) \/ TradesLoaded(l) \/ LoadFailed(l, broken) \/ SetFilter(f)
    PROVE  TInv'
<1>1. faults \in Nat
  BY DEF IInv, QueueOK
<1>2. UNCHANGED <<managerVars, filterSeq, isFiltering>> /\ faults' \in {faults, faults + 1}
  BY DEF Select, ConfigLoaded, TradesLoaded, LoadFailed, SetFilter
<1>3. changed' = TRUE \/ UNCHANGED <<filter, allTrades, filteredTrades, hasBankruptcy, changed>>
  BY DEF Select, ConfigLoaded, TradesLoaded, LoadFailed, SetFilter
<1> QED BY <1>1, <1>2, <1>3, OtherTaskStep

\* At first there is nothing to show.
LEMMA InitTask == Init => TInv
<1> SUFFICES ASSUME Init PROVE TInv
  OBVIOUS
<1>1. <<>> \in Seq(ResultSet) /\ Len(<<>>) = 0
  OBVIOUS
<1>2. NumbersOK
  BY <1>1 DEF Init, NumbersOK, NoJob
<1>3. TaskOK /\ CurrentOK
  BY DEF Init, TaskOK, CurrentOK
<1>4. ~Active(filter) /\ allTrades = <<>> /\ filteredTrades = <<>> /\ ~filter.recalculate
  BY DEF Init, Active
<1>5. Shown = filteredTrades
  BY <1>4 DEF Shown, Kept
<1>6. ShownOK
  BY <1>4, <1>5 DEF ShownOK
<1> QED BY <1>2, <1>3, <1>6 DEF TInv

\* Each chunk of a task is accounted for, and a task delivers what its filter keeps.
THEOREM TaskInvariance == Spec => []TInv
<1>1. IInv /\ TInv /\ [Next]_vars => TInv'
  <2> SUFFICES ASSUME IInv, TInv, [Next]_vars PROVE TInv'
    OBVIOUS
  <2>1. CASE Next
    BY <2>1, OthersTask, ImmediateFilteringTask, WorkerAnswersTask, HandleTaskErrorTask,
       HandleWorkerErrorTask DEF Next
  <2>2. CASE UNCHANGED vars
    <3>1. UNCHANGED <<managerVars, filterSeq, isFiltering, filter, allTrades, filteredTrades,
                      hasBankruptcy, changed, faults>>
      BY <2>2 DEF vars, providerVars
    <3>2. faults \in Nat
      BY DEF IInv, QueueOK
    <3> QED BY <3>1, <3>2, OtherTaskStep
  <2> QED BY <2>1, <2>2
<1> QED BY <1>1, Inductive, InitTask, PTL DEF Spec

\* Whatever order the workers answer in and whatever was asked before, what is shown is
\* what the filter keeps of the list (TradeFilterManager.ts handleTaskResult,
\* TradeFilterProvider.tsx filteringRequestSeqRef).
THEOREM ShownIsFilteredHolds == Spec => []ShownIsFiltered
<1>1. TInv => ShownIsFiltered
  BY DEF TInv, ShownOK, Shown, ShownIsFiltered
<1> QED BY <1>1, TaskInvariance, PTL

-----------------------------------------------------------------------------
(* Counting the chunks.                                                    *)

\* A function that gives different values counts what it is given.
LEMMA ImageCount ==
    ASSUME NEW S, IsFiniteSet(S), NEW T, NEW g \in [S -> T], \A x, y \in S : g[x] = g[y] => x = y,
           \A t \in T : \E x \in S : g[x] = t
    PROVE  IsFiniteSet(T) /\ Cardinality(T) = Cardinality(S)
<1>1. g \in Bijection(S, T)
  BY DEF Bijection, Injection, Surjection, IsInjective
<1>2. ExistsBijection(S, T)
  BY <1>1 DEF ExistsBijection
<1> QED BY <1>2, FS_Bijection

\* The chunks that are filtered and those at workers make up those handed over.
LEMMA HandedCount ==
    ASSUME NEW id, NEW c, NEW j, NEW q, NEW r \in Seq(ResultSet), Accounted(id, c, j, q, r, 0),
           Len(c) \in Nat, Len(q) \in Nat
    PROVE  Len(r) + Cardinality({w \in Workers : j[w].task = id}) + Len(q) = Len(c)
<1>1. PICK h : h = Handed(c, q)
  OBVIOUS
<1>2. h \in Nat /\ h + Len(q) = Len(c)
  BY <1>1 DEF Accounted, Handed
<1>3. PICK n \in Nat : n = Len(r)
  BY LenProperties
<1>4. PICK B : B = {w \in Workers : j[w].task = id}
  OBVIOUS
<1>5. IsFiniteSet(B) /\ Cardinality(B) \in Nat
  <2>1. B \in SUBSET Workers
    BY <1>4
  <2> QED BY <2>1, TradeFilterAssumption, FS_Subset, FS_CardinalityType
<1>6. \A w \in B : j[w].index \in 1..h
  BY <1>1, <1>2, <1>4 DEF Accounted, IsPiece
<1>7. PICK IB : IB = {j[w].index : w \in B}
  OBVIOUS
<1>8. PICK IR : IR = {r[i].index : i \in 1..n}
  OBVIOUS
<1>9. IsFiniteSet(IB) /\ Cardinality(IB) = Cardinality(B)
  <2>1. PICK g : g = [w \in B |-> j[w].index]
    OBVIOUS
  <2>2. g \in [B -> IB]
    BY <1>7, <2>1
  <2>3. \A v, w \in B : g[v] = g[w] => v = w
    BY <1>4, <2>1 DEF Accounted
  <2>4. \A t \in IB : \E w \in B : g[w] = t
    BY <1>7, <2>1
  <2> QED BY <1>5, <2>2, <2>3, <2>4, ImageCount
<1>10. IsFiniteSet(IR) /\ Cardinality(IR) = n
  <2>1. PICK g : g = [i \in 1..n |-> r[i].index]
    OBVIOUS
  <2>2. PICK S : S = 1..n
    OBVIOUS
  <2>3. IsFiniteSet(S) /\ Cardinality(S) = n
    BY <2>2, CountTo
  <2>4. g \in [S -> IR]
    BY <1>8, <2>1, <2>2
  <2>5. \A i, l \in S : g[i] = g[l] => i = l
    BY <1>3, <2>1, <2>2 DEF Accounted
  <2>6. \A t \in IR : \E i \in S : g[i] = t
    BY <1>8, <2>1, <2>2
  <2> QED BY <2>3, <2>4, <2>5, <2>6, ImageCount
<1>11. IB \cap IR = {}
  <2>1. \A w \in Workers : \A i \in 1..n : j[w].task = id => j[w].index # r[i].index
    BY <1>3 DEF Accounted
  <2> QED BY <1>4, <1>7, <1>8, <2>1
<1>12. IB \cup IR = 1..h
  <2>1. IB \subseteq 1..h
    BY <1>6, <1>7
  <2>2. IR \subseteq 1..h
    BY <1>1, <1>3, <1>8 DEF Accounted
  <2>3. ASSUME NEW x \in 1..h PROVE x \in IB \cup IR
    <3>1. \/ \E w \in Workers : j[w].task = id /\ j[w].index = x
          \/ \E i \in 1..n : r[i].index = x
      BY <1>1, <1>3 DEF Accounted
    <3> QED BY <1>4, <1>7, <1>8, <3>1
  <2> QED BY <2>1, <2>2, <2>3
<1>13. Cardinality(IB \cup IR) = Cardinality(IB) + Cardinality(IR) - Cardinality(IB \cap IR)
  BY <1>9, <1>10, FS_Union
<1>14. Cardinality(IB \cap IR) = 0
  BY <1>11, FS_EmptySet
<1>15. Cardinality(IB \cup IR) = h
  BY <1>2, <1>12, CountTo
<1>16. Cardinality(B) + n = h
  BY <1>2, <1>3, <1>5, <1>9, <1>10, <1>13, <1>14, <1>15
<1> QED BY <1>2, <1>3, <1>4, <1>5, <1>16

\* Without a fault each chunk of the task is filtered, in work or waiting, once: none is
\* handed to two workers and none is lost (TradeFilterManager.ts startTask,
\* processNextTask, handleTaskResult).
THEOREM ChunksAccountedHolds == Spec => []ChunksAccounted
<1>1. IInv /\ TInv => ChunksAccounted
  <2> SUFFICES ASSUME IInv, TInv, active # {}, faults = 0
      PROVE  Len(results) + Cardinality({w \in Workers : jobs[w].task \in active}) + Len(pending)
             = Len(Chunks(input.trades))
    BY DEF ChunksAccounted
  <2>1. PICK id : active = {id}
    BY DEF TInv, NumbersOK
  <2>2. PICK c : c = Chunks(input.trades)
    OBVIOUS
  <2>3. /\ input.trades \in Seq(Trades) /\ input.trades # <<>>
        /\ Accounted(id, c, jobs, pending, results, 0)
    BY <2>1, <2>2 DEF TInv, TaskOK
  <2>4. Len(c) \in Nat /\ Len(pending) \in Nat
    BY <2>2, <2>3, ChunksOK, QueueLen DEF IInv
  <2>5. results \in Seq(ResultSet)
    BY DEF TInv, NumbersOK
  <2>6. PICK r : r = results
    OBVIOUS
  <2>7. Len(r) + Cardinality({w \in Workers : jobs[w].task = id}) + Len(pending) = Len(c)
    BY <2>3, <2>4, <2>5, <2>6, HandedCount
  <2>8. {w \in Workers : jobs[w].task = id} = {w \in Workers : jobs[w].task \in active}
    BY <2>1
  <2> QED BY <2>2, <2>6, <2>7, <2>8
<1> QED BY <1>1, Inductive, TaskInvariance, PTL

-----------------------------------------------------------------------------
(* The third inductive invariant: what is known before anybody filters.    *)

Awaited(kind) == \E l \in loads : l.kind = kind /\ l.seq = loadSeq

\* The symbols are those of the result once its configuration is here, and its trades
\* and the names and times come together; no range of numbers is set.
WholeOK ==
    /\ filter \in Filters /\ selected \in Results \cup {NoResult} /\ changes \in Nat
    /\ changes = 0 => ~filter.recalculate /\ filter.least = 0
    /\ changes = 0 /\ faults = 0 /\ selected # NoResult =>
         /\ Awaited("config") \/ filter.symbols = SymbolsOf[selected]
         /\ Awaited("trades") \/ (allTrades = TradesOf[selected] /\ filter.others)

\* A step that loads nothing and sets no filter.
LEMMA WholeStutter ==
    ASSUME WholeOK, UNCHANGED <<filter, selected, changes, loads, loadSeq, allTrades>>,
           faults \in Nat, faults' \in {faults, faults + 1}
    PROVE  WholeOK'
<1>1. faults' = 0 => faults = 0
  OBVIOUS
<1> QED BY <1>1 DEF WholeOK, Awaited

\* Both requests of a selection are sent with it.
LEMMA SelectWhole ==
    ASSUME WholeOK, NEW r \in Results \cup {NoResult}, Select(r)
    PROVE  WholeOK'
<1>1. selected' = r /\ UNCHANGED <<filter, changes>>
  BY DEF Select
<1>2. r # NoResult => loads' = loads \cup {[kind |-> k, seq |-> loadSeq', result |-> r] : k \in {"config", "trades"}}
  BY DEF Select
<1>3. r # NoResult => Awaited("config")' /\ Awaited("trades")'
  <2>1. r # NoResult => /\ [kind |-> "config", seq |-> loadSeq', result |-> r] \in loads'
                        /\ [kind |-> "trades", seq |-> loadSeq', result |-> r] \in loads'
    BY <1>2
  <2> QED BY <2>1 DEF Awaited
<1>4. /\ filter' \in Filters /\ selected' \in Results \cup {NoResult} /\ changes' \in Nat
      /\ changes' = 0 => ~filter'.recalculate /\ filter'.least = 0
  BY <1>1 DEF WholeOK
<1>5. selected' # NoResult => Awaited("config")' /\ Awaited("trades")'
  BY <1>1, <1>3
<1> QED BY <1>4, <1>5 DEF WholeOK

\* The answer of one request leaves the other to be awaited.
LEMMA LoadedWhole ==
    ASSUME IInv, WholeOK, NEW l \in loads, ConfigLoaded(l) \/ TradesLoaded(l)
    PROVE  WholeOK'
<1>1. loads' = loads \ {l} /\ UNCHANGED <<selected, loadSeq, changes, faults>>
  BY DEF ConfigLoaded, TradesLoaded
<1>2. \A kind : Awaited(kind) => Awaited(kind)' \/ (l.kind = kind /\ l.seq = loadSeq)
  BY <1>1 DEF Awaited
<1>3. l.seq = loadSeq => l.result = selected /\ selected \in Results
  BY DEF IInv, RequestsOK
<1>4. selected \in Results => SymbolsOf[selected] \in SUBSET Symbols
  BY TradeFilterAssumption
<1>5. CASE UNCHANGED <<filter, allTrades>> /\ l.seq # loadSeq
  BY <1>1, <1>2, <1>5 DEF WholeOK
<1>6. CASE ConfigLoaded(l) /\ l.seq = loadSeq
  <2>1. /\ filter' = [filter EXCEPT !.symbols = SymbolsOf[selected]] /\ allTrades' = allTrades
        /\ l.kind = "config"
    BY <1>3, <1>6 DEF ConfigLoaded
  <2>2. /\ filter' \in Filters /\ filter'.symbols = SymbolsOf[selected]
        /\ filter'.others = filter.others /\ filter'.recalculate = filter.recalculate
        /\ filter'.least = filter.least
    BY <1>3, <1>4, <1>6, <2>1 DEF WholeOK, Filters
  <2>3. Awaited("trades") => Awaited("trades")'
    BY <1>2, <2>1
  <2> QED BY <1>1, <2>1, <2>2, <2>3 DEF WholeOK
<1>7. CASE TradesLoaded(l) /\ l.seq = loadSeq
  <2>1. /\ filter' = [filter EXCEPT !.others = TRUE] /\ allTrades' = TradesOf[selected]
        /\ l.kind = "trades"
    BY <1>3, <1>7 DEF TradesLoaded
  <2>2. /\ filter' \in Filters /\ filter'.symbols = filter.symbols
        /\ filter'.others = TRUE /\ filter'.recalculate = filter.recalculate
        /\ filter'.least = filter.least
    BY <2>1 DEF WholeOK, Filters
  <2>3. Awaited("config") => Awaited("config")'
    BY <1>2, <2>1
  <2> QED BY <1>1, <2>1, <2>2, <2>3 DEF WholeOK
<1> QED BY <1>5, <1>6, <1>7 DEF ConfigLoaded, TradesLoaded

\* After a fault, or a filter of the user, nothing is claimed.
LEMMA DisturbedWhole ==
    ASSUME IInv, WholeOK, NEW l, NEW broken, NEW f,
           LoadFailed(l, broken) \/ (f \in UserFilters /\ SetFilter(f))
    PROVE  WholeOK'
<1>1. faults \in Nat /\ changes \in Nat /\ (f \in UserFilters => f \in Filters)
  BY TradeFilterAssumption DEF IInv, QueueOK, WholeOK
<1>2. CASE LoadFailed(l, broken)
  <2>1. faults' = faults + 1 /\ UNCHANGED <<filter, selected, changes>>
    BY <1>2 DEF LoadFailed
  <2>2. /\ filter' \in Filters /\ selected' \in Results \cup {NoResult} /\ changes' \in Nat
        /\ changes' = 0 => ~filter'.recalculate /\ filter'.least = 0
    BY <2>1 DEF WholeOK
  <2>3. faults' # 0
    BY <1>1, <2>1
  <2> QED BY <2>2, <2>3 DEF WholeOK
<1>3. CASE f \in UserFilters /\ SetFilter(f)
  <2>1. changes' = changes + 1 /\ filter' = f /\ selected' = selected
    BY <1>3 DEF SetFilter, loadVars
  <2>2. filter' \in Filters /\ changes' \in Nat /\ changes' # 0
    BY <1>1, <1>3, <2>1
  <2>3. selected' \in Results \cup {NoResult}
    BY <2>1 DEF WholeOK
  <2> QED BY <2>2, <2>3 DEF WholeOK
<1> QED BY <1>2, <1>3

\* What the workers and the effect leave alone.
LEMMA WorkersWhole ==
    ASSUME IInv, WholeOK, NEW w,
           ImmediateFiltering \/ WorkerAnswers(w) \/ HandleTaskError(w) \/ HandleWorkerError(w)
    PROVE  WholeOK'
<1>1. faults \in Nat
  BY DEF IInv, QueueOK
<1>2. CASE ImmediateFiltering
  <2>1. UNCHANGED <<filter, selected, changes, loads, loadSeq, allTrades, faults>>
    BY <1>2 DEF ImmediateFiltering, loadVars
  <2> QED BY <1>1, <2>1, WholeStutter
<1>3. CASE WorkerAnswers(w)
  <2>1. HandleTaskResult(jobs[w]) => UNCHANGED <<filter, allTrades>>
    BY DeliverOK DEF HandleTaskResult, providerVars
  <2>2. UNCHANGED <<filter, selected, changes, loads, loadSeq, allTrades, faults>>
    BY <1>3, <2>1 DEF WorkerAnswers, loadVars
  <2> QED BY <1>1, <2>2, WholeStutter
<1>4. CASE HandleTaskError(w)
  <2>1. UNCHANGED <<filter, allTrades>>
    BY <1>4, DeliverOK DEF HandleTaskError, providerVars
  <2>2. UNCHANGED <<filter, selected, changes, loads, loadSeq, allTrades>> /\ faults' = faults + 1
    BY <1>4, <2>1 DEF HandleTaskError, loadVars
  <2> QED BY <1>1, <2>2, WholeStutter
<1>5. CASE HandleWorkerError(w)
  <2>1. UNCHANGED <<filter, selected, changes, loads, loadSeq, allTrades>> /\ faults' = faults + 1
    BY <1>5 DEF HandleWorkerError, loadVars, providerVars
  <2> QED BY <1>1, <2>1, WholeStutter
<1> QED BY <1>2, <1>3, <1>4, <1>5

\* What is known of a result nobody filters, in every state.
THEOREM WholeInvariance == Spec => []WholeOK
<1>1. Init => WholeOK
  <2> SUFFICES ASSUME Init PROVE WholeOK
    OBVIOUS
  <2>1. /\ filter = [symbols |-> {}, others |-> FALSE, least |-> 0, recalculate |-> FALSE]
        /\ selected = NoResult /\ changes = 0
    BY DEF Init
  <2>2. filter \in Filters /\ ~filter.recalculate /\ filter.least = 0
    BY <2>1 DEF Filters
  <2> QED BY <2>1, <2>2 DEF WholeOK
<1>2. IInv /\ WholeOK /\ [Next]_vars => WholeOK'
  <2> SUFFICES ASSUME IInv, WholeOK, [Next]_vars PROVE WholeOK'
    OBVIOUS
  <2>1. CASE Next
    <3>1. CASE \E r \in Results \cup {NoResult} : Select(r)
      BY <3>1, SelectWhole
    <3>2. CASE \E l \in loads : ConfigLoaded(l) \/ TradesLoaded(l)
      BY <3>2, LoadedWhole
    <3>3. CASE \E l \in loads : \E broken \in BOOLEAN : LoadFailed(l, broken)
      BY <3>3, DisturbedWhole
    <3>4. CASE \E f \in UserFilters : SetFilter(f)
      BY <3>4, DisturbedWhole
    <3>5. CASE ImmediateFiltering
      BY <3>5, WorkersWhole
    <3>6. CASE \E w \in Workers : WorkerAnswers(w) \/ HandleTaskError(w) \/ HandleWorkerError(w)
      BY <3>6, WorkersWhole
    <3> QED BY <2>1, <3>1, <3>2, <3>3, <3>4, <3>5, <3>6 DEF Next
  <2>2. CASE UNCHANGED vars
    <3>1. UNCHANGED <<filter, selected, changes, loads, loadSeq, allTrades, faults>> /\ faults \in Nat
      BY <2>2 DEF vars, providerVars, loadVars, IInv, QueueOK
    <3> QED BY <3>1, WholeStutter
  <2> QED BY <2>1, <2>2
<1> QED BY <1>1, <1>2, Inductive, PTL DEF Spec

\* A result that nobody filters is shown whole, in whichever order its configuration and
\* its trades arrive and whatever was selected before (TradeFilterProvider.tsx, the two
\* effects on selectedResult).
THEOREM ShownWholeHolds == Spec => []ShownWhole
<1>1. TInv /\ WholeOK => ShownWhole
  <2> SUFFICES ASSUME TInv, WholeOK, Settled, changes = 0, faults = 0, selected # NoResult,
                      {l \in loads : l.seq = loadSeq} = {}
      PROVE  filteredTrades = TradesOf[selected]
    BY DEF ShownWhole
  <2>1. ~Awaited("config") /\ ~Awaited("trades")
    BY DEF Awaited
  <2>2. /\ selected \in Results /\ ~filter.recalculate /\ filter.symbols = SymbolsOf[selected]
        /\ filter.others /\ filter.least = 0 /\ allTrades = TradesOf[selected]
    BY <2>1 DEF WholeOK
  <2>3. filteredTrades = Kept
    BY <2>2 DEF TInv, ShownOK, Shown
  <2>4. Active(filter)
    BY <2>2 DEF Active
  <2>5. PICK trades : trades = allTrades
    OBVIOUS
  <2>6. trades \in Seq(Trades)
    BY <2>2, <2>5, TradeFilterAssumption
  <2>7. \A i \in 1..Len(trades) : Passes(filter, trades[i])
    <3>1. DOMAIN trades = 1..Len(trades)
      BY <2>6, LenProperties
    <3>2. \A i \in DOMAIN trades : trades[i].number # 0 => trades[i].symbol \in SymbolsOf[selected]
      BY <2>2, <2>5, TradeFilterAssumption
    <3>3. \A i \in 1..Len(trades) : trades[i].number \in Nat
      BY <2>6, ElementOfSeq, TradeFilterAssumption
    <3> QED BY <2>2, <3>1, <3>2, <3>3 DEF Passes, IsRowZero
  <2>8. Filtered(filter, trades) = trades
    BY <2>6, <2>7, AllPass
  <2> QED BY <2>2, <2>3, <2>4, <2>5, <2>8 DEF Kept
<1> QED BY <1>1, TaskInvariance, WholeInvariance, PTL

-----------------------------------------------------------------------------
(* Balances calculated anew.                                               *)

\* Each balance is the one before and the trade's own profit.
LEMMA BalancesEquations ==
    ASSUME NEW trades \in Seq(Trades), trades # <<>>
    PROVE  /\ BalanceAt(trades, 1) = trades[1].balance
           /\ \A i \in 2..Len(trades) : BalanceAt(trades, i) = BalanceAt(trades, i - 1) + trades[i].profit
           /\ \A i \in 1..Len(trades) : BalanceAt(trades, i) \in Int
<1>1. /\ Len(trades) \in Nat \ {0} /\ \A i \in 1..Len(trades) : trades[i] \in Trades
  BY LenProperties, ElementOfSeq, EmptySeq
<1> DEFINE balance == Balances(trades)
           n == Len(trades)
           b == trades[1].balance
           Is(g) == g = [i \in 1..n |-> IF i = 1 THEN trades[1].balance ELSE g[i - 1] + trades[i].profit]
           F == [x \in (1..n) \X Int |-> x[2] + trades[x[1]].profit]
<1>2. b \in Int /\ \A i \in 1..n : trades[i].profit \in Int
  BY <1>1, TradeFilterAssumption
<1>3. F \in [(1..n) \X Int -> Int]
  <2>1. ASSUME NEW x \in (1..n) \X Int PROVE F[x] \in Int
    <3>1. x[1] \in 1..n /\ x[2] \in Int
      BY <2>1
    <3>2. trades[x[1]].profit \in Int
      BY <1>2, <3>1
    <3> QED BY <2>1, <3>1, <3>2
  <2> QED BY <2>1
<1>4. PICK g \in [1..n -> Int] : Follows(g, 1, n, b, F)
  <2>1. n \in Nat /\ b \in Int
    BY <1>1, <1>2
  <2> HIDE DEF F, n, b
  <2> QED BY <1>3, <2>1, FollowsExists
<1>5. Is(g)
  <2>1. \A i \in 1..n : g[i] = IF i = 1 THEN b ELSE F[<<i, g[i - 1]>>]
    <3>1. g = [i \in 1..n |-> IF i = 1 THEN b ELSE F[<<i, g[i - 1]>>]]
      <4> HIDE DEF F, n, b
      <4> QED BY <1>4, Zenon DEF Follows
    <3> HIDE DEF F, n, b
    <3> QED BY <3>1, Zenon
  <2>2. ASSUME NEW i \in 1..n, i # 1
        PROVE  F[<<i, g[i - 1]>>] = g[i - 1] + trades[i].profit
    <3>1. <<i, g[i - 1]>> \in (1..n) \X Int
      <4>1. i - 1 \in 1..n
        BY <1>1, <2>2
      <4>2. g[i - 1] \in Int
        <5> HIDE DEF F
        <5> QED BY <1>4, <4>1
      <4> QED BY <4>2
    <3> QED BY <2>2, <3>1
  <2>3. g = [i \in 1..n |-> g[i]]
    BY <1>4
  <2> HIDE DEF F
  <2> QED BY <2>1, <2>2, <2>3
<1>6. Is(balance)
  <2>1. balance = CHOOSE h : Is(h)
    BY DEF Balances
  <2> HIDE DEF Is, balance
  <2> QED BY <1>5, <2>1
<1>7. /\ balance[1] = b
      /\ \A i \in 2..n : balance[i] = balance[i - 1] + trades[i].profit
  <2>1. \A i \in 1..n : balance[i] = IF i = 1 THEN trades[1].balance ELSE balance[i - 1] + trades[i].profit
    <3> HIDE DEF balance
    <3> QED BY <1>6, Zenon
  <2>2. 1 \in 1..n /\ \A i \in 2..n : i \in 1..n /\ i # 1
    BY <1>1
  <2> HIDE DEF balance
  <2> QED BY <2>1, <2>2
<1>8. 0..n \subseteq {i \in 0..n : i = 0 \/ balance[i] \in Int}
  <2> HIDE DEF balance
  <2> DEFINE T == {i \in 0..n : i = 0 \/ balance[i] \in Int}
  <2>1. 0 \in T /\ n \in Nat
    BY <1>1
  <2>2. ASSUME NEW k \in 1..n, k - 1 \in T PROVE k \in T
    <3>1. CASE k = 1
      BY <1>2, <1>7, <2>1, <3>1
    <3>2. CASE k # 1
      <4>1. k \in 2..n /\ k - 1 # 0 /\ balance[k - 1] \in Int
        BY <2>1, <2>2, <3>2
      <4>2. balance[k] = balance[k - 1] + trades[k].profit /\ trades[k].profit \in Int
        BY <1>2, <1>7, <4>1
      <4>3. balance[k] \in Int
        BY <4>1, <4>2
      <4> QED BY <2>1, <4>3
    <3> QED BY <3>1, <3>2
  <2> HIDE DEF T
  <2>3. 0..n \subseteq T
    BY <2>1, <2>2, UpTo
  <2> QED BY <2>3 DEF T
<1>9. \A i \in 1..n : balance[i] \in Int
  BY <1>1, <1>8
<1> QED BY <1>7, <1>9 DEF BalanceAt

\* How many different numbers the rows from the second to row i have.
Different(trades, i) == Cardinality({trades[j].number : j \in 2..i})

\* A row that is renumbered gets the count at the first row of its number.
LEMMA FirstOfNumber ==
    ASSUME NEW trades, NEW i \in Nat, i >= 2
    PROVE  \E first \in 2..i :
              /\ trades[first].number = trades[i].number
              /\ \A j \in 2..i : trades[j].number = trades[i].number => first <= j
              /\ Renumbered(trades, i) = Different(trades, first)
<1>1. PICK S : S = {j \in 2..i : trades[j].number = trades[i].number}
  OBVIOUS
<1>2. S \subseteq Nat /\ i \in S
  BY <1>1
<1>3. PICK first : first = Min(S)
  OBVIOUS
<1>4. \E x \in S : \A y \in S : x =< y
  BY <1>2, LeastNat
<1>5. first \in S /\ \A y \in S : first =< y
  BY <1>3, <1>4 DEF Min
<1>6. Renumbered(trades, i) = Different(trades, first)
  BY <1>1, <1>3 DEF Renumbered, Different
<1> QED BY <1>1, <1>5, <1>6

\* One row more has one number more, or the same ones.
LEMMA DifferentNext ==
    ASSUME NEW trades, NEW k \in Nat, k >= 2, IsFiniteSet({trades[j].number : j \in 2..k - 1})
    PROVE  /\ IsFiniteSet({trades[j].number : j \in 2..k})
           /\ Different(trades, k) = IF \E j \in 2..k - 1 : trades[j].number = trades[k].number
                                     THEN Different(trades, k - 1) ELSE Different(trades, k - 1) + 1
<1>1. PICK A : A = {trades[j].number : j \in 2..k - 1}
  OBVIOUS
<1>2. PICK B : B = {trades[j].number : j \in 2..k}
  OBVIOUS
<1>3. PICK x : x = trades[k].number
  OBVIOUS
<1>4. B = A \cup {x}
  <2>1. \A j \in 2..k : j \in 2..k - 1 \/ j = k
    OBVIOUS
  <2>2. k \in 2..k /\ \A j \in 2..k - 1 : j \in 2..k
    OBVIOUS
  <2> QED BY <1>1, <1>2, <1>3, <2>1, <2>2
<1>5. x \in A <=> \E j \in 2..k - 1 : trades[j].number = trades[k].number
  BY <1>1, <1>3
<1>6. IsFiniteSet(B) /\ Cardinality(B) = IF x \in A THEN Cardinality(A) ELSE Cardinality(A) + 1
  BY <1>1, <1>4, FS_AddElement
<1> QED BY <1>1, <1>2, <1>5, <1>6 DEF Different

\* The numbers of row 0 and of the rows up to e.
NumbersUpTo(trades, e) == {IF i = 1 THEN 0 ELSE Renumbered(trades, i) : i \in 1..e}

\* The numbers given anew have no gap.
LEMMA NoGap ==
    ASSUME NEW trades, NEW e \in Nat, e >= 1
    PROVE  \E n \in 0..e : NumbersUpTo(trades, e) = 0..n
<1> DEFINE D(i) == Different(trades, i)
           R(i) == Renumbered(trades, i)
           Upto(k) == /\ IsFiniteSet({trades[j].number : j \in 2..k})
                      /\ D(k) \in Nat /\ D(k) < k
                      /\ \A i \in 2..k : D(i) \in 0..D(k) /\ R(i) \in 0..D(k)
                      /\ \A d \in 1..D(k) : \E i \in 2..k : R(i) = d
           T == {k \in 0..e : k = 0 \/ Upto(k)}
<1>1. Upto(1)
  <2>1. {trades[j].number : j \in 2..1} = {}
    OBVIOUS
  <2>2. D(1) = 0 /\ IsFiniteSet({trades[j].number : j \in 2..1})
    BY <2>1, FS_EmptySet DEF Different
  <2>3. \A i \in 2..1 : FALSE
    OBVIOUS
  <2>4. \A d \in 1..D(1) : FALSE
    BY <2>2
  <2> HIDE DEF D, R
  <2> QED BY <2>2, <2>3, <2>4
<1>2. ASSUME NEW k \in 2..e, Upto(k - 1) PROVE Upto(k)
  <2>1. k \in Nat /\ k >= 2
    BY <1>2
  <2>2. PICK m \in Nat : m = k - 1
    BY <2>1
  <2>3. /\ IsFiniteSet({trades[j].number : j \in 2..m})
        /\ D(m) \in Nat /\ D(m) < m
        /\ \A i \in 2..m : D(i) \in 0..D(m) /\ R(i) \in 0..D(m)
        /\ \A d \in 1..D(m) : \E i \in 2..m : R(i) = d
    <3> HIDE DEF D, R
    <3> QED BY <1>2, <2>2
  <2>4. /\ IsFiniteSet({trades[j].number : j \in 2..k})
        /\ D(k) = IF \E j \in 2..m : trades[j].number = trades[k].number THEN D(m) ELSE D(m) + 1
    BY <2>1, <2>2, <2>3, DifferentNext
  <2>5. PICK first \in 2..k :
              /\ trades[first].number = trades[k].number
              /\ \A j \in 2..k : trades[j].number = trades[k].number => first <= j
              /\ R(k) = D(first)
    BY <2>1, FirstOfNumber
  <2> HIDE DEF D, R
  <2>6. \A i \in 2..k : i \in 2..m \/ i = k
    BY <2>1, <2>2
  <2>7. D(m) <= D(k) /\ D(k) \in Nat /\ D(k) < k
    BY <2>2, <2>3, <2>4
  <2>8. R(k) \in 0..D(k)
    <3>1. CASE first = k
      BY <2>5, <2>7, <3>1
    <3>2. CASE first # k
      <4>1. first \in 2..m
        BY <2>6, <3>2
      <4>2. D(first) \in 0..D(m)
        BY <2>3, <4>1
      <4> QED BY <2>3, <2>5, <2>7, <4>2
    <3> QED BY <3>1, <3>2
  <2>9. ASSUME NEW i \in 2..k PROVE D(i) \in 0..D(k) /\ R(i) \in 0..D(k)
    <3>1. CASE i \in 2..m
      BY <2>3, <2>7, <3>1
    <3>2. CASE i = k
      BY <2>7, <2>8, <3>2
    <3> QED BY <2>6, <3>1, <3>2
  <2>10. ASSUME NEW d \in 1..D(k) PROVE \E i \in 2..k : R(i) = d
    <3>1. CASE d \in 1..D(m)
      <4>1. PICK i \in 2..m : R(i) = d
        BY <2>3, <3>1
      <4>2. i \in 2..k
        BY <2>1, <2>2
      <4> QED BY <4>1, <4>2
    <3>2. CASE d \notin 1..D(m)
      <4>1. D(k) = D(m) + 1 /\ d = D(k) /\ ~(\E j \in 2..m : trades[j].number = trades[k].number)
        BY <2>3, <2>4, <3>2
      <4>2. first = k
        BY <2>5, <2>6, <4>1
      <4>3. k \in 2..k
        BY <2>1
      <4> QED BY <2>5, <4>1, <4>2, <4>3
    <3> QED BY <3>1, <3>2
  <2> QED BY <2>4, <2>7, <2>9, <2>10
<1>3. 0 \in T
  OBVIOUS
<1>4. ASSUME NEW k \in 1..e, k - 1 \in T PROVE k \in T
  <2>1. CASE k = 1
    <3> HIDE DEF Upto
    <3> QED BY <1>1, <2>1
  <2>2. CASE k # 1
    <3> HIDE DEF Upto
    <3>1. k \in 2..e /\ k - 1 # 0
      BY <2>2
    <3>2. Upto(k - 1)
      BY <1>4, <3>1
    <3>3. Upto(k)
      BY <1>2, <3>1, <3>2
    <3> QED BY <3>3
  <2> QED BY <2>1, <2>2
<1>5. Upto(e)
  <2>1. 0..e \subseteq T
    <3> HIDE DEF T
    <3> QED BY <1>3, <1>4, UpTo
  <2>2. e \in T
    <3> HIDE DEF T
    <3> QED BY <2>1
  <2> HIDE DEF Upto
  <2> QED BY <2>2
<1> DEFINE N(i) == IF i = 1 THEN 0 ELSE R(i)
<1>6. {N(i) : i \in 1..e} = 0..D(e)
  <2> HIDE DEF D, R
  <2>1. ASSUME NEW i \in 1..e PROVE N(i) \in 0..D(e)
    <3>1. CASE i = 1
      BY <1>5, <3>1
    <3>2. CASE i # 1
      <4>1. i \in 2..e
        BY <3>2
      <4> QED BY <1>5, <3>2, <4>1
    <3> QED BY <3>1, <3>2
  <2>2. ASSUME NEW d \in 0..D(e) PROVE \E i \in 1..e : N(i) = d
    <3>1. CASE d = 0
      <4>1. 1 \in 1..e /\ N(1) = 0
        OBVIOUS
      <4> QED BY <3>1, <4>1
    <3>2. CASE d # 0
      <4>1. d \in 1..D(e)
        BY <1>5, <3>2
      <4>2. PICK i \in 2..e : R(i) = d
        BY <1>5, <4>1
      <4>3. i \in 1..e /\ i # 1
        OBVIOUS
      <4>4. N(i) = d
        BY <4>2, <4>3
      <4> QED BY <4>3, <4>4
    <3> QED BY <3>1, <3>2
  <2> HIDE DEF N
  <2> QED BY <2>1, <2>2
<1>7. D(e) \in 0..e
  <2> HIDE DEF D, R
  <2> QED BY <1>5
<1> QED BY <1>6, <1>7 DEF NumbersUpTo

\* What passes of a list starts with its row 0.
LEMMA FilteredHead ==
    ASSUME NEW f, NEW trades \in Seq(Trades), trades # <<>>, IsRowZero(trades[1])
    PROVE  LET kept == Filtered(f, trades)
           IN  kept \in Seq(Trades) /\ kept # <<>> /\ kept[1] = trades[1]
<1>1. PICK n \in Nat : n = Len(trades) /\ n >= 1
  BY LenProperties, EmptySeq
<1>2. PICK k \in Nat : k = n - 1
  BY <1>1
<1>3. 1 \in 1..Len(trades) /\ 1 + k <= Len(trades) /\ Len(trades) = k + 1
  BY <1>1, <1>2
<1>4. Passes(f, trades[1])
  BY DEF Passes
<1>5. \A j \in 1..k : trades[j + 1] = trades[1 + j]
  OBVIOUS
<1>6. PICK c : c = trades
  OBVIOUS
<1>7. PICK low \in 1..Len(trades) : low = 1
  BY <1>3
<1>8. /\ c \in Seq(Trades) /\ Len(c) = k + 1 /\ c[1] = trades[1] /\ low + k <= Len(trades)
      /\ \A j \in 1..k : c[j + 1] = trades[low + j]
  BY <1>3, <1>5, <1>6, <1>7
<1>9. Filtered(f, c) \in Seq(Trades) /\ Filtered(f, c) # <<>> /\ Head(Filtered(f, c)) = trades[1]
  BY <1>4, <1>8, ChunkFiltered
<1> QED BY <1>6, <1>9

\* What is promised of a list s, made of trades, and of the ruin that is told.
SoundBalances(s, ruin, trades) ==
    /\ \A i \in 2..Len(s) : s[i].balance = s[i - 1].balance + s[i].profit /\ s[i].balance >= 0
    /\ \E n \in 0..Len(s) : {s[i].number : i \in DOMAIN s} = 0..n
    /\ ruin <=> Len(s) < Len(trades)

\* Recalculated balances follow one from another up to the first that is negative, which
\* is told; the numbers have no gap.
LEMMA RecalculatedOK ==
    ASSUME NEW trades \in Seq(Trades), trades # <<>>, IsRowZero(trades[1]), NEW all,
           NEW made, made = Recalculated(trades, all), made.trades # all
    PROVE  SoundBalances(made.trades, made.bankrupt, trades)
<1>1. PICK len \in Nat : len = Len(trades) /\ len >= 1
  BY LenProperties, EmptySeq
<1>2. CASE Len(trades) <= 1
  <2>1. made.trades = trades /\ made.bankrupt = FALSE
    BY <1>2 DEF Recalculated
  <2>2. Len(trades) = 1 /\ trades[1].number = 0
    BY <1>1, <1>2 DEF IsRowZero
  <2>3. DOMAIN trades = {1}
    BY <2>2, LenProperties
  <2>4. {trades[i].number : i \in DOMAIN trades} = 0..0
    BY <2>2, <2>3
  <2>5. 0 \in 0..Len(trades)
    BY <2>2
  <2>6. \A i \in 2..Len(trades) : FALSE
    BY <2>2
  <2>7. ~(Len(trades) < Len(trades))
    BY <2>2
  <2>8. SoundBalances(trades, FALSE, trades)
    BY <2>4, <2>5, <2>6, <2>7 DEF SoundBalances
  <2> QED BY <2>1, <2>8
<1>3. CASE ~(Len(trades) <= 1)
  <2>1. PICK end : end = IF Bankrupt(trades) = {} THEN Len(trades) ELSE Min(Bankrupt(trades)) - 1
    OBVIOUS
  <2>2. PICK shown : shown = made.trades
    OBVIOUS
  <2>3. /\ shown = [i \in 1..end |->
                      IF i = 1 THEN trades[1]
                      ELSE [trades[i] EXCEPT !.balance = BalanceAt(trades, i),
                                             !.number = Renumbered(trades, i)]]
        /\ made.bankrupt = (Bankrupt(trades) # {})
    <3>1. ~([i \in DOMAIN trades |-> trades[i].number] = [i \in DOMAIN all |-> all[i].number])
      BY <1>3 DEF Recalculated
    <3> QED BY <1>3, <2>1, <2>2, <3>1 DEF Recalculated
  <2>4. Bankrupt(trades) \subseteq 2..len /\ Bankrupt(trades) \subseteq Nat
    BY <1>1 DEF Bankrupt
  <2>5. /\ end \in Nat /\ end >= 1 /\ end <= len
        /\ Bankrupt(trades) # {} <=> end < len
        /\ \A i \in 2..end : i \notin Bankrupt(trades)
    <3>1. CASE Bankrupt(trades) = {}
      BY <1>1, <2>1, <3>1
    <3>2. CASE Bankrupt(trades) # {}
      <4>1. PICK S : S = Bankrupt(trades)
        OBVIOUS
      <4>2. \E x \in S : \A y \in S : x =< y
        BY <2>4, <3>2, <4>1, LeastNat
      <4>3. PICK first : first = Min(S)
        OBVIOUS
      <4>4. first \in S /\ \A y \in S : first =< y
        BY <4>2, <4>3 DEF Min
      <4>5. end = first - 1 /\ first \in 2..len
        BY <2>1, <2>4, <3>2, <4>1, <4>3, <4>4
      <4> QED BY <1>1, <3>2, <4>1, <4>4, <4>5
    <3> QED BY <3>1, <3>2
  <2>6. \A i \in 1..len : BalanceAt(trades, i) \in Int
    BY <1>1, BalancesEquations
  <2>7. /\ BalanceAt(trades, 1) = trades[1].balance
        /\ \A i \in 2..len : BalanceAt(trades, i) = BalanceAt(trades, i - 1) + trades[i].profit
    BY <1>1, BalancesEquations
  <2>8. \A i \in 1..len : DOMAIN trades[i] = {"number", "symbol", "profit", "balance"}
    BY <1>1, ElementOfSeq, TradeFilterAssumption
  <2>9. ASSUME NEW i \in 1..end
        PROVE  /\ shown[i].balance = BalanceAt(trades, i)
               /\ shown[i].number = IF i = 1 THEN 0 ELSE Renumbered(trades, i)
               /\ i # 1 => shown[i].profit = trades[i].profit
    <3>1. CASE i = 1
      BY <2>3, <2>7, <3>1 DEF IsRowZero
    <3>2. CASE i # 1
      <4>1. shown[i] = [trades[i] EXCEPT !.balance = BalanceAt(trades, i), !.number = Renumbered(trades, i)]
        BY <2>3, <3>2
      <4>2. i \in 1..len
        BY <1>1, <2>5
      <4>3. DOMAIN trades[i] = {"number", "symbol", "profit", "balance"}
        BY <2>8, <4>2
      <4> QED BY <3>2, <4>1, <4>3
    <3> QED BY <3>1, <3>2
  <2>10. Len(shown) = end /\ DOMAIN shown = 1..end
    <3>1. shown = [i \in 1..end |-> shown[i]]
      BY <2>3
    <3> QED BY <2>5, <3>1
  <2>11. ASSUME NEW i \in 2..end
         PROVE  shown[i].balance = shown[i - 1].balance + shown[i].profit /\ shown[i].balance >= 0
    <3>1. i \in 1..end /\ i - 1 \in 1..end /\ i # 1 /\ i \in 2..len /\ i \in 1..len
      BY <1>1, <2>5
    <3>2. /\ shown[i].balance = BalanceAt(trades, i) /\ shown[i - 1].balance = BalanceAt(trades, i - 1)
          /\ shown[i].profit = trades[i].profit
      BY <2>9, <3>1
    <3>3. ~(BalanceAt(trades, i) < 0)
      BY <1>1, <2>5, <3>1 DEF Bankrupt
    <3>4. BalanceAt(trades, i) \in Int
      BY <2>6, <3>1
    <3>5. BalanceAt(trades, i) >= 0
      BY <3>3, <3>4
    <3> QED BY <2>7, <3>1, <3>2, <3>5
  <2>12. \E n \in 0..end : {shown[i].number : i \in 1..end} = 0..n
    <3>1. PICK n \in 0..end : NumbersUpTo(trades, end) = 0..n
      BY <2>5, NoGap
    <3>2. {shown[i].number : i \in 1..end} = NumbersUpTo(trades, end)
      BY <2>9 DEF NumbersUpTo
    <3> QED BY <3>1, <3>2
  <2>13. made.bankrupt <=> Len(shown) < Len(trades)
    BY <1>1, <2>3, <2>5, <2>10
  <2>14. \A i \in 2..Len(shown) :
            shown[i].balance = shown[i - 1].balance + shown[i].profit /\ shown[i].balance >= 0
    BY <2>10, <2>11
  <2>15. \E n \in 0..Len(shown) : {shown[i].number : i \in DOMAIN shown} = 0..n
    BY <2>10, <2>12
  <2>16. SoundBalances(shown, made.bankrupt, trades)
    BY <2>13, <2>14, <2>15, Zenon DEF SoundBalances
  <2> QED BY <2>2, <2>16
<1> QED BY <1>2, <1>3

\* Balances calculated anew follow one from another, none is negative, trades are numbered
\* without a gap, and a ruin is told exactly when it cuts the list (TradeFilterManager.ts
\* handleTaskResult, TradeFilterProvider.tsx setHasBankruptcy).
THEOREM BalancesFollowHolds == Spec => []BalancesFollow
<1>1. IInv /\ TInv => BalancesFollow
  <2> SUFFICES ASSUME IInv, TInv, Settled, filter.recalculate, filteredTrades # <<>>,
                      Len(filteredTrades) # Len(allTrades)
      PROVE  SoundBalances(filteredTrades, hasBankruptcy, Kept)
    BY DEF BalancesFollow, SoundBalances
  <2>1. /\ filteredTrades = Shown
        /\ Active(filter) /\ allTrades # <<>> => hasBankruptcy = Recalculated(Kept, allTrades).bankrupt
    BY DEF TInv, ShownOK
  <2>2. Active(filter)
    BY <2>1 DEF Shown, Kept
  <2>3. Kept = Filtered(filter, allTrades) /\ Shown = Recalculated(Kept, allTrades).trades
    BY <2>2 DEF Shown, Kept
  <2>4. allTrades # <<>>
    BY <2>1, <2>3, NothingKept
  <2>5. allTrades \in Seq(Trades) /\ IsRowZero(allTrades[1])
    BY <2>4, ListOK DEF IInv
  <2>6. PICK trades : trades = Kept
    OBVIOUS
  <2>7. trades \in Seq(Trades) /\ trades # <<>> /\ IsRowZero(trades[1])
    BY <2>3, <2>4, <2>5, <2>6, FilteredHead
  <2>8. PICK all : all = allTrades
    OBVIOUS
  <2>9. PICK made : made = Recalculated(trades, all)
    OBVIOUS
  <2>10. made.trades = filteredTrades /\ made.trades # all /\ hasBankruptcy = made.bankrupt
    BY <2>1, <2>2, <2>3, <2>4, <2>6, <2>8, <2>9
  <2>11. SoundBalances(made.trades, made.bankrupt, trades)
    BY <2>7, <2>9, <2>10, RecalculatedOK
  <2> QED BY <2>6, <2>10, <2>11
<1> QED BY <1>1, Inductive, TaskInvariance, PTL
=============================================================================
