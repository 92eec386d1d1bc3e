------------------------- MODULE BacktestLoop_proofs -------------------------
(***************************************************************************)
(* Proofs about BacktestLoop, for any number of symbols, names, prices,    *)
(* bars, orders and calls.                                                 *)
(***************************************************************************)
EXTENDS BacktestLoop, SequenceTheorems, FiniteSetTheorems, WellFoundedInduction, TLAPS

-----------------------------------------------------------------------------
(* The inductive invariant.                                                *)

NamesDiffer(v) == \A i, j \in DOMAIN v : i # j => v[i].name # v[j].name

\* The entries that are filled, wait or are in the queue.
EntryOrders ==
    (UNION {Range(filled[s]) \cup entries[s] : s \in Symbols})
        \cup {queue[i].order : i \in {j \in DOMAIN queue : queue[j].signal # "EXIT"}}

\* An identity is given to one entry, whose name never changes.
OneName(K) == \A o, p \in K : o.id = p.id => o.name = p.name

\* Some entry of K has the identity and the name of o.
KnownIn(K, o) == \E p \in K : p.id = o.id /\ p.name = o.name

\* A vector of filled entries and the exits that wait beside it.
TargetsIn(X, v) == \A x \in X : \E i \in DOMAIN v : v[i].id = x.of /\ v[i].name = x.target

BooksOK ==
    /\ filled \in [Symbols -> Seq(Entries)]
    /\ entries \in [Symbols -> SUBSET Entries] /\ exits \in [Symbols -> SUBSET Exits]
    /\ queue \in Seq(Fills)

OrdersOK ==
    /\ BooksOK /\ OneName(EntryOrders)
    /\ \A s \in Symbols : /\ NamesDiffer(filled[s]) /\ TargetsIn(exits[s], filled[s])
                          /\ IsFiniteSet(entries[s]) /\ IsFiniteSet(exits[s])

\* The loops that visit the active symbols of a bar.
Visiting == {"funding", "price", "fill", "chain", "afterExit", "afterEntry", "strategy",
             "close", "closed"}

LoopOK ==
    /\ pc \in Visiting \cup {"status", "started", "ending", "barEnd", "done", "crashed"}
    /\ symbol \in {0} \cup Symbols /\ bar \in 1..NumBars + 1 /\ price \in 0..NumPrices
    /\ active \subseteq Symbols /\ ended \subseteq Symbols /\ active \cap ended = {}
    /\ pc = "status" => symbol \in Symbols \ ended /\ \A t \in active : t < symbol
    /\ pc = "ending" => symbol \in Symbols \ ended /\ active = {}
    /\ pc \in Visiting => symbol \in active
    /\ pc \in Visiting \cup {"barEnd"} => bar <= NumBars /\ ~(Symbols \subseteq ended)

ChainOK ==
    /\ justEntered \in BOOLEAN /\ justExited \in BOOLEAN
    /\ locals \in [entered : BOOLEAN, exited : BOOLEAN]
    /\ strategy \in {"ON_CLOSE", "AFTER_EXIT", "AFTER_ENTRY"} /\ caller \in {"fill", "closed"}
    /\ calls \in 0..MaxCalls /\ entered \subseteq Symbols /\ exited \subseteq Symbols

IInv == LoopOK /\ ChainOK /\ OrdersOK /\ unclosed \subseteq Ids

-----------------------------------------------------------------------------
(* Symbols in their order, and identities nobody has.                      *)

\* Every nonempty set of naturals has a least element.
LEMMA LeastNat ==
    ASSUME NEW T, T \subseteq Nat, T # {}
    PROVE  \E x \in T : \A y \in T : x <= y
<1>1. PICK x \in T : \A y \in T : ~(<<y, x>> \in OpToRel(<, Nat))
  <2>1. IsWellFoundedOn(OpToRel(<, Nat), Nat)
    BY NatLessThanWellFounded, Zenon
  <2> QED BY <2>1, WFMin, Zenon
<1>2. ASSUME NEW y \in T PROVE x <= y
  <2>1. <<y, x>> \notin OpToRel(<, Nat)
    BY <1>1
  <2>2. x \in Nat /\ y \in Nat
    OBVIOUS
  <2>3. ~(y < x)
    BY <2>1, <2>2 DEF OpToRel
  <2> QED BY <2>2, <2>3
<1> QED BY <1>2

\* The least of a nonempty set of naturals is one of them.
LEMMA MinIn ==
    ASSUME NEW S, S \subseteq Nat, S # {}
    PROVE  Min(S) \in S
<1>1. \E x \in S : \A y \in S : x =< y
  BY LeastNat
<1> QED BY <1>1 DEF Min

\* After finds the next symbol of S, if there is one.
LEMMA AfterOK ==
    ASSUME NEW S \in SUBSET Symbols, NEW s \in Nat
    PROVE  \/ After(s, S) = 0 /\ \A t \in S : ~(t > s)
           \/ After(s, S) \in S /\ After(s, S) > s /\ After(s, S) # 0
<1>1. \A t \in S : t \in Nat /\ t > 0
  BY LoopAssumption DEF Symbols
<1>2. CASE \E t \in S : t > s
  <2>1. {t \in S : t > s} \subseteq Nat /\ {t \in S : t > s} # {}
    BY <1>1, <1>2
  <2>2. After(s, S) \in {t \in S : t > s}
    BY <1>2, <2>1, MinIn DEF After
  <2> QED BY <1>1, <2>2
<1>3. CASE ~\E t \in S : t > s
  BY <1>3 DEF After
<1> QED BY <1>2, <1>3

\* The first symbol of a set that is not empty.
LEMMA FirstOK ==
    ASSUME NEW S \in SUBSET Symbols
    PROVE  IF S = {} THEN After(0, S) = 0 ELSE After(0, S) \in S
<1>1. \A t \in S : t > 0
  BY LoopAssumption DEF Symbols
<1> QED BY <1>1, AfterOK

\* A fresh identity is nobody's.
LEMMA FreshOK ==
    ASSUME FreshIds # {}
    PROVE  Fresh \in Ids /\ \A o \in EntryOrders : o.id # Fresh
<1>1. FreshIds \subseteq Nat
  BY LoopAssumption DEF FreshIds, Ids
<1>2. Fresh \in FreshIds
  BY <1>1, MinIn DEF Fresh
<1>3. Fresh \in Ids
  BY <1>2 DEF FreshIds
<1>4. ASSUME NEW s \in Symbols, NEW o \in Range(filled[s]) \cup entries[s]
      PROVE  o.id # Fresh
  <2>1. o.id \in IdsOf(Range(filled[s])) \cup IdsOf(entries[s]) \cup IdsOf(exits[s])
    BY <1>4 DEF IdsOf
  <2> QED BY <1>2, <2>1 DEF FreshIds
<1>5. ASSUME NEW i \in DOMAIN queue
      PROVE  queue[i].order.id # Fresh
  BY <1>2, <1>5 DEF FreshIds
<1> QED BY <1>3, <1>4, <1>5 DEF EntryOrders

-----------------------------------------------------------------------------
(* Vectors of filled entries.                                              *)

\* What is left of a sequence without its i-th element.
LEMMA RemoveAtOK ==
    ASSUME NEW S, NEW v \in Seq(S), NEW i \in 1..Len(v)
    PROVE  /\ RemoveAt(v, i) \in Seq(S) /\ Len(RemoveAt(v, i)) = Len(v) - 1
           /\ \A j \in 1..Len(v) - 1 : RemoveAt(v, i)[j] = IF j < i THEN v[j] ELSE v[j + 1]
<1>1. Len(v) \in Nat /\ \A j \in 1..Len(v) : v[j] \in S
  BY LenProperties, ElementOfSeq
<1>2. PICK a : a = SubSeq(v, 1, i - 1)
  OBVIOUS
<1>3. PICK b : b = SubSeq(v, i + 1, Len(v))
  OBVIOUS
<1>4. a \in Seq(S) /\ Len(a) = i - 1 /\ \A j \in 1..i - 1 : a[j] = v[j]
  BY <1>1, <1>2, SubSeqProperties
<1>5. b \in Seq(S) /\ Len(b) = Len(v) - i /\ \A j \in 1..Len(v) - i : b[j] = v[j + i]
  BY <1>1, <1>3, SubSeqProperties
<1>6. a \o b \in Seq(S) /\ Len(a \o b) = Len(v) - 1
  <2>1. a \o b \in Seq(S) /\ Len(a \o b) = Len(a) + Len(b)
    BY <1>4, <1>5, ConcatProperties
  <2> QED BY <1>1, <1>4, <1>5, <2>1
<1>7. ASSUME NEW j \in 1..Len(v) - 1
      PROVE  (a \o b)[j] = IF j < i THEN v[j] ELSE v[j + 1]
  <2>1. (a \o b)[j] = IF j <= Len(a) THEN a[j] ELSE b[j - Len(a)]
    BY <1>1, <1>4, <1>5, <1>6, ConcatProperties
  <2>2. CASE j < i
    BY <1>1, <1>4, <2>1, <2>2
  <2>3. CASE ~(j < i)
    <3>1. j - (i - 1) \in 1..Len(v) - i
      BY <1>1, <2>3
    <3>2. b[j - (i - 1)] = v[(j - (i - 1)) + i]
      BY <1>5, <3>1
    <3> QED BY <1>1, <1>4, <2>1, <2>3, <3>2
  <2> QED BY <2>2, <2>3
<1> QED BY <1>2, <1>3, <1>6, <1>7 DEF RemoveAt

\* Removing an element keeps the names apart and adds nothing.
LEMMA RemoveAtKeeps ==
    ASSUME NEW v \in Seq(Entries), NamesDiffer(v), NEW k \in 1..Len(v), NEW w, w = RemoveAt(v, k)
    PROVE  w \in Seq(Entries) /\ NamesDiffer(w) /\ Range(w) \subseteq Range(v)
<1>1. Len(v) \in Nat /\ DOMAIN v = 1..Len(v)
  BY LenProperties
<1>2. /\ w \in Seq(Entries) /\ Len(w) = Len(v) - 1 /\ DOMAIN w = 1..Len(v) - 1
      /\ \A j \in 1..Len(v) - 1 : w[j] = IF j < k THEN v[j] ELSE v[j + 1]
  BY <1>1, RemoveAtOK, LenProperties
<1>3. NamesDiffer(w)
  <2>1. SUFFICES ASSUME NEW i \in DOMAIN w, NEW j \in DOMAIN w, i # j
                 PROVE  w[i].name # w[j].name
    BY DEF NamesDiffer
  <2> DEFINE at(h) == IF h < k THEN h ELSE h + 1
  <2>2. at(i) \in DOMAIN v /\ at(j) \in DOMAIN v /\ at(i) # at(j)
    BY <1>1, <1>2, <2>1
  <2>3. w[i] = v[at(i)] /\ w[j] = v[at(j)]
    BY <1>2
  <2> HIDE DEF at
  <2> QED BY <2>2, <2>3 DEF NamesDiffer
<1>4. ASSUME NEW o \in Range(w) PROVE o \in Range(v)
  <2>1. PICK j \in 1..Len(v) - 1 : o = w[j]
    BY <1>2 DEF Range
  <2>2. j \in DOMAIN v /\ j + 1 \in DOMAIN v
    BY <1>1
  <2> QED BY <1>2, <2>1, <2>2 DEF Range
<1> QED BY <1>2, <1>3, <1>4

\* Erasing one entry keeps all those of another identity, and adds none.
LEMMA EraseOK ==
    ASSUME NEW s, filled[s] \in Seq(Entries), NamesDiffer(filled[s]), NEW id
    PROVE  /\ Erase(s, id) \in Seq(Entries) /\ NamesDiffer(Erase(s, id))
           /\ Range(Erase(s, id)) \subseteq Range(filled[s])
           /\ \A i \in DOMAIN filled[s] :
                 filled[s][i].id # id =>
                    \E j \in DOMAIN Erase(s, id) : Erase(s, id)[j] = filled[s][i]
<1>1. PICK v : v = filled[s]
  OBVIOUS
<1>2. v \in Seq(Entries) /\ Len(v) \in Nat /\ DOMAIN v = 1..Len(v)
  BY <1>1, LenProperties
<1>3. CASE Place(s, id) = {}
  <2>1. Erase(s, id) = filled[s]
    BY <1>3 DEF Erase
  <2> QED BY <2>1
<1>4. CASE Place(s, id) # {}
  <2>1. PICK k : k = CHOOSE i \in Place(s, id) : TRUE
    OBVIOUS
  <2>2. k \in 1..Len(v) /\ v[k].id = id /\ Erase(s, id) = RemoveAt(v, k)
    BY <1>1, <1>2, <1>4, <2>1 DEF Place, Erase
  <2>3. PICK w : w = RemoveAt(v, k)
    OBVIOUS
  <2>4. /\ w \in Seq(Entries) /\ Len(w) = Len(v) - 1 /\ DOMAIN w = 1..Len(v) - 1
        /\ \A j \in 1..Len(v) - 1 : w[j] = IF j < k THEN v[j] ELSE v[j + 1]
    BY <1>2, <2>2, <2>3, RemoveAtOK, LenProperties
  <2>5. NamesDiffer(w) /\ Range(w) \subseteq Range(v)
    BY <1>1, <1>2, <2>2, <2>3, RemoveAtKeeps
  <2>6. ASSUME NEW i \in DOMAIN v, v[i].id # id PROVE \E j \in DOMAIN w : w[j] = v[i]
    <3>1. CASE i < k
      <4>1. i \in 1..Len(v) - 1
        BY <1>2, <2>2, <3>1
      <4> QED BY <2>4, <3>1, <4>1
    <3>2. CASE ~(i < k)
      <4>1. i # k
        BY <2>2, <2>6
      <4>2. i - 1 \in 1..Len(v) - 1 /\ ~(i - 1 < k) /\ (i - 1) + 1 = i
        BY <1>2, <2>2, <3>2, <4>1
      <4> QED BY <2>4, <4>2
    <3> QED BY <3>1, <3>2
  <2> QED BY <1>1, <2>2, <2>3, <2>4, <2>5, <2>6
<1> QED BY <1>3, <1>4

\* A new entry goes to the end, under a name of its own.
LEMMA AppendOK ==
    ASSUME NEW u \in Seq(Entries), NamesDiffer(u), NEW e \in Entries,
           \A i \in DOMAIN u : u[i].name # e.name
    PROVE  /\ u \o <<e>> \in Seq(Entries) /\ NamesDiffer(u \o <<e>>)
           /\ Range(u \o <<e>>) = Range(u) \cup {e}
           /\ \A i \in DOMAIN u : i \in DOMAIN (u \o <<e>>) /\ (u \o <<e>>)[i] = u[i]
<1>1. PICK w : w = u \o <<e>>
  OBVIOUS
<1>2. Len(u) \in Nat /\ DOMAIN u = 1..Len(u)
  BY LenProperties
<1>3. <<e>> \in Seq(Entries) /\ Len(<<e>>) = 1 /\ <<e>>[1] = e
  OBVIOUS
<1>4. w \in Seq(Entries) /\ Len(w) = Len(u) + 1
  BY <1>1, <1>2, <1>3, ConcatProperties
<1>5. DOMAIN w = 1..Len(u) + 1
  BY <1>4, LenProperties
<1>6. \A i \in 1..Len(u) + 1 : w[i] = IF i <= Len(u) THEN u[i] ELSE <<e>>[i - Len(u)]
  BY <1>1, <1>3, <1>4, ConcatProperties
<1>7. (\A i \in 1..Len(u) : w[i] = u[i]) /\ w[Len(u) + 1] = e
  BY <1>2, <1>3, <1>6
<1>8. NamesDiffer(w)
  <2>1. SUFFICES ASSUME NEW i \in DOMAIN w, NEW j \in DOMAIN w, i # j
                 PROVE  w[i].name # w[j].name
    BY DEF NamesDiffer
  <2>2. CASE i \in 1..Len(u) /\ j \in 1..Len(u)
    BY <1>2, <1>7, <2>1, <2>2 DEF NamesDiffer
  <2>3. CASE i \in 1..Len(u) /\ j = Len(u) + 1
    BY <1>2, <1>7, <2>3
  <2>4. CASE i = Len(u) + 1 /\ j \in 1..Len(u)
    BY <1>2, <1>7, <2>4
  <2>5. (i \in 1..Len(u) \/ i = Len(u) + 1) /\ (j \in 1..Len(u) \/ j = Len(u) + 1)
    BY <1>2, <1>5
  <2> QED BY <2>1, <2>2, <2>3, <2>4, <2>5
<1>9. ASSUME NEW o PROVE o \in Range(w) <=> o \in Range(u) \cup {e}
  <2>1. o \in Range(w) <=> \E i \in 1..Len(u) + 1 : o = w[i]
    BY <1>5 DEF Range
  <2>2. o \in Range(u) <=> \E i \in 1..Len(u) : o = u[i]
    BY <1>2 DEF Range
  <2>3. \A i : i \in 1..Len(u) + 1 <=> i \in 1..Len(u) \/ i = Len(u) + 1
    BY <1>2
  <2> QED BY <1>7, <2>1, <2>2, <2>3
<1>10. \A i \in DOMAIN u : i \in DOMAIN w /\ w[i] = u[i]
  BY <1>2, <1>5, <1>7
<1>11. Range(w) = Range(u) \cup {e}
  BY <1>9
<1> QED BY <1>1, <1>4, <1>8, <1>10, <1>11

\* Nothing filled: names differ, and no exit may wait.
LEMMA EmptyOK ==
    <<>> \in Seq(Entries) /\ NamesDiffer(<<>>) /\ Range(<<>>) = {} /\ \A v : TargetsIn({}, v)
BY DEF NamesDiffer, Range, TargetsIn

\* The positions at increasing places of a vector.
KeptFrom(v, n, kept) == [i \in 1..n |-> v[kept[i]]]
Increasing(v, n, kept) ==
    kept \in [1..n -> DOMAIN v] /\ \A i, j \in 1..n : i < j => kept[i] < kept[j]

\* w holds entries of v, among them those at the places of S.
PartOf(w, v, S) ==
    /\ w \in Seq(Entries) /\ NamesDiffer(w) /\ Range(w) \subseteq Range(v)
    /\ \A i \in S : \E j \in DOMAIN w : w[j] = v[i]

\* The orders kept of a list are part of it, in its order, with their names still different.
LEMMA KeptOK ==
    ASSUME NEW v \in Seq(Entries), NamesDiffer(v), NEW n \in Nat, NEW kept, Increasing(v, n, kept)
    PROVE  PartOf(KeptFrom(v, n, kept), v, Range(kept))
<1> DEFINE w == KeptFrom(v, n, kept)
<1> USE DEF KeptFrom, Increasing
<1>1. Len(v) \in Nat /\ DOMAIN v = 1..Len(v) /\ \A i \in 1..Len(v) : v[i] \in Entries
  BY LenProperties, ElementOfSeq
<1>2. w \in Seq(Entries) /\ DOMAIN w = 1..n
  BY <1>1
<1>3. NamesDiffer(w)
  <2>1. SUFFICES ASSUME NEW i \in 1..n, NEW j \in 1..n, i # j PROVE w[i].name # w[j].name
    BY <1>2 DEF NamesDiffer
  <2>2. kept[i] \in 1..Len(v) /\ kept[j] \in 1..Len(v) /\ (i < j \/ j < i)
    BY <1>1, <2>1
  <2>3. kept[i] # kept[j]
    BY <1>1, <2>2
  <2> QED BY <1>1, <2>2, <2>3 DEF NamesDiffer
<1>4. Range(w) \subseteq Range(v)
  BY <1>2 DEF Range
<1>5. ASSUME NEW i \in Range(kept) PROVE \E j \in DOMAIN w : w[j] = v[i]
  <2>1. PICK j \in 1..n : kept[j] = i
    BY DEF Range
  <2> QED BY <1>2, <2>1
<1> QED BY <1>2, <1>3, <1>4, <1>5 DEF PartOf

-----------------------------------------------------------------------------
(* What CloseAll leaves of a vector it erases from.                        *)

IsLeft(g, v, refused, n) ==
    g = [k \in 0..n |->
           IF k = 0 THEN v
           ELSE IF k > Len(g[k - 1]) \/ g[k - 1][k].id \in refused THEN g[k - 1]
           ELSE RemoveAt(g[k - 1], k)]

\* A set of naturals that holds 0 and the successor of each of its members below
\* n holds every natural up to n.
LEMMA UpTo ==
    ASSUME NEW n \in Nat, NEW T, 0 \in T,
           \A i \in 1..n : i - 1 \in T => i \in T
    PROVE  0..n \subseteq T
<1> DEFINE Bad == {i \in 0..n : i \notin T}
<1>1. SUFFICES ASSUME Bad # {} PROVE FALSE
  OBVIOUS
<1>2. PICK x \in Bad : \A y \in Bad : x <= y
  <2>1. Bad \subseteq Nat
    OBVIOUS
  <2> HIDE DEF Bad
  <2> QED BY <1>1, <2>1, LeastNat, Zenon
<1>3. x # 0 /\ x \in 1..n
  OBVIOUS
<1>4. x - 1 \in T
  BY <1>2, <1>3
<1> QED BY <1>3, <1>4

\* The recursive definition in CloseAllSteps does define a function.
LEMMA LeftExists ==
    ASSUME NEW v, NEW refused, NEW n \in Nat
    PROVE  \E g : IsLeft(g, v, refused, n)
<1> DEFINE step(k, u) == IF k > Len(u) \/ u[k].id \in refused THEN u ELSE RemoveAt(u, k)
           T == {k \in 0..n : \E g : IsLeft(g, v, refused, k)}
<1>1. 0 \in T
  <2>1. IsLeft([k \in 0..0 |-> v], v, refused, 0)
    BY DEF IsLeft
  <2> QED BY <2>1
<1>2. ASSUME NEW m \in 1..n, m - 1 \in T PROVE m \in T
  <2>1. PICK g : IsLeft(g, v, refused, m - 1)
    BY <1>2
  <2> HIDE DEF step
  <2>2. \A k \in 0..m - 1 : g[k] = IF k = 0 THEN v ELSE step(k, g[k - 1])
    BY <2>1 DEF IsLeft, step
  <2> DEFINE h == [k \in 0..m |-> IF k = m THEN step(m, g[m - 1]) ELSE g[k]]
  <2>3. ASSUME NEW k \in 0..m
        PROVE  h[k] = IF k = 0 THEN v ELSE step(k, h[k - 1])
    <3>1. CASE k = m
      <4>1. h[k] = step(m, g[m - 1]) /\ h[k - 1] = g[m - 1] /\ k # 0
        BY <3>1
      <4> HIDE DEF h
      <4> QED BY <3>1, <4>1
    <3>2. CASE k # m
      <4>1. k \in 0..m - 1 /\ (k # 0 => k - 1 \in 0..m /\ k - 1 # m)
        BY <3>2
      <4>2. h[k] = g[k] /\ (k # 0 => h[k - 1] = g[k - 1])
        BY <3>2, <4>1
      <4> HIDE DEF h
      <4> QED BY <2>2, <4>1, <4>2
    <3> QED BY <3>1, <3>2
  <2>4. h = [k \in 0..m |-> IF k = 0 THEN v ELSE step(k, h[k - 1])]
    <3> HIDE DEF h
    <3>1. h = [k \in 0..m |-> h[k]]
      BY DEF h
    <3> QED BY <2>3, <3>1
  <2> HIDE DEF h
  <2>5. IsLeft(h, v, refused, m)
    BY <2>4 DEF IsLeft, step
  <2> QED BY <2>5
<1> HIDE DEF T
<1>3. 0..n \subseteq T
  BY <1>1, <1>2, UpTo
<1> QED BY <1>3 DEF T

\* What CloseAll leaves was there, under the same names; and of a single position only
\* one whose exit is refused is left.
LEMMA LeftByCloseAllOK ==
    ASSUME NEW v \in Seq(Entries), NamesDiffer(v), NEW refused
    PROVE  /\ LeftByCloseAll(v, refused) \in Seq(Entries) /\ NamesDiffer(LeftByCloseAll(v, refused))
           /\ Range(LeftByCloseAll(v, refused)) \subseteq Range(v)
           /\ Len(v) <= 1 => IdsOf(Range(LeftByCloseAll(v, refused))) \subseteq refused
<1>1. PICK n : n = Len(v)
  OBVIOUS
<1>2. n \in Nat
  BY <1>1, LenProperties
<1> DEFINE g == CHOOSE f : IsLeft(f, v, refused, n)
<1>3. IsLeft(g, v, refused, n)
  BY <1>2, LeftExists, Zenon
<1>4. LeftByCloseAll(v, refused) = g[n]
  BY <1>1, Zenon DEF LeftByCloseAll, CloseAllSteps, IsLeft
<1> HIDE DEF g
<1>5. \A k \in 0..n : g[k] = IF k = 0 THEN v
                             ELSE IF k > Len(g[k - 1]) \/ g[k - 1][k].id \in refused
                             THEN g[k - 1] ELSE RemoveAt(g[k - 1], k)
  BY <1>3 DEF IsLeft
<1> DEFINE Sound(w) == w \in Seq(Entries) /\ NamesDiffer(w) /\ Range(w) \subseteq Range(v)
           T == {k \in 0..n : Sound(g[k])}
<1>6. 0 \in T
  BY <1>2, <1>5
<1>7. ASSUME NEW k \in 1..n, k - 1 \in T PROVE k \in T
  <2>1. PICK u : u = g[k - 1]
    OBVIOUS
  <2>2. Sound(u)
    BY <1>7, <2>1
  <2>3. k # 0 /\ k \in 0..n /\ g[k] = IF k > Len(u) \/ u[k].id \in refused THEN u ELSE RemoveAt(u, k)
    BY <1>2, <1>5, <2>1
  <2>4. CASE k > Len(u) \/ u[k].id \in refused
    BY <2>2, <2>3, <2>4
  <2>5. CASE ~(k > Len(u) \/ u[k].id \in refused)
    <3>1. k \in 1..Len(u) /\ g[k] = RemoveAt(u, k)
      BY <1>2, <2>2, <2>3, <2>5, LenProperties
    <3>2. Sound(g[k])
      BY <2>2, <3>1, RemoveAtKeeps
    <3> QED BY <2>3, <3>2
  <2> QED BY <2>4, <2>5
<1> HIDE DEF T
<1>8. 0..n \subseteq T
  BY <1>2, <1>6, <1>7, UpTo
<1>9. Sound(g[n])
  BY <1>2, <1>8 DEF T
<1>10. ASSUME n <= 1 PROVE IdsOf(Range(g[n])) \subseteq refused
  <2>1. CASE g[n] = <<>>
    BY <2>1, EmptyOK DEF IdsOf
  <2>2. CASE n = 0
    <3>1. g[n] = v
      BY <1>2, <1>5, <2>2
    <3> QED BY <1>1, <2>1, <2>2, <3>1, EmptySeq
  <2>3. CASE n = 1
    <3>1. g[0] = v
      BY <1>2, <1>5
    <3>2. 1 \in 0..n /\ 1 # 0 /\ 1 - 1 = 0
      BY <2>3
    <3>3. g[1] = IF 1 > Len(v) \/ v[1].id \in refused THEN v ELSE RemoveAt(v, 1)
      BY <1>5, <3>1, <3>2
    <3>4. 1 \in 1..Len(v) /\ ~(1 > Len(v))
      BY <1>1, <2>3
    <3>5. CASE v[1].id \in refused
      <4>1. g[n] = v
        BY <2>3, <3>3, <3>5
      <4>2. DOMAIN v = 1..1
        BY <1>1, <2>3, LenProperties
      <4> QED BY <3>5, <4>1, <4>2 DEF IdsOf, Range
    <3>6. CASE v[1].id \notin refused
      <4>1. RemoveAt(v, 1) \in Seq(Entries) /\ Len(RemoveAt(v, 1)) = Len(v) - 1
        BY <3>4, RemoveAtOK
      <4>2. Len(RemoveAt(v, 1)) = 0
        BY <1>1, <2>3, <4>1
      <4> QED BY <2>1, <2>3, <3>3, <3>4, <3>6, <4>1, <4>2, EmptySeq
    <3> QED BY <3>5, <3>6
  <2> QED BY <1>2, <1>10, <2>2, <2>3
<1> QED BY <1>1, <1>4, <1>9, <1>10

-----------------------------------------------------------------------------
(* A step changes the orders of one symbol and what the queue holds.       *)

\* Every order of the books and of the queue is one of the orders known.
LEMMA InOrders ==
    /\ \A s \in Symbols : Range(filled[s]) \subseteq EntryOrders /\ entries[s] \subseteq EntryOrders
    /\ \A i \in DOMAIN queue : queue[i].signal # "EXIT" => queue[i].order \in EntryOrders
BY DEF EntryOrders

\* The books of symbol s become v, E and X.
Books(s, v, E, X) ==
    /\ filled' = [filled EXCEPT ![s] = v]
    /\ entries' = [entries EXCEPT ![s] = E]
    /\ exits' = [exits EXCEPT ![s] = X]

\* v, E and X are sound books, and their entries are those of K.
Sound(v, E, X, K) ==
    /\ v \in Seq(Entries) /\ NamesDiffer(v) /\ \A o \in Range(v) : KnownIn(K, o)
    /\ E \subseteq Entries /\ IsFiniteSet(E) /\ E \subseteq K
    /\ X \subseteq Exits /\ IsFiniteSet(X) /\ TargetsIn(X, v)

\* The queue holds orders of K.
QueueIn(K) ==
    queue' \in Seq(Fills) /\ \A i \in DOMAIN queue' :
                                queue'[i].signal # "EXIT" => queue'[i].order \in K

\* The books of the other symbols stay.
OthersKept(s) ==
    \A t \in Symbols : t # s =>
        filled'[t] = filled[t] /\ entries'[t] = entries[t] /\ exits'[t] = exits[t]

\* A step that leaves the books of one symbol sound, of known orders, keeps all of them so.
LEMMA BooksStep ==
    ASSUME OrdersOK, NEW s \in Symbols, NEW K, EntryOrders \subseteq K, OneName(K),
           NEW v, NEW E, NEW X, Sound(v, E, X, K), Books(s, v, E, X), QueueIn(K)
    PROVE  OrdersOK' /\ OthersKept(s)
<1>1. /\ filled' \in [Symbols -> Seq(Entries)] /\ entries' \in [Symbols -> SUBSET Entries]
      /\ exits' \in [Symbols -> SUBSET Exits] /\ queue' \in Seq(Fills)
  BY DEF OrdersOK, BooksOK, Sound, Books, QueueIn
<1>2. /\ filled'[s] = v /\ entries'[s] = E /\ exits'[s] = X
      /\ \A t \in Symbols : t # s =>
            filled'[t] = filled[t] /\ entries'[t] = entries[t] /\ exits'[t] = exits[t]
  BY DEF OrdersOK, BooksOK, Books
<1>3. \A o \in K : KnownIn(K, o)
  BY DEF KnownIn
<1>4. ASSUME NEW t \in Symbols, NEW o \in Range(filled'[t]) \cup entries'[t]
      PROVE  KnownIn(K, o)
  <2>1. CASE t = s
    BY <1>2, <1>3, <1>4, <2>1 DEF Sound
  <2>2. CASE t # s
    <3>1. o \in EntryOrders
      BY <1>2, <1>4, <2>2, InOrders
    <3> QED BY <1>3, <3>1
  <2> QED BY <2>1, <2>2
<1>5. ASSUME NEW o \in EntryOrders' PROVE KnownIn(K, o)
  <2>1. CASE \E t \in Symbols : o \in Range(filled'[t]) \cup entries'[t]
    BY <1>4, <2>1
  <2>2. CASE \E i \in DOMAIN queue' : queue'[i].signal # "EXIT" /\ o = queue'[i].order
    BY <1>3, <2>2 DEF QueueIn
  <2> QED BY <1>5, <2>1, <2>2 DEF EntryOrders
<1>6. OneName(EntryOrders)'
  <2>1. SUFFICES ASSUME NEW o \in EntryOrders', NEW p \in EntryOrders', o.id = p.id
                 PROVE  o.name = p.name
    BY DEF OneName
  <2>2. KnownIn(K, o) /\ KnownIn(K, p)
    BY <1>5
  <2> QED BY <2>1, <2>2 DEF KnownIn, OneName
<1>7. ASSUME NEW t \in Symbols
      PROVE  /\ NamesDiffer(filled'[t]) /\ TargetsIn(exits'[t], filled'[t])
             /\ IsFiniteSet(entries'[t]) /\ IsFiniteSet(exits'[t])
  BY <1>2 DEF Sound, OrdersOK
<1> QED BY <1>1, <1>2, <1>6, <1>7 DEF OrdersOK, BooksOK, OthersKept

\* Books nobody changes stay as they are.
LEMMA SameBooks ==
    ASSUME BooksOK, NEW s \in Symbols
    PROVE  /\ filled = [filled EXCEPT ![s] = filled[s]]
           /\ entries = [entries EXCEPT ![s] = entries[s]]
           /\ exits = [exits EXCEPT ![s] = exits[s]]
BY DEF BooksOK

\* The books of a symbol are sound.
LEMMA SoundNow ==
    ASSUME OrdersOK, NEW s \in Symbols, NEW K, EntryOrders \subseteq K
    PROVE  /\ Sound(filled[s], entries[s], exits[s], K)
           /\ \A o \in Range(filled[s]) : o \in Entries /\ KnownIn(K, o)
<1>1. filled[s] \in Seq(Entries) /\ entries[s] \subseteq Entries /\ exits[s] \subseteq Exits
  BY DEF OrdersOK, BooksOK
<1>2. ASSUME NEW o \in Range(filled[s]) PROVE o \in Entries /\ KnownIn(K, o)
  <2>1. PICK i \in DOMAIN filled[s] : o = filled[s][i]
    BY DEF Range
  <2>2. o \in K
    BY InOrders
  <2> QED BY <1>1, <2>1, <2>2 DEF KnownIn
<1> QED BY <1>1, <1>2, InOrders DEF OrdersOK, Sound

\* A queue that is kept or loses its first order.
LEMMA QueueStep ==
    ASSUME OrdersOK, queue' = queue \/ (queue # <<>> /\ queue' = Tail(queue)),
           NEW K, EntryOrders \subseteq K
    PROVE  QueueIn(K)
<1>1. queue \in Seq(Fills)
  BY DEF OrdersOK, BooksOK
<1>2. CASE queue' = queue
  BY <1>1, <1>2, InOrders DEF QueueIn
<1>3. CASE queue # <<>> /\ queue' = Tail(queue)
  <2>1. queue' \in Seq(Fills) /\ Len(queue') = Len(queue) - 1
        /\ \A i \in 1..Len(queue') : queue'[i] = queue[i + 1]
    BY <1>1, <1>3, HeadTailProperties
  <2>2. DOMAIN queue' = 1..Len(queue') /\ DOMAIN queue = 1..Len(queue)
    BY <1>1, <2>1, LenProperties
  <2>3. ASSUME NEW i \in DOMAIN queue', queue'[i].signal # "EXIT"
        PROVE  queue'[i].order \in K
    <3>1. i + 1 \in DOMAIN queue /\ queue'[i] = queue[i + 1]
      BY <1>1, <2>1, <2>2, LenProperties
    <3> QED BY <2>3, <3>1, InOrders
  <2> QED BY <2>1, <2>3 DEF QueueIn
<1> QED BY <1>2, <1>3

\* The first order of the queue.
LEMMA HeadIn ==
    ASSUME OrdersOK, queue # <<>>
    PROVE  /\ Head(queue) \in Fills
           /\ Head(queue).signal # "EXIT" => Head(queue).order \in EntryOrders
<1>1. queue \in Seq(Fills) /\ 1 \in DOMAIN queue /\ Head(queue) = queue[1]
  BY LenProperties, EmptySeq DEF OrdersOK, BooksOK
<1> QED BY <1>1, InOrders, HeadTailProperties DEF OrdersOK, BooksOK

-----------------------------------------------------------------------------
(* Each way of filling, closing and placing orders keeps the books sound.  *)

\* Erasing a position, and the exits that target its name.
LEMMA CloseSound ==
    ASSUME OrdersOK, NEW s \in Symbols, NEW o, KnownIn(EntryOrders, o)
    PROVE  Sound(Erase(s, o.id), entries[s], WithoutExits(s, o.name), EntryOrders)
<1>1. Sound(filled[s], entries[s], exits[s], EntryOrders)
  BY SoundNow
<1>2. /\ Erase(s, o.id) \in Seq(Entries) /\ NamesDiffer(Erase(s, o.id))
      /\ Range(Erase(s, o.id)) \subseteq Range(filled[s])
      /\ \A i \in DOMAIN filled[s] :
            filled[s][i].id # o.id =>
               \E j \in DOMAIN Erase(s, o.id) : Erase(s, o.id)[j] = filled[s][i]
  BY <1>1, EraseOK DEF Sound
<1>3. WithoutExits(s, o.name) \subseteq exits[s] /\ IsFiniteSet(WithoutExits(s, o.name))
  BY <1>1, FS_Subset DEF WithoutExits, Sound
<1>4. TargetsIn(WithoutExits(s, o.name), Erase(s, o.id))
  <2>1. SUFFICES ASSUME NEW x \in WithoutExits(s, o.name)
                 PROVE  \E j \in DOMAIN Erase(s, o.id) :
                           Erase(s, o.id)[j].id = x.of /\ Erase(s, o.id)[j].name = x.target
    BY DEF TargetsIn
  <2>2. x \in exits[s] /\ x.target # o.name
    BY DEF WithoutExits
  <2>3. PICK i \in DOMAIN filled[s] : filled[s][i].id = x.of /\ filled[s][i].name = x.target
    BY <1>1, <2>2 DEF Sound, TargetsIn
  <2>4. filled[s][i] \in EntryOrders
    BY InOrders DEF Range
  <2>5. PICK p \in EntryOrders : p.id = o.id /\ p.name = o.name
    BY DEF KnownIn
  <2>6. filled[s][i].id # o.id
    BY <2>2, <2>3, <2>4, <2>5 DEF OrdersOK, OneName
  <2> QED BY <1>2, <2>3, <2>6
<1> QED BY <1>1, <1>2, <1>3, <1>4 DEF Sound

\* Closing a position leaves books that are sound.
LEMMA CloseBooks ==
    ASSUME OrdersOK, NEW s \in Symbols, NEW o, KnownIn(EntryOrders, o), Close(s, o)
    PROVE  \E v, E, X : Sound(v, E, X, EntryOrders) /\ Books(s, v, E, X)
<1>1. Sound(Erase(s, o.id), entries[s], WithoutExits(s, o.name), EntryOrders)
  BY CloseSound
<1>2. Books(s, Erase(s, o.id), entries[s], WithoutExits(s, o.name))
  BY SameBooks DEF Close, Books, OrdersOK
<1> QED BY <1>1, <1>2

\* A liquidated position is erased; what takes over its margin keeps its name.
LEMMA LiquidationBooks ==
    ASSUME OrdersOK, NEW s \in Symbols, NEW o \in Entries, KnownIn(EntryOrders, o),
           FillLiquidation(s, o)
    PROVE  \E v, E, X : Sound(v, E, X, EntryOrders) /\ Books(s, v, E, X)
<1>1. PICK u : u = Erase(s, o.id)
  OBVIOUS
<1>2. Sound(u, entries[s], WithoutExits(s, o.name), EntryOrders)
  BY <1>1, CloseSound
<1>3. PICK w : w = [i \in DOMAIN u |-> IF u[i].name = o.name THEN [u[i] EXCEPT !.margin = o.margin]
                                       ELSE u[i]]
  OBVIOUS
<1>4. Books(s, w, entries[s], WithoutExits(s, o.name))
  BY <1>1, <1>3, SameBooks DEF FillLiquidation, Books, OrdersOK
<1>5. Len(u) \in Nat /\ DOMAIN u = 1..Len(u) /\ \A i \in DOMAIN u : u[i] \in Entries
  BY <1>2, LenProperties, ElementOfSeq DEF Sound
<1>6. \A i \in DOMAIN u : w[i] \in Entries /\ w[i].id = u[i].id /\ w[i].name = u[i].name
  BY <1>3, <1>5 DEF Entries
<1>7. w \in Seq(Entries) /\ DOMAIN w = DOMAIN u
  <2>1. DOMAIN w = DOMAIN u /\ w = [i \in 1..Len(u) |-> w[i]]
    BY <1>3, <1>5
  <2> QED BY <1>5, <1>6, <2>1
<1>8. NamesDiffer(w) /\ TargetsIn(WithoutExits(s, o.name), w)
  BY <1>2, <1>6, <1>7 DEF Sound, NamesDiffer, TargetsIn
<1>9. ASSUME NEW p \in Range(w) PROVE KnownIn(EntryOrders, p)
  <2>1. PICK i \in DOMAIN u : p = w[i]
    BY <1>7 DEF Range
  <2>2. u[i] \in Range(u)
    BY DEF Range
  <2> QED BY <1>2, <1>6, <2>1, <2>2 DEF Sound, KnownIn
<1>10. Sound(w, entries[s], WithoutExits(s, o.name), EntryOrders)
  BY <1>2, <1>7, <1>8, <1>9 DEF Sound
<1> QED BY <1>4, <1>10

\* Some of the exits of a symbol are dropped.
LEMMA FewerExits ==
    ASSUME NEW v, NEW E, NEW X, NEW K, Sound(v, E, X, K), NEW Y \in SUBSET X
    PROVE  Sound(v, E, Y, K)
BY FS_Subset DEF Sound, TargetsIn

\* Some of the entries of a symbol are dropped.
LEMMA FewerEntries ==
    ASSUME NEW v, NEW E, NEW X, NEW K, Sound(v, E, X, K), NEW F \in SUBSET E
    PROVE  Sound(v, F, X, K)
BY FS_Subset DEF Sound

\* An exit that is filled leaves books that are sound.
LEMMA ExitBooks ==
    ASSUME OrdersOK, NEW s \in Symbols, NEW x, FillExit(s, x)
    PROVE  \E v, E, X : Sound(v, E, X, EntryOrders) /\ Books(s, v, E, X)
<1>1. PICK o \in Named(s, x.target) :
         Close(s, o) \/ (exits' = [exits EXCEPT ![s] = @ \ {x}] /\ UNCHANGED <<filled, entries>>)
  BY DEF FillExit
<1>2. KnownIn(EntryOrders, o)
  BY <1>1, SoundNow DEF Named
<1>3. CASE Close(s, o)
  BY <1>2, <1>3, CloseBooks
<1>4. CASE exits' = [exits EXCEPT ![s] = @ \ {x}] /\ UNCHANGED <<filled, entries>>
  <2>1. Sound(filled[s], entries[s], exits[s] \ {x}, EntryOrders)
    BY SoundNow, FewerExits
  <2>2. Books(s, filled[s], entries[s], exits[s] \ {x})
    BY <1>4, SameBooks DEF Books, OrdersOK
  <2> QED BY <2>1, <2>2
<1> QED BY <1>1, <1>3, <1>4

\* An entry is filled, under a name nothing filled has; or refused; and either may
\* come after an exit of all the positions.
LEMMA EnterBooks ==
    ASSUME OrdersOK, NEW s \in Symbols, NEW K, EntryOrders \subseteq K,
           NEW e \in Entries, KnownIn(K, e), Named(s, e.name) = {}, Enter(s, e),
           NEW E \in SUBSET entries[s], entries' = [entries EXCEPT ![s] = E]
    PROVE  \E v, F, X : Sound(v, F, X, K) /\ Books(s, v, F, X)
<1>1. PICK reverse \in BOOLEAN, admitted \in BOOLEAN :
         /\ filled' = [filled EXCEPT ![s] = (IF reverse THEN <<>> ELSE @)
                                            \o IF admitted THEN <<e>> ELSE <<>>]
         /\ exits' = [exits EXCEPT ![s] = IF reverse THEN {} ELSE @]
  BY DEF Enter
<1>2. PICK u : u = IF reverse THEN <<>> ELSE filled[s]
  OBVIOUS
<1>3. PICK X : X = IF reverse THEN {} ELSE exits[s]
  OBVIOUS
<1>4. PICK w : w = IF admitted THEN u \o <<e>> ELSE u
  OBVIOUS
<1>5. Sound(filled[s], E, exits[s], K)
  BY SoundNow, FewerEntries
<1>6. Sound(u, E, X, K) /\ \A i \in DOMAIN u : u[i].name # e.name
  <2>1. CASE reverse
    BY <1>2, <1>3, <1>5, <2>1, EmptyOK, FS_EmptySet DEF Sound
  <2>2. CASE ~reverse
    BY <1>2, <1>3, <1>5, <2>2 DEF Named, Range
  <2> QED BY <2>1, <2>2
<1>7. u \in Seq(Entries) /\ u \o <<>> = u
  BY <1>6, ConcatEmptySeq DEF Sound
<1>8. Books(s, w, E, X)
  <2>1. filled' = [filled EXCEPT ![s] = w]
    <3>1. w = (IF reverse THEN <<>> ELSE filled[s]) \o IF admitted THEN <<e>> ELSE <<>>
      BY <1>2, <1>4, <1>7
    <3> QED BY <1>1, <3>1
  <2>2. exits' = [exits EXCEPT ![s] = X]
    BY <1>1, <1>3
  <2> QED BY <2>1, <2>2 DEF Books
<1>9. Sound(w, E, X, K)
  <2>1. CASE ~admitted
    BY <1>4, <1>6, <2>1
  <2>2. CASE admitted
    <3>1. /\ w \in Seq(Entries) /\ NamesDiffer(w) /\ Range(w) = Range(u) \cup {e}
          /\ \A i \in DOMAIN u : i \in DOMAIN w /\ w[i] = u[i]
      BY <1>4, <1>6, <2>2, AppendOK DEF Sound
    <3>2. TargetsIn(X, w)
      BY <1>6, <3>1 DEF Sound, TargetsIn
    <3>3. \A o \in Range(w) : KnownIn(K, o)
      BY <1>6, <3>1 DEF Sound
    <3> QED BY <1>6, <3>1, <3>2, <3>3 DEF Sound
  <2> QED BY <2>1, <2>2
<1> QED BY <1>8, <1>9

-----------------------------------------------------------------------------
(* Every step keeps the books sound.                                       *)

\* A step after which the books of symbol s are sound keeps all of them so.
LEMMA FoundStep ==
    ASSUME OrdersOK, NEW s \in Symbols, QueueIn(EntryOrders),
           \E v, E, X : Sound(v, E, X, EntryOrders) /\ Books(s, v, E, X)
    PROVE  OrdersOK' /\ OthersKept(s)
BY BooksStep DEF OrdersOK

\* A step that leaves the books alone.
LEMMA SameOrders ==
    ASSUME OrdersOK, NEW s \in Symbols, UNCHANGED orders, QueueIn(EntryOrders)
    PROVE  OrdersOK' /\ OthersKept(s)
<1>1. Sound(filled[s], entries[s], exits[s], EntryOrders)
  BY SoundNow
<1>2. Books(s, filled[s], entries[s], exits[s])
  BY SameBooks DEF Books, OrdersOK, orders
<1> QED BY <1>1, <1>2, FoundStep

\* A step that leaves the books and the queue alone.
LEMMA KeepsOrders ==
    ASSUME OrdersOK, UNCHANGED <<orders, queue>>, NEW s
    PROVE  OrdersOK' /\ OthersKept(s)
<1>1. 1 \in Symbols /\ QueueIn(EntryOrders)
  BY QueueStep, LoopAssumption DEF Symbols
<1>2. OrdersOK'
  BY <1>1, SameOrders
<1> QED BY <1>2 DEF OthersKept, orders

\* The entries of the orders the queue was given are pending, filled or gone.
LEMMA FillOrderStep ==
    ASSUME OrdersOK, NEW s \in Symbols, queue # <<>>, FillOrder(s, Head(queue)),
           queue' = Tail(queue)
    PROVE  OrdersOK' /\ OthersKept(s)
<1>1. PICK f : f = Head(queue)
  OBVIOUS
<1>2. f \in Fills /\ (f.signal # "EXIT" => f.order \in EntryOrders)
  BY <1>1, HeadIn
<1>3. QueueIn(EntryOrders)
  BY QueueStep
<1>4. \A o \in EntryOrders : KnownIn(EntryOrders, o)
  BY DEF KnownIn
<1>5. CASE f.signal = "LIQUIDATION" /\ FillLiquidation(s, f.order)
  <2>1. f.order \in Entries /\ KnownIn(EntryOrders, f.order)
    BY <1>2, <1>4, <1>5 DEF Fills
  <2>2. \E v, E, X : Sound(v, E, X, EntryOrders) /\ Books(s, v, E, X)
    BY <1>5, <2>1, LiquidationBooks
  <2> QED BY <1>3, <2>2, FoundStep
<1>6. CASE FillExit(s, f.order)
  <2>1. \E v, E, X : Sound(v, E, X, EntryOrders) /\ Books(s, v, E, X)
    BY <1>6, ExitBooks
  <2> QED BY <1>3, <2>1, FoundStep
<1>7. CASE /\ f.signal = "ENTRY"
           /\ entries' = [entries EXCEPT ![s] = @ \ {f.order}]
           /\ IF IsValidEntryName(s, f.order.name) THEN Enter(s, f.order)
              ELSE UNCHANGED <<filled, exits, justEntered, justExited, entered, exited>>
  <2>1. PICK E \in SUBSET entries[s] : E = entries[s] \ {f.order}
    OBVIOUS
  <2>2. entries' = [entries EXCEPT ![s] = E]
    BY <1>7, <2>1
  <2>3. CASE Enter(s, f.order) /\ Named(s, f.order.name) = {}
    <3>1. f.order \in Entries /\ KnownIn(EntryOrders, f.order)
      BY <1>2, <1>4, <1>7 DEF Fills
    <3>2. \E v, F, X : Sound(v, F, X, EntryOrders) /\ Books(s, v, F, X)
      BY <2>2, <2>3, <3>1, EnterBooks
    <3> QED BY <1>3, <3>2, FoundStep
  <2>4. CASE UNCHANGED <<filled, exits>>
    <3>1. Sound(filled[s], E, exits[s], EntryOrders)
      BY SoundNow, FewerEntries
    <3>2. Books(s, filled[s], E, exits[s])
      BY <2>2, <2>4, SameBooks DEF Books, OrdersOK
    <3> QED BY <1>3, <3>1, <3>2, FoundStep
  <2> QED BY <1>7, <2>3, <2>4 DEF IsValidEntryName
<1>8. CASE UNCHANGED <<filled, entries, exits>>
  BY <1>3, <1>8, SameOrders DEF orders
<1> QED
  <2>1. FillOrder(s, f)
    BY <1>1
  <2> QED BY <1>5, <1>6, <1>7, <1>8, <2>1, Zenon DEF FillOrder

\* A new order of an identity nobody has.
LEMMA NewEntryOK ==
    ASSUME OrdersOK, FreshIds # {}, NEW n \in EntryNames
    PROVE  LET K == EntryOrders \cup {NewEntry(n)}
           IN  NewEntry(n) \in Entries /\ OneName(K) /\ KnownIn(K, NewEntry(n))
<1>1. Fresh \in Ids /\ \A o \in EntryOrders : o.id # Fresh
  BY FreshOK
<1>2. PICK e : e = NewEntry(n)
  OBVIOUS
<1>3. e \in Entries /\ e.id = Fresh
  BY <1>1, <1>2 DEF NewEntry, Entries
<1>4. OneName(EntryOrders \cup {e})
  BY <1>1, <1>3 DEF OneName, OrdersOK
<1> QED BY <1>2, <1>3, <1>4 DEF KnownIn

\* A symbol whose bars have ended.
LEMMA EndStep ==
    ASSUME OrdersOK, NEW s \in Symbols, UNCHANGED queue, NEW following,
           ExecuteTradingEnd(s, following)
    PROVE  OrdersOK' /\ OthersKept(s)
<1>1. filled[s] \in Seq(Entries) /\ NamesDiffer(filled[s])
  BY DEF OrdersOK, BooksOK
<1>2. PICK refused : filled' = [filled EXCEPT ![s] = LeftByCloseAll(@, refused)]
  BY DEF ExecuteTradingEnd
<1> DEFINE v == LeftByCloseAll(filled[s], refused)
<1>3. v \in Seq(Entries) /\ NamesDiffer(v) /\ Range(v) \subseteq Range(filled[s])
  BY <1>1, LeftByCloseAllOK
<1>4. Sound(v, {}, {}, EntryOrders)
  BY <1>3, SoundNow, FS_EmptySet, EmptyOK DEF Sound
<1>5. Books(s, v, {}, {})
  BY <1>2 DEF ExecuteTradingEnd, Cancelled, Books
<1>6. QueueIn(EntryOrders)
  BY QueueStep
<1> QED BY <1>4, <1>5, <1>6, FoundStep

\* A funding liquidates some of the positions of the symbol.
LEMMA FundingStep ==
    ASSUME OrdersOK, symbol \in Symbols, CheckFundingTime
    PROVE  OrdersOK' /\ OthersKept(symbol)
<1>1. QueueIn(EntryOrders) /\ UNCHANGED queue
  BY QueueStep DEF CheckFundingTime
<1>2. CASE UNCHANGED orders
  BY <1>1, <1>2, KeepsOrders
<1>3. ASSUME NEW n \in 0..Len(filled[symbol]) - 1, NEW kept \in [1..n -> DOMAIN filled[symbol]],
             Liquidate(filled[symbol], n, kept), UNCHANGED entries
      PROVE  OrdersOK' /\ OthersKept(symbol)
  <2>1. PICK v : v = filled[symbol]
    OBVIOUS
  <2>2. v \in Seq(Entries) /\ NamesDiffer(v) /\ n \in Nat
    BY <2>1, LenProperties DEF OrdersOK, BooksOK
  <2>3. PICK w : w = [i \in 1..n |-> v[kept[i]]]
    OBVIOUS
  <2>4. PICK X \in SUBSET exits[symbol] :
           X = {x \in exits[symbol] : \A i \in DOMAIN v : x.target = v[i].name => i \in Range(kept)}
    OBVIOUS
  <2>5. \A i, j \in 1..n : i < j => kept[i] < kept[j]
    BY <1>3 DEF Liquidate
  <2>6. /\ w \in Seq(Entries) /\ NamesDiffer(w) /\ Range(w) \subseteq Range(v)
        /\ \A i \in Range(kept) : \E j \in DOMAIN w : w[j] = v[i]
    <3>1. w = KeptFrom(v, n, kept) /\ Increasing(v, n, kept)
      BY <2>1, <2>3, <2>5 DEF KeptFrom, Increasing
    <3>2. PartOf(KeptFrom(v, n, kept), v, Range(kept))
      BY <2>2, <3>1, KeptOK
    <3> QED BY <3>1, <3>2 DEF PartOf
  <2>7. Sound(v, entries[symbol], X, EntryOrders) /\ TargetsIn(exits[symbol], v)
    BY <2>1, SoundNow, FewerExits DEF OrdersOK
  <2>8. TargetsIn(X, w)
    <3>1. SUFFICES ASSUME NEW x \in X
                   PROVE  \E j \in DOMAIN w : w[j].id = x.of /\ w[j].name = x.target
      BY DEF TargetsIn
    <3>2. PICK i \in DOMAIN v : v[i].id = x.of /\ v[i].name = x.target
      BY <2>7 DEF TargetsIn
    <3>3. i \in Range(kept)
      BY <2>4, <3>2
    <3> QED BY <2>6, <3>2, <3>3
  <2>9. Sound(w, entries[symbol], X, EntryOrders)
    BY <2>1, <2>6, <2>7, <2>8, SoundNow DEF Sound
  <2>10. Books(symbol, w, entries[symbol], X)
    BY <1>3, <2>1, <2>3, <2>4, SameBooks DEF Liquidate, Books, OrdersOK
  <2> QED BY <1>1, <2>9, <2>10, FoundStep
<1> QED BY <1>2, <1>3 DEF CheckFundingTime

\* What a price triggers is put in the queue.
LEMMA PriceStep ==
    ASSUME OrdersOK, symbol \in Symbols, CheckPrice
    PROVE  OrdersOK' /\ OthersKept(symbol)
<1>1. PICK triggered \in SUBSET Triggerable(symbol) :
         UNCHANGED queue \/ queue' \in SetToSeqs(triggered)
  BY DEF CheckPrice
<1>2. UNCHANGED orders
  BY DEF CheckPrice
<1>3. CASE UNCHANGED queue
  BY <1>2, <1>3, KeepsOrders
<1>4. CASE queue' \in SetToSeqs(triggered)
  <2> DEFINE V == Range(filled[symbol])
             of(c, S) == [o \in S |-> [signal |-> c, order |-> o]]
             all(c, S) == {[signal |-> c, order |-> o] : o \in S}
  <2>1. /\ V \subseteq Entries /\ V \subseteq EntryOrders
        /\ entries[symbol] \subseteq Entries /\ entries[symbol] \subseteq EntryOrders
        /\ exits[symbol] \subseteq Exits
        /\ IsFiniteSet(entries[symbol]) /\ IsFiniteSet(exits[symbol])
    BY SoundNow, InOrders DEF Sound
  <2>2. IsFiniteSet(V)
    <3>1. PICK v : v = filled[symbol] /\ v \in Seq(Entries)
      BY DEF OrdersOK, BooksOK
    <3>2. Len(v) \in Nat /\ v \in Surjection(1..Len(v), V)
      BY <3>1, LenProperties DEF Surjection, Range
    <3>3. IsFiniteSet(1..Len(v))
      BY <3>2, FS_Interval
    <3> QED BY <3>2, <3>3, FS_Surjection
  <2>3. ASSUME NEW c, NEW S, IsFiniteSet(S) PROVE IsFiniteSet(all(c, S))
    <3>1. of(c, S) \in Surjection(S, all(c, S))
      BY DEF Surjection
    <3> QED BY <2>3, <3>1, FS_Surjection
  <2>4. IsFiniteSet(Triggerable(symbol))
    <3>1. /\ IsFiniteSet(all("LIQUIDATION", V)) /\ IsFiniteSet(all("ENTRY", entries[symbol]))
          /\ IsFiniteSet(all("EXIT", exits[symbol]))
      BY <2>1, <2>2, <2>3
    <3>2. Triggerable(symbol) = (all("LIQUIDATION", V) \cup all("ENTRY", entries[symbol]))
                                   \cup all("EXIT", exits[symbol])
      BY DEF Triggerable
    <3> HIDE DEF all
    <3> QED BY <3>1, <3>2, FS_Union
  <2>5. \A f \in Triggerable(symbol) : f \in Fills /\ (f.signal # "EXIT" => f.order \in EntryOrders)
    <3>1. SUFFICES ASSUME NEW f \in Triggerable(symbol)
                   PROVE  f \in Fills /\ (f.signal # "EXIT" => f.order \in EntryOrders)
      OBVIOUS
    <3>2. CASE \E o \in V : f = [signal |-> "LIQUIDATION", order |-> o]
      BY <2>1, <3>2 DEF Fills
    <3>3. CASE \E o \in entries[symbol] : f = [signal |-> "ENTRY", order |-> o]
      BY <2>1, <3>3 DEF Fills
    <3>4. CASE \E o \in exits[symbol] : f = [signal |-> "EXIT", order |-> o]
      BY <2>1, <3>4 DEF Fills
    <3> QED BY <3>2, <3>3, <3>4 DEF Triggerable
  <2>6. Cardinality(triggered) \in Nat
    BY <2>4, FS_Subset, FS_CardinalityType
  <2>7. queue' \in [1..Cardinality(triggered) -> triggered]
    BY <1>4 DEF SetToSeqs
  <2>8. queue' \in [1..Cardinality(triggered) -> Fills]
    BY <2>5, <2>7
  <2>9. queue' \in Seq(Fills)
    BY <2>6, <2>8
  <2>10. QueueIn(EntryOrders)
    BY <2>5, <2>7, <2>9 DEF QueueIn
  <2> QED BY <1>2, <2>10, SameOrders
<1> QED BY <1>1, <1>3, <1>4

\* What a strategy calls changes the orders of its own symbol.
LEMMA CallStep ==
    ASSUME OrdersOK, symbol \in Symbols, StrategyCall
    PROVE  OrdersOK' /\ OthersKept(symbol)
<1>1. UNCHANGED queue
  BY DEF StrategyCall, CancelEntry, PlaceEntry, EnterNow, ExitNow, CancelExit, PlaceExit, Call
<1>2. QueueIn(EntryOrders)
  BY <1>1, QueueStep
<1>3. Sound(filled[symbol], entries[symbol], exits[symbol], EntryOrders)
  BY SoundNow
<1>4. ASSUME NEW n \in EntryNames, CancelEntry(n) PROVE OrdersOK' /\ OthersKept(symbol)
  <2>1. PICK E \in SUBSET entries[symbol] : E = {e \in entries[symbol] : e.name # n}
    OBVIOUS
  <2>2. Books(symbol, filled[symbol], E, exits[symbol])
    BY <1>4, <2>1, SameBooks DEF CancelEntry, Books, OrdersOK
  <2>3. Sound(filled[symbol], E, exits[symbol], EntryOrders)
    BY <1>3, FewerEntries
  <2> QED BY <1>2, <2>2, <2>3, FoundStep
<1>5. ASSUME NEW n \in EntryNames, PlaceEntry(n) PROVE OrdersOK' /\ OthersKept(symbol)
  <2>1. PICK e : e = NewEntry(n)
    OBVIOUS
  <2>2. PICK K : K = EntryOrders \cup {e}
    OBVIOUS
  <2>3. e \in Entries /\ OneName(K)
    BY <1>5, <2>1, <2>2, NewEntryOK DEF PlaceEntry
  <2>4. PICK E \in SUBSET entries[symbol] : E = {f \in entries[symbol] : f.name # n}
    OBVIOUS
  <2>5. Sound(filled[symbol], E, exits[symbol], K)
    BY <2>2, SoundNow, FewerEntries
  <2>6. Sound(filled[symbol], E \cup {e}, exits[symbol], K)
    BY <2>2, <2>3, <2>5, FS_AddElement DEF Sound
  <2>7. Books(symbol, filled[symbol], E \cup {e}, exits[symbol])
    BY <1>5, <2>1, <2>4, SameBooks DEF PlaceEntry, Books, OrdersOK
  <2>8. QueueIn(K)
    BY <1>1, <2>2, QueueStep
  <2> QED BY <2>2, <2>3, <2>6, <2>7, <2>8, BooksStep
<1>6. ASSUME NEW n \in EntryNames, EnterNow(n) PROVE OrdersOK' /\ OthersKept(symbol)
  <2>1. PICK e : e = NewEntry(n)
    OBVIOUS
  <2>2. PICK K : K = EntryOrders \cup {e}
    OBVIOUS
  <2>3. e \in Entries /\ OneName(K) /\ KnownIn(K, e) /\ e.name = n
    BY <1>6, <2>1, <2>2, NewEntryOK DEF EnterNow, NewEntry
  <2>4. PICK E \in SUBSET entries[symbol] : E = {f \in entries[symbol] : f.name # n}
    OBVIOUS
  <2>5. entries' = [entries EXCEPT ![symbol] = E] /\ Enter(symbol, e) /\ Named(symbol, e.name) = {}
    BY <1>6, <2>1, <2>3, <2>4 DEF EnterNow
  <2>6. \E v, F, X : Sound(v, F, X, K) /\ Books(symbol, v, F, X)
    BY <2>2, <2>3, <2>5, EnterBooks
  <2>7. QueueIn(K)
    BY <1>1, <2>2, QueueStep
  <2> QED BY <2>2, <2>3, <2>6, <2>7, BooksStep
<1>7. ASSUME NEW n \in EntryNames, ExitNow(n) PROVE OrdersOK' /\ OthersKept(symbol)
  <2>1. PICK o \in Named(symbol, n) : Close(symbol, o) \/ UNCHANGED orders
    BY <1>7 DEF ExitNow
  <2>2. KnownIn(EntryOrders, o)
    BY SoundNow DEF Named
  <2>3. CASE Close(symbol, o)
    <3>1. \E v, E, X : Sound(v, E, X, EntryOrders) /\ Books(symbol, v, E, X)
      BY <2>2, <2>3, CloseBooks
    <3> QED BY <1>2, <3>1, FoundStep
  <2>4. CASE UNCHANGED orders
    BY <1>2, <2>4, SameOrders
  <2> QED BY <2>1, <2>3, <2>4
<1>8. ASSUME NEW xn \in ExitNames, CancelExit(xn) PROVE OrdersOK' /\ OthersKept(symbol)
  <2>1. PICK X \in SUBSET exits[symbol] : X = {x \in exits[symbol] : x.name # xn}
    OBVIOUS
  <2>2. Books(symbol, filled[symbol], entries[symbol], X)
    BY <1>8, <2>1, SameBooks DEF CancelExit, Books, OrdersOK
  <2>3. Sound(filled[symbol], entries[symbol], X, EntryOrders)
    BY <1>3, FewerExits
  <2> QED BY <1>2, <2>2, <2>3, FoundStep
<1>9. ASSUME NEW xn \in ExitNames, NEW n \in EntryNames, PlaceExit(xn, n)
      PROVE  OrdersOK' /\ OthersKept(symbol)
  <2>1. PICK o \in Named(symbol, n) :
           exits' = [exits EXCEPT ![symbol] =
                       {x \in @ : x.name # xn}
                       \cup {[id |-> Fresh, name |-> xn, target |-> n, of |-> o.id]}]
    BY <1>9 DEF PlaceExit
  <2>2. PICK x : x = [id |-> Fresh, name |-> xn, target |-> n, of |-> o.id]
    OBVIOUS
  <2>3. PICK X \in SUBSET exits[symbol] : X = {y \in exits[symbol] : y.name # xn}
    OBVIOUS
  <2>4. Books(symbol, filled[symbol], entries[symbol], X \cup {x})
    BY <1>9, <2>1, <2>2, <2>3, SameBooks DEF PlaceExit, Books, OrdersOK
  <2>5. PICK i \in DOMAIN filled[symbol] : filled[symbol][i] = o
    BY DEF Named, Range
  <2>6. o.name = n /\ o \in Entries /\ Fresh \in Ids
    BY <1>9, SoundNow, FreshOK DEF Named, PlaceExit
  <2>7. x \in Exits /\ x.of = o.id /\ x.target = n
    BY <2>2, <2>6 DEF Exits, Entries
  <2>8. Sound(filled[symbol], entries[symbol], X, EntryOrders)
    BY <1>3, FewerExits
  <2>9. TargetsIn(X \cup {x}, filled[symbol])
    BY <2>5, <2>6, <2>7, <2>8 DEF Sound, TargetsIn
  <2>10. Sound(filled[symbol], entries[symbol], X \cup {x}, EntryOrders)
    BY <2>7, <2>8, <2>9, FS_AddElement DEF Sound
  <2> QED BY <1>2, <2>4, <2>10, FoundStep
<1> QED BY <1>4, <1>5, <1>6, <1>7, <1>8, <1>9 DEF StrategyCall

\* Every step keeps the books sound, and changes those of the symbol it visits.
LEMMA OrdersNext ==
    ASSUME IInv, Next
    PROVE  OrdersOK' /\ OthersKept(symbol)
<1>1. OrdersOK /\ (pc \in Visiting \cup {"status", "ending"} => symbol \in Symbols)
  BY DEF IInv, LoopOK
<1>2. CASE UpdateTradingStatus
  <2>1. CASE ExecuteTradingEnd(symbol, "started")
    BY <1>1, <1>2, <2>1, EndStep DEF UpdateTradingStatus, Visiting
  <2>2. CASE UNCHANGED orders
    BY <1>1, <1>2, <2>2, KeepsOrders DEF UpdateTradingStatus
  <2> QED BY <1>2, <2>1, <2>2 DEF UpdateTradingStatus
<1>3. CASE StartBar
  BY <1>1, <1>3, KeepsOrders DEF StartBar
<1>4. CASE ExecuteAllTradingEnd
  BY <1>1, <1>4, EndStep DEF ExecuteAllTradingEnd, Visiting
<1>5. CASE CheckFundingTime
  BY <1>1, <1>5, FundingStep DEF CheckFundingTime, Visiting
<1>6. CASE CheckPrice
  BY <1>1, <1>6, PriceStep DEF CheckPrice, Visiting
<1>7. CASE FillNext
  <2>1. CASE queue = <<>>
    BY <1>1, <1>7, <2>1, KeepsOrders DEF FillNext
  <2>2. CASE queue # <<>>
    BY <1>1, <1>7, <2>2, FillOrderStep DEF FillNext, Visiting
  <2> QED BY <2>1, <2>2
<1>8. CASE OnClose \/ NextClose \/ BarEnd \/ Chain \/ AfterExit \/ AfterEntry \/ Return
  <2>1. UNCHANGED <<orders, queue>>
    BY <1>8 DEF OnClose, NextClose, BarEnd, Chain, AfterExit, AfterEntry, Return
  <2> QED BY <1>1, <2>1, KeepsOrders
<1>9. CASE StrategyCall
  <2>1. pc = "strategy"
    BY <1>9 DEF StrategyCall, CancelEntry, PlaceEntry, EnterNow, ExitNow, CancelExit, PlaceExit, Call
  <2> QED BY <1>1, <1>9, <2>1, CallStep DEF Visiting
<1>10. CASE Stopped
  <2>1. UNCHANGED <<orders, queue>>
    BY <1>10 DEF Stopped, vars, orders
  <2> QED BY <1>1, <2>1, KeepsOrders
<1> QED BY <1>2, <1>3, <1>4, <1>5, <1>6, <1>7, <1>8, <1>9, <1>10 DEF Next, Engine

-----------------------------------------------------------------------------
(* The loops stay where the code can be.                                   *)

\* An entry and an exit are reported, each with its flag, or not.
Reported ==
    /\ Entered \/ UNCHANGED <<justEntered, entered>>
    /\ Exited \/ UNCHANGED <<justExited, exited>>

\* Only a strategy that runs makes a call.
LEMMA CallFrame ==
    ASSUME StrategyCall
    PROVE  /\ pc = "strategy" /\ calls < MaxCalls /\ calls' = calls + 1
           /\ UNCHANGED <<pc, symbol, bar, price, active, ended, unclosed, queue, locals, strategy,
                         caller>>
           /\ Reported
BY DEF StrategyCall, CancelEntry, PlaceEntry, EnterNow, ExitNow, CancelExit, PlaceExit, Call,
       Enter, Reported, flags, history

\* Where a loop over the symbols of S goes on.
LEMMA AdvanceOK ==
    ASSUME NEW S \in SUBSET Symbols, symbol \in Nat, NEW following, Advance(S, following)
    PROVE  \/ symbol' \in S /\ symbol' > symbol /\ pc' = pc
           \/ symbol' = 0 /\ pc' = following
BY AfterOK DEF Advance

\* Every step keeps the place the loop is at.
LEMMA LoopNext ==
    ASSUME IInv, Next
    PROVE  LoopOK'
<1> USE DEF LoopOK, Visiting
<1>1. /\ LoopOK /\ caller \in {"fill", "closed"} /\ NumBars \in Nat /\ NumPrices \in Nat
      /\ symbol \in Nat /\ Symbols \ ended \subseteq Symbols
      /\ \A t \in Symbols : t > 0 /\ t \in Nat
  BY LoopAssumption DEF IInv, ChainOK, Symbols
<1>2. /\ IF Symbols \ ended = {} THEN After(0, Symbols \ ended) = 0
         ELSE After(0, Symbols \ ended) \in Symbols \ ended
      /\ IF active = {} THEN After(0, active) = 0 ELSE After(0, active) \in active
      /\ After(symbol, active) = 0 \/ After(symbol, active) \in active
  BY <1>1, FirstOK, AfterOK
<1>3. CASE UpdateTradingStatus
  <2>1. symbol \in Symbols \ ended /\ pc = "status" /\ \A t \in active : t < symbol
    BY <1>1, <1>3 DEF UpdateTradingStatus
  <2>2. UNCHANGED <<bar, price>>
    BY <1>3 DEF UpdateTradingStatus
  <2>3. CASE Advance(Symbols \ ended, "started") /\ active' \in {active, active \cup {symbol}}
             /\ ended' = ended
    <3>1. \/ symbol' \in Symbols \ ended /\ symbol' > symbol /\ pc' = pc
          \/ symbol' = 0 /\ pc' = "started"
      BY <1>1, <2>3, AdvanceOK
    <3>2. \A t \in active' : t < symbol \/ t = symbol
      BY <2>1, <2>3
    <3>3. active' \subseteq Symbols /\ active' \cap ended' = {}
      BY <1>1, <2>1, <2>3
    <3>4. CASE symbol' \in Symbols \ ended /\ symbol' > symbol /\ pc' = pc
      <4>1. \A t \in active' : t < symbol'
        BY <1>1, <3>2, <3>3, <3>4
      <4> QED BY <1>1, <2>1, <2>2, <2>3, <3>3, <3>4, <4>1
    <3>5. CASE symbol' = 0 /\ pc' = "started"
      BY <1>1, <2>1, <2>2, <2>3, <3>3, <3>5
    <3> QED BY <3>1, <3>4, <3>5
  <2>4. CASE ExecuteTradingEnd(symbol, "started") /\ active' = active
    <3>1. ended' = ended \cup {symbol}
      BY <2>4 DEF ExecuteTradingEnd
    <3>2. \/ symbol' \in Symbols \ ended /\ symbol' > symbol /\ pc' = pc
          \/ symbol' = 0 /\ pc' = "started"
          \/ symbol' = symbol /\ pc' = "crashed"
      BY <1>1, <2>4, AdvanceOK DEF ExecuteTradingEnd
    <3>3. active' \subseteq Symbols /\ active' \cap ended' = {} /\ ended' \subseteq Symbols
      <4>1. symbol \notin active
        BY <1>1, <2>1
      <4> QED BY <1>1, <2>1, <2>4, <3>1, <4>1
    <3>4. CASE symbol' \in Symbols \ ended /\ symbol' > symbol /\ pc' = pc
      <4>1. \A t \in active' : t < symbol'
        BY <1>1, <2>1, <2>4, <3>3, <3>4
      <4>2. symbol' \in Symbols \ ended'
        BY <1>1, <3>1, <3>4
      <4> QED BY <1>1, <2>1, <2>2, <2>4, <3>3, <3>4, <4>1, <4>2
    <3>5. CASE symbol' \in {0, symbol} /\ pc' \in {"started", "crashed"}
      BY <1>1, <2>1, <2>2, <2>4, <3>3, <3>5
    <3> QED BY <3>2, <3>4, <3>5
  <2> QED BY <1>3, <2>3, <2>4 DEF UpdateTradingStatus
<1>4. CASE StartBar
  BY <1>1, <1>2, <1>4 DEF StartBar
<1>5. CASE ExecuteAllTradingEnd
  <2>1. symbol \in Symbols \ ended /\ pc = "ending" /\ active = {}
    BY <1>1, <1>5 DEF ExecuteAllTradingEnd
  <2>2. UNCHANGED <<bar, price, active>> /\ ended' = ended \cup {symbol}
    BY <1>5 DEF ExecuteAllTradingEnd, ExecuteTradingEnd
  <2>3. \/ symbol' \in Symbols \ ended /\ symbol' > symbol /\ pc' = pc
        \/ symbol' = 0 /\ pc' = "done"
        \/ symbol' = symbol /\ pc' = "crashed"
    BY <1>1, <1>5, AdvanceOK DEF ExecuteAllTradingEnd, ExecuteTradingEnd
  <2>4. symbol' \in Symbols \ ended /\ symbol' > symbol => symbol' \in Symbols \ ended'
    BY <1>1, <2>2
  <2> QED BY <1>1, <2>1, <2>2, <2>3, <2>4
<1>6. CASE CheckFundingTime
  BY <1>1, <1>2, <1>6, LoopAssumption DEF CheckFundingTime
<1>7. ASSUME NextPrice, pc \in Visiting, UNCHANGED <<bar, active, ended>> PROVE LoopOK'
  BY <1>1, <1>2, <1>7 DEF NextPrice
<1>8. CASE CheckPrice
  <2>1. \/ NextPrice
        \/ pc' = "fill" /\ UNCHANGED <<symbol, price>>
    BY <1>8 DEF CheckPrice
  <2>2. pc = "price" /\ UNCHANGED <<bar, active, ended>>
    BY <1>8 DEF CheckPrice
  <2> QED BY <1>1, <1>7, <2>1, <2>2
<1>9. CASE FillNext
  <2>1. \/ NextPrice
        \/ pc' = "chain" /\ UNCHANGED <<symbol, price>>
    BY <1>9 DEF FillNext
  <2>2. pc = "fill" /\ UNCHANGED <<bar, active, ended>>
    BY <1>9 DEF FillNext
  <2> QED BY <1>1, <1>7, <2>1, <2>2
<1>10. CASE OnClose
  BY <1>1, <1>10 DEF OnClose, ExecuteStrategy
<1>11. CASE NextClose
  BY <1>1, <1>2, <1>11 DEF NextClose
<1>12. CASE BarEnd
  <2>1. pc = "barEnd" /\ pc' = "status" /\ active' = {} /\ bar' = bar + 1
        /\ symbol' = After(0, Symbols \ ended) /\ UNCHANGED <<price, ended>>
    BY <1>12 DEF BarEnd
  <2>2. bar <= NumBars /\ Symbols \ ended # {}
    BY <1>1, <2>1
  <2> QED BY <1>1, <1>2, <2>1, <2>2
<1>13. CASE Chain
  BY <1>1, <1>13 DEF Chain
<1>14. CASE AfterExit \/ AfterEntry
  BY <1>1, <1>14 DEF AfterExit, AfterEntry, ExecuteStrategy
<1>15. CASE Return
  BY <1>1, <1>15 DEF Return, AfterReturn
<1>16. CASE StrategyCall
  BY <1>1, <1>16, CallFrame
<1>17. CASE Stopped
  BY <1>1, <1>17 DEF Stopped, vars
<1> QED BY <1>3, <1>4, <1>5, <1>6, <1>8, <1>9, <1>10, <1>11, <1>12, <1>13, <1>14, <1>15,
           <1>16, <1>17 DEF Next, Engine

\* Filling an order raises a flag with what it reports, or neither.
LEMMA FillReports ==
    ASSUME FillOrder(symbol, Head(queue)) \/ UNCHANGED <<flags, history>>
    PROVE  Reported
<1>1. PICK f : f = Head(queue)
  OBVIOUS
<1>2. CASE FillLiquidation(symbol, f.order)
  BY <1>2 DEF FillLiquidation, Reported
<1>3. CASE FillExit(symbol, f.order)
  BY <1>3 DEF FillExit, Reported
<1>4. CASE Enter(symbol, f.order)
  BY <1>4 DEF Enter, Reported
<1>5. CASE UNCHANGED <<justEntered, justExited, entered, exited>>
  BY <1>5 DEF Reported
<1>6. FillOrder(symbol, f) => \/ FillLiquidation(symbol, f.order) \/ FillExit(symbol, f.order)
                              \/ Enter(symbol, f.order)
                              \/ UNCHANGED <<justEntered, justExited, entered, exited>>
  BY Zenon DEF FillOrder
<1> QED BY <1>1, <1>2, <1>3, <1>4, <1>5, <1>6 DEF flags, history

\* What is reported concerns the symbol that is visited.
LEMMA ReportedOK ==
    ASSUME ChainOK, symbol \in Symbols, Reported
    PROVE  /\ justEntered' \in BOOLEAN /\ justExited' \in BOOLEAN
           /\ entered' \subseteq Symbols /\ exited' \subseteq Symbols
<1>1. justEntered' \in {justEntered, TRUE} /\ justExited' \in {justExited, TRUE}
  BY DEF Reported, Entered, Exited
<1>2. justEntered' \in BOOLEAN /\ justExited' \in BOOLEAN
  BY <1>1, Zenon DEF ChainOK
<1>3. entered' \subseteq Symbols /\ exited' \subseteq Symbols
  BY DEF Reported, Entered, Exited, ChainOK
<1> QED BY <1>2, <1>3

\* The locals a chain starts with.
LEMMA LocalsNone == [entered |-> FALSE, exited |-> FALSE] \in [entered : BOOLEAN, exited : BOOLEAN]
OBVIOUS

\* The flags, the locals and the counters keep their types.
LEMMA ChainNext ==
    ASSUME IInv, Next
    PROVE  ChainOK'
<1> USE DEF ChainOK
<1>1. /\ ChainOK /\ MaxCalls \in Nat
      /\ (pc \in Visiting \cup {"status", "ending"} => symbol \in Symbols)
  BY LoopAssumption DEF IInv, LoopOK
<1>2. CASE UpdateTradingStatus
  <2>1. UNCHANGED <<justEntered, locals, strategy, caller, calls, entered, exited>>
    BY <1>2 DEF UpdateTradingStatus, history
  <2>2. justExited' \in {justExited, FALSE}
    BY <1>2 DEF UpdateTradingStatus, ExecuteTradingEnd
  <2> QED BY <1>1, <2>1, <2>2
<1>3. CASE StartBar
  BY <1>1, <1>3 DEF StartBar, flags, history
<1>4. CASE ExecuteAllTradingEnd
  <2>1. UNCHANGED <<justEntered, locals, strategy, caller, calls, entered, exited>>
    BY <1>4 DEF ExecuteAllTradingEnd, history
  <2>2. justExited' = FALSE
    BY <1>4 DEF ExecuteAllTradingEnd, ExecuteTradingEnd
  <2> QED BY <1>1, <2>1, <2>2
<1>5. CASE CheckFundingTime
  <2>1. UNCHANGED <<justEntered, locals, strategy, caller, calls, entered>>
    BY <1>5 DEF CheckFundingTime
  <2>2. justExited' \in {justExited, TRUE} /\ exited' \in {exited, exited \cup {symbol}}
    BY <1>5 DEF CheckFundingTime, Exited
  <2>3. symbol \in Symbols
    BY <1>1, <1>5 DEF CheckFundingTime, Visiting
  <2> QED BY <1>1, <2>1, <2>2, <2>3
<1>6. CASE CheckPrice
  BY <1>1, <1>6 DEF CheckPrice, flags, history
<1>7. CASE FillNext
  <2>1. UNCHANGED <<strategy, calls>> /\ caller' \in {caller, "fill"}
        /\ locals' \in {locals, [entered |-> FALSE, exited |-> FALSE]}
    BY <1>7 DEF FillNext
  <2>2. Reported
    BY <1>7, FillReports DEF FillNext
  <2>3. symbol \in Symbols
    BY <1>1, <1>7 DEF FillNext, Visiting
  <2>4. locals' \in [entered : BOOLEAN, exited : BOOLEAN]
    BY <1>1, <2>1, LocalsNone, Zenon
  <2> QED BY <1>1, <2>1, <2>2, <2>3, <2>4, ReportedOK
<1>8. CASE OnClose
  BY <1>1, <1>8 DEF OnClose, ExecuteStrategy, flags, history
<1>9. CASE NextClose
  BY <1>1, <1>9 DEF NextClose, flags, history
<1>10. CASE BarEnd
  BY <1>1, <1>10 DEF BarEnd, flags, history
<1>11. CASE Chain
  BY <1>1, <1>11 DEF Chain, LoopTest, flags, history
<1>12. CASE AfterExit
  BY <1>1, <1>12 DEF AfterExit, ExecuteStrategy
<1>13. CASE AfterEntry
  BY <1>1, <1>13 DEF AfterEntry, ExecuteStrategy, InitializeJustEntered
<1>14. CASE Return
  BY <1>1, <1>14 DEF Return, flags, history
<1>15. CASE StrategyCall
  <2>1. symbol \in Symbols
    BY <1>1, <1>15, CallFrame DEF Visiting
  <2>2. calls' \in 0..MaxCalls /\ UNCHANGED <<locals, strategy, caller>>
    BY <1>1, <1>15, CallFrame
  <2> QED BY <1>1, <1>15, <2>1, <2>2, CallFrame, ReportedOK
<1>16. CASE Stopped
  BY <1>1, <1>16 DEF Stopped, vars
<1> QED BY <1>2, <1>3, <1>4, <1>5, <1>6, <1>7, <1>8, <1>9, <1>10, <1>11, <1>12, <1>13, <1>14,
           <1>15, <1>16 DEF Next, Engine

\* Only the end of the data of a symbol adds to what was left unclosed, and what it adds
\* was filled.
LEMMA UnclosedNext ==
    ASSUME IInv, Next
    PROVE  unclosed' \subseteq Ids
<1>1. ASSUME NEW s \in Symbols, NEW following, ExecuteTradingEnd(s, following)
      PROVE  unclosed' \subseteq Ids
  <2>1. unclosed' \subseteq unclosed \cup IdsOf(Range(filled[s]))
    BY <1>1 DEF ExecuteTradingEnd
  <2>2. filled[s] \in Seq(Entries)
    BY DEF IInv, OrdersOK, BooksOK
  <2>3. DOMAIN filled[s] = 1..Len(filled[s])
    BY <2>2, LenProperties
  <2>4. ASSUME NEW i \in DOMAIN filled[s] PROVE filled[s][i].id \in Ids
    <3>1. filled[s][i] \in Entries
      BY <2>2, <2>3, ElementOfSeq
    <3> QED BY <3>1 DEF Entries
  <2> QED BY <2>1, <2>4 DEF IInv, IdsOf, Range
<1>2. CASE UpdateTradingStatus /\ ExecuteTradingEnd(symbol, "started")
  BY <1>1, <1>2 DEF UpdateTradingStatus, IInv, LoopOK
<1>3. CASE ExecuteAllTradingEnd
  BY <1>1, <1>3 DEF ExecuteAllTradingEnd, IInv, LoopOK
<1>4. Engine => \/ UpdateTradingStatus /\ ExecuteTradingEnd(symbol, "started")
                \/ ExecuteAllTradingEnd
                \/ UNCHANGED unclosed
  BY DEF Engine, UpdateTradingStatus, StartBar, CheckFundingTime, CheckPrice, FillNext,
         OnClose, NextClose, BarEnd, Chain, AfterExit, AfterEntry, Return
<1>5. StrategyCall => UNCHANGED unclosed
  BY CallFrame
<1>6. Stopped => UNCHANGED unclosed
  BY DEF Stopped, vars
<1> QED BY <1>2, <1>3, <1>4, <1>5, <1>6 DEF Next, IInv

-----------------------------------------------------------------------------
(* The theorems that hold whatever a funding does.                         *)

\* The engine starts with empty books.
LEMMA InitIInv == ASSUME Init PROVE IInv
<1>1. LoopOK
  BY LoopAssumption DEF Init, LoopOK, Visiting, Symbols
<1>2. ChainOK
  <2>1. /\ justEntered = FALSE /\ justExited = FALSE /\ strategy = "ON_CLOSE" /\ caller = "fill"
        /\ locals = [entered |-> FALSE, exited |-> FALSE] /\ calls = 0
        /\ entered = {} /\ exited = {} /\ MaxCalls \in Nat
    BY LoopAssumption DEF Init
  <2>2. locals \in [entered : BOOLEAN, exited : BOOLEAN]
    BY <2>1, LocalsNone, Zenon
  <2>3. justEntered \in BOOLEAN /\ justExited \in BOOLEAN
    BY <2>1
  <2> QED BY <2>1, <2>2, <2>3 DEF ChainOK
<1>3. BooksOK /\ EntryOrders = {}
  <2>1. DOMAIN queue = {} /\ \A s \in Symbols : Range(filled[s]) \cup entries[s] = {}
    BY EmptyOK DEF Init
  <2>2. BooksOK
    BY DEF Init, BooksOK
  <2> QED BY <2>1, <2>2 DEF EntryOrders
<1>4. \A s \in Symbols : /\ NamesDiffer(filled[s]) /\ TargetsIn(exits[s], filled[s])
                         /\ IsFiniteSet(entries[s]) /\ IsFiniteSet(exits[s])
  BY EmptyOK, FS_EmptySet DEF Init
<1> QED BY <1>1, <1>2, <1>3, <1>4 DEF Init, IInv, OrdersOK, OneName

\* Nothing changes when nothing steps.
LEMMA StutterIInv == ASSUME IInv, UNCHANGED vars PROVE IInv'
<1>1. OrdersOK'
  BY KeepsOrders DEF IInv, vars, orders
<1>2. LoopOK' /\ ChainOK'
  BY DEF IInv, LoopOK, ChainOK, vars
<1> QED BY <1>1, <1>2 DEF IInv, vars

\* The loop, the books of every symbol and the history of the last bar fit together in
\* every state.
THEOREM Invariance == Spec => []IInv
<1>1. Init => IInv
  BY InitIInv
<1>2. IInv /\ [Next]_vars => IInv'
  BY OrdersNext, LoopNext, ChainNext, UnclosedNext, StutterIInv DEF IInv
<1> QED BY <1>1, <1>2, PTL DEF Spec

\* The loops stay where the code can be, every list holds orders, and no bar has a
\* fifth price.
THEOREM TypeCorrect == Spec => []TypeOK
<1>1. IInv => TypeOK
  BY DEF IInv, LoopOK, ChainOK, OrdersOK, BooksOK, TypeOK, Visiting
<1> QED BY <1>1, Invariance, PTL

\* A pending exit closes the entry it was placed against.
THEOREM ExitsKeepTheirEntryHolds == Spec => []ExitsKeepTheirEntry
<1>1. IInv => ExitsKeepTheirEntry
  BY DEF IInv, OrdersOK, TargetsIn, ExitsKeepTheirEntry
<1> QED BY <1>1, Invariance, PTL

-----------------------------------------------------------------------------
(* What is filled was filled or pending.                                   *)

\* An order is an entry or an exit, never both.
LEMMA EntryIsNoExit == Entries \cap Exits = {}
<1>1. SUFFICES ASSUME NEW o \in Entries, o \in Exits PROVE FALSE
  OBVIOUS
<1>2. DOMAIN o = {"id", "name", "margin"}
  BY DEF Entries
<1>3. DOMAIN o = {"id", "name", "target", "of"}
  BY <1>1 DEF Exits
<1> QED BY <1>2, <1>3

\* Filling an order of the queue makes a position of nothing but a pending entry.
LEMMA FillKeepsIds ==
    ASSUME OrdersOK, NEW s \in Symbols, NEW f \in Fills, FillOrder(s, f)
    PROVE  IdsOf(Range(filled'[s])) \subseteq IdsOf(Range(filled[s])) \cup IdsOf(entries[s])
<1>1. filled \in [Symbols -> Seq(Entries)] /\ NamesDiffer(filled[s])
  BY DEF OrdersOK, BooksOK
<1>2. \A id : Range(Erase(s, id)) \subseteq Range(filled[s])
  BY <1>1, EraseOK
<1>3. CASE filled' = filled
  BY <1>3
<1>4. CASE FillLiquidation(s, f.order)
  <2>1. PICK u : u = Erase(s, f.order.id)
    OBVIOUS
  <2>2. filled'[s] = [i \in DOMAIN u |-> IF u[i].name = f.order.name
                                         THEN [u[i] EXCEPT !.margin = f.order.margin] ELSE u[i]]
    BY <1>1, <1>4, <2>1 DEF FillLiquidation
  <2>3. u \in Seq(Entries)
    BY <1>1, <2>1, EraseOK
  <2>4. \A i \in DOMAIN u : filled'[s][i].id = u[i].id
    BY <2>2, <2>3, ElementOfSeq, LenProperties DEF Entries
  <2>5. ASSUME NEW p \in Range(filled'[s]) PROVE p.id \in IdsOf(Range(filled[s]))
    <3>1. PICK i \in DOMAIN u : p = filled'[s][i]
      BY <2>2 DEF Range
    <3>2. u[i] \in Range(filled[s])
      BY <1>2, <2>1 DEF Range
    <3> QED BY <2>4, <3>1, <3>2 DEF IdsOf
  <2> QED BY <2>5 DEF IdsOf
<1>5. CASE FillExit(s, f.order)
  <2>1. PICK o : Close(s, o) \/ filled' = filled
    BY <1>5 DEF FillExit
  <2>2. CASE Close(s, o)
    <3>1. filled'[s] = Erase(s, o.id)
      BY <1>1, <2>2 DEF Close
    <3> QED BY <1>2, <3>1 DEF IdsOf
  <2> QED BY <1>3, <2>1, <2>2
<1>6. CASE /\ f.signal = "ENTRY" /\ ExistsPendingOrder(s, f.order)
           /\ IF IsValidEntryName(s, f.order.name) THEN Enter(s, f.order)
              ELSE UNCHANGED <<filled, exits, justEntered, justExited, entered, exited>>
  <2>1. f.order \in entries[s]
    <3>1. f.order \in Entries
      BY <1>6 DEF Fills
    <3>2. exits[s] \subseteq Exits
      BY DEF OrdersOK, BooksOK
    <3> QED BY <1>6, <3>1, <3>2, EntryIsNoExit DEF ExistsPendingOrder
  <2>2. CASE Enter(s, f.order) /\ Named(s, f.order.name) = {}
    <3>1. f.order \in Entries /\ filled[s] \in Seq(Entries)
      BY <1>1, <1>6 DEF Fills
    <3>2. \A i \in DOMAIN filled[s] : filled[s][i].name # f.order.name
      BY <2>2 DEF Named, Range
    <3>3. /\ Range(filled[s] \o <<f.order>>) = Range(filled[s]) \cup {f.order}
          /\ filled[s] \o <<>> = filled[s]
      BY <1>1, <3>1, <3>2, AppendOK, ConcatEmptySeq
    <3>4. Range(<<>> \o <<f.order>>) = {f.order} /\ Range(<<>> \o <<>>) = {}
      <4>1. \A i \in DOMAIN <<>> : <<>>[i].name # f.order.name
        OBVIOUS
      <4>2. Range(<<>> \o <<f.order>>) = Range(<<>>) \cup {f.order}
        BY <3>1, <4>1, AppendOK, EmptyOK
      <4>3. <<>> \o <<>> = <<>>
        BY EmptyOK, ConcatEmptySeq
      <4> QED BY <4>2, <4>3, EmptyOK
    <3>5. filled'[s] \in {filled[s] \o <<f.order>>, filled[s] \o <<>>,
                          <<>> \o <<f.order>>, <<>> \o <<>>}
      BY <1>1, <2>2 DEF Enter
    <3>6. Range(filled'[s]) \subseteq Range(filled[s]) \cup {f.order}
      BY <3>3, <3>4, <3>5
    <3> QED BY <2>1, <3>6 DEF IdsOf
  <2> QED BY <1>3, <1>6, <2>2 DEF IsValidEntryName
<1> QED
  <2>1. \/ FillLiquidation(s, f.order) \/ FillExit(s, f.order) \/ filled' = filled
        \/ /\ f.signal = "ENTRY" /\ ExistsPendingOrder(s, f.order)
           /\ IF IsValidEntryName(s, f.order.name) THEN Enter(s, f.order)
              ELSE UNCHANGED <<filled, exits, justEntered, justExited, entered, exited>>
    BY Zenon DEF FillOrder
  <2> QED BY <1>3, <1>4, <1>5, <1>6, <2>1

\* Only FillNext runs while the queue is visited.
LEMMA FillOnly == ASSUME Next, pc = "fill" PROVE FillNext
BY CallFrame DEF Next, Engine, UpdateTradingStatus, StartBar, ExecuteAllTradingEnd,
   CheckFundingTime, CheckPrice, OnClose, NextClose, BarEnd, Chain, AfterExit, AfterEntry,
   Return, Stopped

\* What the queue holds and a strategy has cancelled or replaced is not filled.
THEOREM QueueNeverRevivesHolds == Spec => QueueNeverRevives
<1> DEFINE Revives == pc = "fill" =>
              \A s \in Symbols :
                 IdsOf(Range(filled'[s])) \subseteq IdsOf(Range(filled[s])) \cup IdsOf(entries[s])
<1>1. ASSUME IInv, [Next]_vars PROVE [Revives]_vars
  <2>1. SUFFICES ASSUME Next, pc = "fill", NEW s \in Symbols
                 PROVE  IdsOf(Range(filled'[s]))
                           \subseteq IdsOf(Range(filled[s])) \cup IdsOf(entries[s])
    BY <1>1
  <2>2. FillNext /\ OthersKept(symbol) /\ OrdersOK
    BY <1>1, <2>1, FillOnly, OrdersNext DEF IInv
  <2>3. CASE s # symbol
    BY <2>2, <2>3 DEF OthersKept
  <2>4. CASE s = symbol /\ queue = <<>>
    BY <2>2, <2>4 DEF FillNext, orders
  <2>5. CASE s = symbol /\ queue # <<>>
    BY <2>2, <2>5, HeadIn, FillKeepsIds DEF FillNext
  <2> QED BY <2>3, <2>4, <2>5
<1> QED BY <1>1, Invariance, PTL DEF Spec, QueueNeverRevives

-----------------------------------------------------------------------------
(* A symbol that has ended.                                                *)

OneEntryName == \A m, n \in EntryNames : m = n

\* Orders of an ended symbol are gone.  When the strategy uses one name no vector holds
\* two positions and CloseAll skips none: what is left is what was refused.
EndedOK ==
    \A s \in ended : /\ entries[s] = {} /\ exits[s] = {}
                     /\ OneEntryName => IdsOf(Range(filled[s])) \subseteq unclosed

\* With one name for entries, a symbol has no more than one position.
LEMMA OneNameOnePosition ==
    ASSUME OneEntryName, NEW v \in Seq(Entries), NamesDiffer(v)
    PROVE  Len(v) <= 1
<1>1. SUFFICES ASSUME ~(Len(v) <= 1) PROVE FALSE
  OBVIOUS
<1>2. Len(v) \in Nat /\ DOMAIN v = 1..Len(v)
  BY LenProperties
<1>3. 1 \in DOMAIN v /\ 2 \in DOMAIN v /\ v[1] \in Entries /\ v[2] \in Entries
  BY <1>1, <1>2, ElementOfSeq
<1>4. v[1].name = v[2].name
  BY <1>3 DEF OneEntryName, Entries
<1> QED BY <1>3, <1>4 DEF NamesDiffer

\* The end of the data of a symbol leaves it without orders; what other symbols were left
\* with stays.
LEMMA EndOfSymbol ==
    ASSUME IInv, EndedOK, symbol \in Symbols, NEW following, OthersKept(symbol),
           ExecuteTradingEnd(symbol, following)
    PROVE  EndedOK'
<1>1. BooksOK /\ NamesDiffer(filled[symbol]) /\ filled[symbol] \in Seq(Entries)
  BY DEF IInv, OrdersOK, BooksOK
<1>2. PICK refused : /\ entries'[symbol] = {} /\ exits'[symbol] = {}
                      /\ filled'[symbol] = LeftByCloseAll(filled[symbol], refused)
                      /\ unclosed' = unclosed \cup refused
  BY <1>1 DEF ExecuteTradingEnd, Cancelled, BooksOK
<1>3. OneEntryName => IdsOf(Range(filled'[symbol])) \subseteq unclosed'
  BY <1>1, <1>2, OneNameOnePosition, LeftByCloseAllOK
<1>4. ended' = ended \cup {symbol} /\ ended \subseteq Symbols
  BY DEF ExecuteTradingEnd, IInv, LoopOK
<1> QED BY <1>2, <1>3, <1>4 DEF EndedOK, OthersKept, IdsOf

\* What ended stays ended: every other step is about a symbol that is still active.
LEMMA EndedNext ==
    ASSUME IInv, EndedOK, Next
    PROVE  EndedOK'
<1>1. LoopOK /\ OthersKept(symbol)
  BY OrdersNext DEF IInv
<1>2. CASE UpdateTradingStatus /\ ExecuteTradingEnd(symbol, "started")
  BY <1>1, <1>2, EndOfSymbol DEF UpdateTradingStatus, LoopOK
<1>3. CASE ExecuteAllTradingEnd
  BY <1>1, <1>3, EndOfSymbol DEF ExecuteAllTradingEnd, LoopOK
<1>4. CASE UNCHANGED <<ended, unclosed, orders>>
  BY <1>4 DEF EndedOK, orders, IdsOf
<1>5. CASE UNCHANGED <<ended, unclosed>> /\ symbol \notin ended
  BY <1>1, <1>5 DEF EndedOK, OthersKept, LoopOK, IdsOf
<1>6. pc \in {"funding", "fill", "strategy"} => symbol \notin ended
  BY <1>1 DEF LoopOK, Visiting
<1>7. Engine => \/ UpdateTradingStatus /\ ExecuteTradingEnd(symbol, "started")
                \/ ExecuteAllTradingEnd
                \/ UNCHANGED <<ended, unclosed, orders>>
                \/ UNCHANGED <<ended, unclosed>> /\ pc \in {"funding", "fill"}
  BY DEF Engine, UpdateTradingStatus, StartBar, CheckFundingTime, CheckPrice, FillNext,
         OnClose, NextClose, BarEnd, Chain, AfterExit, AfterEntry, Return
<1>8. StrategyCall => UNCHANGED <<ended, unclosed>> /\ pc = "strategy"
  BY CallFrame
<1>9. Stopped => UNCHANGED <<ended, unclosed, orders>>
  BY DEF Stopped, vars, orders
<1> QED BY <1>2, <1>3, <1>4, <1>5, <1>6, <1>7, <1>8, <1>9 DEF Next

\* A symbol that has ended has no orders and, with one name for entries, no position but
\* those whose exit was refused.
LEMMA EndedInvariance == Spec => []EndedOK
<1>1. Init => EndedOK
  BY DEF Init, EndedOK
<1>2. IInv /\ EndedOK /\ [Next]_vars => EndedOK'
  <2>1. IInv /\ EndedOK /\ UNCHANGED vars => EndedOK'
    BY DEF EndedOK, vars, IdsOf
  <2> QED BY <2>1, EndedNext
<1> QED BY <1>1, <1>2, Invariance, PTL DEF Spec

\* A symbol that has ended has no pending orders, whatever CloseAll leaves.
THEOREM EndedHasNoOrders ==
    Spec => [](\A s \in ended : entries[s] = {} /\ exits[s] = {})
<1>1. EndedOK => \A s \in ended : entries[s] = {} /\ exits[s] = {}
  BY DEF EndedOK
<1> QED BY <1>1, EndedInvariance, PTL

\* The end of the data of a symbol closes every position whose exit size and notional
\* value allow, if the strategy uses one entry name.
THEOREM EndedIsClosedHolds ==
    ASSUME OneEntryName PROVE Spec => []EndedIsClosed
<1>1. EndedOK => EndedIsClosed
  BY DEF EndedOK, EndedIsClosed
<1> QED BY <1>1, EndedInvariance, PTL

-----------------------------------------------------------------------------
(* The flags and what the strategies have yet to see, when no funding      *)
(* liquidates: a funding raises a flag that nothing looks at before the    *)
(* next fill, of whatever symbol that is.                                  *)

\* Loops that run between a fill, or a strategy on close, and the next one.
Strategic == {"chain", "afterExit", "afterEntry", "strategy"}

\* The flags say whether the symbol that is visited has something to be seen.
HistoryOK ==
    /\ pc \notin Strategic => entered = {} /\ exited = {}
    /\ entered \subseteq {symbol} /\ exited \subseteq {symbol}
    /\ justEntered = TRUE <=> entered # {}
    /\ justExited = TRUE <=> exited # {}
    /\ pc = "afterExit" => locals.exited = justExited

\* A bar that is reported to the strategies leaves a history of its own symbol.
LEMMA HistoryReported ==
    ASSUME HistoryOK, UNCHANGED symbol, Reported
    PROVE  /\ entered' \subseteq {symbol'} /\ exited' \subseteq {symbol'}
           /\ justEntered' = TRUE <=> entered' # {}
           /\ justExited' = TRUE <=> exited' # {}
BY DEF HistoryOK, Reported, Entered, Exited

\* Every step keeps the history of the last bar.
LEMMA HistoryNext ==
    ASSUME IInv, FundingLiquidates = FALSE, HistoryOK, Next
    PROVE  HistoryOK'
<1> USE DEF HistoryOK, Strategic
<1>1. caller \in {"fill", "closed"} /\ justEntered \in BOOLEAN /\ justExited \in BOOLEAN
  BY DEF IInv, ChainOK
<1>2. ASSUME pc \notin Strategic, pc' \notin Strategic, UNCHANGED <<justEntered, entered, exited>>,
             justExited' \in {justExited, FALSE}
      PROVE  HistoryOK'
  BY <1>1, <1>2
<1>3. CASE UpdateTradingStatus
  <2>1. UNCHANGED <<justEntered, entered, exited>> /\ justExited' \in {justExited, FALSE}
    BY <1>3 DEF UpdateTradingStatus, ExecuteTradingEnd, history
  <2>2. pc = "status" /\ pc' \in {"status", "started", "crashed"}
    BY <1>3 DEF UpdateTradingStatus, ExecuteTradingEnd, Advance
  <2> QED BY <1>2, <2>1, <2>2
<1>4. CASE ExecuteAllTradingEnd
  <2>1. UNCHANGED <<justEntered, entered, exited>> /\ justExited' \in {justExited, FALSE}
    BY <1>4 DEF ExecuteAllTradingEnd, ExecuteTradingEnd, history
  <2>2. pc = "ending" /\ pc' \in {"ending", "done", "crashed"}
    BY <1>4 DEF ExecuteAllTradingEnd, ExecuteTradingEnd, Advance
  <2> QED BY <1>2, <2>1, <2>2
<1>5. CASE StartBar \/ CheckFundingTime \/ CheckPrice \/ NextClose \/ BarEnd
  <2>1. UNCHANGED <<justEntered, entered, exited, justExited>>
    BY <1>5 DEF StartBar, CheckFundingTime, CheckPrice, NextClose, BarEnd, flags, history
  <2>2. pc \notin Strategic /\ pc' \notin Strategic
    BY <1>5 DEF StartBar, CheckFundingTime, CheckPrice, NextPrice, NextClose, BarEnd
  <2> QED BY <1>2, <2>1, <2>2
<1>6. CASE FillNext
  <2>1. CASE queue = <<>>
    BY <1>2, <1>6, <2>1 DEF FillNext, NextPrice, flags, history
  <2>2. CASE queue # <<>>
    BY <1>6, <2>2, FillReports, HistoryReported DEF FillNext
  <2> QED BY <2>1, <2>2
<1>7. CASE OnClose
  BY <1>7 DEF OnClose, ExecuteStrategy, flags, history
<1>8. CASE Chain
  <2>1. UNCHANGED <<symbol, justEntered, justExited, entered, exited>> /\ locals'.exited = justExited
    BY <1>8 DEF Chain, LoopTest, flags, history
  <2>2. pc' = IF justExited \/ justEntered THEN "afterExit" ELSE caller
    BY <1>8 DEF Chain
  <2> QED BY <1>1, <2>1, <2>2
<1>9. CASE AfterExit
  BY <1>1, <1>9 DEF AfterExit, ExecuteStrategy
<1>10. CASE AfterEntry
  BY <1>1, <1>10 DEF AfterEntry, ExecuteStrategy, InitializeJustEntered
<1>11. CASE Return
  BY <1>11 DEF Return, AfterReturn, flags, history
<1>12. CASE StrategyCall
  BY <1>12, CallFrame, HistoryReported
<1>13. CASE Stopped
  BY <1>13 DEF Stopped, vars
<1> QED BY <1>3, <1>4, <1>5, <1>6, <1>7, <1>8, <1>9, <1>10, <1>11, <1>12, <1>13 DEF Next, Engine

\* What the strategies are told of the last bar is what happened in it.
LEMMA HistoryInvariance ==
    ASSUME FundingLiquidates = FALSE PROVE Spec => []HistoryOK
<1>1. Init => HistoryOK
  BY DEF Init, HistoryOK
<1>2. IInv /\ HistoryOK /\ [Next]_vars => HistoryOK'
  <2>1. IInv /\ HistoryOK /\ UNCHANGED vars => HistoryOK'
    BY DEF HistoryOK, vars
  <2> QED BY <2>1, HistoryNext
<1> QED BY <1>1, <1>2, Invariance, PTL DEF Spec

\* The strategies have seen every entry and every exit before the next price is
\* looked at and the next bar begins, when no funding liquidates.
THEOREM StrategiesCaughtUpHolds ==
    ASSUME FundingLiquidates = FALSE PROVE Spec => []StrategiesCaughtUp
<1>1. HistoryOK => StrategiesCaughtUp
  BY DEF HistoryOK, Strategic, StrategiesCaughtUp
<1> QED BY <1>1, HistoryInvariance, PTL

\* An AFTER_EXIT strategy runs only for the symbol that was exited, when no funding
\* liquidates.
THEOREM AfterExitEarnedHolds ==
    ASSUME FundingLiquidates = FALSE PROVE Spec => AfterExitEarned
<1>1. HistoryOK /\ [Next]_vars => [pc = "afterExit" /\ locals.exited => symbol \in exited]_vars
  BY DEF HistoryOK
<1> QED BY <1>1, HistoryInvariance, PTL DEF Spec, AfterExitEarned
=============================================================================
