------------------------- MODULE OrderHandler_proofs -------------------------
(***************************************************************************)
(* Proofs about OrderHandler for every value of its constants, for         *)
(* strategies that never reuse the name of a filled entry.                 *)
(***************************************************************************)
EXTENDS OrderHandler, WellFoundedInduction, TLAPS

\* The strategy follows the naming rule.
NoReuse == ~ReusesFilledName

-----------------------------------------------------------------------------
(* Facts about Total.  No induction theorem of the library applies without *)
(* an operator parameter, so each induction is a proof by least            *)
(* counterexample, from the well-foundedness of < on the naturals.         *)

\* Every nonempty set of naturals has a least element.
LEMMA LeastNat ==
    ASSUME NEW T, T \subseteq Nat, T # {}
    PROVE  \E x \in T : \A y \in T : x <= y
<1>1. PICK x \in T : \A y \in T : ~(<<y, x>> \in OpToRel(<, Nat))
  <2>1. IsWellFoundedOn(OpToRel(<, Nat), Nat)
    BY NatLessThanWellFounded, Zenon
  <2> QED BY <2>1, WFMin, Zenon
<1>2. ASSUME NEW y \in T PROVE x <= y
  <2>1. <<y, x>> \notin OpToRel(<, Nat)
    BY <1>1
  <2>2. x \in Nat /\ y \in Nat
    OBVIOUS
  <2>3. ~(y < x)
    BY <2>1, <2>2 DEF OpToRel
  <2> QED BY <2>2, <2>3
<1> QED BY <1>2

\* A set of naturals that holds 0 and the successor of each of its members below
\* n holds every natural up to n.
LEMMA UpTo ==
    ASSUME NEW n \in Nat, NEW T, 0 \in T,
           \A i \in 1..n : i - 1 \in T => i \in T
    PROVE  0..n \subseteq T
<1> DEFINE Bad == {i \in 0..n : i \notin T}
<1>1. SUFFICES ASSUME Bad # {} PROVE FALSE
  OBVIOUS
<1>2. PICK x \in Bad : \A y \in Bad : x <= y
  <2>1. Bad \subseteq Nat
    OBVIOUS
  <2> HIDE DEF Bad
  <2> QED BY <1>1, <2>1, LeastNat, Zenon
<1>3. x # 0 /\ x \in 1..n
  OBVIOUS
<1>4. x - 1 \in T
  BY <1>2, <1>3
<1> QED BY <1>3, <1>4

IsPrefixSums(g, f, n) == g = [i \in 0..n |-> IF i = 0 THEN 0 ELSE g[i - 1] + f[i]]

\* The recursive definition of PrefixSums does define a function.
LEMMA PrefixSumsExist ==
    ASSUME NEW n \in Nat, NEW f
    PROVE  \E g : IsPrefixSums(g, f, n)
<1> DEFINE T == {k \in 0..n : \E g : IsPrefixSums(g, f, k)}
<1>1. 0 \in T
  <2>1. IsPrefixSums([i \in 0..0 |-> 0], f, 0)
    BY DEF IsPrefixSums
  <2> QED BY <2>1
<1>2. ASSUME NEW k \in 1..n, k - 1 \in T PROVE k \in T
  <2>1. PICK g : IsPrefixSums(g, f, k - 1)
    BY <1>2
  <2> DEFINE h == [i \in 0..k |-> IF i = k THEN g[k - 1] + f[k] ELSE g[i]]
  <2>2. ASSUME NEW i \in 0..k
        PROVE  h[i] = IF i = 0 THEN 0 ELSE h[i - 1] + f[i]
    <3>1. CASE i = k
      BY <3>1
    <3>2. CASE i # k
      <4>1. i \in 0..(k - 1) /\ (i # 0 => i - 1 \in 0..k /\ i - 1 # k)
        BY <3>2
      <4>2. g[i] = IF i = 0 THEN 0 ELSE g[i - 1] + f[i]
        BY <4>1, <2>1 DEF IsPrefixSums
      <4> QED BY <3>2, <4>1, <4>2
    <3> QED BY <3>1, <3>2
  <2>3. h = [i \in 0..k |-> IF i = 0 THEN 0 ELSE h[i - 1] + f[i]]
    <3> HIDE DEF h
    <3>1. h = [i \in 0..k |-> h[i]]
      BY DEF h
    <3> QED BY <2>2, <3>1
  <2> HIDE DEF h
  <2> QED BY <2>3 DEF IsPrefixSums
<1> HIDE DEF T
<1>3. 0..n \subseteq T
  BY <1>1, <1>2, UpTo
<1> QED BY <1>3 DEF T

\* The two equations PrefixSums satisfies.
LEMMA PrefixSumsEquations ==
    ASSUME NEW n \in Nat, NEW f
    PROVE  /\ PrefixSums(f, n)[0] = 0
           /\ \A i \in 1..n : PrefixSums(f, n)[i] = PrefixSums(f, n)[i - 1] + f[i]
<1> DEFINE p == PrefixSums(f, n)
<1>1. IsPrefixSums(p, f, n)
  BY PrefixSumsExist, Zenon DEF PrefixSums, IsPrefixSums
<1> HIDE DEF p
<1>2. p = [i \in 0..n |-> IF i = 0 THEN 0 ELSE p[i - 1] + f[i]]
  BY <1>1 DEF IsPrefixSums
<1>3. p[0] = 0 /\ \A i \in 1..n : p[i] = p[i - 1] + f[i]
  BY <1>2
<1> QED BY <1>3 DEF p

\* The partial sums of integers are integers.
LEMMA PrefixSumsInt ==
    ASSUME NEW n \in Nat, NEW f, \A i \in 1..n : f[i] \in Int
    PROVE  \A i \in 0..n : PrefixSums(f, n)[i] \in Int
<1> DEFINE p == PrefixSums(f, n)
           T == {k \in 0..n : p[k] \in Int}
<1>1. p[0] = 0 /\ \A i \in 1..n : p[i] = p[i - 1] + f[i]
  BY PrefixSumsEquations
<1> HIDE DEF p
<1>2. 0 \in T /\ \A i \in 1..n : i - 1 \in T => i \in T
  BY <1>1
<1> HIDE DEF T
<1>3. 0..n \subseteq T
  BY <1>2, UpTo
<1> QED BY <1>3 DEF T, p

\* The total of integers is an integer.
LEMMA TotalInt ==
    ASSUME NEW n \in Nat, NEW f, \A i \in 1..n : f[i] \in Int
    PROVE  Total(f, n) \in Int
BY PrefixSumsInt DEF Total

\* Changing what one slot holds changes the total by the difference.
LEMMA TotalUpdate ==
    ASSUME NEW n \in Nat, NEW f, NEW g, NEW k \in 1..n,
           \A i \in 1..n : f[i] \in Int /\ g[i] \in Int,
           \A i \in 1..n : i # k => g[i] = f[i]
    PROVE  Total(g, n) = Total(f, n) + g[k] - f[k]
<1> DEFINE p == PrefixSums(f, n)
           q == PrefixSums(g, n)
           T == {i \in 0..n : q[i] = IF i < k THEN p[i] ELSE p[i] + g[k] - f[k]}
<1>1. /\ p[0] = 0 /\ \A i \in 1..n : p[i] = p[i - 1] + f[i]
      /\ q[0] = 0 /\ \A i \in 1..n : q[i] = q[i - 1] + g[i]
      /\ \A i \in 0..n : p[i] \in Int /\ q[i] \in Int
  BY PrefixSumsEquations, PrefixSumsInt
<1> HIDE DEF p, q
<1>2. 0 \in T
  BY <1>1
<1>3. ASSUME NEW i \in 1..n, i - 1 \in T PROVE i \in T
  <2>1. CASE i < k
    BY <1>1, <1>3, <2>1
  <2>2. CASE i = k
    BY <1>1, <1>3, <2>2
  <2>3. CASE i > k
    BY <1>1, <1>3, <2>3
  <2> QED BY <2>1, <2>2, <2>3
<1> HIDE DEF T
<1>4. 0..n \subseteq T
  BY <1>2, <1>3, UpTo
<1>5. q[n] = p[n] + g[k] - f[k]
  BY <1>4 DEF T
<1> QED BY <1>5 DEF Total, p, q

\* The total only depends on what the slots hold.
LEMMA TotalEqual ==
    ASSUME NEW n \in Nat, NEW f, NEW g,
           \A i \in 1..n : f[i] \in Int, \A i \in 1..n : g[i] = f[i]
    PROVE  Total(g, n) = Total(f, n)
<1>1. CASE n = 0
  BY <1>1, PrefixSumsEquations DEF Total
<1>2. CASE n # 0
  <2>1. 1 \in 1..n
    BY <1>2
  <2>2. Total(g, n) = Total(f, n) + g[1] - f[1]
    BY <2>1, TotalUpdate
  <2> QED BY <2>1, <2>2, TotalInt
<1> QED BY <1>1, <1>2

\* The total of the sums is the sum of the totals.
LEMMA TotalPlus ==
    ASSUME NEW n \in Nat, NEW f, NEW g, NEW h,
           \A i \in 1..n : f[i] \in Int /\ g[i] \in Int,
           \A i \in 1..n : h[i] = f[i] + g[i]
    PROVE  Total(h, n) = Total(f, n) + Total(g, n)
<1> DEFINE p == PrefixSums(f, n)
           q == PrefixSums(g, n)
           r == PrefixSums(h, n)
           T == {i \in 0..n : r[i] = p[i] + q[i]}
<1>1. /\ p[0] = 0 /\ \A i \in 1..n : p[i] = p[i - 1] + f[i]
      /\ q[0] = 0 /\ \A i \in 1..n : q[i] = q[i - 1] + g[i]
      /\ r[0] = 0 /\ \A i \in 1..n : r[i] = r[i - 1] + h[i]
      /\ \A i \in 0..n : p[i] \in Int /\ q[i] \in Int
  BY PrefixSumsEquations, PrefixSumsInt
<1> HIDE DEF p, q, r
<1>2. 0 \in T /\ \A i \in 1..n : i - 1 \in T => i \in T
  BY <1>1
<1> HIDE DEF T
<1>3. 0..n \subseteq T
  BY <1>2, UpTo
<1>4. r[n] = p[n] + q[n]
  BY <1>3 DEF T
<1> QED BY <1>4 DEF Total, p, q, r

\* The total of naturals is a natural.
LEMMA TotalNat ==
    ASSUME NEW n \in Nat, NEW f, \A i \in 1..n : f[i] \in Nat
    PROVE  Total(f, n) \in Nat
<1> DEFINE p == PrefixSums(f, n)
           T == {k \in 0..n : p[k] \in Nat}
<1>1. p[0] = 0 /\ \A i \in 1..n : p[i] = p[i - 1] + f[i]
  BY PrefixSumsEquations
<1> HIDE DEF p
<1>2. 0 \in T /\ \A i \in 1..n : i - 1 \in T => i \in T
  BY <1>1
<1> HIDE DEF T
<1>3. 0..n \subseteq T
  BY <1>2, UpTo
<1> QED BY <1>3 DEF T, p, Total

\* No slot holds more than the total of naturals.
LEMMA TotalBounds ==
    ASSUME NEW n \in Nat, NEW f, \A i \in 1..n : f[i] \in Nat, NEW k \in 1..n
    PROVE  f[k] <= Total(f, n)
<1> DEFINE g == [i \in 1..n |-> IF i = k THEN 0 ELSE f[i]]
<1>1. Total(g, n) = Total(f, n) + g[k] - f[k]
  <2>1. \A i \in 1..n : f[i] \in Int /\ g[i] \in Int
    OBVIOUS
  <2>2. \A i \in 1..n : i # k => g[i] = f[i]
    OBVIOUS
  <2> HIDE DEF g
  <2> QED BY <2>1, <2>2, TotalUpdate
<1>2. Total(g, n) \in Nat
  <2>1. \A i \in 1..n : g[i] \in Nat
    OBVIOUS
  <2> HIDE DEF g
  <2> QED BY <2>1, TotalNat
<1>3. Total(f, n) \in Int /\ g[k] = 0 /\ f[k] \in Nat
  BY TotalNat
<1> HIDE DEF g
<1> QED BY <1>1, <1>2, <1>3

\* The total of zeros is zero.
LEMMA TotalZero ==
    ASSUME NEW n \in Nat, NEW f, \A i \in 1..n : f[i] = 0
    PROVE  Total(f, n) = 0
<1>1. Total(f, n) = Total(f, n) + Total(f, n)
  BY TotalPlus
<1> QED BY <1>1, TotalInt

-----------------------------------------------------------------------------
(* The inductive invariant.                                                *)

EntryOK(e, lev) ==
    /\ e \in Entries
    /\ e.stage = "free" => e.margin = 0
    /\ e.stage # "free" => e.exited < e.size
    /\ e.stage # "filled" => e.exited = 0 /\ e.funding = 0
    /\ e.stage = "filled" => e.lev = lev[e.sym]

\* Two filled entries of a symbol face the same way and have different names.
Compatible(e, f) ==
    e.stage = "filled" /\ f.stage = "filled" /\ e.sym = f.sym
        => e.dir = f.dir /\ e.name # f.name

\* ent gives every slot an order.
IsBook(ent) == ent = [i \in EntryIds |-> ent[i]]

EntriesOK(ent, lev) ==
    /\ IsBook(ent)
    /\ \A i \in EntryIds : EntryOK(ent[i], lev)
    /\ \A i, j \in EntryIds : i # j => Compatible(ent[i], ent[j])

\* Exit order o is a current copy of entry e.
Tracks(o, e) ==
    /\ e.stage = "filled" /\ e.sym = o.sym /\ e.name = o.target
    /\ e.margin = o.margin /\ e.funding = o.funding

ExitOK(o, ent) ==
    /\ o \in Exits
    /\ o.stage = "pending" => o.size > 0 /\ \E i \in EntryIds : Tracks(o, ent[i])

ExitsOK(exs, ent) ==
    /\ exs = [x \in ExitIds |-> exs[x]]
    /\ \A x \in ExitIds : ExitOK(exs[x], ent)

AccountOK(w, u, pnl, ent) ==
    /\ w \in Nat /\ u \in Nat /\ pnl \in Int
    /\ u = Total(HeldMargins(ent), MaxEntries)
    /\ w = InitialBalance + pnl + Total(Accruals(ent), MaxEntries)

StateOK(w, u, pnl, lev, ent, exs) ==
    /\ lev \in [Symbols -> Leverages \cup {1}]
    /\ EntriesOK(ent, lev) /\ ExitsOK(exs, ent) /\ AccountOK(w, u, pnl, ent)

\* Where a fill, or a change of leverage, has got to.
FillOK ==
    /\ filling \in {0} \cup EntryIds /\ step \in {"none", "reverse", "leverage", "admit"}
    /\ todo \subseteq EntryIds /\ engineError \in BOOLEAN
    /\ \A i \in EntryIds : entry[i].stage = "filling" <=> i = filling
    /\ step = "none" => filling = 0
    /\ step = "leverage" =>
         \A i \in todo : entry[i].stage = "pending" /\ leverage[entry[i].sym] \in Leverages
    /\ filling # 0 =>
         /\ \A i \in EntryIds : ~(entry[i].stage = "filled" /\ entry[i].sym = entry[filling].sym
                                  /\ entry[i].name = entry[filling].name)
         /\ step \in {"leverage", "admit"} =>
              /\ leverage[entry[filling].sym] = entry[filling].lev
              /\ \A i \in EntryIds : entry[i].stage = "filled" /\ entry[i].sym = entry[filling].sym
                                        => entry[i].dir = entry[filling].dir

IInv == StateOK(wallet, usedMargin, netPnl, leverage, entry, exit) /\ FillOK

-----------------------------------------------------------------------------
(* Lemmas about the operators of the model.                                *)

\* Some picks a member of a nonempty set.
LEMMA SomeIn == ASSUME NEW S, S # {} PROVE Some(S) \in S
BY DEF Some

\* An empty slot is a good entry.
LEMMA NoEntryOK == ASSUME NEW lev PROVE EntryOK(NoEntry, lev)
<1>1. Some(Symbols) \in Symbols /\ Some(EntryNames) \in EntryNames /\ Some(Directions) \in Directions
      /\ Some(Leverages) \in Leverages
  BY SomeIn, SymbolsAssumption, AmountsAssumption
<1> QED BY <1>1 DEF NoEntry, EntryOK, Entries

\* An empty slot is a good exit.
LEMMA NoExitOK == ASSUME NEW ent PROVE ExitOK(NoExit, ent)
<1>1. Some(Symbols) \in Symbols /\ Some(EntryNames) \in EntryNames
  BY SomeIn, SymbolsAssumption
<1> QED BY <1>1 DEF NoExit, ExitOK, Exits

\* What a good entry holds and has accrued are integers.
LEMMA EntryAmounts ==
    ASSUME NEW lev, NEW e, EntryOK(e, lev)
    PROVE  e.margin \in Nat /\ Unreported(e) \in Int
<1>1. e.margin \in Nat /\ e.funding \in Int /\ e.unitFee \in Nat /\ e.size \in Nat /\ e.exited \in Nat
  BY DEF EntryOK, Entries
<1> QED BY <1>1 DEF Unreported, Remaining

\* Totals of the entries once slot i holds e.
LEMMA SlotTotals ==
    ASSUME NEW lev, NEW ent, NEW new, EntriesOK(ent, lev), NEW i \in EntryIds,
           \A j \in EntryIds : EntryOK(new[j], lev) /\ (j # i => new[j] = ent[j])
    PROVE  /\ Total(HeldMargins(new), MaxEntries)
                = Total(HeldMargins(ent), MaxEntries) + new[i].margin - ent[i].margin
           /\ Total(Accruals(new), MaxEntries)
                = Total(Accruals(ent), MaxEntries) + Unreported(new[i]) - Unreported(ent[i])
<1>1. MaxEntries \in Nat /\ i \in 1..MaxEntries /\ EntryIds = 1..MaxEntries
  BY BoundsAssumption DEF EntryIds
<1>2. \A j \in 1..MaxEntries :
         /\ HeldMargins(ent)[j] = ent[j].margin /\ HeldMargins(new)[j] = new[j].margin
         /\ Accruals(ent)[j] = Unreported(ent[j]) /\ Accruals(new)[j] = Unreported(new[j])
         /\ ent[j].margin \in Int /\ new[j].margin \in Int
         /\ Unreported(ent[j]) \in Int /\ Unreported(new[j]) \in Int
  <2>1. \A j \in EntryIds : EntryOK(ent[j], lev) /\ EntryOK(new[j], lev)
    BY DEF EntriesOK
  <2> QED BY <1>1, <2>1, EntryAmounts DEF HeldMargins, Accruals
<1>3. \A j \in 1..MaxEntries : j # i => new[j] = ent[j]
  BY DEF EntryIds
<1>4. ASSUME NEW f, NEW g, \A j \in 1..MaxEntries : f[j] \in Int /\ g[j] \in Int,
             \A j \in 1..MaxEntries : j # i => g[j] = f[j]
      PROVE  Total(g, MaxEntries) = Total(f, MaxEntries) + g[i] - f[i]
  BY <1>1, <1>4, TotalUpdate
<1>5. Total(HeldMargins(new), MaxEntries)
        = Total(HeldMargins(ent), MaxEntries) + HeldMargins(new)[i] - HeldMargins(ent)[i]
  <2> DEFINE f == HeldMargins(ent)
             g == HeldMargins(new)
  <2>1. \A j \in 1..MaxEntries : f[j] \in Int /\ g[j] \in Int
    BY <1>2
  <2>2. \A j \in 1..MaxEntries : j # i => g[j] = f[j]
    BY <1>2, <1>3
  <2> HIDE DEF f, g
  <2>3. Total(g, MaxEntries) = Total(f, MaxEntries) + g[i] - f[i]
    BY <1>4, <2>1, <2>2
  <2> QED BY <2>3 DEF f, g
<1>6. Total(Accruals(new), MaxEntries)
        = Total(Accruals(ent), MaxEntries) + Accruals(new)[i] - Accruals(ent)[i]
  <2> DEFINE f == Accruals(ent)
             g == Accruals(new)
  <2>1. \A j \in 1..MaxEntries : f[j] \in Int /\ g[j] \in Int
    BY <1>2
  <2>2. \A j \in 1..MaxEntries : j # i => g[j] = f[j]
    BY <1>2, <1>3
  <2> HIDE DEF f, g
  <2>3. Total(g, MaxEntries) = Total(f, MaxEntries) + g[i] - f[i]
    BY <1>4, <2>1, <2>2
  <2> QED BY <2>3 DEF f, g
<1> QED BY <1>1, <1>2, <1>5, <1>6

\* The totals of a good book are integers, and no margin exceeds the total.
LEMMA BookTotals ==
    ASSUME NEW lev, NEW ent, EntriesOK(ent, lev)
    PROVE  /\ Total(HeldMargins(ent), MaxEntries) \in Nat
           /\ Total(Accruals(ent), MaxEntries) \in Int
           /\ \A i \in EntryIds : ent[i].margin <= Total(HeldMargins(ent), MaxEntries)
<1>1. MaxEntries \in Nat /\ EntryIds = 1..MaxEntries
  BY BoundsAssumption DEF EntryIds
<1>2. \A j \in 1..MaxEntries : /\ HeldMargins(ent)[j] = ent[j].margin /\ HeldMargins(ent)[j] \in Nat
                               /\ Accruals(ent)[j] \in Int
  BY <1>1, EntryAmounts DEF HeldMargins, Accruals, EntriesOK
<1>3. Total(HeldMargins(ent), MaxEntries) \in Nat
  BY <1>1, <1>2, TotalNat
<1>4. Total(Accruals(ent), MaxEntries) \in Int
  BY <1>1, <1>2, TotalInt
<1>5. \A i \in 1..MaxEntries : HeldMargins(ent)[i] <= Total(HeldMargins(ent), MaxEntries)
  BY <1>1, <1>2, TotalBounds
<1> QED BY <1>1, <1>2, <1>3, <1>4, <1>5

\* Only slot i changed: the entries stay good when its new order is.
LEMMA SlotEntriesOK ==
    ASSUME NEW lev, NEW ent, NEW new, EntriesOK(ent, lev), NEW i \in EntryIds,
           IsBook(new),
           \A j \in EntryIds : j # i => new[j] = ent[j],
           EntryOK(new[i], lev),
           \A j \in EntryIds : j # i => Compatible(new[i], ent[j])
    PROVE  EntriesOK(new, lev)
<1>1. \A j \in EntryIds : EntryOK(new[j], lev)
  BY DEF EntriesOK
<1>2. ASSUME NEW j \in EntryIds, NEW k \in EntryIds, j # k
      PROVE  Compatible(new[j], new[k])
  <2>1. CASE j = i
    BY <1>2, <2>1
  <2>2. CASE k = i
    BY <1>2, <2>2 DEF Compatible
  <2>3. CASE j # i /\ k # i
    BY <1>2, <2>3 DEF EntriesOK
  <2> QED BY <2>1, <2>2, <2>3
<1> QED BY <1>1, <1>2 DEF EntriesOK

\* Pending exits only look at filled entries.
LEMMA FilledKeepExits ==
    ASSUME NEW ent, NEW new, NEW exs, ExitsOK(exs, ent),
           \A i \in EntryIds : ent[i].stage = "filled" => new[i] = ent[i]
    PROVE  ExitsOK(exs, new)
BY DEF ExitsOK, ExitOK, Tracks

\* Cancelling entries that are not filled takes exactly what they reserve.
LEMMA Cancelled ==
    ASSUME EntriesOK(entry, leverage), usedMargin = Total(HeldMargins(entry), MaxEntries),
           NEW S, \A i \in EntryIds : i \in S => entry[i].stage # "filled"
    PROVE  /\ EntriesOK(WithoutEntries(S), leverage)
           /\ UsedWithout(S) = Total(HeldMargins(WithoutEntries(S)), MaxEntries)
           /\ UsedWithout(S) \in Nat /\ UsedWithout(S) <= usedMargin
           /\ Total(Accruals(WithoutEntries(S)), MaxEntries) = Total(Accruals(entry), MaxEntries)
<1> DEFINE new == WithoutEntries(S)
           f == HeldMargins(entry)
           g == HeldMargins(new)
           h == [i \in EntryIds |-> IF i \in S THEN entry[i].margin ELSE 0]
<1>0. MaxEntries \in Nat /\ EntryIds = 1..MaxEntries
  BY BoundsAssumption DEF EntryIds
<1>1. \A i \in EntryIds : new[i] = IF i \in S THEN NoEntry ELSE entry[i]
  BY DEF WithoutEntries
<1>2. IsBook(new)
  BY DEF WithoutEntries, IsBook
<1>3. NoEntry.stage = "free" /\ NoEntry.margin = 0 /\ Unreported(NoEntry) = 0
  BY DEF NoEntry, Unreported
<1> HIDE DEF new
<1>4. EntriesOK(new, leverage)
  <2>1. \A i \in EntryIds : EntryOK(new[i], leverage)
    BY <1>1, NoEntryOK DEF EntriesOK
  <2>2. \A i, j \in EntryIds : i # j => Compatible(new[i], new[j])
    BY <1>1, <1>3 DEF EntriesOK, Compatible
  <2> QED BY <1>2, <2>1, <2>2 DEF EntriesOK
<1>5. \A i \in EntryIds : /\ entry[i].margin \in Nat /\ new[i].margin \in Nat
                          /\ Unreported(entry[i]) \in Int /\ Unreported(new[i]) \in Int
  BY <1>4, EntryAmounts DEF EntriesOK
<1>6. Total(f, MaxEntries) = Total(g, MaxEntries) + Total(h, MaxEntries)
  <2>1. \A i \in 1..MaxEntries : g[i] \in Int /\ h[i] \in Int
    BY <1>0, <1>5 DEF HeldMargins
  <2>2. \A i \in 1..MaxEntries : f[i] = g[i] + h[i]
    BY <1>0, <1>1, <1>3, <1>5 DEF HeldMargins
  <2> HIDE DEF f, g, h
  <2> QED BY <1>0, <2>1, <2>2, TotalPlus
<1>7. Total(g, MaxEntries) \in Nat /\ Total(h, MaxEntries) \in Nat
  <2>1. \A i \in 1..MaxEntries : g[i] \in Nat /\ h[i] \in Nat
    BY <1>0, <1>5 DEF HeldMargins
  <2> HIDE DEF g, h
  <2> QED BY <1>0, <2>1, TotalNat
<1>8. UsedWithout(S) = Decrease(Total(f, MaxEntries), Total(h, MaxEntries))
  BY DEF UsedWithout, ReservedBy
<1>9. Total(Accruals(new), MaxEntries) = Total(Accruals(entry), MaxEntries)
  <2> DEFINE a == Accruals(entry)
             b == Accruals(new)
  <2>1. \A i \in 1..MaxEntries : a[i] \in Int /\ b[i] = a[i]
    <3>1. \A i \in EntryIds : i \in S => Unreported(entry[i]) = 0
      BY DEF Unreported
    <3> QED BY <1>0, <1>1, <1>3, <1>5, <3>1 DEF Accruals
  <2> HIDE DEF a, b
  <2> QED BY <1>0, <2>1, TotalEqual DEF a, b
<1> HIDE DEF f, g, h
<1>10. UsedWithout(S) = Total(g, MaxEntries) /\ Total(g, MaxEntries) <= Total(f, MaxEntries)
  BY <1>6, <1>7, <1>8 DEF Decrease
<1> QED BY <1>4, <1>7, <1>9, <1>10 DEF new, f, g

\* A share of an amount.
LEMMA ShareOf ==
    ASSUME NEW m \in Nat, NEW q \in Nat, NEW r \in Nat, 0 < q, q <= r
    PROVE  (m * q) \div r \in 0..m
<1> DEFINE d == (m * q) \div r
<1>1. m * q \in Nat /\ m * q <= r * m
  OBVIOUS
<1>2. d \in Nat /\ r * d <= m * q
  BY <1>1
<1>3. ASSUME d > m PROVE FALSE
  <2>1. r * d >= r * (m + 1)
    BY <1>2, <1>3
  <2>2. r * (m + 1) = r * m + r
    OBVIOUS
  <2> HIDE DEF d
  <2> QED BY <1>1, <1>2, <2>1, <2>2
<1> QED BY <1>2, <1>3

\* Dividing an integer by a positive natural gives an integer.
LEMMA DivInt == ASSUME NEW a \in Int, NEW r \in Nat, 0 < r PROVE a \div r \in Int
OBVIOUS

\* The loss a position bears never exceeds its margin.
LEMMA RealizedInt ==
    ASSUME NEW profit \in Int, NEW margin \in Nat, NEW fee \in Nat
    PROVE  Realized(profit, margin) \in Int /\ LiquidationFee(fee, profit, margin) \in Nat
BY DEF Realized, LiquidationFee

-----------------------------------------------------------------------------
(* Exits.                                                                  *)

\* Slot i holds the same position, or nothing any more.
SamePosition(old, new) ==
    \/ new.stage = "free"
    \/ /\ new.stage = "filled" /\ old.stage = "filled"
       /\ new.sym = old.sym /\ new.name = old.name /\ new.dir = old.dir /\ new.lev = old.lev

\* Everything ExitEntry leaves when it does not throw.
ExitDone(u, ent, i) ==
    /\ usedMargin' <= u
    /\ StateOK(wallet', usedMargin', netPnl', leverage', entry', exit')
    /\ leverage' = leverage /\ CallUnchanged
    /\ \A j \in EntryIds : j # i => entry'[j] = ent[j]
    /\ SamePosition(ent[i], entry'[i])

\* All of what remains leaves.
LEMMA FullExit ==
    ASSUME NEW w, NEW u, NEW ent, NEW exs, NEW i \in EntryIds,
           StateOK(w, u, netPnl, leverage, ent, exs), ent[i].stage = "filled",
           NEW fee \in Nat, NEW profit \in Int, NEW liquidationFee \in Nat,
           NEW q \in Nat, ent[i].exited + q = ent[i].size,
           ExitEntry(w, u, ent, i, exs, q, ent[i].margin, ent[i].funding, fee, profit, liquidationFee)
    PROVE  Throw \/ (ExitDone(u, ent, i) /\ usedMargin' = u - ent[i].margin)
<1> DEFINE e    == ent[i]
           new  == [ent EXCEPT ![i] = NoEntry]
           kept == DropExits(exs, e.sym, e.name)
           realized == Realized(profit, e.margin)
           penalty  == LiquidationFee(liquidationFee, profit, e.margin)
           balance  == w - fee + realized
<1>1. /\ e \in Entries /\ e.margin \in Nat /\ e.funding \in Int /\ e.unitFee \in Nat
      /\ e.size \in Nat /\ e.exited \in Nat
      /\ w \in Nat /\ u \in Nat /\ netPnl \in Int
  BY DEF StateOK, EntriesOK, EntryOK, Entries, AccountOK
<1>2. realized \in Int /\ penalty \in Nat
  BY <1>1, RealizedInt
<1>3. /\ \A j \in EntryIds : new[j] = IF j = i THEN NoEntry ELSE ent[j]
      /\ IsBook(new)
  BY DEF StateOK, EntriesOK, IsBook
<1>4. NoEntry.stage = "free" /\ NoEntry.margin = 0 /\ Unreported(NoEntry) = 0
  BY DEF NoEntry, Unreported
<1> HIDE DEF new
<1>5. FilledNamed(new, e.sym, e.name) = {}
  BY <1>3, <1>4 DEF FilledNamed, StateOK, EntriesOK, Compatible
<1>6. EntriesOK(new, leverage)
  BY <1>3, <1>4, NoEntryOK, SlotEntriesOK DEF StateOK, Compatible
<1>7. ExitsOK(kept, new)
  <2>1. kept = [x \in ExitIds |-> kept[x]]
    BY DEF DropExits
  <2>2. ASSUME NEW x \in ExitIds PROVE ExitOK(kept[x], new)
    <3>1. CASE kept[x] = NoExit
      BY <3>1, NoExitOK
    <3>2. CASE kept[x] # NoExit
      <4>1. kept[x] = exs[x] /\ ~(exs[x].stage = "pending" /\ exs[x].sym = e.sym /\ exs[x].target = e.name)
        BY <3>2 DEF DropExits
      <4>2. ExitOK(exs[x], ent)
        BY DEF StateOK, ExitsOK
      <4> QED BY <4>1, <4>2, <1>3 DEF ExitOK, Tracks
    <3> QED BY <3>1, <3>2
  <2> QED BY <2>1, <2>2 DEF ExitsOK
<1>8. /\ Total(HeldMargins(new), MaxEntries) = Total(HeldMargins(ent), MaxEntries) - e.margin
      /\ Total(Accruals(new), MaxEntries) = Total(Accruals(ent), MaxEntries) - Unreported(e)
  <2>1. /\ Total(HeldMargins(new), MaxEntries)
             = Total(HeldMargins(ent), MaxEntries) + new[i].margin - ent[i].margin
        /\ Total(Accruals(new), MaxEntries)
             = Total(Accruals(ent), MaxEntries) + Unreported(new[i]) - Unreported(ent[i])
    <3>1. EntriesOK(ent, leverage)
      BY DEF StateOK
    <3>2. \A j \in EntryIds : EntryOK(new[j], leverage) /\ (j # i => new[j] = ent[j])
      BY <1>3, <1>6 DEF EntriesOK
    <3> QED BY <3>1, <3>2, SlotTotals
  <2>2. /\ Total(HeldMargins(ent), MaxEntries) \in Nat
        /\ Total(Accruals(ent), MaxEntries) \in Int
    BY BookTotals DEF StateOK
  <2>3. Unreported(e) \in Int
    BY EntryAmounts DEF StateOK, EntriesOK
  <2> QED BY <1>1, <1>3, <1>4, <2>1, <2>2, <2>3
<1>9. e.margin <= u /\ Unreported(e) = e.funding - e.unitFee * q
  <2>1. e.margin <= u
    BY BookTotals DEF StateOK, AccountOK
  <2>2. Remaining(e) = q
    BY <1>1 DEF Remaining
  <2> QED BY <2>1, <2>2 DEF Unreported
<1>10. ExecuteExit(w, u, new, kept, e, q, e.margin, e.funding, fee, profit, liquidationFee)
  BY DEF ExitEntry, new
<1>11. SUFFICES ASSUME ~Throw
       PROVE  /\ wallet' = balance - penalty /\ wallet' \in Nat
              /\ usedMargin' = Decrease(u, e.margin)
              /\ netPnl' = netPnl + realized + e.funding - q * e.unitFee - fee - penalty
              /\ entry' = new /\ exit' = kept
              /\ UNCHANGED leverage /\ CallUnchanged
  <2> SUFFICES ASSUME ~Throw, wallet' = balance - penalty, wallet' \in Nat,
                      usedMargin' = Decrease(u, e.margin),
                      netPnl' = netPnl + realized + e.funding - q * e.unitFee - fee - penalty,
                      entry' = new, exit' = kept, UNCHANGED leverage, CallUnchanged
               PROVE  ExitDone(u, ent, i) /\ usedMargin' = u - ent[i].margin
    BY Zenon
  <2> HIDE DEF realized, penalty, kept, balance
  <2>1. AccountOK(wallet', usedMargin', netPnl', entry')
    <3>1. usedMargin' = u - e.margin /\ usedMargin' \in Nat
      BY <1>1, <1>9 DEF Decrease
    <3>2. /\ u = Total(HeldMargins(ent), MaxEntries) /\ Total(HeldMargins(ent), MaxEntries) \in Nat
          /\ w = InitialBalance + netPnl + Total(Accruals(ent), MaxEntries)
          /\ Total(Accruals(ent), MaxEntries) \in Int /\ InitialBalance \in Nat
      BY BookTotals, AmountsAssumption DEF StateOK, AccountOK
    <3>3. e.unitFee * q = q * e.unitFee /\ q * e.unitFee \in Int
      BY <1>1
    <3>4. netPnl' \in Int
      BY <1>1, <1>2, <3>3
    <3>5. wallet' = InitialBalance + netPnl' + Total(Accruals(new), MaxEntries)
      BY <1>1, <1>2, <1>8, <1>9, <3>2, <3>3 DEF balance
    <3>6. usedMargin' = Total(HeldMargins(new), MaxEntries)
      BY <1>1, <1>8, <3>1, <3>2
    <3> QED BY <3>1, <3>4, <3>5, <3>6 DEF AccountOK
  <2>3. usedMargin' = u - e.margin /\ usedMargin' <= u
    BY <1>1, <1>9 DEF Decrease
  <2>2. SamePosition(ent[i], entry'[i])
    BY <1>3, <1>4 DEF SamePosition
  <2> QED BY <1>3, <1>6, <1>7, <2>1, <2>2, <2>3 DEF ExitDone, StateOK
<1> HIDE DEF realized, penalty, kept
<1>12. /\ ~(fee > w \/ balance < 0 \/ penalty > balance)
       /\ wallet' = balance - penalty
       /\ usedMargin' = Decrease(u, e.margin)
       /\ netPnl' = netPnl + realized + e.funding - q * e.unitFee - fee - penalty
       /\ entry' = new /\ exit' = kept
       /\ UNCHANGED leverage /\ CallUnchanged
  BY <1>5, <1>10, <1>11, Zenon DEF ExecuteExit, realized, penalty
<1>13. wallet' \in Nat
  BY <1>1, <1>2, <1>12
<1> QED BY <1>12, <1>13

\* new is ent, but q more units of filled entry i have left, and its margin and
\* funding are others.
Recut(new, ent, i, q, margin, funding) ==
    /\ IsBook(new)
    /\ \A j \in EntryIds : j # i => new[j] = ent[j]
    /\ new[i] \in Entries /\ new[i].stage = "filled"
    /\ new[i].sym = ent[i].sym /\ new[i].name = ent[i].name /\ new[i].dir = ent[i].dir
    /\ new[i].lev = ent[i].lev /\ new[i].size = ent[i].size /\ new[i].unitFee = ent[i].unitFee
    /\ new[i].exited = ent[i].exited + q
    /\ new[i].margin = margin /\ new[i].funding = funding

\* new is ent with order e in slot i; kept is exs with current copies of entry e.
Rewritten(new, ent, i, e) == new = [ent EXCEPT ![i] = e]
Synced(kept, exs, e, margin, funding) == kept = SyncExits(exs, e, margin, funding)

\* What Resettled establishes of the new orders.
ResettledOK(lev, ent, new, kept, i, q, m, fn) ==
    /\ EntriesOK(new, lev) /\ ExitsOK(kept, new)
    /\ SamePosition(ent[i], new[i])
    /\ \A j \in EntryIds : j # i => new[j] = ent[j]
    /\ Total(HeldMargins(new), MaxEntries)
         = Total(HeldMargins(ent), MaxEntries) + m - ent[i].margin
    /\ Total(Accruals(new), MaxEntries)
         = Total(Accruals(ent), MaxEntries) + (fn - ent[i].funding) + ent[i].unitFee * q

\* A filled slot whose margin, funding and exited size change, with the exits
\* that target it brought up to date.
LEMMA Resettled ==
    ASSUME NEW lev, NEW ent, NEW exs, EntriesOK(ent, lev), ExitsOK(exs, ent),
           NEW i \in EntryIds, ent[i].stage = "filled",
           NEW q \in Nat, ent[i].exited + q < ent[i].size, NEW m \in Nat, NEW fn \in Int,
           NEW new, Recut(new, ent, i, q, m, fn),
           NEW kept, Synced(kept, exs, ent[i], m, fn)
    PROVE  ResettledOK(lev, ent, new, kept, i, q, m, fn)
<1> DEFINE e == ent[i]
           r == new[i]
<1>1. e \in Entries /\ EntryOK(e, lev)
  BY DEF EntriesOK, EntryOK
<1>2. /\ r \in Entries /\ r.stage = "filled" /\ r.sym = e.sym /\ r.name = e.name
      /\ r.dir = e.dir /\ r.lev = e.lev /\ r.size = e.size /\ r.exited = e.exited + q
      /\ r.margin = m /\ r.funding = fn /\ r.unitFee = e.unitFee
  BY DEF Recut
<1> HIDE DEF r
<1>3. EntryOK(r, lev)
  BY <1>1, <1>2 DEF EntryOK
<1>4. /\ IsBook(new) /\ new[i] = r
      /\ \A j \in EntryIds : j # i => new[j] = ent[j]
  BY DEF Recut, r
<1>5. EntriesOK(new, lev)
  <2>1. \A j \in EntryIds : j # i => Compatible(new[i], ent[j])
    <3>1. ASSUME NEW j \in EntryIds, j # i PROVE Compatible(new[i], ent[j])
      <4>1. Compatible(ent[i], ent[j])
        BY <3>1 DEF EntriesOK
      <4> QED BY <1>2, <1>4, <4>1 DEF Compatible
    <3> QED BY <3>1
  <2>2. EntryOK(new[i], lev)
    BY <1>3, <1>4
  <2> QED BY <1>4, <2>1, <2>2, SlotEntriesOK
<1>6. ExitsOK(kept, new)
  <2>1. kept = [x \in ExitIds |-> kept[x]]
    BY DEF SyncExits, Synced
  <2>2. ASSUME NEW x \in ExitIds PROVE ExitOK(kept[x], new)
    <3>1. exs[x] \in Exits /\ ExitOK(exs[x], ent)
      BY DEF ExitsOK, ExitOK
    <3>2. CASE exs[x].stage = "pending" /\ exs[x].sym = e.sym /\ exs[x].target = e.name
      <4> DEFINE k == [exs[x] EXCEPT !.margin = m, !.funding = fn]
      <4>1. kept[x] = k
        BY <3>2 DEF SyncExits, Synced
      <4>2. /\ k \in Exits /\ k.sym = e.sym /\ k.target = e.name /\ k.margin = m
            /\ k.funding = fn /\ k.size = exs[x].size
        BY <3>1, <3>2 DEF Exits
      <4> HIDE DEF k
      <4>3. Tracks(k, new[i])
        BY <1>2, <1>4, <4>2 DEF Tracks
      <4> QED BY <3>1, <3>2, <4>1, <4>2, <4>3 DEF ExitOK
    <3>3. CASE ~(exs[x].stage = "pending" /\ exs[x].sym = e.sym /\ exs[x].target = e.name)
      <4>1. kept[x] = exs[x]
        BY <3>3 DEF SyncExits, Synced
      <4> QED BY <1>4, <3>1, <3>3, <4>1 DEF ExitOK, Tracks
    <3> QED BY <3>2, <3>3
  <2> QED BY <2>1, <2>2 DEF ExitsOK
<1>7. /\ Total(HeldMargins(new), MaxEntries)
           = Total(HeldMargins(ent), MaxEntries) + new[i].margin - ent[i].margin
      /\ Total(Accruals(new), MaxEntries)
           = Total(Accruals(ent), MaxEntries) + Unreported(new[i]) - Unreported(ent[i])
  <2>1. \A j \in EntryIds : EntryOK(new[j], lev) /\ (j # i => new[j] = ent[j])
    BY <1>4, <1>5 DEF EntriesOK
  <2> QED BY <2>1, SlotTotals
<1>8. Unreported(r) = Unreported(e) + (fn - e.funding) + e.unitFee * q
  <2>1. /\ e.unitFee \in Nat /\ e.size \in Nat /\ e.exited \in Nat /\ e.funding \in Int
    BY <1>1 DEF Entries
  <2>2. e.unitFee * (e.size - (e.exited + q)) = e.unitFee * (e.size - e.exited) - e.unitFee * q
    <3> DEFINE a == e.unitFee
               b == e.size
               c == e.exited
    <3>1. a \in Int /\ b \in Int /\ c \in Int /\ q \in Int
      BY <2>1
    <3> HIDE DEF a, b, c
    <3>2. a * (b - (c + q)) = a * (b - c) - a * q
      BY <3>1
    <3> QED BY <3>2 DEF a, b, c
  <2>3. /\ e.unitFee * (e.size - e.exited) \in Int /\ e.unitFee * q \in Int
    BY <2>1
  <2>4. /\ Unreported(r) = fn - e.unitFee * (e.size - (e.exited + q))
        /\ Unreported(e) = e.funding - e.unitFee * (e.size - e.exited)
    BY <1>2 DEF Unreported, Remaining
  <2> QED BY <2>1, <2>2, <2>3, <2>4
<1>9. Total(Accruals(ent), MaxEntries) \in Int /\ Unreported(e) \in Int
      /\ e.unitFee \in Nat /\ e.funding \in Int
  BY <1>1, BookTotals, EntryAmounts DEF Entries
<1>10. SamePosition(ent[i], new[i])
  BY <1>2, <1>4 DEF SamePosition
<1>11. Total(Accruals(new), MaxEntries)
          = Total(Accruals(ent), MaxEntries) + (fn - ent[i].funding) + ent[i].unitFee * q
  BY <1>4, <1>7, <1>8, <1>9
<1> QED BY <1>2, <1>4, <1>5, <1>6, <1>7, <1>10, <1>11 DEF ResettledOK

\* Part of what remains leaves, with its share of the margin and the funding.
LEMMA PartialExit ==
    ASSUME NEW w, NEW u, NEW ent, NEW exs, NEW i \in EntryIds,
           StateOK(w, u, netPnl, leverage, ent, exs), ent[i].stage = "filled",
           NEW fee \in Nat, NEW profit \in Int, NEW liquidationFee \in Nat,
           NEW q \in Nat, 0 < q, ent[i].exited + q < ent[i].size,
           ExitEntry(w, u, ent, i, exs, q, ent[i].margin, ent[i].funding, fee, profit, liquidationFee)
    PROVE  Throw \/ ExitDone(u, ent, i)
<1> DEFINE e     == ent[i]
           mid   == [ent EXCEPT ![i].exited = @ + q]
           part  == (e.margin * q) \div (e.size - e.exited)
           share == (e.funding * q) \div (e.size - e.exited)
           new   == [mid EXCEPT ![i].margin = e.margin - part, ![i].funding = @ - share]
           kept  == SyncExits(exs, e, e.margin - part, e.funding - share)
           realized == Realized(profit, e.margin)
           penalty  == LiquidationFee(liquidationFee, profit, e.margin)
           balance  == w - fee + realized
<1>1. /\ e \in Entries /\ e.margin \in Nat /\ e.funding \in Int /\ e.unitFee \in Nat
      /\ e.size \in Nat /\ e.exited \in Nat
      /\ w \in Nat /\ u \in Nat /\ netPnl \in Int
  BY DEF StateOK, EntriesOK, EntryOK, Entries, AccountOK
<1>2. realized \in Int /\ penalty \in Nat
  BY <1>1, RealizedInt
<1>3. part \in 0..e.margin /\ share \in Int
  <2>1. e.size - e.exited \in Nat /\ q <= e.size - e.exited
    BY <1>1
  <2>2. e.funding * q \in Int
    BY <1>1
  <2> DEFINE r == e.size - e.exited
             m == e.margin
             a == e.funding * q
  <2>3. m \in Nat /\ r \in Nat /\ q <= r /\ a \in Int /\ 0 < r
    BY <1>1, <2>1, <2>2
  <2> HIDE DEF r, m, a
  <2>4. (m * q) \div r \in 0..m /\ a \div r \in Int
    BY <2>3, ShareOf, DivInt
  <2> QED BY <2>4 DEF r, m, a
<1> HIDE DEF part, share
<1>4. /\ mid[i] = [e EXCEPT !.exited = @ + q]
      /\ \A j \in EntryIds : j # i => mid[j] = ent[j]
  BY DEF StateOK, EntriesOK, IsBook
<1>5. /\ mid[i].stage = "filled" /\ mid[i].sym = e.sym /\ mid[i].name = e.name
      /\ mid[i].exited = e.exited + q /\ mid[i].funding = e.funding
  BY <1>1, <1>4 DEF Entries
<1>6. Recut(new, ent, i, q, e.margin - part, e.funding - share)
  <2>1. /\ IsBook(new)
        /\ \A j \in EntryIds : j # i => new[j] = ent[j]
        /\ new[i] = [e EXCEPT !.exited = @ + q, !.margin = e.margin - part, !.funding = e.funding - share]
    BY <1>1, <1>5 DEF StateOK, EntriesOK, IsBook, Entries
  <2> HIDE DEF new
  <2>2. e.margin - part \in Nat /\ e.funding - share \in Int /\ e.exited + q \in Nat
    BY <1>1, <1>3
  <2>3. /\ new[i].exited = e.exited + q /\ new[i].margin = e.margin - part
        /\ new[i].funding = e.funding - share
    BY <1>1, <2>1 DEF Entries
  <2>4. /\ new[i].stage = e.stage /\ new[i].sym = e.sym /\ new[i].name = e.name /\ new[i].dir = e.dir
        /\ new[i].lev = e.lev /\ new[i].size = e.size /\ new[i].unitFee = e.unitFee
    BY <1>1, <2>1 DEF Entries
  <2>5. new[i] \in Entries
    BY <1>1, <2>1, <2>2 DEF Entries
  <2> QED BY <2>1, <2>3, <2>4, <2>5 DEF Recut
<1> HIDE DEF mid
<1>7. FilledNamed(mid, e.sym, e.name) = {i}
  <2>1. ASSUME NEW j \in EntryIds, mid[j].stage = "filled", mid[j].sym = e.sym, mid[j].name = e.name
        PROVE  j = i
    <3>1. CASE j # i
      <4>1. ent[j].stage = "filled" /\ ent[j].sym = e.sym /\ ent[j].name = e.name
        BY <1>4, <2>1, <3>1
      <4>2. Compatible(e, ent[j])
        BY <3>1 DEF StateOK, EntriesOK
      <4> QED BY <4>1, <4>2 DEF Compatible
    <3> QED BY <3>1
  <2>2. i \in FilledNamed(mid, e.sym, e.name)
    BY <1>5 DEF FilledNamed
  <2> QED BY <2>1, <2>2 DEF FilledNamed
<1>8. Some(FilledNamed(mid, e.sym, e.name)) = i
  BY <1>7, SomeIn
<1>9. /\ EntriesOK(new, leverage) /\ ExitsOK(kept, new) /\ SamePosition(ent[i], new[i])
      /\ \A j \in EntryIds : j # i => new[j] = ent[j]
      /\ Total(HeldMargins(new), MaxEntries)
           = Total(HeldMargins(ent), MaxEntries) + (e.margin - part) - e.margin
      /\ Total(Accruals(new), MaxEntries)
           = Total(Accruals(ent), MaxEntries) + ((e.funding - share) - e.funding) + e.unitFee * q
  <2>1. EntriesOK(ent, leverage) /\ ExitsOK(exs, ent)
    BY DEF StateOK
  <2>2. e.margin - part \in Nat /\ e.funding - share \in Int
    BY <1>1, <1>3
  <2> HIDE DEF e
  <2>3. ent[i].stage = "filled" /\ ent[i].exited + q < ent[i].size
    OBVIOUS
  <2> DEFINE m == e.margin - part
             fn == e.funding - share
  <2>4. /\ Recut(new, ent, i, q, m, fn)
        /\ Synced(kept, exs, ent[i], m, fn)
        /\ m \in Nat /\ fn \in Int
    BY <1>6, <2>2 DEF e, Synced, kept
  <2> HIDE DEF new, kept, m, fn
  <2>5. ResettledOK(leverage, ent, new, kept, i, q, m, fn)
    BY <2>1, <2>3, <2>4, Resettled, Zenon
  <2> QED BY <2>5 DEF m, fn, e, ResettledOK
<1> HIDE DEF new, kept
<1>10. ExecuteExit(w, u, mid, exs, e, q, e.margin, e.funding, fee, profit, liquidationFee)
  <2>1. e.exited + q # e.size
    BY <1>1
  <2> QED BY <2>1 DEF ExitEntry, mid
<1>11. e.size - mid[i].exited + q = e.size - e.exited
  BY <1>1, <1>5
<1>12. \/ Throw
       \/ /\ ~(fee > w \/ balance < 0 \/ penalty > balance)
          /\ wallet' = balance - penalty
          /\ usedMargin' = Decrease(u, part)
          /\ netPnl' = netPnl + realized + share - q * e.unitFee - fee - penalty
          /\ entry' = new /\ exit' = kept
          /\ UNCHANGED leverage /\ CallUnchanged
  <2> HIDE DEF realized, penalty
  <2>1. i \in FilledNamed(mid, e.sym, e.name) /\ FilledNamed(mid, e.sym, e.name) # {}
    BY <1>7
  <2> QED BY <1>5, <1>6, <1>8, <1>10, <1>11, <2>1, Zenon
      DEF ExecuteExit, realized, penalty, part, share, kept, new
<1> HIDE DEF realized, penalty
<1>13. ASSUME ~Throw PROVE ExitDone(u, ent, i)
  <2>1. /\ ~(fee > w \/ balance < 0 \/ penalty > balance)
        /\ wallet' = balance - penalty
        /\ usedMargin' = Decrease(u, part)
        /\ netPnl' = netPnl + realized + share - q * e.unitFee - fee - penalty
        /\ entry' = new /\ exit' = kept
        /\ UNCHANGED leverage /\ CallUnchanged
    BY <1>12, <1>13
  <2>2. e.margin <= u
    BY BookTotals DEF StateOK, AccountOK
  <2>3. usedMargin' = u - part /\ usedMargin' \in Nat
    BY <1>1, <1>3, <2>1, <2>2 DEF Decrease
  <2>4. /\ u = Total(HeldMargins(ent), MaxEntries) /\ Total(HeldMargins(ent), MaxEntries) \in Nat
        /\ w = InitialBalance + netPnl + Total(Accruals(ent), MaxEntries)
        /\ Total(Accruals(ent), MaxEntries) \in Int /\ InitialBalance \in Nat
    BY BookTotals, AmountsAssumption DEF StateOK, AccountOK
  <2>5. e.unitFee * q = q * e.unitFee /\ q * e.unitFee \in Int
    BY <1>1
  <2>6. netPnl' \in Int /\ wallet' \in Nat
    BY <1>1, <1>2, <1>3, <2>1, <2>5
  <2>7. wallet' = InitialBalance + netPnl' + Total(Accruals(new), MaxEntries)
    BY <1>1, <1>2, <1>3, <1>9, <2>1, <2>4, <2>5
  <2>8. usedMargin' = Total(HeldMargins(new), MaxEntries)
    BY <1>1, <1>3, <1>9, <2>3, <2>4
  <2>9. AccountOK(wallet', usedMargin', netPnl', entry')
    BY <2>1, <2>3, <2>6, <2>7, <2>8 DEF AccountOK
  <2>10. usedMargin' <= u
    BY <1>1, <1>3, <2>3
  <2> QED BY <1>9, <2>1, <2>9, <2>10 DEF ExitDone, StateOK
<1> QED BY <1>13

\* Some of what remains leaves.
LEMMA ExitKeepsState ==
    ASSUME NEW w, NEW u, NEW ent, NEW exs, NEW i \in EntryIds,
           StateOK(w, u, netPnl, leverage, ent, exs), ent[i].stage = "filled",
           NEW fee \in Nat, NEW profit \in Int, NEW liquidationFee \in Nat,
           NEW q \in Nat, 0 < q, q <= Remaining(ent[i]),
           ExitEntry(w, u, ent, i, exs, q, ent[i].margin, ent[i].funding, fee, profit, liquidationFee)
    PROVE  Throw \/ ExitDone(u, ent, i)
<1>1. ent[i].size \in Nat /\ ent[i].exited \in Nat
  BY DEF StateOK, EntriesOK, EntryOK, Entries
<1>2. CASE ent[i].exited + q = ent[i].size
  BY <1>2, FullExit
<1>3. CASE ent[i].exited + q < ent[i].size
  BY <1>3, PartialExit
<1> QED BY <1>1, <1>2, <1>3 DEF Remaining

-----------------------------------------------------------------------------
(* Steps.  Each keeps the invariant, and uses more margin only if the wallet *)
(* covers it.                                                                *)

Covered == usedMargin' > usedMargin => usedMargin' <= wallet'

\* Unfilled order e took slot i, which held no filled order.
UnfilledOK(lev, ent, new, i, e) ==
    /\ EntriesOK(new, lev) /\ new[i] = e
    /\ \A j \in EntryIds : j # i => new[j] = ent[j]
    /\ \A exs : ExitsOK(exs, ent) => ExitsOK(exs, new)
    /\ Total(HeldMargins(new), MaxEntries)
         = Total(HeldMargins(ent), MaxEntries) + e.margin - ent[i].margin
    /\ Total(Accruals(new), MaxEntries) = Total(Accruals(ent), MaxEntries)

\* Putting an unfilled order in a slot that holds no filled one keeps the entries
\* and the exits good.
LEMMA Unfilled ==
    ASSUME NEW lev, NEW ent, EntriesOK(ent, lev),
           NEW i \in EntryIds, ent[i].stage # "filled",
           NEW e, EntryOK(e, lev), e.stage # "filled",
           NEW new, Rewritten(new, ent, i, e)
    PROVE  UnfilledOK(lev, ent, new, i, e)
<1>1. /\ IsBook(new) /\ new[i] = e
      /\ \A j \in EntryIds : j # i => new[j] = ent[j]
  BY DEF EntriesOK, IsBook, Rewritten
<1>2. EntriesOK(new, lev)
  <2>1. \A j \in EntryIds : j # i => Compatible(new[i], ent[j])
    BY <1>1 DEF Compatible
  <2>2. EntryOK(new[i], lev)
    BY <1>1
  <2> QED BY <1>1, <2>1, <2>2, SlotEntriesOK
<1>3. ASSUME NEW exs, ExitsOK(exs, ent) PROVE ExitsOK(exs, new)
  <2>1. \A j \in EntryIds : ent[j].stage = "filled" => new[j] = ent[j]
    BY <1>1
  <2> QED BY <1>3, <2>1, FilledKeepExits
<1>4. /\ Total(HeldMargins(new), MaxEntries)
           = Total(HeldMargins(ent), MaxEntries) + new[i].margin - ent[i].margin
      /\ Total(Accruals(new), MaxEntries)
           = Total(Accruals(ent), MaxEntries) + Unreported(new[i]) - Unreported(ent[i])
  <2>1. \A j \in EntryIds : EntryOK(new[j], lev) /\ (j # i => new[j] = ent[j])
    BY <1>1, <1>2 DEF EntriesOK
  <2> QED BY <2>1, SlotTotals
<1>5. Unreported(new[i]) = 0 /\ Unreported(ent[i]) = 0
  BY <1>1 DEF Unreported
<1>6. Total(Accruals(ent), MaxEntries) \in Int
  BY BookTotals
<1> QED BY <1>1, <1>2, <1>3, <1>4, <1>5, <1>6 DEF UnfilledOK

\* No fill is under way when the handler is called.
LEMMA IdleIs ==
    ASSUME IInv, Idle
    PROVE  filling = 0 /\ step = "none"
BY DEF IInv, FillOK, Idle

\* A strategy's call leaves the fill alone.
LEMMA IdleFillOK ==
    ASSUME IInv, Idle, CallUnchanged, \A i \in EntryIds : entry'[i].stage # "filling"
    PROVE  FillOK'
<1>1. 0 \notin EntryIds
  BY BoundsAssumption DEF EntryIds
<1> QED BY <1>1, IdleIs DEF IInv, FillOK, CallUnchanged

\* Outside a fill, no order is being filled.
LEMMA IdleNotFilling ==
    ASSUME IInv, Idle
    PROVE  \A i \in EntryIds : entry[i].stage # "filling"
<1>1. 0 \notin EntryIds
  BY BoundsAssumption DEF EntryIds
<1> QED BY <1>1, IdleIs DEF IInv, FillOK

\* An exception changes nothing but engineError.
LEMMA ThrowStep == ASSUME IInv, Throw PROVE IInv' /\ Covered
<1>1. usedMargin \in Nat
  BY DEF IInv, StateOK, AccountOK
<1> QED BY <1>1 DEF Throw, IInv, Covered, FillOK

\* Dropping pending exits.
LEMMA ExitsCancelled ==
    ASSUME NEW ent, ExitsOK(exit, ent), NEW S PROVE ExitsOK(WithoutExits(S), ent)
<1> DEFINE kept == WithoutExits(S)
<1>1. kept = [x \in ExitIds |-> kept[x]]
  BY DEF WithoutExits
<1>2. \A x \in ExitIds : kept[x] = NoExit \/ kept[x] = exit[x]
  BY DEF WithoutExits
<1> HIDE DEF kept
<1>3. \A x \in ExitIds : ExitOK(kept[x], ent)
  BY <1>2, NoExitOK DEF ExitsOK
<1> QED BY <1>1, <1>3 DEF ExitsOK, kept

\* Cancelling S, and maybe exits, and then nothing else.
LEMMA CancelStep ==
    ASSUME IInv, Idle, NEW S, \A i \in EntryIds : i \in S => entry[i].stage = "pending",
           NEW X, exit' = WithoutExits(X) \/ exit' = exit,
           entry' = WithoutEntries(S), usedMargin' = UsedWithout(S),
           UNCHANGED <<wallet, leverage, netPnl>>, CallUnchanged
    PROVE  IInv' /\ Covered
<1>1. /\ EntriesOK(entry, leverage) /\ ExitsOK(exit, entry)
      /\ usedMargin = Total(HeldMargins(entry), MaxEntries)
      /\ AccountOK(wallet, usedMargin, netPnl, entry) /\ usedMargin \in Nat
      /\ leverage \in [Symbols -> Leverages \cup {1}]
  BY DEF IInv, StateOK, AccountOK
<1>2. /\ EntriesOK(WithoutEntries(S), leverage)
      /\ UsedWithout(S) = Total(HeldMargins(WithoutEntries(S)), MaxEntries)
      /\ UsedWithout(S) \in Nat /\ UsedWithout(S) <= usedMargin
      /\ Total(Accruals(WithoutEntries(S)), MaxEntries) = Total(Accruals(entry), MaxEntries)
  <2>1. \A i \in EntryIds : i \in S => entry[i].stage # "filled"
    OBVIOUS
  <2> QED BY <1>1, <2>1, Cancelled
<1>3. \A i \in EntryIds : entry'[i] = IF i \in S THEN NoEntry ELSE entry[i]
  BY DEF WithoutEntries
<1>4. ExitsOK(exit', entry')
  <2>1. ExitsOK(exit, entry')
    BY <1>1, <1>3, FilledKeepExits
  <2>2. ExitsOK(WithoutExits(X), entry')
    BY <2>1, ExitsCancelled
  <2> QED BY <2>1, <2>2
<1>5. FillOK'
  <2>1. \A i \in EntryIds : entry'[i].stage # "filling"
    BY <1>3, IdleNotFilling DEF NoEntry
  <2> QED BY <2>1, IdleFillOK
<1>6. StateOK(wallet, usedMargin, netPnl, leverage, entry, exit)'
  BY <1>1, <1>2, <1>4 DEF StateOK, AccountOK
<1>7. Covered
  BY <1>1, <1>2 DEF Covered
<1> QED BY <1>5, <1>6, <1>7 DEF IInv

\* CancelEntry keeps the invariant.
LEMMA CancelEntryStep ==
    ASSUME IInv, NEW s, NEW n, CancelEntry(s, n) PROVE IInv' /\ Covered
<1>1. \A i \in EntryIds : i \in PendingNamed(s, n) => entry[i].stage = "pending"
  BY DEF PendingNamed
<1> QED BY <1>1, CancelStep DEF CancelEntry

\* CancelAll keeps the invariant.
LEMMA CancelAllStep ==
    ASSUME IInv, NEW s, CancelAll(s) PROVE IInv' /\ Covered
<1> DEFINE entries == {i \in EntryIds : entry[i].stage = "pending" /\ entry[i].sym = s}
           exits   == {x \in ExitIds : exit[x].stage = "pending" /\ exit[x].sym = s}
<1>1. \A i \in EntryIds : i \in entries => entry[i].stage = "pending"
  OBVIOUS
<1>2. /\ Idle /\ entry' = WithoutEntries(entries) /\ exit' = WithoutExits(exits)
      /\ usedMargin' = UsedWithout(entries)
      /\ UNCHANGED <<wallet, leverage, netPnl>> /\ CallUnchanged
  BY DEF CancelAll
<1> HIDE DEF entries, exits
<1> QED BY <1>1, <1>2, CancelStep

\* A new order is a good entry.
LEMMA NewEntryOK ==
    ASSUME NEW lev, NEW s \in Symbols, NEW n \in EntryNames, NEW k \in {"MARKET", "LIMIT", "LIT"},
           NEW d \in Directions, NEW q \in Sizes, NEW l \in Leverages, NEW m \in Nat,
           NEW st \in {"pending", "filling"}
    PROVE  EntryOK(NewEntry(s, n, k, d, q, l, m, st), lev)
<1>1. q \in Nat /\ q > 0
  BY AmountsAssumption
<1> QED BY <1>1 DEF EntryOK, NewEntry, Entries

\* The pending orders of a name are replaced by the new order e.
LEMMA ReplaceStep ==
    ASSUME IInv, Idle, NEW s, NEW n, NEW e, EntryOK(e, leverage),
           e.stage \in {"pending", "filling"},
           NEW i \in FreeEntry(WithoutEntries(PendingNamed(s, n))),
           Rewritten(entry', WithoutEntries(PendingNamed(s, n)), i, e),
           usedMargin' = UsedWithout(PendingNamed(s, n)) + e.margin,
           UNCHANGED <<wallet, leverage, exit, netPnl>>
    PROVE  /\ StateOK(wallet, usedMargin, netPnl, leverage, entry, exit)'
           /\ usedMargin' <= usedMargin + e.margin
           /\ i \in EntryIds /\ entry'[i] = e
           /\ \A j \in EntryIds : j # i => entry'[j].stage # "filling"
           /\ \A j \in EntryIds : entry'[j].stage = "filled" => entry[j] = entry'[j]
<1> DEFINE S    == PendingNamed(s, n)
           kept == WithoutEntries(S)
<1>1. /\ EntriesOK(entry, leverage) /\ ExitsOK(exit, entry)
      /\ usedMargin = Total(HeldMargins(entry), MaxEntries)
      /\ AccountOK(wallet, usedMargin, netPnl, entry)
      /\ leverage \in [Symbols -> Leverages \cup {1}]
  BY DEF IInv, StateOK, AccountOK
<1>2. \A j \in EntryIds : j \in S => entry[j].stage = "pending"
  BY DEF PendingNamed
<1>3. \A j \in EntryIds : kept[j] = IF j \in S THEN NoEntry ELSE entry[j]
  BY DEF WithoutEntries
<1>4. i \in EntryIds /\ kept[i].stage = "free"
  BY DEF FreeEntry
<1> HIDE DEF S
<1>5. /\ EntriesOK(kept, leverage)
      /\ UsedWithout(S) = Total(HeldMargins(kept), MaxEntries)
      /\ UsedWithout(S) \in Nat /\ UsedWithout(S) <= usedMargin
      /\ Total(Accruals(kept), MaxEntries) = Total(Accruals(entry), MaxEntries)
  <2>1. \A j \in EntryIds : j \in S => entry[j].stage # "filled"
    BY <1>2
  <2> QED BY <1>1, <2>1, Cancelled
<1>6. ExitsOK(exit, kept)
  BY <1>1, <1>2, <1>3, FilledKeepExits
<1> HIDE DEF kept
<1>7. UnfilledOK(leverage, kept, entry', i, e)
  <2>1. Rewritten(entry', kept, i, e)
    BY DEF kept, S
  <2>2. kept[i].stage # "filled" /\ e.stage # "filled"
    BY <1>4
  <2> QED BY <1>4, <1>5, <2>1, <2>2, Unfilled
<1>8. kept[i].margin = 0 /\ e.margin \in Nat
  BY <1>4, <1>5, EntryAmounts DEF EntriesOK, EntryOK
<1>9. StateOK(wallet, usedMargin, netPnl, leverage, entry, exit)'
  <2>1. EntriesOK(entry', leverage) /\ ExitsOK(exit, entry')
    BY <1>6, <1>7 DEF UnfilledOK
  <2>2. /\ Total(HeldMargins(entry'), MaxEntries) = Total(HeldMargins(kept), MaxEntries) + e.margin
        /\ Total(Accruals(entry'), MaxEntries) = Total(Accruals(entry), MaxEntries)
    BY <1>5, <1>7, <1>8 DEF UnfilledOK
  <2>3. usedMargin' = UsedWithout(S) + e.margin
    BY DEF S
  <2> QED BY <1>1, <1>5, <1>8, <2>1, <2>2, <2>3 DEF StateOK, AccountOK
<1>10. usedMargin' <= usedMargin + e.margin
  BY <1>1, <1>5, <1>8 DEF AccountOK, S
<1>11. \A j \in EntryIds : j # i => entry'[j].stage # "filling"
  BY <1>3, <1>7, IdleNotFilling DEF UnfilledOK, NoEntry
<1>12. \A j \in EntryIds : entry'[j].stage = "filled" => entry[j] = entry'[j]
  <2>1. entry'[i].stage # "filled" /\ NoEntry.stage = "free"
    BY <1>7 DEF UnfilledOK, NoEntry
  <2> QED BY <1>3, <1>7, <2>1 DEF UnfilledOK
<1> QED BY <1>4, <1>7, <1>9, <1>10, <1>11, <1>12 DEF UnfilledOK

\* PlaceEntry keeps the invariant.
LEMMA PlaceEntryStep ==
    ASSUME IInv, NEW s \in Symbols, NEW n \in EntryNames, NEW k \in Kinds, NEW d \in Directions,
           NEW q \in Sizes, NEW l \in Leverages, PlaceEntry(s, n, k, d, q, l)
    PROVE  IInv' /\ Covered
<1> DEFINE e == NewEntry(s, n, k, d, q, l, 0, "pending")
<1>1. EntryOK(e, leverage) /\ e.stage = "pending" /\ e.margin = 0
  BY KindsAssumption, NewEntryOK DEF NewEntry
<1>2. PICK i \in FreeEntry(WithoutEntries(PendingNamed(s, n))) :
         Rewritten(entry', WithoutEntries(PendingNamed(s, n)), i, e)
  BY DEF PlaceEntry, Rewritten
<1>3. /\ Idle /\ usedMargin' = UsedWithout(PendingNamed(s, n))
      /\ UNCHANGED <<wallet, leverage, exit, netPnl>> /\ CallUnchanged
  BY DEF PlaceEntry
<1> HIDE DEF e
<1>4. /\ \A j \in EntryIds : j \in PendingNamed(s, n) => entry[j].stage # "filled"
      /\ EntriesOK(entry, leverage) /\ usedMargin = Total(HeldMargins(entry), MaxEntries)
      /\ usedMargin \in Nat
  BY DEF PendingNamed, IInv, StateOK, AccountOK
<1>5. UsedWithout(PendingNamed(s, n)) \in Nat
  BY <1>4, Cancelled
<1>6. usedMargin' = UsedWithout(PendingNamed(s, n)) + e.margin
  BY <1>1, <1>3, <1>5
<1>7. /\ StateOK(wallet, usedMargin, netPnl, leverage, entry, exit)'
      /\ usedMargin' <= usedMargin + e.margin
      /\ entry'[i] = e
      /\ \A j \in EntryIds : j # i => entry'[j].stage # "filling"
  BY <1>1, <1>2, <1>3, <1>6, ReplaceStep
<1>8. FillOK'
  BY <1>1, <1>3, <1>7, IdleFillOK
<1>9. Covered
  BY <1>1, <1>3, <1>4, <1>5, <1>7 DEF Covered
<1> QED BY <1>7, <1>8, <1>9 DEF IInv

\* LimitEntry keeps the invariant, and reserves only what is available.
LEMMA LimitEntryStep ==
    ASSUME IInv, NEW s \in Symbols, NEW n \in EntryNames, NEW d \in Directions,
           NEW q \in Sizes, NEW l \in Leverages, NEW m \in Margins, LimitEntry(s, n, d, q, l, m)
    PROVE  IInv' /\ Covered
<1> DEFINE e == NewEntry(s, n, "LIMIT", d, q, l, m, "pending")
<1>1. EntryOK(e, leverage) /\ e.stage = "pending" /\ e.margin = m /\ m \in Nat
  BY AmountsAssumption, NewEntryOK DEF NewEntry
<1>2. PICK i \in FreeEntry(WithoutEntries(PendingNamed(s, n))) :
         Rewritten(entry', WithoutEntries(PendingNamed(s, n)), i, e)
  BY DEF LimitEntry, Rewritten
<1>3. /\ Idle /\ usedMargin' = UsedWithout(PendingNamed(s, n)) + e.margin
      /\ UNCHANGED <<wallet, leverage, exit, netPnl>> /\ CallUnchanged
      /\ wallet - usedMargin >= m
  BY <1>1 DEF LimitEntry, HasEnoughBalance, AvailableBalance
<1> HIDE DEF e
<1>4. /\ StateOK(wallet, usedMargin, netPnl, leverage, entry, exit)'
      /\ usedMargin' <= usedMargin + e.margin
      /\ entry'[i] = e
      /\ \A j \in EntryIds : j # i => entry'[j].stage # "filling"
  BY <1>1, <1>2, <1>3, ReplaceStep
<1>5. FillOK'
  BY <1>1, <1>3, <1>4, IdleFillOK
<1>6. usedMargin \in Nat /\ wallet \in Nat /\ usedMargin' \in Nat
  BY <1>4 DEF IInv, StateOK, AccountOK
<1>7. Covered
  BY <1>1, <1>3, <1>4, <1>6 DEF Covered
<1> QED BY <1>4, <1>5, <1>7 DEF IInv

\* MarketEntryNow keeps the invariant, given the naming rule.
LEMMA MarketEntryNowStep ==
    ASSUME IInv, NoReuse, NEW s \in Symbols, NEW n \in EntryNames, NEW d \in Directions,
           NEW q \in Sizes, NEW l \in Leverages, MarketEntryNow(s, n, d, q, l)
    PROVE  IInv' /\ Covered
<1> DEFINE e == NewEntry(s, n, "MARKET", d, q, l, 0, "filling")
<1>1. /\ EntryOK(e, leverage) /\ e.stage = "filling" /\ e.margin = 0
      /\ e.sym = s /\ e.name = n
  BY NewEntryOK DEF NewEntry
<1>2. PICK i \in FreeEntry(WithoutEntries(PendingNamed(s, n))) :
         /\ Rewritten(entry', WithoutEntries(PendingNamed(s, n)), i, e)
         /\ filling' = i /\ step' = "reverse" /\ todo' = {}
  BY DEF MarketEntryNow, Rewritten
<1>3. /\ Idle /\ usedMargin' = UsedWithout(PendingNamed(s, n))
      /\ UNCHANGED <<wallet, leverage, exit, netPnl, engineError>>
      /\ FilledNamed(entry, s, n) = {}
  BY DEF MarketEntryNow, NoReuse, IsValidEntryName
<1> HIDE DEF e
<1>4. /\ \A j \in EntryIds : j \in PendingNamed(s, n) => entry[j].stage # "filled"
      /\ EntriesOK(entry, leverage) /\ usedMargin = Total(HeldMargins(entry), MaxEntries)
      /\ usedMargin \in Nat
  BY DEF PendingNamed, IInv, StateOK, AccountOK
<1>5. UsedWithout(PendingNamed(s, n)) \in Nat
  BY <1>4, Cancelled
<1>6. usedMargin' = UsedWithout(PendingNamed(s, n)) + e.margin
  BY <1>1, <1>3, <1>5
<1>7. /\ StateOK(wallet, usedMargin, netPnl, leverage, entry, exit)'
      /\ usedMargin' <= usedMargin + e.margin
      /\ i \in EntryIds /\ entry'[i] = e
      /\ \A j \in EntryIds : j # i => entry'[j].stage # "filling"
      /\ \A j \in EntryIds : entry'[j].stage = "filled" => entry[j] = entry'[j]
  BY <1>1, <1>2, <1>3, <1>6, ReplaceStep
<1>8. FillOK'
  <2>1. \A j \in EntryIds : entry'[j].stage = "filling" <=> j = filling'
    BY <1>1, <1>2, <1>7
  <2>2. \A j \in EntryIds : ~(entry'[j].stage = "filled" /\ entry'[j].sym = entry'[filling'].sym
                              /\ entry'[j].name = entry'[filling'].name)
    BY <1>1, <1>2, <1>3, <1>7 DEF FilledNamed
  <2> QED BY <1>2, <1>3, <1>7, <2>1, <2>2 DEF FillOK, IInv
<1>9. Covered
  BY <1>1, <1>3, <1>4, <1>5, <1>7 DEF Covered
<1> QED BY <1>7, <1>8, <1>9 DEF IInv

\* Only pending exits change.
LEMMA ExitsOnlyStep ==
    ASSUME IInv, Idle, ExitsOK(exit', entry),
           UNCHANGED <<wallet, usedMargin, leverage, entry, netPnl>>, CallUnchanged
    PROVE  IInv' /\ Covered
<1>1. FillOK'
  BY IdleNotFilling, IdleFillOK
<1>2. StateOK(wallet, usedMargin, netPnl, leverage, entry, exit)' /\ usedMargin \in Nat
  BY DEF IInv, StateOK, AccountOK
<1> QED BY <1>1, <1>2 DEF IInv, Covered

\* CancelExit keeps the invariant.
LEMMA CancelExitStep ==
    ASSUME IInv, NEW s, NEW n, CancelExit(s, n) PROVE IInv' /\ Covered
<1>1. ExitsOK(exit, entry)
  BY DEF IInv, StateOK
<1>2. ExitsOK(exit', entry)
  BY <1>1, ExitsCancelled DEF CancelExit
<1> QED BY <1>2, ExitsOnlyStep DEF CancelExit

\* A new exit of a filled entry takes the place of those of its name.
LEMMA NewExitOK ==
    ASSUME IInv, NEW S, NEW i \in EntryIds, entry[i].stage = "filled",
           NEW n \in ExitNames \cup {CloseAllName}, NEW q \in Nat, q > 0,
           NEW x \in ExitIds, exit' = [WithoutExits(S) EXCEPT ![x] = ExitOf(entry[i], n, q)]
    PROVE  ExitsOK(exit', entry)
<1> DEFINE kept == WithoutExits(S)
           o    == ExitOf(entry[i], n, q)
<1>1. entry[i] \in Entries /\ ExitsOK(exit, entry)
  BY DEF IInv, StateOK, EntriesOK, EntryOK
<1>2. ExitsOK(kept, entry)
  BY <1>1, ExitsCancelled
<1>3. o \in Exits /\ Tracks(o, entry[i]) /\ o.size = q
  BY <1>1 DEF ExitOf, Exits, Entries, Tracks
<1>4. /\ exit' = [y \in ExitIds |-> exit'[y]] /\ exit'[x] = o
      /\ \A y \in ExitIds : y # x => exit'[y] = kept[y]
  BY DEF WithoutExits
<1> HIDE DEF kept, o
<1>5. \A y \in ExitIds : ExitOK(exit'[y], entry)
  BY <1>2, <1>3, <1>4 DEF ExitsOK, ExitOK
<1> QED BY <1>4, <1>5 DEF ExitsOK

\* What an exit asks for, cut to what remains.
LEMMA AdjustedSize ==
    ASSUME NEW lev, NEW e, EntryOK(e, lev), e.stage = "filled", NEW q \in Nat, q > 0
    PROVE  /\ GetAdjustedExitSize(q, e) \in Nat /\ GetAdjustedExitSize(q, e) > 0
           /\ GetAdjustedExitSize(q, e) <= Remaining(e)
           /\ Remaining(e) \in Nat /\ Remaining(e) > 0
<1>1. e.size \in Nat /\ e.exited \in Nat /\ e.exited < e.size
  BY DEF EntryOK, Entries
<1> QED BY <1>1 DEF GetAdjustedExitSize, Remaining

\* PlaceExit keeps the invariant.
LEMMA PlaceExitStep ==
    ASSUME IInv, NEW s, NEW xn \in ExitNames, NEW n, NEW q \in Sizes, PlaceExit(s, xn, n, q)
    PROVE  IInv' /\ Covered
<1> DEFINE i == Some(FilledNamed(entry, s, n))
<1>1. i \in EntryIds /\ entry[i].stage = "filled" /\ EntryOK(entry[i], leverage)
  BY SomeIn DEF PlaceExit, FilledNamed, IInv, StateOK, EntriesOK
<1>2. q \in Nat /\ q > 0
  BY AmountsAssumption
<1>3. PICK x \in ExitIds :
         exit' = [WithoutExits(ExitsNamed(s, xn)) EXCEPT
                    ![x] = ExitOf(entry[i], xn, GetAdjustedExitSize(q, entry[i]))]
  BY DEF PlaceExit
<1> HIDE DEF i
<1>4. GetAdjustedExitSize(q, entry[i]) \in Nat /\ GetAdjustedExitSize(q, entry[i]) > 0
  BY <1>1, <1>2, AdjustedSize
<1>5. ExitsOK(exit', entry)
  BY <1>1, <1>3, <1>4, NewExitOK
<1> QED BY <1>5, ExitsOnlyStep DEF PlaceExit

\* CloseAll keeps the invariant.
LEMMA CloseAllStep ==
    ASSUME IInv, NEW s, CloseAll(s) PROVE IInv' /\ Covered
<1>1. PICK last \in Filled(s), x \in ExitIds :
         exit' = [WithoutExits(ExitsNamed(s, CloseAllName)) EXCEPT
                    ![x] = ExitOf(entry[last], CloseAllName, Remaining(entry[last]))]
  BY DEF CloseAll
<1>2. last \in EntryIds /\ entry[last].stage = "filled" /\ EntryOK(entry[last], leverage)
  BY DEF Filled, IInv, StateOK, EntriesOK
<1>3. Remaining(entry[last]) \in Nat /\ Remaining(entry[last]) > 0
  <2>1. entry[last].size \in Nat /\ entry[last].exited \in Nat
        /\ entry[last].exited < entry[last].size
    BY <1>2 DEF EntryOK, Entries
  <2> QED BY <2>1 DEF Remaining
<1>4. ExitsOK(exit', entry)
  BY <1>1, <1>2, <1>3, NewExitOK
<1> QED BY <1>4, ExitsOnlyStep DEF CloseAll

\* An exit runs on the orders as they are, from outside a fill.
LEMMA IdleExitStep ==
    ASSUME IInv, Idle, NEW i \in EntryIds, entry[i].stage = "filled",
           NEW exs, ExitsOK(exs, entry),
           NEW fee \in Nat, NEW profit \in Int, NEW liquidationFee \in Nat,
           NEW q \in Nat, 0 < q, q <= Remaining(entry[i]),
           ExitEntry(wallet, usedMargin, entry, i, exs, q, entry[i].margin, entry[i].funding,
                     fee, profit, liquidationFee)
    PROVE  IInv' /\ Covered
<1>1. StateOK(wallet, usedMargin, netPnl, leverage, entry, exs) /\ usedMargin \in Nat
  BY DEF IInv, StateOK, AccountOK
<1>2. Throw \/ ExitDone(usedMargin, entry, i)
  BY <1>1, ExitKeepsState
<1>3. CASE Throw
  BY <1>3, ThrowStep
<1>4. CASE ExitDone(usedMargin, entry, i)
  <2>1. FillOK'
    <3>1. \A j \in EntryIds : entry'[j].stage # "filling"
      BY <1>4, IdleNotFilling DEF ExitDone, SamePosition
    <3> QED BY <1>4, <3>1, IdleFillOK DEF ExitDone
  <2> QED BY <1>1, <1>4, <2>1 DEF ExitDone, IInv, Covered, StateOK, AccountOK
<1> QED BY <1>2, <1>3, <1>4

\* MarketExitNow keeps the invariant.
LEMMA MarketExitNowStep ==
    ASSUME IInv, NEW s, NEW xn, NEW n, NEW q \in Sizes, NEW fee \in ExitFees, NEW profit \in Profits,
           MarketExitNow(s, xn, n, q, fee, profit)
    PROVE  IInv' /\ Covered
<1> DEFINE i   == Some(FilledNamed(entry, s, n))
           cut == GetAdjustedExitSize(q, entry[i])
           exs == WithoutExits(ExitsNamed(s, xn))
<1>1. i \in EntryIds /\ entry[i].stage = "filled" /\ EntryOK(entry[i], leverage)
  BY SomeIn DEF MarketExitNow, FilledNamed, IInv, StateOK, EntriesOK
<1>2. q \in Nat /\ q > 0 /\ fee \in Nat /\ profit \in Int
  BY AmountsAssumption
<1>3. /\ Idle
      /\ ExitEntry(wallet, usedMargin, entry, i, exs, cut, entry[i].margin, entry[i].funding,
                   fee, profit, 0)
  BY DEF MarketExitNow
<1>4. ExitsOK(exs, entry)
  BY ExitsCancelled DEF IInv, StateOK
<1> HIDE DEF i, exs
<1>5. cut \in Nat /\ 0 < cut /\ cut <= Remaining(entry[i])
  BY <1>1, <1>2, AdjustedSize
<1> HIDE DEF cut
<1> QED BY <1>1, <1>2, <1>3, <1>4, <1>5, IdleExitStep

\* FillPendingExitOrder keeps the invariant: the copies the exit order carries are those of its entry.
LEMMA FillPendingExitOrderStep ==
    ASSUME IInv, NEW x \in ExitIds, NEW fee \in ExitFees, NEW profit \in Profits,
           FillPendingExitOrder(x, fee, profit)
    PROVE  IInv' /\ Covered
<1> DEFINE o   == exit[x]
           i   == Some(FilledNamed(entry, o.sym, o.target))
           cut == GetAdjustedExitSize(o.size, entry[i])
           exs == WithoutExits({x})
<1>1. /\ i \in EntryIds /\ entry[i].stage = "filled" /\ EntryOK(entry[i], leverage)
      /\ entry[i].sym = o.sym /\ entry[i].name = o.target
  BY SomeIn DEF FillPendingExitOrder, FilledNamed, IInv, StateOK, EntriesOK
<1>2. /\ Idle /\ o.stage = "pending"
      /\ ExitEntry(wallet, usedMargin, entry, i, exs, cut, o.margin, o.funding, fee, profit, 0)
  BY DEF FillPendingExitOrder
<1>3. o \in Exits /\ o.size > 0 /\ \E j \in EntryIds : Tracks(o, entry[j])
  BY <1>2 DEF IInv, StateOK, ExitsOK, ExitOK
<1>4. o.margin = entry[i].margin /\ o.funding = entry[i].funding
  <2>1. PICK j \in EntryIds : Tracks(o, entry[j])
    BY <1>3
  <2>2. j # i => Compatible(entry[j], entry[i])
    BY <1>1 DEF IInv, StateOK, EntriesOK
  <2>3. j = i
    BY <1>1, <2>1, <2>2 DEF Tracks, Compatible
  <2> QED BY <2>1, <2>3 DEF Tracks
<1>5. o.size \in Nat /\ fee \in Nat /\ profit \in Int
  BY <1>3, AmountsAssumption DEF Exits
<1>6. ExitsOK(exs, entry)
  BY ExitsCancelled DEF IInv, StateOK
<1> HIDE DEF i, exs
<1>7. cut \in Nat /\ 0 < cut /\ cut <= Remaining(entry[i])
  BY <1>1, <1>3, <1>5, AdjustedSize
<1> HIDE DEF cut, o
<1> QED BY <1>1, <1>2, <1>4, <1>5, <1>6, <1>7, IdleExitStep

\* FillLiquidation keeps the invariant.
LEMMA FillLiquidationStep ==
    ASSUME IInv, NEW i \in EntryIds, NEW fee \in ExitFees, NEW profit \in Profits,
           NEW lf \in LiquidationFees, FillLiquidation(i, fee, profit, lf)
    PROVE  IInv' /\ Covered
<1>1. /\ entry[i].stage = "filled" /\ Idle
      /\ ExitEntry(wallet, usedMargin, entry, i, exit, Remaining(entry[i]), entry[i].margin,
                   entry[i].funding, fee, profit, lf)
  BY DEF FillLiquidation, CloseEntry
<1>2. fee \in Nat /\ profit \in Int /\ lf \in Nat
  BY AmountsAssumption
<1>3. ExitsOK(exit, entry) /\ EntryOK(entry[i], leverage)
  BY DEF IInv, StateOK, EntriesOK
<1>4. Remaining(entry[i]) \in Nat /\ 0 < Remaining(entry[i])
  BY <1>1, <1>3 DEF EntryOK, Entries, Remaining
<1> DEFINE q == Remaining(entry[i])
<1>5. q <= Remaining(entry[i])
  BY <1>4
<1> HIDE DEF q
<1>6. /\ q \in Nat /\ 0 < q
      /\ ExitEntry(wallet, usedMargin, entry, i, exit, q, entry[i].margin, entry[i].funding,
                   fee, profit, lf)
  BY <1>1, <1>4 DEF q
<1> QED BY <1>1, <1>2, <1>3, <1>5, <1>6, IdleExitStep

RechargedOK(new, kept, i, a, b) ==
    /\ StateOK(wallet + b, usedMargin + a, netPnl, leverage, new, kept)
    /\ \A j \in EntryIds : j # i => new[j] = entry[j]
    /\ SamePosition(entry[i], new[i])
    /\ new[i].stage = "filled" /\ new[i].margin = entry[i].margin + a

\* The margin of a filled entry changes by a and its funding by b.
LEMMA Recharged ==
    ASSUME IInv, NEW i \in EntryIds, entry[i].stage = "filled",
           NEW a \in Int, NEW b \in Int, entry[i].margin + a \in Nat,
           NEW new, Recut(new, entry, i, 0, entry[i].margin + a, entry[i].funding + b),
           NEW kept, Synced(kept, exit, entry[i], entry[i].margin + a, entry[i].funding + b),
           wallet + b \in Nat
    PROVE  RechargedOK(new, kept, i, a, b)
<1> DEFINE m  == entry[i].margin + a
           fn == entry[i].funding + b
<1>1. /\ EntriesOK(entry, leverage) /\ ExitsOK(exit, entry) /\ EntryOK(entry[i], leverage)
      /\ AccountOK(wallet, usedMargin, netPnl, entry) /\ leverage \in [Symbols -> Leverages \cup {1}]
  BY DEF IInv, StateOK, EntriesOK
<1>2. /\ entry[i].margin \in Nat /\ entry[i].funding \in Int /\ entry[i].unitFee \in Nat
      /\ entry[i].size \in Nat /\ entry[i].exited \in Nat
      /\ entry[i].exited + 0 < entry[i].size
  BY <1>1 DEF EntryOK, Entries
<1>3. m \in Nat /\ fn \in Int
  BY <1>2
<1>4. ResettledOK(leverage, entry, new, kept, i, 0, m, fn)
  <2> HIDE DEF m, fn
  <2>1. /\ Recut(new, entry, i, 0, m, fn)
        /\ Synced(kept, exit, entry[i], m, fn)
    BY DEF m, fn
  <2>2. 0 \in Nat
    OBVIOUS
  <2> QED BY <1>1, <1>2, <1>3, <2>1, <2>2, Resettled, Zenon
<1>5. entry[i].unitFee * 0 = 0
  BY <1>2
<1>6. /\ Total(HeldMargins(entry), MaxEntries) \in Nat
      /\ Total(Accruals(entry), MaxEntries) \in Int
      /\ entry[i].margin <= usedMargin /\ usedMargin \in Nat /\ wallet \in Nat
      /\ usedMargin = Total(HeldMargins(entry), MaxEntries)
      /\ wallet = InitialBalance + netPnl + Total(Accruals(entry), MaxEntries)
      /\ InitialBalance \in Nat /\ netPnl \in Int
  BY <1>1, BookTotals, AmountsAssumption DEF AccountOK
<1>7. /\ Total(HeldMargins(new), MaxEntries) = usedMargin + a
      /\ Total(Accruals(new), MaxEntries) = Total(Accruals(entry), MaxEntries) + b
  BY <1>2, <1>4, <1>5, <1>6 DEF ResettledOK
<1>8. AccountOK(wallet + b, usedMargin + a, netPnl, new)
  BY <1>2, <1>6, <1>7 DEF AccountOK
<1>9. new[i].stage = "filled" /\ new[i].margin = entry[i].margin + a
  BY DEF Recut
<1> QED BY <1>1, <1>4, <1>8, <1>9 DEF ResettledOK, StateOK, RechargedOK

\* IncreaseMargin keeps the invariant.
LEMMA IncreaseMarginStep ==
    ASSUME IInv, NEW s, NEW n, NEW m \in Margins, IncreaseMargin(s, n, m)
    PROVE  IInv' /\ Covered
<1> DEFINE i == Some(FilledNamed(entry, s, n))
<1>1. i \in EntryIds /\ entry[i].stage = "filled" /\ EntryOK(entry[i], leverage)
  BY SomeIn DEF IncreaseMargin, FilledNamed, IInv, StateOK, EntriesOK
<1>2. /\ entry' = [entry EXCEPT ![i].margin = @ + m]
      /\ exit' = SyncExits(exit, entry[i], entry[i].margin + m, entry[i].funding)
      /\ usedMargin' = usedMargin + m /\ Idle /\ wallet - usedMargin >= m
      /\ UNCHANGED <<wallet, leverage, netPnl>> /\ CallUnchanged
  BY DEF IncreaseMargin, HasEnoughBalance, AvailableBalance
<1>3. m \in Nat /\ wallet \in Nat /\ usedMargin \in Nat
  BY AmountsAssumption DEF IInv, StateOK, AccountOK
<1> HIDE DEF i
<1>4. entry[i].margin \in Nat /\ entry[i].funding \in Int /\ entry[i].exited \in Nat
  BY <1>1 DEF EntryOK, Entries
<1>5. Recut(entry', entry, i, 0, entry[i].margin + m, entry[i].funding + 0)
  <2> DEFINE r == [entry[i] EXCEPT !.margin = @ + m]
  <2>1. IsBook(entry') /\ entry'[i] = r /\ \A j \in EntryIds : j # i => entry'[j] = entry[j]
    BY <1>1, <1>2 DEF IInv, StateOK, EntriesOK, IsBook
  <2>2. entry[i].margin + m \in Nat
    BY <1>3, <1>4
  <2>3. r \in Entries /\ r.margin = entry[i].margin + m
    BY <1>1, <2>2 DEF EntryOK, Entries
  <2>4. /\ r.stage = entry[i].stage /\ r.sym = entry[i].sym /\ r.name = entry[i].name
        /\ r.dir = entry[i].dir /\ r.lev = entry[i].lev /\ r.size = entry[i].size
        /\ r.unitFee = entry[i].unitFee /\ r.exited = entry[i].exited /\ r.funding = entry[i].funding
    BY <1>1 DEF EntryOK, Entries
  <2> HIDE DEF r
  <2> QED BY <1>1, <1>4, <2>1, <2>3, <2>4 DEF Recut
<1>6. Synced(exit', exit, entry[i], entry[i].margin + m, entry[i].funding + 0)
  BY <1>2, <1>4 DEF Synced
<1>7. m \in Int /\ 0 \in Int /\ entry[i].margin + m \in Nat /\ wallet + 0 \in Nat
  BY <1>3, <1>4
<1>8. /\ StateOK(wallet + 0, usedMargin + m, netPnl, leverage, entry', exit')
      /\ \A j \in EntryIds : j # i => entry'[j] = entry[j]
      /\ entry'[i].stage = "filled"
  <2> DEFINE z == 0
  <2>1. /\ Recut(entry', entry, i, 0, entry[i].margin + m, entry[i].funding + z)
        /\ Synced(exit', exit, entry[i], entry[i].margin + m, entry[i].funding + z)
        /\ m \in Int /\ z \in Int /\ entry[i].margin + m \in Nat /\ wallet + z \in Nat
    BY <1>5, <1>6, <1>7
  <2> HIDE DEF z
  <2>2. RechargedOK(entry', exit', i, m, z)
    BY <1>1, <2>1, Recharged, Zenon
  <2> QED BY <2>2 DEF z, RechargedOK
<1>9. FillOK'
  BY <1>2, <1>8, IdleNotFilling, IdleFillOK
<1>10. wallet + 0 = wallet /\ Covered
  BY <1>2, <1>3 DEF Covered
<1> QED BY <1>2, <1>8, <1>9, <1>10 DEF IInv

\* ExecuteFunding keeps the invariant, whether the position survives the payment or is liquidated.
LEMMA ExecuteFundingStep ==
    ASSUME IInv, NEW i \in EntryIds, NEW rate \in Fundings, NEW maintained \in BOOLEAN,
           NEW fee \in ExitFees, NEW profit \in Profits, NEW lf \in LiquidationFees,
           ExecuteFunding(i, rate, maintained, fee, profit, lf)
    PROVE  IInv' /\ Covered
<1> DEFINE e      == entry[i]
           amount == IF rate < 0 /\ -rate > e.margin THEN -e.margin ELSE rate
           funded == FundedEntry(i, amount)
           exits  == IF amount = 0 THEN exit
                     ELSE SyncExits(exit, e, e.margin + amount, e.funding + amount)
           used   == IF amount < 0 THEN Decrease(usedMargin, -amount) ELSE usedMargin + amount
<1>1. Idle /\ e.stage = "filled" /\ EntryOK(e, leverage) /\ EntriesOK(entry, leverage)
      /\ ExitsOK(exit, entry)
  BY DEF ExecuteFunding, IInv, StateOK, EntriesOK
<1>2. /\ rate \in Int /\ fee \in Nat /\ profit \in Int /\ lf \in Nat
      /\ e.margin \in Nat /\ e.funding \in Int /\ e.exited \in Nat /\ e \in Entries
      /\ wallet \in Nat /\ usedMargin \in Nat
  BY <1>1, AmountsAssumption DEF EntryOK, Entries, IInv, StateOK, AccountOK
<1>3. amount \in Int /\ e.margin + amount \in Nat /\ -amount <= e.margin
  BY <1>2
<1>4. used = usedMargin + amount
  <2>1. e.margin <= usedMargin
    BY <1>1, BookTotals DEF IInv, StateOK, AccountOK
  <2> QED BY <1>2, <1>3, <2>1 DEF Decrease
<1>5. Recut(funded, entry, i, 0, e.margin + amount, e.funding + amount)
  <2> HIDE DEF amount
  <2> DEFINE r == [e EXCEPT !.margin = @ + amount, !.funding = @ + amount]
  <2>1. IsBook(funded) /\ funded[i] = r /\ \A j \in EntryIds : j # i => funded[j] = entry[j]
    BY <1>1, <1>2 DEF FundedEntry, EntriesOK, IsBook, Entries
  <2> HIDE DEF funded
  <2>2. e.margin + amount \in Nat /\ e.funding + amount \in Int
    BY <1>2, <1>3
  <2>3. r \in Entries /\ r.margin = e.margin + amount /\ r.funding = e.funding + amount
    BY <1>2, <2>2 DEF Entries
  <2>4. /\ r.stage = e.stage /\ r.sym = e.sym /\ r.name = e.name
        /\ r.dir = e.dir /\ r.lev = e.lev /\ r.size = e.size
        /\ r.unitFee = e.unitFee /\ r.exited = e.exited
    BY <1>2 DEF Entries
  <2> HIDE DEF r
  <2> QED BY <1>1, <1>2, <2>1, <2>3, <2>4 DEF Recut
<1>6. Synced(SyncExits(exit, e, e.margin + amount, e.funding + amount), exit, e,
             e.margin + amount, e.funding + amount)
  BY DEF Synced
<1>7. \/ Throw
      \/ /\ ~(amount > 0 /\ used > wallet + amount) /\ ~(amount < 0 /\ -amount > wallet)
         /\ \/ /\ wallet' = wallet + amount /\ usedMargin' = used
               /\ entry' = funded /\ exit' = exits
               /\ UNCHANGED <<leverage, netPnl>> /\ CallUnchanged
            \/ ExitEntry(wallet + amount, used, funded, i, exits, Remaining(funded[i]),
                         funded[i].margin, funded[i].funding, fee, profit, lf)
  BY DEF ExecuteFunding, CloseEntry
<1> HIDE DEF amount, funded, used
<1>8. CASE Throw
  BY <1>8, ThrowStep
<1>9. CASE /\ ~(amount > 0 /\ used > wallet + amount) /\ ~(amount < 0 /\ -amount > wallet)
           /\ \/ /\ wallet' = wallet + amount /\ usedMargin' = used
                 /\ entry' = funded /\ exit' = exits
                 /\ UNCHANGED <<leverage, netPnl>> /\ CallUnchanged
              \/ ExitEntry(wallet + amount, used, funded, i, exits, Remaining(funded[i]),
                           funded[i].margin, funded[i].funding, fee, profit, lf)
  <2>1. wallet + amount \in Nat
    BY <1>2, <1>3, <1>9
  <2>2. /\ StateOK(wallet + amount, usedMargin + amount, netPnl, leverage, funded,
                   SyncExits(exit, e, e.margin + amount, e.funding + amount))
        /\ \A j \in EntryIds : j # i => funded[j] = entry[j]
        /\ SamePosition(e, funded[i])
        /\ funded[i].stage = "filled" /\ funded[i].margin = e.margin + amount
    <3>1. RechargedOK(funded, SyncExits(exit, e, e.margin + amount, e.funding + amount), i, amount, amount)
      BY <1>1, <1>3, <1>5, <1>6, <2>1, Recharged
    <3> QED BY <3>1 DEF RechargedOK
  <2>3. ExitsOK(exits, funded)
    <3>1. CASE amount # 0
      BY <2>2, <3>1 DEF StateOK
    <3>2. CASE amount = 0
      <4>1. funded[i].sym = e.sym /\ funded[i].name = e.name /\ funded[i].stage = "filled"
            /\ funded[i].margin = e.margin /\ funded[i].funding = e.funding
        BY <1>1, <1>2, <1>5, <3>2 DEF Recut
      <4>2. ASSUME NEW o, NEW j \in EntryIds, Tracks(o, entry[j]) PROVE Tracks(o, funded[j])
        BY <2>2, <4>1, <4>2 DEF Tracks
      <4>3. ExitsOK(exit, funded)
        BY <1>1, <4>2 DEF ExitsOK, ExitOK
      <4> QED BY <3>2, <4>3
    <3> QED BY <3>1, <3>2
  <2>4. StateOK(wallet + amount, used, netPnl, leverage, funded, exits)
    BY <1>4, <2>2, <2>3 DEF StateOK
  <2> HIDE DEF exits
  <2>5. CASE /\ wallet' = wallet + amount /\ usedMargin' = used
             /\ entry' = funded /\ exit' = exits
             /\ UNCHANGED <<leverage, netPnl>> /\ CallUnchanged
    <3>1. FillOK'
      BY <1>1, <2>2, <2>5, IdleNotFilling, IdleFillOK
    <3>2. Covered
      BY <1>2, <1>3, <1>4, <1>9, <2>5 DEF Covered
    <3> QED BY <2>4, <2>5, <3>1, <3>2 DEF IInv
  <2>6. CASE ExitEntry(wallet + amount, used, funded, i, exits, Remaining(funded[i]),
                       funded[i].margin, funded[i].funding, fee, profit, lf)
    <3>1. /\ Remaining(funded[i]) \in Nat
          /\ funded[i].exited + Remaining(funded[i]) = funded[i].size
      <4>1. /\ funded[i].exited \in Nat /\ funded[i].size \in Nat
            /\ funded[i].exited < funded[i].size
        BY <2>2, <2>4 DEF StateOK, EntriesOK, EntryOK, Entries
      <4> QED BY <4>1 DEF Remaining
    <3> DEFINE q == Remaining(funded[i])
               w == wallet + amount
    <3>2. /\ q \in Nat /\ funded[i].exited + q = funded[i].size
          /\ ExitEntry(w, used, funded, i, exits, q, funded[i].margin, funded[i].funding,
                       fee, profit, lf)
          /\ StateOK(w, used, netPnl, leverage, funded, exits)
      BY <2>4, <2>6, <3>1
    <3> HIDE DEF q, w
    <3>3. Throw \/ (ExitDone(used, funded, i) /\ usedMargin' = used - funded[i].margin)
      BY <1>2, <2>2, <3>2, FullExit
    <3>4. CASE Throw
      BY <3>4, ThrowStep
    <3>5. CASE ExitDone(used, funded, i) /\ usedMargin' = used - funded[i].margin
      <4>1. \A j \in EntryIds : entry'[j].stage # "filling"
        BY <1>1, <2>2, <3>5, IdleNotFilling DEF ExitDone, SamePosition
      <4>2. FillOK'
        BY <1>1, <3>5, <4>1, IdleFillOK DEF ExitDone
      <4>3. Covered
        BY <1>2, <1>3, <1>4, <2>2, <3>5 DEF Covered
      <4> QED BY <3>5, <4>2, <4>3 DEF ExitDone, IInv
    <3> QED BY <3>3, <3>4, <3>5
  <2> QED BY <1>9, <2>5, <2>6
<1> QED BY <1>7, <1>8, <1>9

\* OrderPendingLitEntry keeps the invariant.
LEMMA OrderPendingLitEntryStep ==
    ASSUME IInv, NEW i \in EntryIds, NEW m \in Margins, OrderPendingLitEntry(i, m)
    PROVE  IInv' /\ Covered
<1>1. /\ Idle /\ entry[i].stage = "pending" /\ entry[i].margin = 0
      /\ UNCHANGED <<wallet, leverage, exit, netPnl>> /\ CallUnchanged
  BY DEF OrderPendingLitEntry
<1>2. /\ EntriesOK(entry, leverage) /\ ExitsOK(exit, entry) /\ EntryOK(entry[i], leverage)
      /\ leverage \in [Symbols -> Leverages \cup {1}]
      /\ AccountOK(wallet, usedMargin, netPnl, entry)
      /\ m \in Nat /\ wallet \in Nat /\ usedMargin \in Nat
  BY AmountsAssumption DEF IInv, StateOK, AccountOK, EntriesOK
<1>3. CASE entry' = WithoutEntries({i}) /\ UNCHANGED usedMargin
  <2>1. UsedWithout({i}) = usedMargin
    <3>1. ReservedBy({i}) = 0
      <4> DEFINE f == [j \in EntryIds |-> IF j \in {i} THEN entry[j].margin ELSE 0]
      <4>1. MaxEntries \in Nat /\ \A j \in 1..MaxEntries : f[j] = 0
        BY <1>1, BoundsAssumption DEF EntryIds
      <4> HIDE DEF f
      <4>2. Total(f, MaxEntries) = 0
        BY <4>1, TotalZero
      <4> QED BY <4>2 DEF f, ReservedBy
    <3> QED BY <1>2, <3>1 DEF UsedWithout, Decrease
  <2>2. \A j \in EntryIds : j \in {i} => entry[j].stage = "pending"
    BY <1>1
  <2> QED BY <1>1, <1>3, <2>1, <2>2, CancelStep
<1>4. CASE /\ HasEnoughBalance(AvailableBalance, m)
           /\ entry' = [entry EXCEPT ![i].margin = m] /\ usedMargin' = usedMargin + m
  <2> DEFINE e == [entry[i] EXCEPT !.margin = m]
  <2>1. EntryOK(e, leverage) /\ e.stage = "pending" /\ e.margin = m
    BY <1>1, <1>2 DEF EntryOK, Entries
  <2>2. Rewritten(entry', entry, i, e)
    BY <1>4 DEF Rewritten
  <2> HIDE DEF e
  <2>3. UnfilledOK(leverage, entry, entry', i, e)
    BY <1>1, <1>2, <2>1, <2>2, Unfilled
  <2>4. FillOK'
    <3>1. \A j \in EntryIds : entry'[j].stage # "filling"
      BY <1>1, <2>1, <2>3, IdleNotFilling DEF UnfilledOK
    <3> QED BY <1>1, <3>1, IdleFillOK
  <2>5. AccountOK(wallet, usedMargin, netPnl, entry)'
    BY <1>1, <1>2, <1>4, <2>1, <2>3 DEF AccountOK, UnfilledOK
  <2>6. Covered
    BY <1>1, <1>2, <1>4 DEF Covered, HasEnoughBalance, AvailableBalance
  <2> QED BY <1>1, <1>2, <2>3, <2>4, <2>5, <2>6 DEF IInv, StateOK, UnfilledOK
<1> QED BY <1>3, <1>4 DEF OrderPendingLitEntry

\* Both ways a pending fill starts keep the invariant.
LEMMA StartFillStep ==
    ASSUME IInv, NEW i \in EntryIds, StartFill(i) PROVE IInv' /\ Covered
<1>1. /\ Idle /\ entry[i].stage = "pending"
      /\ UNCHANGED <<wallet, leverage, exit, netPnl, todo, engineError>>
  BY DEF StartFill
<1>2. /\ EntriesOK(entry, leverage) /\ ExitsOK(exit, entry) /\ EntryOK(entry[i], leverage)
      /\ leverage \in [Symbols -> Leverages \cup {1}]
      /\ AccountOK(wallet, usedMargin, netPnl, entry) /\ usedMargin \in Nat
  BY DEF IInv, StateOK, AccountOK, EntriesOK
<1>3. CASE /\ entry' = WithoutEntries({i}) /\ usedMargin' = UsedWithout({i})
           /\ UNCHANGED <<filling, step>>
  <2>1. \A j \in EntryIds : j \in {i} => entry[j].stage = "pending"
    BY <1>1
  <2> QED BY <1>1, <1>3, <2>1, CancelStep DEF CallUnchanged
<1>4. CASE /\ IsValidEntryName(entry[i].sym, entry[i].name)
           /\ entry' = [entry EXCEPT ![i].stage = "filling"]
           /\ filling' = i /\ step' = "reverse" /\ UNCHANGED usedMargin
  <2> DEFINE e == [entry[i] EXCEPT !.stage = "filling"]
  <2>1. /\ EntryOK(e, leverage) /\ e.stage = "filling" /\ e.margin = entry[i].margin
        /\ e.sym = entry[i].sym /\ e.name = entry[i].name
    BY <1>1, <1>2 DEF EntryOK, Entries
  <2>2. Rewritten(entry', entry, i, e)
    BY <1>4 DEF Rewritten
  <2> HIDE DEF e
  <2>3. UnfilledOK(leverage, entry, entry', i, e)
    BY <1>1, <1>2, <2>1, <2>2, Unfilled
  <2>4. FillOK'
    <3>1. \A j \in EntryIds : entry'[j].stage = "filling" <=> j = filling'
      BY <1>1, <1>4, <2>1, <2>3, IdleNotFilling DEF UnfilledOK
    <3>2. \A j \in EntryIds : ~(entry'[j].stage = "filled" /\ entry'[j].sym = entry'[filling'].sym
                                /\ entry'[j].name = entry'[filling'].name)
      BY <1>4, <2>1, <2>3 DEF UnfilledOK, IsValidEntryName, FilledNamed
    <3> QED BY <1>1, <1>4, <3>1, <3>2 DEF FillOK, IInv
  <2>5. entry[i].margin \in Nat /\ Total(HeldMargins(entry), MaxEntries) \in Nat
    BY <1>2, EntryAmounts, BookTotals
  <2>6. AccountOK(wallet, usedMargin, netPnl, entry)'
    BY <1>1, <1>2, <1>4, <2>1, <2>3, <2>5 DEF AccountOK, UnfilledOK
  <2>7. Covered
    BY <1>2, <1>4 DEF Covered
  <2> QED BY <1>1, <1>2, <2>3, <2>4, <2>6, <2>7 DEF IInv, StateOK, UnfilledOK
<1> QED BY <1>3, <1>4 DEF StartFill

\* ReverseExit keeps the invariant.
LEMMA ReverseExitStep ==
    ASSUME IInv, NEW o \in EntryIds, NEW fee \in ExitFees, NEW profit \in Profits,
           ReverseExit(o, fee, profit)
    PROVE  IInv' /\ Covered
<1>1. filling # 0 /\ step = "reverse" /\ entry[o].stage = "filled"
  BY DEF ReverseExit, Opposite, Filled
<1>2. CASE Throw
  BY <1>2, ThrowStep
<1>3. CASE CloseEntry(wallet, usedMargin, entry, o, exit, fee, profit, 0)
  <2>1. StateOK(wallet, usedMargin, netPnl, leverage, entry, exit) /\ EntryOK(entry[o], leverage)
    BY DEF IInv, StateOK, EntriesOK
  <2>2. fee \in Nat /\ profit \in Int
    BY AmountsAssumption
  <2> DEFINE q == Remaining(entry[o])
  <2>3. q \in Nat /\ 0 < q
    BY <1>1, <2>1 DEF EntryOK, Entries, Remaining
  <2>4. q <= Remaining(entry[o])
    BY <2>3
  <2>5. ExitEntry(wallet, usedMargin, entry, o, exit, q, entry[o].margin, entry[o].funding,
                  fee, profit, 0)
    BY <1>3 DEF CloseEntry
  <2> HIDE DEF q
  <2>6. Throw \/ ExitDone(usedMargin, entry, o)
    BY <1>1, <2>1, <2>2, <2>3, <2>4, <2>5, ExitKeepsState
  <2>7. CASE Throw
    BY <2>7, ThrowStep
  <2>8. CASE ExitDone(usedMargin, entry, o)
    <3>1. /\ CallUnchanged /\ leverage' = leverage
          /\ \A j \in EntryIds : j # o => entry'[j] = entry[j]
          /\ SamePosition(entry[o], entry'[o])
          /\ filling \in EntryIds /\ filling # o
      BY <1>1, <2>8 DEF ExitDone, IInv, FillOK
    <3>2. \A j \in EntryIds : entry'[j].stage = "filling" <=> j = filling'
      BY <1>1, <3>1 DEF CallUnchanged, SamePosition, IInv, FillOK
    <3>3. \A j \in EntryIds : ~(entry'[j].stage = "filled" /\ entry'[j].sym = entry'[filling'].sym
                                /\ entry'[j].name = entry'[filling'].name)
      <4>1. \A j \in EntryIds : ~(entry[j].stage = "filled" /\ entry[j].sym = entry[filling].sym
                                  /\ entry[j].name = entry[filling].name)
        BY <1>1 DEF IInv, FillOK
      <4>2. entry'[filling'] = entry[filling]
        BY <3>1 DEF CallUnchanged
      <4> QED BY <3>1, <4>1, <4>2 DEF SamePosition
    <3>4. FillOK'
      BY <1>1, <3>1, <3>2, <3>3 DEF CallUnchanged, IInv, FillOK
    <3> QED BY <2>1, <2>8, <3>4 DEF ExitDone, IInv, Covered, StateOK, AccountOK
  <2> QED BY <2>6, <2>7, <2>8
<1> QED BY <1>2, <1>3 DEF ReverseExit

\* The order being filled is dropped.
LEMMA AbandonFillStep ==
    ASSUME IInv, filling # 0, AbandonFill,
           UNCHANGED <<wallet, leverage, exit, netPnl, todo, engineError>>
    PROVE  IInv' /\ Covered
<1>1. /\ EntriesOK(entry, leverage) /\ ExitsOK(exit, entry)
      /\ usedMargin = Total(HeldMargins(entry), MaxEntries)
      /\ AccountOK(wallet, usedMargin, netPnl, entry) /\ usedMargin \in Nat
      /\ leverage \in [Symbols -> Leverages \cup {1}]
  BY DEF IInv, StateOK, AccountOK
<1>2. /\ filling \in EntryIds /\ entry[filling].stage = "filling"
      /\ \A j \in EntryIds : entry[j].stage = "filling" => j = filling
  BY DEF IInv, FillOK
<1>3. /\ entry' = WithoutEntries({filling}) /\ usedMargin' = UsedWithout({filling})
      /\ filling' = 0 /\ step' = "none"
  BY DEF AbandonFill
<1>4. /\ EntriesOK(WithoutEntries({filling}), leverage)
      /\ UsedWithout({filling}) = Total(HeldMargins(WithoutEntries({filling})), MaxEntries)
      /\ UsedWithout({filling}) \in Nat /\ UsedWithout({filling}) <= usedMargin
      /\ Total(Accruals(WithoutEntries({filling})), MaxEntries) = Total(Accruals(entry), MaxEntries)
  <2>1. \A i \in EntryIds : i \in {filling} => entry[i].stage # "filled"
    BY <1>2
  <2> QED BY <1>1, <2>1, Cancelled
<1>5. \A i \in EntryIds : entry'[i] = IF i = filling THEN NoEntry ELSE entry[i]
  BY <1>3 DEF WithoutEntries
<1>6. ExitsOK(exit, entry')
  BY <1>1, <1>2, <1>5, FilledKeepExits
<1>7. FillOK'
  <2>1. \A i \in EntryIds : entry'[i].stage # "filling"
    BY <1>2, <1>5 DEF NoEntry
  <2>2. 0 \notin EntryIds
    BY BoundsAssumption DEF EntryIds
  <2> QED BY <1>3, <2>1, <2>2 DEF FillOK, IInv
<1>8. StateOK(wallet, usedMargin, netPnl, leverage, entry, exit)'
  BY <1>1, <1>3, <1>4, <1>6 DEF StateOK, AccountOK
<1>9. Covered
  BY <1>1, <1>3, <1>4 DEF Covered
<1> QED BY <1>7, <1>8, <1>9 DEF IInv

\* A change of leverage keeps the books, and every position has the leverage of its symbol:
\* there is none where it changes.
LEMMA ChangeLeverageOK ==
    ASSUME IInv, NEW s \in Symbols, NEW l \in Leverages, NEW next, ChangeLeverage(s, l, next),
           UNCHANGED <<wallet, exit, netPnl>>
    PROVE  /\ StateOK(wallet, usedMargin, netPnl, leverage, entry, exit)' /\ Covered
           /\ leverage'[s] = l /\ UNCHANGED <<entry, filling>> /\ todo' \subseteq EntryIds
           /\ \A i \in todo' : entry[i].stage = "pending" /\ entry[i].sym = s
           /\ step' = IF todo' = {} THEN next ELSE "leverage"
<1>1. /\ EntriesOK(entry, leverage) /\ ExitsOK(exit, entry)
      /\ AccountOK(wallet, usedMargin, netPnl, entry) /\ usedMargin \in Nat
      /\ leverage \in [Symbols -> Leverages \cup {1}]
  BY DEF IInv, StateOK, AccountOK
<1>2. /\ ~LeverageLocked(s) /\ leverage' = WithLeverage(s, l)
      /\ todo' = {i \in EntryIds : entry[i].stage = "pending" /\ entry[i].sym = s}
      /\ step' = IF todo' = {} THEN next ELSE "leverage"
      /\ UNCHANGED <<usedMargin, entry, filling>>
  BY DEF ChangeLeverage
<1>3. /\ leverage' \in [Symbols -> Leverages \cup {1}] /\ leverage'[s] = l
      /\ \A t \in Symbols : t # s => leverage'[t] = leverage[t]
  BY <1>1, <1>2 DEF WithLeverage
<1>4. \A i \in EntryIds : ~(entry[i].stage = "filled" /\ entry[i].sym = s)
  BY <1>2 DEF LeverageLocked, Filled
<1>5. EntriesOK(entry', leverage')
  <2>1. ASSUME NEW i \in EntryIds PROVE EntryOK(entry[i], leverage')
    <3>1. EntryOK(entry[i], leverage) /\ entry[i].sym \in Symbols
      BY <1>1 DEF EntriesOK, EntryOK, Entries
    <3> QED BY <1>3, <1>4, <3>1 DEF EntryOK
  <2> QED BY <1>1, <1>2, <2>1 DEF EntriesOK
<1>6. StateOK(wallet, usedMargin, netPnl, leverage, entry, exit)'
  BY <1>1, <1>2, <1>3, <1>5 DEF StateOK, AccountOK
<1>7. Covered
  BY <1>1, <1>2 DEF Covered
<1> QED BY <1>2, <1>3, <1>6, <1>7

\* AdjustLeverageOf keeps the invariant.
LEMMA AdjustLeverageOfStep ==
    ASSUME IInv, NEW s \in Symbols, NEW l \in Leverages, AdjustLeverageOf(s, l)
    PROVE  IInv' /\ Covered
<1>1. Idle /\ ChangeLeverage(s, l, "none") /\ UNCHANGED <<wallet, exit, netPnl, engineError>>
  BY DEF AdjustLeverageOf
<1>2. filling = 0
  BY <1>1, IdleIs
<1>3. /\ StateOK(wallet, usedMargin, netPnl, leverage, entry, exit)' /\ Covered
      /\ leverage'[s] = l /\ UNCHANGED <<entry, filling>> /\ todo' \subseteq EntryIds
      /\ \A i \in todo' : entry[i].stage = "pending" /\ entry[i].sym = s
      /\ step' \in {"none", "leverage"}
  BY <1>1, ChangeLeverageOK
<1>4. FillOK'
  BY <1>1, <1>2, <1>3 DEF FillOK, IInv
<1> QED BY <1>3, <1>4 DEF IInv

\* AdjustLeverage keeps the invariant.
LEMMA AdjustLeverageStep ==
    ASSUME IInv, AdjustLeverage PROVE IInv' /\ Covered
<1> DEFINE e == entry[filling]
<1>1. /\ filling # 0 /\ step = "reverse" /\ Opposite(filling) = {}
      /\ UNCHANGED <<wallet, exit, netPnl, engineError>>
  BY DEF AdjustLeverage
<1>2. /\ filling \in EntryIds /\ e.stage = "filling" /\ EntryOK(e, leverage)
      /\ e.sym \in Symbols /\ e.lev \in Leverages
      /\ EntriesOK(entry, leverage) /\ ExitsOK(exit, entry)
      /\ AccountOK(wallet, usedMargin, netPnl, entry) /\ usedMargin \in Nat
      /\ leverage \in [Symbols -> Leverages \cup {1}]
  BY <1>1 DEF IInv, FillOK, StateOK, EntriesOK, EntryOK, Entries, AccountOK
<1>3. \A i \in EntryIds : entry[i].stage = "filled" /\ entry[i].sym = e.sym => entry[i].dir = e.dir
  BY <1>1 DEF Opposite, Filled
<1>4. CASE /\ leverage[e.sym] = e.lev /\ step' = "admit"
           /\ UNCHANGED <<usedMargin, leverage, entry, filling, todo>>
  <2>1. FillOK'
    BY <1>1, <1>2, <1>3, <1>4 DEF FillOK, IInv
  <2>2. StateOK(wallet, usedMargin, netPnl, leverage, entry, exit)'
    BY <1>1, <1>4 DEF IInv, StateOK, AccountOK
  <2> QED BY <1>2, <1>4, <2>1, <2>2 DEF IInv, Covered
<1>5. CASE AbandonFill /\ UNCHANGED <<leverage, todo>>
  BY <1>1, <1>5, AbandonFillStep
<1>6. CASE ChangeLeverage(e.sym, e.lev, "admit")
  <2>1. /\ StateOK(wallet, usedMargin, netPnl, leverage, entry, exit)' /\ Covered
        /\ leverage'[e.sym] = e.lev /\ UNCHANGED <<entry, filling>> /\ todo' \subseteq EntryIds
        /\ \A i \in todo' : entry[i].stage = "pending" /\ entry[i].sym = e.sym
        /\ step' \in {"admit", "leverage"}
    BY <1>1, <1>2, <1>6, ChangeLeverageOK
  <2>2. FillOK'
    BY <1>1, <1>2, <1>3, <2>1 DEF FillOK, IInv
  <2> QED BY <2>1, <2>2 DEF IInv
<1> QED BY <1>4, <1>5, <1>6 DEF AdjustLeverage

\* Readjust keeps the invariant.
LEMMA ReadjustStep ==
    ASSUME IInv, NEW o \in EntryIds, NEW m \in Margins, NEW allowed \in BOOLEAN,
           Readjust(o, m, allowed)
    PROVE  IInv' /\ Covered
<1> DEFINE lev  == leverage[entry[o].sym]
           free == Decrease(usedMargin, entry[o].margin)
           need == IF entry[o].margin > 0 THEN m ELSE 0
           e    == [entry[o] EXCEPT !.margin = need, !.lev = lev]
<1>1. /\ step = "leverage" /\ o \in todo /\ todo' = todo \ {o}
      /\ step' \in {"none", "admit", "leverage"} /\ (step' = "none" => filling = 0)
      /\ UNCHANGED <<wallet, leverage, exit, netPnl, filling, engineError>>
  BY DEF Readjust
<1>2. /\ filling \in {0} \cup EntryIds /\ lev \in Leverages
      /\ entry[o].stage = "pending" /\ o # filling
  BY <1>1 DEF IInv, FillOK
<1>3. /\ EntriesOK(entry, leverage) /\ ExitsOK(exit, entry) /\ EntryOK(entry[o], leverage)
      /\ usedMargin = Total(HeldMargins(entry), MaxEntries)
      /\ AccountOK(wallet, usedMargin, netPnl, entry)
      /\ usedMargin \in Nat /\ wallet \in Nat /\ m \in Nat
      /\ leverage \in [Symbols -> Leverages \cup {1}]
  BY AmountsAssumption DEF IInv, StateOK, AccountOK, EntriesOK
<1>4. entry[o].margin \in Nat /\ free = usedMargin - entry[o].margin /\ free \in Nat
  BY <1>3, BookTotals, EntryAmounts DEF Decrease
<1>5. \/ entry' = WithoutEntries({o}) /\ usedMargin' = free
      \/ /\ need > 0 => HasEnoughBalance(wallet - free, need)
         /\ entry' = [entry EXCEPT ![o].margin = need, ![o].lev = lev]
         /\ usedMargin' = free + need
  BY DEF Readjust
<1>6. CASE entry' = WithoutEntries({o}) /\ usedMargin' = free
  <2>1. \A i \in EntryIds : i \in {o} => entry[i].stage # "filled"
    BY <1>2
  <2>2. /\ EntriesOK(WithoutEntries({o}), leverage)
        /\ UsedWithout({o}) = Total(HeldMargins(WithoutEntries({o})), MaxEntries)
        /\ UsedWithout({o}) \in Nat /\ UsedWithout({o}) <= usedMargin
        /\ Total(Accruals(WithoutEntries({o})), MaxEntries) = Total(Accruals(entry), MaxEntries)
    BY <1>3, <2>1, Cancelled
  <2>3. \A i \in EntryIds : entry'[i] = IF i = o THEN NoEntry ELSE entry[i]
    BY <1>6 DEF WithoutEntries
  <2>4. UsedWithout({o}) = free
    <3> DEFINE h == [i \in EntryIds |-> IF i \in {o} THEN entry[i].margin ELSE 0]
               z == [i \in EntryIds |-> 0]
    <3>1. /\ MaxEntries \in Nat /\ o \in 1..MaxEntries
          /\ \A i \in 1..MaxEntries : h[i] \in Int /\ z[i] = 0 /\ (i # o => h[i] = z[i])
          /\ h[o] = entry[o].margin
      BY <1>4, BoundsAssumption DEF EntryIds
    <3> HIDE DEF h, z
    <3>2. Total(h, MaxEntries) = Total(z, MaxEntries) + h[o] - z[o]
      BY <3>1, TotalUpdate
    <3>3. Total(z, MaxEntries) = 0
      BY <3>1, TotalZero
    <3>4. Total(h, MaxEntries) = entry[o].margin
      BY <1>4, <3>1, <3>2, <3>3
    <3> QED BY <3>4 DEF h, UsedWithout, ReservedBy
  <2>5. ExitsOK(exit, entry')
    BY <1>2, <1>3, <2>3, FilledKeepExits
  <2>6. FillOK'
    <3>1. /\ NoEntry.stage = "free"
          /\ filling # 0 => filling \in EntryIds /\ entry'[filling] = entry[filling]
      BY <1>2, <2>3 DEF NoEntry
    <3> QED BY <1>1, <1>2, <2>3, <3>1 DEF IInv, FillOK
  <2>7. StateOK(wallet, usedMargin, netPnl, leverage, entry, exit)'
    BY <1>1, <1>3, <1>6, <2>2, <2>4, <2>5 DEF StateOK, AccountOK
  <2>8. Covered
    BY <1>3, <1>6, <2>2, <2>4 DEF Covered
  <2> QED BY <2>6, <2>7, <2>8 DEF IInv
<1>7. CASE /\ need > 0 => HasEnoughBalance(wallet - free, need)
           /\ entry' = [entry EXCEPT ![o].margin = need, ![o].lev = lev]
           /\ usedMargin' = free + need
  <2>1. need \in Nat
    BY <1>3
  <2>2. /\ EntryOK(e, leverage) /\ e.stage = "pending" /\ e.margin = need /\ e.sym = entry[o].sym
    <3> HIDE DEF need, lev
    <3> QED BY <1>2, <1>3, <2>1 DEF EntryOK, Entries
  <2>3. Rewritten(entry', entry, o, e)
    BY <1>3, <1>7 DEF Rewritten, EntriesOK, IsBook, EntryOK, Entries
  <2> HIDE DEF e, need, free
  <2>4. UnfilledOK(leverage, entry, entry', o, e)
    BY <1>2, <1>3, <2>2, <2>3, Unfilled
  <2>5. FillOK'
    <3>1. /\ entry'[o].stage = "pending" /\ entry'[o].sym = entry[o].sym
          /\ \A j \in EntryIds : j # o => entry'[j] = entry[j]
          /\ filling # 0 => filling \in EntryIds /\ entry'[filling] = entry[filling]
      BY <1>2, <2>2, <2>4 DEF UnfilledOK
    <3> QED BY <1>1, <1>2, <3>1 DEF IInv, FillOK
  <2>6. AccountOK(wallet, usedMargin, netPnl, entry)'
    <3>1. Total(HeldMargins(entry'), MaxEntries) = usedMargin + need - entry[o].margin
          /\ Total(Accruals(entry'), MaxEntries) = Total(Accruals(entry), MaxEntries)
      BY <1>3, <2>2, <2>4 DEF UnfilledOK
    <3> QED BY <1>1, <1>3, <1>4, <1>7, <2>1, <3>1 DEF AccountOK
  <2>7. Covered
    BY <1>1, <1>3, <1>4, <1>7, <2>1 DEF Covered, HasEnoughBalance
  <2> QED BY <1>1, <1>3, <2>4, <2>5, <2>6, <2>7 DEF IInv, StateOK, UnfilledOK
<1> QED BY <1>5, <1>6, <1>7

\* Admit keeps the invariant.
LEMMA AdmitStep ==
    ASSUME IInv, NEW m \in Margins, NEW unitFee \in UnitFees, Admit(m, unitFee)
    PROVE  IInv' /\ Covered
<1> DEFINE e    == entry[filling]
           free == Decrease(usedMargin, e.margin)
           fee  == unitFee * e.size
           r    == [e EXCEPT !.stage = "filled", !.margin = m, !.unitFee = unitFee]
<1>1. /\ filling # 0 /\ step = "admit"
      /\ UNCHANGED <<leverage, exit, netPnl, todo, engineError>>
  BY DEF Admit
<1>2. /\ filling \in EntryIds /\ e.stage = "filling" /\ leverage[e.sym] = e.lev
      /\ \A i \in EntryIds : entry[i].stage = "filled" /\ entry[i].sym = e.sym
                                => entry[i].dir = e.dir /\ entry[i].name # e.name
      /\ \A i \in EntryIds : entry[i].stage = "filling" => i = filling
  BY <1>1 DEF IInv, FillOK
<1>3. /\ EntriesOK(entry, leverage) /\ ExitsOK(exit, entry) /\ EntryOK(e, leverage)
      /\ AccountOK(wallet, usedMargin, netPnl, entry)
      /\ usedMargin = Total(HeldMargins(entry), MaxEntries)
      /\ usedMargin \in Nat /\ wallet \in Nat /\ m \in Nat /\ unitFee \in Nat /\ netPnl \in Int
      /\ InitialBalance \in Nat
      /\ leverage \in [Symbols -> Leverages \cup {1}]
  BY <1>2, AmountsAssumption DEF IInv, StateOK, AccountOK, EntriesOK
<1>4. /\ e.margin \in Nat /\ e.size \in Nat /\ e.exited = 0 /\ e.funding = 0 /\ e \in Entries
      /\ e.exited < e.size
  BY <1>2, <1>3 DEF EntryOK, Entries
<1>5. free = usedMargin - e.margin /\ free \in Nat /\ fee \in Nat
  BY <1>2, <1>3, <1>4, BookTotals DEF Decrease
<1>6. CASE AbandonFill /\ UNCHANGED wallet
  BY <1>1, <1>6, AbandonFillStep
<1>7. CASE /\ HasEnoughBalance(wallet - free, m + fee)
           /\ wallet' = wallet - fee /\ usedMargin' = free + m
           /\ entry' = [entry EXCEPT ![filling] = r]
           /\ filling' = 0 /\ step' = "none"
  <2>1. /\ r.stage = "filled" /\ r.sym = e.sym /\ r.name = e.name /\ r.dir = e.dir
        /\ r.lev = e.lev /\ r.size = e.size /\ r.exited = 0 /\ r.funding = 0
        /\ r.margin = m /\ r.unitFee = unitFee
    BY <1>4 DEF Entries
  <2>2. r \in Entries
    BY <1>3, <1>4 DEF Entries
  <2>3. EntryOK(r, leverage)
    <3> HIDE DEF r
    <3> QED BY <1>2, <1>4, <2>1, <2>2 DEF EntryOK
  <2>4. /\ IsBook(entry') /\ entry'[filling] = r
        /\ \A i \in EntryIds : i # filling => entry'[i] = entry[i]
    BY <1>2, <1>3, <1>7 DEF EntriesOK, IsBook
  <2> HIDE DEF r
  <2>5. EntriesOK(entry', leverage)
    <3>1. \A i \in EntryIds : i # filling => Compatible(entry'[filling], entry[i])
      BY <1>2, <2>1, <2>4 DEF Compatible
    <3> QED BY <1>2, <1>3, <2>3, <2>4, <3>1, SlotEntriesOK
  <2>6. /\ Total(HeldMargins(entry'), MaxEntries)
             = Total(HeldMargins(entry), MaxEntries) + entry'[filling].margin - e.margin
        /\ Total(Accruals(entry'), MaxEntries)
             = Total(Accruals(entry), MaxEntries) + Unreported(entry'[filling]) - Unreported(e)
    <3>1. \A i \in EntryIds : EntryOK(entry'[i], leverage) /\ (i # filling => entry'[i] = entry[i])
      BY <2>4, <2>5 DEF EntriesOK
    <3> QED BY <1>2, <1>3, <3>1, SlotTotals
  <2>7. Unreported(e) = 0 /\ Unreported(entry'[filling]) = -fee
    <3>1. Unreported(e) = 0
      BY <1>2 DEF Unreported
    <3>2. Unreported(entry'[filling]) = 0 - unitFee * (e.size - 0)
      BY <2>1, <2>4 DEF Unreported, Remaining
    <3> QED BY <1>3, <1>4, <3>1, <3>2
  <2>8. ExitsOK(exit, entry')
    BY <1>2, <1>3, <2>4, FilledKeepExits
  <2> HIDE DEF fee, free
  <2>9. wallet' \in Nat /\ usedMargin' <= wallet'
    BY <1>3, <1>5, <1>7 DEF HasEnoughBalance
  <2>10. AccountOK(wallet', usedMargin', netPnl', entry')
    <3>1. Total(Accruals(entry), MaxEntries) \in Int
          /\ wallet = InitialBalance + netPnl + Total(Accruals(entry), MaxEntries)
      BY <1>3, BookTotals DEF AccountOK
    <3>2. wallet' = InitialBalance + netPnl' + Total(Accruals(entry'), MaxEntries)
      BY <1>1, <1>3, <1>5, <1>7, <2>6, <2>7, <3>1
    <3>3. usedMargin' = Total(HeldMargins(entry'), MaxEntries) /\ usedMargin' \in Nat
      BY <1>3, <1>4, <1>5, <1>7, <2>1, <2>4, <2>6
    <3> QED BY <1>1, <1>3, <2>9, <3>2, <3>3 DEF AccountOK
  <2>11. FillOK'
    <3>1. \A i \in EntryIds : entry'[i].stage # "filling"
      BY <1>2, <2>1, <2>4
    <3>2. 0 \notin EntryIds
      BY BoundsAssumption DEF EntryIds
    <3> QED BY <1>1, <1>7, <3>1, <3>2 DEF FillOK, IInv
  <2> QED BY <1>1, <1>3, <2>5, <2>8, <2>9, <2>10, <2>11 DEF IInv, StateOK, Covered
<1> QED BY <1>6, <1>7 DEF Admit

-----------------------------------------------------------------------------
(* The theorems.                                                           *)

\* The invariant holds initially.
LEMMA InitIInv == Init => IInv
<1> SUFFICES ASSUME Init PROVE IInv
  OBVIOUS
<1>1. /\ \A i \in EntryIds : entry[i] = NoEntry
      /\ \A x \in ExitIds : exit[x] = NoExit
      /\ NoEntry.stage = "free" /\ NoEntry.margin = 0 /\ Unreported(NoEntry) = 0
  BY DEF Init, NoEntry, Unreported
<1>2. EntriesOK(entry, leverage)
  BY <1>1, NoEntryOK DEF Init, EntriesOK, IsBook, Compatible
<1>3. ExitsOK(exit, entry)
  BY <1>1, NoExitOK DEF Init, ExitsOK
<1>4. /\ MaxEntries \in Nat /\ \A i \in 1..MaxEntries : HeldMargins(entry)[i] = 0 /\ Accruals(entry)[i] = 0
  BY <1>1, BoundsAssumption DEF HeldMargins, Accruals, EntryIds
<1>5. Total(HeldMargins(entry), MaxEntries) = 0 /\ Total(Accruals(entry), MaxEntries) = 0
  BY <1>4, TotalZero
<1>6. AccountOK(wallet, usedMargin, netPnl, entry)
  BY <1>5, AmountsAssumption DEF Init, AccountOK
<1>7. leverage \in [Symbols -> Leverages \cup {1}]
  BY DEF Init
<1>8. FillOK
  <2>1. 0 \notin EntryIds
    BY BoundsAssumption DEF EntryIds
  <2> QED BY <1>1, <2>1 DEF Init, FillOK
<1> QED BY <1>2, <1>3, <1>6, <1>7, <1>8 DEF IInv, StateOK

\* Every step keeps the invariant and raises the used margin only as far as the wallet covers it.
LEMMA NextIInv == ASSUME NoReuse, IInv, Next PROVE IInv' /\ Covered
<1>1. CASE Order
  BY <1>1, CancelEntryStep, PlaceEntryStep, LimitEntryStep, MarketEntryNowStep, PlaceExitStep,
     MarketExitNowStep, IncreaseMarginStep DEF Order
<1>2. CASE Cancelling
  BY <1>2, CancelAllStep, CloseAllStep, CancelExitStep DEF Cancelling
<1>3. CASE Market
  BY <1>3, StartFillStep, OrderPendingLitEntryStep, FillLiquidationStep, ExecuteFundingStep,
     FillPendingExitOrderStep DEF Market, FillPendingMarketEntry, FillPendingLimitEntry
<1>4. CASE Filling
  BY <1>4, ReverseExitStep, AdjustLeverageStep, ReadjustStep, AdmitStep DEF Filling
<1>5. CASE Leveraging
  BY <1>5, AdjustLeverageOfStep DEF Leveraging
<1> QED BY <1>1, <1>2, <1>3, <1>4, <1>5 DEF Next

\* A stuttering step keeps the invariant.
LEMMA Stutter == ASSUME IInv, UNCHANGED vars PROVE IInv' /\ Covered
<1>1. usedMargin \in Nat
  BY DEF IInv, StateOK, AccountOK
<1> QED BY <1>1 DEF vars, IInv, FillOK, StateOK, Covered

\* IInv is inductive.
THEOREM Inductive == ASSUME NoReuse PROVE Spec => []IInv
<1>1. IInv /\ [Next]_vars => IInv'
  BY NextIInv, Stutter
<1> QED BY <1>1, InitIInv, PTL DEF Spec

\* No operation of the handler takes an amount, an order or a marker of a fill out
\* of its domain: in particular neither the wallet nor the used margin goes negative.
THEOREM TypeCorrect == ASSUME NoReuse PROVE Spec => []TypeOK
<1>1. IInv => TypeOK
  BY DEF IInv, StateOK, EntriesOK, IsBook, EntryOK, ExitsOK, ExitOK, AccountOK, FillOK, TypeOK
<1> QED BY <1>1, Inductive, PTL

\* The used margin is what the entries reserve or hold, after any sequence of
\* orders, fills, partial exits, fundings, liquidations and cancellations.
THEOREM MarginConserved == ASSUME NoReuse PROVE Spec => []MarginConservation
<1>1. IInv => MarginConservation
  BY DEF IInv, StateOK, AccountOK, MarginConservation
<1> QED BY <1>1, Inductive, PTL

\* The trades and the open positions explain every change of the wallet.
THEOREM PnlConserved == ASSUME NoReuse PROVE Spec => []PnlConservation
<1>1. IInv => PnlConservation
  BY DEF IInv, StateOK, AccountOK, PnlConservation
<1> QED BY <1>1, Inductive, PTL

\* A pending exit never outlives its entry, and is never out of date.
THEOREM ExitsTrack == ASSUME NoReuse PROVE Spec => []ExitsTrackEntries
<1>1. IInv => ExitsTrackEntries
  BY DEF IInv, StateOK, ExitsOK, ExitOK, Tracks, ExitsTrackEntries, FilledNamed
<1> QED BY <1>1, Inductive, PTL

\* No fill leaves two filled entries of a symbol facing each other.
THEOREM OneSideOnly == ASSUME NoReuse PROVE Spec => []OneSide
<1>1. IInv => OneSide
  BY DEF IInv, StateOK, EntriesOK, Compatible, OneSide
<1> QED BY <1>1, Inductive, PTL

\* No fill and no adjustment of the leverage leaves a filled entry with another
\* leverage than its symbol's.
THEOREM OneLeverageOnly == ASSUME NoReuse PROVE Spec => []OneLeverage
<1>1. IInv => OneLeverage
  BY DEF IInv, StateOK, EntriesOK, EntryOK, OneLeverage
<1> QED BY <1>1, Inductive, PTL

\* The name of a filled entry denotes one position.
THEOREM FilledNamesDiffer == ASSUME NoReuse PROVE Spec => []FilledNamesUnique
<1>1. IInv => FilledNamesUnique
  BY DEF IInv, StateOK, EntriesOK, Compatible, FilledNamesUnique
<1> QED BY <1>1, Inductive, PTL

\* The used margin only rises as far as the wallet covers it.
THEOREM MarginAlwaysCovered == ASSUME NoReuse PROVE Spec => MarginCovered
<1>1. IInv /\ [Next]_vars => [usedMargin' > usedMargin => usedMargin' <= wallet']_vars
  BY NextIInv, Stutter DEF Covered
<1>2. Spec => []IInv /\ [][Next]_vars
  BY Inductive, PTL DEF Spec
<1> QED BY <1>1, <1>2, PTL DEF MarginCovered

-----------------------------------------------------------------------------
(* The names of the orders that wait: an order that is placed cancels the  *)
(* one of its name, and nothing else makes an order wait.                  *)

\* Orders that wait in both books have kept their symbol and name.
KeepsEntry(e, f) == f.stage = "pending" => e.stage = "pending" /\ e.sym = f.sym /\ e.name = f.name
KeepsEntries(ent, ent2) == \A i \in EntryIds : KeepsEntry(ent[i], ent2[i])
KeepsExits(exs, exs2)   == \A x \in ExitIds : KeepsEntry(exs[x], exs2[x])

EntryNamesUnique(ent) ==
    \A i, j \in EntryIds :
        ent[i].stage = "pending" /\ ent[j].stage = "pending"
        /\ ent[i].sym = ent[j].sym /\ ent[i].name = ent[j].name => i = j

ExitNamesUnique(exs) ==
    \A x, y \in ExitIds :
        exs[x].stage = "pending" /\ exs[y].stage = "pending"
        /\ exs[x].sym = exs[y].sym /\ exs[x].name = exs[y].name => x = y

\* The books are functions to orders.
Books == entry \in [EntryIds -> Entries] /\ exit \in [ExitIds -> Exits]

\* The invariant has the books hold orders.
LEMMA BooksTyped == IInv => Books
BY DEF IInv, StateOK, EntriesOK, IsBook, EntryOK, ExitsOK, ExitOK, Books

\* Which entries and exits a step may make wait.
Waits(i, s, n) ==
    \A j \in EntryIds \ {i} : KeepsEntry(entry[j], entry'[j])
                              /\ (entry'[j].stage = "pending" => ~(entry'[j].sym = s /\ entry'[j].name = n))

ExitWaits(x, s, n) ==
    \A y \in ExitIds \ {x} : KeepsEntry(exit[y], exit'[y])
                             /\ (exit'[y].stage = "pending" => ~(exit'[y].sym = s /\ exit'[y].name = n))

\* Names stay different when no entry begins to wait.
LEMMA KeepingEntries ==
    ASSUME EntryNamesUnique(entry), KeepsEntries(entry, entry')
    PROVE  EntryNamesUnique(entry')
BY DEF EntryNamesUnique, KeepsEntries, KeepsEntry

\* So do those of exits.
LEMMA KeepingExits ==
    ASSUME ExitNamesUnique(exit), KeepsExits(exit, exit')
    PROVE  ExitNamesUnique(exit')
BY DEF ExitNamesUnique, KeepsExits, KeepsEntry

\* They do as well when the one entry that begins to wait has a name of its own.
LEMMA Waiting ==
    ASSUME EntryNamesUnique(entry), NEW i \in EntryIds, Waits(i, entry'[i].sym, entry'[i].name)
    PROVE  EntryNamesUnique(entry')
BY DEF EntryNamesUnique, Waits, KeepsEntry

\* And so with exits.
LEMMA ExitWaiting ==
    ASSUME ExitNamesUnique(exit), NEW x \in ExitIds, ExitWaits(x, exit'[x].sym, exit'[x].name)
    PROVE  ExitNamesUnique(exit')
BY DEF ExitNamesUnique, ExitWaits, KeepsEntry

\* An order that is not there does not wait.
LEMMA FreeOrders == NoEntry.stage = "free" /\ NoExit.stage = "free"
BY DEF NoEntry, NoExit

\* What cancelling leaves.
LEMMA Cancelling1 ==
    ASSUME NEW S
    PROVE  KeepsEntries(entry, WithoutEntries(S))
BY FreeOrders DEF KeepsEntries, KeepsEntry, WithoutEntries

\* And what it leaves of exits.
LEMMA Cancelling2 ==
    ASSUME NEW S
    PROVE  KeepsExits(exit, WithoutExits(S))
BY FreeOrders DEF KeepsExits, KeepsEntry, WithoutExits

\* Entries that are left alone are kept.
LEMMA SameEntries == KeepsEntries(entry, entry)
BY DEF KeepsEntries, KeepsEntry

\* And exits.
LEMMA SameExits == KeepsExits(exit, exit)
BY DEF KeepsExits, KeepsEntry

\* The amounts of exits that follow their entry change nothing of who waits.
LEMMA Syncing ==
    ASSUME NEW exs \in [ExitIds -> Exits], NEW f, NEW m, NEW a
    PROVE  KeepsExits(exs, SyncExits(exs, f, m, a))
BY DEF KeepsExits, KeepsEntry, SyncExits, Exits

\* Exits that are dropped with their entry no longer wait.
LEMMA Dropping ==
    ASSUME NEW exs \in [ExitIds -> Exits], NEW s, NEW n
    PROVE  KeepsExits(exs, DropExits(exs, s, n)) /\ DropExits(exs, s, n) \in [ExitIds -> Exits]
<1>1. \A x \in ExitIds : NoExit \in Exits
  BY NoExitOK DEF ExitOK
<1> QED BY <1>1, FreeOrders DEF KeepsExits, KeepsEntry, DropExits

-----------------------------------------------------------------------------
(* Exits that execute.                                                     *)

\* What an exit may do to the books ent and exs it is given.
Kept(ent, exs) == KeepsEntries(ent, entry') /\ KeepsExits(exs, exit')

\* An exit that is executed brings no order to wait that did not.
LEMMA ExecuteExitKeeps ==
    ASSUME NEW ent \in [EntryIds -> Entries], NEW exs \in [ExitIds -> Exits],
           NEW w, NEW u, NEW e, NEW q, NEW margin, NEW funding, NEW fee, NEW profit, NEW lf,
           ExecuteExit(w, u, ent, exs, e, q, margin, funding, fee, profit, lf)
    PROVE  Throw \/ Kept(ent, exs)
<1>1. PICK f, open, part, share, left :
        /\ open = FilledNamed(ent, e.sym, e.name) /\ f = Some(open)
        /\ \/ Throw
           \/ /\ entry' = IF open = {} THEN ent
                          ELSE [ent EXCEPT ![f].margin = margin - part, ![f].funding = @ - share]
              /\ exit' = IF open = {} THEN exs ELSE SyncExits(exs, e, margin - part, left)
  BY DEF ExecuteExit
<1>2. CASE open = {} /\ entry' = ent /\ exit' = exs
  BY <1>2 DEF Kept, KeepsEntries, KeepsExits, KeepsEntry
<1>3. CASE /\ open # {}
           /\ entry' = [ent EXCEPT ![f].margin = margin - part, ![f].funding = @ - share]
           /\ exit' = SyncExits(exs, e, margin - part, left)
  <2>1. f \in EntryIds
    BY <1>1, <1>3, SomeIn DEF FilledNamed
  <2>2. KeepsEntries(ent, entry')
    BY <1>3, <2>1 DEF KeepsEntries, KeepsEntry, Entries
  <2>3. KeepsExits(exs, exit')
    BY <1>3, Syncing
  <2> QED BY <2>2, <2>3 DEF Kept
<1> QED BY <1>1, <1>2, <1>3

\* Nor does the exit of an entry, whole or in part.
LEMMA ExitEntryKeeps ==
    ASSUME NEW ent \in [EntryIds -> Entries], NEW exs \in [ExitIds -> Exits], NEW i \in EntryIds,
           NEW w, NEW u, NEW q \in Nat, NEW margin, NEW funding, NEW fee, NEW profit, NEW lf,
           ExitEntry(w, u, ent, i, exs, q, margin, funding, fee, profit, lf)
    PROVE  Throw \/ Kept(ent, exs)
<1>1. CASE ent[i].exited + q = ent[i].size
  <2>1. PICK new : new = [ent EXCEPT ![i] = NoEntry]
    OBVIOUS
  <2>2. NoEntry \in Entries
    BY NoEntryOK DEF EntryOK
  <2>3. new \in [EntryIds -> Entries] /\ KeepsEntries(ent, new)
    BY <2>1, <2>2, FreeOrders DEF KeepsEntries, KeepsEntry
  <2>4. PICK kept : kept = DropExits(exs, ent[i].sym, ent[i].name)
    OBVIOUS
  <2>5. kept \in [ExitIds -> Exits] /\ KeepsExits(exs, kept)
    BY <2>4, Dropping
  <2>6. Throw \/ Kept(new, kept)
    BY <1>1, <2>1, <2>3, <2>4, <2>5, ExecuteExitKeeps DEF ExitEntry
  <2> QED BY <2>3, <2>5, <2>6 DEF Kept, KeepsEntries, KeepsExits, KeepsEntry
<1>2. CASE ent[i].exited + q # ent[i].size
  <2>1. PICK new : new = [ent EXCEPT ![i].exited = @ + q]
    OBVIOUS
  <2>2. new \in [EntryIds -> Entries] /\ KeepsEntries(ent, new)
    BY <2>1 DEF KeepsEntries, KeepsEntry, Entries
  <2>3. Throw \/ Kept(new, exs)
    BY <1>2, <2>1, <2>2, ExecuteExitKeeps DEF ExitEntry
  <2> QED BY <2>2, <2>3 DEF Kept, KeepsEntries, KeepsEntry
<1> QED BY <1>1, <1>2

\* From the books as they are, or cancelled.
LEMMA ExitStepKeeps ==
    ASSUME Books, NEW ent \in [EntryIds -> Entries], NEW exs \in [ExitIds -> Exits],
           KeepsEntries(entry, ent), KeepsExits(exit, exs), NEW i \in EntryIds,
           NEW w, NEW u, NEW q \in Nat, NEW margin, NEW funding, NEW fee, NEW profit, NEW lf,
           ExitEntry(w, u, ent, i, exs, q, margin, funding, fee, profit, lf)
    PROVE  Kept(entry, exit)
<1>1. CASE Throw
  BY <1>1 DEF Throw, Kept, KeepsEntries, KeepsExits, KeepsEntry
<1>2. CASE Kept(ent, exs)
  BY <1>2 DEF Kept, KeepsEntries, KeepsExits, KeepsEntry
<1> QED BY <1>1, <1>2, ExitEntryKeeps

\* Nor does closing an entry with whatever is left of it.
LEMMA CloseStepKeeps ==
    ASSUME Books, NEW ent \in [EntryIds -> Entries], NEW exs \in [ExitIds -> Exits],
           KeepsEntries(entry, ent), KeepsExits(exit, exs), NEW i \in EntryIds,
           Remaining(ent[i]) \in Nat, NEW w, NEW u, NEW fee, NEW profit, NEW lf,
           CloseEntry(w, u, ent, i, exs, fee, profit, lf)
    PROVE  Kept(entry, exit)
BY ExitStepKeeps DEF CloseEntry

\* What is left of an entry is a number of units.
LEMMA Left ==
    ASSUME IInv, NEW i \in EntryIds, entry[i].stage = "filled"
    PROVE  Remaining(entry[i]) \in Nat
BY DEF IInv, StateOK, EntriesOK, EntryOK, Entries, Remaining

\* Of an exit asked for a number of units.
LEMMA LeftOf ==
    ASSUME IInv, NEW i \in EntryIds, entry[i].stage = "filled", NEW q \in Nat
    PROVE  GetAdjustedExitSize(q, entry[i]) \in Nat
BY Left DEF GetAdjustedExitSize

\* Orders that are cancelled leave slots without an order.
LEMMA CancelledBooks ==
    ASSUME Books, NEW S
    PROVE  WithoutEntries(S) \in [EntryIds -> Entries] /\ WithoutExits(S) \in [ExitIds -> Exits]
<1>1. NoEntry \in Entries /\ (\A x \in ExitIds : NoExit \in Exits)
  BY NoEntryOK, NoExitOK DEF EntryOK, ExitOK
<1> QED BY <1>1 DEF Books, WithoutEntries, WithoutExits

-----------------------------------------------------------------------------
(* The steps that only cancel, fill or exit.                               *)

\* What a strategy cancels brings no order to wait.
LEMMA CancelKeeps ==
    ASSUME NEW s, NEW n, CancelEntry(s, n) \/ CancelExit(s, n) \/ CancelAll(s)
    PROVE  Kept(entry, exit)
<1>1. CASE CancelEntry(s, n)
  BY <1>1, Cancelling1, SameExits DEF CancelEntry, Kept
<1>2. CASE CancelExit(s, n)
  BY <1>2, Cancelling2, SameEntries DEF CancelExit, Kept
<1>3. CASE CancelAll(s)
  BY <1>3, Cancelling1, Cancelling2 DEF CancelAll, Kept
<1> QED BY <1>1, <1>2, <1>3

\* An exit at market that is filled at once brings none.
LEMMA MarketExitNowKeeps ==
    ASSUME IInv, NEW s, NEW xn, NEW n, NEW q \in Nat, NEW fee, NEW p, MarketExitNow(s, xn, n, q, fee, p)
    PROVE  Kept(entry, exit)
<1>1. PICK i : i = Some(FilledNamed(entry, s, n))
  OBVIOUS
<1>2. i \in EntryIds /\ entry[i].stage = "filled"
  BY <1>1, SomeIn DEF MarketExitNow, FilledNamed
<1>3. ExitEntry(wallet, usedMargin, entry, i, WithoutExits(ExitsNamed(s, xn)),
                GetAdjustedExitSize(q, entry[i]), entry[i].margin, entry[i].funding, fee, p, 0)
  BY <1>1 DEF MarketExitNow
<1>4. Books /\ WithoutExits(ExitsNamed(s, xn)) \in [ExitIds -> Exits]
  BY BooksTyped, CancelledBooks
<1> QED BY <1>2, <1>3, <1>4, LeftOf, ExitStepKeeps, SameEntries, Cancelling2 DEF Books

\* A pending exit that is filled brings none.
LEMMA FillPendingExitOrderKeeps ==
    ASSUME IInv, NEW x \in ExitIds, NEW fee, NEW p, FillPendingExitOrder(x, fee, p)
    PROVE  Kept(entry, exit)
<1>1. PICK i : i = Some(FilledNamed(entry, exit[x].sym, exit[x].target))
  OBVIOUS
<1>2. i \in EntryIds /\ entry[i].stage = "filled"
  BY <1>1, SomeIn DEF FillPendingExitOrder, FilledNamed
<1>3. ExitEntry(wallet, usedMargin, entry, i, WithoutExits({x}),
                GetAdjustedExitSize(exit[x].size, entry[i]), exit[x].margin, exit[x].funding, fee, p, 0)
  BY <1>1 DEF FillPendingExitOrder
<1>4. Books /\ WithoutExits({x}) \in [ExitIds -> Exits] /\ exit[x].size \in Nat
  BY BooksTyped, CancelledBooks DEF Books, Exits
<1> QED BY <1>2, <1>3, <1>4, LeftOf, ExitStepKeeps, SameEntries, Cancelling2 DEF Books

\* A liquidation brings none.
LEMMA FillLiquidationKeeps ==
    ASSUME IInv, NEW i \in EntryIds, NEW fee, NEW p, NEW lf, FillLiquidation(i, fee, p, lf)
    PROVE  Kept(entry, exit)
<1>1. entry[i].stage = "filled" /\ CloseEntry(wallet, usedMargin, entry, i, exit, fee, p, lf) /\ Books
  BY BooksTyped DEF FillLiquidation
<1> QED BY <1>1, Left, CloseStepKeeps, SameEntries, SameExits DEF Books

\* The exit of an opposite position brings none.
LEMMA ReverseExitKeeps ==
    ASSUME IInv, NEW o \in EntryIds, NEW fee, NEW p, ReverseExit(o, fee, p)
    PROVE  Kept(entry, exit)
<1>1. CASE Throw
  BY <1>1 DEF Throw, Kept, KeepsEntries, KeepsExits, KeepsEntry
<1>2. CASE CloseEntry(wallet, usedMargin, entry, o, exit, fee, p, 0)
  <2>1. entry[o].stage = "filled" /\ Books
    BY BooksTyped DEF ReverseExit, Opposite, Filled
  <2> QED BY <1>2, <2>1, Left, CloseStepKeeps, SameEntries, SameExits DEF Books
<1> QED BY <1>1, <1>2 DEF ReverseExit

\* Funding brings none, whether it liquidates or not.
LEMMA ExecuteFundingKeeps ==
    ASSUME IInv, NEW i \in EntryIds, NEW rate \in Int, NEW maintained, NEW fee, NEW p, NEW lf,
           ExecuteFunding(i, rate, maintained, fee, p, lf)
    PROVE  Kept(entry, exit)
<1>0. Books /\ entry[i].stage = "filled" /\ Remaining(entry[i]) \in Nat
  BY BooksTyped, Left DEF ExecuteFunding
<1>1. PICK amount, used, exits :
        /\ amount = (IF rate < 0 /\ -rate > entry[i].margin THEN -entry[i].margin ELSE rate)
        /\ exits = (IF amount = 0 THEN exit
                    ELSE SyncExits(exit, entry[i], entry[i].margin + amount, entry[i].funding + amount))
        /\ \/ Throw
           \/ entry' = FundedEntry(i, amount) /\ exit' = exits
           \/ CloseEntry(wallet + amount, used, FundedEntry(i, amount), i, exits, fee, p, lf)
  BY DEF ExecuteFunding
<1>2. PICK funded : funded = FundedEntry(i, amount)
  OBVIOUS
<1>3. KeepsEntries(entry, funded) /\ Remaining(funded[i]) \in Nat
  BY <1>0, <1>2 DEF Books, FundedEntry, KeepsEntries, KeepsEntry, Entries, Remaining
<1>4. KeepsExits(exit, exits)
  BY <1>0, <1>1, Syncing, SameExits DEF Books
<1>5. CASE Throw
  BY <1>5 DEF Throw, Kept, KeepsEntries, KeepsExits, KeepsEntry
<1>6. CASE entry' = funded /\ exit' = exits
  BY <1>3, <1>4, <1>6 DEF Kept
<1>7. CASE CloseEntry(wallet + amount, used, funded, i, exits, fee, p, lf)
  <2>1. entry[i].margin \in Nat /\ entry[i].funding \in Int
    BY <1>0 DEF Books, Entries
  <2>2. entry[i].margin + amount \in Nat /\ entry[i].funding + amount \in Int
    BY <1>1, <2>1
  <2>3. funded \in [EntryIds -> Entries]
    <3>1. PICK e : e = [entry[i] EXCEPT !.margin = entry[i].margin + amount,
                                        !.funding = entry[i].funding + amount]
      OBVIOUS
    <3>2. entry[i] \in Entries
      BY <1>0 DEF Books
    <3>3. e \in Entries
      BY <2>2, <3>1, <3>2 DEF Entries
    <3>4. funded = [entry EXCEPT ![i] = e]
      BY <1>0, <1>2, <3>1, <3>2 DEF Books, FundedEntry, Entries
    <3> QED BY <1>0, <3>3, <3>4 DEF Books
  <2>4. exits \in [ExitIds -> Exits]
    <3>1. SyncExits(exit, entry[i], entry[i].margin + amount, entry[i].funding + amount)
            \in [ExitIds -> Exits]
      BY <1>0, <2>2 DEF Books, SyncExits, Exits
    <3> QED BY <1>0, <1>1, <3>1 DEF Books
  <2> QED BY <1>0, <1>3, <1>4, <1>7, <2>3, <2>4, CloseStepKeeps
<1> QED BY <1>1, <1>2, <1>5, <1>6, <1>7

\* Margin added to a position brings none.
LEMMA IncreaseMarginKeeps ==
    ASSUME IInv, NEW s, NEW n, NEW m, IncreaseMargin(s, n, m)
    PROVE  Kept(entry, exit)
<1>1. PICK i : i = Some(FilledNamed(entry, s, n))
  OBVIOUS
<1>2. i \in EntryIds /\ Books
  BY <1>1, SomeIn, BooksTyped DEF IncreaseMargin, FilledNamed
<1>3. entry' = [entry EXCEPT ![i].margin = @ + m]
      /\ exit' = SyncExits(exit, entry[i], entry[i].margin + m, entry[i].funding)
  BY <1>1 DEF IncreaseMargin
<1>4. KeepsEntries(entry, entry')
  BY <1>2, <1>3 DEF Books, KeepsEntries, KeepsEntry, Entries
<1> QED BY <1>2, <1>3, <1>4, Syncing DEF Kept, Books

\* A touched LIT entry waits on, under its name.
LEMMA OrderPendingLitEntryKeeps ==
    ASSUME IInv, NEW i \in EntryIds, NEW m, OrderPendingLitEntry(i, m)
    PROVE  Kept(entry, exit)
<1>1. KeepsExits(exit, exit') /\ Books
  BY SameExits, BooksTyped DEF OrderPendingLitEntry
<1>2. CASE entry' = WithoutEntries({i})
  BY <1>1, <1>2, Cancelling1 DEF Kept
<1>3. CASE entry' = [entry EXCEPT ![i].margin = m]
  BY <1>1, <1>3 DEF Books, Kept, KeepsEntries, KeepsEntry, Entries
<1> QED BY <1>2, <1>3 DEF OrderPendingLitEntry

\* An entry whose fill begins no longer waits.
LEMMA StartFillKeeps ==
    ASSUME IInv, NEW i \in EntryIds, StartFill(i)
    PROVE  Kept(entry, exit)
<1>1. KeepsExits(exit, exit') /\ Books
  BY SameExits, BooksTyped DEF StartFill
<1>2. CASE entry' = WithoutEntries({i})
  BY <1>1, <1>2, Cancelling1 DEF Kept
<1>3. CASE entry' = [entry EXCEPT ![i].stage = "filling"]
  BY <1>1, <1>3 DEF Books, Kept, KeepsEntries, KeepsEntry, Entries
<1> QED BY <1>2, <1>3 DEF StartFill

\* The steps of a fill, and a change of leverage, bring no order to wait.
LEMMA FillingKeeps ==
    ASSUME IInv, NEW m, NEW allowed, NEW o,
           AdjustLeverage \/ AdjustLeverageOf(m, allowed) \/ Readjust(o, m, allowed) \/ Admit(m, allowed)
    PROVE  Kept(entry, exit)
<1>1. KeepsExits(exit, exit') /\ Books /\ todo \subseteq EntryIds /\ filling \in {0} \cup EntryIds
  BY SameExits, BooksTyped DEF AdjustLeverage, AdjustLeverageOf, Readjust, Admit, IInv, FillOK
<1>2. CASE AdjustLeverage
  BY <1>1, <1>2, Cancelling1, SameEntries DEF AdjustLeverage, ChangeLeverage, AbandonFill, Kept
<1>3. CASE Readjust(o, m, allowed)
  <2>1. PICK need, lev : entry' = WithoutEntries({o})
                         \/ entry' = [entry EXCEPT ![o].margin = need, ![o].lev = lev]
    BY <1>3 DEF Readjust
  <2>2. o \in EntryIds
    BY <1>1, <1>3 DEF Readjust
  <2>3. CASE entry' = [entry EXCEPT ![o].margin = need, ![o].lev = lev]
    BY <1>1, <2>2, <2>3 DEF Books, Kept, KeepsEntries, KeepsEntry, Entries
  <2> QED BY <1>1, <2>1, <2>3, Cancelling1 DEF Kept
<1>4. CASE Admit(m, allowed)
  <2>1. CASE entry' = WithoutEntries({filling})
    BY <1>1, <2>1, Cancelling1 DEF Kept
  <2>2. CASE entry' = [entry EXCEPT ![filling] =
                         [entry[filling] EXCEPT !.stage = "filled", !.margin = m, !.unitFee = allowed]]
    <3>1. filling \in EntryIds
      BY <1>1, <1>4 DEF Admit
    <3> QED BY <1>1, <2>2, <3>1 DEF Books, Kept, KeepsEntries, KeepsEntry, Entries
  <2> QED BY <1>4, <2>1, <2>2 DEF Admit, AbandonFill
<1>5. CASE AdjustLeverageOf(m, allowed)
  BY <1>1, <1>5, SameEntries DEF AdjustLeverageOf, ChangeLeverage, Kept
<1> QED BY <1>2, <1>3, <1>4, <1>5

-----------------------------------------------------------------------------
(* The orders that are placed.                                             *)

\* A new entry of the name of those that are cancelled.
LEMMA NewEntryWaits ==
    ASSUME Books, EntryNamesUnique(entry), NEW s, NEW n,
           NEW i \in EntryIds, NEW e, e.sym = s, e.name = n,
           entry' = [WithoutEntries(PendingNamed(s, n)) EXCEPT ![i] = e]
    PROVE  EntryNamesUnique(entry')
<1>1. PICK kept : kept = WithoutEntries(PendingNamed(s, n))
  OBVIOUS
<1>2. kept \in [EntryIds -> Entries] /\ KeepsEntries(entry, kept)
  BY <1>1, CancelledBooks, Cancelling1
<1>3. \A j \in EntryIds : kept[j].stage = "pending" => ~(kept[j].sym = s /\ kept[j].name = n)
  BY <1>1, FreeOrders DEF WithoutEntries, PendingNamed
<1>4. Waits(i, entry'[i].sym, entry'[i].name)
  BY <1>1, <1>2, <1>3 DEF Waits, KeepsEntries
<1> QED BY <1>4, Waiting

\* An exit is placed where those of its name were cancelled: names stay different.
LEMMA NewExitWaits ==
    ASSUME Books, ExitNamesUnique(exit), NEW s, NEW n,
           NEW x \in ExitIds, NEW o, o.sym = s, o.name = n,
           exit' = [WithoutExits(ExitsNamed(s, n)) EXCEPT ![x] = o]
    PROVE  ExitNamesUnique(exit')
<1>1. PICK kept : kept = WithoutExits(ExitsNamed(s, n))
  OBVIOUS
<1>2. kept \in [ExitIds -> Exits] /\ KeepsExits(exit, kept)
  BY <1>1, CancelledBooks, Cancelling2
<1>3. \A y \in ExitIds : kept[y].stage = "pending" => ~(kept[y].sym = s /\ kept[y].name = n)
  BY <1>1, FreeOrders DEF WithoutExits, ExitsNamed
<1>4. ExitWaits(x, exit'[x].sym, exit'[x].name)
  BY <1>1, <1>2, <1>3 DEF ExitWaits, KeepsExits
<1> QED BY <1>4, ExitWaiting

Unique == EntryNamesUnique(entry) /\ ExitNamesUnique(exit)

\* An entry is placed where those of its name were cancelled.
LEMMA EntryPlaced ==
    ASSUME IInv, Unique, NEW s, NEW n, NEW d, NEW q, NEW l, NEW m, NEW k,
           PlaceEntry(s, n, k, d, q, l) \/ LimitEntry(s, n, d, q, l, m) \/ MarketEntryNow(s, n, d, q, l)
    PROVE  Unique'
<1>1. exit' = exit /\ Books
  BY BooksTyped DEF PlaceEntry, LimitEntry, MarketEntryNow
<1>2. PICK i \in EntryIds : \E e : e.sym = s /\ e.name = n
                               /\ entry' = [WithoutEntries(PendingNamed(s, n)) EXCEPT ![i] = e]
  <2>1. CASE PlaceEntry(s, n, k, d, q, l)
    BY <2>1 DEF PlaceEntry, NewEntry, FreeEntry
  <2>2. CASE LimitEntry(s, n, d, q, l, m)
    BY <2>2 DEF LimitEntry, NewEntry, FreeEntry
  <2>3. CASE MarketEntryNow(s, n, d, q, l)
    BY <2>3 DEF MarketEntryNow, NewEntry, FreeEntry
  <2> QED BY <2>1, <2>2, <2>3
<1>3. PICK e : e.sym = s /\ e.name = n
               /\ entry' = [WithoutEntries(PendingNamed(s, n)) EXCEPT ![i] = e]
  BY <1>2
<1> QED BY <1>1, <1>3, NewEntryWaits DEF Unique

\* And so is an exit.
LEMMA ExitPlaced ==
    ASSUME IInv, Unique, NEW s, NEW xn, NEW n, NEW q, PlaceExit(s, xn, n, q)
    PROVE  Unique'
<1>1. entry' = entry /\ Books
  BY BooksTyped DEF PlaceExit
<1>2. PICK f : f = Some(FilledNamed(entry, s, n))
  OBVIOUS
<1>3. entry[f].sym = s
  BY <1>2, SomeIn DEF PlaceExit, FilledNamed
<1>4. PICK x \in ExitIds : \E o : o.sym = s /\ o.name = xn
                              /\ exit' = [WithoutExits(ExitsNamed(s, xn)) EXCEPT ![x] = o]
  BY <1>2, <1>3 DEF PlaceExit, ExitOf
<1>5. PICK o : o.sym = s /\ o.name = xn /\ exit' = [WithoutExits(ExitsNamed(s, xn)) EXCEPT ![x] = o]
  BY <1>4
<1> QED BY <1>1, <1>5, NewExitWaits DEF Unique

\* CloseAll leaves one exit of its name.
LEMMA AllClosed ==
    ASSUME IInv, Unique, NEW s, CloseAll(s)
    PROVE  Unique'
<1>1. entry' = entry /\ Books
  BY BooksTyped DEF CloseAll
<1>2. PICK x \in ExitIds : \E o : o.sym = s /\ o.name = CloseAllName
                              /\ exit' = [WithoutExits(ExitsNamed(s, CloseAllName)) EXCEPT ![x] = o]
  BY DEF CloseAll, ExitOf, Filled
<1>3. PICK o : o.sym = s /\ o.name = CloseAllName
               /\ exit' = [WithoutExits(ExitsNamed(s, CloseAllName)) EXCEPT ![x] = o]
  BY <1>2
<1> QED BY <1>1, <1>3, NewExitWaits DEF Unique

\* Where no order begins to wait names stay different.
LEMMA KeptUnique == ASSUME Unique, Kept(entry, exit) PROVE Unique'
BY KeepingEntries, KeepingExits DEF Unique, Kept

-----------------------------------------------------------------------------
(* The theorem.                                                            *)

\* Every step keeps the names of pending orders different.
LEMMA NextUnique ==
    ASSUME IInv, Unique, [Next]_vars
    PROVE  Unique'
<1>0. Sizes \subseteq Nat /\ Fundings \subseteq Int
  BY AmountsAssumption
<1>1. CASE Order
  <2>1. PICK s \in Symbols, n \in EntryNames :
          \/ CancelEntry(s, n)
          \/ \E d \in Directions, q \in Sizes, l \in Leverages :
               \/ \E k \in Kinds : PlaceEntry(s, n, k, d, q, l)
               \/ \E m \in Margins : LimitEntry(s, n, d, q, l, m)
               \/ MarketEntryNow(s, n, d, q, l)
          \/ \E xn \in ExitNames, q \in Sizes :
               \/ PlaceExit(s, xn, n, q)
               \/ \E fee \in ExitFees, p \in Profits : MarketExitNow(s, xn, n, q, fee, p)
          \/ \E m \in Margins : IncreaseMargin(s, n, m)
    BY <1>1 DEF Order
  <2>2. CASE \E d \in Directions, q \in Sizes, l \in Leverages :
               \/ \E k \in Kinds : PlaceEntry(s, n, k, d, q, l)
               \/ \E m \in Margins : LimitEntry(s, n, d, q, l, m)
               \/ MarketEntryNow(s, n, d, q, l)
    BY <2>2, EntryPlaced
  <2>3. CASE \E xn \in ExitNames, q \in Sizes :
               \/ PlaceExit(s, xn, n, q)
               \/ \E fee \in ExitFees, p \in Profits : MarketExitNow(s, xn, n, q, fee, p)
    BY <1>0, <2>3, ExitPlaced, MarketExitNowKeeps, KeptUnique
  <2> QED BY <2>1, <2>2, <2>3, CancelKeeps, IncreaseMarginKeeps, KeptUnique
<1>2. CASE Cancelling
  BY <1>2, CancelKeeps, KeptUnique, AllClosed DEF Cancelling
<1>3. CASE Market
  BY <1>0, <1>3, StartFillKeeps, OrderPendingLitEntryKeeps, FillLiquidationKeeps, ExecuteFundingKeeps,
     FillPendingExitOrderKeeps, KeptUnique DEF Market, FillPendingMarketEntry, FillPendingLimitEntry
<1>4. CASE Filling
  BY <1>4, ReverseExitKeeps, FillingKeeps, KeptUnique DEF Filling
<1>5. CASE UNCHANGED vars
  BY <1>5 DEF vars, Unique, EntryNamesUnique, ExitNamesUnique
<1>6. CASE Leveraging
  BY <1>6, FillingKeeps, KeptUnique DEF Leveraging
<1> QED BY <1>1, <1>2, <1>3, <1>4, <1>5, <1>6 DEF Next

\* Two orders of a symbol never wait under one name: whatever is placed, filled,
\* re-margined or cancelled, a name given to Cancel denotes one order.
THEOREM PendingNamesDiffer == ASSUME NoReuse PROVE Spec => []PendingNamesUnique
<1>1. Init => Unique
  BY FreeOrders DEF Init, Unique, EntryNamesUnique, ExitNamesUnique
<1>2. IInv /\ Unique /\ [Next]_vars => Unique'
  BY NextUnique
<1>3. Unique => PendingNamesUnique
  BY DEF Unique, EntryNamesUnique, ExitNamesUnique, PendingNamesUnique
<1>4. Spec => []IInv
  BY Inductive
<1> QED BY <1>1, <1>2, <1>3, <1>4, PTL DEF Spec
=============================================================================
