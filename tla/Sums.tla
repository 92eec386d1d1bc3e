-------------------------------- MODULE Sums --------------------------------
(***************************************************************************)
(* Totals of integer amounts kept in numbered slots.  The recursion is a   *)
(* recursive function, not a RECURSIVE operator, so that the proof modules *)
(* can reason about it; OrderHandler_proofs.tla has the facts they need.   *)
(***************************************************************************)
EXTENDS Integers

\* The partial sums of f: PrefixSums(f, n)[i] = f[1] + ... + f[i].
PrefixSums(f, n) ==
    LET sum[i \in 0..n] == IF i = 0 THEN 0 ELSE sum[i - 1] + f[i]
    IN  sum

\* The total of the amounts f holds in slots 1..n.
Total(f, n) == PrefixSums(f, n)[n]
=============================================================================
