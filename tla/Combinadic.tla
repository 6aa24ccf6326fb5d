------------------------------ MODULE Combinadic ------------------------------
(***************************************************************************)
(* Binomial coefficients and the search that unranking a subset rests on   *)
(* (codec/combinadic.py), as functions of their arguments.  BinomSearch    *)
(* models the two loops that compute FindLargestBinomLe.                   *)
(***************************************************************************)
EXTENDS Integers, FiniteSets

CONSTANT Comb(_, _)     \* math.comb

Binom(n, j) == IF j < 0 \/ j > n THEN 0 ELSE Comb(n, j)

\* What makes Comb the binomial coefficients
PascalsRow(n) ==
    /\ Comb(n, 0) = 1
    /\ Comb(n, n) = 1
    /\ \A j \in 1 .. n : Comb(n + 1, j) = Comb(n, j) + Comb(n, j - 1)

PascalsRule == \A n \in Nat : PascalsRow(n)

\* The candidates the scan of _find_largest_binom_le accepts before its break
Accepted(target, j, lo, hi) ==
    {i \in lo .. hi : \A x \in lo .. i : Binom(x, j) <= target}

FindSmallestBinomGt(target, j, lo, hi) ==  \* mutant: one too far
    lo + Cardinality(Accepted(target, j, lo, hi))

FindLargestBinomLe(target, j, lo, hi) ==
    lo - 1 + Cardinality(Accepted(target, j, lo, hi))
=============================================================================
