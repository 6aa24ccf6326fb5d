---------------------------- MODULE MCBinomSearch -----------------------------
(***************************************************************************)
(* An instance of BinomSearch with the limit of the code: ranges on both   *)
(* sides of it, and for each the targets at, just below and just above     *)
(* every binomial coefficient of its column.                               *)
(***************************************************************************)
EXTENDS BinomSearch

CONSTANTS
    None,
    MaxK,       \* largest subset size
    His         \* the upper ends

Lib == INSTANCE PyLibrary
MCComb(n, j) == Lib!MathComb(n, j)

\* unrank_subset asks for the j-th element from lo = j - 1 on.
UnrankCalls ==
    UNION {
        {[target |-> t, k |-> j, lo |-> j - 1, hi |-> h] :
            t \in {Binom(n, j) + d : n \in j - 1 .. h, d \in {-1, 0, 1}}} :
        j \in 1 .. MaxK, h \in His}
=============================================================================
