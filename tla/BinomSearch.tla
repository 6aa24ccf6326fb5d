----------------------------- MODULE BinomSearch ------------------------------
(***************************************************************************)
(* _find_largest_binom_le (codec/combinadic.py): a scan of short ranges, a *)
(* bisection of the others, one turn of either loop per step.              *)
(* RecordStream takes the call as one step, by what Combinadic says it     *)
(* returns.                                                                *)
(***************************************************************************)
EXTENDS Combinadic

CONSTANTS
    Calls,      \* the arguments: [target, k, lo, hi]
    ScanLimit   \* ranges narrower than this are scanned: 32

ASSUME CallAssumption ==
    \A c \in Calls : c.target \in Int /\ c.k \in Int /\ c.lo \in Int /\ c.hi \in Int

ASSUME ScanLimitAssumption == ScanLimit \in Int

\* Columns of Pascal's triangle do not descend.
ASSUME CombAssumption ==
    \A r \in {[k |-> c.k, lo |-> c.lo, hi |-> c.hi] : c \in Calls} :
        \A m, n \in r.lo .. r.hi :
            /\ Binom(m, r.k) \in Int
            /\ m <= n => Binom(m, r.k) <= Binom(n, r.k)

VARIABLES
    call,       \* the arguments as they were passed
    pc,         \* start, scan, bisect or done
    result,     \* the value returned, so far
    i,          \* next candidate of the scan
    lo, hi      \* what is left to bisect

vars == <<call, pc, result, i, lo, hi>>

FitsStrictly(x) == Binom(x, call.k) < call.target  \* mutant: strict

Fits(x) == Binom(x, call.k) <= call.target

Init ==
    /\ call \in Calls
    /\ pc = "start"
    /\ result = call.lo - 1
    /\ i = call.lo
    /\ lo = call.lo
    /\ hi = call.hi

Choose ==
    /\ pc = "start"
    /\ pc' = IF lo > hi THEN "done"
             ELSE IF hi - lo < ScanLimit THEN "scan"
             ELSE "bisect"
    /\ UNCHANGED <<call, result, i, lo, hi>>

Scan ==
    /\ pc = "scan"
    /\ i <= hi
    /\ IF Fits(i) THEN result' = i /\ i' = i + 1 /\ UNCHANGED pc
                  ELSE pc' = "done" /\ UNCHANGED <<result, i>>
    /\ UNCHANGED <<call, lo, hi>>

Mid == (lo + hi) \div 2

From(mid) == mid  \* mutant: the middle stays in the range
Above(mid) == mid + 1

FarBelow(mid) == mid - 2  \* mutant: one candidate too many is dropped
Below(mid) == mid - 1

Bisect ==
    /\ pc = "bisect"
    /\ lo <= hi
    /\ IF Fits(Mid) THEN result' = Mid /\ lo' = Above(Mid) /\ UNCHANGED hi
                    ELSE hi' = Below(Mid) /\ UNCHANGED <<result, lo>>
    /\ UNCHANGED <<call, pc, i>>

Return ==
    /\ \/ pc = "scan" /\ i > hi
       \/ pc = "bisect" /\ lo > hi
    /\ pc' = "done"
    /\ UNCHANGED <<call, result, i, lo, hi>>

Terminating == pc = "done" /\ UNCHANGED vars

Step == Choose \/ Scan \/ Bisect \/ Return

Next == Step \/ Terminating

Spec == Init /\ [][Next]_vars

\* The call runs on its thread until it returns.
FairSpec == Spec /\ WF_vars(Step)

-----------------------------------------------------------------------------
(* Correctness *)

TypeOK ==
    /\ pc \in {"start", "scan", "bisect", "done"}
    /\ result \in Int /\ i \in Int /\ lo \in Int /\ hi \in Int

\* Neither loop loses the answer: all candidates up to the result fit, and what
\* either has given up does not fit (_find_largest_binom_le).
Bracketed ==
    /\ TypeOK
    /\ result >= call.lo - 1
    /\ \A x \in call.lo .. result : Fits(x)
    /\ pc # "done" => /\ result = (IF pc = "scan" THEN i ELSE lo) - 1
                      /\ pc # "bisect" => lo = call.lo /\ hi = call.hi
                      /\ \A x \in hi + 1 .. call.hi : ~Fits(x)
                      /\ hi <= call.hi
                      /\ result <= hi \/ (pc = "start" /\ lo > hi)
    /\ pc = "start" => i = call.lo
    /\ (pc = "done" /\ call.lo <= call.hi) =>
           /\ result <= call.hi
           /\ result < call.hi => ~Fits(result + 1)
    /\ (pc = "done" /\ call.lo > call.hi) => result = call.lo - 1

\* Scanned or bisected, the range gives the same element, the one unrank_subset
\* relies on.
FindsLargest ==
    pc = "done" =>
        result = FindLargestBinomLe(call.target, call.k, call.lo, call.hi)

\* Every call returns: each turn of either loop leaves fewer candidates.
Termination == <>(pc = "done")
=============================================================================
