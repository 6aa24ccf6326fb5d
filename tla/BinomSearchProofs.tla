--------------------------- MODULE BinomSearchProofs ---------------------------
(***************************************************************************)
(* Proofs about BinomSearch, for every call, scan limit and coefficient    *)
(* function whose columns do not descend.                                  *)
(***************************************************************************)
EXTENDS BinomSearch, FiniteSetTheorems, TLAPS

IInv == call \in Calls /\ TypeOK /\ Bracketed

\* The arguments are integers and the column does not descend.
LEMMA CallType ==
    ASSUME call \in Calls
    PROVE  /\ call.target \in Int /\ call.lo \in Int /\ call.hi \in Int
           /\ \A m \in call.lo .. call.hi : Binom(m, call.k) \in Int
           /\ \A m, n \in call.lo .. call.hi :
                  m <= n => Binom(m, call.k) <= Binom(n, call.k)
<1> DEFINE r == [k |-> call.k, lo |-> call.lo, hi |-> call.hi]
<1>1. r \in {[k |-> c.k, lo |-> c.lo, hi |-> c.hi] : c \in Calls}
  OBVIOUS
<1>2. \A m, n \in r.lo .. r.hi :
          /\ Binom(m, r.k) \in Int
          /\ m <= n => Binom(m, r.k) <= Binom(n, r.k)
  BY <1>1, CombAssumption
<1>3. call.target \in Int /\ call.lo \in Int /\ call.hi \in Int
  BY CallAssumption
<1> QED BY <1>2, <1>3

\* What fits the target is closed downwards within the range of the call.
LEMMA FitsBelow ==
    ASSUME call \in Calls, NEW m \in call.lo .. call.hi, NEW n \in call.lo .. call.hi,
           m <= n, Fits(n)
    PROVE  Fits(m)
<1>1. Binom(m, call.k) \in Int /\ Binom(n, call.k) \in Int
  BY CallType
<1>2. Binom(m, call.k) <= Binom(n, call.k)
  BY CallType
<1>3. call.target \in Int
  BY CallType
<1> QED BY <1>1, <1>2, <1>3 DEF Fits

\* A call starts with nothing accepted or dropped.
LEMMA InitInv == Init => IInv
BY CallType DEF Init, IInv, TypeOK, Bracketed

\* The width of the range picks the loop.
LEMMA ChooseInv == IInv /\ Choose => IInv'
<1> SUFFICES ASSUME IInv, Choose PROVE IInv'
  OBVIOUS
<1>1. call.lo \in Int /\ call.hi \in Int
  BY CallType DEF IInv
<1>2. Fits(0)' = Fits(0) /\ \A x : Fits(x)' <=> Fits(x)
  BY DEF Choose, Fits
<1>3. /\ call' = call /\ result' = result /\ i' = i /\ lo' = lo /\ hi' = hi
      /\ pc' \in {"scan", "bisect", "done"}
      /\ pc' = "done" <=> lo > hi
  BY ScanLimitAssumption DEF Choose, IInv, TypeOK
<1> QED BY <1>1, <1>2, <1>3 DEF Choose, IInv, TypeOK, Bracketed

\* The scan accepts the next candidate or stops before it.
LEMMA ScanInv == IInv /\ Scan => IInv'
<1> SUFFICES ASSUME IInv, Scan PROVE IInv'
  OBVIOUS
<1>1. call.lo \in Int /\ call.hi \in Int
  BY CallType DEF IInv
<1>2. \A x : Fits(x)' <=> Fits(x)
  BY DEF Scan, Fits
<1>3. CASE Fits(i)
  BY <1>1, <1>2, <1>3 DEF Scan, IInv, TypeOK, Bracketed
<1>4. CASE ~Fits(i)
  BY <1>1, <1>2, <1>4 DEF Scan, IInv, TypeOK, Bracketed
<1> QED BY <1>3, <1>4

\* The bisection drops the half that the middle rules out.
LEMMA BisectInv == IInv /\ Bisect => IInv'
<1> SUFFICES ASSUME IInv, Bisect PROVE IInv'
  OBVIOUS
<1>1. /\ call \in Calls /\ call.lo \in Int /\ call.hi \in Int
      /\ lo \in Int /\ hi \in Int /\ result \in Int /\ i \in Int
  BY CallType DEF IInv, TypeOK
<1>2. \A x : Fits(x)' <=> Fits(x)
  BY DEF Bisect, Fits
<1>3. pc = "bisect" /\ lo <= hi /\ result = lo - 1 /\ call.lo <= lo /\ hi <= call.hi
  BY <1>1 DEF Bisect, IInv, Bracketed
<1>4. Mid \in lo .. hi
  BY <1>1, <1>3 DEF Mid
<1>5. CASE Fits(Mid)
  <2>1. ASSUME NEW x \in call.lo .. Mid PROVE Fits(x)
    <3>1. x \in call.lo .. call.hi /\ Mid \in call.lo .. call.hi /\ x <= Mid
      BY <1>1, <1>3, <1>4
    <3> QED BY <1>1, <1>5, <3>1, FitsBelow
  <2>2. /\ result' = Mid /\ lo' = Mid + 1
        /\ UNCHANGED <<call, pc, i, hi>>
    BY <1>5 DEF Bisect, Above
  <2> HIDE DEF Mid
  <2> QED BY <1>1, <1>2, <1>3, <1>4, <2>1, <2>2 DEF IInv, TypeOK, Bracketed
<1>6. CASE ~Fits(Mid)
  <2>1. ASSUME NEW x \in Mid .. call.hi PROVE ~Fits(x)
    <3>1. x \in call.lo .. call.hi /\ Mid \in call.lo .. call.hi /\ Mid <= x
      BY <1>1, <1>3, <1>4
    <3> QED BY <1>1, <1>6, <3>1, FitsBelow
  <2>2. hi' = Mid - 1 /\ UNCHANGED <<call, pc, result, i, lo>>
    BY <1>6 DEF Bisect, Below
  <2> QED BY <1>1, <1>2, <1>3, <1>4, <2>1, <2>2 DEF IInv, TypeOK, Bracketed
<1> QED BY <1>5, <1>6

\* A loop with nothing left has its answer.
LEMMA ReturnInv == IInv /\ Return => IInv'
<1> SUFFICES ASSUME IInv, Return PROVE IInv'
  OBVIOUS
<1>1. call.lo \in Int /\ call.hi \in Int
  BY CallType DEF IInv
<1>2. \A x : Fits(x)' <=> Fits(x)
  BY DEF Return, Fits
<1>3. CASE pc = "scan"
  BY <1>1, <1>2, <1>3 DEF Return, IInv, TypeOK, Bracketed
<1>4. CASE pc = "bisect"
  BY <1>1, <1>2, <1>4 DEF Return, IInv, TypeOK, Bracketed
<1> QED BY <1>3, <1>4 DEF Return

\* The bracket holds in every state.
LEMMA Invariance == Spec => []IInv
<1>1. IInv /\ [Next]_vars => IInv'
  <2> SUFFICES ASSUME IInv, [Next]_vars PROVE IInv'
    OBVIOUS
  <2>1. CASE Choose BY <2>1, ChooseInv
  <2>2. CASE Scan BY <2>2, ScanInv
  <2>3. CASE Bisect BY <2>3, BisectInv
  <2>4. CASE Return BY <2>4, ReturnInv
  <2>5. CASE UNCHANGED vars
    BY <2>5 DEF vars, IInv, TypeOK, Bracketed, Fits
  <2> QED BY <2>1, <2>2, <2>3, <2>4, <2>5 DEF Next, Step, Terminating
<1> QED BY <1>1, InitInv, PTL DEF Spec

\* Neither loop ever loses the answer (_find_largest_binom_le), for every call.
THEOREM Brackets == Spec => []Bracketed
<1>1. IInv => Bracketed
  BY DEF IInv
<1> QED BY <1>1, Invariance, PTL

\* A closed bracket is what the search promises.
LEMMA LargestOfBracket == IInv => FindsLargest
<1> SUFFICES ASSUME IInv, pc = "done"
             PROVE  result = FindLargestBinomLe(call.target, call.k, call.lo, call.hi)
  BY DEF FindsLargest
<1> DEFINE A == Accepted(call.target, call.k, call.lo, call.hi)
<1>1. call.lo \in Int /\ call.hi \in Int /\ result \in Int /\ result >= call.lo - 1
  BY CallType DEF IInv, TypeOK, Bracketed
<1>2. CASE call.lo > call.hi
  <2>1. A = {}
    BY <1>1, <1>2 DEF Accepted
  <2>2. Cardinality(A) = 0
    BY <2>1, FS_EmptySet
  <2> QED BY <1>1, <1>2, <2>2 DEF IInv, Bracketed, FindLargestBinomLe
<1>3. CASE call.lo <= call.hi
  <2>1. /\ result <= call.hi /\ \A x \in call.lo .. result : Fits(x)
        /\ result < call.hi => ~Fits(result + 1)
    BY <1>3 DEF IInv, Bracketed
  <2>2. A = call.lo .. result
    <3>1. ASSUME NEW x \in A PROVE x \in call.lo .. result
      <4>1. x \in call.lo .. call.hi /\ \A y \in call.lo .. x : Fits(y)
        BY DEF Accepted, Fits
      <4>2. ~(x > result)
        BY <1>1, <2>1, <4>1
      <4> QED BY <1>1, <4>1, <4>2
    <3>2. ASSUME NEW x \in call.lo .. result PROVE x \in A
      <4>1. x \in call.lo .. call.hi /\ \A y \in call.lo .. x : Fits(y)
        BY <1>1, <2>1
      <4> QED BY <4>1 DEF Accepted, Fits
    <3> QED BY <3>1, <3>2
  <2>3. Cardinality(call.lo .. result) = result - call.lo + 1
    BY <1>1, FS_Interval
  <2> QED BY <1>1, <2>2, <2>3 DEF FindLargestBinomLe
<1> QED BY <1>1, <1>2, <1>3

\* Scan and bisection return the element that unrank_subset relies on, for
\* every call, wherever the limit between the two loops is.
THEOREM Largest == Spec => []FindsLargest
BY Invariance, LargestOfBracket, PTL
=============================================================================
