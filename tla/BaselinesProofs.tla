--------------------------- MODULE BaselinesProofs ----------------------------
(***************************************************************************)
(* Proofs about Baselines, for every dictionary of counts: the code covers *)
(* exactly the counted symbols with at least a bit each, symbol ranks      *)
(* settle every tie they can tell apart, no prefix code is cheaper, and    *)
(* the code costs the entropy at least and less than a bit per use more.   *)
(*                                                                         *)
(* The last is Huffman's theorem for the heap of the code.  Read every     *)
(* node as one symbol that counts n.count.  Whatever a prefix code of the  *)
(* dictionary costs, some words for the nodes, with the bits below them,   *)
(* cost no more (NoWorse): true of the leaves, kept by every merge because *)
(* the two rarest nodes may be given the longest words, of one length      *)
(* (Siblings), and at the root a statement about the code itself.          *)
(*                                                                         *)
(* Entropy is compared in integers: H <= bits is                           *)
(* N ^ N <= 2 ^ bits * the product of all n ^ n.  That every prefix code   *)
(* is above it follows by joining the two rarest symbols (EntropyBound),   *)
(* from (a + b) ^ (a + b) <= 2 ^ (a + b) * a ^ a * b ^ b (TwoCounts); that *)
(* the cheapest is close to it, from the code that gives a symbol the      *)
(* least bits m with n * 2 ^ m >= N (ShannonCode).                         *)
(***************************************************************************)
EXTENDS Baselines, FiniteSetTheorems, WellFoundedInduction, TLAPS

\* The symbols of the heap
Covered == UNION {Symbols(n) : n \in heap}

(* A node's rank is that of one of its symbols, and a node of several      *)
(* symbols puts each of them at least a bit deep.                          *)
NodeInv(n) ==
    /\ \E s \in Symbols(n) : n.min_symbol_rank = SymbolRank(s)
    /\ \A s, t \in Symbols(n) : s # t => n.depths[s] # 0

(* The heap partitions the symbols pushed so far: what TypeOK and          *)
(* RankDecides need to be inductive.                                       *)
HeapInv ==
    /\ IsFiniteSet(heap)
    /\ \A n \in heap : NodeInv(n)
    /\ \A a, b \in heap : a # b => Symbols(a) \cap Symbols(b) = {}
    /\ pc \in {"start", "push", "merge"} => Covered = ActiveIn(1 .. pushed)
    /\ pc \in {"start", "push", "merge"} => code_lengths = <<>>
    /\ pc = "merge" => pushed = Len(call.counts)
    /\ Covered \subseteq Active

\* What every step keeps.
IInv == call \in Calls /\ TypeOK /\ HeapInv

-----------------------------------------------------------------------------
(* The dictionary *)

\* What a sequence holds is of its set.
LEMMA ElementType == \A S : \A q \in Seq(S) : \A i \in 1 .. Len(q) : q[i] \in S
OBVIOUS

\* A dictionary counts each symbol once.
LEMMA CallType ==
    ASSUME call \in Calls
    PROVE  /\ Len(call.counts) \in Nat
           /\ \A i \in Entries : Entry(i).symbol \in Int /\ Entry(i).count \in Int
           /\ \A i, j \in Entries : Entry(i).symbol = Entry(j).symbol => i = j
<1>1. call.counts \in Seq([symbol : Int, count : Int])
  BY CallAssumption
<1>2. \A i \in 1 .. Len(call.counts) : call.counts[i] \in [symbol : Int, count : Int]
  BY <1>1, ElementType, Zenon
<1>3. \A i, j \in 1 .. Len(call.counts) :
          call.counts[i].symbol = call.counts[j].symbol => i = j
  BY CallAssumption
<1> QED BY <1>1, <1>2, <1>3 DEF Entries, Entry

\* Every symbol has a rank.
LEMMA RankType == \A s \in Int : SymbolRank(s) \in Int
BY DEF SymbolRank

\* One more entry adds its symbol, which is new, if its count is positive.
LEMMA OneMoreEntry ==
    ASSUME call \in Calls, NEW p \in Nat, p < Len(call.counts)
    PROVE  /\ Entry(p + 1).count > 0 =>
                  /\ ActiveIn(1 .. p + 1) = ActiveIn(1 .. p) \cup {Entry(p + 1).symbol}
                  /\ Entry(p + 1).symbol \notin ActiveIn(1 .. p)
                  /\ Entry(p + 1).symbol \in Active
           /\ ~(Entry(p + 1).count > 0) => ActiveIn(1 .. p + 1) = ActiveIn(1 .. p)
<1>1. Len(call.counts) \in Nat
  BY CallType
<1>2. 1 .. p + 1 = (1 .. p) \cup {p + 1} /\ p + 1 \in Entries /\ 1 .. p \subseteq Entries
  BY <1>1 DEF Entries
<1>3. \A i \in 1 .. p : i # p + 1
  OBVIOUS
<1>4. \A i \in 1 .. p : Entry(i).symbol # Entry(p + 1).symbol
  BY <1>2, <1>3, CallType
<1> QED BY <1>2, <1>4 DEF ActiveIn, Active

-----------------------------------------------------------------------------
(* The nodes *)

\* The leaf of an entry has its symbol, and its rank.
LEMMA LeafFacts ==
    ASSUME call \in Calls, node_id_counter \in Nat, NEW i \in Entries
    PROVE  /\ Symbols(Leaf(Entry(i))) = {Entry(i).symbol}
           /\ Leaf(Entry(i)) \in NodeOver(Symbols(Leaf(Entry(i))))
           /\ NodeInv(Leaf(Entry(i)))
<1> DEFINE e == Entry(i)
           n == Leaf(e)
<1>1. e.symbol \in Int /\ e.count \in Int
  BY CallType
<1>2. /\ n = [count |-> e.count, depths |-> [s \in {e.symbol} |-> 0],
              min_symbol_rank |-> SymbolRank(e.symbol), node_id |-> node_id_counter]
  BY DEF Leaf
<1> HIDE DEF n, e
<1>3. /\ n.depths = [s \in {e.symbol} |-> 0]
      /\ n.min_symbol_rank = SymbolRank(e.symbol)
  BY <1>2
<1>4. Symbols(n) = {e.symbol}
  BY <1>3 DEF Symbols
<1>5. n \in NodeOver({e.symbol})
  <2>1. SymbolRank(e.symbol) \in Int
    BY <1>1, RankType
  <2>2. [s \in {e.symbol} |-> 0] \in [{e.symbol} -> Nat]
    OBVIOUS
  <2> QED BY <1>1, <1>2, <2>1, <2>2 DEF NodeOver
<1>6. NodeInv(n)
  BY <1>3, <1>4 DEF NodeInv
<1> QED BY <1>4, <1>5, <1>6 DEF n, e

\* A merged node has the symbols of both, and the rank of one of them.
LEMMA MergedFacts ==
    ASSUME node_id_counter \in Nat,
           NEW l, l \in NodeOver(Symbols(l)), NodeInv(l),
           NEW r, r \in NodeOver(Symbols(r)), NodeInv(r)
    PROVE  /\ Symbols(Merged(l, r)) = Symbols(l) \cup Symbols(r)
           /\ Merged(l, r) \in NodeOver(Symbols(l) \cup Symbols(r))
           /\ NodeInv(Merged(l, r))
<1> DEFINE S == Symbols(l) \cup Symbols(r)
           d == [s \in S |-> 1 + IF s \in Symbols(l) THEN l.depths[s] ELSE r.depths[s]]
           n == Merged(l, r)
<1>1. /\ l.count \in Int /\ l.depths \in [Symbols(l) -> Nat] /\ l.min_symbol_rank \in Int
      /\ r.count \in Int /\ r.depths \in [Symbols(r) -> Nat] /\ r.min_symbol_rank \in Int
  BY DEF NodeOver
<1>2. n = [count |-> l.count + r.count, depths |-> d,
           min_symbol_rank |-> LesserRank(l, r), node_id |-> node_id_counter]
  BY DEF Merged
<1>3. \A s \in S : 1 + (IF s \in Symbols(l) THEN l.depths[s] ELSE r.depths[s]) \in Nat \ {0}
  BY <1>1
<1>4. d \in [S -> Nat] /\ \A s \in S : d[s] # 0
  BY <1>3
<1>5. LesserRank(l, r) \in {l.min_symbol_rank, r.min_symbol_rank}
  BY DEF LesserRank
<1> HIDE DEF d, n
<1>6. n.depths = d /\ n.min_symbol_rank = LesserRank(l, r)
  BY <1>2
<1>7. Symbols(n) = S
  BY <1>4, <1>6 DEF Symbols
<1>8. n \in NodeOver(S)
  <2>1. l.count + r.count \in Int /\ LesserRank(l, r) \in Int
    BY <1>1, <1>5
  <2> QED BY <1>2, <1>4, <2>1 DEF NodeOver
<1>9. NodeInv(n)
  BY <1>4, <1>5, <1>6, <1>7 DEF NodeInv
<1> QED BY <1>7, <1>8, <1>9 DEF n

-----------------------------------------------------------------------------
(* The steps *)

\* A call starts with an empty heap.
LEMMA InitInv == Init => IInv
<1> SUFFICES ASSUME Init PROVE IInv
  OBVIOUS
<1>1. Len(call.counts) \in Nat
  BY CallType DEF Init
<1>2. TypeOK
  BY <1>1 DEF Init, TypeOK, Coded
<1>3. Covered = {} /\ ActiveIn(1 .. 0) = {}
  BY DEF Init, Covered, ActiveIn
<1>4. HeapInv
  BY <1>3, FS_EmptySet DEF Init, HeapInv
<1> QED BY <1>2, <1>4 DEF IInv, Init

\* An entry adds its leaf, if it counts.
LEMMA PushStep == IInv /\ Push => IInv'
<1> SUFFICES ASSUME IInv, Push PROVE IInv'
  OBVIOUS
<1> DEFINE e == Entry(pushed + 1)
           n == Leaf(e)
<1>1. /\ call \in Calls /\ pc = "push" /\ pushed' = pushed + 1
      /\ UNCHANGED <<call, pc, code_lengths, beats>>
      /\ node_id_counter \in Nat /\ pushed \in Nat /\ pushed < Len(call.counts)
  BY CallType DEF IInv, TypeOK, Push
<1>2. pushed + 1 \in Entries /\ Len(call.counts) \in Nat
  BY <1>1, CallType DEF Entries
<1>3. \A X : ActiveIn(X)' = ActiveIn(X) /\ Active' = Active
  BY <1>1 DEF ActiveIn, Active, Entry, Entries
<1>4. CASE ~(e.count > 0)
  <2>1. UNCHANGED <<heap, node_id_counter>>
    BY <1>4 DEF Push
  <2>2. TypeOK'
    BY <1>1, <1>2, <2>1 DEF IInv, TypeOK, Coded
  <2>3. ActiveIn(1 .. pushed') = ActiveIn(1 .. pushed)
    BY <1>1, <1>4, OneMoreEntry
  <2>4. Covered' = Covered
    BY <2>1 DEF Covered
  <2>5. HeapInv'
    BY <1>1, <1>3, <2>1, <2>3, <2>4 DEF IInv, HeapInv
  <2> QED BY <1>1, <2>2, <2>5 DEF IInv
<1>5. CASE e.count > 0
  <2>1. heap' = heap \cup {n} /\ node_id_counter' = node_id_counter + 1
    BY <1>5 DEF Push
  <2>2. /\ Symbols(n) = {e.symbol}
        /\ n \in NodeOver(Symbols(n))
        /\ NodeInv(n)
    BY <1>1, <1>2, LeafFacts
  <2>3. /\ ActiveIn(1 .. pushed') = ActiveIn(1 .. pushed) \cup {e.symbol}
        /\ e.symbol \notin ActiveIn(1 .. pushed)
        /\ e.symbol \in Active
    BY <1>1, <1>5, OneMoreEntry
  <2> HIDE DEF n, e
  <2>4. TypeOK'
    <3>1. \A a \in heap' : a \in NodeOver(Symbols(a))
      BY <2>1, <2>2, Zenon DEF IInv, TypeOK
    <3> QED BY <1>1, <1>2, <2>1, <3>1 DEF IInv, TypeOK, Coded
  <2>5. Covered' = Covered \cup {e.symbol}
    BY <2>1, <2>2 DEF Covered
  <2>6. Covered = ActiveIn(1 .. pushed)
    BY <1>1 DEF IInv, HeapInv
  <2>7. \A a \in heap : Symbols(a) \cap Symbols(n) = {}
    BY <2>2, <2>3, <2>6 DEF Covered
  <2>8. \A a, b \in heap' : a # b => Symbols(a) \cap Symbols(b) = {}
    BY <2>1, <2>7 DEF IInv, HeapInv
  <2>9. IsFiniteSet(heap')
    BY <2>1, FS_AddElement DEF IInv, HeapInv
  <2>10. \A a \in heap' : NodeInv(a)
    BY <2>1, <2>2 DEF IInv, HeapInv
  <2>11. HeapInv'
    BY <1>1, <1>3, <2>3, <2>5, <2>6, <2>8, <2>9, <2>10 DEF IInv, HeapInv, NodeInv, Symbols
  <2> QED BY <1>1, <2>4, <2>11 DEF IInv
<1> QED BY <1>4, <1>5

\* A merge keeps the symbols of the heap apart.
LEMMA MergeStep == IInv /\ Merge => IInv'
<1> SUFFICES ASSUME IInv, Merge PROVE IInv'
  OBVIOUS
<1>1. PICK l \in heap, r \in heap :
          /\ r # l
          /\ heap' = (heap \ {l, r}) \cup {Merged(l, r)}
  BY DEF Merge, IsFirst
<1> DEFINE n == Merged(l, r)
<1>2. /\ call \in Calls /\ pc = "merge" /\ pushed \in 0 .. Len(call.counts)
      /\ UNCHANGED <<call, pc, pushed, code_lengths, beats>>
      /\ node_id_counter \in Nat /\ node_id_counter' = node_id_counter + 1
  BY DEF IInv, TypeOK, Merge
<1>3. /\ l \in NodeOver(Symbols(l)) /\ NodeInv(l)
      /\ r \in NodeOver(Symbols(r)) /\ NodeInv(r)
  BY DEF IInv, TypeOK, HeapInv
<1>4. /\ Symbols(n) = Symbols(l) \cup Symbols(r)
      /\ n \in NodeOver(Symbols(n))
      /\ NodeInv(n)
  BY <1>2, <1>3, MergedFacts
<1> HIDE DEF n
<1>5. heap' = (heap \ {l, r}) \cup {n}
  BY <1>1 DEF n
<1>6. TypeOK'
  <2>1. \A a \in heap' : a \in NodeOver(Symbols(a))
    BY <1>4, <1>5, Zenon DEF IInv, TypeOK
  <2> QED BY <1>2, <2>1 DEF IInv, TypeOK, Coded
<1>7. \A X : ActiveIn(X)' = ActiveIn(X) /\ Active' = Active
  BY <1>2 DEF ActiveIn, Active, Entry, Entries
<1>8. Covered' = Covered
  BY <1>1, <1>4, <1>5 DEF Covered
<1>9. \A a \in heap \ {l, r} : Symbols(a) \cap Symbols(n) = {}
  BY <1>4 DEF IInv, HeapInv
<1>10. \A a, b \in heap' : a # b => Symbols(a) \cap Symbols(b) = {}
  BY <1>5, <1>9 DEF IInv, HeapInv
<1>11. IsFiniteSet(heap')
  <2>1. IsFiniteSet(heap \ {l, r})
    BY FS_Difference DEF IInv, HeapInv
  <2> QED BY <1>5, <2>1, FS_AddElement
<1>12. \A a \in heap' : NodeInv(a)
  BY <1>4, <1>5 DEF IInv, HeapInv
<1>13. HeapInv'
  BY <1>2, <1>7, <1>8, <1>10, <1>11, <1>12 DEF IInv, HeapInv
<1> QED BY <1>2, <1>6, <1>13 DEF IInv

\* The last node gives every counted symbol a length.
LEMMA ExtractStep == IInv /\ Extract => IInv'
<1> SUFFICES ASSUME IInv, Extract PROVE IInv'
  OBVIOUS
<1>1. /\ call \in Calls /\ pc = "merge" /\ pc' = "report"
      /\ UNCHANGED <<call, pushed, heap, node_id_counter, beats>>
      /\ code_lengths' = IF heap = {} THEN <<>>
                         ELSE Lengths(CHOOSE root \in heap : TRUE)
      /\ ~(Cardinality(heap) > 1)
  BY DEF IInv, Extract, Merging
<1>2. \A X : ActiveIn(X)' = ActiveIn(X) /\ Active' = Active
  BY <1>1 DEF ActiveIn, Active, Entry, Entries
<1>3. heap # {} => code_lengths' \in [Active -> Nat \ {0}]
  <2> SUFFICES ASSUME heap # {} PROVE code_lengths' \in [Active -> Nat \ {0}]
    OBVIOUS
  <2> DEFINE root == CHOOSE x \in heap : TRUE
  <2>1. root \in heap
    OBVIOUS
  <2>2. heap = {root}
    <3>1. IsFiniteSet(heap) /\ Cardinality(heap) \in Nat
      BY FS_CardinalityType DEF IInv, HeapInv
    <3>2. Cardinality(heap) = 1
      BY <1>1, <3>1, FS_EmptySet
    <3>3. \E x : heap = {x}
      BY <3>1, <3>2, FS_Singleton
    <3> QED BY <2>1, <3>3
  <2>3. Symbols(root) = Active
    <3>1. Covered = Symbols(root)
      BY <2>2 DEF Covered
    <3>2. Covered = ActiveIn(1 .. Len(call.counts))
      BY <1>1 DEF IInv, HeapInv
    <3> QED BY <3>1, <3>2 DEF Active, Entries
  <2>4. root.depths \in [Active -> Nat] /\ NodeInv(root)
    BY <2>1, <2>3 DEF IInv, TypeOK, HeapInv, NodeOver
  <2>5. code_lengths' = Lengths(root)
    BY <1>1
  <2> HIDE DEF root
  <2>6. CASE \A s, t \in Active : s = t
    BY <2>3, <2>5, <2>6 DEF Lengths
  <2>7. CASE ~(\A s, t \in Active : s = t)
    <3>1. \A s \in Active : root.depths[s] # 0
      BY <2>3, <2>4, <2>7 DEF NodeInv
    <3>2. code_lengths' = root.depths
      BY <2>3, <2>5, <2>7 DEF Lengths
    <3> QED BY <2>4, <3>1, <3>2
  <2> QED BY <2>6, <2>7
<1>4. heap = {} => code_lengths' = <<>>
  BY <1>1
<1>5. TypeOK'
  BY <1>1, <1>2, <1>3, <1>4 DEF IInv, TypeOK, Coded
<1>6. HeapInv'
  BY <1>1, <1>2 DEF IInv, HeapInv, Covered
<1> QED BY <1>1, <1>5, <1>6 DEF IInv

\* The other steps leave the heap and the code alone.
LEMMA NextInv == IInv /\ [Next]_vars => IInv'
<1> SUFFICES ASSUME IInv, [Next]_vars PROVE IInv'
  OBVIOUS
<1>1. ASSUME UNCHANGED <<call, pushed, heap, node_id_counter, code_lengths>>,
             /\ pc' \in {"start", "push", "merge", "report", "done", "raised", "exit1"}
             /\ beats' \in BOOLEAN \cup {None},
             Coded' => Coded \/ code_lengths = <<>>,
             pc' \in {"start", "push", "merge"} => pc \in {"start", "push", "merge"},
             pc' = "merge" => pushed = Len(call.counts)
      PROVE  IInv'
  <2>1. Active' = Active /\ Covered' = Covered /\ \A X : ActiveIn(X)' = ActiveIn(X)
    BY <1>1 DEF Active, ActiveIn, Entries, Entry, Covered
  <2>2. TypeOK'
    BY <1>1, <2>1 DEF IInv, TypeOK, Coded
  <2>3. HeapInv'
    BY <1>1, <2>1 DEF IInv, HeapInv
  <2> QED BY <1>1, <2>2, <2>3 DEF IInv
<1>2. CASE Push
  BY <1>2, PushStep
<1>3. CASE Merge
  BY <1>3, MergeStep
<1>4. CASE Extract
  BY <1>4, ExtractStep
<1>5. CASE Start
  <2>1. /\ pc = "start" /\ pc' \in {"exit1", "report", "raised", "push"}
        /\ UNCHANGED <<call, pushed, heap, node_id_counter, code_lengths, beats>>
    BY <1>5 DEF Start
  <2>2. code_lengths = <<>>
    BY <2>1 DEF IInv, HeapInv
  <2> QED BY <1>1, <2>1, <2>2 DEF IInv, TypeOK, Coded
<1>6. CASE AllPushed
  BY <1>1, <1>6 DEF AllPushed, IInv, TypeOK, Coded
<1>7. CASE Report
  <2>1. /\ pc = "report" /\ pc' \in {"done", "raised"}
        /\ UNCHANGED <<call, pushed, heap, node_id_counter, code_lengths>>
    BY <1>7 DEF Report
  <2>2. beats' \in BOOLEAN \cup {None}
    BY <1>7 DEF Report, IInv, TypeOK, BeatsHuffman
  <2> QED BY <1>1, <2>1, <2>2 DEF IInv, TypeOK, Coded
<1>8. CASE UNCHANGED vars
  BY <1>1, <1>8 DEF vars, IInv, TypeOK, Coded, HeapInv
<1> QED
  BY <1>2, <1>3, <1>4, <1>5, <1>6, <1>7, <1>8 DEF Next, Step, Terminating

\* The invariant holds in every state.
LEMMA Inductive == Spec => []IInv
BY InitInv, NextInv, PTL DEF Spec

(* Every finished code gives each counted symbol, and no other, at least a *)
(* bit: canonical_huffman_code_lengths never leaves a symbol uncoded, and  *)
(* never codes one at no cost.                                             *)
THEOREM Types == Spec => []TypeOK
<1>1. IInv => TypeOK
  BY DEF IInv
<1> QED BY <1>1, Inductive, PTL

(* Where the rank table tells the symbols apart it settles every tie, so   *)
(* the code lengths do not depend on the order of the dictionary.          *)
THEOREM TiesByRank == Spec => []RankDecides
<1>1. IInv => RankDecides
  <2> SUFFICES ASSUME IInv, RanksDiffer, NEW a \in heap, NEW b \in heap,
                      a.min_symbol_rank = b.min_symbol_rank, a # b
               PROVE  FALSE
    BY DEF RankDecides
  <2>1. PICK s \in Symbols(a) : a.min_symbol_rank = SymbolRank(s)
    BY DEF IInv, HeapInv, NodeInv
  <2>2. PICK t \in Symbols(b) : b.min_symbol_rank = SymbolRank(t)
    BY DEF IInv, HeapInv, NodeInv
  <2>3. s \in Active /\ t \in Active
    BY DEF IInv, HeapInv, Covered
  <2>4. s # t
    BY <2>1, <2>2 DEF IInv, HeapInv
  <2> QED BY <2>1, <2>2, <2>3, <2>4 DEF RanksDiffer
<1> QED BY <1>1, Inductive, PTL

-----------------------------------------------------------------------------
(* Induction, in the form of a set that is closed under the next number.   *)
LEMMA SetInduction ==
    ASSUME NEW S, NEW n \in Nat, 0 \in S,
           \A m \in Nat : m < n /\ m \in S => m + 1 \in S
    PROVE  n \in S
<1> DEFINE T == {m \in Nat : m <= n /\ m \notin S}
           R == OpToRel(<, Nat)
<1> SUFFICES ASSUME n \notin S PROVE FALSE
  OBVIOUS
<1>1. T \subseteq Nat /\ T # {}
  OBVIOUS
<1>2. PICK least \in T : \A y \in T : ~(<<y, least>> \in R)
  <2>1. IsWellFoundedOn(R, Nat)
    BY NatLessThanWellFounded
  <2> HIDE DEF T, R
  <2> QED BY ONLY <1>1, <2>1, WFMin, Zenon
<1>3. least \in Nat /\ least <= n /\ least \notin S /\ least # 0
  OBVIOUS
<1>4. least - 1 \in Nat /\ least - 1 < n /\ least - 1 < least /\ (least - 1) + 1 = least
  BY <1>3
<1>5. least - 1 \in T
  BY <1>3, <1>4
<1>6. <<least - 1, least>> \in R
  BY <1>3, <1>4 DEF OpToRel
<1> QED BY <1>2, <1>5, <1>6

\* One element fewer.
LEMMA OneFewer ==
    ASSUME NEW T, IsFiniteSet(T), NEW x \in T, NEW n \in Nat
    PROVE  /\ IsFiniteSet(T \ {x})
           /\ Cardinality(T) <= n + 1 => Cardinality(T \ {x}) <= n
           /\ T # {}
<1>1. IsFiniteSet(T \ {x}) /\ Cardinality(T \ {x}) = Cardinality(T) - 1
  BY FS_RemoveElement
<1>2. Cardinality(T) \in Nat
  BY FS_CardinalityType
<1> QED BY <1>1, <1>2

(* The same for a finite set, element by element.                          *)
LEMMA SubsetInduction ==
    ASSUME NEW S, IsFiniteSet(S), NEW X, {} \in X,
           \A T \in SUBSET S :
               T # {} /\ (\A x \in T : T \ {x} \in X) => T \in X
    PROVE  \A T \in SUBSET S : T \in X
<1> DEFINE C == {n \in Nat : \A T \in SUBSET S : Cardinality(T) <= n => T \in X}
           n == Cardinality(S)
<1>1. \A T \in SUBSET S : IsFiniteSet(T) /\ Cardinality(T) \in Nat /\ Cardinality(T) <= n
  BY FS_Subset, FS_CardinalityType
<1>2. 0 \in C
  <2> SUFFICES ASSUME NEW T \in SUBSET S, Cardinality(T) <= 0 PROVE T \in X
    OBVIOUS
  <2>1. T = {}
    BY <1>1, FS_EmptySet
  <2> QED BY <2>1
<1>3. ASSUME NEW m \in Nat, m \in C PROVE m + 1 \in C
  <2> SUFFICES ASSUME NEW T \in SUBSET S, Cardinality(T) <= m + 1 PROVE T \in X
    OBVIOUS
  <2>1. CASE T = {}
    BY <2>1
  <2>2. CASE T # {}
    <3>1. ASSUME NEW x \in T PROVE T \ {x} \in X
      <4>1. Cardinality(T \ {x}) <= m
        BY <1>1, OneFewer
      <4>2. T \ {x} \in SUBSET S
        OBVIOUS
      <4> QED BY <1>3, <4>1, <4>2
    <3> QED BY <2>2, <3>1
  <2> QED BY <2>1, <2>2
<1>4. n \in Nat
  BY FS_CardinalityType
<1>5. n \in C
  <2>1. \A m \in Nat : m < n /\ m \in C => m + 1 \in C
    BY <1>3
  <2> HIDE DEF C, n
  <2> QED BY ONLY <1>2, <1>4, <2>1, SetInduction
<1> QED BY <1>1, <1>5

-----------------------------------------------------------------------------
(* Sums over finite sets *)

\* The sum of the values of f over S
Sum(f, S) == MapThenSumSet(LAMBDA x : f[x], S)

\* The element that a sum over T takes next
Pick(T) == CHOOSE x \in T : TRUE

\* it gives every subset of S its sum, elements taken in the order they are picked.
Sums(f, S, it) ==
    /\ it \in [SUBSET S -> Int]
    /\ \A T \in SUBSET S :
           it[T] = IF T = {} THEN 0 ELSE f[Pick(T)] + it[T \ {Pick(T)}]

\* What is picked is an element.
LEMMA PickFact == \A T : T # {} => Pick(T) \in T
BY DEF Pick

\* There is a function that does, so the sums are well defined.
LEMMA SumsExist ==
    ASSUME NEW S, IsFiniteSet(S), NEW f, \A x \in S : f[x] \in Int
    PROVE  \E it : Sums(f, S, it)
<1> DEFINE Next1(T, it) == IF T = {} THEN 0 ELSE f[Pick(T)] + it[T \ {Pick(T)}]
           C == {n \in Nat : \E it \in [SUBSET S -> Int] : \A T \in SUBSET S :
                                  Cardinality(T) <= n => it[T] = Next1(T, it)}
           n == Cardinality(S)
<1>1. \A T \in SUBSET S : IsFiniteSet(T) /\ Cardinality(T) \in Nat /\ Cardinality(T) <= n
  BY FS_Subset, FS_CardinalityType
<1>2. 0 \in C
  <2> DEFINE it == [T \in SUBSET S |-> 0]
  <2>1. it \in [SUBSET S -> Int]
    OBVIOUS
  <2>2. ASSUME NEW T \in SUBSET S, Cardinality(T) <= 0 PROVE it[T] = Next1(T, it)
    <3>1. T = {}
      BY <1>1, <2>2, FS_EmptySet
    <3> QED BY <3>1
  <2> QED BY <2>1, <2>2
<1>3. ASSUME NEW m \in Nat, m \in C PROVE m + 1 \in C
  <2>1. PICK it \in [SUBSET S -> Int] : \A T \in SUBSET S :
            Cardinality(T) <= m => it[T] = Next1(T, it)
    BY <1>3
  <2> DEFINE jt == [T \in SUBSET S |-> Next1(T, it)]
  <2>2. ASSUME NEW T \in SUBSET S PROVE Next1(T, it) \in Int
    BY PickFact
  <2>3. jt \in [SUBSET S -> Int]
    <3> HIDE DEF Next1
    <3> QED BY <2>2
  <2>4. ASSUME NEW T \in SUBSET S, Cardinality(T) <= m + 1 PROVE jt[T] = Next1(T, jt)
    <3>1. CASE T = {}
      BY <3>1
    <3>2. CASE T # {}
      <4> DEFINE p == Pick(T)
                 U == T \ {p}
      <4>1. p \in T
        BY <3>2, PickFact
      <4> HIDE DEF p
      <4>2. U \in SUBSET S /\ Cardinality(U) <= m
        BY <1>1, <2>4, <4>1, OneFewer
      <4>3. it[U] = jt[U]
        <5>1. it[U] = Next1(U, it)
          BY <2>1, <4>2
        <5> HIDE DEF U, Next1
        <5> QED BY <4>2, <5>1
      <4> QED BY <3>2, <4>3 DEF p
    <3> QED BY <3>1, <3>2
  <2>5. \E jt1 \in [SUBSET S -> Int] : \A T \in SUBSET S :
            Cardinality(T) <= m + 1 => jt1[T] = Next1(T, jt1)
    <3> HIDE DEF jt, Next1
    <3> QED BY <2>3, <2>4
  <2> HIDE DEF Next1
  <2> QED BY <2>5
<1>4. n \in Nat
  BY FS_CardinalityType
<1>5. n \in C
  <2>1. \A m \in Nat : m < n /\ m \in C => m + 1 \in C
    BY <1>3
  <2> HIDE DEF C, n
  <2> QED BY ONLY <1>2, <1>4, <2>1, SetInduction
<1>6. PICK it \in [SUBSET S -> Int] : \A T \in SUBSET S :
          Cardinality(T) <= n => it[T] = Next1(T, it)
  BY <1>5
<1> QED BY <1>1, <1>6 DEF Sums

\* g does so for the subsets of U.
Adds(f, U, g) ==
    g = [s \in SUBSET U |-> IF s = {} THEN 0 ELSE f[Pick(s)] + g[s \ {Pick(s)}]]

\* Both give the same sum.
LEMMA OneSum ==
    ASSUME NEW S, IsFiniteSet(S), NEW f, NEW it, Sums(f, S, it), NEW U \in SUBSET S,
           NEW g, Adds(f, U, g)
    PROVE  g[U] = it[U]
<1> DEFINE X == {T \in SUBSET U : g[T] = it[T]}
<1>1. \A T \in SUBSET U :
          T # {} => g[T] = f[Pick(T)] + g[T \ {Pick(T)}] /\ it[T] = f[Pick(T)] + it[T \ {Pick(T)}]
  BY DEF Sums, Adds
<1>2. {} \in X
  BY DEF Sums, Adds
<1>3. ASSUME NEW T \in SUBSET U, T # {}, \A x \in T : T \ {x} \in X
      PROVE  T \in X
  <2> DEFINE p == Pick(T)
  <2>1. p \in T
    BY <1>3, PickFact
  <2> HIDE DEF p
  <2>2. T \ {p} \in X
    BY <1>3, <2>1
  <2>3. g[T \ {p}] = it[T \ {p}]
    BY <2>2
  <2> QED BY <1>1, <1>3, <2>3 DEF p
<1>4. U \in X
  <2>1. IsFiniteSet(U) /\ U \in SUBSET U
    BY FS_Subset
  <2> HIDE DEF X
  <2> QED BY <1>2, <1>3, <2>1, SubsetInduction
<1> QED BY <1>4

(* The library chooses a function that satisfies its own equation; one     *)
(* does, so the sum is what the equation says.                             *)
LEMMA SumIs ==
    ASSUME NEW S, IsFiniteSet(S), NEW f, NEW it, Sums(f, S, it), NEW U \in SUBSET S
    PROVE  Sum(f, U) = it[U]
<1> DEFINE g == CHOOSE h : h = [s \in SUBSET U |->
                    IF s = {} THEN 0
                    ELSE f[CHOOSE x \in s : TRUE] + h[s \ {CHOOSE x \in s : TRUE}]]
<1>1. Sum(f, U) = g[U]
  BY Zenon DEF Sum, MapThenSumSet, MapThenFoldSet
<1>2. \E h : h = [s \in SUBSET U |->
                    IF s = {} THEN 0
                    ELSE f[CHOOSE x \in s : TRUE] + h[s \ {CHOOSE x \in s : TRUE}]]
  <2> DEFINE h == [s \in SUBSET U |-> it[s]]
  <2>1. h = [s \in SUBSET U |-> IF s = {} THEN 0 ELSE f[Pick(s)] + h[s \ {Pick(s)}]]
    BY DEF Sums
  <2> HIDE DEF h
  <2> QED BY <2>1, Zenon DEF Pick
<1>3. g = [s \in SUBSET U |->
               IF s = {} THEN 0
               ELSE f[CHOOSE x \in s : TRUE] + g[s \ {CHOOSE x \in s : TRUE}]]
  BY <1>2, Zenon
<1> HIDE DEF g
<1>4. Adds(f, U, g)
  BY <1>3, Zenon DEF Pick, Adds
<1> QED BY <1>1, <1>4, OneSum

\* A sum over a finite set is an integer, and may be taken in any order.
LEMMA SumFacts ==
    ASSUME NEW S, IsFiniteSet(S), NEW f, \A x \in S : f[x] \in Int
    PROVE  /\ Sum(f, {}) = 0
           /\ Sum(f, S) \in Int
           /\ \A x \in S : Sum(f, S) = f[x] + Sum(f, S \ {x})
<1>1. PICK it : Sums(f, S, it)
  BY SumsExist
<1>2. \A T \in SUBSET S : Sum(f, T) = it[T]
  BY <1>1, SumIs
<1>3. it \in [SUBSET S -> Int] /\ it[{}] = 0
  BY <1>1 DEF Sums
<1>4. \A T \in SUBSET S : T # {} => it[T] = f[Pick(T)] + it[T \ {Pick(T)}]
  BY <1>1 DEF Sums
<1> DEFINE X == {T \in SUBSET S : \A x \in T : it[T] = f[x] + it[T \ {x}]}
<1>5. {} \in X
  OBVIOUS
<1>6. ASSUME NEW T \in SUBSET S, T # {}, \A x \in T : T \ {x} \in X
      PROVE  T \in X
  <2> SUFFICES ASSUME NEW x \in T PROVE it[T] = f[x] + it[T \ {x}]
    OBVIOUS
  <2> DEFINE p == Pick(T)
  <2>1. p \in T
    BY PickFact
  <2>2. it[T] = f[p] + it[T \ {p}]
    BY <1>4
  <2> HIDE DEF p
  <2>3. CASE x = p
    BY <2>2, <2>3
  <2>4. CASE x # p
    <3>1. T \ {x} \in X /\ T \ {p} \in X
      BY <1>6, <2>1
    <3>2. it[T \ {x}] = f[p] + it[(T \ {x}) \ {p}]
      BY <2>1, <2>4, <3>1
    <3>3. it[T \ {p}] = f[x] + it[(T \ {p}) \ {x}]
      BY <2>1, <2>4, <3>1
    <3>4. (T \ {x}) \ {p} = (T \ {p}) \ {x}
      OBVIOUS
    <3>5. f[x] \in Int /\ f[p] \in Int /\ it[(T \ {x}) \ {p}] \in Int
      BY <1>3, <2>1
    <3> DEFINE a == it[(T \ {x}) \ {p}]
    <3>6. it[T \ {x}] = f[p] + a /\ it[T \ {p}] = f[x] + a
      BY <3>2, <3>3, <3>4
    <3>7. a \in Int
      BY <3>5
    <3> HIDE DEF X, a
    <3> QED BY <2>2, <3>5, <3>6, <3>7
  <2> QED BY <2>3, <2>4
<1>7. S \in X
  <2>1. S \in SUBSET S
    OBVIOUS
  <2> HIDE DEF X
  <2> QED BY <1>5, <1>6, <2>1, SubsetInduction
<1> QED BY SMTT(60), <1>2, <1>3, <1>7

\* An element may be taken out of a sum.
LEMMA TakeOne ==
    ASSUME NEW S, IsFiniteSet(S), NEW f, \A x \in S : f[x] \in Int, NEW y \in S
    PROVE  Sum(f, S) = f[y] + Sum(f, S \ {y})
<1>1. \A x \in S : Sum(f, S) = f[x] + Sum(f, S \ {x})
  BY ZenonT(60), SumFacts
<1> QED BY <1>1

\* Two elements may be taken out of a sum.
LEMMA TakeTwo ==
    ASSUME NEW S, IsFiniteSet(S), NEW f, \A x \in S : f[x] \in Int,
           NEW x \in S, NEW y \in S, x # y
    PROVE  /\ Sum(f, S \ {x, y}) \in Int
           /\ Sum(f, S) = f[x] + f[y] + Sum(f, S \ {x, y})
<1>1. IsFiniteSet(S \ {x}) /\ IsFiniteSet((S \ {x}) \ {y}) /\ y \in S \ {x}
  BY FS_Difference
<1>2. (S \ {x}) \ {y} = S \ {x, y}
  OBVIOUS
<1>3. Sum(f, S) = f[x] + Sum(f, S \ {x})
  BY SumFacts
<1>4. Sum(f, S \ {x}) = f[y] + Sum(f, (S \ {x}) \ {y})
  BY <1>1, SumFacts
<1>5. Sum(f, (S \ {x}) \ {y}) \in Int
  BY <1>1, SumFacts
<1> DEFINE a == Sum(f, S \ {x, y})
<1>6. Sum(f, S \ {x}) = f[y] + a /\ a \in Int /\ f[x] \in Int /\ f[y] \in Int
  BY <1>2, <1>4, <1>5
<1> HIDE DEF a
<1>7. a \in Int /\ Sum(f, S) = f[x] + f[y] + a
  BY <1>3, <1>6
<1> QED BY <1>7 DEF a

\* Sums add up term by term.
LEMMA SumOfSums ==
    ASSUME NEW S, IsFiniteSet(S),
           NEW f, NEW g, NEW h,
           \A x \in S : f[x] \in Int /\ g[x] \in Int /\ h[x] = f[x] + g[x]
    PROVE  Sum(h, S) = Sum(f, S) + Sum(g, S)
<1> DEFINE X == {T \in SUBSET S : Sum(h, T) = Sum(f, T) + Sum(g, T)}
<1>1. {} \in X
  <2>1. Sum(h, {}) = 0 /\ Sum(f, {}) = 0 /\ Sum(g, {}) = 0
    BY FS_EmptySet, SumFacts
  <2> QED BY <2>1
<1>2. ASSUME NEW T \in SUBSET S, T # {}, \A x \in T : T \ {x} \in X
      PROVE  T \in X
  <2>1. PICK x \in T : TRUE
    BY <1>2
  <2> DEFINE U == T \ {x}
  <2>2. IsFiniteSet(T) /\ IsFiniteSet(U)
    BY FS_Subset
  <2>3. \A y \in S : h[y] \in Int
    OBVIOUS
  <2>4. Sum(f, T) = f[x] + Sum(f, U) /\ Sum(g, T) = g[x] + Sum(g, U)
        /\ Sum(h, T) = h[x] + Sum(h, U)
    BY ZenonT(60), <2>2, <2>3, SumFacts
  <2>5. Sum(f, U) \in Int /\ Sum(g, U) \in Int
    BY <2>2, SumFacts
  <2>6. Sum(h, U) = Sum(f, U) + Sum(g, U)
    BY <1>2
  <2>7. f[x] \in Int /\ g[x] \in Int /\ h[x] = f[x] + g[x]
    OBVIOUS
  <2> HIDE DEF U
  <2> QED BY <2>4, <2>5, <2>6, <2>7
<1>3. S \in X
  <2>1. S \in SUBSET S
    OBVIOUS
  <2> HIDE DEF X
  <2> QED BY <1>1, <1>2, <2>1, SubsetInduction
<1> QED BY <1>3

\* A common factor may be taken out.
LEMMA SumScales ==
    ASSUME NEW S, IsFiniteSet(S), NEW q \in Int,
           NEW f, NEW h, \A x \in S : f[x] \in Int /\ h[x] = q * f[x]
    PROVE  Sum(h, S) = q * Sum(f, S)
<1> DEFINE X == {T \in SUBSET S : Sum(h, T) = q * Sum(f, T)}
<1>1. {} \in X
  <2>1. Sum(h, {}) = 0 /\ Sum(f, {}) = 0
    BY FS_EmptySet, SumFacts
  <2> QED BY <2>1
<1>2. ASSUME NEW T \in SUBSET S, T # {}, \A x \in T : T \ {x} \in X
      PROVE  T \in X
  <2>1. PICK x \in T : TRUE
    BY <1>2
  <2> DEFINE U == T \ {x}
  <2>2. IsFiniteSet(T) /\ IsFiniteSet(U)
    BY FS_Subset
  <2>3. \A y \in S : h[y] \in Int
    OBVIOUS
  <2>4. Sum(f, T) = f[x] + Sum(f, U) /\ Sum(h, T) = h[x] + Sum(h, U)
    BY <2>2, <2>3, SumFacts
  <2>5. Sum(f, U) \in Int
    BY <2>2, SumFacts
  <2>6. Sum(h, U) = q * Sum(f, U)
    BY <1>2
  <2>7. f[x] \in Int /\ h[x] = q * f[x]
    OBVIOUS
  <2> HIDE DEF U
  <2>8. \A a, b \in Int : q * a + q * b = q * (a + b)
    OBVIOUS
  <2> QED BY <2>4, <2>5, <2>6, <2>7, <2>8
<1>3. S \in X
  <2>1. S \in SUBSET S
    OBVIOUS
  <2> HIDE DEF X
  <2> QED BY <1>1, <1>2, <2>1, SubsetInduction
<1> QED BY <1>3

\* Sums of equal terms are equal.
LEMMA SameTerms ==
    ASSUME NEW S, IsFiniteSet(S), NEW f, NEW h, \A x \in S : f[x] \in Int /\ h[x] = f[x]
    PROVE  Sum(h, S) = Sum(f, S)
<1>1. \A x \in S : f[x] \in Int /\ h[x] = 1 * f[x]
  OBVIOUS
<1>2. Sum(h, S) = 1 * Sum(f, S)
  BY <1>1, SumScales
<1>3. Sum(f, S) \in Int
  BY SumFacts
<1> QED BY <1>2, <1>3

\* A sum of naturals is a natural.
LEMMA SumOfNats ==
    ASSUME NEW S, IsFiniteSet(S), NEW f, \A x \in S : f[x] \in Nat
    PROVE  Sum(f, S) \in Nat
<1> DEFINE X == {T \in SUBSET S : Sum(f, T) \in Nat}
<1>1. {} \in X
  BY FS_EmptySet, SumFacts
<1>2. ASSUME NEW T \in SUBSET S, T # {}, \A x \in T : T \ {x} \in X
      PROVE  T \in X
  <2>1. PICK x \in T : TRUE
    BY <1>2
  <2>2. IsFiniteSet(T) /\ \A y \in T : f[y] \in Int
    BY FS_Subset
  <2>3. Sum(f, T) = f[x] + Sum(f, T \ {x})
    BY <2>2, SumFacts
  <2> QED BY <1>2, <2>3
<1>3. S \in X
  <2>1. S \in SUBSET S
    OBVIOUS
  <2> HIDE DEF X
  <2> QED BY <1>1, <1>2, <2>1, SubsetInduction
<1> QED BY <1>3

\* A sum splits over disjoint sets.
LEMMA SumSplits ==
    ASSUME NEW S, IsFiniteSet(S), NEW T, IsFiniteSet(T), S \cap T = {},
           NEW f, \A x \in S \cup T : f[x] \in Int
    PROVE  Sum(f, S \cup T) = Sum(f, S) + Sum(f, T)
<1> DEFINE X == {U \in SUBSET S : Sum(f, U \cup T) = Sum(f, U) + Sum(f, T)}
<1>0. Sum(f, T) \in Int
  BY SumFacts
<1>1. {} \in X
  <2>1. Sum(f, {}) = 0 /\ {} \cup T = T
    BY FS_EmptySet, SumFacts
  <2> QED BY <1>0, <2>1
<1>2. ASSUME NEW U \in SUBSET S, U # {}, \A x \in U : U \ {x} \in X
      PROVE  U \in X
  <2>1. PICK x \in U : TRUE
    BY <1>2
  <2> DEFINE V == U \ {x}
             W == U \cup T
  <2>2. IsFiniteSet(U) /\ IsFiniteSet(V) /\ IsFiniteSet(W) /\ W \ {x} = V \cup T /\ x \in W
    BY FS_Subset, FS_Union
  <2>3. Sum(f, U) = f[x] + Sum(f, V)
    BY <2>2, SumFacts
  <2>4. (\A y \in W : f[y] \in Int) /\ f[x] \in Int
    OBVIOUS
  <2>5. Sum(f, V) \in Int
    BY <2>2, SumFacts
  <2>6. Sum(f, V \cup T) = Sum(f, V) + Sum(f, T)
    BY <1>2
  <2> HIDE DEF W
  <2>7. Sum(f, W) = f[x] + Sum(f, W \ {x})
    BY <2>2, <2>4, SumFacts
  <2> HIDE DEF V
  <2>8. Sum(f, W) = f[x] + (Sum(f, V) + Sum(f, T))
    BY <2>2, <2>6, <2>7
  <2>9. Sum(f, W) = Sum(f, U) + Sum(f, T)
    BY <1>0, <2>3, <2>4, <2>5, <2>8
  <2> QED BY <2>9 DEF W
<1>3. S \in X
  <2>1. S \in SUBSET S
    OBVIOUS
  <2> HIDE DEF X
  <2> QED BY <1>1, <1>2, <2>1, SubsetInduction
<1> QED BY <1>3

\* p maps S onto R, one to one.
OneToOne(p, S, R) ==
    /\ \A x \in S : p[x] \in R
    /\ \A x, y \in S : p[x] = p[y] => x = y
    /\ \A y \in R : \E x \in S : y = p[x]

\* A sum over one set is that over another it is mapped onto, one to one.
LEMMA SumRenames ==
    ASSUME NEW S, IsFiniteSet(S), NEW R, NEW p, OneToOne(p, S, R),
           NEW f, NEW g, \A x \in S : f[x] \in Int /\ g[p[x]] = f[x]
    PROVE  Sum(g, R) = Sum(f, S)
<1> DEFINE P(T) == {p[x] : x \in T}
           X == {T \in SUBSET S : IsFiniteSet(P(T)) /\ Sum(g, P(T)) = Sum(f, T)}
<1>0. \A x, y \in S : p[x] = p[y] => x = y
  BY DEF OneToOne
<1>1. {} \in X
  <2>1. Sum(f, {}) = 0 /\ Sum(g, {}) = 0 /\ P({}) = {} /\ IsFiniteSet({})
    BY FS_EmptySet, SumFacts
  <2> HIDE DEF P
  <2> QED BY <2>1
<1>2. ASSUME NEW U \in SUBSET S, U # {}, \A x \in U : U \ {x} \in X
      PROVE  U \in X
  <2>1. PICK x \in U : TRUE
    BY <1>2
  <2> DEFINE V == U \ {x}
             Q == P(U)
  <2>2. IsFiniteSet(U) /\ IsFiniteSet(V)
    BY FS_Subset
  <2>3. IsFiniteSet(Q)
    <3>1. Q = P(V) \cup {p[x]}
      OBVIOUS
    <3>2. IsFiniteSet(P(V))
      BY <1>2
    <3> HIDE DEF P, V, Q
    <3> QED BY <3>1, <3>2, FS_AddElement
  <2>4. Q \ {p[x]} = P(V) /\ p[x] \in Q
    BY <1>0
  <2>5. Sum(f, U) = f[x] + Sum(f, V)
    BY <2>2, SumFacts
  <2>6. \A y \in Q : g[y] \in Int
    OBVIOUS
  <2>7. Sum(g, P(V)) = Sum(f, V)
    BY <1>2
  <2> HIDE DEF Q, V, P
  <2>8. Sum(g, Q) = g[p[x]] + Sum(g, Q \ {p[x]})
    BY ZenonT(60), <2>3, <2>4, <2>6, SumFacts
  <2>9. g[p[x]] = f[x]
    OBVIOUS
  <2>10. Sum(g, Q) = Sum(f, U)
    BY <2>4, <2>5, <2>7, <2>8, <2>9
  <2> QED BY <2>3, <2>10 DEF Q
<1>3. S \in X
  <2>1. S \in SUBSET S
    OBVIOUS
  <2> HIDE DEF X
  <2> QED BY <1>1, <1>2, <2>1, SubsetInduction
<1>4. P(S) = R
  BY DEF OneToOne
<1>5. Sum(g, P(S)) = Sum(f, S)
  BY <1>3
<1> QED BY <1>4, <1>5, Zenon

(* The powers of two, from what is known of the size of power sets.        *)
LEMMA Powers == \A n \in Nat : 2 ^ n \in Nat \ {0} /\ 2 ^ (n + 1) = 2 * 2 ^ n
<1> SUFFICES ASSUME NEW n \in Nat PROVE 2 ^ n \in Nat \ {0} /\ 2 ^ (n + 1) = 2 * 2 ^ n
  OBVIOUS
<1> DEFINE S == 1 .. n
           T == 1 .. n + 1
           A == SUBSET S
           B == {U \cup {n + 1} : U \in A}
<1>1. /\ IsFiniteSet(S) /\ Cardinality(S) = n
      /\ IsFiniteSet(T) /\ Cardinality(T) = n + 1
  BY FS_Interval
<1>2. /\ IsFiniteSet(A) /\ Cardinality(A) = 2 ^ n
      /\ Cardinality(SUBSET T) = 2 ^ (n + 1)
  <2> HIDE DEF S, T
  <2> QED BY <1>1, FS_SUBSET
<1>3. SUBSET T = A \cup B
  <2>1. \A U \in SUBSET T : n + 1 \in U => U \ {n + 1} \in A /\ U = (U \ {n + 1}) \cup {n + 1}
    OBVIOUS
  <2>2. \A U \in SUBSET T : n + 1 \notin U => U \in A
    OBVIOUS
  <2>3. \A U \in A : U \cup {n + 1} \in SUBSET T /\ U \in SUBSET T
    OBVIOUS
  <2> HIDE DEF S, T, A
  <2>4. SUBSET T \subseteq A \cup B
    <3> SUFFICES ASSUME NEW U \in SUBSET T PROVE U \in A \cup B
      OBVIOUS
    <3>1. CASE n + 1 \in U
      <4>1. U \ {n + 1} \in A /\ U = (U \ {n + 1}) \cup {n + 1}
        BY <2>1, <3>1
      <4> QED BY <4>1
    <3>2. CASE n + 1 \notin U
      BY <2>2, <3>2
    <3> QED BY <3>1, <3>2
  <2>5. A \cup B \subseteq SUBSET T
    BY <2>3
  <2> QED BY <2>4, <2>5
<1>4. A \cap B = {}
  OBVIOUS
<1>5. IsFiniteSet(B) /\ Cardinality(B) = Cardinality(A)
  <2> DEFINE f == [U \in A |-> U \cup {n + 1}]
  <2>1. f \in Bijection(A, B)
    <3>1. \A U, V \in A : U \cup {n + 1} = V \cup {n + 1} => U = V
      <4>1. \A U \in A : n + 1 \notin U
        OBVIOUS
      <4>2. \A U \in A : (U \cup {n + 1}) \ {n + 1} = U
        BY <4>1
      <4> HIDE DEF A
      <4> QED BY <4>2
    <3>2. f \in [A -> B]
      OBVIOUS
    <3>3. \A U, V \in A : f[U] = f[V] => U = V
      <4> HIDE DEF A
      <4> QED BY <3>1
    <3>4. \A V \in B : \E U \in A : f[U] = V
      OBVIOUS
    <3> HIDE DEF A, B, f
    <3> QED BY <3>2, <3>3, <3>4 DEF Bijection, Injection, Surjection, IsInjective
  <2> HIDE DEF A, B, f
  <2>2. ExistsBijection(A, B)
    BY <2>1 DEF ExistsBijection
  <2> QED BY <1>2, <2>2, FS_Bijection
<1>6. Cardinality(SUBSET T) = Cardinality(A) + Cardinality(B)
  <2> HIDE DEF A, B, S, T
  <2>1. IsFiniteSet(A \cap B) /\ Cardinality(A \cap B) = 0
    BY <1>4, FS_EmptySet
  <2>2. Cardinality(A) \in Nat /\ Cardinality(B) \in Nat
    BY <1>2, <1>5, FS_CardinalityType
  <2>3. Cardinality(A \cup B) = Cardinality(A) + Cardinality(B) - Cardinality(A \cap B)
    BY <1>2, <1>5, FS_Union
  <2>4. Cardinality(SUBSET T) = Cardinality(A \cup B)
    BY <1>3, Zenon
  <2> QED BY <2>1, <2>2, <2>3, <2>4
<1>7. Cardinality(A) \in Nat /\ Cardinality(A) # 0
  <2>1. S \in A
    OBVIOUS
  <2> HIDE DEF A
  <2> QED BY <1>2, <2>1, FS_CardinalityType, FS_EmptySet
<1> HIDE DEF A, B, S, T
<1> QED BY <1>2, <1>5, <1>6, <1>7

\* Powers of two multiply by adding their exponents.
LEMMA PowersAdd == \A a, b \in Nat : 2 ^ (a + b) = 2 ^ a * 2 ^ b
<1> SUFFICES ASSUME NEW a \in Nat, NEW b \in Nat PROVE 2 ^ (a + b) = 2 ^ a * 2 ^ b
  OBVIOUS
<1> DEFINE S == {n \in Nat : 2 ^ (a + n) = 2 ^ a * 2 ^ n}
<1>1. 0 \in S
  <2>1. 2 ^ a \in Nat /\ 2 ^ 0 = 1
    BY Powers
  <2> QED BY <2>1
<1>2. ASSUME NEW n \in Nat, n \in S PROVE n + 1 \in S
  <2> DEFINE c == a + n
  <2>1. 2 ^ c = 2 ^ a * 2 ^ n /\ c \in Nat /\ c + 1 = a + (n + 1)
    BY <1>2
  <2> HIDE DEF c
  <2>2. 2 ^ (c + 1) = 2 * 2 ^ c /\ 2 ^ (n + 1) = 2 * 2 ^ n /\ 2 ^ a \in Nat /\ 2 ^ n \in Nat
    BY <2>1, Powers
  <2>3. \A x, y \in Nat : 2 * (x * y) = x * (2 * y)
    OBVIOUS
  <2>4. 2 ^ (c + 1) = 2 ^ a * 2 ^ (n + 1)
    BY <2>1, <2>2, <2>3
  <2>5. 2 ^ (a + (n + 1)) = 2 ^ a * 2 ^ (n + 1)
    BY <2>1, <2>4
  <2> QED BY <2>5
<1>3. b \in S
  <2> HIDE DEF S
  <2> QED BY <1>1, <1>2, SetInduction
<1> QED BY <1>3

-----------------------------------------------------------------------------
(* The exchange argument, for any words and counts *)

\* What words of m[h] bits take of the 2 ^ M words of M bits
Shares(m, M, H) == [h \in H |-> 2 ^ (M - m[h])]

\* Kraft: there is room for words of these lengths.
Fits(m, M, H) == m \in [H -> 0 .. M] /\ Sum(Shares(m, M, H), H) <= 2 ^ M

\* The bits of words of m[h] bits, each used cnt[h] times
Uses(cnt, m, H) == [h \in H |-> cnt[h] * m[h]]

\* All of them
Bits(cnt, m, H) == Sum(Uses(cnt, m, H), H)

\* Every word takes something.
LEMMA ShareType ==
    ASSUME NEW H, NEW M \in Nat, NEW m \in [H -> 0 .. M]
    PROVE  \A h \in H : Shares(m, M, H)[h] = 2 ^ (M - m[h]) /\ Shares(m, M, H)[h] \in Nat \ {0}
<1> SUFFICES ASSUME NEW h \in H PROVE 2 ^ (M - m[h]) \in Nat \ {0}
  BY DEF Shares
<1> DEFINE e == M - m[h]
<1>1. e \in Nat
  OBVIOUS
<1> HIDE DEF e
<1>2. 2 ^ e \in Nat \ {0}
  BY <1>1, Powers
<1> QED BY <1>2 DEF e

\* A use is some bits.
LEMMA UseType ==
    ASSUME NEW H, NEW cnt \in [H -> Nat], NEW m \in [H -> Nat]
    PROVE  \A h \in H : Uses(cnt, m, H)[h] = cnt[h] * m[h] /\ Uses(cnt, m, H)[h] \in Nat
BY DEF Uses

(* Giving the longer of two words to the rarer one costs nothing.          *)
LEMMA Swap ==
    ASSUME NEW H, IsFiniteSet(H), NEW cnt \in [H -> Nat], NEW M \in Nat,
           NEW m, Fits(m, M, H),
           NEW a \in H, NEW b \in H, cnt[a] <= cnt[b], m[a] <= m[b]
    PROVE  \E m2 : /\ Fits(m2, M, H)
                   /\ Bits(cnt, m2, H) <= Bits(cnt, m, H)
                   /\ m2[a] = m[b] /\ m2[b] = m[a]
                   /\ \A h \in H \ {a, b} : m2[h] = m[h]
<1> DEFINE m2 == [m EXCEPT ![a] = m[b], ![b] = m[a]]
           R == H \ {a, b}
<1>1. m \in [H -> 0 .. M] /\ m2 \in [H -> 0 .. M] /\ m \in [H -> Nat] /\ m2 \in [H -> Nat]
  BY DEF Fits
<1>2. m2[a] = m[b] /\ m2[b] = m[a] /\ \A h \in R : m2[h] = m[h]
  BY <1>1
<1> HIDE DEF m2
<1>3. IsFiniteSet(R) /\ R \subseteq H
  BY FS_Difference
<1> DEFINE s == Shares(m, M, H)
           s2 == Shares(m2, M, H)
           u == Uses(cnt, m, H)
           u2 == Uses(cnt, m2, H)
<1>4. \A h \in H : /\ s[h] = 2 ^ (M - m[h]) /\ s[h] \in Int
                   /\ s2[h] = 2 ^ (M - m2[h]) /\ s2[h] \in Int
  BY <1>1, ShareType
<1>5. \A h \in H : /\ u[h] = cnt[h] * m[h] /\ u[h] \in Int
                   /\ u2[h] = cnt[h] * m2[h] /\ u2[h] \in Int
  BY <1>1, UseType
<1> HIDE DEF s, s2, u, u2, R
<1>6. Sum(s2, R) = Sum(s, R) /\ Sum(s, R) \in Int /\ Sum(u2, R) = Sum(u, R) /\ Sum(u, R) \in Int
  <2>1. \A h \in R : s[h] \in Int /\ s2[h] = s[h] /\ u[h] \in Int /\ u2[h] = u[h]
    BY <1>2, <1>3, <1>4, <1>5
  <2>2. Sum(s2, R) = Sum(s, R) /\ Sum(u2, R) = Sum(u, R)
    BY <1>3, <2>1, SameTerms
  <2>3. Sum(s, R) \in Int /\ Sum(u, R) \in Int
    BY <1>3, <2>1, SumFacts
  <2> QED BY <2>2, <2>3
<1>7. CASE a = b
  <2>1. m2 = m
    BY <1>7 DEF m2, Fits
  <2>2. Bits(cnt, m, H) \in Int
    BY <1>5, SumFacts DEF Bits, u
  <2> QED BY <1>2, <1>7, <2>1, <2>2 DEF R
<1>8. CASE a # b
  <2>1. Sum(s, H) = s[a] + s[b] + Sum(s, R) /\ Sum(s2, H) = s2[a] + s2[b] + Sum(s2, R)
    BY <1>4, <1>8, TakeTwo DEF R
  <2>2. Sum(u, H) = u[a] + u[b] + Sum(u, R) /\ Sum(u2, H) = u2[a] + u2[b] + Sum(u2, R)
    BY <1>5, <1>8, TakeTwo DEF R
  <2>3. s2[a] = s[b] /\ s2[b] = s[a] /\ s[a] \in Int /\ s[b] \in Int
    BY <1>2, <1>4
  <2>4. Sum(s2, H) = Sum(s, H)
    BY <1>6, <2>1, <2>3
  <2>5. u[a] = cnt[a] * m[a] /\ u[b] = cnt[b] * m[b]
        /\ u2[a] = cnt[a] * m[b] /\ u2[b] = cnt[b] * m[a]
    BY <1>2, <1>5
  <2>6. \A x, y, p, q \in Nat : x <= y /\ p <= q => x * q + y * p <= x * p + y * q
    <3> SUFFICES ASSUME NEW x \in Nat, NEW y \in Nat, NEW p \in Nat, NEW q \in Nat,
                        x <= y, p <= q
                 PROVE  x * q + y * p <= x * p + y * q
      OBVIOUS
    <3>1. (y - x) * (q - p) >= 0
      OBVIOUS
    <3>2. (y - x) * (q - p) = (x * p + y * q) - (x * q + y * p)
      OBVIOUS
    <3> QED BY <3>1, <3>2
  <2>7. u2[a] + u2[b] <= u[a] + u[b]
    <3>1. cnt[a] \in Nat /\ cnt[b] \in Nat /\ m[a] \in Nat /\ m[b] \in Nat
      BY <1>1
    <3> QED BY <2>5, <2>6, <3>1
  <2>8. Sum(u2, H) <= Sum(u, H)
    <3>1. u[a] \in Int /\ u[b] \in Int /\ u2[a] \in Int /\ u2[b] \in Int
      BY <1>5
    <3> QED BY <1>6, <2>2, <2>7, <3>1
  <2>9. Fits(m2, M, H) /\ Bits(cnt, m2, H) <= Bits(cnt, m, H)
    BY <1>1, <2>4, <2>8 DEF Fits, Bits, s, s2, u, u2
  <2> QED BY <1>2, <2>9 DEF R
<1> QED BY <1>7, <1>8

\* Some element is the largest.
LEMMA Largest ==
    ASSUME NEW H, IsFiniteSet(H), NEW m, \A h \in H : m[h] \in Int, H # {}
    PROVE  \E a \in H : \A h \in H : m[h] <= m[a]
<1> DEFINE X == {T \in SUBSET H : T # {} => \E a \in T : \A h \in T : m[h] <= m[a]}
<1>1. {} \in X
  OBVIOUS
<1>2. ASSUME NEW T \in SUBSET H, T # {}, \A x \in T : T \ {x} \in X
      PROVE  T \in X
  <2>1. PICK x \in T : TRUE
    BY <1>2
  <2> SUFFICES \E a \in T : \A h \in T : m[h] <= m[a]
    OBVIOUS
  <2>2. CASE T \ {x} = {}
    <3>1. \A h \in T : h = x
      BY <2>2
    <3> QED BY <3>1
  <2>3. CASE T \ {x} # {}
    <3>1. PICK a \in T \ {x} : \A h \in T \ {x} : m[h] <= m[a]
      BY <1>2, <2>3
    <3>2. CASE m[x] <= m[a]
      BY <3>1, <3>2
    <3>3. CASE ~(m[x] <= m[a])
      <4>1. ASSUME NEW h \in T PROVE m[h] <= m[x]
        BY <3>1, <3>3
      <4> QED BY <4>1
    <3> QED BY <3>2, <3>3
  <2> QED BY <2>2, <2>3
<1>3. H \in X
  <2>1. H \in SUBSET H
    OBVIOUS
  <2> HIDE DEF X
  <2> QED BY <1>1, <1>2, <2>1, SubsetInduction
<1> QED BY <1>3

(* A word longer than all others may be cut to the length of the second    *)
(* longest: what the others take is a multiple of what such a word takes.  *)
LEMMA Cut ==
    ASSUME NEW H, IsFiniteSet(H), NEW cnt \in [H -> Nat], NEW M \in Nat,
           NEW m, Fits(m, M, H),
           NEW l \in H, NEW d \in 0 .. M, d <= m[l], \A h \in H \ {l} : m[h] <= d
    PROVE  \E m2 : /\ Fits(m2, M, H)
                   /\ Bits(cnt, m2, H) <= Bits(cnt, m, H)
                   /\ m2[l] = d
                   /\ \A h \in H \ {l} : m2[h] = m[h]
<1> DEFINE m2 == [m EXCEPT ![l] = d]
           R == H \ {l}
<1>1. m \in [H -> 0 .. M] /\ m2 \in [H -> 0 .. M] /\ m \in [H -> Nat] /\ m2 \in [H -> Nat]
  BY DEF Fits
<1>2. m2[l] = d /\ \A h \in R : m2[h] = m[h]
  BY <1>1
<1>3. IsFiniteSet(R) /\ R \subseteq H
  BY FS_Difference
<1> HIDE DEF m2
<1> DEFINE s == Shares(m, M, H)
           s2 == Shares(m2, M, H)
           u == Uses(cnt, m, H)
           u2 == Uses(cnt, m2, H)
<1>4. \A h \in H : /\ s[h] = 2 ^ (M - m[h]) /\ s[h] \in Nat \ {0}
                   /\ s2[h] = 2 ^ (M - m2[h]) /\ s2[h] \in Nat \ {0}
  BY <1>1, ShareType
<1>5. \A h \in H : /\ u[h] = cnt[h] * m[h] /\ u[h] \in Int
                   /\ u2[h] = cnt[h] * m2[h] /\ u2[h] \in Int
  BY <1>1, UseType
<1>6. Sum(s, H) <= 2 ^ M
  BY DEF Fits
<1> HIDE DEF s, s2, u, u2
<1>7. /\ Sum(s2, R) = Sum(s, R) /\ Sum(s, R) \in Int /\ Sum(u2, R) = Sum(u, R) /\ Sum(u, R) \in Int
      /\ Sum(s, H) = s[l] + Sum(s, R) /\ Sum(s2, H) = s2[l] + Sum(s2, R)
      /\ Sum(u, H) = u[l] + Sum(u, R) /\ Sum(u2, H) = u2[l] + Sum(u2, R)
  <2>1. \A h \in R : s[h] \in Int /\ s2[h] = s[h] /\ u[h] \in Int /\ u2[h] = u[h]
    BY <1>2, <1>3, <1>4, <1>5
  <2>2. Sum(s2, R) = Sum(s, R) /\ Sum(u2, R) = Sum(u, R)
    <3> HIDE DEF R
    <3> QED BY <1>3, <2>1, SameTerms
  <2>3. Sum(s, R) \in Int /\ Sum(u, R) \in Int
    <3> HIDE DEF R
    <3> QED BY <1>3, <2>1, SumFacts
  <2>4. /\ Sum(s, H) = s[l] + Sum(s, R) /\ Sum(s2, H) = s2[l] + Sum(s2, R)
        /\ Sum(u, H) = u[l] + Sum(u, R) /\ Sum(u2, H) = u2[l] + Sum(u2, R)
    <3>1. \A h \in H : s[h] \in Int /\ s2[h] \in Int /\ u[h] \in Int /\ u2[h] \in Int
      BY <1>4, <1>5
    <3>2. Sum(s, H) = s[l] + Sum(s, R)
      BY ZenonT(60), <3>1, SumFacts
    <3>3. Sum(s2, H) = s2[l] + Sum(s2, R)
      BY ZenonT(60), <3>1, SumFacts
    <3>4. Sum(u, H) = u[l] + Sum(u, R)
      BY ZenonT(60), <3>1, SumFacts
    <3>5. Sum(u2, H) = u2[l] + Sum(u2, R)
      BY ZenonT(60), <3>1, SumFacts
    <3> QED BY <3>2, <3>3, <3>4, <3>5
  <2> QED BY <2>2, <2>3, <2>4
<1> HIDE DEF R
<1>8. Sum(u2, H) <= Sum(u, H)
  <2>1. \A x, p, q \in Nat : p <= q => x * p <= x * q
    OBVIOUS
  <2>2. cnt[l] \in Nat /\ m[l] \in Nat /\ d \in Nat
    BY <1>1
  <2>3. u2[l] <= u[l]
    BY <1>2, <1>5, <2>1, <2>2
  <2> QED BY <1>5, <1>7, <2>3
<1>9. Sum(s2, H) <= 2 ^ M
  <2> DEFINE Q == 2 ^ (M - d)
             D == 2 ^ d
             g == [h \in R |-> 2 ^ (d - m[h])]
  <2>1. Q \in Nat \ {0} /\ D \in Nat \ {0} /\ 2 ^ M = Q * D
    <3> DEFINE e == M - d
    <3>1. e \in Nat /\ d \in Nat /\ M = e + d
      OBVIOUS
    <3> HIDE DEF e
    <3>2. 2 ^ e \in Nat \ {0} /\ 2 ^ d \in Nat \ {0} /\ 2 ^ (e + d) = 2 ^ e * 2 ^ d
      BY <3>1, Powers, PowersAdd
    <3>3. 2 ^ M = 2 ^ e * 2 ^ d
      BY <3>1, <3>2
    <3> QED BY <3>2, <3>3 DEF e
  <2>2. \A h \in R : g[h] \in Int /\ s[h] = Q * g[h]
    <3> SUFFICES ASSUME NEW h \in R PROVE g[h] \in Int /\ s[h] = Q * g[h]
      OBVIOUS
    <3> DEFINE e == M - d
               c == d - m[h]
    <3>1. e \in Nat /\ c \in Nat /\ M - m[h] = e + c
      BY <1>1, <1>3 DEF R
    <3>2. s[h] = 2 ^ (M - m[h])
      BY <1>3, <1>4
    <3> HIDE DEF e, c
    <3>3. 2 ^ c \in Nat /\ 2 ^ (e + c) = 2 ^ e * 2 ^ c
      BY <3>1, Powers, PowersAdd
    <3>4. s[h] = 2 ^ e * 2 ^ c
      BY <3>1, <3>2, <3>3
    <3>5. g[h] = 2 ^ c
      BY DEF c
    <3> QED BY <3>3, <3>4, <3>5 DEF e
  <2>3. s2[l] = Q
    BY <1>2, <1>4
  <2> HIDE DEF Q, D, g
  <2> DEFINE G == Sum(g, R)
  <2>4. Sum(s, R) = Q * G /\ G \in Int
    <3>1. Q \in Int
      BY <2>1
    <3> QED BY <1>3, <2>2, <3>1, SumScales, SumFacts
  <2> HIDE DEF G
  <2>5. s[l] + Q * G <= Q * D
    BY <1>6, <1>7, <2>1, <2>4
  <2>6. Q * G < Q * D
    <3>1. s[l] \in Nat \ {0}
      BY <1>4
    <3> QED BY <2>1, <2>4, <2>5, <3>1
  <2>7. \A q \in Nat \ {0} : \A x, y \in Int : q * x < q * y => q + q * x <= q * y
    <3> SUFFICES ASSUME NEW q \in Nat \ {0}, NEW x \in Int, NEW y \in Int, q * x < q * y
                 PROVE  q + q * x <= q * y
      OBVIOUS
    <3>1. x < y
      <4> SUFFICES ASSUME y <= x PROVE FALSE
        OBVIOUS
      <4>1. q * (x - y) >= 0
        OBVIOUS
      <4>2. q * (x - y) = q * x - q * y
        OBVIOUS
      <4> QED BY <4>1, <4>2
    <3>2. q * (y - (x + 1)) >= 0
      BY <3>1
    <3>3. q * (y - (x + 1)) = q * y - (q + q * x)
      OBVIOUS
    <3> QED BY <3>2, <3>3
  <2>8. Q + Q * G <= Q * D
    BY <2>1, <2>4, <2>6, <2>7
  <2> QED BY <1>7, <2>1, <2>3, <2>4, <2>8
<1>10. Fits(m2, M, H) /\ Bits(cnt, m2, H) <= Bits(cnt, m, H)
  BY <1>1, <1>8, <1>9 DEF Fits, Bits, s2, u, u2
<1> QED BY <1>2, <1>10 DEF R

(* The two rarest may have the longest words, and of one length.           *)
LEMMA Siblings ==
    ASSUME NEW H, IsFiniteSet(H), NEW cnt \in [H -> Nat], NEW M \in Nat,
           NEW m, Fits(m, M, H),
           NEW l \in H, NEW r \in H, l # r, cnt[l] <= cnt[r],
           \A h \in H \ {l, r} : cnt[r] <= cnt[h]
    PROVE  \E m2 : /\ Fits(m2, M, H)
                   /\ Bits(cnt, m2, H) <= Bits(cnt, m, H)
                   /\ m2[l] = m2[r]
                   /\ m2[r] >= 1
<1>0. ASSUME NEW n, Fits(n, M, H)
      PROVE  /\ n \in [H -> 0 .. M] /\ n \in [H -> Nat] /\ Bits(cnt, n, H) \in Int
             /\ \A h \in H : n[h] \in Nat /\ n[h] \in 0 .. M
  <2>1. n \in [H -> 0 .. M] /\ n \in [H -> Nat]
    BY <1>0 DEF Fits
  <2>2. \A h \in H : Uses(cnt, n, H)[h] \in Int
    BY <2>1, UseType
  <2>3. Sum(Uses(cnt, n, H), H) \in Int
    BY <2>2, SumFacts
  <2> QED BY <2>1, <2>3 DEF Bits
<1>1. \E n : /\ Fits(n, M, H)
             /\ Bits(cnt, n, H) <= Bits(cnt, m, H)
             /\ \A h \in H : n[h] <= n[l]
  <2>1. m \in [H -> Nat]
    BY <1>0
  <2>2. PICK a \in H : \A h \in H : m[h] <= m[a]
    BY <2>1, Largest
  <2>3. cnt[l] <= cnt[a]
    <3>1. cnt[l] \in Nat /\ cnt[r] \in Nat /\ cnt[a] \in Nat
      OBVIOUS
    <3> QED BY <3>1
  <2>4. m[l] <= m[a]
    BY <2>2
  <2>5. PICK n : /\ Fits(n, M, H)
                 /\ Bits(cnt, n, H) <= Bits(cnt, m, H)
                 /\ n[l] = m[a] /\ n[a] = m[l]
                 /\ \A h \in H \ {l, a} : n[h] = m[h]
    BY <2>3, <2>4, Swap
  <2>6. \A h \in H : n[h] <= n[l]
    BY <2>1, <2>2, <2>5
  <2> QED BY <2>5, <2>6
<1>2. PICK n : /\ Fits(n, M, H)
               /\ Bits(cnt, n, H) <= Bits(cnt, m, H)
               /\ \A h \in H : n[h] <= n[l]
  BY <1>1
<1>3. \E k : /\ Fits(k, M, H)
             /\ Bits(cnt, k, H) <= Bits(cnt, n, H)
             /\ k[r] <= k[l]
             /\ \A h \in H \ {l} : k[h] <= k[r]
  <2> DEFINE R == H \ {l}
  <2>1. IsFiniteSet(R) /\ R # {} /\ \A h \in R : n[h] \in Int
    <3>1. IsFiniteSet(R)
      BY FS_Difference
    <3>2. \A h \in H : n[h] \in Nat
      BY <1>0, <1>2
    <3> QED BY <3>1, <3>2
  <2>2. PICK b \in R : \A h \in R : n[h] <= n[b]
    <3> HIDE DEF R
    <3> QED BY <2>1, Largest
  <2>3. cnt[r] <= cnt[b] /\ n[r] <= n[b] /\ b \in H
    <3>1. cnt[r] \in Nat /\ cnt[b] \in Nat
      OBVIOUS
    <3> QED BY <2>2, <3>1
  <2>4. PICK k : /\ Fits(k, M, H)
                 /\ Bits(cnt, k, H) <= Bits(cnt, n, H)
                 /\ k[r] = n[b] /\ k[b] = n[r]
                 /\ \A h \in H \ {r, b} : k[h] = n[h]
    BY <1>2, <2>3, Swap
  <2>5. k[l] = n[l] /\ k[r] <= k[l]
    BY <1>2, <2>4
  <2>6. \A h \in H \ {l} : k[h] <= k[r]
    BY <1>0, <1>2, <2>2, <2>4
  <2> QED BY <2>4, <2>5, <2>6
<1>4. PICK k : /\ Fits(k, M, H)
               /\ Bits(cnt, k, H) <= Bits(cnt, n, H)
               /\ k[r] <= k[l]
               /\ \A h \in H \ {l} : k[h] <= k[r]
  BY <1>3
<1>5. k[r] \in 0 .. M
  BY <1>0, <1>4
<1>6. PICK m2 : /\ Fits(m2, M, H)
                /\ Bits(cnt, m2, H) <= Bits(cnt, k, H)
                /\ m2[l] = k[r]
                /\ \A h \in H \ {l} : m2[h] = k[h]
  <2> DEFINE d == k[r]
  <2>1. d \in 0 .. M /\ d <= k[l] /\ \A h \in H \ {l} : k[h] <= d
    BY <1>4, <1>5
  <2> HIDE DEF d
  <2>2. \E m2 : /\ Fits(m2, M, H)
                /\ Bits(cnt, m2, H) <= Bits(cnt, k, H)
                /\ m2[l] = d
                /\ \A h \in H \ {l} : m2[h] = k[h]
    BY <1>4, <2>1, Cut
  <2> QED BY <2>2 DEF d
<1>7. m2[l] = m2[r] /\ m2[r] \in Nat
  BY <1>0, <1>6
<1>8. m2[r] # 0
  <2> SUFFICES ASSUME m2[r] = 0 PROVE FALSE
    OBVIOUS
  <2> DEFINE s == Shares(m2, M, H)
             R == H \ {l, r}
  <2>1. \A h \in H : s[h] = 2 ^ (M - m2[h]) /\ s[h] \in Nat
    BY <1>0, <1>6, ShareType
  <2>2. s[l] = 2 ^ M /\ s[r] = 2 ^ M /\ 2 ^ M \in Nat \ {0}
    <3>1. M - 0 = M /\ 2 ^ M \in Nat \ {0}
      BY Powers
    <3> QED BY <1>7, <2>1, <3>1
  <2>3. Sum(s, H) <= 2 ^ M
    BY <1>6 DEF Fits
  <2> HIDE DEF s
  <2>4. IsFiniteSet(R) /\ \A h \in R : s[h] \in Nat
    BY <2>1, FS_Difference
  <2>5. Sum(s, R) \in Nat
    <3> HIDE DEF R
    <3> QED BY <2>4, SumOfNats
  <2>6. Sum(s, H) = s[l] + s[r] + Sum(s, R)
    <3>1. \A h \in H : s[h] \in Int
      BY <2>1
    <3> QED BY <3>1, TakeTwo
  <2> HIDE DEF R
  <2> QED BY <2>2, <2>3, <2>5, <2>6
<1>9. Bits(cnt, m2, H) <= Bits(cnt, m, H)
  <2>1. Bits(cnt, m2, H) \in Int /\ Bits(cnt, k, H) \in Int /\ Bits(cnt, n, H) \in Int
        /\ Bits(cnt, m, H) \in Int
    BY <1>0, <1>2, <1>4, <1>6
  <2> QED BY <1>2, <1>4, <1>6, <2>1
<1> QED BY <1>6, <1>7, <1>8, <1>9

-----------------------------------------------------------------------------
(* The sums of the model *)

\* Kraft takes the sum of the shares.
LEMMA KraftIs ==
    ASSUME IsFiniteSet(Active), NEW d \in [Active -> 0 .. Cardinality(Active)]
    PROVE  Kraft(d) <=> Fits(d, Cardinality(Active), Active)
<1> DEFINE M == Cardinality(Active)
           f == Shares(d, M, Active)
           g == CHOOSE h : h = [s \in SUBSET Active |->
                    IF s = {} THEN 0
                    ELSE 2 ^ (M - d[CHOOSE x \in s : TRUE])
                         + h[s \ {CHOOSE x \in s : TRUE}]]
<1>1. Kraft(d) <=> g[Active] <= 2 ^ M
  BY Zenon DEF Kraft, MapThenSumSet, MapThenFoldSet
<1>2. M \in Nat /\ d \in [Active -> 0 .. M]
  BY FS_CardinalityType
<1>3. \A s \in Active : f[s] = 2 ^ (M - d[s]) /\ f[s] \in Int
  <2> HIDE DEF M
  <2> QED BY <1>2, ShareType
<1>4. PICK it : Sums(f, Active, it)
  <2> HIDE DEF f
  <2> QED BY <1>3, SumsExist
<1>5. Sum(f, Active) = it[Active]
  <2> HIDE DEF f
  <2> QED BY <1>4, SumIs
<1>6. \A s \in SUBSET Active : s # {} => f[Pick(s)] = 2 ^ (M - d[Pick(s)])
  <2> HIDE DEF f, M
  <2> QED BY <1>3, PickFact
<1>7. it = [s \in SUBSET Active |->
               IF s = {} THEN 0 ELSE 2 ^ (M - d[Pick(s)]) + it[s \ {Pick(s)}]]
  <2> HIDE DEF f, M
  <2> QED BY <1>4, <1>6 DEF Sums
<1>8. g = [s \in SUBSET Active |->
               IF s = {} THEN 0
               ELSE 2 ^ (M - d[CHOOSE x \in s : TRUE]) + g[s \ {CHOOSE x \in s : TRUE}]]
  <2> HIDE DEF f, M
  <2> QED BY <1>7, Zenon DEF Pick
<1> HIDE DEF g
<1>9. g = [s \in SUBSET Active |->
               IF s = {} THEN 0 ELSE 2 ^ (M - d[Pick(s)]) + g[s \ {Pick(s)}]]
  BY <1>8, Zenon DEF Pick
<1>10. Adds(f, Active, g) /\ Active \in SUBSET Active
  <2> HIDE DEF f, M
  <2> QED BY <1>6, <1>9 DEF Adds
<1>11. g[Active] = Sum(f, Active)
  <2> HIDE DEF f
  <2> QED BY <1>4, <1>5, <1>10, OneSum
<1> QED BY <1>1, <1>11 DEF Fits

\* What each counted symbol counts
Counts == [s \in Active |-> CountOf(s)]

\* The cost is the sum of the bits of every use.
LEMMA CostIs ==
    ASSUME IsFiniteSet(Active), Counts \in [Active -> Nat], NEW d \in [Active -> Nat]
    PROVE  Cost(d) = Bits(Counts, d, Active)
<1> DEFINE f == Uses(Counts, d, Active)
           g == CHOOSE h : h = [s \in SUBSET DOMAIN d |->
                    IF s = {} THEN 0
                    ELSE CountOf(CHOOSE x \in s : TRUE) * d[CHOOSE x \in s : TRUE]
                         + h[s \ {CHOOSE x \in s : TRUE}]]
<1>1. Cost(d) = g[DOMAIN d]
  BY Zenon DEF Cost, MapThenSumSet, MapThenFoldSet
<1>2. DOMAIN d = Active
  OBVIOUS
<1>3. \A s \in Active : f[s] = CountOf(s) * d[s] /\ f[s] \in Int
  <2>1. \A s \in Active : f[s] = Counts[s] * d[s] /\ f[s] \in Int
    BY UseType
  <2>2. \A s \in Active : Counts[s] = CountOf(s)
    BY DEF Counts
  <2> HIDE DEF f
  <2> QED BY <2>1, <2>2
<1>4. PICK it : Sums(f, Active, it)
  <2> HIDE DEF f
  <2> QED BY <1>3, SumsExist
<1>5. Sum(f, Active) = it[Active]
  <2> HIDE DEF f
  <2> QED BY <1>4, SumIs
<1>6. \A s \in SUBSET Active : s # {} => f[Pick(s)] = CountOf(Pick(s)) * d[Pick(s)]
  <2> HIDE DEF f
  <2> QED BY <1>3, PickFact
<1>7. it = [s \in SUBSET DOMAIN d |->
               IF s = {} THEN 0 ELSE CountOf(Pick(s)) * d[Pick(s)] + it[s \ {Pick(s)}]]
  <2> HIDE DEF f
  <2> QED BY <1>2, <1>4, <1>6 DEF Sums
<1>8. g = [s \in SUBSET DOMAIN d |->
               IF s = {} THEN 0
               ELSE CountOf(CHOOSE x \in s : TRUE) * d[CHOOSE x \in s : TRUE]
                    + g[s \ {CHOOSE x \in s : TRUE}]]
  <2> HIDE DEF f
  <2> QED BY <1>7, Zenon DEF Pick
<1> HIDE DEF g
<1>9. g = [s \in SUBSET DOMAIN d |->
               IF s = {} THEN 0 ELSE CountOf(Pick(s)) * d[Pick(s)] + g[s \ {Pick(s)}]]
  BY <1>8, Zenon DEF Pick
<1>10. Adds(f, Active, g) /\ Active \in SUBSET Active
  <2> HIDE DEF f
  <2> QED BY <1>2, <1>6, <1>9 DEF Adds
<1>11. g[Active] = Sum(f, Active)
  <2> HIDE DEF f
  <2> QED BY <1>4, <1>5, <1>10, OneSum
<1> QED BY <1>1, <1>2, <1>11 DEF Bits

-----------------------------------------------------------------------------
(* The nodes of the heap as codes of their symbols *)

\* A node has the counts of its symbols, and its depths are a full code of them.
CodeNode(c, A, n) ==
    /\ Symbols(n) \subseteq A
    /\ Symbols(n) # {}
    /\ n.depths \in [Symbols(n) -> Nat]
    /\ n.count = Sum(c, Symbols(n))
    /\ \A s \in Symbols(n) : n.depths[s] + 1 <= Cardinality(Symbols(n))
    /\ Sum(Shares(n.depths, Cardinality(A), Symbols(n)), Symbols(n)) = 2 ^ Cardinality(A)

\* The bits of a node's symbols, below the node
Below(c, n) == Bits(c, n.depths, Symbols(n))

\* The depths of a node are short words, and its sums are sums of naturals.
LEMMA NodeSums ==
    ASSUME NEW A, IsFiniteSet(A), NEW c \in [A -> Nat], NEW n, CodeNode(c, A, n)
    PROVE  /\ IsFiniteSet(Symbols(n))
           /\ Cardinality(A) \in Nat
           /\ Cardinality(Symbols(n)) \in Nat
           /\ Cardinality(Symbols(n)) <= Cardinality(A)
           /\ n.depths \in [Symbols(n) -> 0 .. Cardinality(A)]
           /\ \A s \in Symbols(n) : n.depths[s] + 1 <= Cardinality(A)
           /\ c \in [A -> Nat] /\ \A s \in Symbols(n) : c[s] \in Nat
           /\ n.count \in Nat
           /\ Below(c, n) \in Nat
<1> DEFINE S == Symbols(n)
           M == Cardinality(A)
<1>1. S \in SUBSET A /\ n.depths \in [S -> Nat] /\ n.count = Sum(c, S)
      /\ \A s \in S : n.depths[s] + 1 <= Cardinality(S)
  BY DEF CodeNode
<1> HIDE DEF S
<1>2. IsFiniteSet(S) /\ M \in Nat /\ Cardinality(S) \in Nat /\ Cardinality(S) <= M
  BY <1>1, FS_Subset, FS_CardinalityType
<1> HIDE DEF M
<1>3. \A s \in S : n.depths[s] \in Nat /\ n.depths[s] + 1 <= M
  BY <1>1, <1>2
<1>4. n.depths \in [S -> 0 .. M]
  BY <1>1, <1>2, <1>3
<1>5. \A s \in S : c[s] \in Nat
  BY <1>1
<1>6. n.count \in Nat
  BY <1>1, <1>2, <1>5, SumOfNats
<1>7. Sum(Uses(c, n.depths, S), S) \in Nat
  <2>1. \A s \in S : Uses(c, n.depths, S)[s] \in Nat
    BY <1>1, <1>5 DEF Uses
  <2> QED BY <1>2, <2>1, SumOfNats
<1> QED BY <1>2, <1>3, <1>4, <1>5, <1>6, <1>7 DEF S, M, Below, Bits

(* A half of a merged node costs a bit more for each use of the node, and  *)
(* takes half the words it took.                                           *)
LEMMA HalfSums ==
    ASSUME NEW A, IsFiniteSet(A), NEW c \in [A -> Nat], NEW n, CodeNode(c, A, n),
           NEW T, NEW d, \A s \in Symbols(n) : s \in T /\ d[s] = 1 + n.depths[s]
    PROVE  /\ Sum(Uses(c, d, T), Symbols(n)) = Below(c, n) + n.count
           /\ \A s \in Symbols(n) : Uses(c, d, T)[s] \in Int
           /\ Sum(Shares(d, Cardinality(A), T), Symbols(n)) \in Int
           /\ \A s \in Symbols(n) : Shares(d, Cardinality(A), T)[s] \in Int
           /\ 2 * Sum(Shares(d, Cardinality(A), T), Symbols(n)) = 2 ^ Cardinality(A)
<1> DEFINE S == Symbols(n)
           M == Cardinality(A)
           e == n.depths
           u == Uses(c, e, S)
           v == Uses(c, d, T)
           p == Shares(e, M, S)
           q == Shares(d, M, T)
<1>1. /\ IsFiniteSet(S) /\ M \in Nat /\ e \in [S -> 0 .. M]
      /\ \A s \in S : e[s] + 1 <= M
      /\ \A s \in S : c[s] \in Nat
      /\ n.count = Sum(c, S)
  BY NodeSums DEF CodeNode
<1>2. \A s \in S : s \in T /\ d[s] = 1 + e[s] /\ e[s] \in Nat
  BY <1>1
<1>3. Sum(p, S) = 2 ^ M
  BY DEF CodeNode
<1>4. Below(c, n) = Sum(u, S)
  BY DEF Below, Bits
<1> HIDE DEF S, M, e
<1>5. \A s \in S : u[s] \in Int /\ c[s] \in Int /\ v[s] = u[s] + c[s] /\ v[s] \in Int
  <2> SUFFICES ASSUME NEW s \in S
               PROVE  u[s] \in Int /\ c[s] \in Int /\ v[s] = u[s] + c[s] /\ v[s] \in Int
    OBVIOUS
  <2>1. u[s] = c[s] * e[s] /\ v[s] = c[s] * d[s]
    BY <1>2 DEF Uses
  <2>2. c[s] \in Nat /\ e[s] \in Nat /\ d[s] = 1 + e[s]
    BY <1>1, <1>2
  <2>3. \A x, y \in Nat : x * (1 + y) = x * y + x /\ x * y \in Int /\ x * (1 + y) \in Int
    OBVIOUS
  <2> HIDE DEF u, v
  <2> QED BY <2>1, <2>2, <2>3
<1>6. \A s \in S : q[s] \in Int /\ p[s] = 2 * q[s]
  <2> SUFFICES ASSUME NEW s \in S PROVE q[s] \in Int /\ p[s] = 2 * q[s]
    OBVIOUS
  <2> DEFINE k == M - d[s]
  <2>1. k \in Nat /\ M - e[s] = k + 1
    BY <1>1, <1>2
  <2>2. p[s] = 2 ^ (M - e[s]) /\ q[s] = 2 ^ k
    BY <1>2 DEF Shares
  <2> HIDE DEF k, p, q
  <2>3. 2 ^ k \in Nat /\ 2 ^ (k + 1) = 2 * 2 ^ k
    BY <2>1, Powers
  <2> QED BY <2>1, <2>2, <2>3
<1> HIDE DEF u, v, p, q
<1>7. Sum(v, S) = Sum(u, S) + Sum(c, S)
  BY <1>1, <1>5, SumOfSums
<1>8. Sum(q, S) \in Int /\ Sum(p, S) = 2 * Sum(q, S)
  BY <1>1, <1>6, SumScales, SumFacts
<1> QED BY <1>1, <1>3, <1>4, <1>5, <1>6, <1>7, <1>8 DEF S, M, v, q

\* n puts the symbols of l and of r a bit deeper, as Merged does.
IsMerge(n, l, r) ==
    /\ Symbols(l) \cap Symbols(r) = {}
    /\ Symbols(n) = Symbols(l) \cup Symbols(r)
    /\ n.depths \in [Symbols(n) -> Nat]
    /\ \A s \in Symbols(l) : n.depths[s] = 1 + l.depths[s]
    /\ \A s \in Symbols(r) : n.depths[s] = 1 + r.depths[s]
    /\ n.count = l.count + r.count

(* A merge of two codes is a code of the symbols of both.                  *)
LEMMA MergedCode ==
    ASSUME NEW A, IsFiniteSet(A), NEW c \in [A -> Nat],
           NEW l, CodeNode(c, A, l), NEW r, CodeNode(c, A, r),
           NEW n, IsMerge(n, l, r)
    PROVE  /\ CodeNode(c, A, n)
           /\ Below(c, n) = Below(c, l) + Below(c, r) + n.count
<1> DEFINE L == Symbols(l)
           R == Symbols(r)
           S == Symbols(n)
           M == Cardinality(A)
           v == Uses(c, n.depths, S)
           q == Shares(n.depths, M, S)
<1>0. /\ Symbols(l) \cap Symbols(r) = {}
      /\ Symbols(n) = Symbols(l) \cup Symbols(r)
      /\ n.depths \in [Symbols(n) -> Nat]
      /\ \A s \in Symbols(l) : n.depths[s] = 1 + l.depths[s]
      /\ \A s \in Symbols(r) : n.depths[s] = 1 + r.depths[s]
      /\ n.count = l.count + r.count
  BY DEF IsMerge
<1>1. S = L \cup R /\ L \cap R = {} /\ S \subseteq A /\ S # {} /\ L # {} /\ R # {}
  BY <1>0 DEF CodeNode
<1>2. /\ IsFiniteSet(L) /\ IsFiniteSet(R)
      /\ Cardinality(L) \in Nat /\ Cardinality(R) \in Nat
      /\ \A s \in L : c[s] \in Nat
      /\ \A s \in R : c[s] \in Nat
      /\ l.count \in Nat /\ r.count \in Nat /\ Below(c, l) \in Nat /\ Below(c, r) \in Nat
      /\ M \in Nat
  BY NodeSums
<1>3. /\ Sum(v, L) = Below(c, l) + l.count
      /\ \A s \in L : v[s] \in Int
      /\ Sum(q, L) \in Int
      /\ \A s \in L : q[s] \in Int
      /\ 2 * Sum(q, L) = 2 ^ M
  <2>1. \A s \in L : s \in S /\ n.depths[s] = 1 + l.depths[s]
    BY <1>0, <1>1
  <2> HIDE DEF S
  <2> QED BY <2>1, HalfSums
<1>4. /\ Sum(v, R) = Below(c, r) + r.count
      /\ \A s \in R : v[s] \in Int
      /\ Sum(q, R) \in Int
      /\ \A s \in R : q[s] \in Int
      /\ 2 * Sum(q, R) = 2 ^ M
  <2>1. \A s \in R : s \in S /\ n.depths[s] = 1 + r.depths[s]
    BY <1>0, <1>1
  <2> HIDE DEF S
  <2> QED BY <2>1, HalfSums
<1>5. l.count = Sum(c, L) /\ r.count = Sum(c, R)
  BY DEF CodeNode
<1>6. /\ \A s \in L : n.depths[s] = 1 + l.depths[s] /\ l.depths[s] \in Nat
                      /\ l.depths[s] + 1 <= Cardinality(L)
      /\ \A s \in R : n.depths[s] = 1 + r.depths[s] /\ r.depths[s] \in Nat
                      /\ r.depths[s] + 1 <= Cardinality(R)
  BY <1>0 DEF CodeNode
<1>7. n.depths \in [S -> Nat]
  BY <1>0
<1>8. Below(c, n) = Sum(v, S)
  BY DEF Below, Bits
<1> HIDE DEF L, R, S, v, q, M
<1>9. Sum(v, S) = Sum(v, L) + Sum(v, R) /\ Sum(q, S) = Sum(q, L) + Sum(q, R)
      /\ Sum(c, S) = Sum(c, L) + Sum(c, R)
  <2>1. \A s \in L \cup R : v[s] \in Int /\ q[s] \in Int /\ c[s] \in Int
    BY <1>2, <1>3, <1>4
  <2> QED BY <1>1, <1>2, <2>1, SumSplits
<1>10. Below(c, n) = Below(c, l) + Below(c, r) + n.count
  BY <1>0, <1>2, <1>3, <1>4, <1>8, <1>9
<1>11. n.count = Sum(c, S)
  BY <1>0, <1>5, <1>9
<1>12. Sum(q, S) = 2 ^ M
  <2>1. 2 ^ M \in Nat
    BY <1>2, Powers
  <2> QED BY <1>3, <1>4, <1>9, <2>1
<1>13. Cardinality(S) = Cardinality(L) + Cardinality(R) /\ Cardinality(L) >= 1 /\ Cardinality(R) >= 1
  <2>1. Cardinality(L \cap R) = 0
    BY <1>1, FS_EmptySet
  <2>2. Cardinality(L \cup R) = Cardinality(L) + Cardinality(R) - Cardinality(L \cap R)
    BY <1>2, FS_Union
  <2>3. Cardinality(L) # 0 /\ Cardinality(R) # 0
    BY <1>1, <1>2, FS_EmptySet
  <2>4. Cardinality(S) = Cardinality(L \cup R)
    BY <1>1, Zenon
  <2> QED BY <1>2, <2>1, <2>2, <2>3, <2>4
<1>14. \A s \in S : n.depths[s] + 1 <= Cardinality(S)
  <2> SUFFICES ASSUME NEW s \in S PROVE n.depths[s] + 1 <= Cardinality(S)
    OBVIOUS
  <2>1. CASE s \in L
    BY <1>2, <1>6, <1>13, <2>1
  <2>2. CASE s \in R
    BY <1>2, <1>6, <1>13, <2>2
  <2> QED BY <1>1, <2>1, <2>2
<1> QED BY <1>1, <1>7, <1>10, <1>11, <1>12, <1>14 DEF CodeNode, S, M, q

-----------------------------------------------------------------------------
(* The merges and the competitors *)

\* The nodes of the heap as symbols, each with its count
Weights(H) == [n \in H |-> n.count]

\* The bits already paid for below each
Paid(c, H) == [n \in H |-> Below(c, n)]

\* Some words for the nodes of the heap, with the bits below the nodes, cost no more.
NoWorse(c, A, H, bits) ==
    \E m : /\ Fits(m, Cardinality(A), H)
           /\ Bits(Weights(H), m, H) + Sum(Paid(c, H), H) <= bits

\* Types of these sums.
LEMMA HeapSums ==
    ASSUME NEW A, IsFiniteSet(A), NEW c \in [A -> Nat],
           NEW H, IsFiniteSet(H), \A n \in H : CodeNode(c, A, n)
    PROVE  /\ Weights(H) \in [H -> Nat]
           /\ \A n \in H : Weights(H)[n] = n.count /\ n.count \in Nat
           /\ \A n \in H : Paid(c, H)[n] = Below(c, n) /\ Below(c, n) \in Nat
           /\ Sum(Paid(c, H), H) \in Int
           /\ \A m : Fits(m, Cardinality(A), H) =>
                  /\ m \in [H -> Nat] /\ m \in [H -> 0 .. Cardinality(A)]
                  /\ Bits(Weights(H), m, H) \in Int
<1>1. \A n \in H : n.count \in Nat /\ Below(c, n) \in Nat
  BY NodeSums
<1>2. Weights(H) \in [H -> Nat] /\ \A n \in H : Weights(H)[n] = n.count
  BY <1>1 DEF Weights
<1>3. \A n \in H : Paid(c, H)[n] = Below(c, n)
  BY DEF Paid
<1>4. Sum(Paid(c, H), H) \in Int
  <2>1. \A n \in H : Paid(c, H)[n] \in Int
    BY <1>1, <1>3
  <2> QED BY <2>1, SumFacts
<1>5. ASSUME NEW m, Fits(m, Cardinality(A), H)
      PROVE  /\ m \in [H -> Nat] /\ m \in [H -> 0 .. Cardinality(A)]
             /\ Bits(Weights(H), m, H) \in Int
  <2>1. m \in [H -> 0 .. Cardinality(A)] /\ m \in [H -> Nat]
    BY <1>5 DEF Fits
  <2>2. \A h \in H : Uses(Weights(H), m, H)[h] \in Int
    BY <1>2, <2>1, UseType
  <2>3. Sum(Uses(Weights(H), m, H), H) \in Int
    BY <2>2, SumFacts
  <2> QED BY <2>1, <2>3 DEF Bits
<1> QED BY <1>1, <1>2, <1>3, <1>4, <1>5

(* Merging the two rarest nodes loses no competitor.                       *)
LEMMA MergeKeeps ==
    ASSUME NEW A, IsFiniteSet(A), NEW c \in [A -> Nat],
           NEW H, IsFiniteSet(H), \A n \in H : CodeNode(c, A, n),
           NEW l \in H, NEW r \in H, l # r, l.count <= r.count,
           \A h \in H \ {l, r} : r.count <= h.count,
           NEW n, n \notin H, CodeNode(c, A, n), n.count = l.count + r.count,
           Below(c, n) = Below(c, l) + Below(c, r) + n.count,
           NEW bits \in Int, NoWorse(c, A, H, bits)
    PROVE  NoWorse(c, A, (H \ {l, r}) \cup {n}, bits)
<1> DEFINE M == Cardinality(A)
           cnt == Weights(H)
           R == H \ {l, r}
           H2 == R \cup {n}
<1>1. /\ cnt \in [H -> Nat]
      /\ \A h \in H : cnt[h] = h.count /\ h.count \in Nat
      /\ \A h \in H : Paid(c, H)[h] = Below(c, h) /\ Below(c, h) \in Nat
      /\ Sum(Paid(c, H), H) \in Int
  BY HeapSums
<1>2. M \in Nat /\ IsFiniteSet(R) /\ IsFiniteSet(H2) /\ n \in H2 /\ n \notin R /\ H2 \ {n} = R
      /\ R \subseteq H
  <2>1. IsFiniteSet(R)
    BY FS_Difference
  <2> HIDE DEF R
  <2>2. IsFiniteSet(R \cup {n})
    BY <2>1, FS_AddElement
  <2> QED BY <2>1, <2>2, FS_CardinalityType DEF R
<1>3. PICK m : Fits(m, M, H) /\ Bits(cnt, m, H) + Sum(Paid(c, H), H) <= bits
  BY DEF NoWorse
<1> HIDE DEF M, cnt
<1>4. PICK k : /\ Fits(k, M, H)
               /\ Bits(cnt, k, H) <= Bits(cnt, m, H)
               /\ k[l] = k[r]
               /\ k[r] >= 1
  <2>1. cnt[l] <= cnt[r] /\ \A h \in H \ {l, r} : cnt[r] <= cnt[h]
    BY <1>1
  <2> QED BY <1>1, <1>2, <1>3, <2>1, Siblings
<1>5. Bits(cnt, k, H) + Sum(Paid(c, H), H) <= bits
  <2>1. Bits(cnt, k, H) \in Int /\ Bits(cnt, m, H) \in Int
    BY <1>3, <1>4, HeapSums DEF M, cnt
  <2> QED BY <1>1, <1>3, <1>4, <2>1
<1> DEFINE d == k[r]
<1>6. k \in [H -> 0 .. M] /\ d \in 0 .. M /\ d >= 1 /\ k[l] = d
  BY <1>4 DEF Fits
<1> DEFINE k2 == [h \in H2 |-> IF h = n THEN d - 1 ELSE k[h]]
<1>7. k2 \in [H2 -> 0 .. M] /\ k2[n] = d - 1 /\ \A h \in R : k2[h] = k[h]
  <2>1. ASSUME NEW h \in H2 PROVE (IF h = n THEN d - 1 ELSE k[h]) \in 0 .. M
    <3>1. CASE h = n
      BY <1>2, <1>6, <3>1
    <3>2. CASE h # n
      <4>1. k[h] \in 0 .. M
        BY <1>6, <3>2
      <4> QED BY <3>2, <4>1
    <3> QED BY <3>1, <3>2
  <2>2. k2 \in [H2 -> 0 .. M]
    <3> HIDE DEF H2, d
    <3> QED BY <2>1
  <2> QED BY <1>2, <2>2
<1> HIDE DEF k2, d
<1>8. Fits(k2, M, H2)
  <2> DEFINE s == Shares(k, M, H)
             s2 == Shares(k2, M, H2)
  <2>1. \A h \in H : s[h] = 2 ^ (M - k[h]) /\ s[h] \in Int
    BY <1>2, <1>6, ShareType
  <2>2. \A h \in H2 : s2[h] = 2 ^ (M - k2[h]) /\ s2[h] \in Int
    <3> HIDE DEF H2
    <3> QED BY <1>2, <1>7, ShareType
  <2>3. s2[n] = s[l] + s[r]
    <3> DEFINE e == M - d
    <3>1. e \in Nat /\ M - (d - 1) = e + 1
      BY <1>2, <1>6
    <3>2. s[l] = 2 ^ e /\ s[r] = 2 ^ e
      BY <1>6, <2>1 DEF d
    <3>3. s2[n] = 2 ^ (e + 1)
      <4>1. s2[n] = 2 ^ (M - k2[n])
        BY <1>2, <2>2
      <4>2. M - k2[n] = e + 1
        BY <1>7, <3>1
      <4> HIDE DEF s2, e
      <4> QED BY <4>1, <4>2
    <3> HIDE DEF e, s, s2
    <3>4. 2 ^ e \in Nat /\ 2 ^ (e + 1) = 2 * 2 ^ e
      BY <3>1, Powers
    <3> QED BY <3>2, <3>3, <3>4
  <2> HIDE DEF s, s2
  <2>4. \A h \in R : s2[h] = s[h] /\ s[h] \in Int
    BY <1>2, <1>7, <2>1, <2>2
  <2>5. Sum(s2, R) = Sum(s, R) /\ Sum(s, R) \in Int
    <3> HIDE DEF R
    <3> QED BY <1>2, <2>4, SameTerms, SumFacts
  <2>6. Sum(s, H) = s[l] + s[r] + Sum(s, R)
    BY <2>1, TakeTwo
  <2>7. Sum(s2, H2) = s2[n] + Sum(s2, R)
    <3> HIDE DEF H2
    <3>1. Sum(s2, H2) = s2[n] + Sum(s2, H2 \ {n})
      BY <1>2, <2>2, SumFacts
    <3> QED BY <1>2, <3>1
  <2> HIDE DEF R, H2
  <2>8. s[l] \in Int /\ s[r] \in Int
    BY <2>1
  <2>9. Sum(s2, H2) = Sum(s, H)
    BY <2>3, <2>5, <2>6, <2>7, <2>8
  <2> QED BY <1>4, <1>7, <2>9 DEF Fits, s, s2
<1>9. Bits(Weights(H2), k2, H2) + Sum(Paid(c, H2), H2) = Bits(cnt, k, H) + Sum(Paid(c, H), H)
  <2> DEFINE u == Uses(cnt, k, H)
             u2 == Uses(Weights(H2), k2, H2)
             p == Paid(c, H)
             p2 == Paid(c, H2)
  <2>1. \A h \in H : /\ u[h] = h.count * k[h] /\ u[h] \in Int
                     /\ p[h] = Below(c, h) /\ p[h] \in Int
    <3>1. k \in [H -> Nat]
      BY <1>6
    <3>2. \A h \in H : u[h] = cnt[h] * k[h] /\ u[h] \in Int
      BY <1>1, <3>1, UseType
    <3> HIDE DEF u
    <3> QED BY <1>1, <3>2
  <2>2. \A h \in H2 : /\ u2[h] = h.count * k2[h] /\ u2[h] \in Int
                      /\ p2[h] = Below(c, h) /\ p2[h] \in Int
    <3>1. k2 \in [H2 -> Nat]
      BY <1>7
    <3>2. \A h \in H2 : CodeNode(c, A, h)
      OBVIOUS
    <3> HIDE DEF H2
    <3>3. /\ Weights(H2) \in [H2 -> Nat]
          /\ \A h \in H2 : Weights(H2)[h] = h.count
          /\ \A h \in H2 : p2[h] = Below(c, h) /\ Below(c, h) \in Nat
      BY <1>2, <3>2, HeapSums
    <3>4. \A h \in H2 : u2[h] = Weights(H2)[h] * k2[h] /\ u2[h] \in Int
      BY <3>1, <3>3, UseType
    <3> HIDE DEF u2, p2
    <3> QED BY <3>3, <3>4
  <2> HIDE DEF u, u2, p, p2
  <2>3. \A h \in R : /\ u[h] \in Int /\ u2[h] = u[h]
                     /\ p[h] \in Int /\ p2[h] = p[h]
    BY <1>2, <1>7, <2>1, <2>2
  <2>4. Sum(u2, R) = Sum(u, R) /\ Sum(p2, R) = Sum(p, R) /\ Sum(u, R) \in Int /\ Sum(p, R) \in Int
    <3> HIDE DEF R
    <3> QED BY <1>2, <2>3, SameTerms, SumFacts
  <2>5. Sum(u, H) = u[l] + u[r] + Sum(u, R) /\ Sum(p, H) = p[l] + p[r] + Sum(p, R)
    BY <2>1, TakeTwo
  <2>6. Sum(u2, H2) = u2[n] + Sum(u2, R) /\ Sum(p2, H2) = p2[n] + Sum(p2, R)
    <3> HIDE DEF H2
    <3>1. Sum(u2, H2) = u2[n] + Sum(u2, H2 \ {n}) /\ Sum(p2, H2) = p2[n] + Sum(p2, H2 \ {n})
      BY ZenonT(60), <1>2, <2>2, SumFacts
    <3> QED BY <1>2, <3>1
  <2>7. u2[n] + p2[n] = u[l] + u[r] + p[l] + p[r]
    <3>1. u[l] = l.count * d /\ u[r] = r.count * d /\ p[l] = Below(c, l) /\ p[r] = Below(c, r)
      BY <1>6, <2>1 DEF d
    <3>2. u2[n] = n.count * (d - 1) /\ p2[n] = Below(c, n)
      BY <1>2, <1>7, <2>2
    <3>3. l.count \in Nat /\ r.count \in Nat /\ Below(c, l) \in Nat /\ Below(c, r) \in Nat
          /\ d \in Nat
      BY <1>1, <1>6
    <3>4. \A x, y, z \in Nat : (x + y) * (z - 1) = x * z + y * z - (x + y)
      OBVIOUS
    <3>5. (l.count + r.count) * (d - 1) = l.count * d + r.count * d - (l.count + r.count)
      BY <3>3, <3>4
    <3>6. l.count * d \in Int /\ r.count * d \in Int
      BY <3>3
    <3> QED BY <3>1, <3>2, <3>3, <3>5, <3>6
  <2>8. u[l] \in Int /\ u[r] \in Int /\ p[l] \in Int /\ p[r] \in Int /\ u2[n] \in Int /\ p2[n] \in Int
    BY <1>2, <2>1, <2>2
  <2> HIDE DEF R, H2
  <2> DEFINE a == Sum(u, R)
             b == Sum(p, R)
  <2>9. /\ Sum(u2, H2) = u2[n] + a /\ Sum(p2, H2) = p2[n] + b
        /\ Sum(u, H) = u[l] + u[r] + a /\ Sum(p, H) = p[l] + p[r] + b
        /\ a \in Int /\ b \in Int
    BY <2>4, <2>5, <2>6
  <2> HIDE DEF a, b
  <2>10. Sum(u2, H2) + Sum(p2, H2) = Sum(u, H) + Sum(p, H)
    BY <2>7, <2>8, <2>9
  <2> QED BY <2>10 DEF Bits, u, u2, p, p2
<1>10. Bits(Weights(H2), k2, H2) + Sum(Paid(c, H2), H2) <= bits
  BY <1>5, <1>9
<1> QED BY <1>8, <1>10 DEF NoWorse, M

(* The leaves can have any words their symbols can.                        *)
LEMMA LeavesKeep ==
    ASSUME NEW A, IsFiniteSet(A), NEW c \in [A -> Nat],
           NEW H, IsFiniteSet(H), \A n \in H : CodeNode(c, A, n),
           \A a, b \in H : a # b => Symbols(a) \cap Symbols(b) = {},
           \A n \in H : \E s \in A : Symbols(n) = {s} /\ n.depths[s] = 0,
           \A s \in A : \E n \in H : s \in Symbols(n),
           NEW lengths, Fits(lengths, Cardinality(A), A)
    PROVE  NoWorse(c, A, H, Bits(c, lengths, A))
<1> DEFINE M == Cardinality(A)
           p == [n \in H |-> CHOOSE s \in A : Symbols(n) = {s} /\ n.depths[s] = 0]
           m == [n \in H |-> lengths[p[n]]]
           s == Shares(lengths, M, A)
           s2 == Shares(m, M, H)
           u == Uses(c, lengths, A)
           u2 == Uses(Weights(H), m, H)
<1>1. \A n \in H : p[n] \in A /\ Symbols(n) = {p[n]} /\ n.depths[p[n]] = 0
  OBVIOUS
<1>2. \A a, b \in H : p[a] = p[b] => a = b
  <2> HIDE DEF p
  <2> QED BY <1>1
<1>3. OneToOne(p, H, A)
  <2> HIDE DEF p
  <2>1. \A x \in A : \E n \in H : x = p[n]
    BY <1>1
  <2> QED BY <1>1, <1>2, <2>1 DEF OneToOne
<1> HIDE DEF p
<1>4. lengths \in [A -> 0 .. M] /\ lengths \in [A -> Nat] /\ M \in Nat
  BY FS_CardinalityType DEF Fits
<1>5. m \in [H -> 0 .. M] /\ m \in [H -> Nat] /\ \A n \in H : m[n] = lengths[p[n]]
  BY <1>1, <1>4
<1>6. /\ Weights(H) \in [H -> Nat]
      /\ \A n \in H : Weights(H)[n] = n.count
      /\ \A n \in H : Paid(c, H)[n] = Below(c, n)
  BY HeapSums
<1>7. \A n \in H : n.count = c[p[n]] /\ Below(c, n) = 0
  <2> SUFFICES ASSUME NEW n \in H PROVE n.count = c[p[n]] /\ Below(c, n) = 0
    OBVIOUS
  <2> DEFINE x == p[n]
             v == Uses(c, n.depths, {x})
  <2>1. x \in A /\ Symbols(n) = {x} /\ n.depths[x] = 0
    BY <1>1
  <2> HIDE DEF x
  <2>2. c[x] \in Nat /\ v[x] = 0 /\ n.count = Sum(c, {x}) /\ Below(c, n) = Sum(v, {x})
    <3>1. c[x] \in Nat /\ v[x] = 0
      BY <2>1 DEF Uses
    <3>2. n.count = Sum(c, Symbols(n))
      BY DEF CodeNode
    <3>3. Below(c, n) = Sum(Uses(c, n.depths, Symbols(n)), Symbols(n))
      BY DEF Below, Bits
    <3> HIDE DEF v
    <3>4. n.count = Sum(c, {x}) /\ Below(c, n) = Sum(v, {x})
      BY <2>1, <3>2, <3>3, Zenon DEF v
    <3> QED BY <3>1, <3>4
  <2> HIDE DEF v
  <2>3. IsFiniteSet({x}) /\ {x} \ {x} = {} /\ x \in {x}
    BY FS_Singleton
  <2>4. (\A y \in {x} : c[y] \in Int) /\ (\A y \in {x} : v[y] \in Int)
    BY <2>2
  <2>5. Sum(c, {x}) = c[x] + Sum(c, {x} \ {x}) /\ Sum(c, {}) = 0
    BY <2>3, <2>4, SumFacts
  <2>6. Sum(v, {x}) = v[x] + Sum(v, {x} \ {x}) /\ Sum(v, {}) = 0
    BY <2>3, <2>4, SumFacts
  <2>7. Sum(c, {x}) = c[x] + 0 /\ Sum(v, {x}) = v[x] + 0
    BY <2>3, <2>5, <2>6
  <2>8. n.count = c[x] /\ Below(c, n) = 0
    BY <2>2, <2>7
  <2> QED BY <2>8 DEF x
<1> HIDE DEF m, M
<1>8. Sum(s2, H) = Sum(s, A)
  <2>1. \A x \in A : s[x] = 2 ^ (M - lengths[x]) /\ s[x] \in Int
    BY <1>4, ShareType
  <2>2. \A n \in H : s2[n] = 2 ^ (M - m[n]) /\ s2[n] \in Int
    BY <1>4, <1>5, ShareType
  <2> HIDE DEF s, s2
  <2>3. \A n \in H : s2[n] \in Int /\ s[p[n]] = s2[n]
    BY <1>1, <1>5, <2>1, <2>2
  <2> QED BY <1>3, <2>3, SumRenames
<1>9. Sum(u2, H) = Sum(u, A) /\ Sum(u, A) \in Int
  <2>1. \A x \in A : u[x] = c[x] * lengths[x] /\ u[x] \in Int
    BY <1>4, UseType
  <2>2. \A n \in H : u2[n] = Weights(H)[n] * m[n] /\ u2[n] \in Int
    BY <1>5, <1>6, UseType
  <2> HIDE DEF u, u2
  <2>3. \A n \in H : u2[n] \in Int /\ u[p[n]] = u2[n]
    BY <1>1, <1>5, <1>6, <1>7, <2>1, <2>2
  <2>4. Sum(u, A) = Sum(u2, H)
    BY <1>3, <2>3, SumRenames
  <2>5. Sum(u, A) \in Int
    BY <2>1, SumFacts
  <2> QED BY <2>4, <2>5
<1>10. Sum(Paid(c, H), H) = 0
  <2> DEFINE q == Paid(c, H)
  <2>1. \A n \in H : q[n] = 0
    BY <1>6, <1>7
  <2> HIDE DEF q
  <2>2. 0 \in Int /\ \A n \in H : q[n] \in Int /\ q[n] = 0 * q[n]
    BY <2>1
  <2>3. Sum(q, H) = 0 * Sum(q, H)
    BY ZenonT(60), <2>2, SumScales
  <2>4. Sum(q, H) \in Int
    BY <2>2, SumFacts
  <2>5. Sum(q, H) = 0
    BY <2>3, <2>4
  <2> QED BY <2>5 DEF q
<1>11. Fits(m, M, H)
  BY <1>5, <1>8 DEF Fits, M
<1>12. Bits(Weights(H), m, H) + Sum(Paid(c, H), H) <= Bits(c, lengths, A)
  BY <1>9, <1>10 DEF Bits
<1> QED BY <1>11, <1>12 DEF NoWorse, M

(* The root's code is one, and no competitor is cheaper.                   *)
LEMMA RootWins ==
    ASSUME NEW A, IsFiniteSet(A), NEW c \in [A -> Nat],
           NEW n, CodeNode(c, A, n), Symbols(n) = A
    PROVE  /\ Fits(n.depths, Cardinality(A), A)
           /\ \A bits \in Int : NoWorse(c, A, {n}, bits) => Bits(c, n.depths, A) <= bits
<1>1. Fits(n.depths, Cardinality(A), A)
  <2>1. n.depths \in [A -> 0 .. Cardinality(A)] /\ Cardinality(A) \in Nat
    BY NodeSums
  <2>2. Sum(Shares(n.depths, Cardinality(A), A), A) = 2 ^ Cardinality(A)
    BY DEF CodeNode
  <2>3. 2 ^ Cardinality(A) \in Nat
    BY <2>1, Powers
  <2> QED BY <2>1, <2>2, <2>3 DEF Fits
<1>2. ASSUME NEW bits \in Int, NoWorse(c, A, {n}, bits)
      PROVE  Bits(c, n.depths, A) <= bits
  <2> DEFINE H == {n}
             M == Cardinality(A)
  <2>1. IsFiniteSet(H) /\ n \in H /\ H \ {n} = {} /\ \A h \in H : CodeNode(c, A, h)
    BY FS_Singleton
  <2>2. PICK m : Fits(m, M, H) /\ Bits(Weights(H), m, H) + Sum(Paid(c, H), H) <= bits
    BY <1>2 DEF NoWorse
  <2> HIDE DEF H
  <2>3. /\ Weights(H) \in [H -> Nat]
        /\ \A h \in H : Weights(H)[h] = h.count /\ h.count \in Nat
        /\ \A h \in H : Paid(c, H)[h] = Below(c, h) /\ Below(c, h) \in Nat
        /\ m \in [H -> Nat]
    BY <2>1, <2>2, HeapSums
  <2> DEFINE u == Uses(Weights(H), m, H)
             q == Paid(c, H)
  <2>4. \A h \in H : u[h] \in Nat /\ q[h] \in Nat
    BY <2>3, UseType
  <2>5. q[n] = Below(c, n)
    BY <2>1, <2>3
  <2>6. Bits(Weights(H), m, H) = Sum(u, H)
    BY DEF Bits
  <2> HIDE DEF u, q
  <2>7. Sum(u, H) = u[n] + Sum(u, H \ {n}) /\ Sum(q, H) = q[n] + Sum(q, H \ {n})
        /\ Sum(u, {}) = 0 /\ Sum(q, {}) = 0
    <3>1. \A h \in H : u[h] \in Int /\ q[h] \in Int
      BY <2>4
    <3> QED BY SMTT(60), <2>1, <3>1, SumFacts
  <2>8. u[n] \in Nat /\ q[n] \in Nat /\ Sum(u, H) = u[n] /\ Sum(q, H) = q[n]
    BY <2>1, <2>4, <2>7
  <2>9. Below(c, n) = Bits(c, n.depths, A)
    BY DEF Below
  <2>10. Sum(u, H) + Sum(q, H) <= bits
    BY <2>2, <2>6 DEF q
  <2> QED BY <2>5, <2>8, <2>9, <2>10
<1> QED BY <1>1, <1>2

-----------------------------------------------------------------------------
(* The code competes with every prefix code, step by step *)

\* Every code of A leaves words for the nodes that cost no more.
Competes(c, A, H) ==
    \A lengths : Fits(lengths, Cardinality(A), A) => NoWorse(c, A, H, Bits(c, lengths, A))

\* d is a prefix code of A, and none that gives a bit to each symbol is cheaper.
Cheapest(c, A, d) ==
    /\ Fits(d, Cardinality(A), A)
    /\ \A lengths :
           Fits(lengths, Cardinality(A), A) /\ (\A s \in A : lengths[s] >= 1)
               => Bits(c, d, A) <= Bits(c, lengths, A)

(* What OptimalPrefixCode needs to be inductive: the nodes are codes of    *)
(* their symbols, and until the last merge every prefix code has left      *)
(* words for the nodes that cost no more.                                  *)
CodeInv ==
    /\ \A n \in heap : CodeNode(Counts, Active, n)
    /\ pc \in {"start", "push"} =>
           \A n \in heap : \E s \in Active : Symbols(n) = {s} /\ n.depths[s] = 0
    /\ pc = "merge" => Competes(Counts, Active, heap)
    /\ Coded => Cheapest(Counts, Active, code_lengths)
    /\ pc \in {"report", "done"} /\ N # 0 /\ Active # {} => code_lengths # <<>>
    /\ pc = "done" /\ beats # None => RatioAsked /\ beats = BeatsHuffman

\* The dictionary gives each counted symbol its positive count.
LEMMA CountFacts ==
    ASSUME call \in Calls
    PROVE  /\ IsFiniteSet(Active)
           /\ \A i \in Entries : CountOf(Entry(i).symbol) = Entry(i).count
           /\ Counts \in [Active -> Nat]
           /\ \A s \in Active : Counts[s] > 0
<1>1. /\ Len(call.counts) \in Nat
      /\ \A i \in Entries : Entry(i).symbol \in Int /\ Entry(i).count \in Int
      /\ \A i, j \in Entries : Entry(i).symbol = Entry(j).symbol => i = j
  BY CallType
<1>2. IsFiniteSet(Active)
  <2> DEFINE E == {m \in Entries : Entry(m).count > 0}
             f == [i \in E |-> Entry(i).symbol]
  <2>1. IsFiniteSet(E)
    <3>1. IsFiniteSet(Entries)
      BY <1>1, FS_Interval DEF Entries
    <3> QED BY <3>1, FS_Subset
  <2>2. f \in Surjection(E, Active)
    BY DEF Surjection, Active, ActiveIn
  <2> HIDE DEF E, f
  <2> QED BY <2>1, <2>2, FS_Surjection
<1>3. ASSUME NEW i \in Entries PROVE CountOf(Entry(i).symbol) = Entry(i).count
  <2> DEFINE j == CHOOSE x \in Entries : Entry(x).symbol = Entry(i).symbol
  <2>1. j \in Entries /\ Entry(j).symbol = Entry(i).symbol
    OBVIOUS
  <2>2. j = i
    BY <1>1, <2>1
  <2>3. CountOf(Entry(i).symbol) = Entry(j).count
    BY DEF CountOf
  <2> HIDE DEF j
  <2> QED BY <2>2, <2>3
<1>4. \A s \in Active : CountOf(s) \in Nat /\ CountOf(s) > 0
  <2> SUFFICES ASSUME NEW s \in Active PROVE CountOf(s) \in Nat /\ CountOf(s) > 0
    OBVIOUS
  <2>1. PICK i \in Entries : s = Entry(i).symbol /\ Entry(i).count > 0
    BY DEF Active, ActiveIn
  <2>2. CountOf(s) = Entry(i).count
    BY <1>3, <2>1
  <2> QED BY <1>1, <2>1, <2>2
<1>5. Counts \in [Active -> Nat] /\ \A s \in Active : Counts[s] > 0
  BY <1>4 DEF Counts
<1> QED BY <1>2, <1>3, <1>5

\* What depends on the call alone does not change.
LEMMA SameCall ==
    ASSUME call' = call
    PROVE  /\ Active' = Active
           /\ Counts' = Counts
           /\ N' = N
           /\ \A n : CodeNode(Counts, Active, n)' <=> CodeNode(Counts, Active, n)
<1>1. Active' = Active
  BY DEF Active, ActiveIn, Entry, Entries
<1>2. \A s : CountOf(s)' = CountOf(s)
  BY DEF CountOf, Entry, Entries
<1>3. Counts' = Counts
  BY <1>1, <1>2 DEF Counts
<1>4. N' = N
  BY DEF N, Entry, Entries, MapThenSumSet, MapThenFoldSet
<1> QED BY <1>1, <1>3, <1>4 

\* A leaf is a code of its symbol.
LEMMA LeafCode ==
    ASSUME call \in Calls, NEW i \in Entries, Entry(i).count > 0
    PROVE  /\ Symbols(Leaf(Entry(i))) = {Entry(i).symbol}
           /\ Leaf(Entry(i)).depths[Entry(i).symbol] = 0
           /\ Entry(i).symbol \in Active
           /\ CodeNode(Counts, Active, Leaf(Entry(i)))
<1> DEFINE x == Entry(i).symbol
           n == Leaf(Entry(i))
           M == Cardinality(Active)
           q == Shares(n.depths, M, {x})
<1>1. n.depths = [s \in {x} |-> 0] /\ n.count = Entry(i).count
  BY DEF Leaf
<1>2. x \in Active
  BY DEF Active, ActiveIn
<1>3. IsFiniteSet(Active) /\ Counts \in [Active -> Nat] /\ CountOf(x) = Entry(i).count
  BY CountFacts
<1> HIDE DEF x, n
<1>4. Counts[x] = n.count
  BY <1>1, <1>2, <1>3 DEF Counts, x
<1>5. Symbols(n) = {x} /\ n.depths[x] = 0 /\ n.depths \in [{x} -> Nat]
  BY <1>1 DEF Symbols
<1>6. IsFiniteSet({x}) /\ Cardinality({x}) = 1 /\ {x} \ {x} = {} /\ x \in {x}
  BY FS_Singleton
<1>7. M \in Nat
  BY <1>3, FS_CardinalityType
<1>8. q[x] = 2 ^ M /\ 2 ^ M \in Nat
  <2>1. q[x] = 2 ^ (M - n.depths[x])
    BY DEF Shares
  <2>2. M - n.depths[x] = M
    BY <1>5, <1>7
  <2> HIDE DEF M, q
  <2> QED BY <1>7, <2>1, <2>2, Powers
<1> HIDE DEF q, M
<1>9. \A y \in {x} : Counts[y] \in Int /\ q[y] \in Int
  BY <1>2, <1>3, <1>8
<1>10. Sum(Counts, {x}) = Counts[x] + Sum(Counts, {x} \ {x}) /\ Sum(Counts, {}) = 0
  BY <1>6, <1>9, SumFacts
<1>11. Sum(q, {x}) = q[x] + Sum(q, {x} \ {x}) /\ Sum(q, {}) = 0
  BY <1>6, <1>9, SumFacts
<1>12. Sum(Counts, {x}) = n.count
  <2>1. Sum(Counts, {x}) = Counts[x] + 0
    BY <1>6, <1>10
  <2>2. Counts[x] \in Int
    BY <1>9
  <2> QED BY <1>4, <2>1, <2>2
<1>13. Sum(q, {x}) = 2 ^ M
  <2>1. Sum(q, {x}) = q[x] + 0
    BY <1>6, <1>11
  <2> QED BY <1>8, <2>1
<1>14. Sum(Shares(n.depths, Cardinality(Active), Symbols(n)), Symbols(n)) = 2 ^ Cardinality(Active)
  BY <1>5, <1>13, Zenon DEF q, M
<1>15. n.count = Sum(Counts, Symbols(n))
  BY <1>5, <1>12, Zenon
<1>16. CodeNode(Counts, Active, n)
  <2>1. \A s \in Symbols(n) : n.depths[s] + 1 <= Cardinality(Symbols(n))
    BY <1>5, <1>6
  <2> QED BY <1>2, <1>5, <1>14, <1>15, <2>1 DEF CodeNode
<1> QED BY <1>2, <1>5, <1>16 DEF x, n

\* A new leaf is a code of its symbol.
LEMMA PushCode == IInv /\ CodeInv /\ Push => CodeInv'
<1> SUFFICES ASSUME IInv, CodeInv, Push PROVE CodeInv'
  OBVIOUS
<1>1. /\ call \in Calls /\ pc = "push" /\ UNCHANGED <<call, pc, code_lengths, beats>>
      /\ pushed \in Nat /\ pushed < Len(call.counts) /\ Len(call.counts) \in Nat
  BY CallType DEF IInv, TypeOK, Push
<1>2. Active' = Active /\ Counts' = Counts
  BY <1>1, SameCall
<1>3. pushed + 1 \in Entries
  BY <1>1 DEF Entries
<1>4. ASSUME NEW n \in heap'
      PROVE  /\ CodeNode(Counts, Active, n)
             /\ \E s \in Active : Symbols(n) = {s} /\ n.depths[s] = 0
  <2>1. CASE n \in heap
    BY <1>1, <2>1 DEF CodeInv
  <2>2. CASE n \notin heap
    <3>1. Entry(pushed + 1).count > 0 /\ n = Leaf(Entry(pushed + 1))
      BY <1>4, <2>2 DEF Push
    <3> QED BY <1>1, <1>3, <3>1, LeafCode
  <2> QED BY <2>1, <2>2
<1>5. ~Coded' /\ pc' = "push"
  BY <1>1 DEF Coded
<1>6. \A n \in heap' : CodeNode(Counts', Active', n)
  BY <1>2, <1>4
<1>7. \A n \in heap' : \E s \in Active' : Symbols(n) = {s} /\ n.depths[s] = 0
  BY <1>2, <1>4
<1> QED BY <1>5, <1>6, <1>7 DEF CodeInv, CodeNode, Symbols

\* When all are pushed, every prefix code competes, with its own lengths.
LEMMA AllPushedCode == IInv /\ CodeInv /\ AllPushed => CodeInv'
<1> SUFFICES ASSUME IInv, CodeInv, AllPushed PROVE CodeInv'
  OBVIOUS
<1>1. /\ call \in Calls /\ pc = "push" /\ pc' = "merge" /\ pushed = Len(call.counts)
      /\ UNCHANGED <<call, pushed, heap, node_id_counter, code_lengths, beats>>
  BY DEF IInv, AllPushed
<1>2. Active' = Active /\ Counts' = Counts
  BY <1>1, SameCall
<1>3. Competes(Counts, Active, heap)
  <2> DEFINE c == Counts
             A == Active
  <2>1. IsFiniteSet(A) /\ c \in [A -> Nat]
    BY <1>1, CountFacts
  <2>2. /\ IsFiniteSet(heap)
        /\ \A a, b \in heap : a # b => Symbols(a) \cap Symbols(b) = {}
        /\ Covered = A
    BY <1>1 DEF IInv, HeapInv, Active, Entries
  <2>3. /\ \A n \in heap : CodeNode(c, A, n)
        /\ \A n \in heap : \E s \in A : Symbols(n) = {s} /\ n.depths[s] = 0
    BY <1>1 DEF CodeInv
  <2>4. \A s \in A : \E n \in heap : s \in Symbols(n)
    BY <2>2 DEF Covered
  <2> HIDE DEF c, A
  <2>5. Competes(c, A, heap)
    BY <2>1, <2>2, <2>3, <2>4, LeavesKeep DEF Competes
  <2> QED BY <2>5 DEF c, A
<1>4. ~Coded'
  BY <1>1 DEF Coded
<1>5. \A n \in heap' : CodeNode(Counts', Active', n)
  BY <1>1, <1>2 DEF CodeInv
<1>6. Competes(Counts', Active', heap')
  BY <1>1, <1>2, <1>3
<1> QED BY <1>1, <1>4, <1>5, <1>6 DEF CodeInv, CodeNode, Symbols, Competes, NoWorse

\* A merge takes the two rarest nodes, and so keeps every competitor.
LEMMA MergeCode == IInv /\ CodeInv /\ Merge => CodeInv'
<1> SUFFICES ASSUME IInv, CodeInv, Merge PROVE CodeInv'
  OBVIOUS
<1>1. PICK l \in heap, r \in heap :
          /\ IsFirst(l, heap)
          /\ IsFirst(r, heap \ {l})
          /\ heap' = (heap \ {l, r}) \cup {Merged(l, r)}
  BY DEF Merge
<1> DEFINE n == Merged(l, r)
           c == Counts
           A == Active
<1>2. /\ call \in Calls /\ pc = "merge" /\ pc' = "merge"
      /\ UNCHANGED <<call, pc, pushed, code_lengths, beats>>
      /\ node_id_counter \in Nat
  BY DEF IInv, TypeOK, Merge
<1>3. Active' = A /\ Counts' = c
  BY <1>2, SameCall
<1>4. IsFiniteSet(A) /\ c \in [A -> Nat]
  BY <1>2, CountFacts
<1>5. /\ IsFiniteSet(heap)
      /\ \A a, b \in heap : a # b => Symbols(a) \cap Symbols(b) = {}
      /\ \A a \in heap : CodeNode(c, A, a)
      /\ \A a \in heap : a \in NodeOver(Symbols(a)) /\ NodeInv(a)
      /\ Competes(c, A, heap)
  BY <1>2 DEF IInv, TypeOK, HeapInv, CodeInv
<1>6. l # r /\ l.count <= r.count /\ \A h \in heap \ {l, r} : r.count <= h.count
  <2>1. l # r
    BY <1>1 DEF IsFirst
  <2>2. \A a \in heap : a.count \in Int
    BY <1>5 DEF NodeOver
  <2>3. Before(l, r) /\ \A h \in heap \ {l, r} : Before(r, h)
    BY <1>1, <2>1 DEF IsFirst
  <2>4. \A a, b \in heap : Before(a, b) => a.count <= b.count
    BY <2>2 DEF Before
  <2> QED BY <2>1, <2>3, <2>4
<1>7. /\ Symbols(n) = Symbols(l) \cup Symbols(r)
      /\ n \in NodeOver(Symbols(n))
  <2>1. l \in NodeOver(Symbols(l)) /\ NodeInv(l) /\ r \in NodeOver(Symbols(r)) /\ NodeInv(r)
    BY <1>5
  <2> QED BY <1>2, <2>1, MergedFacts
<1>8. Symbols(l) \cap Symbols(r) = {} /\ Symbols(l) # {} /\ Symbols(r) # {}
  BY <1>5, <1>6 DEF CodeNode
<1>9. /\ n.count = l.count + r.count
      /\ n.depths = [s \in Symbols(l) \cup Symbols(r) |->
                        1 + IF s \in Symbols(l) THEN l.depths[s] ELSE r.depths[s]]
  BY DEF Merged
<1> HIDE DEF n, c, A
<1>10. CodeNode(c, A, n) /\ Below(c, n) = Below(c, l) + Below(c, r) + n.count
  <2>1. n.depths \in [Symbols(n) -> Nat]
    BY <1>7 DEF NodeOver
  <2>2. /\ \A s \in Symbols(l) : n.depths[s] = 1 + l.depths[s]
        /\ \A s \in Symbols(r) : n.depths[s] = 1 + r.depths[s]
    BY <1>8, <1>9
  <2>3. CodeNode(c, A, l) /\ CodeNode(c, A, r)
    BY <1>5
  <2>4. IsMerge(n, l, r)
    BY <1>7, <1>8, <1>9, <2>1, <2>2 DEF IsMerge
  <2> QED BY <1>4, <2>3, <2>4, MergedCode
<1>11. n \notin heap
  <2>1. CASE n = l
    BY <1>7, <1>8, <2>1
  <2>2. CASE n \in heap /\ n # l
    BY <1>5, <1>7, <1>8, <2>2
  <2> QED BY <2>1, <2>2
<1> DEFINE H2 == (heap \ {l, r}) \cup {n}
<1>12. heap' = H2
  BY <1>1 DEF n
<1>13. Competes(c, A, H2)
  <2> SUFFICES ASSUME NEW lengths, Fits(lengths, Cardinality(A), A)
               PROVE  NoWorse(c, A, H2, Bits(c, lengths, A))
    BY DEF Competes
  <2> DEFINE bits == Bits(c, lengths, A)
  <2>1. NoWorse(c, A, heap, bits)
    BY <1>5 DEF Competes
  <2>2. bits \in Int
    <3>1. lengths \in [A -> Nat]
      BY DEF Fits
    <3>2. \A s \in A : Uses(c, lengths, A)[s] \in Int
      BY <1>4, <3>1, UseType
    <3> QED BY <1>4, <3>2, SumFacts DEF Bits
  <2> HIDE DEF bits
  <2>3. NoWorse(c, A, (heap \ {l, r}) \cup {n}, bits)
    BY <1>4, <1>5, <1>6, <1>9, <1>10, <1>11, <2>1, <2>2, MergeKeeps
  <2> QED BY <2>3 DEF bits
<1>14. \A a \in H2 : CodeNode(c, A, a)
  BY <1>5, <1>10
<1>15. ~Coded'
  BY <1>2 DEF Coded
<1> HIDE DEF H2
<1>16. (\A a \in heap' : CodeNode(Counts', Active', a)) /\ Competes(Counts', Active', heap')
  BY <1>3, <1>12, <1>13, <1>14
<1> QED BY <1>2, <1>15, <1>16 DEF CodeInv, CodeNode, Symbols, Competes, NoWorse

\* The last node is the code, or, for a lone symbol, one bit is the least.
LEMMA ExtractCode == IInv /\ CodeInv /\ Extract => CodeInv'
<1> SUFFICES ASSUME IInv, CodeInv, Extract PROVE CodeInv'
  OBVIOUS
<1> DEFINE c == Counts
           A == Active
<1>1. /\ call \in Calls /\ pc = "merge" /\ pc' = "report"
      /\ UNCHANGED <<call, pushed, heap, node_id_counter, beats>>
      /\ code_lengths' = IF heap = {} THEN <<>>
                         ELSE Lengths(CHOOSE root \in heap : TRUE)
      /\ ~(Cardinality(heap) > 1)
  BY DEF IInv, Extract, Merging
<1>2. Active' = A /\ Counts' = c
  BY <1>1, SameCall
<1>3. IsFiniteSet(A) /\ c \in [A -> Nat]
  BY <1>1, CountFacts
<1>4. /\ IsFiniteSet(heap)
      /\ \A n \in heap : CodeNode(c, A, n)
      /\ Competes(c, A, heap)
      /\ Covered = A
  BY <1>1 DEF IInv, HeapInv, CodeInv, Active, Entries
<1>5. ASSUME heap # {} PROVE Cheapest(c, A, code_lengths') /\ code_lengths' # <<>>
  <2> DEFINE root == CHOOSE x \in heap : TRUE
  <2>1. root \in heap
    BY <1>5
  <2>2. heap = {root}
    <3>1. Cardinality(heap) \in Nat
      BY <1>4, FS_CardinalityType
    <3>2. Cardinality(heap) = 1
      BY <1>1, <1>4, <1>5, <3>1, FS_EmptySet
    <3>3. \E x : heap = {x}
      BY <1>4, <3>2, FS_Singleton
    <3> QED BY <2>1, <3>3
  <2>3. code_lengths' = Lengths(root)
    BY <1>1, <1>5
  <2> HIDE DEF root
  <2>4. CodeNode(c, A, root) /\ Symbols(root) = A /\ A # {}
    <3>1. CodeNode(c, A, root)
      BY <1>4, <2>1
    <3>2. Covered = Symbols(root)
      BY <2>2 DEF Covered
    <3> QED BY <1>4, <3>1, <3>2 DEF CodeNode
  <2> HIDE DEF c, A
  <2>5. CASE \A s, t \in A : s = t
    <3>1. PICK x \in A : A = {x}
      BY <2>4, <2>5
    <3> DEFINE d == [s \in A |-> 1]
               u == Uses(c, d, A)
               q == Shares(d, 1, A)
    <3>2. code_lengths' = d
      BY <2>3, <2>4, <2>5 DEF Lengths
    <3>3. Cardinality(A) = 1 /\ A \ {x} = {}
      BY <3>1, FS_Singleton
    <3>4. Fits(d, Cardinality(A), A)
      <4>1. q[x] = 1
        <5>1. q[x] = 2 ^ (1 - 1)
          BY DEF Shares
        <5>2. 1 - 1 = 0 /\ 2 ^ 0 = 1
          OBVIOUS
        <5> HIDE DEF q
        <5> QED BY <5>1, <5>2
      <4> HIDE DEF q
      <4>2. \A s \in A : q[s] \in Int
        BY <3>1, <4>1
      <4>3. Sum(q, A) = q[x] + Sum(q, A \ {x}) /\ Sum(q, {}) = 0
        BY ZenonT(60), <1>3, <4>2, SumFacts
      <4>4. Sum(q, A) = 1
        BY <3>3, <4>1, <4>3
      <4>5. 2 ^ 1 = 2
        OBVIOUS
      <4>6. d \in [A -> 0 .. 1]
        OBVIOUS
      <4>7. Sum(q, A) <= 2 ^ 1
        BY <4>4, <4>5
      <4> HIDE DEF d
      <4> QED BY <3>3, <4>6, <4>7 DEF Fits, q
    <3>5. ASSUME NEW lengths, Fits(lengths, Cardinality(A), A), \A s \in A : lengths[s] >= 1
          PROVE  Bits(c, d, A) <= Bits(c, lengths, A)
      <4> DEFINE v == Uses(c, lengths, A)
      <4>1. lengths \in [A -> Nat] /\ lengths[x] >= 1 /\ lengths[x] \in Nat
        BY <3>5 DEF Fits
      <4>2. u[x] = c[x] * 1 /\ v[x] = c[x] * lengths[x] /\ c[x] \in Nat
        BY <1>3 DEF Uses
      <4> HIDE DEF u, v
      <4>3. u[x] \in Int /\ v[x] \in Int /\ u[x] <= v[x]
        <5>1. \A a \in Nat : \A b \in Nat : b >= 1 => a * 1 \in Int /\ a * b \in Int /\ a * 1 <= a * b
          OBVIOUS
        <5> QED BY <4>1, <4>2, <5>1
      <4>4. \A s \in A : u[s] \in Int /\ v[s] \in Int
        BY <3>1, <4>3
      <4>5. Sum(u, A) = u[x] + Sum(u, A \ {x}) /\ Sum(u, {}) = 0
        BY ZenonT(60), <1>3, <4>4, SumFacts
      <4>6. Sum(v, A) = v[x] + Sum(v, A \ {x}) /\ Sum(v, {}) = 0
        BY ZenonT(60), <1>3, <4>4, SumFacts
      <4>7. Sum(u, A) = u[x] + 0 /\ Sum(v, A) = v[x] + 0
        BY <3>3, <4>5, <4>6
      <4>8. Sum(u, A) <= Sum(v, A)
        BY <4>3, <4>7
      <4> QED BY <4>8 DEF Bits, u, v
    <3>6. d # <<>>
      BY <2>4
    <3> HIDE DEF d
    <3> QED BY <3>2, <3>4, <3>5, <3>6 DEF Cheapest
  <2>6. CASE ~(\A s, t \in A : s = t)
    <3>1. code_lengths' = root.depths
      BY <2>3, <2>4, <2>6 DEF Lengths
    <3>2. /\ Fits(root.depths, Cardinality(A), A)
          /\ \A bits \in Int : NoWorse(c, A, {root}, bits) => Bits(c, root.depths, A) <= bits
      BY <1>3, <2>4, RootWins
    <3>3. ASSUME NEW lengths, Fits(lengths, Cardinality(A), A)
          PROVE  Bits(c, root.depths, A) <= Bits(c, lengths, A)
      <4> DEFINE bits == Bits(c, lengths, A)
      <4>1. NoWorse(c, A, {root}, bits)
        BY <1>4, <2>2, <3>3 DEF Competes
      <4>2. bits \in Int
        <5>1. lengths \in [A -> Nat]
          BY <3>3 DEF Fits
        <5>2. \A s \in A : Uses(c, lengths, A)[s] \in Int
          BY <1>3, <5>1, UseType
        <5> QED BY <1>3, <5>2, SumFacts DEF Bits
      <4> HIDE DEF bits
      <4>3. Bits(c, root.depths, A) <= bits
        BY <3>2, <4>1, <4>2
      <4> QED BY <4>3 DEF bits
    <3>4. DOMAIN root.depths # {}
      BY <2>4 DEF Symbols
    <3>5. root.depths # <<>>
      BY <3>4
    <3> QED BY <3>1, <3>2, <3>3, <3>5 DEF Cheapest
  <2> QED BY <2>5, <2>6
<1>6. heap = {} => code_lengths' = <<>> /\ A = {}
  BY <1>1, <1>4 DEF Covered
<1>7. Coded' => Cheapest(Counts', Active', code_lengths')
  BY <1>2, <1>5, <1>6 DEF Coded
<1>8. Active' # {} => code_lengths' # <<>>
  BY <1>2, <1>5, <1>6
<1>9. \A n \in heap' : CodeNode(Counts', Active', n)
  BY <1>1, <1>2, <1>4
<1> QED BY <1>1, <1>7, <1>8, <1>9 DEF CodeInv, CodeNode, Symbols, Cheapest

(* The other steps leave the codes as they are; the report is of the code. *)
LEMMA QuietCode ==
    ASSUME CodeInv, UNCHANGED <<call, heap, code_lengths>>,
           pc' \in {"start", "push"} => pc \in {"start", "push"},
           pc' = "merge" => pc = "merge",
           Coded' => Coded,
           pc' \in {"report", "done"} /\ N # 0 /\ Active # {} => code_lengths # <<>>,
           pc' = "done" /\ beats' # None => RatioAsked /\ beats' = BeatsHuffman
    PROVE  CodeInv'
<1>1. Active' = Active /\ Counts' = Counts /\ N' = N
  BY SameCall
<1>2. RatioAsked' = RatioAsked
  BY DEF RatioAsked
<1>3. Cost(code_lengths)' = Cost(code_lengths)
  BY DEF Cost, CountOf, Entry, Entries, MapThenSumSet, MapThenFoldSet
<1>4. BeatsHuffman' = BeatsHuffman
  BY <1>1, <1>3 DEF BeatsHuffman, BitsB0
<1>5. \A n \in heap' : CodeNode(Counts', Active', n)
  BY <1>1 DEF CodeInv
<1>6. pc' \in {"start", "push"} =>
          \A n \in heap' : \E s \in Active' : Symbols(n) = {s} /\ n.depths[s] = 0
  BY <1>1 DEF CodeInv
<1>7. pc' = "merge" => Competes(Counts', Active', heap')
  BY <1>1 DEF CodeInv
<1>8. Coded' => Cheapest(Counts', Active', code_lengths')
  BY <1>1 DEF CodeInv
<1>9. /\ pc' \in {"report", "done"} /\ N' # 0 /\ Active' # {} => code_lengths' # <<>>
      /\ pc' = "done" /\ beats' # None => RatioAsked' /\ beats' = BeatsHuffman'
  BY <1>1, <1>2, <1>4
<1> QED
  BY <1>5, <1>6, <1>7, <1>8, <1>9
  DEF CodeInv, CodeNode, Symbols, Competes, NoWorse, Cheapest

\* A call starts without a code.
LEMMA InitCode == Init => CodeInv
BY DEF Init, CodeInv, Coded

\* Every step keeps the competitors, and then the cheapest of them.
LEMMA NextCode == IInv /\ CodeInv /\ [Next]_vars => CodeInv'
<1> SUFFICES ASSUME IInv, CodeInv, [Next]_vars PROVE CodeInv'
  OBVIOUS
<1>1. CASE Push
  BY <1>1, PushCode
<1>2. CASE AllPushed
  BY <1>2, AllPushedCode
<1>3. CASE Merge
  BY <1>3, MergeCode
<1>4. CASE Extract
  BY <1>4, ExtractCode
<1>5. CASE Start
  <2>1. /\ pc = "start" /\ UNCHANGED <<call, heap, code_lengths, beats>>
        /\ pc' \in {"exit1", "report", "raised", "push"}
        /\ pc' = "report" => N = 0
    BY <1>5 DEF Start
  <2>2. code_lengths = <<>>
    BY <2>1 DEF IInv, HeapInv
  <2>3. ~Coded'
    BY <2>1, <2>2 DEF Coded
  <2> QED BY <2>1, <2>3, QuietCode
<1>6. CASE Report
  <2>1. /\ pc = "report" /\ pc' \in {"done", "raised"}
        /\ UNCHANGED <<call, heap, code_lengths>>
        /\ pc' = "done" => beats' = IF RatioAsked THEN BeatsHuffman ELSE None
    BY <1>6 DEF Report
  <2>2. Coded' => Coded
    BY <2>1 DEF Coded
  <2>3. N # 0 /\ Active # {} => code_lengths # <<>>
    BY <2>1 DEF CodeInv
  <2> QED BY <2>1, <2>2, <2>3, QuietCode
<1>7. CASE UNCHANGED vars
  <2>1. UNCHANGED <<call, pc, heap, code_lengths, beats>>
    BY <1>7 DEF vars
  <2>2. Coded' => Coded
    BY <2>1 DEF Coded
  <2>3. /\ pc \in {"report", "done"} /\ N # 0 /\ Active # {} => code_lengths # <<>>
        /\ pc = "done" /\ beats # None => RatioAsked /\ beats = BeatsHuffman
    BY DEF CodeInv
  <2> QED BY <2>1, <2>2, <2>3, QuietCode
<1> QED
  BY <1>1, <1>2, <1>3, <1>4, <1>5, <1>6, <1>7 DEF Next, Step, Terminating

\* Both invariants hold in every state.
LEMMA InductiveCode == Spec => [](IInv /\ CodeInv)
<1>1. Init => IInv /\ CodeInv
  BY InitInv, InitCode
<1>2. (IInv /\ CodeInv) /\ [Next]_vars => (IInv /\ CodeInv)'
  BY NextInv, NextCode
<1> QED BY <1>1, <1>2, PTL DEF Spec

\* A prefix code, and any finished code, is one of those the code competes with.
LEMMA CodesCompete ==
    ASSUME call \in Calls
    PROVE  /\ \A other \in PrefixCodes :
                  /\ other \in [Active -> Nat \ {0}]
                  /\ Fits(other, Cardinality(Active), Active)
                  /\ Cost(other) = Bits(Counts, other, Active) /\ Cost(other) \in Nat
           /\ \A d \in [Active -> Nat \ {0}] :
                  Fits(d, Cardinality(Active), Active) =>
                      /\ d \in PrefixCodes
                      /\ Kraft(d)
<1> DEFINE M == Cardinality(Active)
<1>1. IsFiniteSet(Active) /\ Counts \in [Active -> Nat]
  BY CountFacts
<1>2. ASSUME NEW d \in [Active -> Nat \ {0}], Fits(d, M, Active)
      PROVE  d \in PrefixCodes /\ Kraft(d)
  <2>1. d \in [Active -> 0 .. M]
    BY <1>2 DEF Fits
  <2>2. Kraft(d)
    BY <1>1, <1>2, <2>1, KraftIs
  <2>3. d \in [Active -> 1 .. M]
    <3>1. \A s \in Active : d[s] \in 1 .. M
      BY <1>2, <2>1
    <3> HIDE DEF M
    <3> QED BY <2>1, <3>1
  <2> QED BY <2>2, <2>3 DEF PrefixCodes
<1>3. ASSUME NEW d \in PrefixCodes
      PROVE  /\ d \in [Active -> Nat \ {0}] /\ Fits(d, M, Active)
             /\ Cost(d) = Bits(Counts, d, Active) /\ Cost(d) \in Nat
  <2>1. d \in [Active -> 1 .. M] /\ Kraft(d)
    BY <1>3 DEF PrefixCodes
  <2>2. d \in [Active -> 0 .. M] /\ d \in [Active -> Nat] /\ d \in [Active -> Nat \ {0}]
    <3> HIDE DEF M
    <3> QED BY <2>1
  <2>3. Fits(d, M, Active)
    BY <1>1, <2>1, <2>2, KraftIs
  <2>4. Cost(d) = Bits(Counts, d, Active)
    BY <1>1, <2>2, CostIs
  <2>5. Bits(Counts, d, Active) \in Nat
    <3>1. \A s \in Active : Uses(Counts, d, Active)[s] \in Nat
      BY <1>1, <2>2, UseType
    <3> QED BY <1>1, <3>1, SumOfNats DEF Bits
  <2> QED BY <2>2, <2>3, <2>4, <2>5
<1> QED BY <1>2, <1>3

\* A finished code is a prefix code, and none is cheaper.
LEMMA BestOf == IInv /\ CodeInv => OptimalPrefixCode
<1> SUFFICES ASSUME IInv, CodeInv, Coded
             PROVE  /\ Kraft(code_lengths)
                    /\ \A other \in PrefixCodes : Cost(code_lengths) <= Cost(other)
  BY DEF OptimalPrefixCode
<1>1. call \in Calls /\ code_lengths \in [Active -> Nat \ {0}]
  BY DEF IInv, TypeOK
<1>2. Cheapest(Counts, Active, code_lengths)
  BY DEF CodeInv
<1>3. Kraft(code_lengths) /\ code_lengths \in PrefixCodes
  BY <1>1, <1>2, CodesCompete DEF Cheapest
<1>4. ASSUME NEW other \in PrefixCodes PROVE Cost(code_lengths) <= Cost(other)
  <2>1. /\ other \in [Active -> Nat \ {0}]
        /\ Fits(other, Cardinality(Active), Active)
        /\ Cost(other) = Bits(Counts, other, Active)
        /\ Cost(code_lengths) = Bits(Counts, code_lengths, Active)
    BY <1>1, <1>3, CodesCompete
  <2>2. \A s \in Active : other[s] >= 1
    BY <2>1
  <2>3. Bits(Counts, code_lengths, Active) <= Bits(Counts, other, Active)
    BY <1>2, <2>1, <2>2 DEF Cheapest
  <2> QED BY <2>1, <2>3
<1> QED BY <1>3, <1>4

(* The lengths fit a prefix code, and no prefix code is cheaper: greedy    *)
(* merging in canonical_huffman_code_lengths is optimal for any counts.    *)
THEOREM Optimal == Spec => []OptimalPrefixCode
BY BestOf, InductiveCode, PTL

\* A code of counted symbols costs a bit at least.
LEMMA CostsSomething ==
    ASSUME call \in Calls, Active # {}, NEW d \in PrefixCodes
    PROVE  Cost(d) # 0
<1> DEFINE u == Uses(Counts, d, Active)
<1>1. IsFiniteSet(Active) /\ Counts \in [Active -> Nat] /\ \A s \in Active : Counts[s] > 0
  BY CountFacts
<1>2. d \in [Active -> Nat \ {0}] /\ d \in [Active -> Nat]
  BY CodesCompete
<1>3. PICK s \in Active : TRUE
  OBVIOUS
<1>4. \A x \in Active : u[x] = Counts[x] * d[x] /\ u[x] \in Nat
  BY <1>1, <1>2, UseType
<1>5. Cost(d) = Sum(u, Active)
  BY <1>1, <1>2, CostIs DEF Bits
<1> HIDE DEF u
<1>6. u[s] # 0
  <2>1. \A a, b \in Nat : a > 0 /\ b # 0 => a * b # 0
    OBVIOUS
  <2> QED BY <1>1, <1>2, <1>4, <2>1
<1>7. Sum(u, Active) = u[s] + Sum(u, Active \ {s})
  BY <1>1, <1>4, SumFacts
<1>8. Sum(u, Active \ {s}) \in Nat
  <2>1. IsFiniteSet(Active \ {s}) /\ \A x \in Active \ {s} : u[x] \in Nat
    BY <1>1, <1>4, FS_RemoveElement
  <2> QED BY <2>1, SumOfNats
<1> QED BY <1>4, <1>5, <1>6, <1>7, <1>8

(* What rounding makes of a comparison: it is never wrong about a size     *)
(* that is not smaller, and always right where the numbers are exact.      *)
LEMMA Rounding ==
    ASSUME NEW m \in Int, NEW b \in Nat
    PROVE  /\ (b - m) * 2 ^ (FloatBits + 1) > b => m < b
           /\ (m < b /\ b < 2 ^ (FloatBits + 1)) => (b - m) * 2 ^ (FloatBits + 1) > b
<1> DEFINE W == 2 ^ (FloatBits + 1)
<1>1. W \in Nat \ {0}
  BY FloatAssumption, Powers
<1> HIDE DEF W
<1>2. ASSUME NEW d \in Int, d <= 0 PROVE d * W <= 0
  BY <1>1, <1>2
<1>3. ASSUME NEW d \in Int, d >= 1 PROVE d * W >= W
  BY <1>1, <1>3
<1>4. b - m \in Int /\ (m < b <=> ~(b - m <= 0)) /\ (m < b => b - m >= 1)
  OBVIOUS
<1>5. (b - m) * W \in Int
  BY <1>1
<1>6. (b - m) * W > b => m < b
  BY <1>2, <1>4, <1>5
<1>7. (m < b /\ b < W) => (b - m) * W > b
  BY <1>1, <1>3, <1>4, <1>5
<1> QED BY <1>6, <1>7 DEF W

(* ratio_B < 1.0 is said of no size that some prefix code gets down to, of *)
(* every size that is below all of them while B0 is exact as a float, and  *)
(* never where there is nothing to code.                                   *)
THEOREM BeatsThemAll == Spec => []BeatsEveryPrefixCode
<1>1. IInv /\ CodeInv => BeatsEveryPrefixCode
  <2> SUFFICES ASSUME IInv, CodeInv, pc = "done", beats # None
               PROVE  /\ beats => BelowEveryCode
                      /\ (BelowEveryCode /\ BitsB0 < 2 ^ (FloatBits + 1)) => beats
    BY DEF BeatsEveryPrefixCode
  <2>1. call \in Calls /\ RatioAsked /\ beats = BeatsHuffman
    BY DEF IInv, CodeInv
  <2>2. call.model_bits \in Int
    BY <2>1, CallAssumption DEF RatioAsked
  <2>3. CASE N = 0
    BY <2>1, <2>3 DEF BeatsHuffman, BitsB0, BelowEveryCode
  <2>4. CASE N # 0 /\ Active = {}
    <3>1. code_lengths \in [Active -> Nat]
      <4>1. CASE code_lengths = <<>>
        <5>1. <<>> \in [{} -> Nat]
          OBVIOUS
        <5> QED BY <2>4, <4>1, <5>1
      <4>2. CASE code_lengths # <<>>
        <5>1. code_lengths \in [Active -> Nat \ {0}]
          BY <4>2 DEF IInv, TypeOK, Coded
        <5> QED BY <5>1
      <4> QED BY <4>1, <4>2
    <3>2. Cost(code_lengths) = Sum(Uses(Counts, code_lengths, Active), {})
      BY <2>1, <2>4, <3>1, CountFacts, CostIs DEF Bits
    <3>3. Sum(Uses(Counts, code_lengths, Active), {}) = 0
      BY FS_EmptySet, SumFacts
    <3>4. BitsB0 = 0
      BY <3>2, <3>3 DEF BitsB0
    <3> QED BY <2>1, <2>4, <3>4 DEF BeatsHuffman, BelowEveryCode
  <2>5. CASE N # 0 /\ Active # {}
    <3>1. Coded
      BY <2>5 DEF CodeInv, Coded
    <3>2. code_lengths \in [Active -> Nat \ {0}] /\ Cheapest(Counts, Active, code_lengths)
      BY <3>1 DEF IInv, TypeOK, CodeInv
    <3>3. code_lengths \in PrefixCodes
      BY <2>1, <3>2, CodesCompete DEF Cheapest
    <3>4. \A other \in PrefixCodes :
              Cost(other) \in Nat /\ Cost(code_lengths) <= Cost(other)
      BY <2>1, <3>1, CodesCompete, BestOf DEF OptimalPrefixCode
    <3>5. Cost(code_lengths) # 0 /\ BitsB0 = Cost(code_lengths)
      BY <2>1, <2>5, <3>3, CostsSomething DEF BitsB0
    <3>6. BitsB0 \in Nat /\ BitsB0 # 0
      BY <3>3, <3>4, <3>5
    <3>7. (\A other \in PrefixCodes : call.model_bits < Cost(other))
              <=> call.model_bits < Cost(code_lengths)
      BY <2>2, <3>3, <3>4
    <3>8. BelowEveryCode <=> call.model_bits < BitsB0
      BY <2>5, <3>5, <3>7 DEF BelowEveryCode
    <3>9. beats <=> (BitsB0 - call.model_bits) * 2 ^ (FloatBits + 1) > BitsB0
      BY <2>1, <3>6 DEF BeatsHuffman
    <3> QED BY <2>2, <3>6, <3>8, <3>9, Rounding
  <2> QED BY <2>3, <2>4, <2>5
<1> QED BY <1>1, InductiveCode, PTL

-----------------------------------------------------------------------------
(* Products and powers *)

\* The loop of a product is a function: each product has one factor more.
LEMMA ProductLoop ==
    ASSUME NEW t, NEW n \in Nat
    PROVE  \E g : /\ g[0] = 1
                  /\ \A i \in 1 .. n : g[i] = g[i - 1] * t[i]
                  /\ Product(t, n) = g[n]
<1> DEFINE A == 1
           S == {m \in Nat : \E f : f = [i \in 0 .. m |-> IF i = 0 THEN A ELSE f[i - 1] * t[i]]}
           g == CHOOSE f : f = [i \in 0 .. n |-> IF i = 0 THEN A ELSE f[i - 1] * t[i]]
<1>0. n \in Nat
  OBVIOUS
<1> HIDE DEF A
<1>1. 0 \in S
  <2> DEFINE h == [i \in 0 .. 0 |-> A]
  <2>1. h = [i \in 0 .. 0 |-> IF i = 0 THEN A ELSE h[i - 1] * t[i]]
    OBVIOUS
  <2> QED BY <2>1
<1>2. ASSUME NEW m \in Nat, m \in S PROVE m + 1 \in S
  <2>1. PICK f : f = [i \in 0 .. m |-> IF i = 0 THEN A ELSE f[i - 1] * t[i]]
    BY <1>2
  <2> DEFINE h == [i \in 0 .. m + 1 |-> IF i <= m THEN f[i] ELSE f[m] * t[m + 1]]
  <2>2. h = [i \in 0 .. m + 1 |-> IF i = 0 THEN A ELSE h[i - 1] * t[i]]
    BY <2>1
  <2> HIDE DEF h
  <2> QED BY <2>2
<1>3. n \in S
  <2> HIDE DEF S
  <2> QED BY <1>0, <1>1, <1>2, SetInduction
<1>4. g = [i \in 0 .. n |-> IF i = 0 THEN A ELSE g[i - 1] * t[i]]
  BY <1>3
<1>5. Product(t, n) = g[n]
  BY DEF Product, A
<1> HIDE DEF g
<1>6. g[0] = A /\ \A i \in 1 .. n : g[i] = g[i - 1] * t[i]
  BY <1>0, <1>4
<1> QED BY <1>5, <1>6 DEF A

\* Equal factors have equal products.
LEMMA SameProducts ==
    ASSUME NEW n \in Nat, NEW t, NEW u, \A i \in 1 .. n : t[i] = u[i]
    PROVE  Product(t, n) = Product(u, n)
<1> DEFINE S(f, g) == {i \in Nat : i <= n => f[i] = g[i]}
<1>1. PICK f : /\ f[0] = 1
               /\ \A i \in 1 .. n : f[i] = f[i - 1] * t[i]
               /\ Product(t, n) = f[n]
  BY ProductLoop
<1>2. PICK g : /\ g[0] = 1
               /\ \A i \in 1 .. n : g[i] = g[i - 1] * u[i]
               /\ Product(u, n) = g[n]
  BY ProductLoop
<1>3. 0 \in S(f, g)
  BY <1>1, <1>2
<1>4. ASSUME NEW m \in Nat, m \in S(f, g) PROVE m + 1 \in S(f, g)
  <2> SUFFICES ASSUME m + 1 <= n PROVE f[m + 1] = g[m + 1]
    OBVIOUS
  <2>1. f[m] = g[m]
    BY <1>4
  <2>2. m + 1 \in 1 .. n /\ (m + 1) - 1 = m
    OBVIOUS
  <2> QED BY <1>1, <1>2, <2>1, <2>2
<1>5. n \in S(f, g)
  <2> DEFINE Q == S(f, g)
  <2>1. 0 \in Q /\ \A m \in Nat : m < n /\ m \in Q => m + 1 \in Q
    BY <1>3, <1>4
  <2> HIDE DEF Q
  <2>2. n \in Q
    BY <2>1, SetInduction
  <2> QED BY <2>2 DEF Q
<1> QED BY <1>1, <1>2, <1>5

\* The product of one factor more.
LEMMA ProductStep ==
    ASSUME NEW t, NEW n \in Nat
    PROVE  Product(t, 0) = 1 /\ Product(t, n + 1) = Product(t, n) * t[n + 1]
<1>1. Product(t, 0) = 1
  <2>1. PICK g : g[0] = 1 /\ Product(t, 0) = g[0]
    BY ProductLoop
  <2> QED BY <2>1
<1>2. PICK g : /\ g[0] = 1
               /\ \A i \in 1 .. n + 1 : g[i] = g[i - 1] * t[i]
               /\ Product(t, n + 1) = g[n + 1]
  <2>1. n + 1 \in Nat
    OBVIOUS
  <2> QED BY <2>1, ProductLoop
<1>3. PICK f : /\ f[0] = 1
               /\ \A i \in 1 .. n : f[i] = f[i - 1] * t[i]
               /\ Product(t, n) = f[n]
  BY ProductLoop
<1> DEFINE S == {i \in Nat : i <= n => f[i] = g[i]}
<1>4. 0 \in S
  BY <1>2, <1>3
<1>5. ASSUME NEW m \in Nat, m \in S PROVE m + 1 \in S
  <2> SUFFICES ASSUME m + 1 <= n PROVE f[m + 1] = g[m + 1]
    OBVIOUS
  <2>1. f[m] = g[m]
    BY <1>5
  <2>2. m + 1 \in 1 .. n /\ m + 1 \in 1 .. n + 1 /\ (m + 1) - 1 = m
    OBVIOUS
  <2> QED BY <1>2, <1>3, <2>1, <2>2
<1>6. n \in S
  <2> HIDE DEF S
  <2> QED BY <1>4, <1>5, SetInduction
<1>7. g[n + 1] = g[n] * t[n + 1]
  <2>1. n + 1 \in 1 .. n + 1 /\ (n + 1) - 1 = n
    OBVIOUS
  <2> QED BY <1>2, <2>1
<1> QED BY <1>1, <1>2, <1>3, <1>6, <1>7

\* A power is one factor more than the power before it.
LEMMA PowerStep ==
    ASSUME NEW b \in Nat, NEW n \in Nat
    PROVE  Power(b, 0) = 1 /\ Power(b, n + 1) = b * Power(b, n) /\ Power(b, n) \in Nat
<1> DEFINE t == [i \in Nat |-> b]
           S == {i \in Nat : Product(t, i) \in Nat}
<1>1. \A i \in Nat : Product(t, 0) = 1 /\ Product(t, i + 1) = Product(t, i) * b
  <2> SUFFICES ASSUME NEW i \in Nat
               PROVE  Product(t, 0) = 1 /\ Product(t, i + 1) = Product(t, i) * b
    OBVIOUS
  <2>1. t[i + 1] = b
    OBVIOUS
  <2> HIDE DEF t
  <2> QED BY <2>1, ProductStep
<1> HIDE DEF t
<1>2. 0 \in S
  BY <1>1
<1>3. ASSUME NEW m \in Nat, m \in S PROVE m + 1 \in S
  BY <1>1, <1>3
<1>4. n \in S
  <2> HIDE DEF S
  <2> QED BY <1>2, <1>3, SetInduction
<1>5. Power(b, 0) = Product(t, 0) /\ Power(b, n) = Product(t, n)
      /\ Power(b, n + 1) = Product(t, n + 1)
  BY DEF Power, t
<1>6. Product(t, n) * b = b * Product(t, n)
  BY <1>4
<1> QED BY <1>1, <1>4, <1>5, <1>6

\* A power of a number is a number, and one of a positive number is positive.
LEMMA PowerType ==
    ASSUME NEW b \in Nat, NEW n \in Nat
    PROVE  Power(b, n) \in Nat /\ (b > 0 => Power(b, n) > 0)
<1> DEFINE S == {m \in Nat : Power(b, m) \in Nat /\ (b > 0 => Power(b, m) > 0)}
<1>1. 0 \in S
  BY PowerStep
<1>2. ASSUME NEW m \in Nat, m \in S PROVE m + 1 \in S
  <2>1. Power(b, m + 1) = b * Power(b, m) /\ Power(b, m) \in Nat
    BY <1>2, PowerStep
  <2>2. b * Power(b, m) \in Nat
    BY <2>1
  <2>3. b > 0 => b * Power(b, m) > 0
    <3>1. \A x, y \in Nat : x > 0 /\ y > 0 => x * y > 0
      OBVIOUS
    <3> QED BY <1>2, <2>1, <3>1
  <2> QED BY <2>1, <2>2, <2>3
<1>3. n \in S
  <2> HIDE DEF S
  <2> QED BY <1>1, <1>2, SetInduction
<1> QED BY <1>3

\* Exponents add up.
LEMMA PowerAdd ==
    ASSUME NEW b \in Nat, NEW m \in Nat, NEW n \in Nat
    PROVE  Power(b, m + n) = Power(b, m) * Power(b, n)
<1> DEFINE S == {i \in Nat : Power(b, m + i) = Power(b, m) * Power(b, i)}
<1>1. 0 \in S
  BY PowerStep, PowerType
<1>2. ASSUME NEW i \in Nat, i \in S PROVE i + 1 \in S
  <2>1. Power(b, (m + i) + 1) = b * Power(b, m + i) /\ Power(b, i + 1) = b * Power(b, i)
    BY PowerStep
  <2>2. Power(b, m + i) = Power(b, m) * Power(b, i)
    BY <1>2
  <2>3. Power(b, m) \in Nat /\ Power(b, i) \in Nat
    BY PowerType
  <2>4. \A x, y \in Nat : b * (x * y) = x * (b * y)
    OBVIOUS
  <2>5. Power(b, (m + i) + 1) = Power(b, m) * Power(b, i + 1)
    BY <2>1, <2>2, <2>3, <2>4
  <2>6. m + (i + 1) = (m + i) + 1
    OBVIOUS
  <2> QED BY <2>5, <2>6
<1>3. n \in S
  <2> HIDE DEF S
  <2> QED BY <1>1, <1>2, SetInduction
<1> QED BY <1>3

\* A power of a product is the product of the powers.
LEMMA PowerTimes ==
    ASSUME NEW a \in Nat, NEW b \in Nat, NEW n \in Nat
    PROVE  Power(a * b, n) = Power(a, n) * Power(b, n)
<1> DEFINE S == {i \in Nat : Power(a * b, i) = Power(a, i) * Power(b, i)}
<1>0. a * b \in Nat
  OBVIOUS
<1>1. 0 \in S
  BY <1>0, PowerStep
<1>2. ASSUME NEW i \in Nat, i \in S PROVE i + 1 \in S
  <2>1. /\ Power(a * b, i + 1) = (a * b) * Power(a * b, i)
        /\ Power(a, i + 1) = a * Power(a, i)
        /\ Power(b, i + 1) = b * Power(b, i)
    BY <1>0, PowerStep
  <2>2. Power(a * b, i) = Power(a, i) * Power(b, i)
    BY <1>2
  <2>3. Power(a, i) \in Nat /\ Power(b, i) \in Nat
    BY PowerType
  <2>4. \A x, y \in Nat : (a * b) * (x * y) = (a * x) * (b * y)
    OBVIOUS
  <2> QED BY <2>1, <2>2, <2>3, <2>4
<1>3. n \in S
  <2> HIDE DEF S
  <2> QED BY <1>1, <1>2, SetInduction
<1> QED BY <1>3

\* Factors that are not smaller do not make a smaller product.
LEMMA ProductsAscend ==
    /\ \A a, b, c, d \in Nat : a <= b /\ c <= d => a * c <= b * d
    /\ \A a, b, c, d \in Nat : a < b /\ c <= d /\ d > 0 => a * c < b * d
<1>1. ASSUME NEW a \in Nat, NEW b \in Nat, NEW c \in Nat, NEW d \in Nat, a <= b, c <= d
      PROVE  a * c <= b * d
  <2>1. b = a + (b - a) /\ b - a \in Nat /\ d = c + (d - c) /\ d - c \in Nat
    BY <1>1
  <2>2. \A x, y \in Nat : a * c <= (a + x) * (c + y)
    <3> TAKE x, y \in Nat
    <3>1. (a + x) * (c + y) = a * c + a * y + x * c + x * y
      OBVIOUS
    <3>2. a * y \in Nat /\ x * c \in Nat /\ x * y \in Nat /\ a * c \in Nat
      OBVIOUS
    <3> QED BY <3>1, <3>2
  <2> QED BY <2>1, <2>2
<1>2. ASSUME NEW a \in Nat, NEW b \in Nat, NEW c \in Nat, NEW d \in Nat, a < b, c <= d, d > 0
      PROVE  a * c < b * d
  <2>1. a * c <= a * d
    BY <1>1, <1>2
  <2>2. b * d = a * d + (b - a) * d
    OBVIOUS
  <2>3. (b - a) * d > 0
    <3>1. \A x, y \in Nat : x > 0 /\ y > 0 => x * y > 0
      OBVIOUS
    <3>2. b - a \in Nat /\ b - a > 0
      BY <1>2
    <3> QED BY <1>2, <3>1, <3>2
  <2>4. a * c \in Nat /\ a * d \in Nat /\ (b - a) * d \in Int
    OBVIOUS
  <2> QED BY <2>1, <2>2, <2>3, <2>4
<1> QED BY <1>1, <1>2

\* A greater number has greater powers.
LEMMA PowerAscends ==
    ASSUME NEW a \in Nat, NEW b \in Nat, a <= b, NEW n \in Nat
    PROVE  Power(a, n) <= Power(b, n)
<1> DEFINE S == {i \in Nat : Power(a, i) <= Power(b, i)}
<1>1. 0 \in S
  BY PowerStep
<1>2. ASSUME NEW i \in Nat, i \in S PROVE i + 1 \in S
  <2>1. Power(a, i + 1) = a * Power(a, i) /\ Power(b, i + 1) = b * Power(b, i)
    BY PowerStep
  <2>2. Power(a, i) \in Nat /\ Power(b, i) \in Nat /\ Power(a, i) <= Power(b, i)
    BY <1>2, PowerType
  <2>3. a * Power(a, i) <= b * Power(b, i)
    BY <2>2, ProductsAscend
  <2> QED BY <2>1, <2>3
<1>3. n \in S
  <2> HIDE DEF S
  <2> QED BY <1>1, <1>2, SetInduction
<1> QED BY <1>3

\* Strictly, with one factor at least.
LEMMA PowerRises ==
    ASSUME NEW a \in Nat, NEW b \in Nat, a < b, NEW n \in Nat, n > 0
    PROVE  Power(a, n) < Power(b, n)
<1> DEFINE m == n - 1
<1>1. m \in Nat /\ m + 1 = n
  OBVIOUS
<1> HIDE DEF m
<1>2. Power(a, m + 1) = a * Power(a, m) /\ Power(b, m + 1) = b * Power(b, m)
  BY <1>1, PowerStep
<1>3. Power(a, m) \in Nat /\ Power(b, m) \in Nat /\ Power(a, m) <= Power(b, m) /\ Power(b, m) > 0
  <2>1. b > 0 /\ a <= b
    OBVIOUS
  <2>2. Power(a, m) \in Nat
    BY <1>1, PowerType
  <2>3. Power(b, m) \in Nat /\ Power(b, m) > 0
    BY <1>1, <2>1, PowerType
  <2>4. Power(a, m) <= Power(b, m)
    BY <1>1, <2>1, PowerAscends
  <2> QED BY <2>2, <2>3, <2>4
<1>4. a * Power(a, m) < b * Power(b, m)
  BY <1>3, ProductsAscend
<1> QED BY <1>1, <1>2, <1>4

\* Powers of two are those of Kraft's inequality.
LEMMA PowerOfTwo ==
    ASSUME NEW n \in Nat
    PROVE  Power(2, n) = 2 ^ n
<1> DEFINE S == {i \in Nat : Power(2, i) = 2 ^ i}
<1>1. 0 \in S
  <2>1. Power(2, 0) = 1 /\ 2 ^ 0 = 1
    BY PowerStep
  <2> QED BY <2>1
<1>2. ASSUME NEW i \in Nat, i \in S PROVE i + 1 \in S
  <2>1. Power(2, i + 1) = 2 * Power(2, i)
    BY PowerStep
  <2>2. 2 ^ (i + 1) = 2 * 2 ^ i
    BY Powers
  <2> QED BY <1>2, <2>1, <2>2
<1>3. n \in S
  <2> HIDE DEF S
  <2> QED BY <1>1, <1>2, SetInduction
<1> QED BY <1>3

-----------------------------------------------------------------------------
(* The powers n ^ n *)

\* Bernoulli: (1 - 1 / m) ^ p >= 1 - p / m
LEMMA Bernoulli ==
    ASSUME NEW m \in Nat, m > 0, NEW p \in Nat
    PROVE  Power(m, p) * (m - p) <= Power(m - 1, p) * m
<1> DEFINE S == {i \in Nat : Power(m, i) * (m - i) <= Power(m - 1, i) * m}
<1>0. m - 1 \in Nat
  OBVIOUS
<1>1. 0 \in S
  BY <1>0, PowerStep
<1>2. ASSUME NEW i \in Nat, i \in S PROVE i + 1 \in S
  <2> DEFINE u == Power(m, i)
             v == Power(m - 1, i)
  <2>1. u \in Nat /\ v \in Nat /\ u * (m - i) <= v * m
    BY <1>0, <1>2, PowerType
  <2>2. Power(m, i + 1) = m * u /\ Power(m - 1, i + 1) = (m - 1) * v
    BY <1>0, PowerStep
  <2> HIDE DEF u, v
  <2>3. (m - 1) * (u * (m - i)) <= (m - 1) * (v * m)
    <3>1. \A x, y \in Int : x <= y => (m - 1) * x <= (m - 1) * y
      <4> TAKE x, y \in Int
      <4> HAVE x <= y
      <4>1. \A d, k1 \in Nat : d * k1 >= 0
        OBVIOUS
      <4>2. y - x \in Nat /\ (m - 1) * (y - x) >= 0
        BY <1>0, <4>1
      <4>3. (m - 1) * y = (m - 1) * x + (m - 1) * (y - x)
        OBVIOUS
      <4>4. (m - 1) * y \in Int /\ (m - 1) * x \in Int /\ (m - 1) * (y - x) \in Int
        OBVIOUS
      <4> QED BY <4>2, <4>3, <4>4
    <3>2. u * (m - i) \in Int /\ v * m \in Int
      BY <2>1
    <3> QED BY <2>1, <3>1, <3>2
  <2>4. (m - 1) * (u * (m - i)) = (m * u) * (m - (i + 1)) + u * i
    BY <2>1
  <2>5. (m - 1) * (v * m) = ((m - 1) * v) * m
    BY <2>1
  <2>6. u * i \in Nat /\ (m * u) * (m - (i + 1)) \in Int /\ ((m - 1) * v) * m \in Int
    BY <2>1
  <2>7. (m * u) * (m - (i + 1)) <= ((m - 1) * v) * m
    BY <2>3, <2>4, <2>5, <2>6
  <2> QED BY <2>2, <2>7
<1>3. p \in S
  <2> HIDE DEF S
  <2> QED BY <1>1, <1>2, SetInduction
<1> QED BY <1>3

\* n ^ n
Self(n) == Power(n, n)

\* It is positive, that of zero too.
LEMMA SelfType == \A n \in Nat : Self(n) \in Nat /\ Self(n) > 0
<1> TAKE n \in Nat
<1>1. CASE n = 0
  BY <1>1, PowerStep DEF Self
<1>2. CASE n > 0
  BY <1>2, PowerType DEF Self
<1> QED BY <1>1, <1>2

\* A common factor may be taken from both sides.
LEMMA Cancel == \A x, y \in Nat, z \in Nat \ {0} : x * z <= y * z => x <= y
<1> TAKE x, y \in Nat, z \in Nat \ {0}
<1> SUFFICES ASSUME y < x PROVE y * z < x * z
  <2>1. x * z \in Nat /\ y * z \in Nat
    OBVIOUS
  <2> QED BY <2>1
<1> QED BY ProductsAscend

\* n ^ n grows faster and faster.
LEMMA SelfConvex ==
    ASSUME NEW x \in Nat
    PROVE  Self(x + 1) * Self(x + 1) <= Self(x) * Self(x + 2)
<1>1. CASE x = 0
  <2>1. Self(0) > 0 /\ Self(0) \in Nat
    BY SelfType
  <2>2. Self(1) = 1
    <3>1. Power(1, 0 + 1) = 1 * Power(1, 0) /\ Power(1, 0) = 1
      BY PowerStep
    <3> QED BY <3>1 DEF Self
  <2>3. Self(2) > 0 /\ Self(2) \in Nat
    BY SelfType
  <2>4. \A u, v \in Nat : u > 0 /\ v > 0 => 1 <= u * v
    <3>1. \A u, v \in Nat : u > 0 /\ v > 0 => u * v > 0 /\ u * v \in Nat
      OBVIOUS
    <3> QED BY <3>1
  <2> QED BY <1>1, <2>1, <2>2, <2>3, <2>4
<1>2. CASE x > 0
  <2> DEFINE y == x + 1
             m == y * y
             u == Power(x, x)
             v == Power(x + 2, y)
             w == Power(y, y)
  <2>1. y \in Nat /\ y > 0 /\ m \in Nat /\ m > 0 /\ x + 2 \in Nat
    <3>1. \A a \in Nat : a > 0 => a * a > 0
      OBVIOUS
    <3> QED BY <3>1
  <2>2. m - 1 = x * (x + 2) /\ m - y = y * x
    OBVIOUS
  <2>3. Power(m, y) * (m - y) <= Power(m - 1, y) * m
    BY <2>1, Bernoulli
  <2>4. Power(m, y) = w * w
    BY <2>1, PowerTimes
  <2>5. Power(m - 1, y) = Power(x, y) * v
    <3>1. Power(x * (x + 2), y) = Power(x, y) * Power(x + 2, y)
      BY <2>1, PowerTimes
    <3> QED BY <2>2, <3>1
  <2>6. Power(x, y) = x * u
    BY PowerStep
  <2>7. Self(x + 2) = (x + 2) * v
    <3>1. Power(x + 2, y + 1) = (x + 2) * Power(x + 2, y) /\ y + 1 = x + 2
      BY <2>1, PowerStep
    <3> QED BY <3>1 DEF Self
  <2>8. Self(x + 1) = w /\ Self(x) = u
    BY DEF Self
  <2>9. u \in Nat /\ v \in Nat /\ w \in Nat
    BY <2>1, PowerType
  <2>10. (w * w) * (y * x) <= ((x * u) * v) * (y * y)
    BY <2>2, <2>3, <2>4, <2>5, <2>6
  <2> HIDE DEF m, u, v, w
  <2>11. (w * w) * (y * x) = (w * w) * (y * x) /\ ((x * u) * v) * (y * y) = ((u * v) * y) * (y * x)
    BY <2>1, <2>9
  <2>12. y * x \in Nat \ {0} /\ w * w \in Nat /\ (u * v) * y \in Nat
    <3>1. \A a, b \in Nat : a > 0 /\ b > 0 => a * b > 0 /\ a * b \in Nat
      OBVIOUS
    <3> HIDE DEF y
    <3> QED BY <1>2, <2>1, <2>9, <3>1
  <2>13. w * w <= (u * v) * y
    BY <2>10, <2>11, <2>12, Cancel
  <2>14. (u * v) * y <= u * ((x + 2) * v)
    <3>1. u * ((x + 2) * v) = (u * v) * y + u * v
      BY <2>9
    <3>2. u * v \in Nat
      BY <2>9
    <3> QED BY <2>12, <3>1, <3>2
  <2>15. u * ((x + 2) * v) \in Nat
    BY <2>1, <2>9
  <2>16. w * w <= u * ((x + 2) * v)
    BY <2>12, <2>13, <2>14, <2>15
  <2> QED BY <2>7, <2>8, <2>16
<1> QED BY <1>1, <1>2

\* The growth from x to x + 1 is no more than that from y to y + 1.
LEMMA SelfGrowth ==
    ASSUME NEW x \in Nat, NEW d \in Nat
    PROVE  Self(x + 1) * Self(x + d) <= Self(x) * Self(x + d + 1)
<1> DEFINE S == {i \in Nat : Self(x + 1) * Self(x + i) <= Self(x) * Self(x + i + 1)}
<1>1. 0 \in S
  <2>1. Self(x) \in Nat /\ Self(x + 1) \in Nat
    BY SelfType
  <2>2. x + 0 = x /\ x + 0 + 1 = x + 1
    OBVIOUS
  <2>3. \A a, b \in Nat : b * a <= a * b
    OBVIOUS
  <2> QED BY <2>1, <2>2, <2>3
<1>2. ASSUME NEW i \in Nat, i \in S PROVE i + 1 \in S
  <2> DEFINE a == Self(x)
             b == Self(x + 1)
             c == Self(x + i)
             e == Self(x + i + 1)
             f == Self(x + i + 2)
  <2>1. a \in Nat /\ b \in Nat /\ c \in Nat /\ e \in Nat /\ f \in Nat /\ c > 0 /\ e > 0
    BY SelfType
  <2>2. b * c <= a * e
    BY <1>2
  <2>3. e * e <= c * f
    <3>1. x + i \in Nat /\ (x + i) + 1 = x + i + 1 /\ (x + i) + 2 = x + i + 2
      OBVIOUS
    <3> QED BY <3>1, SelfConvex
  <2>4. x + (i + 1) = x + i + 1 /\ x + (i + 1) + 1 = x + i + 2
    OBVIOUS
  <2> HIDE DEF a, b, c, e, f
  <2>5. (b * c) * (e * e) <= (a * e) * (c * f)
    <3>1. b * c \in Nat /\ a * e \in Nat /\ e * e \in Nat /\ c * f \in Nat
      BY <2>1
    <3> QED BY <2>2, <2>3, <3>1, ProductsAscend
  <2>6. (b * c) * (e * e) = (b * e) * (c * e) /\ (a * e) * (c * f) = (a * f) * (c * e)
    BY <2>1
  <2>7. b * e \in Nat /\ a * f \in Nat /\ c * e \in Nat \ {0}
    <3>1. \A p, q \in Nat : p > 0 /\ q > 0 => p * q > 0 /\ p * q \in Nat
      OBVIOUS
    <3> QED BY <2>1, <3>1
  <2>8. b * e <= a * f
    BY <2>5, <2>6, <2>7, Cancel
  <2>9. Self(x + 1) * Self(x + (i + 1)) <= Self(x) * Self(x + (i + 1) + 1)
    BY <2>4, <2>8 DEF a, b, e, f
  <2> QED BY <2>9
<1>3. d \in S
  <2> HIDE DEF S
  <2> QED BY <1>1, <1>2, SetInduction
<1> QED BY <1>3

\* Of two numbers with a given sum, the product of powers is least in the middle.
LEMMA SelfMiddle ==
    ASSUME NEW m \in Nat, NEW d \in Nat, d <= m
    PROVE  Self(m) * Self(m) <= Self(m - d) * Self(m + d)
<1> DEFINE S == {i \in Nat : i <= m => Self(m) * Self(m) <= Self(m - i) * Self(m + i)}
<1>1. 0 \in S
  <2>1. m - 0 = m /\ m + 0 = m /\ Self(m) \in Nat
    BY SelfType
  <2>2. \A a \in Nat : a * a <= a * a
    OBVIOUS
  <2> QED BY <2>1, <2>2
<1>2. ASSUME NEW i \in Nat, i \in S PROVE i + 1 \in S
  <2> SUFFICES ASSUME i + 1 <= m
               PROVE  Self(m) * Self(m) <= Self(m - (i + 1)) * Self(m + (i + 1))
    OBVIOUS
  <2> DEFINE x == m - (i + 1)
             d2 == 2 * i + 1
  <2>1. x \in Nat /\ d2 \in Nat /\ x + 1 = m - i /\ x + d2 = m + i /\ x + d2 + 1 = m + (i + 1)
    OBVIOUS
  <2>2. Self(x + 1) * Self(x + d2) <= Self(x) * Self(x + d2 + 1)
    BY <2>1, SelfGrowth
  <2>3. Self(m) * Self(m) <= Self(m - i) * Self(m + i)
    BY <1>2
  <2> HIDE DEF d2
  <2>4. Self(m - i) * Self(m + i) <= Self(x) * Self(m + (i + 1))
    BY <2>1, <2>2
  <2>5. /\ m - i \in Nat /\ m + i \in Nat /\ m + (i + 1) \in Nat
    BY <2>1
  <2>6. /\ Self(m) \in Nat /\ Self(m - i) \in Nat /\ Self(m + i) \in Nat
        /\ Self(x) \in Nat /\ Self(m + (i + 1)) \in Nat
    BY <2>1, <2>5, SelfType
  <2> DEFINE a == Self(m) * Self(m)
             b == Self(m - i) * Self(m + i)
             c == Self(x) * Self(m + (i + 1))
  <2>7. a \in Nat /\ b \in Nat /\ c \in Nat
    BY <2>6
  <2>8. a <= b /\ b <= c
    BY <2>3, <2>4
  <2> HIDE DEF a, b, c
  <2>9. a <= c
    BY <2>7, <2>8
  <2> QED BY <2>9 DEF a, c
<1>3. d \in S
  <2> HIDE DEF S
  <2> QED BY <1>1, <1>2, SetInduction
<1> QED BY <1>3

\* Roots keep the order.
LEMMA Roots == \A x, y \in Nat : x * x <= y * y => x <= y
<1> TAKE x, y \in Nat
<1> SUFFICES ASSUME y < x PROVE y * y < x * x
  <2>1. x * x \in Nat /\ y * y \in Nat
    OBVIOUS
  <2> QED BY <2>1
<1> QED BY ProductsAscend

\* (2 * a) ^ (2 * a) is a square.
LEMMA SelfTwice ==
    ASSUME NEW a \in Nat
    PROVE  Self(2 * a) = (Power(2, a) * Self(a)) * (Power(2, a) * Self(a))
<1>1. Power(2 * a, a + a) = Power(2 * a, a) * Power(2 * a, a)
  <2>1. 2 * a \in Nat
    OBVIOUS
  <2> QED BY <2>1, PowerAdd
<1>2. Power(2 * a, a) = Power(2, a) * Power(a, a)
  BY PowerTimes
<1>3. 2 * a = a + a
  OBVIOUS
<1> QED BY <1>1, <1>2, <1>3 DEF Self

\* The entropy of two counts is at most a bit for each.
LEMMA TwoCounts ==
    ASSUME NEW a \in Nat, NEW b \in Nat
    PROVE  Self(a + b) <= Power(2, a + b) * (Self(a) * Self(b))
<1> SUFFICES ASSUME NEW p \in Nat, NEW q \in Nat, p <= q
             PROVE  Self(p + q) <= Power(2, p + q) * (Self(p) * Self(q))
  <2>1. a <= b \/ b <= a
    OBVIOUS
  <2>2. b + a = a + b /\ Self(b) * Self(a) = Self(a) * Self(b)
    <3>1. Self(a) \in Nat /\ Self(b) \in Nat
      BY SelfType
    <3> QED BY <3>1
  <2> QED BY <2>1, <2>2
<1> DEFINE m == p + q
           d == q - p
           u == Power(2, p)
           v == Power(2, q)
           x == Self(p)
           y == Self(q)
<1>1. m \in Nat /\ d \in Nat /\ d <= m /\ m - d = 2 * p /\ m + d = 2 * q
  OBVIOUS
<1>2. Self(m) * Self(m) <= Self(2 * p) * Self(2 * q)
  <2>1. Self(m) * Self(m) <= Self(m - d) * Self(m + d)
    <3> HIDE DEF m, d
    <3> QED BY <1>1, SelfMiddle
  <2> QED BY <1>1, <2>1
<1>3. Self(2 * p) = (u * x) * (u * x) /\ Self(2 * q) = (v * y) * (v * y)
  BY SelfTwice
<1>4. Power(2, m) = u * v
  BY PowerAdd
<1>5. u \in Nat /\ v \in Nat /\ x \in Nat /\ y \in Nat /\ Self(m) \in Nat
  BY <1>1, PowerType, SelfType
<1> HIDE DEF u, v, x, y
<1>6. ((u * x) * (u * x)) * ((v * y) * (v * y)) = ((u * v) * (x * y)) * ((u * v) * (x * y))
  BY <1>5
<1>7. (u * v) * (x * y) \in Nat
  BY <1>5
<1>8. Self(m) <= (u * v) * (x * y)
  BY <1>2, <1>3, <1>5, <1>6, <1>7, Roots
<1> QED BY <1>4, <1>8 DEF x, y

-----------------------------------------------------------------------------
(* Joining the two rarest symbols into one *)

\* r takes the count of l.
Join(cnt, l, r) == [h \in DOMAIN cnt \ {l} |-> IF h = r THEN cnt[l] + cnt[r] ELSE cnt[h]]

\* Some two symbols are the rarest.
LEMMA Rarest ==
    ASSUME NEW H, IsFiniteSet(H), NEW cnt \in [H -> Nat], NEW x \in H, NEW y \in H, x # y
    PROVE  \E l, r \in H : /\ l # r /\ cnt[l] <= cnt[r]
                           /\ \A h \in H \ {l, r} : cnt[r] <= cnt[h]
<1> DEFINE f == [h \in H |-> 0 - cnt[h]]
<1>1. \A h \in H : f[h] = 0 - cnt[h] /\ f[h] \in Int /\ cnt[h] \in Nat
  OBVIOUS
<1> HIDE DEF f
<1>2. PICK l \in H : \A h \in H : f[h] <= f[l]
  BY <1>1, Largest
<1>3. IsFiniteSet(H \ {l}) /\ H \ {l} # {}
  BY FS_RemoveElement
<1>4. PICK r \in H \ {l} : \A h \in H \ {l} : f[h] <= f[r]
  <2>1. \A h \in H \ {l} : f[h] \in Int
    BY <1>1
  <2> QED BY <1>3, <2>1, Largest
<1>5. \A h \in H : cnt[l] <= cnt[h]
  BY <1>1, <1>2
<1>6. \A h \in H \ {l} : cnt[r] <= cnt[h]
  BY <1>1, <1>4
<1> QED BY <1>5, <1>6

\* Words one bit shorter for the joined symbol save its count.
LEMMA JoinedBits ==
    ASSUME NEW H, IsFiniteSet(H), NEW cnt \in [H -> Nat],
           NEW l \in H, NEW r \in H, l # r,
           NEW m \in [H -> Nat], NEW n \in [H \ {l} -> Nat],
           m[l] = n[r] + 1, m[r] = n[r] + 1, \A h \in H \ {l, r} : m[h] = n[h]
    PROVE  /\ Join(cnt, l, r) \in [H \ {l} -> Nat]
           /\ Sum(Join(cnt, l, r), H \ {l}) = Sum(cnt, H)
           /\ Bits(cnt, m, H) = Bits(Join(cnt, l, r), n, H \ {l}) + (cnt[l] + cnt[r])
           /\ Bits(cnt, m, H) \in Nat
           /\ Bits(Join(cnt, l, r), n, H \ {l}) \in Nat
<1> DEFINE J == Join(cnt, l, r)
           T == H \ {l}
           R == H \ {l, r}
           u == Uses(cnt, m, H)
           v == Uses(J, n, T)
<1>1. IsFiniteSet(T) /\ r \in T /\ T \ {r} = R /\ R \subseteq H /\ R \subseteq T
  BY FS_RemoveElement
<1>2. IsFiniteSet(R)
  BY <1>1, FS_RemoveElement
<1>3. J \in [T -> Nat] /\ J[r] = cnt[l] + cnt[r] /\ \A h \in R : J[h] = cnt[h]
  BY DEF Join
<1>4. \A h \in H : u[h] = cnt[h] * m[h] /\ u[h] \in Nat
  BY UseType
<1>5. \A h \in T : v[h] = J[h] * n[h] /\ v[h] \in Nat
  <2> HIDE DEF T, J
  <2> QED BY <1>3, UseType DEF T
<1>6. cnt[l] \in Nat /\ cnt[r] \in Nat /\ n[r] \in Nat
  BY <1>1
<1>7. Sum(u, H) \in Nat /\ Sum(v, T) \in Nat
  <2> HIDE DEF u, v, T
  <2> QED BY <1>1, <1>4, <1>5, SumOfNats
<1> HIDE DEF u, v, J
<1>8. \A h \in R : u[h] = v[h] /\ u[h] \in Int /\ J[h] = cnt[h] /\ cnt[h] \in Int
  BY <1>1, <1>3, <1>4, <1>5
<1>9. Sum(u, H) = u[l] + u[r] + Sum(u, R) /\ Sum(u, R) \in Int
  BY <1>4, TakeTwo
<1>10. Sum(cnt, H) = cnt[l] + cnt[r] + Sum(cnt, R) /\ Sum(cnt, R) \in Int
  BY TakeTwo
<1> HIDE DEF T, R
<1>11. Sum(v, T) = v[r] + Sum(v, R)
  <2>1. \A h \in T : v[h] \in Int
    BY <1>5
  <2>2. Sum(v, T) = v[r] + Sum(v, T \ {r})
    BY <1>1, <2>1, TakeOne
  <2> QED BY <1>1, <2>2
<1>12. Sum(J, T) = J[r] + Sum(J, R)
  <2>1. \A h \in T : J[h] \in Int
    BY <1>3
  <2>2. Sum(J, T) = J[r] + Sum(J, T \ {r})
    BY <1>1, <2>1, TakeOne
  <2> QED BY <1>1, <2>2
<1>13. Sum(v, R) = Sum(u, R)
  BY <1>2, <1>8, SameTerms
<1>14. Sum(J, R) = Sum(cnt, R)
  BY <1>2, <1>8, SameTerms
<1>15. u[l] + u[r] = v[r] + (cnt[l] + cnt[r]) /\ u[l] \in Nat /\ u[r] \in Nat /\ v[r] \in Nat
  <2>1. u[l] = cnt[l] * (n[r] + 1) /\ u[r] = cnt[r] * (n[r] + 1)
    BY <1>4
  <2>2. v[r] = (cnt[l] + cnt[r]) * n[r]
    BY <1>1, <1>3, <1>5
  <2>3. \A a, b, k \in Nat : a * (k + 1) + b * (k + 1) = (a + b) * k + (a + b)
    OBVIOUS
  <2> QED BY <1>1, <1>4, <1>5, <1>6, <2>1, <2>2, <2>3
<1>16. Sum(J, T) = Sum(cnt, H)
  BY <1>3, <1>6, <1>10, <1>12, <1>14
<1>17. Sum(u, H) = Sum(v, T) + (cnt[l] + cnt[r])
  <2> DEFINE a == Sum(u, R)
  <2>1. Sum(u, H) = u[l] + u[r] + a /\ Sum(v, T) = v[r] + a /\ a \in Int
    BY <1>9, <1>11, <1>13
  <2> HIDE DEF a
  <2> QED BY <1>6, <1>15, <2>1
<1> QED BY <1>3, <1>7, <1>16, <1>17 DEF J, u, v, T, Bits

\* The two rarest symbols may share a word, told apart by one more bit.
LEMMA JoinRarest ==
    ASSUME NEW H, IsFiniteSet(H), NEW cnt \in [H -> Nat], NEW x \in H, NEW y \in H, x # y,
           NEW M \in Nat, NEW m, Fits(m, M, H)
    PROVE  \E l, r \in H :
               /\ l # r
               /\ Join(cnt, l, r) \in [H \ {l} -> Nat]
               /\ Sum(Join(cnt, l, r), H \ {l}) = Sum(cnt, H)
               /\ \E n : /\ Fits(n, M, H \ {l})
                         /\ Bits(Join(cnt, l, r), n, H \ {l}) + (cnt[l] + cnt[r])
                                <= Bits(cnt, m, H)
<1>1. PICK l \in H, r \in H : /\ l # r /\ cnt[l] <= cnt[r]
                              /\ \A h \in H \ {l, r} : cnt[r] <= cnt[h]
  BY Rarest
<1>2. PICK k : /\ Fits(k, M, H)
               /\ Bits(cnt, k, H) <= Bits(cnt, m, H)
               /\ k[l] = k[r]
               /\ k[r] >= 1
  BY <1>1, Siblings
<1> DEFINE T == H \ {l}
           R == H \ {l, r}
           d == k[r]
           n == [h \in T |-> IF h = r THEN d - 1 ELSE k[h]]
<1>3. k \in [H -> 0 .. M] /\ k \in [H -> Nat] /\ d \in 0 .. M /\ d >= 1 /\ k[l] = d
      /\ d \in Nat
  BY <1>2 DEF Fits
<1>4. n \in [T -> 0 .. M] /\ n \in [T -> Nat] /\ n[r] = d - 1 /\ \A h \in R : n[h] = k[h]
  <2>1. d - 1 \in 0 .. M /\ d - 1 \in Nat
    BY <1>3
  <2> HIDE DEF d
  <2> QED BY <1>1, <1>3, <2>1
<1> HIDE DEF n
<1>5. IsFiniteSet(T) /\ r \in T /\ T \ {r} = R /\ R \subseteq H /\ R \subseteq T
  BY <1>1, FS_RemoveElement
<1>6. IsFiniteSet(R)
  BY <1>5, FS_RemoveElement
<1>7. /\ Join(cnt, l, r) \in [T -> Nat]
      /\ Sum(Join(cnt, l, r), T) = Sum(cnt, H)
      /\ Bits(cnt, k, H) = Bits(Join(cnt, l, r), n, T) + (cnt[l] + cnt[r])
  <2>1. k[l] = n[r] + 1 /\ k[r] = n[r] + 1 /\ \A h \in H \ {l, r} : k[h] = n[h]
    BY <1>3, <1>4
  <2> QED BY <1>1, <1>3, <1>4, <2>1, JoinedBits
<1>8. Fits(n, M, T)
  <2> DEFINE s == Shares(k, M, H)
             t == Shares(n, M, T)
  <2>1. \A h \in H : s[h] = 2 ^ (M - k[h]) /\ s[h] \in Int
    BY <1>3, ShareType
  <2>2. \A h \in T : t[h] = 2 ^ (M - n[h]) /\ t[h] \in Int
    <3> HIDE DEF T
    <3> QED BY <1>4, ShareType
  <2>3. t[r] = s[l] + s[r]
    <3> DEFINE e == M - d
    <3>1. e \in Nat /\ M - (d - 1) = e + 1
      BY <1>3
    <3>2. s[l] = 2 ^ e /\ s[r] = 2 ^ e
      BY <1>3, <2>1 DEF d
    <3>3. t[r] = 2 ^ (e + 1)
      <4>1. t[r] = 2 ^ (M - n[r])
        BY <1>5, <2>2
      <4>2. M - n[r] = e + 1
        BY <1>4, <3>1
      <4> HIDE DEF t, e
      <4> QED BY <4>1, <4>2
    <3> HIDE DEF e, s, t
    <3>4. 2 ^ e \in Nat /\ 2 ^ (e + 1) = 2 * 2 ^ e
      BY <3>1, Powers
    <3> QED BY <3>2, <3>3, <3>4
  <2> HIDE DEF s, t
  <2>4. \A h \in R : t[h] = s[h] /\ s[h] \in Int
    BY <1>4, <1>5, <2>1, <2>2
  <2>5. Sum(t, R) = Sum(s, R)
    <3> HIDE DEF R
    <3> QED BY <1>6, <2>4, SameTerms
  <2>6. Sum(s, H) = s[l] + s[r] + Sum(s, R) /\ Sum(s, R) \in Int
    BY <1>1, <2>1, TakeTwo
  <2> HIDE DEF T, R
  <2>7. Sum(t, T) = t[r] + Sum(t, R)
    <3>1. Sum(t, T) = t[r] + Sum(t, T \ {r})
      BY <1>5, <2>2, SumFacts
    <3> QED BY <1>5, <3>1
  <2>8. Sum(t, T) = Sum(s, H)
    <3>1. s[l] \in Int /\ s[r] \in Int
      BY <2>1
    <3> QED BY <2>3, <2>5, <2>6, <2>7, <3>1
  <2> QED BY <1>2, <1>4, <2>8 DEF Fits, s, t
<1> QED BY <1>1, <1>2, <1>7, <1>8

-----------------------------------------------------------------------------
(* No prefix code beats the entropy *)

\* q gives every set of symbols the product of their n ^ n.
IsProduct(q, cnt, T) ==
    /\ q \in [SUBSET T -> Nat]
    /\ q[{}] = 1
    /\ \A U \in SUBSET T : \A x \in T \ U : q[U \cup {x}] = q[U] * Self(cnt[x])

\* The product when l is joined to r
JoinProduct(q, cnt, T, l, r) ==
    [U \in SUBSET (T \ {l}) |->
        IF r \in U THEN q[U \ {r}] * Self(cnt[l] + cnt[r]) ELSE q[U]]

\* It is the product of the joined counts.
LEMMA JoinProductIs ==
    ASSUME NEW T, NEW cnt \in [T -> Nat], NEW l \in T, NEW r \in T, l # r,
           NEW q, IsProduct(q, cnt, T)
    PROVE  IsProduct(JoinProduct(q, cnt, T, l, r), Join(cnt, l, r), T \ {l})
<1> DEFINE J == Join(cnt, l, r)
           R == T \ {l}
           p == JoinProduct(q, cnt, T, l, r)
           z == Self(cnt[l] + cnt[r])
<1>1. /\ q \in [SUBSET T -> Nat]
      /\ q[{}] = 1
      /\ \A U \in SUBSET T : \A x \in T \ U : q[U \cup {x}] = q[U] * Self(cnt[x])
  BY DEF IsProduct
<1>2. z \in Nat /\ J[r] = cnt[l] + cnt[r] /\ \A h \in R \ {r} : J[h] = cnt[h] /\ cnt[h] \in Nat
  <2>1. cnt[l] + cnt[r] \in Nat
    OBVIOUS
  <2> QED BY <2>1, SelfType DEF Join
<1>3. \A U \in SUBSET R : p[U] = IF r \in U THEN q[U \ {r}] * z ELSE q[U]
  BY DEF JoinProduct
<1>4. p \in [SUBSET R -> Nat]
  <2>1. \A U \in SUBSET R : (IF r \in U THEN q[U \ {r}] * z ELSE q[U]) \in Nat
    <3> SUFFICES ASSUME NEW U \in SUBSET R PROVE q[U \ {r}] * z \in Nat /\ q[U] \in Nat
      OBVIOUS
    <3>1. U \ {r} \in SUBSET T /\ U \in SUBSET T
      OBVIOUS
    <3> HIDE DEF z
    <3>2. q[U \ {r}] \in Nat /\ q[U] \in Nat
      BY <1>1, <3>1
    <3> QED BY <1>2, <3>2
  <2> QED BY <2>1 DEF JoinProduct
<1> HIDE DEF p, J, z
<1>5. p[{}] = 1
  BY <1>1, <1>3
<1>6. ASSUME NEW U \in SUBSET R, NEW x \in R \ U PROVE p[U \cup {x}] = p[U] * Self(J[x])
  <2>1. CASE x = r
    <3>1. (U \cup {x}) \ {r} = U /\ U \cup {x} \in SUBSET R
      BY <1>6, <2>1
    <3>2. p[U \cup {x}] = q[U] * z
      BY <1>3, <2>1, <3>1
    <3>3. p[U] = q[U]
      BY <1>3, <1>6, <2>1
    <3> QED BY <1>2, <2>1, <3>2, <3>3 DEF z
  <2>2. CASE x # r /\ r \in U
    <3> DEFINE V == U \ {r}
    <3>1. /\ U \cup {x} \in SUBSET R /\ r \in U \cup {x}
          /\ (U \cup {x}) \ {r} = V \cup {x}
          /\ V \in SUBSET T /\ x \in T \ V
      BY <1>6, <2>2
    <3>2. p[U \cup {x}] = q[V \cup {x}] * z /\ p[U] = q[V] * z
      BY <1>3, <2>2, <3>1
    <3>3. q[V \cup {x}] = q[V] * Self(cnt[x]) /\ q[V] \in Nat
      BY <1>1, <3>1
    <3>4. J[x] = cnt[x] /\ Self(cnt[x]) \in Nat
      <4>1. J[x] = cnt[x] /\ cnt[x] \in Nat
        BY <1>2, <2>2
      <4> QED BY <4>1, SelfType
    <3> HIDE DEF V
    <3> DEFINE a == Self(cnt[x])
               b == q[V]
    <3>5. Self(J[x]) = a /\ p[U \cup {x}] = (b * a) * z /\ p[U] = b * z /\ a \in Nat /\ b \in Nat
      BY <3>2, <3>3, <3>4
    <3> HIDE DEF a, b
    <3> QED BY <1>2, <3>5
  <2>3. CASE x # r /\ r \notin U
    <3>1. U \cup {x} \in SUBSET R /\ r \notin U \cup {x} /\ U \in SUBSET T /\ x \in T \ U
      BY <1>6, <2>3
    <3>2. p[U \cup {x}] = q[U \cup {x}] /\ p[U] = q[U]
      BY <1>3, <2>3, <3>1
    <3>3. J[x] = cnt[x]
      BY <1>2, <2>3
    <3> QED BY <1>1, <3>1, <3>2, <3>3
  <2> QED BY <2>1, <2>2, <2>3
<1> QED BY <1>4, <1>5, <1>6 DEF IsProduct, p, J

\* A symbol joined to another costs no more than a bit for each use of either.
LEMMA JoinGrows ==
    ASSUME NEW T, NEW cnt \in [T -> Nat], NEW l \in T, NEW r \in T, l # r,
           NEW q, IsProduct(q, cnt, T)
    PROVE  /\ q[T] \in Nat
           /\ JoinProduct(q, cnt, T, l, r)[T \ {l}] \in Nat
           /\ JoinProduct(q, cnt, T, l, r)[T \ {l}] <= Power(2, cnt[l] + cnt[r]) * q[T]
<1> DEFINE R == T \ {l, r}
           a == Self(cnt[l])
           b == Self(cnt[r])
           z == Self(cnt[l] + cnt[r])
           w == Power(2, cnt[l] + cnt[r])
           y == q[R]
<1>0. cnt[l] \in Nat /\ cnt[r] \in Nat /\ cnt[l] + cnt[r] \in Nat /\ 2 \in Nat
  OBVIOUS
<1>1. a \in Nat /\ b \in Nat /\ z \in Nat /\ w \in Nat
  BY <1>0, SelfType, PowerType
<1>2. z <= w * (a * b)
  BY <1>0, TwoCounts
<1>3. R \in SUBSET T /\ r \in T \ R /\ R \cup {r} \in SUBSET T /\ l \in T \ (R \cup {r})
      /\ (R \cup {r}) \cup {l} = T /\ T \in SUBSET T
  OBVIOUS
<1>4. y \in Nat /\ q[R \cup {r}] = y * b /\ q[T] = q[R \cup {r}] * a
  BY <1>3 DEF IsProduct
<1>5. JoinProduct(q, cnt, T, l, r)[T \ {l}] = y * z
  <2>1. T \ {l} \in SUBSET (T \ {l}) /\ r \in T \ {l} /\ (T \ {l}) \ {r} = R
    OBVIOUS
  <2> QED BY <2>1 DEF JoinProduct
<1> HIDE DEF a, b, z, w, y
<1>6. q[T] = (y * b) * a /\ q[T] \in Nat
  BY <1>1, <1>4
<1>7. y * z <= y * (w * (a * b))
  <2>1. w * (a * b) \in Nat /\ y <= y
    BY <1>1, <1>4
  <2> QED BY <1>1, <1>2, <1>4, <2>1, ProductsAscend
<1>8. y * (w * (a * b)) = w * ((y * b) * a)
  BY <1>1, <1>4
<1> QED BY <1>1, <1>4, <1>5, <1>6, <1>7, <1>8 DEF w

(* N ^ N is at most 2 ^ bits times the product of the n ^ n: the bits of   *)
(* no prefix code of the counts n, of sum N, are below their entropy.      *)
LEMMA EntropyBound ==
    ASSUME NEW H, IsFiniteSet(H), NEW cnt \in [H -> Nat], NEW M \in Nat,
           NEW m, Fits(m, M, H), NEW q, IsProduct(q, cnt, H)
    PROVE  Self(Sum(cnt, H)) <= Power(2, Bits(cnt, m, H)) * q[H]
<1> DEFINE Holds(T) == \A c \in [T -> Nat] : \A k, p :
                           Fits(k, M, T) /\ IsProduct(p, c, T)
                               => Self(Sum(c, T)) <= Power(2, Bits(c, k, T)) * p[T]
           X == {T \in SUBSET H : Holds(T)}
<1>1. {} \in X
  <2> SUFFICES ASSUME NEW c \in [{} -> Nat], NEW k, NEW p, Fits(k, M, {}), IsProduct(p, c, {})
               PROVE  Self(Sum(c, {})) <= Power(2, Bits(c, k, {})) * p[{}]
    OBVIOUS
  <2>1. Sum(c, {}) = 0 /\ Bits(c, k, {}) = 0
    <3>1. IsFiniteSet({}) /\ (\A x \in {} : c[x] \in Int) /\ \A x \in {} : Uses(c, k, {})[x] \in Int
      BY FS_EmptySet
    <3>2. Sum(c, {}) = 0
      BY <3>1, SumFacts
    <3>3. Sum(Uses(c, k, {}), {}) = 0
      BY <3>1, SumFacts
    <3> QED BY <3>2, <3>3 DEF Bits
  <2>2. Self(0) = 1 /\ Power(2, 0) = 1 /\ p[{}] = 1
    BY PowerStep DEF Self, IsProduct
  <2> QED BY <2>1, <2>2
<1>2. ASSUME NEW T \in SUBSET H, T # {}, \A x \in T : T \ {x} \in X PROVE T \in X
  <2> SUFFICES ASSUME NEW c \in [T -> Nat], NEW k, NEW p, Fits(k, M, T), IsProduct(p, c, T)
               PROVE  Self(Sum(c, T)) <= Power(2, Bits(c, k, T)) * p[T]
    OBVIOUS
  <2>1. IsFiniteSet(T)
    BY FS_Subset
  <2>2. PICK x \in T : TRUE
    BY <1>2
  <2>3. Bits(c, k, T) \in Nat
    <3>1. k \in [T -> Nat]
      BY DEF Fits
    <3>2. \A h \in T : Uses(c, k, T)[h] \in Nat
      BY <3>1, UseType
    <3> QED BY <2>1, <3>2, SumOfNats DEF Bits
  <2>4. CASE T \ {x} = {}
    <3>1. Sum(c, T) = c[x]
      <4>1. \A h \in T : c[h] \in Int
        OBVIOUS
      <4>2. Sum(c, T) = c[x] + Sum(c, T \ {x}) /\ Sum(c, {}) = 0
        BY <2>1, <4>1, FS_EmptySet, SumFacts
      <4>3. c[x] \in Nat
        OBVIOUS
      <4> QED BY <2>4, <4>2, <4>3
    <3>2. p[T] = 1 * Self(c[x])
      <4>1. {} \in SUBSET T /\ x \in T \ {} /\ {} \cup {x} = T
        BY <2>4
      <4>2. p[{} \cup {x}] = p[{}] * Self(c[x]) /\ p[{}] = 1
        BY <4>1 DEF IsProduct
      <4> QED BY <4>1, <4>2
    <3>3. Self(c[x]) \in Nat /\ Power(2, Bits(c, k, T)) \in Nat /\ Power(2, Bits(c, k, T)) > 0
      <4>1. c[x] \in Nat /\ 2 \in Nat /\ 2 > 0
        OBVIOUS
      <4>2. Self(c[x]) \in Nat
        BY <4>1, SelfType
      <4> DEFINE b == Bits(c, k, T)
      <4>3. b \in Nat
        BY <2>3
      <4> HIDE DEF b
      <4>4. Power(2, b) \in Nat /\ Power(2, b) > 0
        BY <4>1, <4>3, PowerType
      <4> QED BY <4>2, <4>4 DEF b
    <3>4. \A a, b \in Nat : b > 0 => a <= b * (1 * a)
      <4> SUFFICES ASSUME NEW a \in Nat, NEW b \in Nat, b > 0 PROVE a <= b * (1 * a)
        OBVIOUS
      <4>1. a * 1 <= a * b
        BY ProductsAscend
      <4> QED BY <4>1
    <3> QED BY <3>1, <3>2, <3>3, <3>4
  <2>5. CASE T \ {x} # {}
    <3>1. PICK y \in T : x # y
      BY <2>5
    <3>2. PICK l \in T, r \in T :
               /\ l # r
               /\ Join(c, l, r) \in [T \ {l} -> Nat]
               /\ Sum(Join(c, l, r), T \ {l}) = Sum(c, T)
               /\ \E n : /\ Fits(n, M, T \ {l})
                         /\ Bits(Join(c, l, r), n, T \ {l}) + (c[l] + c[r]) <= Bits(c, k, T)
      BY <2>1, <3>1, JoinRarest
    <3>3. PICK n : /\ Fits(n, M, T \ {l})
                   /\ Bits(Join(c, l, r), n, T \ {l}) + (c[l] + c[r]) <= Bits(c, k, T)
      BY <3>2
    <3> DEFINE J == Join(c, l, r)
               R == T \ {l}
               pj == JoinProduct(p, c, T, l, r)
               b == Bits(J, n, R)
               d == c[l] + c[r]
    <3>4. Self(Sum(J, R)) <= Power(2, b) * pj[R]
      <4>1. IsProduct(pj, J, R)
        BY <3>2, JoinProductIs
      <4>2. Holds(R)
        BY <1>2
      <4> HIDE DEF pj, J, R
      <4> QED BY <3>2, <3>3, <4>1, <4>2 DEF J, R
    <3>5. p[T] \in Nat /\ pj[R] \in Nat /\ pj[R] <= Power(2, d) * p[T]
      BY <3>2, JoinGrows
    <3>6. b \in Nat /\ d \in Nat
      <4>1. n \in [R -> Nat]
        BY <3>3 DEF Fits
      <4>2. IsFiniteSet(R)
        BY <2>1, FS_RemoveElement
      <4>3. J \in [R -> Nat]
        BY <3>2
      <4> HIDE DEF J, R
      <4>4. \A h \in R : Uses(J, n, R)[h] \in Nat
        BY <4>1, <4>3, UseType
      <4>5. b \in Nat
        BY <4>2, <4>4, SumOfNats DEF Bits
      <4> QED BY <4>5
    <3> DEFINE B == Bits(c, k, T)
               e == B - (b + d)
    <3>7. e \in Nat /\ B = (b + d) + e
      BY <2>3, <3>3, <3>6
    <3>8. Self(Sum(J, R)) = Self(Sum(c, T))
      BY <3>2
    <3> HIDE DEF J, R, pj, b, d, B, e
    <3>9. 2 \in Nat /\ b + d \in Nat
      BY <3>6
    <3> DEFINE u == Power(2, b)
               v == Power(2, d)
               w == Power(2, e)
               s == Self(Sum(c, T))
               f == p[T]
               g == pj[R]
    <3>10. Power(2, B) = (u * v) * w
      <4>1. Power(2, (b + d) + e) = Power(2, b + d) * w
        BY <3>7, <3>9, PowerAdd
      <4>2. Power(2, b + d) = u * v
        BY <3>6, <3>9, PowerAdd
      <4> QED BY <3>7, <4>1, <4>2
    <3>11. u \in Nat /\ v \in Nat /\ w \in Nat /\ w > 0
      <4>1. 2 > 0
        OBVIOUS
      <4>2. u \in Nat
        BY <3>6, <3>9, PowerType
      <4>3. v \in Nat
        BY <3>6, <3>9, PowerType
      <4>4. w \in Nat /\ w > 0
        BY <3>7, <3>9, <4>1, PowerType
      <4> QED BY <4>2, <4>3, <4>4
    <3>12. s \in Nat
      <4>1. Sum(c, T) \in Nat
        <5>1. \A h \in T : c[h] \in Nat
          OBVIOUS
        <5> QED BY <2>1, <5>1, SumOfNats
      <4> QED BY <4>1, SelfType
    <3>13. s <= u * g /\ g <= v * f /\ g \in Nat /\ f \in Nat
      BY <3>4, <3>5, <3>8
    <3> HIDE DEF u, v, w, s, f, g
    <3>14. u * g <= u * (v * f) /\ u * (v * f) = (u * v) * f
      <4>1. v * f \in Nat /\ u <= u
        BY <3>11, <3>13
      <4>2. u * g <= u * (v * f)
        BY <3>11, <3>13, <4>1, ProductsAscend
      <4>3. u * (v * f) = (u * v) * f
        BY <3>11, <3>13
      <4> QED BY <4>2, <4>3
    <3>15. (u * v) * f <= ((u * v) * w) * f
      <4>1. u * v \in Nat /\ f <= f
        BY <3>11, <3>13
      <4>2. (u * v) * 1 <= (u * v) * w
        <5>1. 1 <= w /\ 1 \in Nat /\ (u * v) <= (u * v)
          BY <3>11, <4>1
        <5> QED BY <3>11, <4>1, <5>1, ProductsAscend
      <4>3. (u * v) <= (u * v) * w /\ (u * v) * w \in Nat
        BY <3>11, <4>1, <4>2
      <4> QED BY <3>13, <4>1, <4>3, ProductsAscend
    <3>16. s <= ((u * v) * w) * f
      <4>1. u * g \in Nat /\ (u * v) * f \in Nat /\ ((u * v) * w) * f \in Nat
        BY <3>11, <3>13
      <4> DEFINE x1 == u * g
                 x2 == (u * v) * f
                 x3 == ((u * v) * w) * f
      <4>2. s <= x1 /\ x1 <= x2 /\ x2 <= x3 /\ x1 \in Nat /\ x2 \in Nat /\ x3 \in Nat
        BY <3>13, <3>14, <3>15, <4>1
      <4> HIDE DEF x1, x2, x3
      <4>3. s <= x3
        BY <3>12, <4>2
      <4> QED BY <4>3 DEF x3
    <3> QED BY <3>10, <3>16 DEF s, B, f
  <2> QED BY <2>4, <2>5
<1>3. H \in X
  <2>1. H \in SUBSET H
    OBVIOUS
  <2> HIDE DEF X
  <2> QED BY <1>1, <1>2, <2>1, SubsetInduction
<1> QED BY <1>3

-----------------------------------------------------------------------------
(* Longer words never help *)

\* A word for the joined symbol becomes two, one bit longer.
LEMMA PartWords ==
    ASSUME NEW H, IsFiniteSet(H), NEW cnt \in [H -> Nat],
           NEW l \in H, NEW r \in H, l # r,
           NEW K \in Nat, NEW n, Fits(n, K, H \ {l})
    PROVE  \E m : /\ Fits(m, K + 1, H)
                  /\ Bits(cnt, m, H)
                         = Bits(Join(cnt, l, r), n, H \ {l}) + (cnt[l] + cnt[r])
<1> DEFINE T == H \ {l}
           R == H \ {l, r}
           d == n[r] + 1
           m == [h \in H |-> IF h \in {l, r} THEN d ELSE n[h]]
<1>1. IsFiniteSet(T) /\ r \in T /\ T \ {r} = R /\ R \subseteq H /\ R \subseteq T
  BY FS_RemoveElement
<1>2. IsFiniteSet(R)
  BY <1>1, FS_RemoveElement
<1>3. n \in [T -> 0 .. K] /\ n \in [T -> Nat] /\ n[r] \in 0 .. K
  BY <1>1 DEF Fits
<1>4. /\ m \in [H -> 0 .. K + 1] /\ m \in [H -> Nat]
      /\ m[l] = d /\ m[r] = d /\ \A h \in R : m[h] = n[h]
  <2>1. d \in 0 .. K + 1
    BY <1>3
  <2>2. \A h \in R : n[h] \in 0 .. K + 1
    BY <1>1, <1>3
  <2>3. \A h \in H : (IF h \in {l, r} THEN d ELSE n[h]) \in 0 .. K + 1
    BY <2>1, <2>2
  <2> HIDE DEF d
  <2> QED BY <1>1, <2>3
<1> HIDE DEF m
<1>5. Bits(cnt, m, H) = Bits(Join(cnt, l, r), n, T) + (cnt[l] + cnt[r])
  BY <1>3, <1>4, JoinedBits
<1>6. Fits(m, K + 1, H)
  <2> DEFINE s == Shares(m, K + 1, H)
             t == Shares(n, K, T)
             w == [h \in R |-> 2 * t[h]]
  <2>1. \A h \in H : s[h] = 2 ^ ((K + 1) - m[h]) /\ s[h] \in Int
    <3>1. K + 1 \in Nat
      OBVIOUS
    <3> QED BY <1>4, <3>1, ShareType
  <2>2. \A h \in T : t[h] = 2 ^ (K - n[h]) /\ t[h] \in Int
    <3> HIDE DEF T
    <3> QED BY <1>3, ShareType
  <2>3. s[l] = t[r] /\ s[r] = t[r]
    <3>1. (K + 1) - d = K - n[r]
      BY <1>3
    <3>2. s[l] = 2 ^ ((K + 1) - d) /\ s[r] = 2 ^ ((K + 1) - d) /\ t[r] = 2 ^ (K - n[r])
      BY <1>1, <1>4, <2>1, <2>2
    <3> HIDE DEF s, t
    <3> QED BY <3>1, <3>2
  <2> HIDE DEF s, t
  <2>4. \A h \in R : w[h] = 2 * t[h] /\ s[h] = w[h] /\ t[h] \in Int /\ w[h] \in Int
    <3> SUFFICES ASSUME NEW h \in R PROVE s[h] = 2 * t[h] /\ t[h] \in Int
      OBVIOUS
    <3> DEFINE e == K - n[h]
    <3>1. e \in Nat /\ (K + 1) - n[h] = e + 1
      BY <1>1, <1>3
    <3>2. s[h] = 2 ^ ((K + 1) - n[h]) /\ t[h] = 2 ^ e /\ t[h] \in Int
      BY <1>1, <1>4, <2>1, <2>2
    <3> HIDE DEF e
    <3>3. 2 ^ (e + 1) = 2 * 2 ^ e
      BY <3>1, Powers
    <3> QED BY <3>1, <3>2, <3>3
  <2> HIDE DEF w
  <2>5. Sum(s, R) = Sum(w, R)
    <3> HIDE DEF R
    <3> QED BY <1>2, <2>4, SameTerms
  <2>6. Sum(w, R) = 2 * Sum(t, R)
    <3> HIDE DEF R
    <3> QED BY <1>2, <2>4, SumScales
  <2>7. Sum(s, H) = s[l] + s[r] + Sum(s, R) /\ Sum(s, R) \in Int
    BY <2>1, TakeTwo
  <2> HIDE DEF T, R
  <2>8. Sum(t, T) = t[r] + Sum(t, R) /\ Sum(t, R) \in Int
    <3>1. Sum(t, T) = t[r] + Sum(t, T \ {r})
      BY <1>1, <2>2, SumFacts
    <3>2. \A h \in R : t[h] \in Int
      BY <2>4
    <3>3. Sum(t, R) \in Int
      BY <1>2, <3>2, SumFacts
    <3> QED BY <1>1, <3>1, <3>3
  <2>9. Sum(s, H) = 2 * Sum(t, T) /\ Sum(t, T) \in Int
    <3>1. t[r] \in Int
      BY <1>1, <2>2
    <3> QED BY <2>3, <2>5, <2>6, <2>7, <2>8, <3>1
  <2>10. 2 ^ K \in Nat /\ 2 ^ (K + 1) = 2 * 2 ^ K
    BY Powers
  <2>11. Sum(t, T) <= 2 ^ K
    BY DEF Fits, t, T
  <2>12. Sum(s, H) <= 2 ^ (K + 1)
    BY <2>9, <2>10, <2>11
  <2> QED BY <1>4, <2>12 DEF Fits, s
<1> QED BY <1>5, <1>6

(* Whatever words there are, words no longer than the number of symbols    *)
(* cost no more.                                                           *)
LEMMA NoLongerWords ==
    ASSUME NEW H, IsFiniteSet(H), NEW cnt \in [H -> Nat], NEW M \in Nat,
           NEW m, Fits(m, M, H)
    PROVE  \E n : Fits(n, Cardinality(H), H) /\ Bits(cnt, n, H) <= Bits(cnt, m, H)
<1> DEFINE Holds(T) == \A c \in [T -> Nat] : \A k : Fits(k, M, T) =>
                           \E n : Fits(n, Cardinality(T), T) /\ Bits(c, n, T) <= Bits(c, k, T)
           X == {T \in SUBSET H : Holds(T)}
<1>1. {} \in X
  <2> SUFFICES ASSUME NEW c \in [{} -> Nat], NEW k, Fits(k, M, {})
               PROVE  Fits(k, 0, {}) /\ Bits(c, k, {}) <= Bits(c, k, {})
    BY FS_EmptySet
  <2>1. IsFiniteSet({}) /\ (\A x \in {} : Shares(k, 0, {})[x] \in Int)
        /\ \A x \in {} : Uses(c, k, {})[x] \in Int
    BY FS_EmptySet
  <2>2. Sum(Shares(k, 0, {}), {}) = 0
    BY <2>1, SumFacts
  <2>3. Sum(Uses(c, k, {}), {}) = 0
    BY <2>1, SumFacts
  <2>4. 2 ^ 0 \in Nat
    BY Powers
  <2>5. k \in [{} -> 0 .. 0]
    <3>1. k \in [{} -> 0 .. M]
      BY DEF Fits
    <3> QED BY <3>1
  <2>6. 0 <= 2 ^ 0
    BY <2>4
  <2> QED BY <2>2, <2>3, <2>5, <2>6 DEF Fits, Bits
<1>2. ASSUME NEW T \in SUBSET H, T # {}, \A x \in T : T \ {x} \in X PROVE T \in X
  <2> SUFFICES ASSUME NEW c \in [T -> Nat], NEW k, Fits(k, M, T)
               PROVE  \E n : Fits(n, Cardinality(T), T) /\ Bits(c, n, T) <= Bits(c, k, T)
    OBVIOUS
  <2>1. IsFiniteSet(T)
    BY FS_Subset
  <2>2. PICK x \in T : TRUE
    BY <1>2
  <2>3. Bits(c, k, T) \in Nat
    <3>1. k \in [T -> Nat]
      BY DEF Fits
    <3>2. \A h \in T : Uses(c, k, T)[h] \in Nat
      BY <3>1, UseType
    <3> QED BY <2>1, <3>2, SumOfNats DEF Bits
  <2>4. CASE T \ {x} = {}
    <3>1. T = {x} /\ Cardinality(T) = 1
      <4>1. T = {x}
        BY <2>4
      <4> QED BY <4>1, FS_Singleton
    <3> DEFINE n == [h \in T |-> 0]
               s == Shares(n, 1, T)
               u == Uses(c, n, T)
    <3>2. n \in [T -> 0 .. 1] /\ n \in [T -> Nat] /\ n[x] = 0
      OBVIOUS
    <3> HIDE DEF n
    <3>3. s[x] = 2 ^ 1 /\ s[x] \in Int /\ \A h \in T : s[h] \in Int
      <4>1. \A h \in T : s[h] = 2 ^ (1 - n[h]) /\ s[h] \in Nat \ {0}
        <5>1. 1 \in Nat
          OBVIOUS
        <5> QED BY <3>2, <5>1, ShareType
      <4>2. 1 - n[x] = 1
        BY <3>2
      <4>3. s[x] = 2 ^ (1 - n[x])
        BY <4>1
      <4> HIDE DEF s
      <4>4. s[x] = 2 ^ 1
        BY Zenon, <4>2, <4>3
      <4>5. \A h \in T : s[h] \in Int
        BY <4>1
      <4> QED BY <4>4, <4>5
    <3>4. \A h \in T : u[h] = c[h] * n[h] /\ u[h] \in Int
      BY <3>2, UseType
    <3>5. u[x] = 0
      <4>1. c[x] \in Nat
        OBVIOUS
      <4> QED BY <3>2, <3>4, <4>1
    <3> HIDE DEF s, u
    <3>6. Sum(s, T) = s[x] + Sum(s, T \ {x}) /\ Sum(s, {}) = 0
      BY <2>1, <3>3, FS_EmptySet, SumFacts
    <3>7. Sum(u, T) = u[x] + Sum(u, T \ {x}) /\ Sum(u, {}) = 0
      BY <2>1, <3>4, FS_EmptySet, SumFacts
    <3>8. Sum(s, T) = 2 ^ 1 /\ Sum(u, T) = 0
      BY <2>4, <3>3, <3>5, <3>6, <3>7
    <3>9. Fits(n, 1, T)
      <4>1. 2 ^ 1 <= 2 ^ 1
        BY <3>3
      <4> QED BY <3>2, <3>8, <4>1 DEF Fits, s
    <3>10. Bits(c, n, T) <= Bits(c, k, T)
      BY <2>3, <3>8 DEF Bits, u
    <3> QED BY <3>1, <3>9, <3>10
  <2>5. CASE T \ {x} # {}
    <3>1. PICK y \in T : x # y
      BY <2>5
    <3>2. PICK l \in T, r \in T :
               /\ l # r
               /\ Join(c, l, r) \in [T \ {l} -> Nat]
               /\ \E n : /\ Fits(n, M, T \ {l})
                         /\ Bits(Join(c, l, r), n, T \ {l}) + (c[l] + c[r]) <= Bits(c, k, T)
      BY <2>1, <3>1, JoinRarest
    <3>3. PICK n : /\ Fits(n, M, T \ {l})
                   /\ Bits(Join(c, l, r), n, T \ {l}) + (c[l] + c[r]) <= Bits(c, k, T)
      BY <3>2
    <3> DEFINE J == Join(c, l, r)
               R == T \ {l}
               K == Cardinality(R)
               d == c[l] + c[r]
    <3>4. IsFiniteSet(R) /\ K \in Nat /\ Cardinality(T) = K + 1
      <4>1. IsFiniteSet(R) /\ Cardinality(R) = Cardinality(T) - 1
        BY <2>1, FS_RemoveElement
      <4>2. Cardinality(T) \in Nat /\ Cardinality(R) \in Nat
        BY <2>1, <4>1, FS_CardinalityType
      <4> QED BY <4>1, <4>2
    <3>5. PICK n2 : Fits(n2, K, R) /\ Bits(J, n2, R) <= Bits(J, n, R)
      <4>1. Holds(R)
        BY <1>2
      <4> HIDE DEF J, R, K
      <4> QED BY <3>2, <3>3, <4>1 DEF J, R, K
    <3>6. PICK m2 : /\ Fits(m2, K + 1, T)
                    /\ Bits(c, m2, T) = Bits(J, n2, R) + d
      <4> HIDE DEF K
      <4> QED BY <2>1, <3>2, <3>4, <3>5, PartWords
    <3>7. Bits(J, n, R) \in Nat /\ Bits(J, n2, R) \in Nat /\ d \in Nat
      <4>1. n \in [R -> Nat] /\ n2 \in [R -> Nat]
        <5> HIDE DEF R, K
        <5>1. n \in [R -> 0 .. M] /\ n2 \in [R -> 0 .. K]
          BY <3>3, <3>5 DEF Fits, R
        <5> QED BY <3>4, <5>1
      <4>2. J \in [R -> Nat]
        BY <3>2
      <4>3. d \in Nat
        OBVIOUS
      <4> HIDE DEF J, R
      <4>4. (\A h \in R : Uses(J, n, R)[h] \in Nat) /\ \A h \in R : Uses(J, n2, R)[h] \in Nat
        BY <4>1, <4>2, UseType
      <4>5. Bits(J, n, R) \in Nat
        BY <3>4, <4>4, SumOfNats DEF Bits
      <4>6. Bits(J, n2, R) \in Nat
        BY <3>4, <4>4, SumOfNats DEF Bits
      <4> QED BY <4>3, <4>5, <4>6
    <3>8. Bits(c, m2, T) <= Bits(c, k, T)
      <4> DEFINE b == Bits(J, n, R)
                 b2 == Bits(J, n2, R)
      <4>1. b + d <= Bits(c, k, T) /\ b2 <= b /\ Bits(c, m2, T) = b2 + d
            /\ b \in Nat /\ b2 \in Nat /\ d \in Nat
        BY <3>3, <3>5, <3>6, <3>7
      <4> HIDE DEF b, b2, d
      <4> QED BY <2>3, <4>1
    <3> QED BY <3>4, <3>6, <3>8
  <2> QED BY <2>4, <2>5
<1>3. H \in X
  <2>1. H \in SUBSET H
    OBVIOUS
  <2> HIDE DEF X
  <2> QED BY <1>1, <1>2, <2>1, SubsetInduction
<1> QED BY <1>3

-----------------------------------------------------------------------------
(* A prefix code less than a bit above the entropy *)

\* A power of a power.
LEMMA PowerOfPower ==
    ASSUME NEW m \in Nat, NEW c \in Nat
    PROVE  Power(2, c * m) = Power(Power(2, m), c)
<1> DEFINE b == Power(2, m)
           S == {i \in Nat : Power(2, i * m) = Power(b, i)}
<1>1. b \in Nat /\ 2 \in Nat /\ 0 \in Nat
  BY PowerType
<1> HIDE DEF b
<1>2. 0 \in S
  <2>1. Power(2, 0) = 1 /\ Power(b, 0) = 1
    BY <1>1, PowerStep
  <2>2. 0 * m = 0
    OBVIOUS
  <2> QED BY <2>1, <2>2
<1>3. ASSUME NEW i \in Nat, i \in S PROVE i + 1 \in S
  <2>1. i * m \in Nat /\ (i + 1) * m = m + i * m
    OBVIOUS
  <2>2. Power(2, m + i * m) = b * Power(2, i * m)
    BY <1>1, <2>1, PowerAdd DEF b
  <2>3. Power(b, i + 1) = b * Power(b, i)
    BY <1>1, PowerStep
  <2> QED BY <1>3, <2>1, <2>2, <2>3
<1>4. c \in S
  <2> HIDE DEF S
  <2>1. c \in Nat
    OBVIOUS
  <2> QED BY <1>2, <1>3, <2>1, SetInduction
<1> QED BY <1>4 DEF b

\* Doubling reaches every number.
LEMMA DoublesReach ==
    ASSUME NEW a \in Nat, NEW t \in Nat, a > 0, a < t
    PROVE  \E e \in Nat : a * Power(2, e) < t /\ t <= a * Power(2, e + 1)
<1> SUFFICES ASSUME \A e \in Nat : ~(a * Power(2, e) < t /\ t <= a * Power(2, e + 1))
             PROVE  FALSE
  OBVIOUS
<1> DEFINE S == {i \in Nat : a * Power(2, i) < t /\ i < Power(2, i)}
<1>1. \A i \in Nat : Power(2, i) \in Nat /\ Power(2, 0) = 1 /\ Power(2, i + 1) = 2 * Power(2, i)
  BY PowerStep
<1>2. 0 \in S
  <2>1. a * 1 = a
    OBVIOUS
  <2> QED BY <1>1, <2>1
<1>3. ASSUME NEW i \in Nat, i \in S PROVE i + 1 \in S
  <2> DEFINE p == Power(2, i)
             r == Power(2, i + 1)
  <2>1. p \in Nat /\ r \in Nat /\ r = 2 * p /\ i < p
    BY <1>1, <1>3
  <2>2. ~(t <= a * r)
    BY <1>3
  <2> HIDE DEF p, r
  <2>3. a * r \in Nat
    BY <2>1
  <2>4. a * r < t
    BY <2>2, <2>3
  <2>5. i + 1 < r
    BY <2>1
  <2> QED BY <2>4, <2>5 DEF r
<1>4. t \in S
  <2> HIDE DEF S
  <2>1. t \in Nat
    OBVIOUS
  <2> QED BY <1>2, <1>3, <2>1, SetInduction
<1> DEFINE p == Power(2, t)
<1>5. p \in Nat /\ a * p < t /\ t < p
  BY <1>1, <1>4
<1> HIDE DEF p
<1>6. 1 * p <= a * p
  <2>1. 1 \in Nat /\ 1 <= a /\ p <= p
    BY <1>5
  <2> QED BY <1>5, <2>1, ProductsAscend
<1> QED BY <1>5, <1>6

\* A sum of larger terms is larger.
LEMMA SumAscends ==
    ASSUME NEW S, IsFiniteSet(S), NEW f, NEW g,
           \A x \in S : f[x] \in Int /\ g[x] \in Int /\ f[x] <= g[x]
    PROVE  Sum(f, S) <= Sum(g, S)
<1> DEFINE d == [x \in S |-> g[x] - f[x]]
<1>1. \A x \in S : d[x] \in Nat /\ d[x] \in Int /\ g[x] = f[x] + d[x]
  OBVIOUS
<1> HIDE DEF d
<1>2. Sum(g, S) = Sum(f, S) + Sum(d, S)
  BY <1>1, SumOfSums
<1>3. Sum(d, S) \in Nat
  BY <1>1, SumOfNats
<1>4. Sum(f, S) \in Int
  <2>1. \A x \in S : f[x] \in Int
    OBVIOUS
  <2> QED BY <2>1, SumFacts
<1> QED BY <1>2, <1>3, <1>4

(* Words of just the bits that make cnt[h] * 2 ^ m[h] reach the sum t fit, *)
(* and their bits are less than the entropy and one bit per use.           *)
LEMMA ShannonCode ==
    ASSUME NEW H, IsFiniteSet(H), NEW cnt \in [H -> Nat], \A h \in H : cnt[h] > 0,
           NEW x \in H, NEW y \in H, x # y,
           NEW t, t = Sum(cnt, H), NEW q, IsProduct(q, cnt, H)
    PROVE  \E M \in Nat : \E m :
               /\ Fits(m, M, H)
               /\ Power(2, Bits(cnt, m, H)) * q[H] < Power(2, t) * Self(t)
<1>1. t \in Nat /\ \A h \in H : cnt[h] \in Nat /\ cnt[h] < t
  <2>1. \A h \in H : cnt[h] \in Nat /\ cnt[h] \in Int
    OBVIOUS
  <2>2. Sum(cnt, H) \in Nat
    BY <2>1, SumOfNats
  <2>3. ASSUME NEW h \in H PROVE cnt[h] < Sum(cnt, H)
    <3>1. PICK k \in H : k # h
      OBVIOUS
    <3>2. Sum(cnt, H) = cnt[h] + cnt[k] + Sum(cnt, H \ {h, k})
      BY <2>1, <3>1, TakeTwo
    <3>3. Sum(cnt, H \ {h, k}) \in Nat
      <4>1. IsFiniteSet(H \ {h, k}) /\ \A z \in H \ {h, k} : cnt[z] \in Nat
        BY FS_Difference
      <4> QED BY <4>1, SumOfNats
    <3>4. cnt[k] > 0 /\ cnt[k] \in Nat /\ cnt[h] \in Nat
      OBVIOUS
    <3> QED BY <3>2, <3>3, <3>4
  <2> QED BY <2>1, <2>2, <2>3
<1> DEFINE Reaches(h, e) == cnt[h] * Power(2, e) < t /\ t <= cnt[h] * Power(2, e + 1)
           m == [h \in H |-> (CHOOSE e \in Nat : Reaches(h, e)) + 1]
<1>2. \A h \in H : m[h] \in Nat /\ m[h] >= 1 /\ Reaches(h, m[h] - 1)
  <2> SUFFICES ASSUME NEW h \in H PROVE m[h] \in Nat /\ m[h] >= 1 /\ Reaches(h, m[h] - 1)
    OBVIOUS
  <2>1. \E e \in Nat : Reaches(h, e)
    BY <1>1, DoublesReach
  <2> DEFINE e == CHOOSE k \in Nat : Reaches(h, k)
  <2>2. e \in Nat /\ Reaches(h, e)
    BY <2>1
  <2>3. m[h] = e + 1
    OBVIOUS
  <2> HIDE DEF e, Reaches, m
  <2>4. m[h] - 1 = e
    BY <2>2, <2>3
  <2> QED BY <2>2, <2>3, <2>4
<1>3. m \in [H -> Nat]
  BY <1>2
<1> HIDE DEF m
<1>4. PICK z \in H : \A h \in H : m[h] <= m[z]
  BY <1>2, Largest
<1> DEFINE M == m[z]
<1>5. M \in Nat /\ m \in [H -> 0 .. M]
  <2>1. \A h \in H : m[h] \in 0 .. M
    BY <1>2, <1>4
  <2> QED BY <1>2, <1>3, <2>1
<1> HIDE DEF M
<1>6. \A h \in H : /\ cnt[h] * Power(2, m[h]) < 2 * t
                   /\ t <= cnt[h] * Power(2, m[h])
                   /\ Power(2, m[h]) \in Nat
  <2> SUFFICES ASSUME NEW h \in H
               PROVE  /\ cnt[h] * Power(2, m[h]) < 2 * t
                      /\ t <= cnt[h] * Power(2, m[h])
                      /\ Power(2, m[h]) \in Nat
    OBVIOUS
  <2> DEFINE e == m[h] - 1
             p == Power(2, e)
             c == cnt[h]
  <2>1. e \in Nat /\ m[h] = e + 1 /\ 2 \in Nat
    BY <1>2
  <2> HIDE DEF e
  <2>2. p \in Nat /\ Power(2, e + 1) = 2 * p
    BY <2>1, PowerStep
  <2>3. c * p < t /\ t <= c * (2 * p)
    BY <1>2, <2>2 DEF e
  <2>4. c \in Nat
    OBVIOUS
  <2>5. Power(2, m[h]) = 2 * p
    BY <2>1, <2>2
  <2> HIDE DEF p, c
  <2>6. c * (2 * p) = 2 * (c * p) /\ c * p \in Nat /\ 2 * p \in Nat
    BY <2>2, <2>4
  <2>7. c * (2 * p) < 2 * t
    BY <1>1, <2>3, <2>6
  <2> QED BY <2>3, <2>5, <2>6, <2>7 DEF c
<1> HIDE DEF Reaches
<1>7. Fits(m, M, H)
  <2> DEFINE s == Shares(m, M, H)
             f == [h \in H |-> t * s[h]]
             g == [h \in H |-> 2 ^ M * cnt[h]]
  <2>1. \A h \in H : s[h] = 2 ^ (M - m[h]) /\ s[h] \in Nat
    BY <1>5, ShareType
  <2> HIDE DEF s
  <2>2. 2 ^ M \in Nat /\ 2 ^ M > 0
    BY <1>5, Powers
  <2>3. \A h \in H : f[h] = t * s[h] /\ f[h] \in Int /\ g[h] = 2 ^ M * cnt[h] /\ g[h] \in Int
    BY <1>1, <2>1, <2>2
  <2> HIDE DEF f, g
  <2>4. ASSUME NEW h \in H PROVE f[h] <= g[h]
    <3> DEFINE p == Power(2, m[h])
               e == M - m[h]
               c == cnt[h]
    <3>1. e \in Nat /\ m[h] \in Nat /\ m[h] + e = M
      BY <1>2, <1>5
    <3>2. 2 ^ M = p * s[h]
      <4>1. 2 ^ (m[h] + e) = 2 ^ m[h] * 2 ^ e
        BY <3>1, PowersAdd
      <4>2. p = 2 ^ m[h]
        BY <3>1, PowerOfTwo
      <4>3. s[h] = 2 ^ e
        BY <2>1
      <4> HIDE DEF e, p
      <4>4. 2 ^ (m[h] + e) = 2 ^ M
        BY Zenon, <3>1
      <4> QED BY <4>1, <4>2, <4>3, <4>4
    <3>3. t <= c * p /\ p \in Nat
      BY <1>6
    <3>4. c \in Nat /\ s[h] \in Nat
      BY <2>1
    <3> HIDE DEF p, c
    <3>5. t * s[h] <= (c * p) * s[h]
      <4>1. c * p \in Nat /\ s[h] <= s[h]
        BY <3>3, <3>4
      <4> QED BY <1>1, <3>3, <3>4, <4>1, ProductsAscend
    <3>6. (c * p) * s[h] = (p * s[h]) * c
      BY <3>3, <3>4
    <3>7. f[h] = t * s[h] /\ g[h] = (p * s[h]) * c
      BY <2>3, <3>2 DEF c
    <3> QED BY <3>5, <3>6, <3>7
  <2>5. Sum(f, H) <= Sum(g, H)
    BY <2>3, <2>4, SumAscends
  <2>6. Sum(f, H) = t * Sum(s, H)
    <3>1. \A h \in H : s[h] \in Int /\ f[h] = t * s[h]
      BY <2>1, <2>3
    <3>2. t \in Int
      BY <1>1
    <3> QED BY <3>1, <3>2, SumScales
  <2>7. Sum(g, H) = 2 ^ M * t
    <3>1. \A h \in H : cnt[h] \in Int /\ g[h] = 2 ^ M * cnt[h]
      BY <2>3
    <3>2. 2 ^ M \in Int
      BY <2>2
    <3> QED BY <3>1, <3>2, SumScales
  <2>8. Sum(s, H) \in Nat
    BY <2>1, SumOfNats
  <2>9. t # 0
    BY <1>1
  <2> DEFINE a == Sum(s, H)
             b == 2 ^ M
  <2>10. a * t <= b * t /\ a \in Nat /\ b \in Nat /\ t \in Nat \ {0}
    <3>1. a \in Nat /\ b \in Nat /\ t \in Nat \ {0}
      BY <1>1, <2>2, <2>8, <2>9
    <3>2. t * a <= b * t
      BY <2>5, <2>6, <2>7
    <3> HIDE DEF a, b
    <3> QED BY <3>1, <3>2
  <2> HIDE DEF a, b
  <2>11. a <= b
    BY <2>10, Cancel
  <2> QED BY <1>5, <2>11 DEF Fits, a, b, s
<1> DEFINE u == Uses(cnt, m, H)
           B == 2 * t
<1>8. \A h \in H : u[h] = cnt[h] * m[h] /\ u[h] \in Nat
  BY <1>3, UseType
<1> HIDE DEF u
<1>9. B \in Nat /\ B > 0
  BY <1>1
<1> HIDE DEF B
<1>10. \A h \in H : Power(2, u[h]) * Self(cnt[h]) < Power(B, cnt[h])
  <2> SUFFICES ASSUME NEW h \in H PROVE Power(2, u[h]) * Self(cnt[h]) < Power(B, cnt[h])
    OBVIOUS
  <2> DEFINE c == cnt[h]
             p == Power(2, m[h])
  <2>1. c \in Nat /\ c > 0 /\ m[h] \in Nat
    BY <1>2
  <2>2. p \in Nat /\ c * p < B
    BY <1>6 DEF B
  <2>3. Power(2, u[h]) = Power(p, c)
    <3>1. u[h] = c * m[h]
      BY <1>8
    <3>2. Power(2, c * m[h]) = Power(p, c)
      BY <2>1, PowerOfPower
    <3> QED BY <3>1, <3>2
  <2> HIDE DEF p, c
  <2>4. Power(p * c, c) = Power(p, c) * Self(c)
    BY <2>1, <2>2, PowerTimes DEF Self
  <2>5. p * c \in Nat /\ p * c < B
    BY <2>1, <2>2
  <2>6. Power(p * c, c) < Power(B, c)
    BY <1>9, <2>1, <2>5, PowerRises
  <2> QED BY <2>3, <2>4, <2>6 DEF c
<1> DEFINE X == {U \in SUBSET H :
                    /\ Power(2, Sum(u, U)) * q[U] <= Power(B, Sum(cnt, U))
                    /\ U # {} => Power(2, Sum(u, U)) * q[U] < Power(B, Sum(cnt, U))}
<1>11. {} \in X
  <2>1. IsFiniteSet({}) /\ (\A h \in {} : u[h] \in Int) /\ \A h \in {} : cnt[h] \in Int
    BY FS_EmptySet
  <2>2. Sum(u, {}) = 0
    BY <2>1, SumFacts
  <2>3. Sum(cnt, {}) = 0
    BY <2>1, SumFacts
  <2>4. q[{}] = 1
    BY DEF IsProduct
  <2>5. Power(2, 0) = 1 /\ Power(B, 0) = 1
    <3>1. 0 \in Nat /\ 2 \in Nat
      OBVIOUS
    <3> QED BY <1>9, <3>1, PowerStep
  <2> QED BY <2>2, <2>3, <2>4, <2>5
<1>12. ASSUME NEW U \in SUBSET H, U # {}, \A h \in U : U \ {h} \in X PROVE U \in X
  <2>1. PICK h \in U : TRUE
    BY <1>12
  <2> DEFINE V == U \ {h}
             a == u[h]
             b == Sum(u, V)
             c == cnt[h]
             d == Sum(cnt, V)
  <2>2. IsFiniteSet(U) /\ IsFiniteSet(V) /\ V \in SUBSET H /\ h \in H \ V /\ V \cup {h} = U
    BY FS_Subset
  <2>3. a \in Nat /\ b \in Nat /\ c \in Nat /\ d \in Nat
    <3>1. (\A k \in V : u[k] \in Nat) /\ \A k \in V : cnt[k] \in Nat
      BY <1>8
    <3>2. a \in Nat /\ c \in Nat
      BY <1>8
    <3> HIDE DEF V
    <3>3. b \in Nat
      BY <2>2, <3>1, SumOfNats
    <3>4. d \in Nat
      BY <2>2, <3>1, SumOfNats
    <3> QED BY <3>2, <3>3, <3>4
  <2>4. Sum(u, U) = a + b
    <3>1. \A k \in U : u[k] \in Int
      BY <1>8
    <3> QED BY <2>2, <3>1, SumFacts
  <2>5. Sum(cnt, U) = c + d
    <3>1. \A k \in U : cnt[k] \in Int
      OBVIOUS
    <3> QED BY <2>2, <3>1, SumFacts
  <2>6. q[U] = q[V] * Self(c) /\ q[V] \in Nat
    <3>1. q[V \cup {h}] = q[V] * Self(c) /\ q[V] \in Nat
      <4> HIDE DEF V
      <4> QED BY <2>2 DEF IsProduct
    <3> QED BY <2>2, <3>1
  <2>7. Power(2, b) * q[V] <= Power(B, d)
    BY <1>12
  <2>8. Power(2, a) * Self(c) < Power(B, c)
    BY <1>10, <2>2
  <2> HIDE DEF V, a, b, c, d
  <2>9. Power(2, a + b) = Power(2, a) * Power(2, b)
    <3>1. 2 \in Nat
      OBVIOUS
    <3> QED BY <2>3, <3>1, PowerAdd
  <2>10. Power(B, c + d) = Power(B, c) * Power(B, d)
    BY <1>9, <2>3, PowerAdd
  <2> DEFINE i == Power(2, a)
             j == Power(2, b)
             k == Power(B, c)
             n == Power(B, d)
             w == q[V]
             v == Self(c)
  <2>11. i \in Nat /\ j \in Nat
    <3>1. 2 \in Nat
      OBVIOUS
    <3> QED BY <2>3, <3>1, PowerType
  <2>12. k \in Nat /\ n \in Nat /\ n > 0
    <3>1. k \in Nat
      BY <1>9, <2>3, PowerType
    <3>2. n \in Nat /\ n > 0
      BY <1>9, <2>3, PowerType
    <3> QED BY <3>1, <3>2
  <2>13. v \in Nat /\ w \in Nat
    BY <2>3, <2>6, SelfType
  <2>14. i * v < k /\ j * w <= n
    BY <2>7, <2>8
  <2>15. Power(2, Sum(u, U)) * q[U] = (i * j) * (w * v) /\ Power(B, Sum(cnt, U)) = k * n
    BY <2>4, <2>5, <2>6, <2>9, <2>10
  <2> HIDE DEF i, j, k, n, w, v
  <2>16. (i * v) * (j * w) < k * n
    <3>1. i * v \in Nat /\ j * w \in Nat
      BY <2>11, <2>13
    <3> QED BY <2>12, <2>14, <3>1, ProductsAscend
  <2>17. (i * j) * (w * v) = (i * v) * (j * w)
    BY <2>11, <2>13
  <2>18. k * n \in Nat /\ (i * v) * (j * w) \in Nat
    BY <2>11, <2>12, <2>13
  <2>19. (i * j) * (w * v) < k * n /\ (i * j) * (w * v) <= k * n
    BY <2>16, <2>17, <2>18
  <2> QED BY <2>15, <2>19
<1>13. H \in X
  <2>1. H \in SUBSET H
    OBVIOUS
  <2> HIDE DEF X
  <2> QED BY <1>11, <1>12, <2>1, SubsetInduction
<1>14. Power(B, t) = Power(2, t) * Self(t)
  <2>1. 2 \in Nat
    OBVIOUS
  <2> QED BY <1>1, <2>1, PowerTimes DEF Self, B
<1>15. Power(2, Bits(cnt, m, H)) * q[H] < Power(2, t) * Self(t)
  BY <1>13, <1>14 DEF Bits, u
<1> QED BY <1>5, <1>7, <1>15

-----------------------------------------------------------------------------
(* The sum and the product of a call's counts *)

\* The factors of the symbols in U
FactorsOf(U) ==
    [i \in Entries |->
        IF Entry(i).symbol \in U /\ Entry(i).count > 0
        THEN Power(Entry(i).count, Entry(i).count) ELSE 1]

SelfProducts == [U \in SUBSET Active |-> Product(FactorsOf(U), Len(call.counts))]

\* The product of entropy's formula is the product over the counted symbols.
LEMMA CallProduct ==
    ASSUME call \in Calls, Counting
    PROVE  /\ IsProduct(SelfProducts, Counts, Active)
           /\ Product([i \in Entries |-> Power(Entry(i).count, Entry(i).count)],
                      Len(call.counts)) = SelfProducts[Active]
<1> DEFINE L == Len(call.counts)
<1>1. /\ L \in Nat
      /\ Entries = 1 .. L
      /\ \A i \in Entries : Entry(i).count \in Nat
      /\ \A i, j \in Entries : Entry(i).symbol = Entry(j).symbol => i = j
  BY CallType DEF Counting, Entries
<1> HIDE DEF L
<1>2. \A U : \A i \in Entries :
          /\ FactorsOf(U)[i] \in Nat
          /\ FactorsOf(U)[i] = IF Entry(i).symbol \in U /\ Entry(i).count > 0
                               THEN Self(Entry(i).count) ELSE 1
  <2> SUFFICES ASSUME NEW i \in Entries PROVE Self(Entry(i).count) \in Nat
    BY DEF FactorsOf, Self
  <2> QED BY <1>1, SelfType
<1>3. ASSUME NEW U \in SUBSET Active PROVE Product(FactorsOf(U), L) \in Nat
  <2> DEFINE t == FactorsOf(U)
             S == {i \in Nat : i <= L => Product(t, i) \in Nat}
  <2>1. \A i \in Entries : t[i] \in Nat
    BY <1>2
  <2> HIDE DEF t
  <2>2. 0 \in S
    <3>1. Product(t, 0) = 1
      <4>1. 0 \in Nat
        OBVIOUS
      <4> QED BY <4>1, ProductStep
    <3> QED BY <3>1
  <2>3. ASSUME NEW i \in Nat, i \in S PROVE i + 1 \in S
    <3> SUFFICES ASSUME i + 1 <= L PROVE Product(t, i + 1) \in Nat
      OBVIOUS
    <3>1. Product(t, i + 1) = Product(t, i) * t[i + 1]
      BY ProductStep
    <3>2. i + 1 \in Entries /\ i <= L
      BY <1>1
    <3>3. t[i + 1] \in Nat /\ Product(t, i) \in Nat
      BY <2>1, <2>3, <3>2
    <3> QED BY <3>1, <3>3
  <2>4. L \in S
    <3> HIDE DEF S
    <3> QED BY <1>1, <2>2, <2>3, SetInduction
  <2>5. Product(t, L) \in Nat
    BY <1>1, <2>4
  <2> QED BY <2>5 DEF t
<1>4. Product(FactorsOf({}), L) = 1
  <2> DEFINE t == FactorsOf({})
             S == {i \in Nat : i <= L => Product(t, i) = 1}
  <2>1. \A i \in Entries : t[i] = 1
    BY <1>2
  <2> HIDE DEF t
  <2>2. 0 \in S
    <3>1. Product(t, 0) = 1
      <4>1. 0 \in Nat
        OBVIOUS
      <4> QED BY <4>1, ProductStep
    <3> QED BY <3>1
  <2>3. ASSUME NEW i \in Nat, i \in S PROVE i + 1 \in S
    <3> SUFFICES ASSUME i + 1 <= L PROVE Product(t, i + 1) = 1
      OBVIOUS
    <3>1. Product(t, i + 1) = Product(t, i) * t[i + 1]
      BY ProductStep
    <3>2. i + 1 \in Entries /\ i <= L
      BY <1>1
    <3>3. t[i + 1] = 1 /\ Product(t, i) = 1
      BY <2>1, <2>3, <3>2
    <3> QED BY <3>1, <3>3
  <2>4. L \in S
    <3> HIDE DEF S
    <3> QED BY <1>1, <2>2, <2>3, SetInduction
  <2>5. Product(t, L) = 1
    BY <1>1, <2>4
  <2> QED BY <2>5 DEF t
<1>5. ASSUME NEW U \in SUBSET Active, NEW x \in Active \ U
      PROVE  Product(FactorsOf(U \cup {x}), L) = Product(FactorsOf(U), L) * Self(Counts[x])
  <2>1. PICK j \in Entries : x = Entry(j).symbol /\ Entry(j).count > 0
    BY DEF Active, ActiveIn
  <2> DEFINE t == FactorsOf(U)
             v == FactorsOf(U \cup {x})
             z == Self(Counts[x])
             S == {i \in Nat : i <= L =>
                      /\ Product(t, i) \in Nat
                      /\ Product(v, i) = Product(t, i) * (IF j <= i THEN z ELSE 1)}
  <2>2. z \in Nat /\ Counts[x] = Entry(j).count
    <3>1. Counts[x] = Entry(j).count
      BY <2>1, CountFacts DEF Counts
    <3>2. Entry(j).count \in Nat
      BY <1>1
    <3> QED BY <3>1, <3>2, SelfType
  <2>3. \A i \in Entries : t[i] \in Nat
    BY <1>2
  <2>4. v[j] = z /\ t[j] = 1
    <3>1. x \notin U /\ x \in U \cup {x}
      OBVIOUS
    <3>2. v[j] = Self(Entry(j).count)
      BY <1>2, <2>1, <3>1
    <3>3. t[j] = 1
      BY <1>2, <2>1, <3>1
    <3> QED BY <2>2, <3>2, <3>3
  <2>5. \A i \in Entries \ {j} : v[i] = t[i]
    <3> SUFFICES ASSUME NEW i \in Entries \ {j} PROVE v[i] = t[i]
      OBVIOUS
    <3>1. Entry(i).symbol # x
      BY <1>1, <2>1
    <3>2. Entry(i).symbol \in U \cup {x} <=> Entry(i).symbol \in U
      BY <3>1
    <3> QED BY <1>2, <3>2
  <2> HIDE DEF t, v, z
  <2>6. 0 \in S
    <3>1. Product(t, 0) = 1 /\ Product(v, 0) = 1 /\ j \in 1 .. L
      <4>1. 0 \in Nat
        OBVIOUS
      <4>2. Product(t, 0) = 1
        BY <4>1, ProductStep
      <4>3. Product(v, 0) = 1
        BY <4>1, ProductStep
      <4> QED BY <1>1, <4>2, <4>3
    <3>2. ~(j <= 0)
      BY <3>1
    <3> QED BY <3>1, <3>2
  <2>7. ASSUME NEW i \in Nat, i \in S PROVE i + 1 \in S
    <3> SUFFICES ASSUME i + 1 <= L
                 PROVE  /\ Product(t, i + 1) \in Nat
                        /\ Product(v, i + 1)
                               = Product(t, i + 1) * (IF j <= i + 1 THEN z ELSE 1)
      OBVIOUS
    <3>1. Product(t, i + 1) = Product(t, i) * t[i + 1]
      BY ProductStep
    <3>2. Product(v, i + 1) = Product(v, i) * v[i + 1]
      BY ProductStep
    <3>3. i + 1 \in Entries /\ i <= L /\ j \in Nat
      BY <1>1
    <3> DEFINE a == Product(t, i)
               b == Product(v, i)
    <3>4. a \in Nat /\ b = a * (IF j <= i THEN z ELSE 1) /\ t[i + 1] \in Nat
      BY <2>3, <2>7, <3>3
    <3>5. Product(t, i + 1) = a * t[i + 1] /\ Product(v, i + 1) = b * v[i + 1]
      BY <3>1, <3>2
    <3> HIDE DEF a, b
    <3>6. CASE i + 1 = j
      <4>1. ~(j <= i) /\ j <= i + 1
        BY <3>3, <3>6
      <4>2. v[i + 1] = z /\ t[i + 1] = 1
        BY <2>4, <3>6
      <4> QED BY <2>2, <3>4, <3>5, <4>1, <4>2
    <3>7. CASE i + 1 # j
      <4>1. j <= i <=> j <= i + 1
        BY <3>3, <3>7
      <4>2. v[i + 1] = t[i + 1]
        BY <2>5, <3>3, <3>7
      <4> DEFINE y == IF j <= i THEN z ELSE 1
                 c == t[i + 1]
      <4>3. y \in Nat /\ y = IF j <= i + 1 THEN z ELSE 1
        BY <2>2, <4>1
      <4>4. c \in Nat /\ b = a * y /\ Product(v, i + 1) = b * c /\ Product(t, i + 1) = a * c
        BY <3>4, <3>5, <4>2
      <4> HIDE DEF y, c
      <4>5. Product(v, i + 1) = (a * c) * y /\ a * c \in Nat
        BY <3>4, <4>3, <4>4
      <4> QED BY <4>3, <4>4, <4>5
    <3> QED BY <3>6, <3>7
  <2>8. L \in S
    <3> HIDE DEF S
    <3> QED BY <1>1, <2>6, <2>7, SetInduction
  <2>9. Product(v, L) = Product(t, L) * z
    <3>1. j <= L
      BY <1>1
    <3> QED BY <1>1, <2>8, <3>1
  <2> QED BY <2>9 DEF t, v, z
<1>6. IsProduct(SelfProducts, Counts, Active)
  <2>1. \A U \in SUBSET Active : SelfProducts[U] = Product(FactorsOf(U), L)
    BY DEF SelfProducts, L
  <2>2. SelfProducts \in [SUBSET Active -> Nat]
    BY <1>3 DEF SelfProducts, L
  <2>3. SelfProducts[{}] = 1
    BY <1>4, <2>1
  <2>4. ASSUME NEW U \in SUBSET Active, NEW x \in Active \ U
        PROVE  SelfProducts[U \cup {x}] = SelfProducts[U] * Self(Counts[x])
    <3>1. U \cup {x} \in SUBSET Active
      OBVIOUS
    <3>2. SelfProducts[U \cup {x}] = Product(FactorsOf(U \cup {x}), L)
      BY <2>1, <3>1
    <3>3. SelfProducts[U] = Product(FactorsOf(U), L)
      BY <2>1
    <3> QED BY <1>5, <3>2, <3>3
  <2> QED BY <2>2, <2>3, <2>4 DEF IsProduct
<1>7. Product([i \in Entries |-> Power(Entry(i).count, Entry(i).count)], L) = SelfProducts[Active]
  <2> DEFINE t == [i \in Entries |-> Power(Entry(i).count, Entry(i).count)]
             v == FactorsOf(Active)
  <2>1. \A i \in 1 .. L : t[i] = v[i]
    <3> SUFFICES ASSUME NEW i \in Entries PROVE t[i] = v[i]
      BY <1>1
    <3>1. t[i] = Self(Entry(i).count)
      BY DEF Self
    <3>2. CASE Entry(i).count > 0
      <4>1. Entry(i).symbol \in Active
        BY <3>2 DEF Active, ActiveIn
      <4> HIDE DEF t
      <4> QED BY <1>2, <3>1, <3>2, <4>1
    <3>3. CASE ~(Entry(i).count > 0)
      <4>1. Entry(i).count = 0
        BY <1>1, <3>3
      <4>2. Self(0) = 1
        <5>1. 0 \in Nat
          OBVIOUS
        <5> QED BY <5>1, PowerStep DEF Self
      <4>3. v[i] = 1
        BY <1>2, <3>3
      <4> HIDE DEF t, v
      <4> QED BY <3>1, <4>1, <4>2, <4>3
    <3> QED BY <3>2, <3>3
  <2> HIDE DEF t, v
  <2>2. Product(t, L) = Product(v, L)
    BY <1>1, <2>1, SameProducts
  <2>3. SelfProducts[Active] = Product(v, L)
    BY DEF SelfProducts, v, L
  <2> QED BY <2>2, <2>3 DEF t
<1> QED BY <1>6, <1>7 DEF L

\* The sum of the dictionary is the sum of the counted symbols.
LEMMA CallSum ==
    ASSUME call \in Calls, Counting
    PROVE  N = Sum(Counts, Active)
<1> DEFINE f == [i \in Entries |-> Entry(i).count]
           g == CHOOSE h : h = [s \in SUBSET Entries |->
                    IF s = {} THEN 0
                    ELSE Entry(CHOOSE x \in s : TRUE).count + h[s \ {CHOOSE x \in s : TRUE}]]
<1>1. N = g[Entries]
  BY Zenon DEF N, MapThenSumSet, MapThenFoldSet
<1>2. /\ IsFiniteSet(Entries)
      /\ \A i \in Entries : f[i] = Entry(i).count /\ f[i] \in Nat /\ f[i] \in Int
      /\ \A i, j \in Entries : Entry(i).symbol = Entry(j).symbol => i = j
  <2>1. IsFiniteSet(Entries)
    BY CallType, FS_Interval DEF Entries
  <2> QED BY <2>1, CallType DEF Counting
<1> HIDE DEF f
<1>3. PICK it : Sums(f, Entries, it)
  BY <1>2, SumsExist
<1>4. Sum(f, Entries) = it[Entries]
  BY <1>2, <1>3, SumIs
<1>5. \A s \in SUBSET Entries : s # {} => f[Pick(s)] = Entry(Pick(s)).count
  BY <1>2, PickFact
<1>6. it = [s \in SUBSET Entries |->
               IF s = {} THEN 0 ELSE Entry(Pick(s)).count + it[s \ {Pick(s)}]]
  BY <1>3, <1>5 DEF Sums
<1>7. g = [s \in SUBSET Entries |->
               IF s = {} THEN 0
               ELSE Entry(CHOOSE x \in s : TRUE).count + g[s \ {CHOOSE x \in s : TRUE}]]
  BY <1>6, Zenon DEF Pick
<1> HIDE DEF g
<1>8. g = [s \in SUBSET Entries |->
               IF s = {} THEN 0 ELSE Entry(Pick(s)).count + g[s \ {Pick(s)}]]
  BY <1>7, Zenon DEF Pick
<1>9. Adds(f, Entries, g) /\ Entries \in SUBSET Entries
  BY <1>5, <1>8 DEF Adds
<1>10. N = Sum(f, Entries)
  BY <1>1, <1>2, <1>3, <1>4, <1>9, OneSum
<1> DEFINE E == {i \in Entries : Entry(i).count > 0}
           Z == Entries \ E
           p == [i \in E |-> Entry(i).symbol]
<1>11. IsFiniteSet(E) /\ IsFiniteSet(Z) /\ E \cap Z = {} /\ E \cup Z = Entries
       /\ E \subseteq Entries /\ Z \subseteq Entries
  BY <1>2, FS_Subset
<1>12. Sum(f, Entries) = Sum(f, E) + Sum(f, Z)
  <2>1. \A i \in E \cup Z : f[i] \in Int
    BY <1>2
  <2> HIDE DEF E, Z
  <2> QED BY <1>11, <2>1, SumSplits
<1>13. Sum(f, Z) = 0
  <2>1. \A i \in Z : f[i] \in Int /\ f[i] = 0 * f[i]
    BY <1>2
  <2> HIDE DEF Z
  <2>2. Sum(f, Z) = 0 * Sum(f, Z)
    <3>1. 0 \in Int
      OBVIOUS
    <3> QED BY <1>11, <2>1, <3>1, SumScales
  <2>3. Sum(f, Z) \in Int
    BY <1>11, <2>1, SumFacts
  <2> QED BY <2>2, <2>3
<1>14. Sum(Counts, Active) = Sum(f, E)
  <2>1. OneToOne(p, E, Active)
    BY <1>2 DEF OneToOne, Active, ActiveIn
  <2>2. \A i \in E : f[i] \in Int /\ Counts[p[i]] = f[i]
    <3> SUFFICES ASSUME NEW i \in E PROVE Counts[p[i]] = f[i]
      BY <1>2
    <3>1. p[i] = Entry(i).symbol /\ p[i] \in Active
      BY DEF Active, ActiveIn
    <3>2. Counts[p[i]] = CountOf(Entry(i).symbol)
      BY <3>1 DEF Counts
    <3> QED BY <1>2, <3>2, CountFacts
  <2> HIDE DEF E, p
  <2> QED BY <1>11, <2>1, <2>2, SumRenames
<1>15. Sum(f, E) \in Int
  <2>1. \A i \in E : f[i] \in Int
    BY <1>2
  <2> HIDE DEF E
  <2> QED BY <1>11, <2>1, SumFacts
<1> QED BY <1>10, <1>12, <1>13, <1>14, <1>15

-----------------------------------------------------------------------------
(* The baselines keep their order *)

\* Of two words that fit, none is empty.
LEMMA NoEmptyWord ==
    ASSUME NEW H, IsFiniteSet(H), NEW M \in Nat, NEW m, Fits(m, M, H),
           NEW x \in H, NEW y \in H, x # y
    PROVE  m[x] >= 1
<1> DEFINE s == Shares(m, M, H)
<1>1. m \in [H -> 0 .. M] /\ Sum(s, H) <= 2 ^ M
  BY DEF Fits
<1>2. \A h \in H : s[h] = 2 ^ (M - m[h]) /\ s[h] \in Nat \ {0}
  BY <1>1, ShareType
<1> HIDE DEF s
<1>3. Sum(s, H) = s[x] + s[y] + Sum(s, H \ {x, y})
  <2>1. \A h \in H : s[h] \in Int
    BY <1>2
  <2> QED BY <2>1, TakeTwo
<1>4. Sum(s, H \ {x, y}) \in Nat
  <2>1. IsFiniteSet(H \ {x, y}) /\ \A h \in H \ {x, y} : s[h] \in Nat
    BY <1>2, FS_Difference
  <2> QED BY <2>1, SumOfNats
<1>5. ASSUME m[x] = 0 PROVE FALSE
  <2>1. M - m[x] = M
    BY <1>5
  <2>2. s[x] = 2 ^ (M - m[x])
    BY <1>2
  <2>3. s[x] = 2 ^ M
    BY Zenon, <2>1, <2>2
  <2> DEFINE p == 2 ^ M
  <2>4. s[x] = p /\ Sum(s, H) <= p /\ s[x] \in Nat /\ s[y] \in Nat \ {0}
    BY <1>1, <1>2, <2>3
  <2> HIDE DEF p
  <2> QED BY <1>3, <1>4, <2>4
<1> QED BY <1>1, <1>5

\* Words of one bit at least, and of b bits at most, for each use.
LEMMA BitsBetween ==
    ASSUME NEW H, IsFiniteSet(H), NEW cnt \in [H -> Nat], NEW b \in Nat,
           NEW m \in [H -> 1 .. b]
    PROVE  /\ Sum(cnt, H) \in Nat
           /\ Bits(cnt, m, H) \in Nat
           /\ Sum(cnt, H) <= Bits(cnt, m, H)
           /\ Bits(cnt, m, H) <= b * Sum(cnt, H)
<1> DEFINE u == Uses(cnt, m, H)
           f == [h \in H |-> b * cnt[h]]
<1>1. \A h \in H : m[h] \in Nat /\ m[h] >= 1 /\ m[h] <= b /\ cnt[h] \in Nat /\ cnt[h] \in Int
  OBVIOUS
<1>2. \A h \in H : u[h] = cnt[h] * m[h] /\ u[h] \in Nat
  <2>1. m \in [H -> Nat]
    BY <1>1
  <2> QED BY <2>1, UseType
<1> HIDE DEF u
<1>3. \A h \in H : f[h] = b * cnt[h] /\ f[h] \in Int
  BY <1>1
<1> HIDE DEF f
<1>4. ASSUME NEW h \in H PROVE cnt[h] <= u[h] /\ u[h] <= f[h]
  <2> DEFINE c == cnt[h]
             e == m[h]
  <2>1. c \in Nat /\ e \in Nat /\ 1 <= e /\ e <= b /\ c <= c /\ 1 \in Nat
    BY <1>1
  <2>2. u[h] = c * e /\ f[h] = b * c
    BY <1>2, <1>3
  <2> HIDE DEF c, e
  <2>3. c * 1 <= c * e
    BY <2>1, ProductsAscend
  <2>4. c * e <= c * b
    BY <2>1, ProductsAscend
  <2>5. c <= u[h] /\ u[h] <= f[h]
    BY <2>1, <2>2, <2>3, <2>4
  <2> QED BY <2>5 DEF c
<1>5. \A h \in H : u[h] \in Int
  BY <1>2
<1>6. Sum(cnt, H) <= Sum(u, H)
  BY <1>1, <1>4, <1>5, SumAscends
<1>7. Sum(u, H) <= Sum(f, H)
  BY <1>3, <1>4, <1>5, SumAscends
<1>8. Sum(f, H) = b * Sum(cnt, H)
  <2>1. b \in Int
    OBVIOUS
  <2> QED BY <1>1, <1>3, <2>1, SumScales
<1>9. Sum(cnt, H) \in Nat
  BY <1>1, SumOfNats
<1>10. Sum(u, H) \in Nat
  BY <1>2, SumOfNats
<1> QED BY <1>6, <1>7, <1>8, <1>9, <1>10 DEF Bits, u

\* Three symbols have a code of two bits each.
LEMMA TwoBitsFit ==
    ASSUME NEW H, H = {-1, 0, 1}
    PROVE  /\ IsFiniteSet(H) /\ Cardinality(H) = 3
           /\ Fits([h \in H |-> 2], 3, H)
<1> DEFINE m == [h \in H |-> 2]
           s == Shares(m, 3, H)
<1>1. IsFiniteSet(H) /\ Cardinality(H) = 3
  <2>1. IsFiniteSet({-1}) /\ Cardinality({-1}) = 1
    BY FS_Singleton
  <2>2. IsFiniteSet({-1} \cup {0}) /\ Cardinality({-1} \cup {0}) = 2
    <3>1. 0 \notin {-1}
      OBVIOUS
    <3> QED BY <2>1, <3>1, FS_AddElement
  <2>3. IsFiniteSet(({-1} \cup {0}) \cup {1}) /\ Cardinality(({-1} \cup {0}) \cup {1}) = 3
    <3>1. 1 \notin {-1} \cup {0}
      OBVIOUS
    <3> QED BY <2>2, <3>1, FS_AddElement
  <2>4. ({-1} \cup {0}) \cup {1} = H
    OBVIOUS
  <2> QED BY <2>3, <2>4
<1>2. m \in [H -> 0 .. 3] /\ \A h \in H : m[h] = 2
  OBVIOUS
<1> HIDE DEF m
<1>3. \A h \in H : s[h] = 2 ^ 1 /\ s[h] \in Nat /\ s[h] \in Int
  <2> SUFFICES ASSUME NEW h \in H PROVE s[h] = 2 ^ 1 /\ s[h] \in Nat
    OBVIOUS
  <2>1. s[h] = 2 ^ (3 - m[h]) /\ s[h] \in Nat \ {0}
    <3>1. 3 \in Nat
      OBVIOUS
    <3> QED BY <1>2, <3>1, ShareType
  <2>2. 3 - m[h] = 1
    BY <1>2
  <2> HIDE DEF s
  <2>3. s[h] = 2 ^ 1
    BY Zenon, <2>1, <2>2
  <2> QED BY <2>1, <2>3
<1> DEFINE p == 2 ^ 1
<1>4. 2 ^ 3 = 4 * p
  <2>1. 2 ^ (1 + 1) = 2 * 2 ^ 1 /\ 2 ^ (2 + 1) = 2 * 2 ^ 2 /\ 2 ^ 2 \in Nat /\ 2 ^ 1 \in Nat
    <3>1. 1 \in Nat /\ 2 \in Nat
      OBVIOUS
    <3> QED BY <3>1, Powers
  <2>2. 1 + 1 = 2 /\ 2 + 1 = 3
    OBVIOUS
  <2> DEFINE p2 == 2 ^ 2
             p3 == 2 ^ 3
  <2>3. p2 = 2 * p
    BY Zenon, <2>1, <2>2
  <2>4. p3 = 2 * p2
    BY Zenon, <2>1, <2>2
  <2>5. p \in Nat
    BY <2>1
  <2> HIDE DEF p, p2, p3
  <2>6. p3 = 4 * p
    BY <2>3, <2>4, <2>5
  <2> QED BY <2>6 DEF p3
<1> HIDE DEF s
<1>5. Sum(s, H) = s[-1] + s[0] + Sum(s, H \ {-1, 0})
  <2>1. -1 \in H /\ 0 \in H /\ -1 # 0
    OBVIOUS
  <2> QED BY <1>1, <1>3, <2>1, TakeTwo
<1>6. Sum(s, {1}) = s[1] + Sum(s, {1} \ {1}) /\ Sum(s, {}) = 0
  <2>1. IsFiniteSet({1}) /\ \A h \in {1} : s[h] \in Int
    BY <1>3, FS_Singleton
  <2>2. Sum(s, {}) = 0
    BY <2>1, SumFacts
  <2>3. 1 \in {1} /\ \A h \in {1} : Sum(s, {1}) = s[h] + Sum(s, {1} \ {h})
    BY <2>1, SumFacts
  <2> QED BY <2>2, <2>3
<1>7. H \ {-1, 0} = {1} /\ {1} \ {1} = {}
  OBVIOUS
<1>8. s[-1] = p /\ s[0] = p /\ s[1] = p /\ p \in Nat
  BY <1>3
<1> HIDE DEF p
<1>9. Sum(s, H) <= 4 * p
  BY <1>5, <1>6, <1>7, <1>8
<1> QED BY <1>1, <1>2, <1>4, <1>9 DEF Fits, s, m

\* Finished codes of true counts, between the entropy and the fixed two bits.
LEMMA InOrder == IInv /\ CodeInv => BaselineOrder
<1> SUFFICES ASSUME IInv, CodeInv, Coded, Counting
             PROVE  /\ EntropyAtMost(BitsB0)
                    /\ Cardinality(Active) > 1 => ~EntropyAtMost(BitsB0 - N)
                    /\ Active \subseteq {-1, 0, 1} => BitsB0 <= BitsA
  BY DEF BaselineOrder
<1> DEFINE A == Active
           K == Cardinality(A)
           c == Counts
           d == code_lengths
           q == SelfProducts
           B == Bits(c, d, A)
<1>1. /\ call \in Calls /\ d \in [A -> Nat \ {0}] /\ d # <<>>
      /\ Cheapest(c, A, d)
  BY DEF IInv, TypeOK, CodeInv, Coded
<1>2. IsFiniteSet(A) /\ c \in [A -> Nat] /\ (\A s \in A : c[s] > 0) /\ K \in Nat
  BY <1>1, CountFacts, FS_CardinalityType
<1>3. Fits(d, K, A) /\ d \in [A -> 1 .. K] /\ d \in [A -> Nat]
  <2>1. Fits(d, K, A)
    BY <1>1 DEF Cheapest
  <2>2. d \in [A -> 0 .. K]
    BY <2>1 DEF Fits
  <2> HIDE DEF A, K
  <2> QED BY <1>1, <2>1, <2>2
<1>4. A # {}
  <2> SUFFICES ASSUME A = {} PROVE FALSE
    OBVIOUS
  <2>1. d \in [{} -> Nat] /\ <<>> \in [{} -> Nat]
    BY <1>3
  <2>2. d = <<>>
    BY <2>1
  <2> QED BY <1>1, <2>2
<1>5. /\ N = Sum(c, A) /\ N \in Nat /\ B \in Nat /\ N <= B /\ B <= K * N
  <2>1. N = Sum(c, A)
    BY <1>1, CallSum
  <2> HIDE DEF A, K, c, d
  <2>2. /\ Sum(c, A) \in Nat /\ B \in Nat /\ Sum(c, A) <= B /\ B <= K * Sum(c, A)
    BY <1>2, <1>3, BitsBetween
  <2> QED BY <2>1, <2>2
<1>6. N > 0
  <2>1. PICK s \in A : TRUE
    BY <1>4
  <2>2. \A x \in A : c[x] \in Int /\ c[x] \in Nat
    BY <1>2
  <2>3. Sum(c, A) = c[s] + Sum(c, A \ {s})
    <3> HIDE DEF A, c
    <3> QED BY <1>2, <2>2, SumFacts
  <2>4. Sum(c, A \ {s}) \in Nat
    <3>1. IsFiniteSet(A \ {s}) /\ \A x \in A \ {s} : c[x] \in Nat
      BY <1>2, <2>2, FS_RemoveElement
    <3> HIDE DEF A, c
    <3> QED BY <3>1, SumOfNats
  <2>5. c[s] \in Nat /\ c[s] > 0
    BY <1>2
  <2> HIDE DEF A, c
  <2> QED BY <1>5, <2>3, <2>4, <2>5
<1>7. BitsB0 = B
  BY <1>2, <1>3, <1>6, CostIs DEF BitsB0
<1>8. IsProduct(q, c, A) /\ \A bits : EntropyAtMost(bits) <=> Self(N) <= Power(2, bits) * q[A]
  BY <1>1, CallProduct DEF EntropyAtMost, Self
<1>9. q[A] \in Nat
  BY <1>8 DEF IsProduct
<1>10. EntropyAtMost(BitsB0)
  <2> HIDE DEF A, K, c, d, q
  <2>1. Self(Sum(c, A)) <= Power(2, B) * q[A]
    BY <1>2, <1>3, <1>8, EntropyBound
  <2> QED BY <1>5, <1>7, <1>8, <2>1
<1>11. ASSUME K > 1 PROVE ~EntropyAtMost(BitsB0 - N)
  <2>1. PICK x \in A, y \in A : x # y
    <3>1. PICK x \in A : TRUE
      BY <1>4
    <3>2. A \ {x} # {}
      <4> SUFFICES ASSUME A \ {x} = {} PROVE FALSE
        OBVIOUS
      <4>1. A = {x}
        OBVIOUS
      <4>2. K = 1
        BY <4>1, FS_Singleton
      <4> QED BY <1>11, <4>2
    <3> QED BY <3>2
  <2> HIDE DEF A, K, c, d, q
  <2>2. PICK M, m : /\ M \in Nat
                    /\ Fits(m, M, A)
                    /\ Power(2, Bits(c, m, A)) * q[A] < Power(2, N) * Self(N)
    BY <1>2, <1>5, <1>8, <2>1, ShannonCode
  <2>3. PICK n : Fits(n, K, A) /\ Bits(c, n, A) <= Bits(c, m, A)
    BY <1>2, <2>2, NoLongerWords DEF K
  <2>4. \A s \in A : n[s] >= 1
    <3> SUFFICES ASSUME NEW s \in A PROVE n[s] >= 1
      OBVIOUS
    <3>1. PICK t \in A : s # t
      BY <2>1
    <3> QED BY <1>2, <2>3, <3>1, NoEmptyWord
  <2>5. B <= Bits(c, n, A)
    BY <1>1, <2>3, <2>4 DEF Cheapest, K
  <2> DEFINE S == Bits(c, m, A)
             T == Bits(c, n, A)
             e == B - N
             f == S - B
  <2>6. S \in Nat /\ T \in Nat
    <3>1. m \in [A -> Nat] /\ n \in [A -> Nat]
      BY <1>2, <2>2, <2>3 DEF Fits
    <3>2. \A s \in A : Uses(c, m, A)[s] \in Nat
      BY <1>2, <3>1, UseType
    <3>3. \A s \in A : Uses(c, n, A)[s] \in Nat
      BY <1>2, <3>1, UseType
    <3>4. S \in Nat
      BY <1>2, <3>2, SumOfNats DEF Bits
    <3>5. T \in Nat
      BY <1>2, <3>3, SumOfNats DEF Bits
    <3> QED BY <3>4, <3>5
  <2>7. e \in Nat /\ f \in Nat /\ B = N + e /\ S = (N + e) + f
    <3>1. B <= T /\ T <= S
      BY <2>3, <2>5
    <3> HIDE DEF B, S, T
    <3> QED BY <1>5, <2>6, <3>1
  <2> SUFFICES ASSUME EntropyAtMost(BitsB0 - N) PROVE FALSE
    OBVIOUS
  <2> HIDE DEF B, S, T, e, f
  <2> DEFINE z == Self(N)
             w == q[A]
             i == Power(2, N)
             j == Power(2, e)
             k == Power(2, f)
  <2>8. z <= j * w
    BY <1>7, <1>8 DEF e
  <2>9. 2 \in Nat /\ 2 > 0 /\ N + e \in Nat
    BY <1>5, <2>7
  <2>10. Power(2, S) = (i * j) * k
    <3>1. Power(2, (N + e) + f) = Power(2, N + e) * k
      BY <2>7, <2>9, PowerAdd
    <3>2. Power(2, N + e) = i * j
      BY <1>5, <2>7, <2>9, PowerAdd
    <3> QED BY <2>7, <3>1, <3>2
  <2>11. i \in Nat
    BY <1>5, <2>9, PowerType
  <2>12. j \in Nat
    BY <2>7, <2>9, PowerType
  <2>13. k \in Nat /\ k > 0
    BY <2>7, <2>9, PowerType
  <2>14. z \in Nat /\ w \in Nat
    BY <1>5, <1>9, SelfType
  <2>15. ((i * j) * k) * w < i * z
    BY <2>2, <2>10 DEF S
  <2> HIDE DEF z, w, i, j, k
  <2>16. i * z <= i * (j * w)
    <3>1. j * w \in Nat /\ i <= i
      BY <2>11, <2>12, <2>14
    <3> QED BY <2>8, <2>11, <2>14, <3>1, ProductsAscend
  <2>17. (i * (j * w)) * 1 <= (i * (j * w)) * k
    <3>1. i * (j * w) \in Nat /\ 1 \in Nat /\ 1 <= k /\ i * (j * w) <= i * (j * w)
      BY <2>11, <2>12, <2>13, <2>14
    <3> QED BY <2>13, <3>1, ProductsAscend
  <2>18. (i * (j * w)) * k = ((i * j) * k) * w
    BY <2>11, <2>12, <2>13, <2>14
  <2> DEFINE x1 == i * z
             x2 == i * (j * w)
             x3 == ((i * j) * k) * w
  <2>19. x1 \in Nat /\ x2 \in Nat /\ x3 \in Nat /\ x3 < x1 /\ x1 <= x2 /\ x2 * 1 <= x3
    BY <2>11, <2>12, <2>13, <2>14, <2>15, <2>16, <2>17, <2>18
  <2> HIDE DEF x1, x2, x3
  <2> QED BY <2>19
<1>12. ASSUME A \subseteq {-1, 0, 1} PROVE BitsB0 <= BitsA
  <2>1. CASE A = {-1, 0, 1}
    <3> DEFINE n == [s \in A |-> 2]
    <3>1. K = 3 /\ Fits(n, 3, A)
      BY <2>1, TwoBitsFit
    <3>2. n \in [A -> 1 .. 2] /\ \A s \in A : n[s] >= 1
      OBVIOUS
    <3> HIDE DEF A, K, c, d, n
    <3>3. B <= Bits(c, n, A)
      BY <1>1, <3>1, <3>2 DEF Cheapest, K
    <3>4. Bits(c, n, A) \in Nat /\ Bits(c, n, A) <= 2 * Sum(c, A)
      <4>1. 2 \in Nat
        OBVIOUS
      <4> QED BY <1>2, <3>2, <4>1, BitsBetween
    <3> HIDE DEF B
    <3> QED BY <1>5, <1>7, <3>3, <3>4 DEF BitsA
  <2>2. CASE A # {-1, 0, 1}
    <3>1. K <= 2
      <4>1. PICK x \in {-1, 0, 1}, y \in {-1, 0, 1} : x # y /\ A \subseteq {x} \cup {y}
        <5>1. CASE -1 \notin A
          <6>1. A \subseteq {0} \cup {1} /\ 0 # 1
            BY <1>12, <5>1
          <6> QED BY <6>1
        <5>2. CASE 0 \notin A
          <6>1. A \subseteq {-1} \cup {1} /\ -1 # 1
            BY <1>12, <5>2
          <6> QED BY <6>1
        <5>3. CASE 1 \notin A
          <6>1. A \subseteq {-1} \cup {0} /\ -1 # 0
            BY <1>12, <5>3
          <6> QED BY <6>1
        <5>4. -1 \in A /\ 0 \in A /\ 1 \in A => A = {-1, 0, 1}
          BY <1>12
        <5> QED BY <2>2, <5>1, <5>2, <5>3, <5>4
      <4>2. IsFiniteSet({x}) /\ Cardinality({x}) = 1 /\ y \notin {x}
        BY <4>1, FS_Singleton
      <4>3. IsFiniteSet({x} \cup {y}) /\ Cardinality({x} \cup {y}) = 2
        BY <4>2, FS_AddElement
      <4>4. Cardinality(A) <= Cardinality({x} \cup {y})
        BY <4>1, <4>3, FS_Subset
      <4> QED BY <4>3, <4>4
    <3>2. K * N <= 2 * N
      <4> HIDE DEF K
      <4>1. 2 \in Nat /\ N <= N
        BY <1>5
      <4> QED BY <1>2, <1>5, <3>1, <4>1, ProductsAscend
    <3> HIDE DEF B, K
    <3>3. K * N \in Nat
      BY <1>2, <1>5
    <3> QED BY <1>5, <1>7, <3>2, <3>3 DEF BitsA
  <2> QED BY <2>1, <2>2
<1> QED BY <1>10, <1>11, <1>12

(* The order the report presents its baselines in: for true counts no code *)
(* canonical_huffman_code_lengths returns beats the entropy, with two      *)
(* symbols or more it is less than a bit per position above it, and for    *)
(* win, draw and loss it never costs more than the fixed two bits.         *)
THEOREM OrderOfBaselines == Spec => []BaselineOrder
BY InOrder, InductiveCode, PTL
=============================================================================
