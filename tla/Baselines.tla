------------------------------- MODULE Baselines ------------------------------
(***************************************************************************)
(* The compression baselines: canonical Huffman coding of symbol counts    *)
(* (baseline/huffman_canonical.py), compute_all_baselines and ratio_B      *)
(* (baseline/baselines.py) and the baselines command (cli.py).  A          *)
(* behaviour prices one dictionary of counts, called by the command or as  *)
(* a library; every push and every merge of the heap is one step.          *)
(*                                                                         *)
(* A Huffman node is [count, depths, min_symbol_rank, node_id]: depths     *)
(* gives each symbol below the node its distance from it, which is all the *)
(* depth-first walk of the finished tree reads from left and right.        *)
(*                                                                         *)
(* Prices are integers; ratios of integers are correctly rounded floats,   *)
(* and what is too large for a float is an exception.                      *)
(***************************************************************************)
EXTENDS Sequences, FiniteSetsExt

CONSTANTS
    Calls,      \* [counts, model_bits, cli, json]; counts is a dictionary in
                \* its insertion order, a sequence of [symbol, count]
    FloatBits,  \* significant bits of a float: 53
    FloatLimit, \* what rounds past the largest float: 2^1024 - 2^970
    None

ASSUME FloatAssumption == FloatBits \in Nat /\ FloatLimit \in Nat \ {0}

\* Keys of a dictionary are distinct. Counts may be anything: the command
\* takes any integers.
ASSUME CallAssumption ==
    \A c \in Calls :
        /\ c.counts \in Seq([symbol : Int, count : Int])
        /\ \A i, j \in 1 .. Len(c.counts) :
               c.counts[i].symbol = c.counts[j].symbol => i = j
        /\ c.model_bits # None => c.model_bits \in Int

VARIABLES
    call,               \* the arguments
    pc,                 \* start, push, merge, report, done, raised or exit1
    pushed,             \* entries of the dictionary looked at
    heap,               \* the heap, as the set of its nodes
    node_id_counter,
    code_lengths,       \* the code, once extracted
    beats               \* what is said of ratio_B < 1.0, None if nothing

vars == <<call, pc, pushed, heap, node_id_counter, code_lengths, beats>>

Entry(i) == call.counts[i]
Entries == 1 .. Len(call.counts)

\* active_symbols, up to the entry the loop is at
ActiveIn(entries) == {Entry(i).symbol : i \in {m \in entries : Entry(m).count > 0}}
Active == ActiveIn(Entries)
CountOf(s) == Entry(CHOOSE i \in Entries : Entry(i).symbol = s).count

\* sum(counts.values())
N == MapThenSumSet(LAMBDA i : Entry(i).count, Entries)

Magnitude(n) == IF n < 0 THEN -n ELSE n

\* m / n, or m itself as a float where n is 1, raises OverflowError
Overflows(m, n) == Magnitude(m) >= Magnitude(n) * FloatLimit

\* L < D < W; a symbol the table lacks is its own rank, so 1 and 2 share one
SymbolRank(s) == IF s \in {-1, 0, 1} THEN s + 1 ELSE s

-----------------------------------------------------------------------------
(* The Huffman tree *)

ByRank(a, b) ==  \* mutant: compares tie-breaks only
    a.min_symbol_rank < b.min_symbol_rank

\* HuffmanNode.__lt__
Before(a, b) ==
    \/ a.count < b.count
    \/ a.count = b.count /\ a.min_symbol_rank < b.min_symbol_rank
    \/ /\ a.count = b.count
       /\ a.min_symbol_rank = b.min_symbol_rank
       /\ a.node_id < b.node_id

IsFirst(n, nodes) == n \in nodes /\ \A m \in nodes \ {n} : Before(n, m)

LesserRank(a, b) ==
    IF a.min_symbol_rank <= b.min_symbol_rank
    THEN a.min_symbol_rank ELSE b.min_symbol_rank

Leaf(entry) ==
    [count |-> entry.count, depths |-> [s \in {entry.symbol} |-> 0],
     min_symbol_rank |-> SymbolRank(entry.symbol), node_id |-> node_id_counter]

Symbols(n) == DOMAIN n.depths

UnrankedMerge(left, right) ==  \* mutant: the dataclass default for the rank
    [count |-> left.count + right.count,
     depths |-> [s \in Symbols(left) \cup Symbols(right) |->
                    1 + IF s \in Symbols(left) THEN left.depths[s]
                        ELSE right.depths[s]],
     min_symbol_rank |-> 0,
     node_id |-> node_id_counter]

Merged(left, right) ==
    [count |-> left.count + right.count,
     depths |-> [s \in Symbols(left) \cup Symbols(right) |->
                    1 + IF s \in Symbols(left) THEN left.depths[s]
                        ELSE right.depths[s]],
     min_symbol_rank |-> LesserRank(left, right),
     node_id |-> node_id_counter]

DepthsOnly(root) == root.depths  \* mutant: a lone symbol keeps no bit

LengthsFromOne(root) ==  \* mutant: the root is taken to be one bit deep
    [s \in Symbols(root) |-> root.depths[s] + 1]

\* A lone symbol gets one bit
Lengths(root) ==
    IF \A s, t \in Symbols(root) : s = t
    THEN [s \in Symbols(root) |-> 1]
    ELSE root.depths

Cost(lengths) == MapThenSumSet(LAMBDA s : CountOf(s) * lengths[s], DOMAIN lengths)

\* The prices in bits.  With no positions the classes return before coding.
B1_HEADER_BITS == 160
BitsA == 2 * N
BitsB0 == IF N = 0 THEN 0 ELSE Cost(code_lengths)
BitsB1 == IF N = 0 THEN 0 ELSE BitsB0 + B1_HEADER_BITS

BeatsWithHeader ==  \* mutant: B1 for B0
    BitsB0 # 0 /\ (BitsB1 - call.model_bits) * 2 ^ (FloatBits + 1) > BitsB1

\* ratio_B < 1.0.  Without Huffman bits the ratio is infinite; half the gap
\* between 1.0 and the float before it, 1 / 2^(FloatBits + 1), rounds to 1.0.
BeatsHuffman ==
    BitsB0 # 0 /\ (BitsB0 - call.model_bits) * 2 ^ (FloatBits + 1) > BitsB0

-----------------------------------------------------------------------------
(* Steps *)

Init ==
    /\ call \in Calls
    /\ pc = "start"
    /\ pushed = 0
    /\ heap = {}
    /\ node_id_counter = 0
    /\ code_lengths = <<>>
    /\ beats = None

\* BaselineH takes log2(count / N), which raises for a negative N; BaselineU
\* multiplies N by a float before
NoEntropy ==
    \/ Overflows(N, 1)
    \/ Active # {} /\ N < 0
    \/ \E s \in Active : Overflows(CountOf(s), N)

\* The command refuses counts that sum to zero; the library prices them at
\* nothing without building a tree.
Start ==
    /\ pc = "start"
    /\ pc' = IF N = 0 THEN IF call.cli THEN "exit1" ELSE "report"
             ELSE IF NoEntropy THEN "raised" ELSE "push"
    /\ UNCHANGED <<call, pushed, heap, node_id_counter, code_lengths, beats>>

Push ==
    /\ pc = "push"
    /\ pushed < Len(call.counts)
    /\ pushed' = pushed + 1
    /\ IF Entry(pushed + 1).count > 0
       THEN /\ heap' = heap \cup {Leaf(Entry(pushed + 1))}
            /\ node_id_counter' = node_id_counter + 1
       ELSE UNCHANGED <<heap, node_id_counter>>
    /\ UNCHANGED <<call, pc, code_lengths, beats>>

AllPushed ==
    /\ pc = "push"
    /\ pushed = Len(call.counts)
    /\ pc' = "merge"
    /\ UNCHANGED <<call, pushed, heap, node_id_counter, code_lengths, beats>>

Merge ==
    /\ pc = "merge"
    /\ \E left, right \in heap :
           /\ IsFirst(left, heap)
           /\ IsFirst(right, heap \ {left})
           /\ heap' = (heap \ {left, right}) \cup {Merged(left, right)}
    /\ node_id_counter' = node_id_counter + 1
    /\ UNCHANGED <<call, pc, pushed, code_lengths, beats>>

UntilEmpty == heap # {}  \* mutant: the loop runs until the heap is empty

\* The loop ends with the root, or without a node when no count is positive
Merging == Cardinality(heap) > 1

Extract ==
    /\ pc = "merge"
    /\ ~Merging
    /\ code_lengths' = IF heap = {} THEN <<>>
                       ELSE Lengths(CHOOSE root \in heap : TRUE)
    /\ pc' = "report"
    /\ UNCHANGED <<call, pushed, heap, node_id_counter, beats>>

\* The command's JSON leaves the ratio out
RatioAsked == call.model_bits # None /\ ~(call.cli /\ call.json)

\* The bits per position of B0 and of B1, the larger, or ratio_B
RatioOverflows ==
    \/ N # 0 /\ Overflows(BitsB1, N)
    \/ RatioAsked /\ BitsB0 # 0 /\ Overflows(call.model_bits, BitsB0)

Report ==
    /\ pc = "report"
    /\ IF RatioOverflows
       THEN pc' = "raised" /\ UNCHANGED beats
       ELSE /\ beats' = IF RatioAsked THEN BeatsHuffman ELSE None
            /\ pc' = "done"
    /\ UNCHANGED <<call, pushed, heap, node_id_counter, code_lengths>>

Terminating == pc \in {"done", "raised", "exit1"} /\ UNCHANGED vars

Step == Start \/ Push \/ AllPushed \/ Merge \/ Extract \/ Report

Next == Step \/ Terminating

Spec == Init /\ [][Next]_vars

\* The call runs on its thread until it returns.
FairSpec == Spec /\ WF_vars(Step)

-----------------------------------------------------------------------------
(* Correctness *)

NodeOver(symbols) == [count : Int, depths : [symbols -> Nat],
                      min_symbol_rank : Int, node_id : Nat]

Coded == pc \in {"report", "done"} /\ code_lengths # <<>>

\* Types of the variables; a finished code gives every counted symbol, and
\* no other, at least one bit.
TypeOK ==
    /\ pc \in {"start", "push", "merge", "report", "done", "raised", "exit1"}
    /\ pushed \in 0 .. Len(call.counts)
    /\ \A n \in heap : n \in NodeOver(Symbols(n))
    /\ node_id_counter \in Nat
    /\ beats \in BOOLEAN \cup {None}
    /\ Coded => code_lengths \in [Active -> Nat \ {0}]

RanksDiffer == \A s, t \in Active : SymbolRank(s) = SymbolRank(t) => s = t

\* "Canonical": where the rank table tells the symbols apart, as it does for
\* win, draw and loss, it alone settles every tie of counts.  Node ids, and so
\* the insertion order of the dictionary, never decide what is merged.
RankDecides ==
    RanksDiffer =>
        \A a, b \in heap : a.min_symbol_rank = b.min_symbol_rank => a = b

\* Kraft: the lengths are those of some prefix code
Kraft(lengths) ==
    LET most == Cardinality(Active)
    IN  MapThenSumSet(LAMBDA s : 2 ^ (most - lengths[s]), Active) <= 2 ^ most

\* Every prefix code worth considering: none needs longer words than these
PrefixCodes ==
    {lengths \in [Active -> 1 .. Cardinality(Active)] : Kraft(lengths)}

\* The lengths are those of a prefix code, and no prefix code is cheaper for
\* these counts: B0 is the least any symbol code could claim.
OptimalPrefixCode ==
    Coded => /\ Kraft(code_lengths)
             /\ \A other \in PrefixCodes : Cost(code_lengths) <= Cost(other)

\* A size that no prefix code of the counts gets down to
BelowEveryCode ==
    /\ N # 0
    /\ Active # {}
    /\ \A other \in PrefixCodes : call.model_bits < Cost(other)

\* "Beats Huffman: YES" is only said of a size below every prefix code, however
\* large the numbers, and it is said of every such size while B0 is below
\* 2^(FloatBits + 1) bits.  From there on a quotient below 1 may round to 1.0.
BeatsEveryPrefixCode ==
    (pc = "done" /\ beats # None) =>
        /\ beats => BelowEveryCode
        /\ (BelowEveryCode /\ BitsB0 < 2 ^ (FloatBits + 1)) => beats

\* t[1] * ... * t[n]
Product(t, n) ==
    LET p[i \in 0 .. n] == IF i = 0 THEN 1 ELSE p[i - 1] * t[i]
    IN  p[n]

\* b ^ n
Power(b, n) == Product([i \in Nat |-> b], n)

\* bits_H <= bits: -N * sum(p * log2(p)) <= bits, in integers
EntropyAtMost(bits) ==
    Power(N, N) <= Power(2, bits)
                   * Product([i \in Entries |-> Power(Entry(i).count, Entry(i).count)],
                             Len(call.counts))

Counting == \A i \in Entries : Entry(i).count >= 0

\* The baselines of true counts keep the order the report presents them in:
\* no code beats the entropy H, Huffman is less than a bit per position above
\* it (a lone symbol pays the full bit), and with the three symbols of A the
\* fixed two bits are never cheaper than Huffman.
BaselineOrder ==
    (Coded /\ Counting) =>
        /\ EntropyAtMost(BitsB0)
        /\ Cardinality(Active) > 1 => ~EntropyAtMost(BitsB0 - N)
        /\ Active \subseteq {-1, 0, 1} => BitsB0 <= BitsA

\* Every call, whatever the counts, is answered.
Termination == <>(pc \in {"done", "raised", "exit1"})
=============================================================================
