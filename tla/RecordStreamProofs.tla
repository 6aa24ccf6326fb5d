-------------------------- MODULE RecordStreamProofs --------------------------
(***************************************************************************)
(* Proofs about RecordStream, for every set of leaves, block size and      *)
(* number of classes, and for every library that meets the assumptions.    *)
(* The round trip is proved of leaves that are written (WrittenStream).    *)
(***************************************************************************)
EXTENDS RecordPorts, FiniteSetTheorems, WellFoundedInduction, TLAPS

-----------------------------------------------------------------------------
(* The search of unrank_subset *)

(* What the scan accepts is an interval that starts at lo, so the answer   *)
(* is lo - 1 if lo is refused and an accepted index of [lo, hi] otherwise; *)
(* the index after it, if there is one, is refused.                        *)
LEMMA FindBounds ==
    ASSUME NEW target \in Nat, NEW j \in Int, NEW lo \in Int, NEW hi \in Int,
           \A x \in lo .. hi : Binom(x, j) \in Nat
    PROVE  LET i == FindLargestBinomLe(target, j, lo, hi)
           IN  /\ i \in Int
               /\ lo > hi => i = lo - 1
               /\ lo <= hi => i \in (lo - 1) .. hi
               /\ i >= lo => Binom(i, j) <= target
               /\ lo <= hi /\ Binom(lo, j) <= target => i >= lo
               /\ lo <= hi /\ i < hi => Binom(i + 1, j) > target
<1> DEFINE A == Accepted(target, j, lo, hi)
           c == Cardinality(A)
<1>1. A \subseteq lo .. hi
  BY DEF Accepted
<1>2. IsFiniteSet(lo .. hi) /\ Cardinality(lo .. hi) = (IF lo > hi THEN 0 ELSE hi - lo + 1)
  BY FS_Interval
<1>3. IsFiniteSet(A) /\ c \in Nat /\ c <= Cardinality(lo .. hi)
  BY <1>1, <1>2, FS_Subset, FS_CardinalityType
<1>4. ASSUME NEW x \in A PROVE x - lo + 1 <= c
  <2>1. x \in lo .. hi /\ \A y \in lo .. x : Binom(y, j) <= target
    BY DEF Accepted
  <2>2. lo .. x \subseteq A
    BY <2>1 DEF Accepted
  <2>3. IsFiniteSet(lo .. x) /\ Cardinality(lo .. x) = x - lo + 1
    BY <2>1, FS_Interval
  <2>4. Cardinality(lo .. x) <= c
    BY <2>2, <1>3, FS_Subset
  <2> QED BY <2>3, <2>4
<1>5. c > 0 => lo - 1 + c \in A
  <2> SUFFICES ASSUME c > 0, lo - 1 + c \notin A PROVE FALSE
    OBVIOUS
  <2>1. A \subseteq lo .. (lo - 2 + c)
    BY <1>1, <1>3, <1>4
  <2>2. IsFiniteSet(lo .. (lo - 2 + c)) /\ Cardinality(lo .. (lo - 2 + c)) = c - 1
    <3> DEFINE h == lo - 2 + c
    <3>1. h \in Int /\ h = lo - 2 + c
      BY <1>3
    <3> HIDE DEF h
    <3>2. IsFiniteSet(lo .. h) /\ Cardinality(lo .. h) = IF lo > h THEN 0 ELSE h - lo + 1
      BY <3>1, FS_Interval
    <3>3. Cardinality(lo .. h) = c - 1
      BY <1>3, <3>1, <3>2
    <3> QED BY <3>2, <3>3 DEF h
  <2>3. c <= c - 1
    <3> DEFINE I == lo .. (lo - 2 + c)
    <3>1. A \in SUBSET I /\ IsFiniteSet(I) /\ Cardinality(I) = c - 1
      BY <2>1, <2>2
    <3> HIDE DEF I, A
    <3>2. Cardinality(A) <= Cardinality(I)
      BY ONLY <3>1, FS_Subset, Zenon
    <3> QED BY <3>1, <3>2
  <2>4. c \in Nat
    BY <1>3
  <2> HIDE DEF c
  <2> QED BY <2>3, <2>4
<1>6. lo <= hi /\ Binom(lo, j) <= target => lo \in A
  BY DEF Accepted
<1>7. FindLargestBinomLe(target, j, lo, hi) = lo - 1 + c
  BY DEF FindLargestBinomLe
<1>8. lo - 1 + c \in A => Binom(lo - 1 + c, j) <= target
  BY DEF Accepted
<1>9. lo \in A => c >= 1
  BY <1>4
<1>10. lo - 1 + c < hi => Binom(lo + c, j) > target
  <2> SUFFICES ASSUME lo - 1 + c < hi, Binom(lo + c, j) <= target PROVE FALSE
    <3>1. lo - 1 + c < hi => lo + c \in lo .. hi
      BY <1>3
    <3> HIDE DEF c
    <3> QED BY <3>1
  <2>1. lo + c \in lo .. hi
    BY <1>3
  <2>2. \A x \in lo .. (lo + c) : Binom(x, j) <= target
    <3> SUFFICES ASSUME NEW x \in lo .. (lo + c) PROVE Binom(x, j) <= target
      OBVIOUS
    <3>1. CASE x = lo + c
      BY <3>1
    <3>2. CASE x # lo + c
      <4>1. x \in lo .. (lo - 1 + c) /\ c > 0
        BY SMTT(60), <1>3, <3>2
      <4> QED BY <1>5, <4>1 DEF Accepted
    <3> QED BY <3>1, <3>2
  <2>3. lo + c \in A
    BY <2>1, <2>2 DEF Accepted
  <2>4. (lo + c) - lo + 1 <= c
    <3> DEFINE x == lo + c
    <3>1. x \in A
      BY <2>3
    <3> HIDE DEF x, A
    <3>2. x - lo + 1 <= c
      BY <1>4, <3>1
    <3> QED BY <3>2 DEF x
  <2>5. c \in Nat
    BY <1>3
  <2> HIDE DEF c
  <2> QED BY <2>4, <2>5
<1> HIDE DEF A, c
<1> QED
  <2>1. lo - 1 + c + 1 = lo + c
    BY <1>3
  <2> QED BY <1>2, <1>3, <1>5, <1>6, <1>7, <1>8, <1>9, <1>10, <2>1

-----------------------------------------------------------------------------
(* Types of what the actions compute *)

\* What a sequence holds is of its set.
LEMMA ElementType == \A S : \A s \in Seq(S) : \A i \in 1 .. Len(s) : s[i] \in S
OBVIOUS

\* The bytes of a stream are bytes.
LEMMA ByteType ==
    ASSUME leaf \in Leaves, NEW p \in 0 .. Size - 1
    PROVE  Byte(p) \in 0 .. 255
<1>1. leaf.stream \in Seq(0 .. 255)
  BY LeafAssumption
<1>2. p + 1 \in 1 .. Len(leaf.stream)
  BY <1>1 DEF Size
<1>3. leaf.stream[p + 1] \in 0 .. 255
  BY ONLY <1>1, <1>2, ElementType, Zenon
<1> QED BY <1>3 DEF Byte

\* A varint that is there ends inside the stream, after at least a byte.
LEMMA UvarintType ==
    ASSUME leaf \in Leaves, NEW o \in 0 .. Size, Uvarint(leaf.stream, o) # None
    PROVE  /\ Uvarint(leaf.stream, o).value \in Nat
           /\ Uvarint(leaf.stream, o).next \in (o + 1) .. Size
BY UvarintAssumption DEF Size

\* A stream has a length.
LEMMA SizeType == leaf \in Leaves => Size \in Nat
BY LeafAssumption DEF Size

\* The last block has a size because it starts inside the leaf.
LEMMA PositionsType ==
    ASSUME leaf \in Leaves, block_id \in Nat, block_id < leaf.num_blocks
    PROVE  BlockPositions \in 0 .. (BlockSize + leaf.n_leaf)
<1>1. CASE block_id < leaf.num_blocks - 1
  BY <1>1, LeafAssumption DEF BlockPositions, BlockSize
<1>2. CASE ~(block_id < leaf.num_blocks - 1)
  <2>1. block_id = leaf.num_blocks - 1
    BY <1>2, LeafAssumption
  <2>2. /\ leaf.n_leaf \in Nat
        /\ block_id * BlockSize \in Nat
        /\ block_id * BlockSize <= leaf.n_leaf
    BY <2>1, LeafAssumption DEF BlockSize
  <2>3. BlockPositions = leaf.n_leaf - block_id * BlockSize
    BY <1>2 DEF BlockPositions
  <2>4. BlockSize \in Nat
    BY LeafAssumption DEF BlockSize
  <2> QED BY <2>2, <2>3, <2>4
<1> QED BY <1>1, <1>2

\* Coefficients up to the positions of a leaf are naturals (binom).
LEMMA BinomType ==
    ASSUME leaf \in Leaves, NEW n \in Int, n <= BlockSize + leaf.n_leaf, NEW j \in Int
    PROVE  Binom(n, j) \in Nat
<1>1. CASE j < 0 \/ j > n
  BY <1>1 DEF Binom
<1>2. CASE ~(j < 0 \/ j > n)
  <2>1. n \in 0 .. (leaf.block_size + leaf.n_leaf) /\ j \in 0 .. n
    BY <1>2, LeafAssumption DEF BlockSize
  <2>2. leaf.block_size + leaf.n_leaf \in {l.block_size + l.n_leaf : l \in Leaves}
    OBVIOUS
  <2>3. Comb(n, j) \in Nat
    BY <2>1, <2>2, CombAssumption
  <2> QED BY <1>2, <2>3 DEF Binom
<1> QED BY <1>1, <1>2

\* A rank is a natural, whatever its bytes (decode_bigint_be).
LEMMA RankType ==
    ASSUME leaf \in Leaves, NEW o \in 0 .. Size, Uvarint(leaf.stream, o) # None
    PROVE  FromBytes(RankBytes(leaf.stream, Uvarint(leaf.stream, o))) \in Nat
BY FromBytesAssumption DEF Size

\* A label takes one to eight bits, whatever the number of classes.
LEMMA BitWidthType == \A m \in Int : BitWidth(m) \in 1 .. 8
<1> SUFFICES ASSUME NEW m \in Int, m > 2 PROVE BitWidth(m) \in 1 .. 8
  BY DEF BitWidth
<1> DEFINE W == {w \in 0 .. 7 : Pow2(w) < m}
<1>1. IsFiniteSet(0 .. 7) /\ Cardinality(0 .. 7) = 8
  <2>1. 0 \in Int /\ 7 \in Int
    OBVIOUS
  <2>2. IsFiniteSet(0 .. 7) /\ Cardinality(0 .. 7) = IF 0 > 7 THEN 0 ELSE 7 - 0 + 1
    BY <2>1, FS_Interval, Zenon
  <2>3. ~(0 > 7) /\ 7 - 0 + 1 = 8
    OBVIOUS
  <2> QED BY <2>2, <2>3, Zenon
<1>2. W \in SUBSET (0 .. 7) /\ 0 \in W
  BY DEF Pow2
<1>3. IsFiniteSet(W) /\ Cardinality(W) \in Nat /\ Cardinality(W) <= 8
  BY <1>1, <1>2, FS_Subset, FS_CardinalityType
<1>4. Cardinality(W) # 0
  BY <1>2, <1>3, FS_EmptySet
<1>5. BitWidth(m) = Cardinality(W)
  BY DEF BitWidth
<1> HIDE DEF W
<1> QED BY <1>3, <1>4, <1>5

\* Powers up to that of a byte are positive.
LEMMA Pow2Type == \A w \in 0 .. 8 : Pow2(w) \in Nat \ {0}
BY DEF Pow2

\* The number of classes comes from a byte.
LEMMA ClassCountType == leaf \in Leaves => NClasses \in Int
<1>1. leaf \in Leaves => leaf.n_classes \in 0 .. 255
  BY LeafAssumption, Zenon
<1> QED BY <1>1 DEF NClasses

\* The classes of a leaf are a range of integers.
LEMMA ClassTypes ==
    leaf \in Leaves => LowestClass \in Int /\ HighestClass \in Int
BY ClassCountType DEF LowestClass, HighestClass

\* Labels of a leaf take one to eight bits, conditional or not.
LEMMA BitsPerLabelType == leaf \in Leaves => BitsPerLabel \in 1 .. 8
<1> SUFFICES ASSUME leaf \in Leaves PROVE BitsPerLabel \in 1 .. 8
  OBVIOUS
<1>1. NumRemaining \in Int
  BY ClassTypes DEF NumRemaining
<1>2. NClasses \in Int
  BY ClassCountType
<1> QED BY <1>1, <1>2, BitWidthType DEF BitsPerLabel

\* Quotients and remainders of naturals are naturals.
LEMMA DivType == \A a \in Nat : \A b \in Nat \ {0} : a \div b \in Nat /\ a % b \in Nat
OBVIOUS

\* The bits of a code are a natural (_extract_bits).
LEMMA CodeType ==
    ASSUME leaf \in Leaves, NEW pos \in Nat, NEW width \in 1 .. 8,
           BitsPresent(pos, width)
    PROVE  ExtractBits(pos, width) \in Nat
<1> DEFINE b == pos \div 8
<1>1. b \in Nat /\ pos % 8 \in 0 .. 7
  OBVIOUS
<1>2. Window(b) \in Nat
  <2>1. Size \in Nat
    BY SizeType
  <2>2. b <= (pos + width - 1) \div 8
    OBVIOUS
  <2>3. b \in 0 .. Size - 1
    BY <1>1, <2>1, <2>2 DEF BitsPresent
  <2>4. Byte(b) \in 0 .. 255
    BY <2>3, ByteType
  <2>5. b + 1 < Size => Byte(b + 1) \in 0 .. 255
    <3>1. b + 1 < Size => b + 1 \in 0 .. Size - 1
      BY <1>1, <2>1
    <3> QED BY <3>1, ByteType
  <2>6. 256 * Byte(b + 1) \in Nat \/ ~(b + 1 < Size)
    BY <2>5
  <2> HIDE DEF b
  <2> QED BY <2>4, <2>6 DEF Window
<1> HIDE DEF b
<1>3. Pow2(pos % 8) \in Nat \ {0} /\ Pow2(width) \in Nat \ {0}
  BY <1>1, Pow2Type
<1>4. Window(b) \div Pow2(pos % 8) \in Nat
  BY <1>2, <1>3, DivType
<1>5. (Window(b) \div Pow2(pos % 8)) % Pow2(width) \in Nat
  BY <1>3, <1>4, DivType
<1> QED BY <1>5 DEF ExtractBits, b

\* A code in range is a class, and not the prediction where labels are conditional.
LEMMA LabelType ==
    ASSUME leaf \in Leaves, NEW code \in Nat, Conditional => code < NumRemaining
    PROVE  /\ LabelOf(code) \in Int
           /\ Conditional => LabelOf(code) # leaf.prediction
<1>1. leaf.prediction \in Int \cup {None}
  BY LeafAssumption
<1>2. CASE Conditional
  <2>1. leaf.prediction \in Int
    BY <1>1, <1>2 DEF Conditional
  <2> QED
    BY <1>2, <2>1, ClassTypes
    DEF LabelOf, Remaining, NumRemaining, Excludes, AllClasses
<1>3. CASE ~Conditional
  BY <1>3 DEF LabelOf
<1> QED BY <1>2, <1>3

(* What Append and concatenation do, in the form the steps below need.     *)
LEMMA AppendFacts ==
    ASSUME NEW S, NEW s \in Seq(S), NEW x \in S
    PROVE  /\ Append(s, x) \in Seq(S)
           /\ Len(Append(s, x)) = Len(s) + 1
           /\ Append(s, x)[Len(s) + 1] = x
           /\ \A i \in 1 .. Len(s) : Append(s, x)[i] = s[i]
OBVIOUS

\* A sequence with an element put before it.
LEMMA PrependFacts ==
    ASSUME NEW S, NEW s \in Seq(S), NEW x \in S
    PROVE  /\ <<x>> \o s \in Seq(S)
           /\ Len(<<x>> \o s) = Len(s) + 1
           /\ (<<x>> \o s)[1] = x
           /\ \A i \in 2 .. Len(s) + 1 : (<<x>> \o s)[i] = s[i - 1]
OBVIOUS

\* A function on 1 .. n is a sequence.
LEMMA FunctionIsSeq ==
    ASSUME NEW S, NEW n \in Nat, NEW f \in [1 .. n -> S]
    PROVE  f \in Seq(S) /\ Len(f) = n
OBVIOUS

\* Two sequences, one after the other.
LEMMA ConcatFacts ==
    ASSUME NEW S, NEW s \in Seq(S), NEW t \in Seq(S)
    PROVE  /\ s \o t \in Seq(S)
           /\ Len(s \o t) = Len(s) + Len(t)
           /\ \A i \in 1 .. Len(s) : (s \o t)[i] = s[i]
           /\ \A i \in (Len(s) + 1) .. (Len(s) + Len(t)) :
                  (s \o t)[i] = t[i - Len(s)]
OBVIOUS

\* Nothing appended changes nothing.
LEMMA ConcatEmpty ==
    ASSUME NEW S, NEW s \in Seq(S), NEW t \in Seq(S), Len(t) = 0
    PROVE  s \o t = s
<1>1. t = <<>>
  OBVIOUS
<1> QED BY <1>1

(* An ascending sequence stays one when a larger element is appended or a  *)
(* smaller one put in front: the two ways index decoders build their list. *)
LEMMA AscendingAppend ==
    ASSUME NEW s \in Seq(Int), NEW x \in Int, Ascending(s),
           s # <<>> => s[Len(s)] < x
    PROVE  Ascending(Append(s, x))
<1>1. \A i \in 1 .. Len(s) : s[i] < x
  BY DEF Ascending
<1> QED BY <1>1, AppendFacts DEF Ascending

\* An index below all others may go first (unrank_subset fills from the top).
LEMMA AscendingPrepend ==
    ASSUME NEW s \in Seq(Int), NEW x \in Int, Ascending(s),
           s # <<>> => x < s[1]
    PROVE  Ascending(<<x>> \o s)
<1>1. \A i \in 1 .. Len(s) : x < s[i]
  BY DEF Ascending
<1> DEFINE t == <<x>> \o s
<1>2. /\ Len(t) = Len(s) + 1
      /\ t[1] = x
      /\ \A i \in 2 .. Len(s) + 1 : t[i] = s[i - 1]
  BY PrependFacts
<1> HIDE DEF t
<1>3. ASSUME NEW i \in 1 .. Len(t), NEW j \in 1 .. Len(t), i < j
      PROVE  t[i] < t[j]
  <2>1. j \in 2 .. Len(s) + 1 /\ t[j] = s[j - 1] /\ j - 1 \in 1 .. Len(s)
    BY <1>2, <1>3
  <2>2. CASE i = 1
    BY <1>1, <1>2, <2>1, <2>2
  <2>3. CASE i # 1
    <3>1. t[i] = s[i - 1] /\ i - 1 \in 1 .. Len(s) /\ i - 1 < j - 1
      BY <1>2, <1>3, <2>3
    <3> QED BY <2>1, <3>1 DEF Ascending
  <2> QED BY <2>2, <2>3
<1> QED BY <1>3 DEF Ascending, t

-----------------------------------------------------------------------------
(* Steps that leave part of the state alone *)

\* A step that leaves the list alone keeps what is known of it.
LEMMA SameList ==
    ASSUME ListInv, UNCHANGED <<leaf, block_id, results>>
    PROVE  ListInv'
BY DEF ListInv, BlocksInOrder, CorrectionsDiffer, Conditional,
       CorrectionsInLeaf, Ascending

(* A step that adds legal entries for the next blocks to the list.         *)
LabelsOf(entry) == {entry.data.labels[j] : j \in 1 .. Len(entry.data.labels)}

\* A list that grows by legal entries stays legal.
LEMMA LongerList ==
    ASSUME leaf \in Leaves, ListInv, UNCHANGED leaf, Len(results') = block_id',
           \A i \in 1 .. Len(results') :
               \/ i \in 1 .. Len(results) /\ results'[i] = results[i]
               \/ /\ results'[i].bid = i - 1
                  /\ results'[i].data # None =>
                         /\ i - 1 < leaf.num_blocks
                         /\ Ascending(results'[i].data.indices)
                         /\ Conditional => leaf.prediction \notin LabelsOf(results'[i])
    PROVE  ListInv'
<1>1. ASSUME NEW i \in 1 .. Len(results')
      PROVE  /\ results'[i].bid = i - 1
             /\ results'[i].data # None =>
                    /\ Ascending(results'[i].data.indices)
                    /\ Conditional => leaf.prediction \notin LabelsOf(results'[i])
             /\ results'[i].bid >= leaf.num_blocks => results'[i].data = None
  <2>1. CASE i \in 1 .. Len(results) /\ results'[i] = results[i]
    <3>1. /\ results[i].bid = i - 1
          /\ results[i].data # None =>
                 /\ Ascending(results[i].data.indices)
                 /\ Conditional => leaf.prediction \notin LabelsOf(results[i])
          /\ results[i].bid >= leaf.num_blocks => results[i].data = None
      BY <2>1 DEF ListInv, BlocksInOrder, CorrectionsDiffer, CorrectionsInLeaf,
                  LabelsOf
    <3> QED BY <2>1, <3>1
  <2>2. CASE ~(i \in 1 .. Len(results) /\ results'[i] = results[i])
    <3>1. leaf.num_blocks \in Nat
      BY LeafAssumption
    <3> QED BY <2>2, <3>1
  <2> QED BY <2>1, <2>2
<1>2. BlocksInOrder'
  BY <1>1 DEF BlocksInOrder
<1>3. CorrectionsDiffer'
  BY <1>1 DEF CorrectionsDiffer, Conditional, LabelsOf
<1>4. CorrectionsInLeaf'
  BY <1>1 DEF CorrectionsInLeaf
<1>5. (\A i \in 1 .. Len(results) :
           results[i].data # None => Ascending(results[i].data.indices))'
  BY <1>1 DEF Ascending
<1> QED BY <1>2, <1>3, <1>4, <1>5 DEF ListInv

\* A step that leaves the labels alone keeps what is known of them.
LEMMA SameLabels ==
    ASSUME PendingLabels, UNCHANGED <<leaf, labels>>
    PROVE  PendingLabels'
BY DEF PendingLabels, Conditional

\* A step that moves on without touching the block under construction
LEMMA SameBlock ==
    ASSUME IInv, leaf \in Leaves, UNCHANGED <<leaf, block>>,
           pc' \notin {"delta", "enum", "unrank", "bitmap", "labels"}
    PROVE  Control' /\ Candidates' /\ SubsetInv' /\ PendingLabels'
<1>1. PendingLabels'
  BY SameLabels DEF IInv, block
<1>2. SubsetInv'
  BY DEF IInv, SubsetInv, Ascending, IndicesInBlock, CountsAgree, block,
         DELTA_GAPS, ENUM_RANK
<1>3. Control' /\ Candidates'
  BY DEF Control, Candidates, InBlock
<1> QED BY <1>1, <1>2, <1>3

\* An exception keeps the list as it is.
LEMMA FailStep ==
    ASSUME IInv, leaf \in Leaves, Fail
    PROVE  leaf' \in Leaves /\ IInv'
<1>1. /\ pc' = "error"
      /\ UNCHANGED <<leaf, offset, block_id, results, block>>
  BY DEF Fail
<1>2. TypeOK'
  BY <1>1 DEF IInv, TypeOK, block
<1>3. ListInv'
  BY <1>1, SameList DEF IInv
<1> QED BY <1>1, <1>2, <1>3, SameBlock DEF IInv

-----------------------------------------------------------------------------
(* Each action preserves the invariant *)

\* A call starts with nothing read.
LEMMA InitInv == Init => leaf \in Leaves /\ IInv
<1> SUFFICES ASSUME Init PROVE leaf \in Leaves /\ IInv
  OBVIOUS
<1>1. TypeOK
  BY DEF Init, TypeOK, DELTA_GAPS, RESERVED
<1>2. Control /\ Candidates /\ PendingLabels
  BY DEF Init, Control, Candidates, InBlock, PendingLabels
<1>3. ListInv
  BY DEF Init, ListInv, BlocksInOrder, CorrectionsDiffer, CorrectionsInLeaf
<1>4. SubsetInv
  BY DEF Init, SubsetInv, Ascending, IndicesInBlock, CountsAgree, DELTA_GAPS
<1> QED BY <1>1, <1>2, <1>3, <1>4 DEF Init, IInv

\* The call returns.
LEMMA ReturnStep ==
    ASSUME IInv, leaf \in Leaves, Return
    PROVE  leaf' \in Leaves /\ IInv'
<1>1. /\ pc' = "done"
      /\ UNCHANGED <<leaf, offset, block_id, results, block>>
  BY DEF Return
<1>2. TypeOK'
  BY <1>1 DEF IInv, TypeOK, block
<1>3. ListInv'
  BY <1>1, SameList DEF IInv
<1> QED BY <1>1, <1>2, <1>3, SameBlock DEF IInv

\* A run of empty blocks (decode_empty_run).
LEMMA EmptyRunStep ==
    ASSUME IInv, leaf \in Leaves, EmptyRun
    PROVE  leaf' \in Leaves /\ IInv'
<1> DEFINE run == Uvarint(leaf.stream, offset + 1)
           blanks == EmptyEntries(run.value)
<1>1. CASE run = None
  BY <1>1, FailStep DEF EmptyRun
<1>2. CASE run # None
  <2>1. /\ results' = results \o blanks
        /\ block_id' = block_id + run.value
        /\ offset' = run.next
        /\ UNCHANGED <<leaf, pc, block>>
        /\ pc = "record" /\ offset < Size
    BY <1>2 DEF EmptyRun, AtRecord, MoreRecords
  <2>2. /\ offset \in Nat /\ block_id \in Nat /\ results \in Seq(BlockEntry)
        /\ Len(results) = block_id
    BY DEF IInv, TypeOK, ListInv, BlocksInOrder
  <2>3. run.value \in Nat /\ run.next \in Nat
    <3>1. offset + 1 \in 0 .. Size
      BY <2>1, <2>2, SizeType
    <3>2. run.value \in Nat /\ run.next \in (offset + 1 + 1) .. Size
      BY <1>2, <3>1, UvarintType
    <3> QED BY <2>2, <3>2, SizeType
  <2>4. /\ blanks \in Seq(BlockEntry)
        /\ Len(blanks) = run.value
        /\ \A i \in 1 .. run.value :
               blanks[i].bid = block_id + i - 1 /\ blanks[i].data = None
    <3>1. \A i \in 1 .. run.value :
              [bid |-> block_id + i - 1, data |-> None] \in BlockEntry
      BY <2>2, <2>3 DEF BlockEntry
    <3>2. blanks \in [1 .. run.value -> BlockEntry]
      BY <3>1 DEF EmptyEntries
    <3>3. blanks \in Seq(BlockEntry) /\ Len(blanks) = run.value
      BY ONLY <2>3, <3>2, FunctionIsSeq, Zenon
    <3>4. \A i \in 1 .. run.value :
              blanks[i].bid = block_id + i - 1 /\ blanks[i].data = None
      BY DEF EmptyEntries
    <3> QED BY <3>3, <3>4
  <2> HIDE DEF run, blanks
  <2>5. /\ results' \in Seq(BlockEntry)
        /\ Len(results') = block_id + run.value
        /\ \A i \in 1 .. block_id : results'[i] = results[i]
        /\ \A i \in (block_id + 1) .. (block_id + run.value) :
               results'[i] = blanks[i - block_id]
    <3>1. /\ results \o blanks \in Seq(BlockEntry)
          /\ Len(results \o blanks) = Len(results) + Len(blanks)
          /\ \A i \in 1 .. Len(results) : (results \o blanks)[i] = results[i]
          /\ \A i \in (Len(results) + 1) .. (Len(results) + Len(blanks)) :
                 (results \o blanks)[i] = blanks[i - Len(results)]
      BY <2>2, <2>4, ConcatFacts
    <3> QED BY <2>1, <2>2, <2>4, <3>1
  <2>6. ASSUME NEW i \in (block_id + 1) .. (block_id + run.value)
        PROVE  results'[i].bid = i - 1 /\ results'[i].data = None
    <3>1. i - block_id \in 1 .. run.value /\ block_id + (i - block_id) - 1 = i - 1
      BY <2>2, <2>3
    <3>2. /\ results'[i] = blanks[i - block_id]
          /\ blanks[i - block_id].bid = block_id + (i - block_id) - 1
          /\ blanks[i - block_id].data = None
      BY <2>4, <2>5, <3>1
    <3> QED BY <3>1, <3>2
  <2>7. \A i \in 1 .. Len(results') :
            \/ i \in 1 .. Len(results) /\ results'[i] = results[i]
            \/ results'[i].bid = i - 1 /\ results'[i].data = None
    BY <2>2, <2>3, <2>5, <2>6
  <2>8. TypeOK'
    BY SMTT(60), <2>1, <2>2, <2>3, <2>5 DEF IInv, TypeOK, block
  <2>9. ListInv'
    <3>1. \A i \in 1 .. Len(results') :
              \/ i \in 1 .. Len(results) /\ results'[i] = results[i]
              \/ /\ results'[i].bid = i - 1
                 /\ results'[i].data # None =>
                        /\ i - 1 < leaf.num_blocks
                        /\ Ascending(results'[i].data.indices)
                        /\ Conditional => leaf.prediction \notin LabelsOf(results'[i])
      BY <2>7, Zenon
    <3>2. Len(results') = block_id' /\ ListInv
      BY <2>1, <2>5 DEF IInv
    <3> QED BY <2>1, <3>1, <3>2, LongerList
  <2> QED BY <2>1, <2>8, <2>9, SameBlock DEF IInv
<1> QED BY <1>1, <1>2

\* The header of a block opens the loop of its encoding.
LEMMA BlockHeaderStep ==
    ASSUME IInv, leaf \in Leaves, BlockHeader
    PROVE  leaf' \in Leaves /\ IInv'
<1> DEFINE count == Uvarint(leaf.stream, offset + 1)
           enc == (Header \div 4) % 4
<1>1. CASE count = None
  BY <1>1, FailStep DEF BlockHeader
<1>2. CASE count # None
  <2>1. /\ n_b' = BlockPositions
        /\ encoding' = enc
        /\ k' = count.value
        /\ offset' = count.next
        /\ indices' = <<>> /\ labels' = <<>> /\ bit' = 0
        /\ pc' = IndexLoop(enc)
        /\ UNCHANGED <<leaf, block_id, results, rank>>
        /\ offset < Size /\ block_id < leaf.num_blocks
    BY <1>2 DEF BlockHeader, AtRecord, MoreRecords
  <2>2. offset \in Nat /\ block_id \in Nat
    BY DEF IInv, TypeOK
  <2>3. count.value \in Nat /\ count.next \in 0 .. Size /\ count.next \in Nat
    <3>1. offset + 1 \in 0 .. Size
      BY <2>1, <2>2, SizeType
    <3>2. count.value \in Nat /\ count.next \in (offset + 1 + 1) .. Size
      BY <1>2, <3>1, UvarintType
    <3> QED BY <2>2, <3>2, SizeType
  <2>4. enc \in 0 .. 3
    <3>1. offset \in 0 .. Size - 1
      BY <2>1, <2>2, SizeType
    <3>2. Header \in 0 .. 255
      BY <3>1, ByteType DEF Header
    <3> QED BY <3>2
  <2>5. BlockPositions \in 0 .. (BlockSize + leaf.n_leaf) /\ BlockPositions \in Nat
    BY <2>1, <2>2, PositionsType
  <2> HIDE DEF count, enc
  <2>6. \/ enc = DELTA_GAPS /\ pc' = "delta"
        \/ enc = ENUM_RANK /\ pc' = "enum"
        \/ enc \notin {DELTA_GAPS, ENUM_RANK} /\ pc' = "bitmap"
    BY <2>1, <2>4 DEF IndexLoop, DELTA_GAPS, ENUM_RANK
  <2>7. TypeOK'
    BY <2>1, <2>2, <2>3, <2>4, <2>5, <2>6 DEF IInv, TypeOK, DELTA_GAPS, RESERVED
  <2>8. Control'
    BY <2>1, <2>3, <2>4, <2>5, <2>6 DEF Control, InBlock, BlockSize, Size, DELTA_GAPS, ENUM_RANK
  <2>9. Candidates' /\ PendingLabels'
    BY <2>1, <2>6 DEF Candidates, PendingLabels
  <2>10. SubsetInv'
    BY <2>1, <2>6 DEF SubsetInv, Ascending, IndicesInBlock, CountsAgree
  <2>11. ListInv'
    BY <2>1, SameList DEF IInv
  <2> QED BY <2>1, <2>7, <2>8, <2>9, <2>10, <2>11 DEF IInv
<1> QED BY <1>1, <1>2

\* A gap puts the next index above the last (decode_delta_gaps).
LEMMA DeltaGapStep ==
    ASSUME IInv, leaf \in Leaves, DeltaGap
    PROVE  leaf' \in Leaves /\ IInv'
<1> DEFINE gap == Uvarint(leaf.stream, offset)
           next == IndexAfterGap(gap.value)
<1>1. CASE gap = None
  BY <1>1, FailStep DEF DeltaGap
<1>2. CASE gap # None
  <2>1. /\ pc = "delta" /\ Len(indices) < k
        /\ indices' = Append(indices, next)
        /\ offset' = gap.next
        /\ UNCHANGED <<leaf, pc, block_id, results, n_b, encoding, k, labels,
                       rank, bit>>
    BY <1>2 DEF DeltaGap
  <2>2. /\ offset \in 0 .. Size /\ offset \in Nat
        /\ indices \in Seq(Int) /\ Ascending(indices) /\ k \in Nat
        /\ encoding = DELTA_GAPS
    BY <2>1, SizeType DEF IInv, TypeOK, Control, SubsetInv
  <2>3. gap.value \in Nat /\ gap.next \in 0 .. Size /\ gap.next \in Nat
    <3>1. gap.value \in Nat /\ gap.next \in (offset + 1) .. Size
      BY <1>2, <2>2, UvarintType
    <3> QED BY <2>2, <3>1, SizeType
  <2>4. next \in Int /\ (indices # <<>> => indices[Len(indices)] < next)
    BY <2>2, <2>3 DEF IndexAfterGap
  <2> HIDE DEF gap, next
  <2>5. indices' \in Seq(Int) /\ Len(indices') = Len(indices) + 1
    BY <2>1, <2>2, <2>4, AppendFacts
  <2>6. Ascending(indices')
    BY <2>1, <2>2, <2>4, AscendingAppend
  <2>7. TypeOK'
    BY <2>1, <2>3, <2>5 DEF IInv, TypeOK
  <2>8. Control'
    BY <2>1, <2>2, <2>3, <2>5 DEF IInv, Control, InBlock, BlockSize, Size
  <2>9. Candidates'
    BY <2>1 DEF Candidates
  <2>10. SubsetInv'
    BY <2>1, <2>2, <2>6 DEF SubsetInv, Ascending, IndicesInBlock, CountsAgree
  <2>11. ListInv' /\ PendingLabels'
    BY <2>1, SameList, SameLabels DEF IInv
  <2> QED BY <2>1, <2>7, <2>8, <2>9, <2>10, <2>11 DEF IInv
<1> QED BY <1>1, <1>2

\* A rank opens the search for its subset (decode_enum_rank).
LEMMA EnumRankStep ==
    ASSUME IInv, leaf \in Leaves, EnumRank
    PROVE  leaf' \in Leaves /\ IInv'
<1> DEFINE rank_len == Uvarint(leaf.stream, offset)
<1>1. /\ pc = "enum" /\ k > 0 /\ k \in Nat /\ n_b \in Nat
      /\ offset \in 0 .. Size /\ offset \in Nat
      /\ indices = <<>> /\ encoding = ENUM_RANK
  BY SizeType DEF EnumRank, IInv, TypeOK, Control
<1>2. CASE rank_len = None
  BY <1>2, FailStep DEF EnumRank
<1>3. CASE rank_len # None
  <2>1. rank_len.value \in Nat /\ rank_len.next \in Nat
    <3>1. rank_len.value \in Nat /\ rank_len.next \in (offset + 1) .. Size
      BY <1>1, <1>3, UvarintType
    <3> QED BY <1>1, <3>1, SizeType
  <2>2. FromBytes(RankBytes(leaf.stream, rank_len)) \in Nat
    BY <1>1, <1>3, RankType
  <2>3. CASE rank_len.value = 0
    <3>1. /\ indices' = [i \in 1 .. k |-> i - 1]
          /\ offset' = rank_len.next
          /\ pc' = "labels"
          /\ UNCHANGED <<leaf, block_id, results, n_b, encoding, k, labels,
                         rank, bit>>
      BY <1>3, <2>1, <2>3 DEF EnumRank, FirstSubset
    <3>2. indices' \in Seq(Int) /\ Len(indices') = k
      <4>1. indices' \in [1 .. k -> Int]
        BY <1>1, <3>1
      <4> QED BY <1>1, <4>1, FunctionIsSeq
    <3>3. \A i \in 1 .. k : indices'[i] = i - 1
      BY <3>1
    <3> HIDE DEF rank_len
    <3>4. TypeOK'
      BY <2>1, <3>1, <3>2 DEF IInv, TypeOK
    <3>5. Control'
      BY <1>1, <3>1 DEF IInv, Control, InBlock, BlockSize, DELTA_GAPS, ENUM_RANK
    <3>6. Candidates'
      BY <3>1 DEF Candidates
    <3>7. SubsetInv'
      <4>1. Ascending(indices')
        BY <1>1, <3>2, <3>3 DEF Ascending
      <4>2. IndicesInBlock'
        BY <1>1, <3>1, <3>2, <3>3 DEF IndicesInBlock
      <4> QED
        BY <1>1, <3>1, <3>2, <4>1, <4>2 DEF SubsetInv, Ascending, CountsAgree
    <3>8. ListInv' /\ PendingLabels'
      BY <3>1, SameList, SameLabels DEF IInv
    <3> QED BY <3>1, <3>4, <3>5, <3>6, <3>7, <3>8 DEF IInv
  <2>4. CASE rank_len.value > 0
    <3>1. /\ rank' = FromBytes(RankBytes(leaf.stream, rank_len))
          /\ offset' = rank_len.next + rank_len.value
          /\ pc' = "unrank"
          /\ UNCHANGED <<leaf, block_id, results, n_b, encoding, k, indices,
                         labels, bit>>
      BY <1>3, <2>1, <2>4 DEF EnumRank
    <3> HIDE DEF rank_len
    <3>2. TypeOK'
      BY <2>1, <2>2, <3>1 DEF IInv, TypeOK
    <3>3. Control' /\ Candidates'
      BY <1>1, <3>1 DEF IInv, Control, Candidates, InBlock, BlockSize, DELTA_GAPS, ENUM_RANK
    <3>4. SubsetInv'
      BY <1>1, <3>1 DEF SubsetInv, Ascending, IndicesInBlock, CountsAgree
    <3>5. ListInv' /\ PendingLabels'
      BY <3>1, SameList, SameLabels DEF IInv
    <3> QED BY <3>1, <3>2, <3>3, <3>4, <3>5 DEF IInv
  <2> QED BY <2>1, <2>3, <2>4
<1> QED BY <1>2, <1>3

(* What unrank_subset finds for the largest element left: the largest      *)
(* index, if k fits the block, whose coefficient does not pass the rank.   *)
LEMMA NextElement ==
    ASSUME IInv, leaf \in Leaves, Unrank
    PROVE  LET j == k - Len(indices)
               i == FindLargestBinomLe(rank, j, j - 1, Upper)
           IN  /\ indices' = <<i>> \o indices
               /\ rank' = rank - Binom(i, j)
               /\ i \in Int /\ j \in Int /\ j >= 1 /\ Upper \in Int
               /\ k <= n_b => j - 1 <= Upper /\ Upper <= n_b - 1
               /\ k > n_b => j - 1 > Upper
               /\ k > n_b /\ indices # <<>> => indices[1] = j - 1
               /\ j - 1 > Upper => i = j - 2
               /\ j - 1 <= Upper => i \in (j - 1) .. Upper /\ Binom(i, j) <= rank
               /\ j - 1 <= Upper /\ i < Upper => Binom(i + 1, j) > rank
<1> DEFINE j == k - Len(indices)
           upper == Upper
           i == FindLargestBinomLe(rank, j, j - 1, upper)
<1>1. /\ pc = "unrank" /\ Len(indices) < k
      /\ indices' = <<i>> \o indices
      /\ rank' = rank - Binom(i, j)
      /\ UNCHANGED <<leaf, pc, offset, block_id, results, n_b, encoding, k,
                     labels, bit>>
  BY DEF Unrank
<1>2. /\ indices \in Seq(Int) /\ Len(indices) \in Nat /\ Ascending(indices)
      /\ k \in Nat /\ n_b \in Nat /\ rank \in Nat
      /\ n_b <= BlockSize + leaf.n_leaf
      /\ encoding = ENUM_RANK
      /\ k <= n_b => \A m \in 1 .. Len(indices) : indices[m] \in 0 .. n_b - 1
      /\ indices # <<>> => IF k <= n_b THEN indices[1] >= k - Len(indices)
                           ELSE indices[1] = k - Len(indices) - 1
  BY <1>1
  DEF IInv, TypeOK, Control, Candidates, SubsetInv, IndicesInBlock, InBlock,
      DELTA_GAPS, ENUM_RANK
<1>3. leaf.n_leaf \in Nat /\ BlockSize \in Nat
  BY LeafAssumption DEF BlockSize
<1>4. j \in Int /\ j >= 1 /\ upper \in Int
  <2>1. indices # <<>> => indices[1] \in Int
    BY <1>2
  <2> QED BY <1>1, <1>2, <2>1 DEF Upper
<1>5. /\ k <= n_b => j - 1 <= upper /\ upper <= n_b - 1
      /\ k > n_b => j - 1 > upper
      /\ k > n_b /\ indices # <<>> => indices[1] = j - 1
  <2>1. indices # <<>> => indices[1] \in Int /\ (k <= n_b => indices[1] <= n_b - 1)
    <3>1. indices # <<>> => 1 \in 1 .. Len(indices)
      BY <1>2
    <3> QED BY <1>2, <3>1
  <2>2. CASE indices = <<>>
    BY <1>2, <2>2 DEF Upper
  <2>3. CASE indices # <<>>
    BY SMTT(60), <1>1, <1>2, <2>1, <2>3 DEF Upper
  <2> QED BY <2>2, <2>3
<1> HIDE DEF j, upper
<1>6. \A x \in (j - 1) .. upper : Binom(x, j) \in Nat
  <2>1. ASSUME NEW x \in (j - 1) .. upper PROVE Binom(x, j) \in Nat
    <3>1. x \in Int /\ x <= BlockSize + leaf.n_leaf
      BY <1>2, <1>3, <1>4, <1>5
    <3> QED BY <1>4, <3>1, BinomType
  <2> QED BY <2>1
<1>7. /\ i \in Int
      /\ j - 1 > upper => i = j - 2
      /\ j - 1 <= upper => i \in (j - 2) .. upper
      /\ i >= j - 1 => Binom(i, j) <= rank
      /\ j - 1 <= upper /\ Binom(j - 1, j) <= rank => i >= j - 1
      /\ j - 1 <= upper /\ i < upper => Binom(i + 1, j) > rank
  <2> DEFINE lo == j - 1
  <2>1. lo \in Int /\ lo - 1 = j - 2 /\ lo = j - 1
    BY <1>4
  <2>2. \A x \in lo .. upper : Binom(x, j) \in Nat
    BY <1>6
  <2>3. i = FindLargestBinomLe(rank, j, lo, upper)
    OBVIOUS
  <2> HIDE DEF lo, i
  <2>4. /\ i \in Int
        /\ lo > upper => i = lo - 1
        /\ lo <= upper => i \in (lo - 1) .. upper
        /\ i >= lo => Binom(i, j) <= rank
        /\ lo <= upper /\ Binom(lo, j) <= rank => i >= lo
        /\ lo <= upper /\ i < upper => Binom(i + 1, j) > rank
    <3> DEFINE found == FindLargestBinomLe(rank, j, lo, upper)
    <3>1. /\ found \in Int
          /\ lo > upper => found = lo - 1
          /\ lo <= upper => found \in (lo - 1) .. upper
          /\ found >= lo => Binom(found, j) <= rank
          /\ lo <= upper /\ Binom(lo, j) <= rank => found >= lo
          /\ lo <= upper /\ found < upper => Binom(found + 1, j) > rank
      <4>1. rank \in Nat /\ j \in Int /\ lo \in Int /\ upper \in Int
        BY <1>2, <1>4, <2>1
      <4> HIDE DEF found
      <4> QED BY <2>2, <4>1, FindBounds DEF found
    <3> QED BY <2>3, <3>1
  <2> QED BY <2>1, <2>4
<1> HIDE DEF i
<1>8. j - 1 <= upper => i \in (j - 1) .. upper
  <2>1. Binom(j - 1, j) = 0
    BY <1>4 DEF Binom
  <2> QED BY <1>2, <1>4, <1>7, <2>1
<1> QED
  BY <1>1, <1>4, <1>5, <1>7, <1>8 DEF j, upper, i

(* The step of unrank_subset: the element found lies below those found     *)
(* before it and, if k fits the block, leaves room for those still to find.*)
LEMMA UnrankStep ==
    ASSUME IInv, leaf \in Leaves, Unrank
    PROVE  leaf' \in Leaves /\ IInv'
<1> DEFINE j == k - Len(indices)
           upper == Upper
           i == FindLargestBinomLe(rank, j, j - 1, upper)
<1>1. /\ pc = "unrank" /\ Len(indices) < k
      /\ indices' = <<i>> \o indices
      /\ rank' = rank - Binom(i, j)
      /\ UNCHANGED <<leaf, pc, offset, block_id, results, n_b, encoding, k,
                     labels, bit>>
  BY DEF Unrank
<1>2. /\ indices \in Seq(Int) /\ Len(indices) \in Nat /\ Ascending(indices)
      /\ k \in Nat /\ n_b \in Nat /\ rank \in Nat
      /\ n_b <= BlockSize + leaf.n_leaf
      /\ encoding = ENUM_RANK
      /\ k <= n_b => \A m \in 1 .. Len(indices) : indices[m] \in 0 .. n_b - 1
  BY <1>1
  DEF IInv, TypeOK, Control, SubsetInv, IndicesInBlock, InBlock,
      DELTA_GAPS, ENUM_RANK
<1>3. leaf.n_leaf \in Nat /\ BlockSize \in Nat
  BY LeafAssumption DEF BlockSize
<1>4. /\ i \in Int /\ j \in Int /\ j >= 1 /\ upper \in Int
      /\ k <= n_b => j - 1 <= upper /\ upper <= n_b - 1
      /\ k > n_b => j - 1 > upper
      /\ k > n_b /\ indices # <<>> => indices[1] = j - 1
      /\ j - 1 > upper => i = j - 2
      /\ j - 1 <= upper => i \in (j - 1) .. upper /\ Binom(i, j) <= rank
  BY NextElement
<1> HIDE DEF j, upper, i
<1>9. rank' \in Nat
  <2>1. CASE i >= j - 1
    <3>1. j - 1 <= upper /\ i <= BlockSize + leaf.n_leaf
      BY <1>2, <1>3, <1>4, <2>1
    <3>2. Binom(i, j) \in Nat
      BY <1>4, <3>1, BinomType
    <3> QED BY <1>1, <1>2, <1>4, <3>1, <3>2
  <2>2. CASE ~(i >= j - 1)
    <3>1. Binom(i, j) = 0
      BY <1>4, <2>2 DEF Binom
    <3> QED BY <1>1, <1>2, <3>1
  <2> QED BY <2>1, <2>2
<1>10. indices # <<>> => i < indices[1]
  <2>1. indices # <<>> => upper = indices[1] - 1
    BY DEF upper, Upper
  <2>2. indices # <<>> => indices[1] \in Int
    BY <1>2
  <2> QED BY <1>2, <1>4, <2>1, <2>2
<1>11. /\ indices' \in Seq(Int) /\ Len(indices') = Len(indices) + 1
       /\ indices'[1] = i
       /\ \A m \in 2 .. Len(indices) + 1 : indices'[m] = indices[m - 1]
  BY <1>1, <1>2, <1>4, PrependFacts
<1>12. TypeOK'
  BY <1>1, <1>9, <1>11 DEF IInv, TypeOK
<1>13. Control'
  BY <1>1, <1>2, <1>11 DEF IInv, Control, InBlock, BlockSize, DELTA_GAPS, ENUM_RANK
<1>14. Candidates'
  <2>1. j = k - Len(indices)
    BY DEF j
  <2>2. IF k <= n_b THEN i >= k - Len(indices') ELSE i = k - Len(indices') - 1
    BY <1>2, <1>4, <1>11, <2>1
  <2> QED BY <1>1, <1>11, <2>2 DEF Candidates
<1>15. SubsetInv'
  <2>1. Ascending(indices')
    BY <1>1, <1>2, <1>4, <1>10, AscendingPrepend
  <2>2. ASSUME k <= n_b, NEW m \in 1 .. Len(indices')
        PROVE  indices'[m] \in 0 .. n_b - 1
    <3>1. i \in 0 .. n_b - 1
      BY <1>2, <1>4, <2>2
    <3>2. CASE m = 1
      BY <1>11, <3>1, <3>2
    <3>3. CASE m # 1
      <4>1. m - 1 \in 1 .. Len(indices) /\ m \in 2 .. Len(indices) + 1
        BY <1>2, <1>11, <3>3
      <4> QED BY <1>2, <1>11, <2>2, <4>1
    <3> QED BY <3>2, <3>3
  <2>3. IndicesInBlock'
    BY <1>1, <1>2, <2>2 DEF IndicesInBlock
  <2> QED BY <1>1, <2>1, <2>3 DEF SubsetInv, Ascending, CountsAgree
<1>16. ListInv' /\ PendingLabels'
  BY <1>1, SameList, SameLabels DEF IInv
<1> QED BY <1>1, <1>12, <1>13, <1>14, <1>15, <1>16 DEF IInv

\* A bit of the map adds the next position or none (decode_bitmap).
LEMMA BitmapBitStep ==
    ASSUME IInv, leaf \in Leaves, BitmapBit
    PROVE  leaf' \in Leaves /\ IInv'
<1>1. /\ pc = "bitmap" /\ bit' = bit + 1
      /\ \/ indices' = Append(indices, bit) /\ bit < n_b
         \/ indices' = indices
      /\ UNCHANGED <<leaf, pc, offset, block_id, results, n_b, encoding, k,
                     labels, rank>>
  BY DEF BitmapBit, BitCounts
<1>2. /\ indices \in Seq(Int) /\ Len(indices) \in Nat /\ Ascending(indices)
      /\ bit \in Nat /\ n_b \in Nat
      /\ encoding \notin {DELTA_GAPS, ENUM_RANK}
      /\ \A m \in 1 .. Len(indices) : indices[m] \in 0 .. n_b - 1 /\ indices[m] < bit
  BY <1>1 DEF IInv, TypeOK, Control, Candidates, SubsetInv, IndicesInBlock
<1>3. /\ indices' \in Seq(Int)
      /\ Ascending(indices')
      /\ \A m \in 1 .. Len(indices') :
             indices'[m] \in 0 .. n_b - 1 /\ indices'[m] < bit'
  <2>1. CASE indices' = Append(indices, bit) /\ bit < n_b
    <3>1. bit \in Int /\ (indices # <<>> => indices[Len(indices)] < bit)
      BY <1>2
    <3>2. Ascending(indices')
      BY <1>2, <2>1, <3>1, AscendingAppend
    <3>3. /\ indices' \in Seq(Int) /\ Len(indices') = Len(indices) + 1
          /\ indices'[Len(indices) + 1] = bit
          /\ \A m \in 1 .. Len(indices) : indices'[m] = indices[m]
      BY <1>2, <2>1, <3>1, AppendFacts
    <3>4. ASSUME NEW m \in 1 .. Len(indices')
          PROVE  indices'[m] \in 0 .. n_b - 1 /\ indices'[m] < bit + 1
      <4>1. CASE m = Len(indices) + 1
        <5>1. indices'[m] = bit
          BY <3>3, <4>1
        <5>2. bit \in 0 .. n_b - 1 /\ bit < bit + 1
          BY <1>2, <2>1
        <5> QED BY <5>1, <5>2
      <4>2. CASE m # Len(indices) + 1
        <5>1. m \in 1 .. Len(indices)
          BY <1>2, <3>3, <4>2
        <5>2. indices'[m] = indices[m]
          BY <3>3, <5>1
        <5>3. indices[m] \in 0 .. n_b - 1 /\ indices[m] < bit
          BY <1>2, <5>1
        <5>4. indices[m] < bit + 1
          BY <1>2, <5>3
        <5> QED BY <5>2, <5>3, <5>4
      <4> QED BY <4>1, <4>2
    <3> QED BY <1>1, <3>2, <3>3, <3>4
  <2>2. CASE indices' = indices
    BY <1>1, <1>2, <2>2 DEF Ascending
  <2> QED BY <1>1, <2>1, <2>2
<1>4. TypeOK'
  BY <1>1, <1>2, <1>3 DEF IInv, TypeOK
<1>5. Control' /\ Candidates'
  BY <1>1, <1>2, <1>3 DEF IInv, Control, Candidates, InBlock, BlockSize
<1>6. SubsetInv'
  BY <1>1, <1>3 DEF SubsetInv, Ascending, IndicesInBlock, CountsAgree
<1>7. ListInv' /\ PendingLabels'
  BY <1>1, SameList, SameLabels DEF IInv
<1> QED BY <1>1, <1>4, <1>5, <1>6, <1>7 DEF IInv

\* Bits take a natural number of bytes.
LEMMA NumBytesType == \A b \in Nat : NumBytes(b) \in Nat
BY DEF NumBytes

\* Products of naturals are naturals.
LEMMA ProductType == \A a, b \in Nat : a * b \in Nat
OBVIOUS

\* With its indices read a block turns to its labels.
LEMMA IndicesReadStep ==
    ASSUME IInv, leaf \in Leaves, IndicesRead
    PROVE  leaf' \in Leaves /\ IInv'
<1>1. /\ \/ pc \in {"delta", "unrank"} /\ Len(indices) = k /\ offset' = offset
         \/ pc = "enum" /\ k = 0 /\ offset' = offset
         \/ pc = "bitmap" /\ offset' = offset + NumBytes(n_b)
      /\ pc' = "labels"
      /\ UNCHANGED <<leaf, block_id, results, n_b, encoding, k, indices, labels,
                     rank, bit>>
  BY DEF IndicesRead, block
<1>2. offset' \in Nat
  <2>1. offset \in Nat /\ NumBytes(n_b) \in Nat
    BY NumBytesType DEF IInv, TypeOK
  <2> QED BY <1>1, <2>1
<1>3. TypeOK'
  BY <1>1, <1>2 DEF IInv, TypeOK
<1>4. Control' /\ Candidates'
  BY <1>1 DEF IInv, Control, Candidates, InBlock, BlockSize
<1>5. encoding \in {DELTA_GAPS, ENUM_RANK} => Len(indices) = k
  BY <1>1 DEF IInv, Control
<1>6. SubsetInv'
  BY <1>1, <1>5 DEF IInv, SubsetInv, Ascending, IndicesInBlock, CountsAgree
<1>7. ListInv' /\ PendingLabels'
  BY <1>1, SameList, SameLabels DEF IInv
<1> QED BY <1>1, <1>3, <1>4, <1>6, <1>7 DEF IInv

\* A label joins the pending ones or ends the call (decode_labels_fixed).
LEMMA LabelStep ==
    ASSUME IInv, leaf \in Leaves, Label
    PROVE  leaf' \in Leaves /\ IInv'
<1> DEFINE pos == 8 * offset + Len(labels) * BitsPerLabel
           code == ExtractBits(pos, BitsPerLabel)
<1>1. CASE Fail
  BY <1>1, FailStep
<1>2. CASE ~Fail
  <2>1. /\ pc = "labels"
        /\ BitsPresent(pos, BitsPerLabel)
        /\ ~(Conditional /\ code >= NumRemaining)
        /\ labels' = Append(labels, LabelOf(code))
        /\ UNCHANGED <<leaf, pc, offset, block_id, results, n_b, encoding, k,
                       indices, rank, bit>>
    BY <1>2 DEF Label
  <2>2. offset \in Nat /\ labels \in Seq(Int) /\ Len(labels) \in Nat
    BY DEF IInv, TypeOK
  <2>3. pos \in Nat
    <3>1. Len(labels) * BitsPerLabel \in Nat
      BY <2>2, BitsPerLabelType, ProductType
    <3> QED BY <2>2, <3>1
  <2> HIDE DEF pos
  <2>4. code \in Nat
    BY <2>1, <2>3, BitsPerLabelType, CodeType
  <2>5. NumRemaining \in Int
    BY ClassTypes DEF NumRemaining
  <2> HIDE DEF code
  <2>6. LabelOf(code) \in Int /\ (Conditional => LabelOf(code) # leaf.prediction)
    BY <2>1, <2>4, <2>5, LabelType
  <2> DEFINE label == LabelOf(code)
  <2>7. label \in Int /\ labels' = Append(labels, label)
    BY <2>1, <2>6
  <2>8. Conditional => label # leaf.prediction
    BY <2>6
  <2> HIDE DEF label
  <2>9. /\ labels' \in Seq(Int) /\ Len(labels') = Len(labels) + 1
        /\ labels'[Len(labels) + 1] = label
        /\ \A m \in 1 .. Len(labels) : labels'[m] = labels[m]
    BY <2>2, <2>7, AppendFacts
  <2>10. PendingLabels'
    <3>1. SUFFICES ASSUME Conditional, NEW m \in 1 .. Len(labels')
                   PROVE  labels'[m] # leaf.prediction
      BY <2>1 DEF PendingLabels, Conditional
    <3>2. CASE m = Len(labels) + 1
      BY <2>8, <2>9, <3>1, <3>2
    <3>3. CASE m # Len(labels) + 1
      <4>1. m \in 1 .. Len(labels)
        BY <2>2, <2>9, <3>3
      <4> QED BY <2>9, <3>1, <4>1 DEF IInv, PendingLabels
    <3> QED BY <3>2, <3>3
  <2>11. TypeOK'
    BY <2>1, <2>9 DEF IInv, TypeOK
  <2>12. Control' /\ Candidates'
    BY <2>1 DEF IInv, Control, Candidates, InBlock, BlockSize
  <2>13. SubsetInv'
    BY <2>1 DEF IInv, SubsetInv, Ascending, IndicesInBlock, CountsAgree
  <2>14. ListInv'
    BY <2>1, SameList DEF IInv
  <2> QED BY <2>1, <2>10, <2>11, <2>12, <2>13, <2>14 DEF IInv
<1> QED BY <1>1, <1>2

\* A finished block joins the list.
LEMMA BlockReadStep ==
    ASSUME IInv, leaf \in Leaves, BlockRead
    PROVE  leaf' \in Leaves /\ IInv'
<1> DEFINE entry == [bid |-> block_id,
                     data |-> [indices |-> indices, labels |-> labels]]
<1>1. /\ pc = "labels" /\ Len(labels) = k
      /\ results' = Append(results, entry)
      /\ block_id' = block_id + 1
      /\ offset' = offset + NumBytes(k * BitsPerLabel)
      /\ pc' = "record"
      /\ UNCHANGED <<leaf, block>>
  BY DEF BlockRead
<1>2. /\ offset \in Nat /\ block_id \in Nat /\ k \in Nat
      /\ results \in Seq(BlockEntry) /\ Len(results) = block_id
      /\ indices \in Seq(Int) /\ labels \in Seq(Int)
      /\ block_id < leaf.num_blocks /\ Ascending(indices)
      /\ Conditional => \A m \in 1 .. Len(labels) : labels[m] # leaf.prediction
  BY <1>1 DEF IInv, TypeOK, Control, InBlock, ListInv, BlocksInOrder, SubsetInv,
              PendingLabels
<1>3. /\ entry \in BlockEntry /\ entry.bid = block_id
      /\ Ascending(entry.data.indices)
      /\ Conditional => leaf.prediction \notin LabelsOf(entry)
  <2>1. entry.data.indices = indices /\ entry.data.labels = labels
    OBVIOUS
  <2>2. entry \in BlockEntry /\ entry.bid = block_id
    BY <1>2 DEF BlockEntry
  <2> HIDE DEF entry
  <2> QED BY <1>2, <2>1, <2>2 DEF LabelsOf
<1>4. offset' \in Nat
  <2>1. k * BitsPerLabel \in Nat
    BY <1>2, BitsPerLabelType, ProductType
  <2>2. NumBytes(k * BitsPerLabel) \in Nat
    BY <2>1, NumBytesType
  <2> QED BY <1>1, <1>2, <2>2
<1> HIDE DEF entry
<1>5. /\ results' \in Seq(BlockEntry) /\ Len(results') = block_id'
      /\ results'[block_id + 1] = entry
      /\ \A i \in 1 .. block_id : results'[i] = results[i]
  <2>1. results \in Seq(BlockEntry) /\ entry \in BlockEntry
    BY <1>2, <1>3
  <2>2. /\ Append(results, entry) \in Seq(BlockEntry)
        /\ Len(Append(results, entry)) = Len(results) + 1
        /\ Append(results, entry)[Len(results) + 1] = entry
        /\ \A i \in 1 .. Len(results) : Append(results, entry)[i] = results[i]
    BY ONLY <2>1, AppendFacts
  <2>3. results' = Append(results, entry) /\ block_id' = block_id + 1
    BY <1>1
  <2>4. Len(results) = block_id
    BY <1>2
  <2>5. results' \in Seq(BlockEntry)
    BY ONLY <2>2, <2>3, Zenon
  <2>6. Len(results') = block_id'
    BY ONLY <2>2, <2>3, <2>4, Zenon
  <2>7. results'[block_id + 1] = entry
    BY ONLY <2>2, <2>3, <2>4, Zenon
  <2>8. \A i \in 1 .. block_id : results'[i] = results[i]
    BY ONLY <2>2, <2>3, <2>4, Zenon
  <2> QED BY <2>5, <2>6, <2>7, <2>8
<1>6. TypeOK'
  BY <1>1, <1>2, <1>4, <1>5 DEF IInv, TypeOK, block
<1>7. ListInv'
  <2>1. ASSUME NEW i \in 1 .. Len(results')
        PROVE  \/ i \in 1 .. Len(results) /\ results'[i] = results[i]
               \/ /\ results'[i].bid = i - 1
                  /\ results'[i].data # None =>
                         /\ i - 1 < leaf.num_blocks
                         /\ Ascending(results'[i].data.indices)
                         /\ Conditional => leaf.prediction \notin LabelsOf(results'[i])
    <3>1. CASE i = block_id + 1
      <4>1. results'[i] = entry /\ i - 1 = block_id
        BY <1>2, <1>5, <3>1
      <4> QED BY <1>2, <1>3, <4>1
    <3>2. CASE i # block_id + 1
      BY <1>1, <1>2, <1>5, <3>2
    <3> QED BY <3>1, <3>2
  <2> QED BY <1>1, <1>5, <2>1, LongerList DEF IInv
<1> QED BY <1>1, <1>6, <1>7, SameBlock DEF IInv

-----------------------------------------------------------------------------
(* The invariant holds, and with it the properties the runs check *)

\* Every step keeps the invariant.
LEMMA NextInv ==
    ASSUME IInv, leaf \in Leaves, [Next]_vars
    PROVE  leaf' \in Leaves /\ IInv'
<1>1. CASE Return
  BY <1>1, ReturnStep
<1>2. CASE UnknownRecord
  BY <1>2, FailStep DEF UnknownRecord
<1>3. CASE EmptyRun
  BY <1>3, EmptyRunStep
<1>4. CASE BlockHeader
  BY <1>4, BlockHeaderStep
<1>5. CASE DeltaGap
  BY <1>5, DeltaGapStep
<1>6. CASE EnumRank
  BY <1>6, EnumRankStep
<1>7. CASE Unrank
  BY <1>7, UnrankStep
<1>8. CASE BitmapBit
  BY <1>8, BitmapBitStep
<1>9. CASE IndicesRead
  BY <1>9, IndicesReadStep
<1>10. CASE Label
  BY <1>10, LabelStep
<1>11. CASE BlockRead
  BY <1>11, BlockReadStep
<1>12. CASE UNCHANGED vars
  <2>1. UNCHANGED <<leaf, pc, offset, block_id, results, n_b, encoding, k,
                    indices, labels, rank, bit>>
    BY <1>12 DEF vars, block
  <2>2. TypeOK'
    BY <2>1 DEF IInv, TypeOK
  <2>3. Control' /\ Candidates'
    BY <2>1 DEF IInv, Control, Candidates, InBlock, BlockSize, Size
  <2>4. SubsetInv'
    BY <2>1 DEF IInv, SubsetInv, Ascending, IndicesInBlock, CountsAgree
  <2>5. ListInv' /\ PendingLabels'
    BY <2>1, SameList, SameLabels DEF IInv
  <2> QED BY <2>1, <2>2, <2>3, <2>4, <2>5 DEF IInv
<1> QED
  BY <1>1, <1>2, <1>3, <1>4, <1>5, <1>6, <1>7, <1>8, <1>9, <1>10, <1>11, <1>12
  DEF Next, Step, Terminating

(* Type correctness and the inductive invariant of the decoder.            *)
THEOREM InductiveInvariant == Spec => []IInv
<1>1. Init => leaf \in Leaves /\ IInv
  BY InitInv
<1>2. (leaf \in Leaves /\ IInv) /\ [Next]_vars => (leaf \in Leaves /\ IInv)'
  BY NextInv
<1> QED BY <1>1, <1>2, PTL DEF Spec

(* Every variable of the decoder keeps its type: positions are integers and *)
(* counts and ranks never turn negative, whatever the stream.               *)
THEOREM Types == Spec => []TypeOK
<1>1. IInv => TypeOK
  BY DEF IInv
<1> QED BY <1>1, InductiveInvariant, PTL

(* Blocks are numbered 0, 1, 2, ... in the list, whatever the stream.      *)
THEOREM InOrder == Spec => []BlocksInOrder
<1>1. IInv => BlocksInOrder
  BY DEF IInv, ListInv
<1> QED BY <1>1, InductiveInvariant, PTL

(* Indices are sorted and unique in every block, whatever the stream.      *)
THEOREM SortedAndUnique == Spec => []AscendingIndices
<1>1. IInv => AscendingIndices
  BY DEF IInv, ListInv, SubsetInv, AscendingIndices
<1> QED BY <1>1, InductiveInvariant, PTL

(* Ranks and bitmaps name positions of their block only, whatever the      *)
(* stream: the search of unrank_subset never leaves [0, n_b) when k fits.  *)
THEOREM InsideBlock == Spec => []IndicesInBlock
<1>1. IInv => IndicesInBlock
  BY DEF IInv, SubsetInv
<1> QED BY <1>1, InductiveInvariant, PTL

(* Gap lists and ranks give as many indices as there are labels to read.   *)
THEOREM IndexPerLabel == Spec => []CountsAgree
<1>1. IInv => CountsAgree
  BY DEF IInv, SubsetInv
<1> QED BY <1>1, InductiveInvariant, PTL

(* A conditional label differs from the prediction, whatever the stream.   *)
THEOREM RealCorrections == Spec => []CorrectionsDiffer
<1>1. IInv => CorrectionsDiffer
  BY DEF IInv, ListInv
<1> QED BY <1>1, InductiveInvariant, PTL

(* No correction is filed under a block past the leaf's last.              *)
THEOREM InsideLeaf == Spec => []CorrectionsInLeaf
<1>1. IInv => CorrectionsInLeaf
  BY DEF IInv, ListInv
<1> QED BY <1>1, InductiveInvariant, PTL

(* What the readers of residual files assume of decode_record_stream, it    *)
(* does: at every moment the list is one of blocks in order with sorted and *)
(* unique indices, and so it is when the call returns (Delivered).          *)
THEOREM GivesBlockList == Spec => []IsBlockList(results)
<1>1. IInv => IsBlockList(results)
  BY DEF IInv, TypeOK, ListInv, BlocksInOrder, IsBlockList
<1> QED BY <1>1, InductiveInvariant, PTL

-----------------------------------------------------------------------------
(* Labels and codes *)

\* The codes of BitsPerLabel bits that decode to a label
CodesOf(label) ==
    {code \in 0 .. Pow2(BitsPerLabel) - 1 :
        (Conditional => code < NumRemaining) /\ LabelOf(code) = label}

\* Each label that a correction can carry has one code, which is wide enough.
OneCodePerLabel ==
    \A label \in AllClasses \ {leaf.prediction} :
        \E code \in Nat : CodesOf(label) = {code}

\* Powers of two do not descend.
LEMMA Pow2Ascends == \A c \in 0 .. 8 : \A w \in 0 .. c : Pow2(w) <= Pow2(c)
<1> SUFFICES ASSUME NEW c \in 0 .. 8, NEW w \in 0 .. c PROVE Pow2(w) <= Pow2(c)
  OBVIOUS
<1>1. /\ Pow2(0) = 1 /\ Pow2(1) = 2 /\ Pow2(2) = 4 /\ Pow2(3) = 8 /\ Pow2(4) = 16
      /\ Pow2(5) = 32 /\ Pow2(6) = 64 /\ Pow2(7) = 128 /\ Pow2(8) = 256
  BY DEF Pow2
<1>2. c \in {0, 1, 2, 3, 4, 5, 6, 7, 8} /\ w \in {0, 1, 2, 3, 4, 5, 6, 7, 8}
  OBVIOUS
<1> QED BY <1>1, <1>2

\* As many bits as BitWidth says tell that many labels apart.
LEMMA BitWidthSuffices == \A m \in 0 .. 256 : m <= Pow2(BitWidth(m))
<1> SUFFICES ASSUME NEW m \in 0 .. 256 PROVE m <= Pow2(BitWidth(m))
  OBVIOUS
<1> DEFINE W == {w \in 0 .. 7 : Pow2(w) < m}
           c == Cardinality(W)
<1>1. CASE m <= 2
  <2>1. BitWidth(m) = 1 /\ Pow2(1) = 2
    BY <1>1 DEF BitWidth, Pow2
  <2> QED BY <1>1, <2>1
<1>2. CASE m > 2
  <2>1. BitWidth(m) = c /\ c \in 1 .. 8
    <3>1. BitWidth(m) = c
      BY <1>2 DEF BitWidth
    <3>2. BitWidth(m) \in 1 .. 8
      BY BitWidthType
    <3> QED BY <3>1, <3>2
  <2>2. Pow2(8) = 256
    BY DEF Pow2
  <2>3. ASSUME Pow2(c) < m PROVE FALSE
    <3>1. c \in 0 .. 7 /\ c \in 0 .. 8
      <4>1. c # 8
        BY <2>2, <2>3
      <4> HIDE DEF c
      <4> QED BY <2>1, <4>1
    <3>2. ASSUME NEW w \in 0 .. c PROVE w \in W
      <4>1. Pow2(w) <= Pow2(c)
        BY <3>1, Pow2Ascends
      <4>2. w \in 0 .. 7 /\ w \in 0 .. 8
        <5> HIDE DEF c
        <5> QED BY <3>1
      <4>3. Pow2(w) \in Nat /\ Pow2(c) \in Nat
        BY <3>1, <4>2, Pow2Type
      <4>4. Pow2(w) < m
        <5> HIDE DEF c
        <5> QED BY <2>3, <4>1, <4>3
      <4> QED BY <4>2, <4>4
    <3> DEFINE I == 0 .. c
    <3>3. IsFiniteSet(I) /\ Cardinality(I) = c + 1
      <4>1. c \in Int /\ 0 \in Int /\ ~(0 > c) /\ c - 0 + 1 = c + 1
        <5> HIDE DEF c
        <5> QED BY <3>1
      <4>2. IsFiniteSet(0 .. c) /\ Cardinality(0 .. c) = IF 0 > c THEN 0 ELSE c - 0 + 1
        BY <4>1, FS_Interval, Zenon
      <4> QED BY <4>1, <4>2, Zenon
    <3>4. I \subseteq W /\ W \subseteq 0 .. 7
      BY <3>2
    <3>5. IsFiniteSet(W)
      <4>1. IsFiniteSet(0 .. 7)
        <5>1. 0 \in Int /\ 7 \in Int
          OBVIOUS
        <5> QED BY <5>1, FS_Interval, Zenon
      <4> HIDE DEF W
      <4> QED BY <3>4, <4>1, FS_Subset
    <3> HIDE DEF I, W
    <3>6. Cardinality(I) <= c
      BY <3>4, <3>5, FS_Subset
    <3>7. c + 1 <= c
      BY <3>3, <3>6
    <3> HIDE DEF c
    <3> QED BY <2>1, <3>7
  <2>4. Pow2(c) \in Nat
    <3>1. c \in 0 .. 8
      <4> HIDE DEF c
      <4> QED BY <2>1
    <3> QED BY <3>1, Pow2Type
  <2> HIDE DEF c
  <2> QED BY <2>1, <2>3, <2>4
<1> QED BY <1>1, <1>2

(* The label decoder can be inverted, for every number of classes and every *)
(* prediction: a label has one code, and the bits of a label hold it.       *)
THEOREM LabelsHaveOneCode == Spec => []OneCodePerLabel
<1>1. leaf \in Leaves => OneCodePerLabel
  <2> SUFFICES ASSUME leaf \in Leaves,
                      NEW label \in AllClasses, label # leaf.prediction
               PROVE  \E code \in Nat : CodesOf(label) = {code}
    BY DEF OneCodePerLabel
  <2>1. /\ NClasses \in 0 .. 255
        /\ leaf.prediction \in Int \cup {None}
        /\ LowestClass \in Int /\ HighestClass \in Int
        /\ LowestClass <= label /\ label <= HighestClass /\ label \in Int
    <3>1. leaf.n_classes \in 0 .. 255 /\ leaf.prediction \in Int \cup {None}
      BY LeafAssumption, Zenon
    <3>2. LowestClass \in Int /\ HighestClass \in Int
      BY ClassTypes
    <3> QED BY <3>1, <3>2 DEF NClasses, AllClasses
  <2> DEFINE width == HighestClass - LowestClass + 1
  <2>2. /\ width \in 1 .. 255 /\ width = HighestClass - LowestClass + 1
        /\ IsLegacy => width = 3 /\ LowestClass = -1
        /\ ~IsLegacy => width = NClasses /\ LowestClass = 0
    BY <2>1 DEF LowestClass, HighestClass, IsLegacy
  <2> HIDE DEF width
  <2>3. CASE ~Conditional
    <3> DEFINE code == label - LowestClass
    <3>1. code \in Nat /\ code < width
      BY <2>1, <2>2
    <3>2. \A c \in Nat : LabelOf(c) = LowestClass + c
      BY <2>2, <2>3 DEF LabelOf
    <3>3. width <= Pow2(BitsPerLabel) /\ Pow2(BitsPerLabel) \in Nat
      <4>1. CASE IsLegacy
        <5>1. BitsPerLabel = 2 /\ Pow2(2) = 4
          BY <2>3, <4>1 DEF BitsPerLabel, Pow2
        <5> QED BY <2>2, <4>1, <5>1
      <4>2. CASE ~IsLegacy
        <5>1. BitsPerLabel = BitWidth(width)
          BY <2>2, <2>3, <4>2 DEF BitsPerLabel
        <5>2. BitsPerLabel \in 0 .. 8
          BY BitsPerLabelType
        <5> QED BY <2>2, <5>1, <5>2, BitWidthSuffices, Pow2Type
      <4> QED BY <4>1, <4>2
    <3>4. CodesOf(label) = {c \in 0 .. Pow2(BitsPerLabel) - 1 : LowestClass + c = label}
      BY <2>3, <3>2, <3>3 DEF CodesOf
    <3>5. CodesOf(label) = {code}
      BY <2>1, <2>2, <3>1, <3>3, <3>4
    <3> QED BY <3>1, <3>5
  <2>4. CASE Conditional
    <3> DEFINE pred == leaf.prediction
               code == IF Excludes /\ label > pred THEN label - LowestClass - 1
                       ELSE label - LowestClass
    <3>1. pred \in Int /\ pred # label
      BY <2>1, <2>4 DEF Conditional
    <3>2. /\ Excludes => LowestClass <= pred /\ pred <= HighestClass
          /\ NumRemaining = width - (IF Excludes THEN 1 ELSE 0)
      BY <2>1, <2>2 DEF Excludes, AllClasses, NumRemaining
    <3>3. \A c \in Nat : LabelOf(c) = IF Excludes /\ LowestClass + c >= pred
                                      THEN LowestClass + c + 1 ELSE LowestClass + c
      BY <2>4 DEF LabelOf, Remaining
    <3> HIDE DEF pred
    <3>4. NumRemaining \in 0 .. 255 /\ BitsPerLabel = BitWidth(NumRemaining)
      BY <2>2, <2>4, <3>2 DEF BitsPerLabel
    <3>5. NumRemaining <= Pow2(BitsPerLabel) /\ Pow2(BitsPerLabel) \in Nat
      <4>1. BitsPerLabel \in 0 .. 8
        BY BitsPerLabelType
      <4> QED BY <3>4, <4>1, BitWidthSuffices, Pow2Type
    <3>6. code \in Nat /\ code < NumRemaining
      BY <2>1, <2>2, <3>1, <3>2
    <3>7. LabelOf(code) = label
      BY <2>1, <2>2, <3>1, <3>2, <3>3, <3>6
    <3>8. ASSUME NEW c \in Nat, LabelOf(c) = label PROVE c = code
      BY <2>1, <2>2, <3>1, <3>2, <3>3, <3>8
    <3> HIDE DEF code
    <3>9. code \in CodesOf(label)
      <4>1. code \in 0 .. Pow2(BitsPerLabel) - 1
        BY <3>4, <3>5, <3>6
      <4> QED BY <3>6, <3>7, <4>1 DEF CodesOf
    <3>10. \A c \in CodesOf(label) : c = code
      <4>1. \A c \in CodesOf(label) : c \in Nat /\ LabelOf(c) = label
        BY <3>5 DEF CodesOf
      <4> QED BY <3>8, <4>1
    <3> QED BY <3>6, <3>9, <3>10
  <2> QED BY <2>3, <2>4
<1>2. Init => leaf \in Leaves /\ IInv
  BY InitInv
<1>3. (leaf \in Leaves /\ IInv) /\ [Next]_vars => (leaf \in Leaves /\ IInv)'
  BY NextInv
<1> QED BY <1>1, <1>2, <1>3, PTL DEF Spec

-----------------------------------------------------------------------------
(* Ranks and subsets: unrank_subset undoes rank_subset *)

\* s is what an encoder ranks, positions of the block in order, and R[m] is
\* the rank of the m smallest: the sum that rank_subset has after m turns.
IsRanking(s, R) ==
    /\ s \in Seq(0 .. n_b - 1)
    /\ Len(s) = k
    /\ Ascending(s)
    /\ R \in [0 .. k -> Nat]
    /\ R[0] = 0
    /\ \A m \in 1 .. k : R[m] = R[m - 1] + Binom(s[m], m)

\* The largest elements of s are found, and the rank left is that of the rest.
Remains(s, R) ==
    LET j == k - Len(indices)
    IN  /\ rank = R[j]
        /\ \A m \in 1 .. Len(indices) : indices[m] = s[j + m]

\* The rank left is one of a subset of the positions left, as large as the
\* number of elements left: of these there are Binom(Upper + 1, ...).
RankInRange == rank < Binom(Upper + 1, k - Len(indices))

(* Induction, in the form of a set that is closed under the next number.   *)
LEMMA SetInduction ==
    ASSUME NEW S, NEW n \in Nat, 0 \in S,
           \A m \in Nat : m < n /\ m \in S => m + 1 \in S
    PROVE  n \in S
<1> DEFINE T == {m \in Nat : m <= n /\ m \notin S}
           R == OpToRel(<, Nat)
<1> SUFFICES ASSUME n \notin S PROVE FALSE
  OBVIOUS
<1>1. T \subseteq Nat /\ T # {}
  OBVIOUS
<1>2. PICK least \in T : \A y \in T : ~(<<y, least>> \in R)
  <2>1. IsWellFoundedOn(R, Nat)
    BY NatLessThanWellFounded
  <2> HIDE DEF T, R
  <2> QED BY ONLY <1>1, <2>1, WFMin, Zenon
<1>3. least \in Nat /\ least <= n /\ least \notin S /\ least # 0
  OBVIOUS
<1>4. least - 1 \in Nat /\ least - 1 < n /\ least - 1 < least /\ (least - 1) + 1 = least
  BY <1>3
<1>5. least - 1 \in T
  BY <1>3, <1>4
<1>6. <<least - 1, least>> \in R
  BY <1>3, <1>4 DEF OpToRel
<1> QED BY <1>2, <1>5, <1>6

(* Pascal's rule with the zeros that binom adds outside of the triangle.   *)
LEMMA BinomPascal ==
    ASSUME PascalsRule, NEW n \in Nat, NEW j \in Nat \ {0}
    PROVE  /\ Binom(n, 0) = 1
           /\ Binom(n + 1, j) = Binom(n, j) + Binom(n, j - 1)
<1>1. Binom(n, 0) = 1
  BY DEF Binom, PascalsRule, PascalsRow
<1>2. CASE j <= n
  <2>1. Comb(n + 1, j) = Comb(n, j) + Comb(n, j - 1)
    BY <1>2 DEF PascalsRule, PascalsRow
  <2> QED BY <1>1, <1>2, <2>1 DEF Binom
<1>3. CASE j = n + 1
  <2>1. Comb(n + 1, n + 1) = 1 /\ Comb(n, n) = 1
    BY DEF PascalsRule, PascalsRow
  <2>2. Binom(n + 1, j) = 1 /\ Binom(n, j - 1) = 1 /\ Binom(n, j) = 0
    BY <1>3, <2>1 DEF Binom
  <2> QED BY <1>1, <2>2
<1>4. CASE j > n + 1
  <2>1. Binom(n + 1, j) = 0 /\ Binom(n, j - 1) = 0 /\ Binom(n, j) = 0
    BY <1>4 DEF Binom
  <2> QED BY <1>1, <2>1
<1> QED BY <1>2, <1>3, <1>4

(* A column of Pascal's triangle does not descend, over the positions of a *)
(* leaf.                                                                   *)
LEMMA ColumnAscends ==
    ASSUME PascalsRule, leaf \in Leaves, NEW a \in Nat, NEW b \in Nat, NEW j \in Nat,
           a <= b, b <= BlockSize + leaf.n_leaf
    PROVE  Binom(a, j) <= Binom(b, j)
<1> DEFINE S == {d \in Nat : Binom(a, j) <= Binom(a + d, j)}
           n == b - a
<1>0. BlockSize + leaf.n_leaf \in Nat
  BY LeafAssumption DEF BlockSize
<1>1. Binom(a, j) \in Nat
  BY <1>0, BinomType
<1>2. 0 \in S
  BY <1>1
<1>3. ASSUME NEW m \in Nat, m < n, m \in S PROVE m + 1 \in S
  <2> DEFINE c == a + m
  <2>1. c \in Nat /\ c + 1 \in Nat /\ c + 1 = a + (m + 1)
        /\ c + 1 <= BlockSize + leaf.n_leaf /\ c <= BlockSize + leaf.n_leaf
    BY <1>0, <1>3
  <2>2. Binom(a, j) <= Binom(c, j)
    BY <1>3
  <2> HIDE DEF c
  <2>3. Binom(c, j) \in Nat /\ Binom(c + 1, j) \in Nat
    BY <1>0, <2>1, BinomType
  <2>4. Binom(c, j) <= Binom(c + 1, j)
    <3>1. CASE j = 0
      BY <2>1, <3>1, BinomPascal
    <3>2. CASE j # 0
      <4>1. Binom(c + 1, j) = Binom(c, j) + Binom(c, j - 1)
        BY <2>1, <3>2, BinomPascal
      <4>2. Binom(c, j - 1) \in Nat
        BY <1>0, <2>1, BinomType
      <4> QED BY <2>3, <4>1, <4>2
    <3> QED BY <3>1, <3>2
  <2>5. Binom(a, j) <= Binom(a + (m + 1), j)
    BY <1>1, <2>1, <2>2, <2>3, <2>4
  <2> QED BY <2>5
<1>4. n \in Nat /\ a + n = b
  OBVIOUS
<1>5. n \in S
  <2> HIDE DEF S, n
  <2> QED BY ONLY <1>2, <1>3, <1>4, SetInduction
<1> QED BY <1>4, <1>5

(* The m smallest elements rank below the first m-subset that has a larger *)
(* element.                                                                *)
LEMMA RankBelow ==
    ASSUME PascalsRule, leaf \in Leaves, n_b \in Nat, k \in Nat,
           n_b <= BlockSize + leaf.n_leaf,
           NEW s, NEW R, IsRanking(s, R), NEW m \in 1 .. k
    PROVE  /\ s[m] \in Nat /\ s[m] + 1 <= n_b
           /\ Binom(s[m], m) <= R[m]
           /\ R[m] < Binom(s[m] + 1, m)
<1> DEFINE most == BlockSize + leaf.n_leaf
           S == {d \in Nat : d + 1 \in 1 .. k => R[d + 1] < Binom(s[d + 1] + 1, d + 1)}
<1>1. ASSUME NEW d \in 1 .. k
      PROVE  /\ s[d] \in Nat /\ s[d] + 1 \in Nat /\ s[d] + 1 <= n_b /\ s[d] + 1 <= most
             /\ R[d] = R[d - 1] + Binom(s[d], d)
             /\ R[d] \in Nat /\ R[d - 1] \in Nat
             /\ Binom(s[d], d) \in Nat
             /\ Binom(s[d] + 1, d) = Binom(s[d], d) + Binom(s[d], d - 1)
  <2>1. s[d] \in 0 .. n_b - 1
    <3>1. s \in Seq(0 .. n_b - 1) /\ d \in 1 .. Len(s)
      BY DEF IsRanking
    <3> HIDE DEF most
    <3> QED BY ONLY <3>1, ElementType, Zenon
  <2>2. s[d] \in Nat /\ s[d] + 1 \in Nat /\ s[d] + 1 <= n_b /\ s[d] + 1 <= most
    BY <2>1, LeafAssumption DEF BlockSize
  <2>3. R[d] = R[d - 1] + Binom(s[d], d)
    BY DEF IsRanking
  <2>4. R[d] \in Nat /\ R[d - 1] \in Nat
    BY DEF IsRanking
  <2> DEFINE x == s[d]
  <2>5. x \in Nat /\ x + 1 <= most /\ most \in Int
    BY <2>2, LeafAssumption DEF BlockSize
  <2> HIDE DEF x
  <2>6. Binom(x, d) \in Nat
    BY <2>5, BinomType
  <2>7. Binom(x + 1, d) = Binom(x, d) + Binom(x, d - 1)
    BY <2>5, BinomPascal
  <2> QED BY <2>2, <2>3, <2>4, <2>6, <2>7 DEF x
<1>2. 0 \in S
  <2> SUFFICES ASSUME 1 \in 1 .. k PROVE R[1] < Binom(s[1] + 1, 1)
    OBVIOUS
  <2>1. /\ s[1] \in Nat /\ R[1] = R[0] + Binom(s[1], 1) /\ Binom(s[1], 1) \in Nat
        /\ Binom(s[1] + 1, 1) = Binom(s[1], 1) + Binom(s[1], 0)
    BY <1>1
  <2>2. R[0] = 0
    BY DEF IsRanking
  <2>3. Binom(s[1], 0) = 1
    BY <2>1 DEF Binom, PascalsRule, PascalsRow
  <2> QED BY <2>1, <2>2, <2>3
<1>3. ASSUME NEW d \in Nat, d < m - 1, d \in S PROVE d + 1 \in S
  <2> DEFINE c == d + 1
             e == d + 2
  <2>1. c \in 1 .. k /\ e \in 1 .. k /\ c < e /\ e - 1 = c /\ c \in Nat
    BY <1>3
  <2>2. R[c] < Binom(s[c] + 1, c)
    BY <1>3, <2>1
  <2>3. s[c] < s[e]
    BY <2>1 DEF IsRanking, Ascending
  <2> HIDE DEF c, e
  <2>4. /\ s[c] \in Nat /\ s[c] + 1 \in Nat /\ R[c] \in Nat
        /\ s[e] \in Nat /\ s[e] + 1 <= most /\ R[e] \in Nat
        /\ R[e] = R[c] + Binom(s[e], e)
        /\ Binom(s[e], e) \in Nat
        /\ Binom(s[e] + 1, e) = Binom(s[e], e) + Binom(s[e], c)
    BY <1>1, <2>1
  <2>5. Binom(s[c] + 1, c) <= Binom(s[e], c)
    <3> DEFINE x == s[c] + 1
               y == s[e]
    <3>1. x \in Nat /\ y \in Nat /\ x <= y /\ y <= most
      BY SMTT(60), <2>3, <2>4, LeafAssumption DEF BlockSize
    <3> HIDE DEF x, y
    <3>2. Binom(x, c) <= Binom(y, c)
      BY <2>1, <3>1, ColumnAscends
    <3> QED BY <3>2 DEF x, y
  <2>6. Binom(s[c] + 1, c) \in Nat /\ Binom(s[e], c) \in Nat
    <3> DEFINE x == s[c] + 1
               y == s[e]
    <3>1. x \in Int /\ y \in Int /\ x <= most /\ y <= most
      <4>1. most \in Int
        BY LeafAssumption DEF BlockSize
      <4> HIDE DEF most
      <4> QED BY <2>3, <2>4, <4>1
    <3> HIDE DEF x, y
    <3>2. Binom(x, c) \in Nat /\ Binom(y, c) \in Nat
      BY <2>1, <3>1, BinomType
    <3> QED BY <3>2 DEF x, y
  <2>7. R[e] < Binom(s[e] + 1, e)
    BY <2>2, <2>4, <2>5, <2>6
  <2>8. d + 1 + 1 = e /\ d + 1 = c
    BY DEF c, e
  <2> QED BY <1>3, <2>7, <2>8
<1>4. m - 1 \in S
  <2> DEFINE n == m - 1
  <2>1. n \in Nat
    OBVIOUS
  <2>2. \A d \in Nat : d < n /\ d \in S => d + 1 \in S
    BY <1>3
  <2> HIDE DEF S, n
  <2>3. n \in S
    BY ONLY <1>2, <2>1, <2>2, SetInduction
  <2> QED BY <2>3 DEF n
<1>5. R[m] < Binom(s[m] + 1, m)
  BY <1>4
<1> QED BY <1>1, <1>5

(* Two ascending facts about a column single out one index: the largest    *)
(* whose coefficient does not pass the rank.                               *)
LEMMA SameIndex ==
    ASSUME PascalsRule, leaf \in Leaves, NEW j \in Nat, NEW x \in Nat, NEW i \in Nat,
           NEW upper \in Int, NEW r \in Nat,
           x <= upper, i <= upper, upper + 1 <= BlockSize + leaf.n_leaf,
           Binom(x, j) <= r, r < Binom(x + 1, j),
           Binom(i, j) <= r, i < upper => Binom(i + 1, j) > r
    PROVE  i = x
<1> DEFINE most == BlockSize + leaf.n_leaf
<1>1. most \in Nat
  BY LeafAssumption DEF BlockSize
<1> DEFINE i1 == i + 1
           x1 == x + 1
<1>2. /\ i1 \in Nat /\ x1 \in Nat /\ i1 \in Int /\ x1 \in Int
      /\ i1 <= most /\ x1 <= most /\ i <= most /\ x <= most
  BY <1>1
<1> HIDE DEF i1, x1
<1>3. /\ Binom(i, j) \in Nat /\ Binom(x, j) \in Nat
      /\ Binom(i1, j) \in Nat /\ Binom(x1, j) \in Nat
  BY <1>1, <1>2, BinomType
<1>4. ASSUME i < x PROVE FALSE
  <2>1. i1 <= x /\ i < upper
    BY <1>4 DEF i1
  <2>2. Binom(i1, j) <= Binom(x, j)
    BY <1>2, <2>1, ColumnAscends
  <2>3. Binom(i1, j) > r
    BY <2>1 DEF i1
  <2> QED BY <1>3, <2>2, <2>3
<1>5. ASSUME i > x PROVE FALSE
  <2>1. x1 <= i
    BY <1>5 DEF x1
  <2>2. Binom(x1, j) <= Binom(i, j)
    BY <1>2, <2>1, ColumnAscends
  <2>3. r < Binom(x1, j)
    BY DEF x1
  <2> QED BY <1>3, <2>2, <2>3
<1> QED BY <1>4, <1>5

(* An encoder's subset stays the one that is being found: the next element *)
(* of it is found, and what is left of the rank is the rank of the rest.   *)
LEMMA UnrankInverts ==
    ASSUME PascalsRule, IInv, leaf \in Leaves, Unrank,
           NEW s, NEW R, IsRanking(s, R), Remains(s, R)
    PROVE  Remains(s, R)'
<1> DEFINE j == k - Len(indices)
           upper == Upper
           i == FindLargestBinomLe(rank, j, j - 1, upper)
<1>1. /\ pc = "unrank" /\ Len(indices) < k /\ k' = k
  BY DEF Unrank
<1>2. /\ indices \in Seq(Int) /\ Len(indices) \in Nat /\ rank \in Nat
      /\ k \in Nat /\ n_b \in Nat /\ n_b <= BlockSize + leaf.n_leaf
  BY <1>1 DEF IInv, TypeOK, Control, InBlock
<1>3. /\ indices' = <<i>> \o indices /\ rank' = rank - Binom(i, j)
      /\ i \in Int /\ j \in Int /\ j >= 1 /\ upper \in Int
      /\ k <= n_b => j - 1 <= upper /\ upper <= n_b - 1
      /\ j - 1 <= upper => i \in (j - 1) .. upper /\ Binom(i, j) <= rank
      /\ j - 1 <= upper /\ i < upper => Binom(i + 1, j) > rank
  BY NextElement
<1>4. /\ j = k - Len(indices) /\ j \in 1 .. k
      /\ indices # <<>> => upper = indices[1] - 1
      /\ indices = <<>> => upper = n_b - 1
  BY <1>1, <1>2, <1>3 DEF Upper
<1> HIDE DEF j, upper, i
<1>5. rank = R[j] /\ \A m \in 1 .. Len(indices) : indices[m] = s[j + m]
  BY DEF Remains, j
<1>6. \A m \in 1 .. k : s[m] \in Nat /\ s[m] + 1 <= n_b
  BY <1>2, RankBelow
<1>7. Binom(s[j], j) <= R[j] /\ R[j] < Binom(s[j] + 1, j)
  BY <1>2, <1>4, RankBelow
<1>8. s[j] <= upper
  <2>1. CASE indices = <<>>
    BY <1>2, <1>4, <1>6, <2>1
  <2>2. CASE indices # <<>>
    <3>1. 1 \in 1 .. Len(indices) /\ j + 1 \in 1 .. k
      BY SMTT(60), <1>2, <1>3, <1>4, <2>2
    <3>2. indices[1] = s[j + 1]
      BY <1>5, <3>1
    <3>3. s[j] < s[j + 1]
      BY <1>4, <3>1 DEF IsRanking, Ascending
    <3> QED BY <1>4, <1>6, <2>2, <3>1, <3>2, <3>3
  <2> QED BY <2>1, <2>2
<1>9. j - 1 <= s[j]
  <2>1. CASE j > s[j] + 1
    <3>1. Binom(s[j] + 1, j) = 0
      BY <2>1 DEF Binom
    <3> QED BY <1>2, <1>5, <1>7, <3>1
  <2>2. CASE ~(j > s[j] + 1)
    BY <1>3, <1>4, <1>6, <2>2
  <2> QED BY <2>1, <2>2
<1>10. upper + 1 <= BlockSize + leaf.n_leaf
  <2>1. CASE indices = <<>>
    BY <1>2, <1>4, <2>1
  <2>2. CASE indices # <<>>
    <3>1. 1 \in 1 .. Len(indices) /\ j + 1 \in 1 .. k
      BY SMTT(60), <1>2, <1>3, <1>4, <2>2
    <3>2. indices[1] = s[j + 1] /\ s[j + 1] \in Nat /\ s[j + 1] + 1 <= n_b
      BY <1>5, <1>6, <3>1
    <3>3. BlockSize + leaf.n_leaf \in Int
      BY LeafAssumption DEF BlockSize
    <3>4. upper + 1 = s[j + 1]
      BY <1>4, <2>2, <3>2
    <3> QED BY <1>2, <3>2, <3>3, <3>4
  <2> QED BY <2>1, <2>2
<1>11. i = s[j]
  <2> DEFINE x == s[j]
  <2>1. x \in Nat /\ x <= upper /\ Binom(x, j) <= rank /\ rank < Binom(x + 1, j)
    BY <1>4, <1>5, <1>6, <1>7, <1>8
  <2>2. i \in Nat /\ i <= upper /\ Binom(i, j) <= rank
        /\ (i < upper => Binom(i + 1, j) > rank)
    <3>1. j - 1 <= upper
      BY <1>3, <1>4, <1>6, <1>8, <1>9
    <3> QED BY <1>3, <3>1
  <2> HIDE DEF x
  <2>3. j \in Nat
    BY <1>3
  <2>4. i = x
    BY <1>2, <1>3, <1>10, <2>1, <2>2, <2>3, SameIndex
  <2> QED BY <2>4 DEF x
<1>12. /\ Len(indices') = Len(indices) + 1 /\ indices'[1] = i
       /\ \A m \in 2 .. Len(indices) + 1 : indices'[m] = indices[m - 1]
  BY <1>2, <1>3, PrependFacts
<1>13. k - Len(indices') = j - 1
  BY <1>2, <1>4, <1>12
<1>14. rank' = R[j - 1]
  <2>1. R[j] = R[j - 1] + Binom(s[j], j) /\ R[j - 1] \in Nat /\ R[j] \in Nat
    <3>1. j \in 0 .. k /\ j - 1 \in 0 .. k
      BY SMTT(60), <1>2, <1>3, <1>4
    <3>2. R \in [0 .. k -> Nat] /\ R[j] = R[j - 1] + Binom(s[j], j)
      BY <1>4 DEF IsRanking
    <3> QED BY <3>1, <3>2
  <2>2. Binom(s[j], j) \in Nat
    <3> DEFINE x == s[j]
    <3>1. x \in Int /\ x <= BlockSize + leaf.n_leaf
      BY SMTT(60), <1>2, <1>4, <1>6, LeafAssumption DEF BlockSize
    <3> HIDE DEF x
    <3>2. Binom(x, j) \in Nat
      BY <1>3, <3>1, BinomType
    <3> QED BY <3>2 DEF x
  <2> QED BY <1>3, <1>5, <1>11, <2>1, <2>2
<1>15. ASSUME NEW m \in 1 .. Len(indices') PROVE indices'[m] = s[(j - 1) + m]
  <2>1. CASE m = 1
    BY <1>3, <1>11, <1>12, <2>1
  <2>2. CASE m # 1
    <3>1. m \in 2 .. Len(indices) + 1 /\ m - 1 \in 1 .. Len(indices)
      BY <1>2, <1>12, <2>2
    <3>2. indices'[m] = s[j + (m - 1)]
      BY <1>5, <1>12, <3>1
    <3>3. j + (m - 1) = (j - 1) + m
      BY <1>3
    <3> QED BY <3>2, <3>3
  <2> QED BY <2>1, <2>2
<1> QED BY <1>1, <1>13, <1>14, <1>15 DEF Remains

(* unrank_subset undoes rank_subset, for every subset of every block: from *)
(* the rank of a subset it finds that subset, largest element first, and   *)
(* at every step the rank left is the rank of the elements left.           *)
THEOREM UnrankUndoesRank ==
    ASSUME PascalsRule
    PROVE  Spec => [][Unrank => \A s, R : IsRanking(s, R) /\ Remains(s, R) => Remains(s, R)']_vars
<1>1. ASSUME IInv, leaf \in Leaves, [Next]_vars
      PROVE  [Unrank => \A s, R : IsRanking(s, R) /\ Remains(s, R) => Remains(s, R)']_vars
  BY <1>1, UnrankInverts
<1>2. Init => leaf \in Leaves /\ IInv
  BY InitInv
<1>3. (leaf \in Leaves /\ IInv) /\ [Next]_vars => (leaf \in Leaves /\ IInv)'
  BY NextInv
<1> QED BY <1>1, <1>2, <1>3, PTL DEF Spec

(* A rank that some subset has still is one after the next element.        *)
LEMMA RangeKept ==
    ASSUME PascalsRule, IInv, leaf \in Leaves, Unrank, RankInRange
    PROVE  RankInRange'
<1> DEFINE j == k - Len(indices)
           upper == Upper
           i == FindLargestBinomLe(rank, j, j - 1, upper)
<1>1. pc = "unrank" /\ Len(indices) < k /\ k' = k
  BY DEF Unrank
<1>2. /\ indices \in Seq(Int) /\ Len(indices) \in Nat /\ rank \in Nat
      /\ k \in Nat /\ n_b \in Nat /\ n_b <= BlockSize + leaf.n_leaf
  BY <1>1 DEF IInv, TypeOK, Control, InBlock
<1>3. /\ indices' = <<i>> \o indices /\ rank' = rank - Binom(i, j)
      /\ i \in Int /\ j \in Int /\ j >= 1 /\ upper \in Int
      /\ k <= n_b => j - 1 <= upper /\ upper <= n_b - 1
      /\ k > n_b => j - 1 > upper
      /\ j - 1 <= upper => i \in (j - 1) .. upper /\ Binom(i, j) <= rank
      /\ j - 1 <= upper /\ i < upper => Binom(i + 1, j) > rank
  BY NextElement
<1>4. Len(indices') = Len(indices) + 1 /\ indices'[1] = i
  BY <1>2, <1>3, PrependFacts
<1>5. indices' # <<>>
  BY <1>2, <1>4
<1>6. Upper' = i - 1 /\ k' - Len(indices') = j - 1
  BY <1>1, <1>2, <1>4, <1>5 DEF Upper
<1>7. rank < Binom(upper + 1, j)
  BY DEF RankInRange
<1> HIDE DEF j, upper, i
<1>8. j - 1 <= upper
  <2>1. CASE j > upper + 1
    <3>1. Binom(upper + 1, j) = 0
      BY <2>1 DEF Binom
    <3> QED BY <1>2, <1>7, <3>1
  <2>2. CASE ~(j > upper + 1)
    BY <1>3, <2>2
  <2> QED BY <2>1, <2>2
<1>9. rank < Binom(i + 1, j)
  <2>1. CASE i = upper
    BY <1>7, <2>1
  <2>2. CASE i # upper
    <3>1. Binom(i + 1, j) > rank
      BY <1>3, <1>8, <2>2
    <3>2. i + 1 \in Int /\ i + 1 <= BlockSize + leaf.n_leaf
      <4>1. BlockSize + leaf.n_leaf \in Int
        BY LeafAssumption DEF BlockSize
      <4> QED BY <1>2, <1>3, <1>8, <2>2, <4>1
    <3>3. Binom(i + 1, j) \in Nat
      <4> DEFINE i1 == i + 1
      <4> HIDE DEF i1
      <4>1. i1 \in Int /\ i1 <= BlockSize + leaf.n_leaf
        BY <3>2 DEF i1
      <4>2. Binom(i1, j) \in Nat
        BY <1>3, <4>1, BinomType
      <4> QED BY <4>2 DEF i1
    <3> QED BY <1>2, <3>1, <3>3
  <2> QED BY <2>1, <2>2
<1>10. i \in Nat /\ i <= n_b - 1
  BY <1>2, <1>3, <1>8
<1>11. Binom(i + 1, j) = Binom(i, j) + Binom(i, j - 1)
  BY <1>3, <1>10, BinomPascal
<1>12. Binom(i, j) \in Nat /\ Binom(i, j - 1) \in Nat
  <2> DEFINE j1 == j - 1
  <2>1. j1 \in Int /\ i <= BlockSize + leaf.n_leaf
    <3>1. BlockSize + leaf.n_leaf \in Int
      BY LeafAssumption DEF BlockSize
    <3> QED BY <1>2, <1>3, <1>10, <3>1
  <2> HIDE DEF j1
  <2>2. Binom(i, j) \in Nat /\ Binom(i, j1) \in Nat
    BY <1>3, <2>1, BinomType
  <2> QED BY <2>2 DEF j1
<1>13. rank' < Binom(i, j - 1)
  BY <1>2, <1>3, <1>9, <1>11, <1>12
<1>14. (i - 1) + 1 = i
  BY <1>3
<1> QED BY <1>6, <1>13, <1>14 DEF RankInRange

\* What is left in the end of a rank in range is nothing.
UsedUp == (pc = "unrank" /\ Len(indices) = k /\ RankInRange) => rank = 0

(* rank_subset undoes unrank_subset, for every rank in range: the elements *)
(* found use up the rank, to nothing, so they are the subset that has it   *)
(* and no two ranks of a block give the same positions.                    *)
THEOREM RankUndoesUnrank ==
    ASSUME PascalsRule
    PROVE  Spec => [][Unrank /\ RankInRange => RankInRange']_vars /\ []UsedUp
<1>1. ASSUME IInv, leaf \in Leaves, [Next]_vars
      PROVE  [Unrank /\ RankInRange => RankInRange']_vars
  BY <1>1, RangeKept
<1>2. Init => leaf \in Leaves /\ IInv
  BY InitInv
<1>3. (leaf \in Leaves /\ IInv) /\ [Next]_vars => (leaf \in Leaves /\ IInv)'
  BY NextInv
<1>4. ASSUME IInv, leaf \in Leaves PROVE UsedUp
  <2> SUFFICES ASSUME pc = "unrank", Len(indices) = k, RankInRange PROVE rank = 0
    BY DEF UsedUp
  <2>1. rank \in Nat /\ indices \in Seq(Int) /\ n_b \in Nat /\ k \in Nat
    BY <1>4 DEF IInv, TypeOK
  <2>2. Upper + 1 \in Int
    <3>1. indices # <<>> => indices[1] \in Int
      BY <2>1
    <3> QED BY <2>1, <3>1 DEF Upper
  <2>3. rank < Binom(Upper + 1, 0)
    BY <2>1 DEF RankInRange
  <2>4. CASE Upper + 1 < 0
    BY <2>1, <2>2, <2>3, <2>4 DEF Binom
  <2>5. CASE Upper + 1 >= 0
    <3>1. Comb(Upper + 1, 0) = 1
      BY <2>2, <2>5 DEF PascalsRule, PascalsRow
    <3> QED BY <2>1, <2>2, <2>3, <2>5, <3>1 DEF Binom
  <2> QED BY <2>2, <2>4, <2>5
<1> QED BY <1>1, <1>2, <1>3, <1>4, PTL DEF Spec

-----------------------------------------------------------------------------
(* Bits *)

\* The powers of the format, one by one.
LEMMA Pow2Is ==
    /\ Pow2(0) = 1 /\ Pow2(1) = 2 /\ Pow2(2) = 4 /\ Pow2(3) = 8 /\ Pow2(4) = 16
    /\ Pow2(5) = 32 /\ Pow2(6) = 64 /\ Pow2(7) = 128 /\ Pow2(8) = 256
BY DEF Pow2

\* Dividing twice is dividing by the product.
LEMMA DivTwice ==
    ASSUME NEW x \in Nat, NEW a \in Nat \ {0}, NEW b \in Nat \ {0}
    PROVE  (x \div a) \div b = x \div (a * b)
<1> DEFINE q == x \div a
           r == x % a
           q2 == q \div b
           r2 == q % b
<1>1. /\ q \in Nat /\ r \in Nat /\ r < a /\ x = a * q + r
      /\ q2 \in Nat /\ r2 \in Nat /\ r2 < b /\ q = b * q2 + r2
  <2>1. q \in Nat /\ r \in Nat /\ r < a /\ x = a * q + r
    OBVIOUS
  <2> HIDE DEF q, r
  <2>2. q2 \in Nat /\ r2 \in Nat /\ r2 < b /\ q = b * q2 + r2
    BY <2>1
  <2> QED BY <2>1, <2>2
<1> HIDE DEF q, r, q2, r2
<1> DEFINE e == a * r2 + r
           m == a * b
<1>2. m \in Nat \ {0} /\ e \in Nat /\ e < m /\ x = m * q2 + e
  <2>1. a * (b * q2 + r2) = m * q2 + a * r2
    BY <1>1
  <2>2. m \in Nat \ {0} /\ e \in Nat
    BY <1>1
  <2>3. a * r2 + a <= a * b
    <3>1. r2 + 1 <= b
      BY <1>1
    <3>2. \A u, v \in Nat : u <= v => a * u <= a * v
      OBVIOUS
    <3>3. a * (r2 + 1) <= a * b /\ a * (r2 + 1) = a * r2 + a
      BY <1>1, <3>1, <3>2
    <3> QED BY <3>3
  <2>4. a * r2 \in Nat /\ a * b \in Nat /\ m * q2 \in Nat
    BY <1>1
  <2>5. e < m
    BY <1>1, <2>3, <2>4
  <2>6. x = a * (b * q2 + r2) + r
    BY <1>1
  <2> QED BY <1>1, <2>1, <2>2, <2>4, <2>5, <2>6
<1> HIDE DEF e, m
<1>3. x \div m = q2
  BY <1>1, <1>2
<1> QED BY <1>3 DEF m, q2, q

\* One more bit of a number.
LEMMA OneMoreBit ==
    ASSUME NEW x \in Nat, NEW a \in Nat \ {0}
    PROVE  x % (2 * a) = (x % a) + a * ((x \div a) % 2)
<1> DEFINE q == x \div a
           r == x % a
           q2 == q \div 2
           r2 == q % 2
           e == a * r2 + r
           m == 2 * a
<1>1. q \in Nat /\ r \in Nat /\ r < a /\ x = a * q + r
  OBVIOUS
<1> HIDE DEF q, r
<1>2. q2 \in Nat /\ r2 \in {0, 1} /\ q = 2 * q2 + r2
  BY <1>1
<1> HIDE DEF q2, r2
<1>3. m \in Nat \ {0} /\ e \in Nat /\ e < m /\ x = m * q2 + e
  <2>1. x = a * (2 * q2 + r2) + r
    BY <1>1, <1>2
  <2>2. a * (2 * q2 + r2) = m * q2 + a * r2
    BY <1>2
  <2>3. a * r2 \in {0, a}
    BY <1>2
  <2>4. m * q2 \in Nat
    BY <1>2
  <2> QED BY <1>1, <1>2, <2>1, <2>2, <2>3, <2>4
<1> HIDE DEF e, m
<1>4. x % m = e
  BY <1>2, <1>3
<1> QED BY <1>4 DEF m, e, r, r2, q

\* A byte, the number that two of them make, and a bit of it
ByteValues == 0 .. 255
TwoBytes(low, high) == low + 256 * high
BitOfTwo(low, high, p) ==
    IF p < 8 THEN (low \div Pow2(p)) % 2 ELSE (high \div Pow2(p - 8)) % 2

\* The value of a bit of a byte
BitValue(a) == a \in Nat \ {0} /\ \E d \in Nat : 256 = a * (2 * d)

\* What is added above a bit does not change it.
LEMMA LowerBit ==
    \A low, high \in Nat : \A a : BitValue(a) =>
        (TwoBytes(low, high) \div a) % 2 = (low \div a) % 2
<1> SUFFICES ASSUME NEW low \in Nat, NEW high \in Nat, NEW a \in Nat \ {0},
                    NEW d \in Nat, 256 = a * (2 * d)
             PROVE  ((low + 256 * high) \div a) % 2 = (low \div a) % 2
  BY DEF BitValue, TwoBytes
<1> DEFINE q == low \div a
           r == low % a
           g == d * high
           n == q + 2 * g
<1>1. q \in Nat /\ r \in Nat /\ r < a /\ low = a * q + r
  OBVIOUS
<1> HIDE DEF q, r
<1>2. g \in Nat /\ n \in Nat
  BY <1>1
<1>3. low + 256 * high = a * n + r
  <2>1. 256 * high = a * (2 * g)
    <3>1. 256 * high = (a * (2 * d)) * high
      OBVIOUS
    <3>2. (a * (2 * d)) * high = a * (2 * (d * high))
      OBVIOUS
    <3> QED BY <3>1, <3>2
  <2> HIDE DEF g
  <2>2. a * n = a * q + a * (2 * g)
    BY <1>1, <1>2
  <2>3. a * q \in Nat /\ a * (2 * g) \in Nat
    BY <1>1, <1>2
  <2> QED BY <1>1, <2>1, <2>2, <2>3
<1>4. n % 2 = q % 2
  <2> HIDE DEF g
  <2> QED BY <1>1, <1>2
<1> HIDE DEF n
<1>5. (a * n + r) \div a = n
  BY <1>1, <1>2
<1> QED BY <1>3, <1>4, <1>5 DEF q

\* A number's last w bits are those of another if bit by bit they are.
LEMMA SameBits ==
    ASSUME NEW y \in Nat, NEW c \in Nat, NEW w \in 0 .. 8,
           \A i \in 0 .. w - 1 : (y \div Pow2(i)) % 2 = (c \div Pow2(i)) % 2
    PROVE  y % Pow2(w) = c % Pow2(w)
<1> DEFINE S == {v \in 0 .. 8 : v <= w => y % Pow2(v) = c % Pow2(v)}
<1>1. ASSUME NEW v \in 0 .. 7, v \in S PROVE v + 1 \in S
  <2> SUFFICES ASSUME v + 1 <= w PROVE y % Pow2(v + 1) = c % Pow2(v + 1)
    OBVIOUS
  <2>1. y % Pow2(v) = c % Pow2(v) /\ (y \div Pow2(v)) % 2 = (c \div Pow2(v)) % 2
    <3>1. v \in 0 .. w - 1 /\ v <= w
      OBVIOUS
    <3>2. (y \div Pow2(v)) % 2 = (c \div Pow2(v)) % 2
      BY <3>1
    <3>3. y % Pow2(v) = c % Pow2(v)
      BY <1>1, <3>1
    <3> QED BY <3>2, <3>3
  <2>2. \A x \in Nat : x % Pow2(v + 1) = (x % Pow2(v)) + Pow2(v) * ((x \div Pow2(v)) % 2)
    <3>1. Pow2(v) \in Nat \ {0}
      BY Pow2Type
    <3>2. Pow2(v + 1) = 2 * Pow2(v)
      <4>1. v \in {0, 1, 2, 3, 4, 5, 6, 7}
        OBVIOUS
      <4> QED BY <4>1, Pow2Is
    <3> QED BY <3>1, <3>2, OneMoreBit
  <2> QED BY <2>1, <2>2
<1>2. 0 \in S
  BY Pow2Is
<1>3. w \in S
  <2>1. \A m \in Nat : m < w /\ m \in S => m + 1 \in S
    <3> SUFFICES ASSUME NEW m \in Nat, m < w, m \in S PROVE m + 1 \in S
      OBVIOUS
    <3>1. m \in 0 .. 7
      OBVIOUS
    <3> QED BY <1>1, <3>1
  <2>2. w \in Nat
    OBVIOUS
  <2> HIDE DEF S
  <2> QED BY ONLY <1>2, <2>1, <2>2, SetInduction
<1> QED BY <1>3

\* The bits of a window are the bits of its two bytes.
LEMMA WindowBits ==
    \A low, high \in ByteValues : \A s, i \in 0 .. 7 :
        ((TwoBytes(low, high) \div Pow2(s)) \div Pow2(i)) % 2 = BitOfTwo(low, high, s + i)
<1> SUFFICES ASSUME NEW low \in 0 .. 255, NEW high \in 0 .. 255,
                    NEW s \in 0 .. 7, NEW i \in 0 .. 7
             PROVE  (((low + 256 * high) \div Pow2(s)) \div Pow2(i)) % 2
                        = IF s + i < 8 THEN (low \div Pow2(s + i)) % 2
                          ELSE (high \div Pow2((s + i) - 8)) % 2
  BY DEF BitOfTwo, TwoBytes, ByteValues
<1> DEFINE x == low + 256 * high
<1>0. x \in Nat
  OBVIOUS
<1>1. (x \div Pow2(s)) \div Pow2(i) = x \div (Pow2(s) * Pow2(i))
  <2>1. Pow2(s) \in Nat \ {0} /\ Pow2(i) \in Nat \ {0}
    BY Pow2Type
  <2> HIDE DEF x
  <2> QED BY <1>0, <2>1, DivTwice
<1>2. CASE s + i < 8
  <2>1. Pow2(s) * Pow2(i) = Pow2(s + i)
    <3>1. s \in {0, 1, 2, 3, 4, 5, 6, 7} /\ i \in {0, 1, 2, 3, 4, 5, 6, 7}
      OBVIOUS
    <3> QED BY <1>2, <3>1, Pow2Is
  <2> DEFINE j == s + i
  <2>2. (x \div Pow2(j)) % 2 = (low \div Pow2(j)) % 2
    <3>1. j \in {0, 1, 2, 3, 4, 5, 6, 7}
      BY <1>2
    <3> HIDE DEF j
    <3> DEFINE a == Pow2(j)
               d == Pow2(7 - j)
    <3>2. 256 = a * (2 * d) /\ a \in Nat \ {0} /\ d \in Nat
      BY <3>1, Pow2Is
    <3> HIDE DEF a, d
    <3>3. BitValue(a) /\ low \in Nat /\ high \in Nat
      BY <3>2 DEF BitValue
    <3>4. (TwoBytes(low, high) \div a) % 2 = (low \div a) % 2
      BY ONLY <3>3, LowerBit, Zenon
    <3>5. ((low + 256 * high) \div a) % 2 = (low \div a) % 2
      BY <3>4 DEF TwoBytes
    <3> QED BY <3>5 DEF a
  <2> QED BY <1>1, <1>2, <2>1, <2>2
<1>3. CASE s + i >= 8
  <2> DEFINE j == (s + i) - 8
  <2>1. Pow2(s) * Pow2(i) = 256 * Pow2(j)
    <3>1. s \in {0, 1, 2, 3, 4, 5, 6, 7} /\ i \in {0, 1, 2, 3, 4, 5, 6, 7}
      OBVIOUS
    <3> QED BY <1>3, <3>1, Pow2Is
  <2>2. j \in 0 .. 8
    BY <1>3
  <2>3. x \div 256 = high
    OBVIOUS
  <2>4. x \div (256 * Pow2(j)) = high \div Pow2(j)
    <3>1. Pow2(j) \in Nat \ {0}
      BY <2>2, Pow2Type
    <3>2. (x \div 256) \div Pow2(j) = x \div (256 * Pow2(j))
      <4>1. 256 \in Nat \ {0}
        OBVIOUS
      <4> HIDE DEF x, j
      <4> QED BY <1>0, <3>1, <4>1, DivTwice
    <3> HIDE DEF x, j
    <3> QED BY <2>3, <3>2
  <2> QED BY <1>1, <1>3, <2>1, <2>4
<1> QED BY SMTT(60), <1>2, <1>3

\* Where a bit of a code stands: in the byte of its first bit or in the next.
LEMMA BitPlace ==
    ASSUME NEW pos \in Nat, NEW j \in 0 .. 7
    PROVE  /\ (pos % 8) + j < 8 =>
                  (pos + j) \div 8 = pos \div 8 /\ (pos + j) % 8 = (pos % 8) + j
           /\ (pos % 8) + j >= 8 =>
                  (pos + j) \div 8 = pos \div 8 + 1 /\ (pos + j) % 8 = ((pos % 8) + j) - 8
OBVIOUS

\* A code stands in the stream bit by bit where _extract_bits reads it.
LEMMA CodeIsRead ==
    ASSUME leaf \in Leaves, NEW pos \in Nat, NEW w \in 1 .. 8, BitsPresent(pos, w),
           NEW c \in Nat, c < Pow2(w),
           \A j \in 0 .. w - 1 : StreamBit(leaf, pos + j) = (c \div Pow2(j)) % 2
    PROVE  ExtractBits(pos, w) = c
<1> DEFINE b == pos \div 8
           s == pos % 8
           low == Byte(b)
           high == IF b + 1 < Size THEN Byte(b + 1) ELSE 0
           y == (low + 256 * high) \div Pow2(s)
<1>1. b \in Nat /\ s \in 0 .. 7 /\ Size \in Nat /\ b <= (pos + w - 1) \div 8
  BY SizeType
<1>2. b \in 0 .. Size - 1
  BY <1>1 DEF BitsPresent
<1>3. low \in 0 .. 255
  <2> HIDE DEF b
  <2> QED BY <1>2, ByteType
<1>4. high \in 0 .. 255
  <2>1. b + 1 < Size => b + 1 \in 0 .. Size - 1
    BY <1>1
  <2> HIDE DEF b
  <2> QED BY <2>1, ByteType
<1>5. Window(b) = low + 256 * high
  <2> HIDE DEF b
  <2>1. low \in Int
    BY <1>3
  <2> QED BY <2>1 DEF Window
<1>6. y \in Nat
  <2> HIDE DEF low, high, s
  <2>1. low + 256 * high \in Nat /\ Pow2(s) \in Nat \ {0}
    BY <1>1, <1>3, <1>4, Pow2Type
  <2> QED BY <2>1, DivType
<1>7. ASSUME NEW j \in 0 .. w - 1 PROVE (y \div Pow2(j)) % 2 = (c \div Pow2(j)) % 2
  <2>0. j \in 0 .. 7
    OBVIOUS
  <2>1. (y \div Pow2(j)) % 2 = BitOfTwo(low, high, s + j)
    <3>1. low \in ByteValues /\ high \in ByteValues /\ s \in 0 .. 7
      BY <1>1, <1>3, <1>4 DEF ByteValues
    <3> HIDE DEF low, high, s
    <3>2. y = TwoBytes(low, high) \div Pow2(s)
      BY DEF TwoBytes
    <3> HIDE DEF y
    <3> QED BY ONLY <2>0, <3>1, <3>2, WindowBits, Zenon
  <2>2. StreamBit(leaf, pos + j) = (c \div Pow2(j)) % 2
    OBVIOUS
  <2>3. CASE s + j < 8
    <3>1. (pos + j) \div 8 = b /\ (pos + j) % 8 = s + j
      BY <2>0, <2>3, BitPlace
    <3>2. StreamBit(leaf, pos + j) = (low \div Pow2(s + j)) % 2
      BY <3>1 DEF StreamBit, Byte
    <3> QED BY <2>1, <2>2, <2>3, <3>2 DEF BitOfTwo
  <2>4. CASE s + j >= 8
    <3>1. (pos + j) \div 8 = b + 1 /\ (pos + j) % 8 = (s + j) - 8
      BY <2>0, <2>4, BitPlace
    <3>2. b + 1 < Size
      <4>1. (pos + j) \div 8 <= (pos + w - 1) \div 8
        OBVIOUS
      <4> HIDE DEF b
      <4> QED BY <1>1, <3>1, <4>1 DEF BitsPresent
    <3>3. StreamBit(leaf, pos + j) = (high \div Pow2((s + j) - 8)) % 2
      BY <3>1, <3>2 DEF StreamBit, Byte
    <3> QED BY <1>1, <2>1, <2>2, <2>4, <3>3 DEF BitOfTwo
  <2> QED BY <1>1, <2>3, <2>4
<1>8. y % Pow2(w) = c % Pow2(w)
  <2> HIDE DEF y
  <2> QED BY <1>6, <1>7, SameBits
<1>9. c % Pow2(w) = c
  <2>1. Pow2(w) \in Nat \ {0}
    BY Pow2Type
  <2> QED BY <2>1
<1> QED BY <1>5, <1>8, <1>9 DEF ExtractBits

-----------------------------------------------------------------------------
(* Labels *)

\* How many integers an interval has besides one.
LEMMA CountBut ==
    ASSUME NEW lo \in Int, NEW hi \in Int, lo <= hi + 1, NEW x
    PROVE  Cardinality((lo .. hi) \ {x}) = hi - lo + 1 - (IF x \in lo .. hi THEN 1 ELSE 0)
<1> DEFINE I == lo .. hi
<1>1. IsFiniteSet(I) /\ Cardinality(I) = hi - lo + 1
  <2>1. IsFiniteSet(I) /\ Cardinality(I) = IF lo > hi THEN 0 ELSE hi - lo + 1
    BY FS_Interval
  <2> HIDE DEF I
  <2> QED BY <2>1
<1> HIDE DEF I
<1>2. Cardinality(I \ {x}) = IF x \in I THEN Cardinality(I) - 1 ELSE Cardinality(I)
  BY <1>1, FS_RemoveElement
<1>3. Cardinality(I \ {x}) = hi - lo + 1 - (IF x \in I THEN 1 ELSE 0)
  BY <1>1, <1>2
<1> QED BY <1>3 DEF I

\* The corrections of the leaf are all classes but the prediction.
LEMMA CorrectionsAre ==
    ASSUME leaf \in Leaves
    PROVE  /\ Corrections(leaf) = AllClasses \ {leaf.prediction}
           /\ LowestClass \in Int /\ HighestClass \in Int
           /\ LowestClass <= HighestClass /\ HighestClass - LowestClass + 1 <= 256
           /\ IsLegacy => LowestClass = -1 /\ HighestClass = 1
           /\ ~IsLegacy => LowestClass = 0 /\ HighestClass = NClasses - 1
           /\ NClasses \in 0 .. 255 /\ leaf.prediction \in Int \cup {None}
<1>1. leaf.n_classes \in 0 .. 255 /\ leaf.prediction \in Int \cup {None}
  BY LeafAssumption, Zenon
<1>2. IsLegacy <=> leaf.n_classes \in {0, 3}
  BY DEF IsLegacy, NClasses
<1>3. Classes(leaf) = AllClasses
  BY <1>2 DEF Classes, AllClasses, LowestClass, HighestClass, NClasses
<1>4. Corrections(leaf) = AllClasses \ {leaf.prediction}
  BY <1>3 DEF Corrections
<1>5. NClasses \in 0 .. 255
  BY <1>1 DEF NClasses
<1> QED BY <1>1, <1>4, <1>5 DEF LowestClass, HighestClass, IsLegacy

\* There are as many of them as the code counts.
LEMMA CorrectionCount ==
    ASSUME leaf \in Leaves
    PROVE  /\ Cardinality(Corrections(leaf))
                  = IF Conditional THEN NumRemaining ELSE HighestClass - LowestClass + 1
           /\ NumRemaining \in 0 .. 256
           /\ HighestClass - LowestClass + 1 \in 0 .. 256
<1> DEFINE lo == LowestClass
           hi == HighestClass
           x == leaf.prediction
<1>1. /\ lo \in Int /\ hi \in Int /\ lo <= hi + 1 /\ lo <= hi /\ hi - lo + 1 <= 256
      /\ Corrections(leaf) = (lo .. hi) \ {x}
      /\ x \in Int \cup {None}
  BY CorrectionsAre DEF AllClasses
<1> HIDE DEF lo, hi, x
<1>2. Cardinality((lo .. hi) \ {x}) = hi - lo + 1 - (IF x \in lo .. hi THEN 1 ELSE 0)
  BY <1>1, CountBut
<1>3. x = None => x \notin lo .. hi
  BY <1>1, NoneAssumption
<1>4. NumRemaining = hi - lo + 1 - (IF x \in lo .. hi THEN 1 ELSE 0)
  BY DEF NumRemaining, Excludes, AllClasses, lo, hi, x
<1>5. Conditional <=> x # None
  BY DEF Conditional, x
<1>6. Cardinality((lo .. hi) \ {x}) = IF Conditional THEN NumRemaining ELSE hi - lo + 1
  BY <1>1, <1>2, <1>3, <1>4, <1>5
<1>7. NumRemaining \in 0 .. 256 /\ hi - lo + 1 \in 0 .. 256
  BY <1>1, <1>4
<1> QED BY <1>1, <1>6, <1>7 DEF lo, hi

\* The least width that is wide enough is BitWidth.
LEMMA LeastWidth ==
    ASSUME NEW m \in Nat, NEW w \in 1 .. 8, m <= Pow2(w), w > 1 => Pow2(w - 1) < m
    PROVE  BitWidth(m) = w
<1>0. \A v \in 0 .. 8 : Pow2(v) \in Nat
  BY Pow2Type
<1>1. CASE m <= 2
  <2>1. w > 1 => 2 <= Pow2(w - 1)
    <3>1. w \in {1, 2, 3, 4, 5, 6, 7, 8}
      OBVIOUS
    <3> QED BY <3>1, Pow2Is
  <2>2. w > 1 => Pow2(w - 1) \in Nat
    BY <1>0
  <2>3. w = 1
    BY <1>1, <2>1, <2>2
  <2> QED BY <1>1, <2>3 DEF BitWidth
<1>2. CASE m > 2
  <2>1. w # 1
    BY <1>2, Pow2Is
  <2>2. {v \in 0 .. 7 : Pow2(v) < m} = 0 .. w - 1
    <3>1. ASSUME NEW v \in 0 .. w - 1 PROVE v \in 0 .. 7 /\ Pow2(v) < m
      <4>1. Pow2(v) <= Pow2(w - 1)
        <5> DEFINE u == w - 1
        <5>1. u \in 0 .. 8 /\ v \in 0 .. u
          OBVIOUS
        <5> HIDE DEF u
        <5>2. Pow2(v) <= Pow2(u)
          BY <5>1, Pow2Ascends
        <5> QED BY <5>2 DEF u
      <4>2. v \in 0 .. 8 /\ w - 1 \in 0 .. 8
        OBVIOUS
      <4> QED BY <1>0, <2>1, <4>1, <4>2
    <3>2. ASSUME NEW v \in 0 .. 7, v >= w PROVE ~(Pow2(v) < m)
      <4>1. Pow2(w) <= Pow2(v)
        BY <3>2, Pow2Ascends
      <4> QED BY <1>0, <4>1
    <3>3. ASSUME NEW v \in 0 .. 7, Pow2(v) < m PROVE v \in 0 .. w - 1
      BY <3>2, <3>3
    <3> QED BY <3>1, <3>3
  <2>3. Cardinality(0 .. w - 1) = w
    <3> DEFINE u == w - 1
    <3>1. u \in Int /\ u >= 0 /\ u - 0 + 1 = w
      OBVIOUS
    <3> HIDE DEF u
    <3>2. Cardinality(0 .. u) = IF 0 > u THEN 0 ELSE u - 0 + 1
      BY <3>1, FS_Interval
    <3>3. Cardinality(0 .. u) = w
      BY <3>1, <3>2
    <3> QED BY <3>3 DEF u
  <2>4. BitWidth(m) = Cardinality({v \in 0 .. 7 : Pow2(v) < m})
    BY <1>2 DEF BitWidth
  <2> QED BY <2>2, <2>3, <2>4
<1> QED BY <1>1, <1>2

\* The width that the labels were written with is the one they are read with.
LEMMA SameWidth ==
    ASSUME leaf \in Leaves, NEW w \in 1 .. 8, IsWidth(leaf, w)
    PROVE  w = BitsPerLabel
<1>1. Conditional <=> leaf.prediction # None
  BY DEF Conditional
<1>2. IsLegacy <=> leaf.n_classes \in {0, 3}
  BY DEF IsLegacy, NClasses
<1>3. CASE ~Conditional /\ IsLegacy
  <2>1. w = 2
    BY <1>1, <1>2, <1>3 DEF IsWidth
  <2> QED BY <1>3, <2>1 DEF BitsPerLabel
<1>4. CASE ~(~Conditional /\ IsLegacy)
  <2> DEFINE m == Cardinality(Corrections(leaf))
  <2>1. m <= Pow2(w) /\ (w > 1 => Pow2(w - 1) < m)
    BY <1>1, <1>2, <1>4 DEF IsWidth
  <2>2. m \in Nat
    BY CorrectionCount
  <2>3. BitsPerLabel = BitWidth(m)
    <3>1. CASE Conditional
      BY <3>1, CorrectionCount DEF BitsPerLabel
    <3>2. CASE ~Conditional
      <4>1. m = NClasses
        BY <1>4, <3>2, CorrectionCount, CorrectionsAre
      <4> QED BY <1>4, <3>2, <4>1 DEF BitsPerLabel
    <3> QED BY <3>1, <3>2
  <2> HIDE DEF m
  <2>4. BitWidth(m) = w
    BY <2>1, <2>2, LeastWidth
  <2> QED BY <2>3, <2>4
<1> QED BY <1>3, <1>4

\* The code of a label is read as that label.
LEMMA CodeOfLabel ==
    ASSUME leaf \in Leaves, NEW label \in Corrections(leaf)
    PROVE  LET c == LabelCode(leaf, label)
           IN  /\ c \in Nat
               /\ c < Pow2(BitsPerLabel)
               /\ Conditional => c < NumRemaining
               /\ LabelOf(c) = label
<1> DEFINE lo == LowestClass
           hi == HighestClass
           x == leaf.prediction
           c == LabelCode(leaf, label)
           below == label - 1
<1>1. /\ lo \in Int /\ hi \in Int /\ lo <= hi /\ hi - lo + 1 <= 256
      /\ Corrections(leaf) = (lo .. hi) \ {x}
      /\ x \in Int \cup {None}
      /\ IsLegacy => lo = -1 /\ hi = 1
      /\ ~IsLegacy => lo = 0 /\ hi = NClasses - 1
      /\ NClasses \in 0 .. 255
  BY CorrectionsAre DEF AllClasses
<1>2. label \in lo .. hi /\ label # x
  BY <1>1
<1>3. below \in Int /\ lo <= below + 1 /\ below = label - 1
  BY <1>1, <1>2
<1>4. c = Cardinality((lo .. below) \ {x})
  <2>1. {d \in Corrections(leaf) : d < label} = (lo .. below) \ {x}
    BY <1>1, <1>2, <1>3
  <2> QED BY <2>1 DEF LabelCode
<1> HIDE DEF lo, hi, x, c, below
<1>5. Cardinality((lo .. below) \ {x})
          = below - lo + 1 - (IF x \in lo .. below THEN 1 ELSE 0)
  <2>1. lo \in Int /\ below \in Int /\ lo <= below + 1
    BY <1>1, <1>3
  <2> QED BY ONLY <2>1, CountBut
<1>6. c = label - lo - (IF x \in lo .. below THEN 1 ELSE 0)
  BY <1>1, <1>2, <1>3, <1>4, <1>5
<1>7. /\ Conditional <=> x # None
      /\ Excludes <=> x \in lo .. hi
      /\ NumRemaining = hi - lo + 1 - (IF x \in lo .. hi THEN 1 ELSE 0)
  BY DEF Conditional, Excludes, AllClasses, NumRemaining, lo, hi, x
<1>8. x = None => x \notin lo .. hi /\ x \notin lo .. below
  BY <1>1, <1>3, NoneAssumption
<1>9. c \in Nat /\ (Conditional => c < NumRemaining) /\ c < hi - lo + 1
  <2>1. CASE x \in lo .. below
    <3>1. lo <= x /\ x <= below /\ x \in Int
      BY <1>1, <1>3, <2>1
    <3> QED BY <1>1, <1>2, <1>3, <1>6, <1>7, <2>1, <3>1
  <2>2. CASE x \notin lo .. below
    <3>1. x \in lo .. hi => x > label /\ x \in Int
      BY <1>1, <1>2, <1>3, <2>2
    <3>2. c = label - lo
      BY <1>1, <1>2, <1>6, <2>2
    <3> QED BY <1>1, <1>2, <1>7, <3>1, <3>2
  <2> QED BY <2>1, <2>2
<1>10. LabelOf(c) = label
  <2>1. CASE Conditional
    <3>1. Remaining(c) = IF x \in lo .. hi /\ lo + c >= x THEN lo + c + 1 ELSE lo + c
      BY <1>7 DEF Remaining, lo, x
    <3>2. CASE x \in lo .. below
      <4>1. x \in lo .. hi /\ lo + c = label - 1 /\ x <= label - 1 /\ x \in Int
        BY <1>1, <1>2, <1>3, <1>6, <3>2
      <4> QED BY <1>2, <2>1, <3>1, <4>1 DEF LabelOf
    <3>3. CASE x \notin lo .. below
      <4>1. x \in lo .. hi => x > label
        BY <1>1, <1>2, <1>3, <3>3
      <4>2. lo + c = label
        BY <1>1, <1>2, <1>6, <3>3
      <4>3. x \in lo .. hi => ~(lo + c >= x)
        <5>1. x \in lo .. hi => x \in Int
          BY <1>1
        <5> QED BY <1>1, <1>2, <4>1, <4>2, <5>1
      <4> QED BY <2>1, <3>1, <4>2, <4>3 DEF LabelOf
    <3> QED BY <3>2, <3>3
  <2>2. CASE ~Conditional
    <3>1. c = label - lo
      BY <1>1, <1>2, <1>6, <1>7, <1>8, <2>2
    <3> QED BY <1>1, <1>2, <2>2, <3>1 DEF LabelOf
  <2> QED BY <2>1, <2>2
<1>11. c < Pow2(BitsPerLabel)
  <2>1. CASE Conditional
    <3> DEFINE m == NumRemaining
    <3>1. m \in 0 .. 256
      BY CorrectionCount
    <3>2. BitsPerLabel = BitWidth(m)
      BY <2>1 DEF BitsPerLabel
    <3>3. c < m
      BY <1>9, <2>1
    <3> HIDE DEF m
    <3>4. m <= Pow2(BitWidth(m)) /\ Pow2(BitWidth(m)) \in Nat
      <4>1. BitWidth(m) \in 0 .. 8
        BY <3>1, BitWidthType
      <4> QED BY <3>1, <4>1, BitWidthSuffices, Pow2Type
    <3> QED BY <1>9, <3>1, <3>2, <3>3, <3>4
  <2>2. CASE ~Conditional /\ IsLegacy
    <3>1. BitsPerLabel = 2 /\ c <= 2
      BY <1>1, <1>9, <2>2 DEF BitsPerLabel
    <3> QED BY <1>9, <3>1, Pow2Is
  <2>3. CASE ~Conditional /\ ~IsLegacy
    <3> DEFINE m == NClasses
    <3>1. m \in 0 .. 256 /\ c < m
      BY <1>1, <1>9, <2>3
    <3>2. BitsPerLabel = BitWidth(m)
      BY <2>3 DEF BitsPerLabel
    <3> HIDE DEF m
    <3>3. m <= Pow2(BitWidth(m)) /\ Pow2(BitWidth(m)) \in Nat
      <4>1. BitWidth(m) \in 0 .. 8
        BY <3>1, BitWidthType
      <4> QED BY <3>1, <4>1, BitWidthSuffices, Pow2Type
    <3> QED BY <1>9, <3>1, <3>2, <3>3
  <2> QED BY <2>1, <2>2, <2>3
<1> QED BY <1>9, <1>10, <1>11 DEF c

-----------------------------------------------------------------------------
(* What reading a written leaf has done *)

\* t is the beginning of s.
Begins(t, s) == Len(t) <= Len(s) /\ \A i \in 1 .. Len(t) : t[i] = s[i]

Written == leaf.blocks[block_id + 1]
Part == leaf.layout[block_id + 1]

\* The block being read is a written one.
TheBlock ==
    /\ block_id + 1 \in 1 .. Len(leaf.blocks)
    /\ BlockAt(leaf, block_id + 1)
    /\ k = Len(Written.indices)
    /\ n_b = PositionsOf(leaf, block_id + 1)

\* What has been read of it is what was written.
Progress ==
    /\ pc # "labels" => labels = <<>>
    /\ pc = "delta" =>
           /\ GapsAt(leaf, block_id + 1, Part.gaps[1])
           /\ Begins(indices, Written.indices)
           /\ offset = Part.gaps[Len(indices) + 1]
    /\ pc = "enum" => RankAt(leaf, block_id + 1, offset)
    /\ pc = "unrank" =>
           /\ Ranks(Written.indices, Part.ranks)
           /\ Remains(Written.indices, Part.ranks)
           /\ offset = Part.labels
    /\ pc = "bitmap" =>
           /\ BitmapAt(leaf, block_id + 1, offset)
           /\ Begins(indices, Written.indices)
           /\ \A i \in 1 .. k : Written.indices[i] < bit <=> i <= Len(indices)
    /\ pc = "labels" =>
           /\ indices = Written.indices
           /\ Begins(labels, Written.labels)
           /\ offset = Part.labels

\* What RoundTrip needs to be inductive.
ReadInv ==
    /\ pc # "error"
    /\ block_id <= Len(leaf.blocks)
    /\ \A i \in 1 .. Len(results) : results[i].data = leaf.blocks[i]
    /\ pc = "record" =>
           block_id + 1 \in DOMAIN leaf.layout /\ offset = Part.at
    /\ pc = "done" => block_id = Len(leaf.blocks) /\ offset = Size
    /\ InBlock => TheBlock /\ Progress

\* A rank of nothing is that of the first subset (decode_enum_rank's shortcut).
LEMMA RankOfFirst ==
    ASSUME PascalsRule, leaf \in Leaves, n_b \in Nat, k \in Nat,
           n_b <= BlockSize + leaf.n_leaf,
           NEW s, NEW R, IsRanking(s, R), R[k] = 0
    PROVE  \A m \in 1 .. k : s[m] = m - 1
<1>1. ASSUME NEW m \in 1 .. k
      PROVE  /\ s[m] \in Nat /\ s[m] + 1 <= n_b
             /\ Binom(s[m], m) <= R[m]
             /\ R[m] < Binom(s[m] + 1, m)
  BY RankBelow
<1>2. ASSUME NEW m \in 1 .. k
      PROVE  /\ R[m] = R[m - 1] + Binom(s[m], m)
             /\ R[m] \in Nat /\ R[m - 1] \in Nat /\ Binom(s[m], m) \in Nat
  <2>1. s[m] \in Int /\ s[m] <= BlockSize + leaf.n_leaf
    <3>1. BlockSize + leaf.n_leaf \in Int
      BY LeafAssumption DEF BlockSize
    <3> QED BY <1>1, <3>1
  <2>2. m \in 0 .. k /\ m - 1 \in 0 .. k /\ m \in Int
    OBVIOUS
  <2> DEFINE x == s[m]
  <2>3. Binom(x, m) \in Nat
    <3> HIDE DEF x
    <3>1. x \in Int /\ x <= BlockSize + leaf.n_leaf
      BY <2>1 DEF x
    <3> QED BY <2>2, <3>1, BinomType
  <2>4. R \in [0 .. k -> Nat] /\ R[m] = R[m - 1] + Binom(s[m], m)
    BY DEF IsRanking
  <2> QED BY <2>2, <2>3, <2>4
<1> DEFINE S == {d \in Nat : d <= k => R[k - d] = 0}
<1>3. 0 \in S
  OBVIOUS
<1>4. ASSUME NEW d \in Nat, d < k, d \in S PROVE d + 1 \in S
  <2> DEFINE m == k - d
  <2>1. m \in 1 .. k /\ k - (d + 1) = m - 1 /\ R[m] = 0
    BY <1>4
  <2> HIDE DEF m
  <2>2. R[m - 1] = 0
    BY <1>2, <2>1
  <2> QED BY <2>1, <2>2
<1>5. ASSUME NEW m \in 1 .. k PROVE R[m] = 0
  <2> DEFINE n == k - m
  <2>1. n \in Nat /\ n <= k /\ k - n = m
    OBVIOUS
  <2>2. \A d \in Nat : d < n /\ d \in S => d + 1 \in S
    <3>1. \A d \in Nat : d < n => d < k
      BY <2>1
    <3> HIDE DEF S, n
    <3> QED BY <1>4, <3>1
  <2>3. n \in S
    <3> HIDE DEF S, n
    <3> QED BY ONLY <1>3, <2>1, <2>2, SetInduction
  <2> QED BY <2>1, <2>3
<1>6. ASSUME NEW m \in 1 .. k PROVE s[m] = m - 1
  <2> DEFINE x == s[m]
  <2>1. x \in Nat /\ x + 1 <= n_b /\ Binom(x, m) <= 0 /\ 0 < Binom(x + 1, m)
        /\ Binom(x, m) \in Nat
    BY <1>1, <1>2, <1>5
  <2>2. x + 1 >= m
    BY <2>1 DEF Binom
  <2>3. ~(m <= x)
    <3> SUFFICES ASSUME m <= x PROVE FALSE
      OBVIOUS
    <3> HIDE DEF x
    <3>1. x <= BlockSize + leaf.n_leaf /\ m \in Nat
      <4>1. BlockSize + leaf.n_leaf \in Int
        BY LeafAssumption DEF BlockSize
      <4> QED BY <2>1, <4>1
    <3>2. Binom(m, m) <= Binom(x, m)
      BY <2>1, <3>1, ColumnAscends
    <3>3. Comb(m, m) = 1
      BY <3>1 DEF PascalsRule, PascalsRow
    <3>4. Binom(m, m) = 1
      BY <3>1, <3>3 DEF Binom
    <3> QED BY <2>1, <3>2, <3>4
  <2> QED BY <2>1, <2>2, <2>3
<1> QED BY <1>6

\* One element more of the sequence that is being read
LEMMA BeginsLonger ==
    ASSUME NEW t \in Seq(Int), NEW s \in Seq(Int), Begins(t, s), Len(t) < Len(s),
           NEW x \in Int, x = s[Len(t) + 1]
    PROVE  Begins(Append(t, x), s)
<1> DEFINE u == Append(t, x)
<1>1. /\ Len(u) = Len(t) + 1
      /\ u[Len(t) + 1] = x
      /\ \A i \in 1 .. Len(t) : u[i] = t[i]
  BY AppendFacts
<1> HIDE DEF u
<1>2. ASSUME NEW i \in 1 .. Len(u) PROVE u[i] = s[i]
  <2>1. CASE i = Len(t) + 1
    BY <1>1, <2>1
  <2>2. CASE i # Len(t) + 1
    <3>1. i \in 1 .. Len(t)
      BY <1>1, <2>2
    <3> QED BY <1>1, <3>1 DEF Begins
  <2> QED BY <2>1, <2>2
<1>3. Len(u) <= Len(s)
  BY <1>1
<1> QED BY <1>2, <1>3 DEF Begins, u

\* A beginning as long as the sequence is the sequence.
LEMMA BeginsAll ==
    ASSUME NEW t \in Seq(Int), NEW s \in Seq(Int), Begins(t, s), Len(t) = Len(s)
    PROVE  t = s
<1>1. /\ DOMAIN t = 1 .. Len(t) /\ DOMAIN s = 1 .. Len(s)
      /\ t = [i \in DOMAIN t |-> t[i]] /\ s = [i \in DOMAIN s |-> s[i]]
  OBVIOUS
<1>2. DOMAIN t = DOMAIN s /\ \A i \in DOMAIN t : t[i] = s[i]
  BY <1>1 DEF Begins
<1>3. [i \in DOMAIN t |-> t[i]] = [i \in DOMAIN s |-> s[i]]
  BY ONLY <1>2, Zenon
<1> QED BY ONLY <1>1, <1>3, Zenon

-----------------------------------------------------------------------------
(* Written leaves *)

\* A written leaf's blocks are as many as its header says.
LEMMA BlocksOfLeaf ==
    ASSUME leaf \in Leaves, IsWritten(leaf)
    PROVE  /\ leaf.blocks \in Seq({None} \cup [indices : Seq(Int), labels : Seq(Int)])
           /\ leaf.num_blocks = Len(leaf.blocks)
           /\ Len(leaf.blocks) \in Nat
BY DEF IsWritten

\* What is known of the written block while it is read.
LEMMA BlockFacts ==
    ASSUME IInv, leaf \in Leaves, IsWritten(leaf), TheBlock
    PROVE  /\ Written \in [indices : Seq(Int), labels : Seq(Int)]
           /\ Written.indices \in Seq(Int)
           /\ Written.indices \in Seq(0 .. n_b - 1)
           /\ \A i \in 1 .. k : Written.indices[i] \in 0 .. n_b - 1
           /\ Ascending(Written.indices)
           /\ k = Len(Written.indices) /\ k \in Nat \ {0}
           /\ Written.labels \in Seq(Int)
           /\ Len(Written.labels) = k
           /\ \A i \in 1 .. k : Written.labels[i] \in Corrections(leaf)
           /\ LabelsAt(leaf, block_id + 1)
           /\ (block_id + 1) + 1 \in DOMAIN leaf.layout
           /\ block_id \in Nat /\ n_b \in Nat
<1>1. /\ block_id + 1 \in 1 .. Len(leaf.blocks)
      /\ BlockAt(leaf, block_id + 1)
      /\ k = Len(Written.indices)
      /\ n_b = PositionsOf(leaf, block_id + 1)
  BY DEF TheBlock
<1>2. /\ Written # None
      /\ IsSubset(Written.indices, PositionsOf(leaf, block_id + 1))
      /\ Written.labels \in Seq(Corrections(leaf))
      /\ Len(Written.labels) = Len(Written.indices)
      /\ (block_id + 1) + 1 \in DOMAIN leaf.layout
      /\ LabelsAt(leaf, block_id + 1)
  BY <1>1 DEF BlockAt, Written
<1>3. Written \in {None} \cup [indices : Seq(Int), labels : Seq(Int)]
  <2> DEFINE B == {None} \cup [indices : Seq(Int), labels : Seq(Int)]
  <2>1. leaf.blocks \in Seq(B)
    BY BlocksOfLeaf
  <2> HIDE DEF B
  <2>2. leaf.blocks[block_id + 1] \in B
    BY ONLY <1>1, <2>1, ElementType, Zenon
  <2> QED BY <2>2 DEF Written, B
<1>4. Written \in [indices : Seq(Int), labels : Seq(Int)]
  BY <1>2, <1>3
<1>5. Written.indices \in Seq(Int) /\ Written.labels \in Seq(Int)
  BY <1>4
<1>6. Written.indices \in Seq(0 .. n_b - 1) /\ Written.indices # <<>>
      /\ Ascending(Written.indices)
  BY <1>1, <1>2 DEF IsSubset
<1>7. k \in Nat \ {0}
  BY <1>1, <1>5, <1>6
<1>8. \A i \in 1 .. k : Written.indices[i] \in 0 .. n_b - 1
  BY ONLY <1>1, <1>6, ElementType, Zenon
<1>9. \A i \in 1 .. k : Written.labels[i] \in Corrections(leaf)
  BY ONLY <1>1, <1>2, ElementType, Zenon
<1>10. block_id \in Nat /\ n_b \in Nat
  BY DEF IInv, TypeOK
<1> QED BY <1>1, <1>2, <1>4, <1>5, <1>6, <1>7, <1>8, <1>9, <1>10

\* A step inside a block goes on with the same block.
LEMMA SameBlockRead ==
    ASSUME TheBlock, UNCHANGED <<leaf, block_id, k, n_b>>
    PROVE  TheBlock'
BY DEF TheBlock, Written

\* What such a step has to show.
LEMMA ReadsOn ==
    ASSUME ReadInv, InBlock, InBlock', UNCHANGED <<leaf, block_id, results, k, n_b>>,
           Progress'
    PROVE  ReadInv'
<1>1. TheBlock'
  BY SameBlockRead DEF ReadInv
<1> QED BY <1>1 DEF ReadInv, InBlock

-----------------------------------------------------------------------------
(* Each action keeps to what was written *)

\* One gap.
LEMMA DeltaGapReads ==
    ASSUME IInv, leaf \in Leaves, IsWritten(leaf), ReadInv, DeltaGap
    PROVE  ReadInv'
<1> DEFINE s == Written.indices
           i == Len(indices) + 1
           b == block_id + 1
           gap == Uvarint(leaf.stream, offset)
<1>1. pc = "delta" /\ Len(indices) < k /\ InBlock /\ TheBlock /\ Progress
  BY DEF DeltaGap, ReadInv, InBlock
<1>2. /\ k = Len(s) /\ k \in Nat /\ s \in Seq(Int) /\ \A m \in 1 .. k : s[m] \in Int
      /\ indices \in Seq(Int) /\ Len(indices) \in Nat /\ i \in 1 .. k
  BY <1>1, BlockFacts DEF IInv, TypeOK
<1>3. /\ GapsAt(leaf, b, Part.gaps[1])
      /\ Len(indices) <= Len(s) /\ \A m \in 1 .. Len(indices) : indices[m] = s[m]
      /\ offset = Part.gaps[i]
      /\ labels = <<>>
  BY <1>1 DEF Progress, Begins
<1>4. VarintAt(leaf, Part.gaps[i], GapBefore(s, i), Part.gaps[i + 1])
  BY <1>2, <1>3 DEF GapsAt, Part, Written
<1>5. gap # None /\ gap.value = GapBefore(s, i) /\ gap.next = Part.gaps[i + 1]
  BY <1>3, <1>4 DEF VarintAt
<1>6. /\ indices' = Append(indices, IndexAfterGap(gap.value))
      /\ offset' = gap.next
      /\ UNCHANGED <<leaf, pc, block_id, results, n_b, encoding, k, labels, rank, bit>>
  BY <1>5 DEF DeltaGap
<1>7. IndexAfterGap(gap.value) = s[i]
  <2>1. CASE indices = <<>>
    BY <1>2, <1>5, <2>1 DEF IndexAfterGap, GapBefore
  <2>2. CASE indices # <<>>
    <3>1. i # 1 /\ i - 1 = Len(indices) /\ i - 1 \in 1 .. k
      BY <1>2, <2>2
    <3>2. indices[Len(indices)] = s[i - 1] /\ s[i - 1] \in Int /\ s[i] \in Int
      BY <1>2, <1>3, <3>1
    <3>3. gap.value = s[i] - s[i - 1] - 1
      BY <1>5, <3>1 DEF GapBefore
    <3>4. IndexAfterGap(gap.value) = s[i - 1] + 1 + gap.value
      BY <2>2, <3>2 DEF IndexAfterGap
    <3> QED BY <3>2, <3>3, <3>4
  <2> QED BY <2>1, <2>2
<1>8. Len(indices') = i
  BY <1>2, <1>6, <1>7, AppendFacts
<1>9. Begins(indices', s)
  <2> DEFINE x == s[i]
  <2>1. /\ x \in Int /\ x = s[Len(indices) + 1] /\ Len(indices) < Len(s)
        /\ indices' = Append(indices, x) /\ Begins(indices, s)
    BY <1>1, <1>2, <1>3, <1>6, <1>7 DEF Begins
  <2> HIDE DEF x, s
  <2>2. Begins(Append(indices, x), s)
    BY <1>2, <2>1, BeginsLonger
  <2> QED BY <2>1, <2>2
<1>10. Written' = Written /\ Part' = Part /\ block_id' + 1 = b
  BY <1>6 DEF Written, Part
<1>11. Progress'
  BY <1>1, <1>3, <1>5, <1>6, <1>8, <1>9, <1>10 DEF Progress
<1> QED BY <1>1, <1>6, <1>11, ReadsOn DEF InBlock

\* A list of the first k numbers is the subset that FirstSubset makes.
LEMMA FirstSubsetIs ==
    ASSUME NEW s \in Seq(Int), k \in Nat, Len(s) = k, \A m \in 1 .. k : s[m] = m - 1
    PROVE  FirstSubset = s
<1>1. DOMAIN s = 1 .. k /\ s = [m \in DOMAIN s |-> s[m]]
  OBVIOUS
<1> QED BY <1>1 DEF FirstSubset

\* The rank, and with no bytes the subset.
LEMMA EnumRankReads ==
    ASSUME PascalsRule, IInv, leaf \in Leaves, IsWritten(leaf), ReadInv, EnumRank
    PROVE  ReadInv'
<1> DEFINE s == Written.indices
           R == Part.ranks
           to == Part.labels
           b == block_id + 1
           rank_len == Uvarint(leaf.stream, offset)
<1>1. pc = "enum" /\ InBlock /\ TheBlock /\ Progress
  BY DEF EnumRank, ReadInv, InBlock
<1>2. /\ k = Len(s) /\ k \in Nat \ {0} /\ s \in Seq(Int) /\ s \in Seq(0 .. n_b - 1)
      /\ Ascending(s) /\ n_b \in Nat
      /\ n_b <= BlockSize + leaf.n_leaf /\ indices = <<>> /\ labels = <<>>
  BY <1>1, BlockFacts DEF IInv, TypeOK, Control, Progress
<1>3. RankAt(leaf, b, offset)
  BY SMTT(60), <1>1 DEF Progress
<1>4. /\ Ranks(s, R)
      /\ to \in 0 .. Len(leaf.stream)
      /\ \E bytes \in 0 .. to :
             /\ VarintAt(leaf, offset, bytes, to - bytes)
             /\ R[k] = IF bytes = 0 THEN 0
                       ELSE FromBytes(SubSeq(leaf.stream, to - bytes + 1, to))
  BY <1>2, <1>3 DEF RankAt, Written, Part
<1>5. PICK bytes \in 0 .. to :
          /\ VarintAt(leaf, offset, bytes, to - bytes)
          /\ R[k] = IF bytes = 0 THEN 0
                    ELSE FromBytes(SubSeq(leaf.stream, to - bytes + 1, to))
  BY <1>4
<1>6. rank_len # None /\ rank_len.value = bytes /\ rank_len.next = to - bytes
  BY <1>5 DEF VarintAt
<1>7. IsRanking(s, R)
  BY <1>2, <1>4 DEF IsRanking, Ranks
<1>8. Len(leaf.stream) \in Nat /\ to \in Nat /\ to <= Len(leaf.stream) /\ bytes <= to
      /\ bytes \in Nat
  BY <1>4, SizeType DEF Size
<1> HIDE DEF s, R, to, rank_len
<1>9. CASE bytes = 0
  <2>1. /\ indices' = FirstSubset
        /\ offset' = rank_len.next
        /\ pc' = "labels"
        /\ UNCHANGED <<leaf, block_id, results, n_b, encoding, k, labels, rank, bit>>
    BY <1>6, <1>9 DEF EnumRank, rank_len
  <2>2. \A m \in 1 .. k : s[m] = m - 1
    <3>1. R[k] = 0 /\ k \in Nat
      BY <1>2, <1>5, <1>9
    <3> QED BY <1>2, <1>7, <3>1, RankOfFirst
  <2>3. FirstSubset = s
    BY <1>2, <2>2, FirstSubsetIs
  <2>4. Written' = Written /\ Part' = Part
    BY <2>1 DEF Written, Part
  <2>5. labels' = <<>> /\ Begins(labels', Written'.labels)
    <3>1. Len(Written.labels) \in Nat
      BY <1>1, BlockFacts
    <3> QED BY <1>2, <2>1, <2>4, <3>1 DEF Begins
  <2>6. offset' = Part'.labels
    BY <1>6, <1>8, <1>9, <2>1, <2>4 DEF to
  <2>7. Progress'
    BY <2>1, <2>3, <2>4, <2>5, <2>6 DEF Progress, s
  <2> QED BY <1>1, <2>1, <2>7, ReadsOn DEF InBlock
<1>10. CASE bytes # 0
  <2>1. /\ rank' = FromBytes(RankBytes(leaf.stream, rank_len))
        /\ offset' = rank_len.next + rank_len.value
        /\ pc' = "unrank"
        /\ UNCHANGED <<leaf, block_id, results, n_b, encoding, k, indices, labels, bit>>
    BY <1>6, <1>10 DEF EnumRank, rank_len
  <2>2. RankBytes(leaf.stream, rank_len) = SubSeq(leaf.stream, to - bytes + 1, to)
    <3>1. Lesser(rank_len.next + rank_len.value, Len(leaf.stream)) = to
      BY <1>6, <1>8 DEF Lesser
    <3> QED BY <1>6, <3>1 DEF RankBytes
  <2>3. rank' = R[k]
    BY <1>5, <1>10, <2>1, <2>2
  <2>4. Written' = Written /\ Part' = Part
    BY <2>1 DEF Written, Part
  <2>5. Remains(s, R)'
    <3>1. s' = s /\ R' = R
      BY <2>4 DEF s, R
    <3>2. k' = k /\ indices' = <<>> /\ Len(indices') = 0
      BY <1>2, <2>1
    <3>3. k' - Len(indices') = k
      BY <1>2, <3>2
    <3> QED BY <2>3, <3>1, <3>2, <3>3 DEF Remains
  <2>6. Ranks(s, R)'
    BY <1>4, <2>4 DEF s, R, Ranks
  <2>7. offset' = Part'.labels
    BY <1>6, <1>8, <2>1, <2>4 DEF to
  <2>8. Progress'
    BY <1>2, <2>1, <2>5, <2>6, <2>7 DEF Progress, s, R
  <2> QED BY <1>1, <2>1, <2>8, ReadsOn DEF InBlock
<1> QED BY <1>9, <1>10

\* One element of the subset.
LEMMA UnrankReads ==
    ASSUME PascalsRule, IInv, leaf \in Leaves, IsWritten(leaf), ReadInv, Unrank
    PROVE  ReadInv'
<1> DEFINE s == Written.indices
           R == Part.ranks
<1>1. /\ pc = "unrank" /\ InBlock /\ TheBlock /\ Progress
      /\ UNCHANGED <<leaf, pc, offset, block_id, results, n_b, encoding, k, labels, bit>>
  BY DEF Unrank, ReadInv, InBlock
<1>2. /\ k = Len(s) /\ s \in Seq(0 .. n_b - 1) /\ Ascending(s)
  BY <1>1, BlockFacts
<1>3. Ranks(s, R) /\ Remains(s, R) /\ offset = Part.labels /\ labels = <<>>
  BY <1>1 DEF Progress
<1>4. IsRanking(s, R)
  BY <1>2, <1>3 DEF IsRanking, Ranks
<1>5. Written' = Written /\ Part' = Part
  BY <1>1 DEF Written, Part
<1>6. s' = s /\ R' = R
  BY <1>5
<1> HIDE DEF s, R
<1>7. Remains(s, R)'
  BY <1>3, <1>4, <1>6, UnrankInverts DEF Remains
<1>8. Ranks(s, R)'
  BY <1>3, <1>6 DEF Ranks
<1>9. Progress'
  BY <1>1, <1>3, <1>5, <1>7, <1>8 DEF Progress, s, R
<1> QED BY <1>1, <1>9, ReadsOn DEF InBlock

\* The whole bitmap is in the stream.
LEMMA BitmapFacts ==
    ASSUME IInv, leaf \in Leaves, TheBlock, NEW from \in Nat, BitmapAt(leaf, block_id + 1, from),
           n_b \in Nat
    PROVE  /\ Part.labels = from + NumBytes(n_b)
           /\ from + NumBytes(n_b) <= Size
           /\ Size \in Nat /\ NumBytes(n_b) \in Nat /\ n_b <= 8 * NumBytes(n_b)
           /\ \A p \in 0 .. n_b - 1 :
                  StreamBit(leaf, 8 * from + p) = 1
                      <=> \E i \in 1 .. Len(Written.indices) : Written.indices[i] = p
<1>1. n_b = PositionsOf(leaf, block_id + 1)
  BY DEF TheBlock
<1>2. /\ Part.labels = from + NumBytes(n_b)
      /\ Part.labels <= Size
      /\ \A p \in 0 .. n_b - 1 :
             StreamBit(leaf, 8 * from + p) = 1
                 <=> \E i \in 1 .. Len(Written.indices) : Written.indices[i] = p
  BY <1>1 DEF BitmapAt, Part, Written, Size
<1>3. NumBytes(n_b) \in Nat /\ n_b <= 8 * NumBytes(n_b)
  BY DEF NumBytes
<1> QED BY <1>2, <1>3, SizeType

\* One bit of the bitmap.
LEMMA BitmapBitReads ==
    ASSUME IInv, leaf \in Leaves, IsWritten(leaf), ReadInv, BitmapBit
    PROVE  ReadInv'
<1> DEFINE s == Written.indices
           n == Len(indices)
<1>1. /\ pc = "bitmap" /\ InBlock /\ TheBlock /\ Progress /\ bit < BitmapBits
      /\ bit' = bit + 1
      /\ indices' = IF BitCounts THEN Append(indices, bit) ELSE indices
      /\ UNCHANGED <<leaf, pc, offset, block_id, results, n_b, encoding, k, labels, rank>>
  BY DEF BitmapBit, ReadInv, InBlock
<1>2. /\ k = Len(s) /\ k \in Nat /\ s \in Seq(Int) /\ Ascending(s)
      /\ \A i \in 1 .. k : s[i] \in 0 .. n_b - 1
      /\ n_b \in Nat /\ indices \in Seq(Int) /\ n \in Nat /\ bit \in Nat /\ offset \in Nat
  BY <1>1, BlockFacts DEF IInv, TypeOK
<1>3. /\ BitmapAt(leaf, block_id + 1, offset)
      /\ Begins(indices, s) /\ n <= k
      /\ \A i \in 1 .. k : s[i] < bit <=> i <= n
      /\ labels = <<>>
  BY <1>1, <1>2 DEF Progress, Begins
<1>4. \A p \in 0 .. n_b - 1 :
          StreamBit(leaf, 8 * offset + p) = 1 <=> \E i \in 1 .. k : s[i] = p
  BY <1>1, <1>2, <1>3, BitmapFacts
<1>5. StreamBit(leaf, 8 * offset + bit) = 1 <=> BitSet
  <2>1. (8 * offset + bit) \div 8 = offset + bit \div 8 /\ (8 * offset + bit) % 8 = bit % 8
    BY <1>2
  <2> QED BY <2>1 DEF StreamBit, BitSet, Byte
<1>6. BitCounts <=> \E i \in 1 .. k : s[i] = bit
  <2>1. CASE bit < n_b
    <3>1. bit \in 0 .. n_b - 1
      BY <1>2, <2>1
    <3> QED BY <1>4, <1>5, <2>1, <3>1 DEF BitCounts
  <2>2. CASE ~(bit < n_b)
    BY <1>2, <2>2 DEF BitCounts
  <2> QED BY <2>1, <2>2
<1>7. Written' = Written /\ Part' = Part
  BY <1>1 DEF Written, Part
<1>8. BitmapAt(leaf, block_id + 1, offset)'
  <2>1. leaf' = leaf /\ (block_id + 1)' = block_id + 1 /\ offset' = offset
    BY <1>1
  <2> QED BY <1>3, <2>1
<1> HIDE DEF s
<1>9. Begins(indices', s) /\ \A i \in 1 .. k : s[i] < bit + 1 <=> i <= Len(indices')
  <2>1. CASE BitCounts
    <3>1. PICK i \in 1 .. k : s[i] = bit
      BY <1>6, <2>1
    <3>2. i > n
      BY <1>2, <1>3, <3>1
    <3>3. i = n + 1
      <4> SUFFICES ASSUME i # n + 1 PROVE FALSE
        OBVIOUS
      <4>1. n + 1 \in 1 .. k /\ n + 1 < i /\ ~(n + 1 <= n)
        BY SMTT(60), <1>2, <3>2
      <4>2. s[n + 1] < s[i]
        BY <1>2, <4>1 DEF Ascending
      <4> QED BY <1>3, <3>1, <4>1, <4>2
    <3>4. Begins(Append(indices, bit), s)
      <4>1. bit \in Int /\ bit = s[Len(indices) + 1] /\ Len(indices) < Len(s)
        BY <1>2, <3>1, <3>3
      <4> QED BY <1>2, <1>3, <4>1, BeginsLonger
    <3>5. indices' = Append(indices, bit) /\ Len(indices') = n + 1
      <4>1. indices' = Append(indices, bit) /\ bit \in Int
        BY <1>1, <1>2, <2>1
      <4> QED BY <1>2, <4>1, AppendFacts
    <3>6. ASSUME NEW m \in 1 .. k PROVE s[m] < bit + 1 <=> m <= n + 1
      <4>1. s[m] \in Int
        BY <1>2
      <4>2. m < i => s[m] < s[i]
        BY <1>2 DEF Ascending
      <4>3. i < m => s[i] < s[m]
        BY <1>2 DEF Ascending
      <4> QED BY SMTT(60), <1>2, <3>1, <3>3, <4>1, <4>2, <4>3
    <3> QED BY <3>4, <3>5, <3>6
  <2>2. CASE ~BitCounts
    <3>1. indices' = indices
      BY <1>1, <2>2
    <3>2. \A i \in 1 .. k : s[i] # bit /\ s[i] \in Int
      BY <1>2, <1>6, <2>2
    <3>3. \A i \in 1 .. k : s[i] < bit + 1 <=> s[i] < bit
      BY <1>2, <3>2
    <3> QED BY <1>3, <3>1, <3>3
  <2> QED BY <2>1, <2>2
<1>10. Progress'
  BY <1>1, <1>3, <1>7, <1>8, <1>9 DEF Progress, s
<1> QED BY <1>1, <1>10, ReadsOn DEF InBlock

\* The indices are complete.
LEMMA IndicesReadReads ==
    ASSUME IInv, leaf \in Leaves, IsWritten(leaf), ReadInv, IndicesRead
    PROVE  ReadInv'
<1> DEFINE s == Written.indices
<1>1. /\ InBlock /\ TheBlock /\ Progress
      /\ pc \in {"delta", "unrank", "enum", "bitmap"}
      /\ pc' = "labels"
      /\ UNCHANGED <<leaf, block_id, results, n_b, encoding, k, indices, labels, rank, bit>>
  BY DEF IndicesRead, ReadInv, InBlock, block
<1>2. /\ k = Len(s) /\ k \in Nat \ {0} /\ s \in Seq(Int) /\ n_b \in Nat
      /\ \A i \in 1 .. k : s[i] \in 0 .. n_b - 1
      /\ Len(Written.labels) \in Nat
      /\ indices \in Seq(Int) /\ Len(indices) \in Nat /\ bit \in Nat /\ offset \in Nat
  BY <1>1, BlockFacts DEF IInv, TypeOK
<1>3. Begins(indices, s) /\ Len(indices) = k /\ offset' = Part.labels
  <2>1. CASE pc = "delta"
    <3>1. Len(indices) = k /\ offset' = offset
      BY <2>1 DEF IndicesRead
    <3>2. /\ GapsAt(leaf, block_id + 1, Part.gaps[1]) /\ Begins(indices, s)
          /\ offset = Part.gaps[Len(indices) + 1]
      BY <1>1, <2>1 DEF Progress
    <3>3. Part.gaps[k + 1] = Part.labels
      BY <1>2, <3>2 DEF GapsAt, Part, Written
    <3> QED BY <3>1, <3>2, <3>3
  <2>2. CASE pc = "unrank"
    <3>1. Len(indices) = k /\ offset' = offset
      BY <2>2 DEF IndicesRead
    <3>2. Remains(s, Part.ranks) /\ offset = Part.labels
      BY <1>1, <2>2 DEF Progress
    <3>3. \A m \in 1 .. k : indices[m] = s[m]
      <4>1. k - Len(indices) = 0
        BY <1>2, <3>1
      <4>2. \A m \in 1 .. k : indices[m] = s[0 + m]
        BY <3>1, <3>2, <4>1 DEF Remains
      <4> QED BY <4>2
    <3> QED BY <1>2, <3>1, <3>2, <3>3 DEF Begins
  <2>3. CASE pc = "enum"
    BY <1>2, <2>3 DEF IndicesRead
  <2>4. CASE pc = "bitmap"
    <3>1. bit >= BitmapBits /\ offset' = offset + NumBytes(n_b)
      BY <2>4 DEF IndicesRead
    <3>2. /\ BitmapAt(leaf, block_id + 1, offset) /\ Begins(indices, s)
          /\ \A i \in 1 .. k : s[i] < bit <=> i <= Len(indices)
      BY <1>1, <2>4 DEF Progress
    <3>3. /\ Part.labels = offset + NumBytes(n_b)
          /\ offset + NumBytes(n_b) <= Size
          /\ Size \in Nat /\ NumBytes(n_b) \in Nat /\ n_b <= 8 * NumBytes(n_b)
      BY <1>1, <1>2, <3>2, BitmapFacts
    <3>4. BitmapBits = 8 * NumBytes(n_b)
      BY <1>2, <3>3 DEF BitmapBits, Lesser
    <3>5. n_b <= bit
      BY <1>2, <3>1, <3>3, <3>4
    <3>6. s[k] < bit /\ k \in 1 .. k
      BY SMTT(60), <1>2, <3>5
    <3>7. k <= Len(indices)
      BY <3>2, <3>6
    <3> QED BY <1>2, <3>1, <3>2, <3>3, <3>7 DEF Begins
  <2> QED BY <1>1, <2>1, <2>2, <2>3, <2>4
<1>4. indices = s
  <2> HIDE DEF s
  <2> QED BY <1>2, <1>3, BeginsAll
<1>5. Written' = Written /\ Part' = Part
  BY <1>1 DEF Written, Part
<1>6. labels' = <<>> /\ Begins(labels', Written'.labels)
  <2>1. labels = <<>>
    BY <1>1 DEF Progress
  <2> QED BY <1>1, <1>2, <1>5, <2>1 DEF Begins
<1>7. Progress'
  BY <1>1, <1>3, <1>4, <1>5, <1>6 DEF Progress
<1> QED BY <1>1, <1>7, ReadsOn DEF InBlock

\* Bits up to the last of so many bytes are in them.
LEMMA InBytes ==
    ASSUME NEW from \in Nat, NEW bits \in Nat, NEW size \in Nat, NEW pos \in Nat, NEW w \in 1 .. 8,
           from + NumBytes(bits) <= size, pos + w <= 8 * from + bits
    PROVE  (pos + w - 1) \div 8 < size
<1> DEFINE q == NumBytes(bits)
<1>1. q \in Nat /\ bits <= 8 * q
  BY DEF NumBytes
<1> HIDE DEF q
<1>2. pos + w - 1 \in Nat /\ pos + w - 1 < 8 * size
  BY <1>1 DEF q
<1> DEFINE x == pos + w - 1
<1>3. x \in Nat /\ x < 8 * size
  BY <1>2
<1> HIDE DEF x
<1>4. x \div 8 < size
  BY <1>3
<1> QED BY <1>4 DEF x

\* A product before another.
LEMMA ProductBefore ==
    ASSUME NEW i \in Nat, NEW m \in Nat, NEW w \in Nat, i < m
    PROVE  i * w \in Nat /\ m * w \in Nat /\ i * w + w <= m * w
<1>1. i * w \in Nat /\ m * w \in Nat
  OBVIOUS
<1>2. (i + 1) * w <= m * w
  <2>1. \A u, v \in Nat : u <= v => u * w <= v * w
    OBVIOUS
  <2> QED BY <2>1
<1>3. (i + 1) * w = i * w + w
  OBVIOUS
<1> QED BY <1>1, <1>2, <1>3

\* The labels of the block and where they end, in the width they are read with
LEMMA LabelFacts ==
    ASSUME IInv, leaf \in Leaves, IsWritten(leaf), TheBlock
    PROVE  LET w == BitsPerLabel
               from == Part.labels
               end == leaf.layout[(block_id + 1) + 1].at
           IN  /\ end = from + NumBytes(k * w)
               /\ end <= Size
               /\ \A i \in 1 .. k : \A j \in 0 .. w - 1 :
                      StreamBit(leaf, 8 * from + (i - 1) * w + j)
                          = (LabelCode(leaf, Written.labels[i]) \div Pow2(j)) % 2
<1>1. LabelsAt(leaf, block_id + 1) /\ Len(Written.labels) = k
  BY BlockFacts
<1>2. PICK w \in 1 .. 8 :
          /\ IsWidth(leaf, w)
          /\ leaf.layout[(block_id + 1) + 1].at = Part.labels + NumBytes(k * w)
          /\ leaf.layout[(block_id + 1) + 1].at <= Size
          /\ \A i \in 1 .. k : \A j \in 0 .. w - 1 :
                 StreamBit(leaf, 8 * Part.labels + (i - 1) * w + j)
                     = (LabelCode(leaf, Written.labels[i]) \div Pow2(j)) % 2
  BY <1>1 DEF LabelsAt, Part, Written, Size
<1>3. w = BitsPerLabel
  BY <1>2, SameWidth
<1> QED BY <1>2, <1>3

\* One label.
LEMMA LabelReads ==
    ASSUME IInv, leaf \in Leaves, IsWritten(leaf), ReadInv, Label
    PROVE  ReadInv'
<1> DEFINE w == BitsPerLabel
           n == Len(labels)
           i == n + 1
           label == Written.labels[i]
           c == LabelCode(leaf, label)
           x == n * w
           pos == 8 * offset + x
<1>1. pc = "labels" /\ n < k /\ InBlock /\ TheBlock /\ Progress
  BY DEF Label, ReadInv, InBlock
<1>2. /\ k \in Nat /\ Written.labels \in Seq(Int) /\ Len(Written.labels) = k
      /\ \A m \in 1 .. k : Written.labels[m] \in Corrections(leaf)
      /\ labels \in Seq(Int) /\ n \in Nat /\ i \in 1 .. k /\ i - 1 = n
      /\ offset \in Nat
  BY <1>1, BlockFacts DEF IInv, TypeOK
<1>3. indices = Written.indices /\ Begins(labels, Written.labels) /\ offset = Part.labels
  BY <1>1 DEF Progress
<1>4. w \in 1 .. 8
  BY BitsPerLabelType
<1>5. /\ offset + NumBytes(k * w) <= Size
      /\ \A j \in 0 .. w - 1 : StreamBit(leaf, 8 * offset + n * w + j) = (c \div Pow2(j)) % 2
  BY <1>1, <1>2, <1>3, LabelFacts
<1>6. label \in Corrections(leaf) /\ label \in Int
  BY <1>2
<1>7. c \in Nat /\ c < Pow2(w) /\ (Conditional => c < NumRemaining) /\ LabelOf(c) = label
  <2> HIDE DEF label
  <2> QED BY <1>6, CodeOfLabel
<1>8. x \in Nat /\ k * w \in Nat /\ x + w <= k * w
  <2>1. w \in Nat
    BY <1>4
  <2> HIDE DEF w, n
  <2> QED BY <1>1, <1>2, <2>1, ProductBefore
<1> HIDE DEF w, c, x, label, n
<1>9. pos \in Nat /\ pos + w <= 8 * offset + k * w
  BY <1>2, <1>4, <1>8
<1>10. BitsPresent(pos, w)
  <2>1. Size \in Nat
    BY SizeType
  <2> HIDE DEF pos
  <2>2. (pos + w - 1) \div 8 < Size
    <3> DEFINE bits == k * w
    <3>1. bits \in Nat /\ offset + NumBytes(bits) <= Size /\ pos + w <= 8 * offset + bits
          /\ pos \in Nat
      BY <1>5, <1>8, <1>9
    <3> HIDE DEF bits
    <3> QED BY <1>2, <1>4, <2>1, <3>1, InBytes
  <2> QED BY <2>2 DEF BitsPresent
<1>11. ExtractBits(pos, w) = c
  <2>1. \A j \in 0 .. w - 1 : StreamBit(leaf, pos + j) = (c \div Pow2(j)) % 2
    BY <1>5 DEF x
  <2> HIDE DEF pos
  <2> QED BY <1>4, <1>7, <1>9, <1>10, <2>1, CodeIsRead
<1>12. /\ labels' = Append(labels, label)
       /\ UNCHANGED <<leaf, pc, offset, block_id, results, n_b, encoding, k,
                      indices, rank, bit>>
  <2>1. 8 * offset + Len(labels) * BitsPerLabel = pos
    BY DEF x, w, n
  <2> HIDE DEF pos
  <2>2. ~(~BitsPresent(pos, w)) /\ ~(Conditional /\ c >= NumRemaining)
    <3>1. NumRemaining \in Int
      BY CorrectionCount
    <3> QED BY <1>7, <1>10, <3>1
  <2>3. /\ labels' = Append(labels, LabelOf(ExtractBits(pos, w)))
        /\ UNCHANGED <<leaf, pc, offset, block_id, results, n_b, encoding, k,
                       indices, rank, bit>>
    BY <1>10, <1>11, <2>1, <2>2 DEF Label, w
  <2> QED BY <1>7, <1>11, <2>3
<1>13. Written' = Written /\ Part' = Part
  BY <1>12 DEF Written, Part
<1>14. Begins(Append(labels, label), Written.labels)
  <2> DEFINE s == Written.labels
  <2>1. s \in Seq(Int) /\ Begins(labels, s) /\ Len(labels) < Len(s) /\ label = s[Len(labels) + 1]
    BY <1>1, <1>2, <1>3 DEF label, n
  <2> HIDE DEF s
  <2>2. Begins(Append(labels, label), s)
    BY <1>2, <1>6, <2>1, BeginsLonger
  <2> QED BY <2>2 DEF s
<1>15. Progress'
  BY <1>1, <1>3, <1>12, <1>13, <1>14 DEF Progress
<1> QED BY <1>1, <1>12, <1>15, ReadsOn DEF InBlock

\* The block joins the list as it was written.
LEMMA BlockReadReads ==
    ASSUME IInv, leaf \in Leaves, IsWritten(leaf), ReadInv, BlockRead
    PROVE  ReadInv'
<1> DEFINE b == block_id + 1
           data == [indices |-> indices, labels |-> labels]
           entry == [bid |-> block_id, data |-> data]
<1>1. /\ pc = "labels" /\ Len(labels) = k /\ InBlock /\ TheBlock /\ Progress
      /\ results' = Append(results, entry)
      /\ block_id' = block_id + 1
      /\ offset' = offset + NumBytes(k * BitsPerLabel)
      /\ pc' = "record"
      /\ leaf' = leaf
  BY DEF BlockRead, ReadInv, InBlock
<1>2. indices = Written.indices /\ Begins(labels, Written.labels) /\ offset = Part.labels
  BY <1>1 DEF Progress
<1>3. /\ Written \in [indices : Seq(Int), labels : Seq(Int)]
      /\ Written.labels \in Seq(Int) /\ Len(Written.labels) = k
      /\ b + 1 \in DOMAIN leaf.layout
      /\ labels \in Seq(Int) /\ block_id \in Nat
      /\ results \in Seq(BlockEntry) /\ Len(results) = block_id
  BY <1>1, BlockFacts DEF IInv, TypeOK, ListInv, BlocksInOrder
<1>4. labels = Written.labels
  <2> DEFINE s == Written.labels
  <2>1. s \in Seq(Int) /\ Begins(labels, s) /\ Len(labels) = Len(s)
    BY <1>1, <1>2, <1>3
  <2> HIDE DEF s
  <2>2. labels = s
    BY <1>3, <2>1, BeginsAll
  <2> QED BY <2>2 DEF s
<1>5. data = Written
  BY <1>2, <1>3, <1>4
<1>6. /\ b \in 1 .. Len(leaf.blocks)
      /\ Len(leaf.blocks) \in Nat
  BY <1>1, BlocksOfLeaf DEF TheBlock
<1>7. b + 1 \in DOMAIN leaf.layout /\ offset' = leaf.layout[b + 1].at
  BY <1>1, <1>2, <1>3, LabelFacts
<1>8. \A m \in 1 .. Len(results') : results'[m].data = leaf.blocks[m]
  <2>1. Len(results') = b /\ results'[b] = entry
        /\ \A m \in 1 .. block_id : results'[m] = results[m]
    <3> DEFINE q == Append(results, entry)
    <3>1. /\ Len(q) = Len(results) + 1
          /\ q[Len(results) + 1] = entry
          /\ \A m \in 1 .. Len(results) : q[m] = results[m]
      <4> HIDE DEF entry
      <4> QED BY <1>3
    <3> HIDE DEF q, entry
    <3> QED BY <1>1, <1>3, <3>1 DEF q
  <2>2. entry.data = leaf.blocks[b]
    BY <1>5 DEF Written
  <2>3. \A m \in 1 .. block_id : results[m].data = leaf.blocks[m]
    BY <1>3 DEF ReadInv
  <2> HIDE DEF entry
  <2> QED BY SMTT(60), <1>3, <2>1, <2>2, <2>3
<1>9. /\ pc' # "error" /\ block_id' <= Len(leaf'.blocks)
      /\ (pc = "record" => block_id + 1 \in DOMAIN leaf.layout /\ offset = Part.at)'
      /\ ~InBlock'
  BY <1>1, <1>6, <1>7 DEF Part, InBlock
<1> QED BY <1>1, <1>8, <1>9 DEF ReadInv

\* Where the call stands between two records.
LEMMA AtARecord ==
    ASSUME IInv, leaf \in Leaves, IsWritten(leaf), ReadInv, pc = "record"
    PROVE  LET b == block_id + 1
           IN  /\ block_id \in Nat /\ Len(leaf.blocks) \in Nat
               /\ leaf.num_blocks = Len(leaf.blocks)
               /\ block_id <= Len(leaf.blocks) /\ offset = Part.at /\ Size \in Nat
               /\ b \in DOMAIN leaf.layout
               /\ block_id = Len(leaf.blocks) => offset = Size
               /\ block_id < Len(leaf.blocks) =>
                      /\ offset \in 0 .. Size - 1
                      /\ b \in 1 .. Len(leaf.blocks)
                      /\ Header = HeaderOf(leaf, b)
                      /\ EmptyRunAt(leaf, b) \/ BlockAt(leaf, b)
<1> DEFINE b == block_id + 1
           end == Len(leaf.blocks) + 1
<1>1. /\ block_id <= Len(leaf.blocks) /\ b \in DOMAIN leaf.layout /\ offset = Part.at
  BY DEF ReadInv
<1>2. block_id \in Nat
  BY DEF IInv, TypeOK
<1>3. /\ Len(leaf.blocks) \in Nat /\ leaf.num_blocks = Len(leaf.blocks) /\ Size \in Nat
  BY BlocksOfLeaf, SizeType
<1>4. /\ leaf.layout[end].at = Size
      /\ \A d \in DOMAIN leaf.layout \ {end} :
             /\ d \in 1 .. Len(leaf.blocks)
             /\ leaf.layout[d].at \in 0 .. Size - 1
             /\ EmptyRunAt(leaf, d) \/ BlockAt(leaf, d)
  BY DEF IsWritten, Size
<1>5. block_id = Len(leaf.blocks) => offset = Size
  BY <1>1, <1>4 DEF Part
<1>6. ASSUME block_id < Len(leaf.blocks)
      PROVE  /\ offset \in 0 .. Size - 1
             /\ b \in 1 .. Len(leaf.blocks)
             /\ Header = HeaderOf(leaf, b)
             /\ EmptyRunAt(leaf, b) \/ BlockAt(leaf, b)
  <2>1. b \in DOMAIN leaf.layout \ {end}
    BY <1>1, <1>2, <1>3, <1>6
  <2>2. leaf.layout[b].at = offset
    BY <1>1 DEF Part
  <2>3. Header = HeaderOf(leaf, b)
    BY <2>2 DEF Header, HeaderOf, Byte
  <2> QED BY <1>4, <2>1, <2>2, <2>3
<1> QED BY <1>1, <1>2, <1>3, <1>5, <1>6

\* A written block is not taken for an empty run or an unknown record.
LEMMA BlockKind ==
    ASSUME IInv, leaf \in Leaves, IsWritten(leaf), ReadInv, pc = "record", MoreRecords
    PROVE  /\ Header % 4 \in {EMPTY_RUN, NON_EMPTY_BLOCK}
           /\ Header % 4 = EMPTY_RUN => EmptyRunAt(leaf, block_id + 1)
           /\ Header % 4 = NON_EMPTY_BLOCK => BlockAt(leaf, block_id + 1)
<1>1. block_id < Len(leaf.blocks)
  BY AtARecord DEF MoreRecords
<1>2. /\ Header = HeaderOf(leaf, block_id + 1)
      /\ EmptyRunAt(leaf, block_id + 1) \/ BlockAt(leaf, block_id + 1)
  BY <1>1, AtARecord
<1> QED BY <1>2 DEF EmptyRunAt, BlockAt, EMPTY_RUN, NON_EMPTY_BLOCK

\* Nothing has been read.
LEMMA InitReads ==
    ASSUME Init, IsWritten(leaf)
    PROVE  ReadInv
<1>1. leaf \in Leaves /\ pc = "record" /\ offset = 0 /\ block_id = 0 /\ results = <<>>
  BY DEF Init
<1>2. Len(leaf.blocks) \in Nat
  BY <1>1, BlocksOfLeaf
<1>3. 1 \in DOMAIN leaf.layout /\ leaf.layout[1].at = 0
  BY DEF IsWritten
<1> QED BY <1>1, <1>2, <1>3 DEF ReadInv, Part, InBlock

\* The call returns only with all of it.
LEMMA ReturnReads ==
    ASSUME IInv, leaf \in Leaves, IsWritten(leaf), ReadInv, Return
    PROVE  ReadInv'
<1>1. /\ pc = "record" /\ ~MoreRecords /\ pc' = "done"
      /\ UNCHANGED <<leaf, offset, block_id, results>>
  BY DEF Return
<1>2. block_id = Len(leaf.blocks) /\ offset = Size
  BY <1>1, AtARecord DEF MoreRecords
<1>3. Size' = Size
  BY <1>1 DEF Size
<1> QED BY <1>1, <1>2, <1>3 DEF ReadInv, InBlock

\* There is no unknown record.
LEMMA NoUnknownRecord ==
    ASSUME IInv, leaf \in Leaves, IsWritten(leaf), ReadInv, UnknownRecord
    PROVE  FALSE
<1>1. PICK type \in {2, 3} : pc = "record" /\ MoreRecords /\ Header % 4 = type
  BY DEF UnknownRecord, AtRecord
<1> QED BY <1>1, BlockKind DEF EMPTY_RUN, NON_EMPTY_BLOCK

\* A run of blocks with no mismatch
LEMMA EmptyRunReads ==
    ASSUME IInv, leaf \in Leaves, IsWritten(leaf), ReadInv, EmptyRun
    PROVE  ReadInv'
<1> DEFINE b == block_id + 1
           run == Uvarint(leaf.stream, offset + 1)
<1>1. pc = "record" /\ MoreRecords /\ Header % 4 = EMPTY_RUN
  BY DEF EmptyRun, AtRecord
<1>2. /\ block_id \in Nat /\ Len(leaf.blocks) \in Nat /\ offset = Part.at
      /\ results \in Seq(BlockEntry) /\ Len(results) = block_id
  BY <1>1, AtARecord DEF IInv, TypeOK, ListInv, BlocksInOrder
<1>3. EmptyRunAt(leaf, b)
  BY <1>1, BlockKind
<1>4. PICK n \in 1 .. Len(leaf.blocks) + 1 - b :
          /\ b + n \in DOMAIN leaf.layout
          /\ VarintAt(leaf, leaf.layout[b].at + 1, n, leaf.layout[b + n].at)
          /\ \A i \in b .. b + n - 1 : leaf.blocks[i] = None
  BY <1>3 DEF EmptyRunAt
<1>5. run # None /\ run.value = n /\ run.next = leaf.layout[b + n].at
  BY <1>2, <1>4 DEF VarintAt, Part
<1>6. /\ results' = results \o EmptyEntries(n)
      /\ block_id' = block_id + n
      /\ offset' = leaf.layout[b + n].at
      /\ UNCHANGED <<leaf, pc>>
  BY <1>5 DEF EmptyRun
<1>7. n \in Nat /\ block_id' + 1 = b + n /\ block_id' <= Len(leaf.blocks)
  <2> DEFINE last == Len(leaf.blocks)
  <2>1. n \in 1 .. last + 1 - (block_id + 1) /\ last \in Nat /\ block_id \in Nat
    BY <1>2
  <2> HIDE DEF last
  <2>2. n \in Nat /\ (block_id + n) + 1 = (block_id + 1) + n /\ block_id + n <= last
    BY ONLY <2>1
  <2> QED BY <1>6, <2>2 DEF last
<1>8. \A m \in 1 .. Len(results') : results'[m].data = leaf.blocks[m]
  <2> DEFINE t == EmptyEntries(n)
  <2>1. t \in Seq(BlockEntry) /\ Len(t) = n /\ \A i \in 1 .. n : t[i].data = None
    <3>1. t \in [1 .. n -> BlockEntry]
      BY <1>2, <1>7 DEF EmptyEntries, BlockEntry
    <3>2. t \in Seq(BlockEntry) /\ Len(t) = n
      <4> HIDE DEF t
      <4> QED BY <1>7, <3>1, FunctionIsSeq
    <3>3. \A i \in 1 .. n : t[i].data = None
      BY DEF EmptyEntries
    <3> QED BY <3>2, <3>3
  <2> HIDE DEF t
  <2>2. /\ Len(results \o t) = Len(results) + Len(t)
        /\ \A i \in 1 .. Len(results) : (results \o t)[i] = results[i]
        /\ \A i \in (Len(results) + 1) .. (Len(results) + Len(t)) :
               (results \o t)[i] = t[i - Len(results)]
    BY <1>2, <2>1, ConcatFacts
  <2>3. results' = results \o t
    BY <1>6 DEF t
  <2>4. \A i \in 1 .. block_id : results[i].data = leaf.blocks[i]
    BY <1>2 DEF ReadInv
  <2>5. ASSUME NEW m \in 1 .. Len(results') PROVE results'[m].data = leaf.blocks[m]
    <3>1. m \in 1 .. block_id + n
      BY <1>2, <2>1, <2>2, <2>3
    <3>2. CASE m <= block_id
      <4>1. m \in 1 .. block_id
        BY <1>2, <3>1, <3>2
      <4> QED BY <1>2, <2>2, <2>3, <2>4, <4>1
    <3>3. CASE m > block_id
      <4>1. m \in (Len(results) + 1) .. (Len(results) + Len(t)) /\ m - block_id \in 1 .. n
        BY <1>2, <1>7, <2>1, <3>1, <3>3
      <4>2. results'[m].data = None
        BY <1>2, <2>1, <2>2, <2>3, <4>1
      <4>3. m \in b .. b + n - 1
        BY <1>2, <1>7, <3>1, <3>3
      <4> QED BY <1>4, <4>2, <4>3
    <3> QED BY <1>2, <1>7, <3>1, <3>2, <3>3
  <2> QED BY <2>5
<1>9. b + n \in DOMAIN leaf.layout /\ offset' = Part'.at
  BY <1>4, <1>6, <1>7 DEF Part
<1> QED BY <1>1, <1>6, <1>7, <1>8, <1>9 DEF ReadInv, InBlock

\* The header of a block
LEMMA BlockHeaderReads ==
    ASSUME IInv, leaf \in Leaves, IsWritten(leaf), ReadInv, BlockHeader
    PROVE  ReadInv'
<1> DEFINE b == block_id + 1
           s == Written.indices
           count == Uvarint(leaf.stream, offset + 1)
           enc == (Header \div 4) % 4
<1>1. pc = "record" /\ MoreRecords /\ Header % 4 = NON_EMPTY_BLOCK
  BY DEF BlockHeader, AtRecord
<1>2. /\ block_id \in Nat /\ Len(leaf.blocks) \in Nat /\ offset = Part.at
      /\ leaf.num_blocks = Len(leaf.blocks) /\ block_id < Len(leaf.blocks)
      /\ b \in 1 .. Len(leaf.blocks) /\ Header = HeaderOf(leaf, b)
  BY <1>1, AtARecord DEF MoreRecords
<1>3. BlockAt(leaf, b)
  BY <1>1, BlockKind
<1>4. PICK from \in 0 .. Len(leaf.stream) :
          /\ VarintAt(leaf, leaf.layout[b].at + 1, Len(s), from)
          /\ IndicesAt(leaf, b, enc, from)
  BY <1>2, <1>3 DEF BlockAt, Written
<1>5. count # None /\ count.value = Len(s) /\ count.next = from
  BY <1>2, <1>4 DEF VarintAt, Part
<1>6. /\ n_b' = BlockPositions
      /\ k' = Len(s)
      /\ offset' = from
      /\ indices' = <<>>
      /\ labels' = <<>>
      /\ bit' = 0
      /\ pc' = IndexLoop(enc)
      /\ UNCHANGED <<leaf, block_id, results>>
  BY <1>5 DEF BlockHeader
<1>7. BlockPositions = PositionsOf(leaf, b)
  BY <1>2 DEF BlockPositions, PositionsOf, BlockSize
<1>8. Written' = Written /\ Part' = Part /\ block_id' + 1 = b
  BY <1>6 DEF Written, Part
<1>9. TheBlock'
  BY <1>2, <1>3, <1>6, <1>7, <1>8 DEF TheBlock
<1>10. Begins(indices', s) /\ Len(s) \in Nat
       /\ \A i \in 1 .. Len(s) : s[i] >= 0 /\ s[i] \in Int
  <2>1. s \in Seq(0 .. PositionsOf(leaf, b) - 1)
    BY <1>3 DEF BlockAt, Written, IsSubset
  <2>2. \A i \in 1 .. Len(s) : s[i] \in 0 .. PositionsOf(leaf, b) - 1
    BY ONLY <2>1, ElementType, Zenon
  <2>3. Len(s) \in Nat
    BY <2>1
  <2> HIDE DEF s
  <2>4. Begins(indices', s)
    BY <1>6, <2>3 DEF Begins
  <2> QED BY <2>2, <2>3, <2>4
<1>11. Progress' /\ InBlock'
  <2>1. CASE enc = DELTA_GAPS /\ GapsAt(leaf, b, from)
    <3>1. pc' = "delta"
      <4>1. enc = DELTA_GAPS /\ pc' = IndexLoop(enc)
        BY <1>6, <2>1
      <4> HIDE DEF enc
      <4> QED BY <4>1 DEF IndexLoop, DELTA_GAPS, ENUM_RANK
    <3>2. Part.gaps[1] = from
      BY <2>1 DEF GapsAt, Part
    <3>3. offset' = Part'.gaps[Len(indices') + 1]
      BY <1>6, <1>8, <3>2
    <3>4. GapsAt(leaf, block_id + 1, Part.gaps[1])'
      <4>1. leaf' = leaf /\ (block_id + 1)' = b /\ (Part.gaps[1])' = from
        BY <1>6, <1>8, <3>2
      <4> QED BY <2>1, <4>1
    <3> QED BY <1>6, <1>8, <1>10, <3>1, <3>3, <3>4 DEF Progress, InBlock
  <2>2. CASE enc = ENUM_RANK /\ RankAt(leaf, b, from)
    <3>1. pc' = "enum"
      BY <1>6, <2>2 DEF IndexLoop, DELTA_GAPS, ENUM_RANK
    <3>2. RankAt(leaf, block_id + 1, offset)'
      <4>1. leaf' = leaf /\ (block_id + 1)' = b /\ offset' = from
        BY <1>6, <1>8
      <4> QED BY <2>2, <4>1
    <3> QED BY <1>6, <3>1, <3>2 DEF Progress, InBlock
  <2>3. CASE enc = BITMAP /\ BitmapAt(leaf, b, from)
    <3>1. pc' = "bitmap"
      BY <1>6, <2>3 DEF IndexLoop, DELTA_GAPS, ENUM_RANK, BITMAP
    <3>2. BitmapAt(leaf, block_id + 1, offset)'
      <4>1. leaf' = leaf /\ (block_id + 1)' = b /\ offset' = from
        BY <1>6, <1>8
      <4> QED BY <2>3, <4>1
    <3>3. \A i \in 1 .. k' : s[i] < bit' <=> i <= Len(indices')
      BY <1>6, <1>10
    <3> QED BY <1>6, <1>8, <1>10, <3>1, <3>2, <3>3 DEF Progress, InBlock
  <2> QED BY <1>4, <2>1, <2>2, <2>3 DEF IndicesAt
<1>12. pc' \notin {"error", "record", "done"}
  BY <1>6 DEF IndexLoop
<1> QED BY <1>6, <1>9, <1>11, <1>12 DEF ReadInv

\* What is read stays what was written, step by step.
LEMMA NextReads ==
    ASSUME PascalsRule, IInv, leaf \in Leaves, IsWritten(leaf), ReadInv, [Next]_vars
    PROVE  ReadInv'
<1>1. CASE Return
  BY <1>1, ReturnReads
<1>2. CASE UnknownRecord
  BY <1>2, NoUnknownRecord
<1>3. CASE EmptyRun
  BY <1>3, EmptyRunReads
<1>4. CASE BlockHeader
  BY <1>4, BlockHeaderReads
<1>5. CASE DeltaGap
  BY <1>5, DeltaGapReads
<1>6. CASE EnumRank
  BY <1>6, EnumRankReads
<1>7. CASE Unrank
  BY <1>7, UnrankReads
<1>8. CASE BitmapBit
  BY <1>8, BitmapBitReads
<1>9. CASE IndicesRead
  BY <1>9, IndicesReadReads
<1>10. CASE Label
  BY <1>10, LabelReads
<1>11. CASE BlockRead
  BY <1>11, BlockReadReads
<1>12. CASE UNCHANGED vars
  <2>1. UNCHANGED <<leaf, pc, offset, block_id, results, n_b, encoding, k,
                    indices, labels, rank, bit>>
    BY <1>12 DEF vars, block
  <2>2. Written' = Written /\ Part' = Part /\ Size' = Size
    BY <2>1 DEF Written, Part, Size
  <2>3. TheBlock => TheBlock'
    BY <2>1, SameBlockRead
  <2>4. Progress => Progress'
    BY <2>1, <2>2 DEF Progress, Remains
  <2> QED BY <2>1, <2>2, <2>3, <2>4 DEF ReadInv, InBlock
<1> QED
  BY <1>1, <1>2, <1>3, <1>4, <1>5, <1>6, <1>7, <1>8, <1>9, <1>10, <1>11, <1>12
  DEF Next, Step, Terminating

\* Every written leaf is read back.
THEOREM WrittenIsReadBack ==
    ASSUME PascalsRule, LeavesAreWritten
    PROVE  Spec => []RoundTrip
<1>1. Init => leaf \in Leaves /\ IInv /\ ReadInv
  <2> SUFFICES ASSUME Init PROVE leaf \in Leaves /\ IInv /\ ReadInv
    OBVIOUS
  <2>1. leaf \in Leaves /\ IInv
    BY InitInv
  <2>2. IsWritten(leaf)
    BY <2>1 DEF LeavesAreWritten
  <2> QED BY <2>1, <2>2, InitReads
<1>2. leaf \in Leaves /\ IInv /\ ReadInv /\ [Next]_vars => (leaf \in Leaves /\ IInv /\ ReadInv)'
  <2> SUFFICES ASSUME leaf \in Leaves, IInv, ReadInv, [Next]_vars
               PROVE  (leaf \in Leaves /\ IInv /\ ReadInv)'
    OBVIOUS
  <2>1. IsWritten(leaf)
    BY DEF LeavesAreWritten
  <2>2. leaf' \in Leaves /\ IInv'
    BY NextInv
  <2>3. ReadInv'
    BY <2>1, NextReads
  <2> QED BY <2>2, <2>3
<1>3. leaf \in Leaves /\ IInv /\ ReadInv => RoundTrip
  <2> SUFFICES ASSUME leaf \in Leaves, IInv, ReadInv PROVE RoundTrip
    OBVIOUS
  <2>1. /\ results \in Seq(BlockEntry) /\ Len(results) = block_id
        /\ \A i \in 1 .. Len(results) : results[i].bid = i - 1
    BY DEF IInv, TypeOK, ListInv, BlocksInOrder
  <2>2. /\ pc # "error" /\ block_id <= Len(leaf.blocks)
        /\ \A i \in 1 .. Len(results) : results[i].data = leaf.blocks[i]
        /\ pc = "done" => block_id = Len(leaf.blocks) /\ offset = Size
    BY DEF ReadInv
  <2>3. ASSUME NEW i \in 1 .. Len(results)
        PROVE  results[i] = [bid |-> i - 1, data |-> leaf.blocks[i]]
    <3>1. results[i] \in BlockEntry
      BY ONLY <2>1, <2>3, ElementType, Zenon
    <3>2. results[i] = [bid |-> results[i].bid, data |-> results[i].data]
      BY <3>1 DEF BlockEntry
    <3> QED BY <2>1, <2>2, <3>2
  <2> QED BY <2>1, <2>2, <2>3 DEF RoundTrip
<1> QED BY <1>1, <1>2, <1>3, PTL DEF Spec

-----------------------------------------------------------------------------
(* The decoder implements BlockDelivery *)

\* Every entry of a list that satisfies the invariant is one callers accept.
LEMMA AllLegal ==
    ASSUME IInv, leaf \in Leaves
    PROVE  \A i \in 1 .. Len(results) :
               results[i].bid = i - 1 /\ Delivery!Legal(results[i])
<1> SUFFICES ASSUME NEW i \in 1 .. Len(results)
             PROVE  results[i].bid = i - 1 /\ Delivery!Legal(results[i])
  OBVIOUS
<1>1. results[i].bid = i - 1 /\ leaf.num_blocks \in Nat
  BY LeafAssumption DEF IInv, ListInv, BlocksInOrder
<1>2. results[i].data # None =>
          /\ results[i].bid < leaf.num_blocks
          /\ Ascending(results[i].data.indices)
          /\ Conditional => leaf.prediction \notin LabelsOf(results[i])
  BY SMTT(60), <1>1 DEF IInv, ListInv, CorrectionsInLeaf, CorrectionsDiffer, LabelsOf
<1> QED BY <1>1, <1>2 DEF Delivery!Legal, Ascending, Conditional, LabelsOf

\* The two steps that touch the list only add to its end.
LEMMA ListGrows ==
    ASSUME IInv, leaf \in Leaves, EmptyRun \/ BlockRead, results' # results
    PROVE  /\ Len(results') > Len(results)
           /\ \A i \in 1 .. Len(results) : results'[i] = results[i]
           /\ UNCHANGED leaf
           /\ Status = "running" /\ Status' = "running"
<1>1. results \in Seq(BlockEntry) /\ Len(results) \in Nat /\ results' \in Seq(BlockEntry)
      /\ block_id \in Nat
  <2>1. IInv'
    BY EmptyRunStep, BlockReadStep
  <2> QED BY <2>1 DEF IInv, TypeOK
<1>2. CASE BlockRead
  <2> DEFINE entry == [bid |-> block_id,
                       data |-> [indices |-> indices, labels |-> labels]]
  <2>1. results' = Append(results, entry) /\ UNCHANGED leaf
        /\ pc = "labels" /\ pc' = "record"
    BY <1>2 DEF BlockRead
  <2> HIDE DEF entry
  <2>2. /\ Len(results') = Len(results) + 1
        /\ \A i \in 1 .. Len(results) : results'[i] = results[i]
    BY <1>1, <2>1
  <2> QED BY <1>1, <2>1, <2>2 DEF Status
<1>3. CASE EmptyRun
  <2> DEFINE run == Uvarint(leaf.stream, offset + 1)
             blanks == EmptyEntries(run.value)
  <2>1. /\ run # None /\ results' = results \o blanks /\ UNCHANGED <<leaf, pc>>
        /\ pc = "record" /\ offset < Size
    BY <1>3 DEF EmptyRun, Fail, AtRecord, MoreRecords
  <2>2. run.value \in Nat
    <3>1. offset + 1 \in 0 .. Size
      BY <2>1, SizeType DEF IInv, TypeOK
    <3> QED BY <2>1, <3>1, UvarintType
  <2>3. blanks \in Seq(BlockEntry) /\ Len(blanks) = run.value
    <3>1. \A i \in 1 .. run.value :
              [bid |-> block_id + i - 1, data |-> None] \in BlockEntry
      BY <1>1, <2>2 DEF BlockEntry
    <3>2. blanks \in [1 .. run.value -> BlockEntry]
      BY <3>1 DEF EmptyEntries
    <3> HIDE DEF run, blanks
    <3> QED BY ONLY <2>2, <3>2, FunctionIsSeq, Zenon
  <2> HIDE DEF blanks
  <2>4. /\ Len(results \o blanks) = Len(results) + Len(blanks)
        /\ \A i \in 1 .. Len(results) : (results \o blanks)[i] = results[i]
        /\ Len(blanks) = 0 => results \o blanks = results
    <3>1. results \in Seq(BlockEntry) /\ blanks \in Seq(BlockEntry)
      BY <1>1, <2>3
    <3> QED BY ONLY <3>1, ConcatFacts, ConcatEmpty
  <2> QED BY <1>1, <2>1, <2>2, <2>3, <2>4 DEF Status
<1> QED BY <1>2, <1>3

\* Every step is one of BlockDelivery or a stutter.
LEMMA StepDelivers ==
    ASSUME IInv, leaf \in Leaves, [Next]_vars
    PROVE  [Delivery!Next]_(Delivery!vars)
<1>1. CASE Return
  <2>1. pc = "record" /\ pc' = "done" /\ UNCHANGED <<leaf, results>>
    BY <1>1 DEF Return
  <2>2. Delivery!Finish
    BY <2>1 DEF Delivery!Finish, Status
  <2> QED BY <2>2 DEF Delivery!Next
<1>2. CASE Fail /\ pc \notin {"done", "error"}
  <2>1. pc' = "error" /\ UNCHANGED <<leaf, results>>
    BY <1>2 DEF Fail
  <2>2. Delivery!Finish
    BY <1>2, <2>1 DEF Delivery!Finish, Status
  <2> QED BY <2>2 DEF Delivery!Next
<1>3. CASE (EmptyRun \/ BlockRead) /\ results' # results
  <2>1. /\ Len(results') > Len(results)
        /\ \A i \in 1 .. Len(results) : results'[i] = results[i]
        /\ UNCHANGED leaf
        /\ Status = "running" /\ Status' = "running"
    BY <1>3, ListGrows
  <2>2. (\A i \in 1 .. Len(results) :
             results[i].bid = i - 1 /\ Delivery!Legal(results[i]))'
    <3>1. (IInv /\ leaf \in Leaves)'
      BY <1>3, EmptyRunStep, BlockReadStep
    <3> QED BY <3>1, AllLegal, PTL
  <2>3. Delivery!Deliver
    <3>1. Len(results) \in Nat
      BY DEF IInv, TypeOK
    <3>2. ASSUME NEW i \in (Len(results) + 1) .. Len(results')
          PROVE  results'[i].bid = i - 1 /\ Delivery!Legal(results'[i])
      <4>1. i \in 1 .. Len(results')
        BY <3>1
      <4> QED BY <2>1, <2>2, <4>1 DEF Delivery!Legal
    <3> QED BY <2>1, <3>2 DEF Delivery!Deliver
  <2> QED BY <2>3 DEF Delivery!Next
<1>4. CASE EmptyRun /\ ~Fail /\ results' = results
  <2>1. pc = "record" /\ UNCHANGED <<leaf, pc>>
    BY <1>4 DEF EmptyRun, AtRecord
  <2> QED BY <1>4, <2>1 DEF Delivery!vars, Status
<1>5. CASE /\ BlockHeader \/ DeltaGap \/ EnumRank \/ Unrank \/ BitmapBit
              \/ IndicesRead \/ Label
           /\ ~Fail
  <2>1. /\ pc \notin {"done", "error"} /\ pc' \notin {"done", "error"}
        /\ UNCHANGED <<leaf, results>>
    BY <1>5
    DEF BlockHeader, AtRecord, IndexLoop, DeltaGap, EnumRank, Unrank, BitmapBit,
        IndicesRead, Label
  <2> QED BY <2>1 DEF Delivery!vars, Status
<1>6. CASE BlockRead /\ results' = results
  <2>1. pc = "labels" /\ pc' = "record" /\ UNCHANGED leaf
    BY <1>6 DEF BlockRead
  <2> QED BY <1>6, <2>1 DEF Delivery!vars, Status
<1>7. CASE UNCHANGED vars
  BY <1>7 DEF vars, Delivery!vars, Status
<1>8. Step => pc \notin {"done", "error"}
  BY DEF Step, Return, UnknownRecord, EmptyRun, BlockHeader, AtRecord, DeltaGap,
         EnumRank, Unrank, BitmapBit, IndicesRead, Label, BlockRead
<1>9. UnknownRecord => Fail
  BY DEF UnknownRecord
<1> QED
  BY <1>1, <1>2, <1>3, <1>4, <1>5, <1>6, <1>7, <1>8, <1>9
  DEF Next, Step, Terminating

(* decode_record_stream keeps the promise to its callers: for every leaf,  *)
(* the list they are handed grows by legal entries only, in order, and is  *)
(* final once the call returned or raised.                                 *)
THEOREM Refinement == Spec => DeliversBlocks
<1>1. Init => Delivery!Init
  BY DEF Init, Delivery!Init, Status
<1>2. Init => leaf \in Leaves /\ IInv
  BY InitInv
<1>3. (leaf \in Leaves /\ IInv) /\ [Next]_vars => (leaf \in Leaves /\ IInv)'
  BY NextInv
<1>4. (leaf \in Leaves /\ IInv) /\ [Next]_vars => [Delivery!Next]_(Delivery!vars)
  BY StepDelivers
<1> QED
  BY <1>1, <1>2, <1>3, <1>4, PTL DEF Spec, DeliversBlocks, Delivery!Spec

-----------------------------------------------------------------------------
(* Comparison with the ports: their loops, as recursive functions          *)

\* What the ports have in common
Port == INSTANCE PortLibrary

\* The bits of Or, one after the other
LEMMA OrLoop ==
    ASSUME NEW v, NEW w, NEW width \in Nat
    PROVE  LET f == Port!OrBits(v, w, width)
           IN  /\ f[0] = 0
               /\ \A i \in 1 .. width : f[i] = f[i - 1] + 2 ^ (i - 1) * Port!OrBit(v, w, i - 1)
<1> DEFINE A == 0
           S == {m \in Nat : \E f : f = [i \in 0 .. m |->
                    IF i = 0 THEN A ELSE f[i - 1] + 2 ^ (i - 1) * Port!OrBit(v, w, i - 1)]}
           g == CHOOSE f : f = [i \in 0 .. width |->
                    IF i = 0 THEN A ELSE f[i - 1] + 2 ^ (i - 1) * Port!OrBit(v, w, i - 1)]
<1>0. width \in Nat
  OBVIOUS
<1> HIDE DEF A
<1>1. 0 \in S
  <2> DEFINE h == [i \in 0 .. 0 |-> A]
  <2>1. h = [i \in 0 .. 0 |-> IF i = 0 THEN A ELSE h[i - 1] + 2 ^ (i - 1) * Port!OrBit(v, w, i - 1)]
    OBVIOUS
  <2> QED BY <2>1
<1>2. ASSUME NEW m \in Nat, m \in S PROVE m + 1 \in S
  <2>1. PICK f : f = [i \in 0 .. m |->
                    IF i = 0 THEN A ELSE f[i - 1] + 2 ^ (i - 1) * Port!OrBit(v, w, i - 1)]
    BY <1>2
  <2> DEFINE h == [i \in 0 .. m + 1 |->
                    IF i <= m THEN f[i] ELSE f[m] + 2 ^ (i - 1) * Port!OrBit(v, w, i - 1)]
  <2>2. h = [i \in 0 .. m + 1 |->
                    IF i = 0 THEN A ELSE h[i - 1] + 2 ^ (i - 1) * Port!OrBit(v, w, i - 1)]
    BY <2>1
  <2> HIDE DEF h
  <2> QED BY <2>2
<1>3. width \in S
  <2> HIDE DEF S
  <2> QED BY <1>0, <1>1, <1>2, SetInduction
<1>4. g = [i \in 0 .. width |->
              IF i = 0 THEN A ELSE g[i - 1] + 2 ^ (i - 1) * Port!OrBit(v, w, i - 1)]
  BY <1>3
<1>5. Port!OrBits(v, w, width) = g
  BY DEF Port!OrBits, A
<1> HIDE DEF g
<1>6. g[0] = A /\ \A i \in 1 .. width : g[i] = g[i - 1] + 2 ^ (i - 1) * Port!OrBit(v, w, i - 1)
  BY <1>0, <1>4
<1> QED BY <1>5, <1>6 DEF A

\* The bytes of a varint
LEMMA VarintLoop ==
    ASSUME NEW data, NEW from, NEW n \in Nat, NEW width
    PROVE  LET f == Port!VarintValue(data, from, n, width)
           IN  /\ f[0] = 0
               /\ \A i \in 1 .. n : f[i] = Port!NextValue(data, from, i, f[i - 1], width)
<1> DEFINE A == 0
           S == {m \in Nat : \E f : f = [i \in 0 .. m |->
                    IF i = 0 THEN A ELSE Port!NextValue(data, from, i, f[i - 1], width)]}
           g == CHOOSE f : f = [i \in 0 .. n |->
                    IF i = 0 THEN A ELSE Port!NextValue(data, from, i, f[i - 1], width)]
<1>0. n \in Nat
  OBVIOUS
<1> HIDE DEF A
<1>1. 0 \in S
  <2> DEFINE h == [i \in 0 .. 0 |-> A]
  <2>1. h = [i \in 0 .. 0 |-> IF i = 0 THEN A ELSE Port!NextValue(data, from, i, h[i - 1], width)]
    OBVIOUS
  <2> QED BY <2>1
<1>2. ASSUME NEW m \in Nat, m \in S PROVE m + 1 \in S
  <2>1. PICK f : f = [i \in 0 .. m |->
                    IF i = 0 THEN A ELSE Port!NextValue(data, from, i, f[i - 1], width)]
    BY <1>2
  <2> DEFINE h == [i \in 0 .. m + 1 |->
                    IF i <= m THEN f[i] ELSE Port!NextValue(data, from, i, f[m], width)]
  <2>2. h = [i \in 0 .. m + 1 |->
                    IF i = 0 THEN A ELSE Port!NextValue(data, from, i, h[i - 1], width)]
    BY <2>1
  <2> HIDE DEF h
  <2> QED BY <2>2
<1>3. n \in S
  <2> HIDE DEF S
  <2> QED BY <1>0, <1>1, <1>2, SetInduction
<1>4. g = [i \in 0 .. n |-> IF i = 0 THEN A ELSE Port!NextValue(data, from, i, g[i - 1], width)]
  BY <1>3
<1>5. Port!VarintValue(data, from, n, width) = g
  BY DEF Port!VarintValue, A
<1> HIDE DEF g
<1>6. g[0] = A /\ \A i \in 1 .. n : g[i] = Port!NextValue(data, from, i, g[i - 1], width)
  BY <1>0, <1>4
<1> QED BY <1>5, <1>6 DEF A

\* The bits of a bitmap
LEMMA SetBitsLoop ==
    ASSUME NEW data, NEW from, NEW n \in Nat
    PROVE  LET f == Port!SetBits(data, from, n)
           IN  /\ f[0] = <<>>
               /\ \A i \in 1 .. n : f[i] = Port!OneMoreBit(data, from, i - 1, f[i - 1])
<1> DEFINE A == <<>>
           S == {m \in Nat : \E f : f = [i \in 0 .. m |->
                    IF i = 0 THEN A ELSE Port!OneMoreBit(data, from, i - 1, f[i - 1])]}
           g == CHOOSE f : f = [i \in 0 .. n |->
                    IF i = 0 THEN A ELSE Port!OneMoreBit(data, from, i - 1, f[i - 1])]
<1>0. n \in Nat
  OBVIOUS
<1> HIDE DEF A
<1>1. 0 \in S
  <2> DEFINE h == [i \in 0 .. 0 |-> A]
  <2>1. h = [i \in 0 .. 0 |-> IF i = 0 THEN A ELSE Port!OneMoreBit(data, from, i - 1, h[i - 1])]
    OBVIOUS
  <2> QED BY <2>1
<1>2. ASSUME NEW m \in Nat, m \in S PROVE m + 1 \in S
  <2>1. PICK f : f = [i \in 0 .. m |->
                    IF i = 0 THEN A ELSE Port!OneMoreBit(data, from, i - 1, f[i - 1])]
    BY <1>2
  <2> DEFINE h == [i \in 0 .. m + 1 |->
                    IF i <= m THEN f[i] ELSE Port!OneMoreBit(data, from, i - 1, f[m])]
  <2>2. h = [i \in 0 .. m + 1 |->
                    IF i = 0 THEN A ELSE Port!OneMoreBit(data, from, i - 1, h[i - 1])]
    BY <2>1
  <2> HIDE DEF h
  <2> QED BY <2>2
<1>3. n \in S
  <2> HIDE DEF S
  <2> QED BY <1>0, <1>1, <1>2, SetInduction
<1>4. g = [i \in 0 .. n |-> IF i = 0 THEN A ELSE Port!OneMoreBit(data, from, i - 1, g[i - 1])]
  BY <1>3
<1>5. Port!SetBits(data, from, n) = g
  BY DEF Port!SetBits, A
<1> HIDE DEF g
<1>6. g[0] = A /\ \A i \in 1 .. n : g[i] = Port!OneMoreBit(data, from, i - 1, g[i - 1])
  BY <1>0, <1>4
<1> QED BY <1>5, <1>6 DEF A

\* binom of the JavaScript port
LEMMA JsProductsLoop ==
    ASSUME NEW n, NEW c \in Nat
    PROVE  LET f == Js!Products(n, c)
           IN  /\ f[0] = 1
               /\ \A i \in 1 .. c : f[i] = (f[i - 1] * (n - (i - 1))) \div i
<1> DEFINE A == 1
           S == {m \in Nat : \E f : f = [i \in 0 .. m |->
                    IF i = 0 THEN A ELSE (f[i - 1] * (n - (i - 1))) \div i]}
           g == CHOOSE f : f = [i \in 0 .. c |->
                    IF i = 0 THEN A ELSE (f[i - 1] * (n - (i - 1))) \div i]
<1>0. c \in Nat
  OBVIOUS
<1> HIDE DEF A
<1>1. 0 \in S
  <2> DEFINE h == [i \in 0 .. 0 |-> A]
  <2>1. h = [i \in 0 .. 0 |-> IF i = 0 THEN A ELSE (h[i - 1] * (n - (i - 1))) \div i]
    OBVIOUS
  <2> QED BY <2>1
<1>2. ASSUME NEW m \in Nat, m \in S PROVE m + 1 \in S
  <2>1. PICK f : f = [i \in 0 .. m |->
                    IF i = 0 THEN A ELSE (f[i - 1] * (n - (i - 1))) \div i]
    BY <1>2
  <2> DEFINE h == [i \in 0 .. m + 1 |->
                    IF i <= m THEN f[i] ELSE (f[m] * (n - (i - 1))) \div i]
  <2>2. h = [i \in 0 .. m + 1 |->
                    IF i = 0 THEN A ELSE (h[i - 1] * (n - (i - 1))) \div i]
    BY <2>1
  <2> HIDE DEF h
  <2> QED BY <2>2
<1>3. c \in S
  <2> HIDE DEF S
  <2> QED BY <1>0, <1>1, <1>2, SetInduction
<1>4. g = [i \in 0 .. c |-> IF i = 0 THEN A ELSE (g[i - 1] * (n - (i - 1))) \div i]
  BY <1>3
<1>5. Js!Products(n, c) = g
  BY DEF Js!Products, A
<1> HIDE DEF g
<1>6. g[0] = A /\ \A i \in 1 .. c : g[i] = (g[i - 1] * (n - (i - 1))) \div i
  BY <1>0, <1>4
<1> QED BY <1>5, <1>6 DEF A

\* Its search
LEMMA JsHalvingsLoop ==
    ASSUME NEW target, NEW j, NEW lo, NEW hi
    PROVE  LET f == Js!Halvings(target, j, lo, hi)
           IN  /\ f[0] = [lo |-> lo, hi |-> hi, result |-> lo - 1]
               /\ \A i \in 1 .. IntBits : f[i] = Js!Halve(target, j, f[i - 1])
<1> DEFINE A == [lo |-> lo, hi |-> hi, result |-> lo - 1]
           S == {m \in Nat : \E f : f = [i \in 0 .. m |->
                    IF i = 0 THEN A ELSE Js!Halve(target, j, f[i - 1])]}
           g == CHOOSE f : f = [i \in 0 .. IntBits |->
                    IF i = 0 THEN A ELSE Js!Halve(target, j, f[i - 1])]
<1>0. IntBits \in Nat
  BY PortsFit
<1> HIDE DEF A
<1>1. 0 \in S
  <2> DEFINE h == [i \in 0 .. 0 |-> A]
  <2>1. h = [i \in 0 .. 0 |-> IF i = 0 THEN A ELSE Js!Halve(target, j, h[i - 1])]
    OBVIOUS
  <2> QED BY <2>1
<1>2. ASSUME NEW m \in Nat, m \in S PROVE m + 1 \in S
  <2>1. PICK f : f = [i \in 0 .. m |->
                    IF i = 0 THEN A ELSE Js!Halve(target, j, f[i - 1])]
    BY <1>2
  <2> DEFINE h == [i \in 0 .. m + 1 |->
                    IF i <= m THEN f[i] ELSE Js!Halve(target, j, f[m])]
  <2>2. h = [i \in 0 .. m + 1 |->
                    IF i = 0 THEN A ELSE Js!Halve(target, j, h[i - 1])]
    BY <2>1
  <2> HIDE DEF h
  <2> QED BY <2>2
<1>3. IntBits \in S
  <2> HIDE DEF S
  <2> QED BY <1>0, <1>1, <1>2, SetInduction
<1>4. g = [i \in 0 .. IntBits |-> IF i = 0 THEN A ELSE Js!Halve(target, j, g[i - 1])]
  BY <1>3
<1>5. Js!Halvings(target, j, lo, hi) = g
  BY DEF Js!Halvings, A
<1> HIDE DEF g
<1>6. g[0] = A /\ \A i \in 1 .. IntBits : g[i] = Js!Halve(target, j, g[i - 1])
  BY <1>0, <1>4
<1> QED BY <1>5, <1>6 DEF A

\* unrankSubset
LEMMA JsUnrankingsLoop ==
    ASSUME NEW r, NEW n, NEW c \in Nat
    PROVE  LET f == Js!Unrankings(r, n, c)
           IN  /\ f[0] = [rank |-> r, upper |-> n - 1, indices |-> <<>>]
               /\ \A i \in 1 .. c : f[i] = Js!Unrank(c - (i - 1), f[i - 1])
<1> DEFINE A == [rank |-> r, upper |-> n - 1, indices |-> <<>>]
           S == {m \in Nat : \E f : f = [i \in 0 .. m |->
                    IF i = 0 THEN A ELSE Js!Unrank(c - (i - 1), f[i - 1])]}
           g == CHOOSE f : f = [i \in 0 .. c |->
                    IF i = 0 THEN A ELSE Js!Unrank(c - (i - 1), f[i - 1])]
<1>0. c \in Nat
  OBVIOUS
<1> HIDE DEF A
<1>1. 0 \in S
  <2> DEFINE h == [i \in 0 .. 0 |-> A]
  <2>1. h = [i \in 0 .. 0 |-> IF i = 0 THEN A ELSE Js!Unrank(c - (i - 1), h[i - 1])]
    OBVIOUS
  <2> QED BY <2>1
<1>2. ASSUME NEW m \in Nat, m \in S PROVE m + 1 \in S
  <2>1. PICK f : f = [i \in 0 .. m |->
                    IF i = 0 THEN A ELSE Js!Unrank(c - (i - 1), f[i - 1])]
    BY <1>2
  <2> DEFINE h == [i \in 0 .. m + 1 |->
                    IF i <= m THEN f[i] ELSE Js!Unrank(c - (i - 1), f[m])]
  <2>2. h = [i \in 0 .. m + 1 |->
                    IF i = 0 THEN A ELSE Js!Unrank(c - (i - 1), h[i - 1])]
    BY <2>1
  <2> HIDE DEF h
  <2> QED BY <2>2
<1>3. c \in S
  <2> HIDE DEF S
  <2> QED BY <1>0, <1>1, <1>2, SetInduction
<1>4. g = [i \in 0 .. c |-> IF i = 0 THEN A ELSE Js!Unrank(c - (i - 1), g[i - 1])]
  BY <1>3
<1>5. Js!Unrankings(r, n, c) = g
  BY DEF Js!Unrankings, A
<1> HIDE DEF g
<1>6. g[0] = A /\ \A i \in 1 .. c : g[i] = Js!Unrank(c - (i - 1), g[i - 1])
  BY <1>0, <1>4
<1> QED BY <1>5, <1>6 DEF A

\* decodeDeltaGaps
LEMMA JsGapsLoop ==
    ASSUME NEW data, NEW n \in Nat, NEW from
    PROVE  LET f == Js!GapsRead(data, n, from)
           IN  /\ f[0] = [indices |-> <<>>, next |-> from]
               /\ \A i \in 1 .. n : f[i] = Js!ReadGap(data, i, f[i - 1])
<1> DEFINE A == [indices |-> <<>>, next |-> from]
           S == {m \in Nat : \E f : f = [i \in 0 .. m |->
                    IF i = 0 THEN A ELSE Js!ReadGap(data, i, f[i - 1])]}
           g == CHOOSE f : f = [i \in 0 .. n |->
                    IF i = 0 THEN A ELSE Js!ReadGap(data, i, f[i - 1])]
<1>0. n \in Nat
  OBVIOUS
<1> HIDE DEF A
<1>1. 0 \in S
  <2> DEFINE h == [i \in 0 .. 0 |-> A]
  <2>1. h = [i \in 0 .. 0 |-> IF i = 0 THEN A ELSE Js!ReadGap(data, i, h[i - 1])]
    OBVIOUS
  <2> QED BY <2>1
<1>2. ASSUME NEW m \in Nat, m \in S PROVE m + 1 \in S
  <2>1. PICK f : f = [i \in 0 .. m |->
                    IF i = 0 THEN A ELSE Js!ReadGap(data, i, f[i - 1])]
    BY <1>2
  <2> DEFINE h == [i \in 0 .. m + 1 |->
                    IF i <= m THEN f[i] ELSE Js!ReadGap(data, i, f[m])]
  <2>2. h = [i \in 0 .. m + 1 |->
                    IF i = 0 THEN A ELSE Js!ReadGap(data, i, h[i - 1])]
    BY <2>1
  <2> HIDE DEF h
  <2> QED BY <2>2
<1>3. n \in S
  <2> HIDE DEF S
  <2> QED BY <1>0, <1>1, <1>2, SetInduction
<1>4. g = [i \in 0 .. n |-> IF i = 0 THEN A ELSE Js!ReadGap(data, i, g[i - 1])]
  BY <1>3
<1>5. Js!GapsRead(data, n, from) = g
  BY DEF Js!GapsRead, A
<1> HIDE DEF g
<1>6. g[0] = A /\ \A i \in 1 .. n : g[i] = Js!ReadGap(data, i, g[i - 1])
  BY <1>0, <1>4
<1> QED BY <1>5, <1>6 DEF A

\* decodeRecordStream
LEMMA JsRecordsLoop ==
    ASSUME NEW l, Len(l.stream) \in Nat
    PROVE  LET f == Js!Records(l)
           IN  /\ f[0] = [offset |-> 0, blockId |-> 0, list |-> <<>>, threw |-> FALSE]
               /\ \A i \in 1 .. Len(l.stream) : f[i] = Js!Turn(l, f[i - 1])
<1> DEFINE A == [offset |-> 0, blockId |-> 0, list |-> <<>>, threw |-> FALSE]
           S == {m \in Nat : \E f : f = [i \in 0 .. m |->
                    IF i = 0 THEN A ELSE Js!Turn(l, f[i - 1])]}
           g == CHOOSE f : f = [i \in 0 .. Len(l.stream) |->
                    IF i = 0 THEN A ELSE Js!Turn(l, f[i - 1])]
<1>0. Len(l.stream) \in Nat
  OBVIOUS
<1> HIDE DEF A
<1>1. 0 \in S
  <2> DEFINE h == [i \in 0 .. 0 |-> A]
  <2>1. h = [i \in 0 .. 0 |-> IF i = 0 THEN A ELSE Js!Turn(l, h[i - 1])]
    OBVIOUS
  <2> QED BY <2>1
<1>2. ASSUME NEW m \in Nat, m \in S PROVE m + 1 \in S
  <2>1. PICK f : f = [i \in 0 .. m |->
                    IF i = 0 THEN A ELSE Js!Turn(l, f[i - 1])]
    BY <1>2
  <2> DEFINE h == [i \in 0 .. m + 1 |->
                    IF i <= m THEN f[i] ELSE Js!Turn(l, f[m])]
  <2>2. h = [i \in 0 .. m + 1 |->
                    IF i = 0 THEN A ELSE Js!Turn(l, h[i - 1])]
    BY <2>1
  <2> HIDE DEF h
  <2> QED BY <2>2
<1>3. Len(l.stream) \in S
  <2> HIDE DEF S
  <2> QED BY <1>0, <1>1, <1>2, SetInduction
<1>4. g = [i \in 0 .. Len(l.stream) |-> IF i = 0 THEN A ELSE Js!Turn(l, g[i - 1])]
  BY <1>3
<1>5. Js!Records(l) = g
  BY DEF Js!Records, A
<1> HIDE DEF g
<1>6. g[0] = A /\ \A i \in 1 .. Len(l.stream) : g[i] = Js!Turn(l, g[i - 1])
  BY <1>0, <1>4
<1> QED BY <1>5, <1>6 DEF A

-----------------------------------------------------------------------------
(* Powers of two, and bit operators on them                                *)

\* Powers of two double, which is known of the sizes of power sets.
LEMMA Powers == \A n \in Nat : 2 ^ n \in Nat \ {0} /\ 2 ^ (n + 1) = 2 * 2 ^ n
<1> SUFFICES ASSUME NEW n \in Nat PROVE 2 ^ n \in Nat \ {0} /\ 2 ^ (n + 1) = 2 * 2 ^ n
  OBVIOUS
<1> DEFINE S == 1 .. n
           T == 1 .. n + 1
           A == SUBSET S
           B == {U \cup {n + 1} : U \in A}
<1>1. /\ IsFiniteSet(S) /\ Cardinality(S) = n
      /\ IsFiniteSet(T) /\ Cardinality(T) = n + 1
  BY FS_Interval
<1>2. /\ IsFiniteSet(A) /\ Cardinality(A) = 2 ^ n
      /\ Cardinality(SUBSET T) = 2 ^ (n + 1)
  <2> HIDE DEF S, T
  <2> QED BY <1>1, FS_SUBSET
<1>3. SUBSET T = A \cup B
  <2>1. \A U \in SUBSET T : n + 1 \in U => U \ {n + 1} \in A /\ U = (U \ {n + 1}) \cup {n + 1}
    OBVIOUS
  <2>2. \A U \in SUBSET T : n + 1 \notin U => U \in A
    OBVIOUS
  <2>3. \A U \in A : U \cup {n + 1} \in SUBSET T /\ U \in SUBSET T
    OBVIOUS
  <2> HIDE DEF S, T, A
  <2>4. SUBSET T \subseteq A \cup B
    <3> SUFFICES ASSUME NEW U \in SUBSET T PROVE U \in A \cup B
      OBVIOUS
    <3>1. CASE n + 1 \in U
      <4>1. U \ {n + 1} \in A /\ U = (U \ {n + 1}) \cup {n + 1}
        BY <2>1, <3>1
      <4> QED BY <4>1
    <3>2. CASE n + 1 \notin U
      BY <2>2, <3>2
    <3> QED BY <3>1, <3>2
  <2>5. A \cup B \subseteq SUBSET T
    BY <2>3
  <2> QED BY <2>4, <2>5
<1>4. A \cap B = {}
  OBVIOUS
<1>5. IsFiniteSet(B) /\ Cardinality(B) = Cardinality(A)
  <2> DEFINE f == [U \in A |-> U \cup {n + 1}]
  <2>1. f \in Bijection(A, B)
    <3>1. \A U, V \in A : U \cup {n + 1} = V \cup {n + 1} => U = V
      <4>1. \A U \in A : n + 1 \notin U
        OBVIOUS
      <4>2. \A U \in A : (U \cup {n + 1}) \ {n + 1} = U
        BY <4>1
      <4> HIDE DEF A
      <4> QED BY <4>2
    <3>2. f \in [A -> B]
      OBVIOUS
    <3>3. \A U, V \in A : f[U] = f[V] => U = V
      <4> HIDE DEF A
      <4> QED BY <3>1
    <3>4. \A V \in B : \E U \in A : f[U] = V
      OBVIOUS
    <3> HIDE DEF A, B, f
    <3> QED BY <3>2, <3>3, <3>4 DEF Bijection, Injection, Surjection, IsInjective
  <2> HIDE DEF A, B, f
  <2>2. ExistsBijection(A, B)
    BY <2>1 DEF ExistsBijection
  <2> QED BY <1>2, <2>2, FS_Bijection
<1>6. Cardinality(SUBSET T) = Cardinality(A) + Cardinality(B)
  <2> HIDE DEF A, B, S, T
  <2>1. IsFiniteSet(A \cap B) /\ Cardinality(A \cap B) = 0
    BY <1>4, FS_EmptySet
  <2>2. Cardinality(A) \in Nat /\ Cardinality(B) \in Nat
    BY <1>2, <1>5, FS_CardinalityType
  <2>3. Cardinality(A \cup B) = Cardinality(A) + Cardinality(B) - Cardinality(A \cap B)
    BY <1>2, <1>5, FS_Union
  <2>4. Cardinality(SUBSET T) = Cardinality(A \cup B)
    BY <1>3, Zenon
  <2> QED BY <2>1, <2>2, <2>3, <2>4
<1>7. Cardinality(A) \in Nat /\ Cardinality(A) # 0
  <2>1. S \in A
    OBVIOUS
  <2> HIDE DEF A
  <2> QED BY <1>2, <2>1, FS_CardinalityType, FS_EmptySet
<1> HIDE DEF A, B, S, T
<1> QED BY <1>2, <1>5, <1>6, <1>7

\* Powers of two multiply by adding their exponents.
LEMMA PowersAdd == \A a, b \in Nat : 2 ^ (a + b) = 2 ^ a * 2 ^ b
<1> SUFFICES ASSUME NEW a \in Nat, NEW b \in Nat PROVE 2 ^ (a + b) = 2 ^ a * 2 ^ b
  OBVIOUS
<1> DEFINE S == {n \in Nat : 2 ^ (a + n) = 2 ^ a * 2 ^ n}
<1>1. 0 \in S
  <2>1. 2 ^ a \in Nat /\ 2 ^ 0 = 1
    BY Powers
  <2> QED BY <2>1
<1>2. ASSUME NEW n \in Nat, n \in S PROVE n + 1 \in S
  <2> DEFINE c == a + n
  <2>1. 2 ^ c = 2 ^ a * 2 ^ n /\ c \in Nat /\ c + 1 = a + (n + 1)
    BY <1>2
  <2> HIDE DEF c
  <2>2. 2 ^ (c + 1) = 2 * 2 ^ c /\ 2 ^ (n + 1) = 2 * 2 ^ n /\ 2 ^ a \in Nat /\ 2 ^ n \in Nat
    BY <2>1, Powers
  <2>3. \A x, y \in Nat : 2 * (x * y) = x * (2 * y)
    OBVIOUS
  <2>4. 2 ^ (c + 1) = 2 ^ a * 2 ^ (n + 1)
    BY <2>1, <2>2, <2>3
  <2>5. 2 ^ (a + (n + 1)) = 2 ^ a * 2 ^ (n + 1)
    BY <2>1, <2>4
  <2> QED BY <2>5
<1>3. b \in S
  <2> HIDE DEF S
  <2> QED BY <1>1, <1>2, SetInduction
<1> QED BY <1>3

\* The table of RecordStream has the powers of two.
LEMMA SmallPowers == \A w \in 0 .. 8 : 2 ^ w = Pow2(w)
<1>1. 2 ^ 0 = 1
  BY Powers
<1>2. 2 ^ 1 = 2 /\ 2 ^ 2 = 4 /\ 2 ^ 3 = 8 /\ 2 ^ 4 = 16
  BY <1>1, Powers
<1>3. 2 ^ 5 = 32 /\ 2 ^ 6 = 64 /\ 2 ^ 7 = 128 /\ 2 ^ 8 = 256
  BY <1>2, Powers
<1> SUFFICES ASSUME NEW w \in 0 .. 8 PROVE 2 ^ w = Pow2(w)
  OBVIOUS
<1>4. CASE w = 0
  BY <1>1, <1>4, Pow2Is
<1>5. CASE w = 1
  BY <1>2, <1>5, Pow2Is
<1>6. CASE w = 2
  BY <1>2, <1>6, Pow2Is
<1>7. CASE w = 3
  BY <1>2, <1>7, Pow2Is
<1>8. CASE w = 4
  BY <1>2, <1>8, Pow2Is
<1>9. CASE w = 5
  BY <1>3, <1>9, Pow2Is
<1>10. CASE w = 6
  BY <1>3, <1>10, Pow2Is
<1>11. CASE w = 7
  BY <1>3, <1>11, Pow2Is
<1>12. CASE w = 8
  BY <1>3, <1>12, Pow2Is
<1> QED BY <1>4, <1>5, <1>6, <1>7, <1>8, <1>9, <1>10, <1>11, <1>12

\* Powers ascend.
LEMMA PowersAscend == \A a, b \in Nat : a <= b => 2 ^ a <= 2 ^ b
<1> SUFFICES ASSUME NEW a \in Nat, NEW b \in Nat, a <= b PROVE 2 ^ a <= 2 ^ b
  OBVIOUS
<1> DEFINE d == b - a
<1>1. d \in Nat /\ b = a + d
  OBVIOUS
<1> HIDE DEF d
<1>2. 2 ^ b = 2 ^ a * 2 ^ d /\ 2 ^ a \in Nat \ {0} /\ 2 ^ d \in Nat \ {0}
  BY <1>1, Powers, PowersAdd
<1>3. \A x, y \in Nat \ {0} : x <= x * y
  OBVIOUS
<1> QED BY <1>2, <1>3

\* The low bits of a sum whose second part is a multiple of 2 ^ s are those of
\* the first, and the high ones those of the second.
LEMMA OrBitOfSum ==
    ASSUME NEW s \in Nat, NEW v \in Nat, v < 2 ^ s, NEW u \in Nat, NEW p \in Nat
    PROVE  Port!OrBit(v, u * 2 ^ s, p) = ((v + u * 2 ^ s) \div 2 ^ p) % 2
<1> DEFINE a == 2 ^ s
           c == 2 ^ p
           w == u * a
<1>1. a \in Nat \ {0} /\ c \in Nat \ {0}
  BY Powers
<1>2. w \in Nat
  BY <1>1, ProductType
<1>3. CASE p < s
  <2> DEFINE d == s - p - 1
             e == 2 ^ d
  <2>1. d \in Nat /\ p + 1 \in Nat /\ s = (p + 1) + d
    BY <1>3
  <2> HIDE DEF d
  <2>2. e \in Nat \ {0} /\ 2 ^ (p + 1) = 2 * c /\ a = 2 ^ (p + 1) * e
    BY <2>1, Powers, PowersAdd
  <2> HIDE DEF a, c, e
  <2> DEFINE q == u * e
  <2>3. q \in Nat
    BY <2>2, ProductType
  <2>4. \A x, y, z \in Nat : x * ((2 * y) * z) = (2 * (x * z)) * y
    OBVIOUS
  <2>5. w = (2 * q) * c
    BY <1>1, <2>2, <2>4
  <2> HIDE DEF w, q
  <2>6. \A x, y \in Nat : \A z \in Nat \ {0} : (x + y * z) \div z = x \div z + y
    OBVIOUS
  <2>7. (v + w) \div c = v \div c + 2 * q /\ w \div c = 2 * q
    <3> DEFINE r == 2 * q
    <3>1. r \in Nat
      BY <2>3
    <3> HIDE DEF r
    <3>2. (v + r * c) \div c = v \div c + r /\ (0 + r * c) \div c = 0 \div c + r
      BY <1>1, <2>6, <3>1
    <3>3. 0 \div c = 0 /\ 0 + w = w
      BY <1>1, <1>2
    <3>4. w = r * c
      BY <2>5 DEF r
    <3>5. (v + w) \div c = v \div c + r /\ w \div c = r
      BY <3>1, <3>2, <3>3, <3>4
    <3> QED BY <3>5 DEF r
  <2>8. v \div c \in Nat
    BY <1>1, DivType
  <2>9. ((v + w) \div c) % 2 = (v \div c) % 2 /\ (w \div c) % 2 = 0
    BY <1>2, <2>3, <2>7, <2>8
  <2>10. Port!OrBit(v, w, p) = IF (v \div c) % 2 = 0 THEN (w \div c) % 2 ELSE 1
    BY DEF Port!OrBit, Port!Bit, c
  <2>11. (v \div c) % 2 \in {0, 1}
    BY <2>8
  <2>12. Port!OrBit(v, w, p) = ((v + w) \div c) % 2
    BY <2>9, <2>10, <2>11
  <2> QED BY <2>12 DEF w, a, c
<1>4. CASE p >= s
  <2> DEFINE d == p - s
             e == 2 ^ d
  <2>1. d \in Nat /\ p = s + d
    BY <1>4
  <2> HIDE DEF d
  <2>2. e \in Nat \ {0} /\ c = a * e
    BY <2>1, Powers, PowersAdd
  <2>3. v < a
    OBVIOUS
  <2> HIDE DEF a, c, e
  <2>4. v \div a = 0 /\ w \div a = u /\ (v + w) \div a = u
    <3>1. \A z \in Nat \ {0} : \A x \in 0 .. z - 1 : \A y \in Nat :
              x \div z = 0 /\ (y * z) \div z = y /\ (x + y * z) \div z = y
      OBVIOUS
    <3>2. v \in 0 .. a - 1
      BY <1>1, <2>3
    <3> QED BY <1>1, <3>1, <3>2
  <2>5. v + w \in Nat
    BY <1>2
  <2> HIDE DEF w
  <2>6. v \div c = 0 \div e /\ w \div c = u \div e /\ (v + w) \div c = u \div e
    <3>1. \A y \in Nat : (y \div a) \div e = y \div (a * e)
      BY <1>1, <2>2, DivTwice
    <3>2. \A y \in Nat : (y \div a) \div e = y \div c
      BY <2>2, <3>1
    <3> HIDE DEF a
    <3> QED BY <1>2, <2>4, <2>5, <3>2
  <2>7. 0 \div e = 0
    BY <2>2
  <2>8. Port!OrBit(v, w, p) = IF (v \div c) % 2 = 0 THEN (w \div c) % 2 ELSE 1
    BY DEF Port!OrBit, Port!Bit, c
  <2>9. Port!OrBit(v, w, p) = ((v + w) \div c) % 2
    BY <2>6, <2>7, <2>8
  <2> QED BY <2>9 DEF w, a, c
<1> QED BY <1>3, <1>4

\* Where no bits meet, | adds.
LEMMA OrIsSum ==
    ASSUME NEW width \in Nat, NEW s \in Nat, s <= width,
           NEW v \in Nat, v < 2 ^ s, NEW u \in Nat, u * 2 ^ s < 2 ^ width
    PROVE  Port!Or(v, u * 2 ^ s, width) = v + u * 2 ^ s
<1> DEFINE a == 2 ^ s
           w == u * a
           x == v + w
           low == Port!OrBits(v, w, width)
           X == {p \in Nat : p <= width => low[p] = x % 2 ^ p}
<1>1. a \in Nat \ {0} /\ w \in Nat /\ x \in Nat
  BY Powers, ProductType
<1>2. /\ low[0] = 0
      /\ \A i \in 1 .. width :
             low[i] = low[i - 1] + 2 ^ (i - 1) * Port!OrBit(v, w, i - 1)
  BY OrLoop
<1> HIDE DEF low
<1>3. 0 \in X
  <2>1. 2 ^ 0 = 1
    BY Powers
  <2> HIDE DEF x
  <2> QED BY <1>1, <1>2, <2>1
<1>4. ASSUME NEW m \in Nat, m < width, m \in X PROVE m + 1 \in X
  <2>1. low[m] = x % 2 ^ m
    BY <1>4
  <2>2. low[m + 1] = low[m] + 2 ^ m * Port!OrBit(v, w, m)
    <3>1. m + 1 \in 1 .. width /\ (m + 1) - 1 = m
      BY <1>4
    <3>2. low[m + 1] = low[(m + 1) - 1] + 2 ^ ((m + 1) - 1) * Port!OrBit(v, w, (m + 1) - 1)
      BY <1>2, <3>1
    <3> QED BY <3>1, <3>2
  <2>3. Port!OrBit(v, w, m) = (x \div 2 ^ m) % 2
    BY OrBitOfSum
  <2>4. 2 ^ m \in Nat \ {0} /\ 2 ^ (m + 1) = 2 * 2 ^ m
    BY Powers
  <2> HIDE DEF x, w
  <2>5. x % (2 * 2 ^ m) = (x % 2 ^ m) + 2 ^ m * ((x \div 2 ^ m) % 2)
    BY <1>1, <2>4, OneMoreBit
  <2>6. low[m + 1] = x % 2 ^ (m + 1)
    BY <2>1, <2>2, <2>3, <2>4, <2>5
  <2> QED BY <2>6
<1>5. width \in X
  <2> HIDE DEF X
  <2> QED BY <1>3, <1>4, SetInduction
<1>6. x < 2 ^ width
  <2> DEFINE d == width - s
             e == 2 ^ d
  <2>1. d \in Nat /\ width = s + d
    OBVIOUS
  <2> HIDE DEF d
  <2>2. e \in Nat \ {0} /\ 2 ^ width = a * e
    BY <2>1, Powers, PowersAdd
  <2>3. v < a /\ w < 2 ^ width
    OBVIOUS
  <2> HIDE DEF a, e
  <2>4. \A y, z, t \in Nat : y * z < z * t => (y + 1) * z <= z * t
    <3> SUFFICES ASSUME NEW y \in Nat, NEW z \in Nat, NEW t \in Nat, y * z < z * t
                 PROVE  (y + 1) * z <= z * t
      OBVIOUS
    <3>1. y < t
      <4>1. CASE t <= y
        <5>1. \A f \in Nat : z * (t + f) = z * t + z * f /\ z * f \in Nat /\ z * t \in Nat
          OBVIOUS
        <5>2. y - t \in Nat /\ y = t + (y - t) /\ y * z = z * y
          BY <4>1
        <5>3. z * y = z * t + z * (y - t) /\ z * (y - t) \in Nat /\ z * t \in Nat
          BY <5>1, <5>2
        <5> QED BY <5>2, <5>3
      <4> QED BY <4>1
    <3> DEFINE f == t - (y + 1)
    <3>2. f \in Nat /\ t = (y + 1) + f
      BY <3>1
    <3> HIDE DEF f
    <3>3. z * t = z * (y + 1) + z * f /\ z * f \in Nat /\ z * (y + 1) = (y + 1) * z
          /\ (y + 1) * z \in Nat
      BY <3>2
    <3> QED BY <3>3
  <2>5. (u + 1) * a <= a * e
    BY <1>1, <2>2, <2>3, <2>4
  <2>6. (u + 1) * a = u * a + a
    BY <1>1
  <2> QED BY <1>1, <2>2, <2>3, <2>5, <2>6
<1>7. low[width] = x % 2 ^ width
  BY <1>5
<1>8. x % 2 ^ width = x
  <2>1. 2 ^ width \in Nat \ {0}
    BY Powers
  <2> HIDE DEF x
  <2> QED BY <1>1, <1>6, <2>1
<1>9. Port!Or(v, w, width) = low[width]
  BY DEF Port!Or, low
<1> QED BY <1>7, <1>8, <1>9

-----------------------------------------------------------------------------
(* Varints                                                                 *)

\* One byte of a varint
LEMMA UvarintStep ==
    ASSUME leaf \in Leaves, NEW o \in 0 .. Size, Uvarint(leaf.stream, o) # None
    PROVE  /\ o < Size
           /\ Byte(o) \in 0 .. 255
           /\ Byte(o) < 128 => /\ Uvarint(leaf.stream, o).value = Byte(o)
                               /\ Uvarint(leaf.stream, o).next = o + 1
           /\ Byte(o) >= 128 =>
                  /\ o + 1 \in 0 .. Size
                  /\ Uvarint(leaf.stream, o + 1) # None
                  /\ Uvarint(leaf.stream, o).value
                         = (Byte(o) % 128) + 128 * Uvarint(leaf.stream, o + 1).value
                  /\ Uvarint(leaf.stream, o).next = Uvarint(leaf.stream, o + 1).next
<1>1. Uvarint(leaf.stream, o) =
            IF o = Size THEN None
            ELSE IF Byte(o) < 128
            THEN [value |-> Byte(o), next |-> o + 1]
            ELSE IF Uvarint(leaf.stream, o + 1) = None THEN None
            ELSE [value |-> (Byte(o) % 128) + 128 * Uvarint(leaf.stream, o + 1).value,
                  next |-> Uvarint(leaf.stream, o + 1).next]
  BY LEB128Assumption DEF Size, Byte
<1>2. Size \in Nat /\ o # Size
  BY <1>1, SizeType
<1>3. o \in 0 .. Size - 1
  BY <1>2
<1>4. Byte(o) \in 0 .. 255
  BY <1>3, ByteType
<1>5. ASSUME Byte(o) < 128
      PROVE  Uvarint(leaf.stream, o).value = Byte(o) /\ Uvarint(leaf.stream, o).next = o + 1
  <2>1. Uvarint(leaf.stream, o) = [value |-> Byte(o), next |-> o + 1]
    BY <1>1, <1>2, <1>5, Zenon
  <2> QED BY <2>1
<1>6. ASSUME Byte(o) >= 128
      PROVE  /\ Uvarint(leaf.stream, o + 1) # None
             /\ Uvarint(leaf.stream, o).value
                    = (Byte(o) % 128) + 128 * Uvarint(leaf.stream, o + 1).value
             /\ Uvarint(leaf.stream, o).next = Uvarint(leaf.stream, o + 1).next
  <2>1. ~(Byte(o) < 128)
    BY <1>4, <1>6
  <2>2. Uvarint(leaf.stream, o + 1) # None
    BY <1>1, <1>2, <2>1
  <2>3. Uvarint(leaf.stream, o)
            = [value |-> (Byte(o) % 128) + 128 * Uvarint(leaf.stream, o + 1).value,
               next |-> Uvarint(leaf.stream, o + 1).next]
    BY <1>1, <1>2, <2>1, <2>2
  <2> QED BY <2>2, <2>3
<1> QED BY <1>2, <1>3, <1>4, <1>5, <1>6

\* The bytes that a port reads are those of the stream.
LEMMA PortByte ==
    ASSUME leaf \in Leaves, NEW p \in Int
    PROVE  /\ Port!Byte(leaf.stream, p) = IF p \in 0 .. Size - 1 THEN Byte(p) ELSE 0
           /\ Port!Byte(leaf.stream, p) \in 0 .. 255
<1>1. Port!Byte(leaf.stream, p) = IF p \in 0 .. Size - 1 THEN Byte(p) ELSE 0
  BY DEF Port!Byte, Byte, Size
<1> QED BY <1>1, ByteType

\* A shifted group of seven bits, where the bits are not lost
LEMMA GroupIs ==
    ASSUME NEW width \in Nat, NEW top \in Nat, top < width, NEW b \in Nat, NEW i \in Nat,
           b * 2 ^ (7 * i) < 2 ^ top
    PROVE  /\ Port!Shl(b, 7 * i, width) = b * 2 ^ (7 * i)
           /\ b # 0 => 7 * i < top
<1> DEFINE s == 7 * i
           a == 2 ^ s
<1>1. s \in Nat /\ a \in Nat \ {0} /\ 2 ^ width \in Nat \ {0} /\ 2 ^ top \in Nat
  BY Powers
<1>2. 2 ^ top <= 2 ^ width
  BY PowersAscend
<1>3. ASSUME b # 0 PROVE s < top
  <2>1. a <= b * a
    <3>1. \A x, y \in Nat \ {0} : x <= y * x
      OBVIOUS
    <3>2. b \in Nat \ {0}
      BY <1>3
    <3> HIDE DEF a
    <3> QED BY <1>1, <3>1, <3>2
  <2>2. a < 2 ^ top
    <3>1. b * a < 2 ^ top /\ b * a \in Nat
      BY <1>1, ProductType
    <3> HIDE DEF a
    <3> QED BY <1>1, <2>1, <3>1
  <2>3. ~(top <= s)
    <3>1. top <= s => 2 ^ top <= a
      BY <1>1, PowersAscend
    <3> HIDE DEF a
    <3> QED BY <1>1, <2>2, <3>1
  <2> QED BY <1>1, <2>3
<1>4. Port!Shl(b, s, width) = (b * 2 ^ (s % width)) % 2 ^ width
  BY DEF Port!Shl
<1>5. CASE b = 0
  <2>1. \A x \in Nat : b * x = 0
    BY <1>5
  <2>2. s % width \in Nat /\ 2 ^ (s % width) \in Nat
    <3>1. width \in Nat \ {0}
      OBVIOUS
    <3>2. s % width \in Nat
      BY <1>1, <3>1
    <3> QED BY <3>2, Powers
  <2>3. b * 2 ^ (s % width) = 0 /\ b * a = 0
    BY <1>1, <2>1, <2>2
  <2>4. 0 % 2 ^ width = 0
    BY <1>1
  <2> QED BY <1>3, <1>4, <2>3, <2>4
<1>6. CASE b # 0
  <2>1. s < top
    BY <1>3, <1>6
  <2>2. s % width = s
    BY <1>1, <2>1
  <2>3. b * a \in Nat /\ b * a < 2 ^ top
    BY <1>1, ProductType
  <2> HIDE DEF a
  <2>4. (b * a) % 2 ^ width = b * a
    BY <1>1, <1>2, <2>3
  <2>5. Port!Shl(b, s, width) = b * a
    BY <1>4, <2>2, <2>4 DEF a
  <2> QED BY <2>1, <2>5 DEF a
<1> QED BY <1>5, <1>6

\* A varint below 2 ^ top is read to its end in every width above top.
LEMMA VarintAgrees ==
    ASSUME leaf \in Leaves, NEW o \in 0 .. Size, Uvarint(leaf.stream, o) # None,
           NEW width \in Nat, NEW top \in Nat, top < width,
           Uvarint(leaf.stream, o).value < 2 ^ top
    PROVE  /\ Port!Varint(leaf.stream, o, width).value = Uvarint(leaf.stream, o).value
           /\ Port!Varint(leaf.stream, o, width).next = Uvarint(leaf.stream, o).next
<1> DEFINE U(i) == Uvarint(leaf.stream, o + i)
           V == Uvarint(leaf.stream, o).value
           n == Uvarint(leaf.stream, o).next - o
           val == Port!VarintValue(leaf.stream, o, n, width)
           X == {i \in Nat : i < n =>
                    /\ U(i) # None
                    /\ U(i).next = o + n
                    /\ \A q \in o .. o + i - 1 : Byte(q) >= 128
                    /\ val[i] \in Nat
                    /\ val[i] < 2 ^ (7 * i)
                    /\ V = val[i] + 2 ^ (7 * i) * U(i).value}
<1>0. Size \in Nat /\ o \in Nat /\ V \in Nat /\ n \in Nat \ {0} /\ o + n <= Size
      /\ Uvarint(leaf.stream, o).next = o + n
  BY SizeType, UvarintType
<1>1. val[0] = 0 /\ \A i \in 1 .. n : val[i] = Port!NextValue(leaf.stream, o, i, val[i - 1], width)
  BY <1>0, VarintLoop
<1> HIDE DEF val, n
\* One byte more
<1>2. ASSUME NEW i \in Nat, i < n, i \in X
      PROVE  /\ o + i \in 0 .. Size - 1 /\ Byte(o + i) \in 0 .. 255
             /\ val[i + 1] = val[i] + (Byte(o + i) % 128) * 2 ^ (7 * i)
             /\ val[i + 1] \in Nat
             /\ val[i + 1] < 2 ^ (7 * (i + 1))
             /\ Byte(o + i) < 128 => V = val[i + 1] /\ n = i + 1
             /\ Byte(o + i) >= 128 =>
                    /\ i + 1 < n
                    /\ U(i + 1) # None
                    /\ U(i + 1).next = o + n
                    /\ V = val[i + 1] + 2 ^ (7 * (i + 1)) * U(i + 1).value
  <2> DEFINE b == Byte(o + i)
             g == b % 128
             s == 7 * i
             a == 2 ^ s
             t == IF b < 128 THEN 0 ELSE U(i + 1).value
  <2>1. /\ U(i) # None /\ U(i).next = o + n
        /\ val[i] \in Nat /\ val[i] < a /\ V = val[i] + a * U(i).value
    BY <1>2
  <2>2. o + i \in 0 .. Size
    BY <1>0, <1>2
  <2>3. /\ o + i < Size
        /\ b \in 0 .. 255
        /\ b < 128 => U(i).value = b /\ U(i).next = (o + i) + 1
        /\ b >= 128 =>
               /\ (o + i) + 1 \in 0 .. Size
               /\ Uvarint(leaf.stream, (o + i) + 1) # None
               /\ U(i).value = g + 128 * Uvarint(leaf.stream, (o + i) + 1).value
               /\ U(i).next = Uvarint(leaf.stream, (o + i) + 1).next
    BY <2>1, <2>2, UvarintStep
  <2>4. (o + i) + 1 = o + (i + 1)
    BY <1>0
  <2>5. b >= 128 =>
            /\ o + (i + 1) \in 0 .. Size
            /\ U(i + 1) # None
            /\ U(i).value = g + 128 * U(i + 1).value
            /\ U(i).next = U(i + 1).next
    BY <2>3, <2>4
  <2>6. g \in 0 .. 127 /\ (b < 128 => g = b)
    BY <2>3
  <2>7. b >= 128 => U(i + 1).value \in Nat /\ U(i + 1).next >= o + (i + 1) + 1
    BY <1>0, <2>5, UvarintType
  <2>8. t \in Nat /\ U(i).value = g + 128 * t
    BY <2>3, <2>5, <2>6, <2>7
  <2>9. s \in Nat /\ a \in Nat \ {0} /\ 2 ^ (7 * (i + 1)) = 128 * a
    <3>1. s \in Nat /\ 7 * (i + 1) = s + 7
      OBVIOUS
    <3>2. 2 ^ (s + 7) = a * 2 ^ 7 /\ a \in Nat \ {0}
      BY <3>1, PowersAdd, Powers
    <3>3. 2 ^ 7 = 128
      BY SmallPowers, Pow2Is
    <3> HIDE DEF a
    <3> QED BY <3>1, <3>2, <3>3
  <2>10. V = (val[i] + g * a) + (128 * a) * t
    <3>1. \A x, y, z \in Nat : x * (y + 128 * z) = y * x + (128 * x) * z
      OBVIOUS
    <3>2. g \in Nat /\ 128 * a \in Nat
      BY <2>6, <2>9
    <3> HIDE DEF a, g, t
    <3>3. a * (g + 128 * t) = g * a + (128 * a) * t
      BY <2>8, <2>9, <3>1, <3>2
    <3>4. g * a \in Nat /\ (128 * a) * t \in Nat
      BY <2>8, <2>9, <3>2, ProductType
    <3>5. a * U(i).value = g * a + (128 * a) * t
      BY <2>8, <3>3
    <3> QED BY <2>1, <3>4, <3>5
  <2>11. g * a \in Nat /\ g * a < 2 ^ top
    <3>1. g * a \in Nat /\ (128 * a) * t \in Nat
      BY <2>6, <2>8, <2>9, ProductType
    <3>2. V < 2 ^ top /\ 2 ^ top \in Nat
      BY Powers
    <3> HIDE DEF a, g, t, V
    <3> QED BY <1>0, <2>1, <2>10, <3>1, <3>2
  <2>12. Port!Shl(g, s, width) = g * a /\ (g # 0 => s < top)
    <3>1. g \in Nat
      BY <2>6
    <3> HIDE DEF g
    <3> QED BY <2>11, <3>1, GroupIs
  <2>13. val[i + 1] = Port!Or(val[i], g * a, width)
    <3>1. i + 1 \in 1 .. n /\ (i + 1) - 1 = i
      BY <1>0, <1>2
    <3>2. val[i + 1] = Port!NextValue(leaf.stream, o, i + 1, val[(i + 1) - 1], width)
      BY <1>1, <3>1
    <3>3. Port!Byte(leaf.stream, o + i) = b
      BY <1>0, <2>2, <2>3, PortByte
    <3>4. o + (i + 1) - 1 = o + i
      BY <1>0
    <3>5. Port!NextValue(leaf.stream, o, i + 1, val[i], width)
             = Port!Or(val[i], Port!Shl(Port!Byte(leaf.stream, o + (i + 1) - 1) % 128,
                                        7 * ((i + 1) - 1), width), width)
      BY DEF Port!NextValue
    <3> QED BY <2>12, <3>1, <3>2, <3>3, <3>4, <3>5
  <2>14. val[i + 1] = val[i] + g * a
    <3>1. CASE g # 0
      <4>1. s <= width /\ g * a < 2 ^ width
        <5>1. 2 ^ top <= 2 ^ width /\ 2 ^ top \in Nat /\ 2 ^ width \in Nat
          BY Powers, PowersAscend
        <5>2. s <= width
          BY <2>9, <2>12, <3>1
        <5> HIDE DEF a, g
        <5> QED BY <2>11, <5>1, <5>2
      <4>2. val[i] \in Nat /\ val[i] < 2 ^ s /\ g \in Nat
        BY <2>1, <2>6
      <4> HIDE DEF g
      <4> QED BY <2>9, <2>13, <4>1, <4>2, OrIsSum
    <3>2. CASE g = 0
      <4>1. g * a = 0
        BY <2>9, <3>2
      <4>2. val[i] < 2 ^ top
        <5>1. V < 2 ^ top /\ 2 ^ top \in Nat /\ (128 * a) * t \in Nat
          BY <2>8, <2>9, Powers, ProductType
        <5>2. V = val[i] + (128 * a) * t
          BY <2>1, <2>10, <4>1
        <5> DEFINE r == (128 * a) * t
        <5>3. V = val[i] + r /\ r \in Nat
          BY <5>1, <5>2
        <5> HIDE DEF V, r
        <5> QED BY <1>0, <2>1, <5>1, <5>3
      <4>3. 2 ^ top \in Nat /\ 2 ^ width \in Nat \ {0} /\ 0 * 2 ^ top = 0
        BY Powers
      <4>4. Port!Or(val[i], 0 * 2 ^ top, width) = val[i] + 0 * 2 ^ top
        BY <2>1, <4>2, <4>3, OrIsSum
      <4> QED BY <2>1, <2>13, <4>1, <4>3, <4>4
    <3> QED BY <3>1, <3>2
  <2>15. val[i + 1] \in Nat /\ val[i + 1] < 2 ^ (7 * (i + 1))
    <3>1. g * a <= 127 * a /\ g * a \in Nat
      <4>1. \A x \in 0 .. 127 : \A y \in Nat : x * y <= 127 * y
        OBVIOUS
      <4> QED BY <2>6, <2>9, <2>11, <4>1
    <3> HIDE DEF a, g
    <3> QED BY <2>1, <2>9, <2>14, <3>1
  <2>16. ASSUME b < 128 PROVE V = val[i + 1] /\ n = i + 1
    <3>1. t = 0
      BY <2>16
    <3>2. (128 * a) * 0 = 0
      BY <2>9
    <3>3. o + n = (o + i) + 1
      BY <2>1, <2>3, <2>16
    <3> HIDE DEF a, g, t, V
    <3> QED BY <1>0, <2>10, <2>11, <2>14, <2>15, <3>1, <3>2, <3>3
  <2>17. ASSUME b >= 128
         PROVE  /\ i + 1 < n
                /\ U(i + 1) # None
                /\ U(i + 1).next = o + n
                /\ V = val[i + 1] + 2 ^ (7 * (i + 1)) * U(i + 1).value
    <3>1. U(i + 1) # None /\ U(i + 1).next = o + n /\ o + n >= o + (i + 1) + 1
      BY <2>1, <2>5, <2>7, <2>17
    <3>2. t = U(i + 1).value
      BY <2>3, <2>17
    <3>3. i + 1 < n
      BY <1>0, <3>1
    <3> HIDE DEF a, g, t, V, U
    <3> QED BY <2>9, <2>10, <2>14, <3>1, <3>2, <3>3
  <2>18. o + i \in 0 .. Size - 1
    BY <1>0, <2>2, <2>3
  <2> HIDE DEF a, U, V
  <2> QED BY <2>3, <2>14, <2>15, <2>16, <2>17, <2>18 DEF a
<1>3. 0 \in X
  <2>1. 2 ^ 0 = 1 /\ 7 * 0 = 0 /\ o + 0 = o
    BY <1>0, Powers
  <2>2. V = val[0] + 2 ^ (7 * 0) * U(0).value
    BY <1>0, <1>1, <2>1
  <2> QED BY <1>0, <1>1, <2>1, <2>2
<1>4. ASSUME NEW i \in Nat, i < n - 1, i \in X PROVE i + 1 \in X
  <2>1. i < n /\ i + 1 < n
    BY <1>0, <1>4
  <2> DEFINE b == Byte(o + i)
  <2>2. /\ b \in 0 .. 255
        /\ val[i + 1] \in Nat
        /\ val[i + 1] < 2 ^ (7 * (i + 1))
        /\ b < 128 => n = i + 1
        /\ b >= 128 =>
               /\ U(i + 1) # None
               /\ U(i + 1).next = o + n
               /\ V = val[i + 1] + 2 ^ (7 * (i + 1)) * U(i + 1).value
    BY <1>2, <1>4, <2>1
  <2>3. b >= 128
    BY <1>0, <2>1, <2>2
  <2>4. \A q \in o .. o + i - 1 : Byte(q) >= 128
    BY <1>4, <2>1
  <2>5. \A q \in o .. o + (i + 1) - 1 : q = o + i \/ q \in o .. o + i - 1
    BY <1>0
  <2>6. \A q \in o .. o + (i + 1) - 1 : Byte(q) >= 128
    BY <2>3, <2>4, <2>5
  <2> QED BY <2>2, <2>3, <2>6
<1> DEFINE z == n - 1
<1>5. z \in Nat /\ z < n /\ z + 1 = n
  BY <1>0
<1>6. z \in X
  <2> HIDE DEF X
  <2> QED BY <1>3, <1>4, <1>5, SetInduction
<1>7. /\ o + z \in 0 .. Size - 1 /\ Byte(o + z) \in 0 .. 255
      /\ Byte(o + z) < 128 => V = val[z + 1]
      /\ Byte(o + z) >= 128 => z + 1 < n
      /\ \A q \in o .. o + z - 1 : Byte(q) >= 128
  <2>1. \A q \in o .. o + z - 1 : Byte(q) >= 128
    BY <1>5, <1>6
  <2> HIDE DEF X, z
  <2> QED BY <1>2, <1>5, <1>6, <2>1
<1>8. Byte(o + z) < 128 /\ V = val[n]
  BY <1>0, <1>5, <1>7
<1>9. Port!LastByte(leaf.stream, o) = o + z
  <2> DEFINE P(p) == /\ p \in o .. Size - 1
                     /\ Port!Byte(leaf.stream, p) < 128 \/ p = Size - 1
                     /\ \A q \in o .. p - 1 : Port!Byte(leaf.stream, q) >= 128
  <2>1. \A p \in o .. Size - 1 : Port!Byte(leaf.stream, p) = Byte(p)
    BY <1>0, PortByte
  <2>2. P(o + z)
    <3>1. o + z \in o .. Size - 1
      BY <1>0, <1>5, <1>7
    <3>2. \A q \in o .. o + z - 1 : q \in o .. Size - 1
      BY <1>0, <3>1
    <3>3. Port!Byte(leaf.stream, o + z) < 128
      BY <1>8, <2>1, <3>1
    <3>4. \A q \in o .. o + z - 1 : Port!Byte(leaf.stream, q) >= 128
      BY <1>7, <2>1, <3>2
    <3> HIDE DEF z
    <3> QED BY <1>0, <1>5, <3>1, <3>3, <3>4
  <2>3. ASSUME NEW p, P(p) PROVE p = o + z
    <3>1. p \in o .. Size - 1
      BY <2>3
    <3>2. ~(p < o + z)
      <4>1. SUFFICES ASSUME p < o + z PROVE FALSE
        OBVIOUS
      <4>2. p \in o .. o + z - 1
        BY <1>0, <1>5, <3>1, <4>1
      <4>3. Byte(p) >= 128 /\ Port!Byte(leaf.stream, p) = Byte(p) /\ p # Size - 1
        BY <1>0, <1>5, <1>7, <2>1, <3>1, <4>1, <4>2
      <4>4. Byte(p) \in 0 .. 255
        BY <1>0, <3>1, ByteType
      <4> QED BY <2>3, <4>3, <4>4
    <3>3. ~(p > o + z)
      <4>1. SUFFICES ASSUME p > o + z PROVE FALSE
        OBVIOUS
      <4>2. o + z \in o .. p - 1 /\ o + z \in o .. Size - 1
        BY <1>0, <1>5, <1>7, <3>1, <4>1
      <4>3. Port!Byte(leaf.stream, o + z) >= 128
        BY <2>3, <4>2
      <4> QED BY <1>7, <1>8, <2>1, <4>2, <4>3
    <3> QED BY <1>0, <1>5, <3>1, <3>2, <3>3
  <2>4. Port!LastByte(leaf.stream, o) = CHOOSE p : P(p)
    BY DEF Port!LastByte, Size
  <2> HIDE DEF P, z
  <2> QED BY <2>2, <2>3, <2>4
<1>10. Port!Varint(leaf.stream, o, width) = [value |-> val[n], next |-> o + n]
  <2>1. Port!LastByte(leaf.stream, o) - o + 1 = n
    BY <1>0, <1>5, <1>9
  <2>2. ~(o >= Size)
    BY <1>0, <1>5
  <2>3. Port!Varint(leaf.stream, o, width)
            = LET m == Port!LastByte(leaf.stream, o) - o + 1
              IN  IF o >= Size THEN [value |-> 0, next |-> o]
                  ELSE [value |-> Port!VarintValue(leaf.stream, o, m, width)[m], next |-> o + m]
    BY DEF Port!Varint, Size
  <2> QED BY <2>1, <2>2, <2>3 DEF val
<1> QED BY <1>0, <1>8, <1>10

\* Below the sign bit an integer with a sign is the number itself.
LEMMA SignedIs ==
    ASSUME NEW v \in Nat, v < 2 ^ (IntBits - 1)
    PROVE  Js!Signed(v) = v
<1> DEFINE e == IntBits - 1
           a == 2 ^ e
<1>1. e \in Nat /\ IntBits = e + 1 /\ a \in Nat \ {0} /\ 2 ^ (e + 1) = 2 * a
  BY PortsFit, Powers
<1>2. v < a
  OBVIOUS
<1>3. Js!Signed(v) = ((v + a) % 2 ^ IntBits) - a
  BY DEF Js!Signed
<1>4. 2 ^ IntBits = 2 * a
  BY <1>1
<1> HIDE DEF a
<1>5. (v + a) % (2 * a) = v + a
  BY <1>1, <1>2
<1> QED BY <1>1, <1>3, <1>4, <1>5

\* What the JavaScript port has in common with the other one
LEMMA JsIsPort ==
    /\ \A data, o, width : Js!Varint(data, o, width) = Port!Varint(data, o, width)
    /\ \A data, p : Js!Byte(data, p) = Port!Byte(data, p)
    /\ \A data, o, n : Js!SetBits(data, o, n) = Port!SetBits(data, o, n)
    /\ \A data, pos, width : Js!BitsAt(data, pos, width) = Port!BitsAt(data, pos, width)
    /\ \A m : Js!CeilLog2(m) = Port!CeilLog2(m)
    /\ \A w : Js!AtLeastOne(w) = Port!AtLeastOne(w)
    /\ \A r, c : Js!Nth(r, c) = Port!Nth(r, c)
    /\ \A bits : Js!NumBytes(bits) = NumBytes(bits)
<1>1. \A data, p : Js!Byte(data, p) = Port!Byte(data, p)
  BY DEF Js!Byte, Port!Byte
<1>2. \A v, p : Js!Bit(v, p) = Port!Bit(v, p)
  BY DEF Js!Bit, Port!Bit
<1>3. \A v, w, width : Js!Or(v, w, width) = Port!Or(v, w, width)
  BY DEF Js!Or, Port!Or, Js!OrBits, Port!OrBits, Js!OrBit, Port!OrBit, Js!Bit, Port!Bit
<1>4. \A data, o, width : Js!Varint(data, o, width) = Port!Varint(data, o, width)
  BY DEF Js!Varint, Port!Varint, Js!LastByte, Port!LastByte, Js!VarintValue, Port!VarintValue,
         Js!NextValue, Port!NextValue, Js!Shl, Port!Shl, Js!Or, Port!Or, Js!OrBits, Port!OrBits,
         Js!OrBit, Port!OrBit, Js!Bit, Port!Bit, Js!Byte, Port!Byte
<1>5. \A data, o, n : Js!SetBits(data, o, n) = Port!SetBits(data, o, n)
  BY DEF Js!SetBits, Port!SetBits, Js!OneMoreBit, Port!OneMoreBit, Js!Bit, Port!Bit, Js!Byte,
         Port!Byte
<1>6. \A data, pos, width : Js!BitsAt(data, pos, width) = Port!BitsAt(data, pos, width)
  BY DEF Js!BitsAt, Port!BitsAt, Js!Byte, Port!Byte
<1>7. \A m : Js!CeilLog2(m) = Port!CeilLog2(m)
  BY DEF Js!CeilLog2, Port!CeilLog2, Js!Cardinality, Port!Cardinality
<1>8. \A w : Js!AtLeastOne(w) = Port!AtLeastOne(w)
  BY DEF Js!AtLeastOne, Port!AtLeastOne
<1>9. \A r, c : Js!Nth(r, c) = Port!Nth(r, c)
  BY DEF Js!Nth, Port!Nth, Js!Cardinality, Port!Cardinality
<1>10. \A bits : Js!NumBytes(bits) = NumBytes(bits)
  BY DEF Js!NumBytes, NumBytes
<1> QED BY <1>1, <1>4, <1>5, <1>6, <1>7, <1>8, <1>9, <1>10

\* decodeUvarint reads what leb128 reads, below the sign bit.
LEMMA JsUvarint ==
    ASSUME leaf \in Leaves, NEW o \in 0 .. Size, Uvarint(leaf.stream, o) # None,
           Uvarint(leaf.stream, o).value < 2 ^ (IntBits - 1)
    PROVE  /\ Js!decodeUvarint(leaf.stream, o).value = Uvarint(leaf.stream, o).value
           /\ Js!decodeUvarint(leaf.stream, o).next = Uvarint(leaf.stream, o).next
<1> DEFINE top == IntBits - 1
           read == Port!Varint(leaf.stream, o, IntBits)
<1>1. top \in Nat /\ IntBits \in Nat /\ top < IntBits
  BY PortsFit
<1>2. Uvarint(leaf.stream, o).value < 2 ^ top
  OBVIOUS
<1> HIDE DEF top
<1>3. read.value = Uvarint(leaf.stream, o).value /\ read.next = Uvarint(leaf.stream, o).next
  BY <1>1, <1>2, VarintAgrees
<1>4. Uvarint(leaf.stream, o).value \in Nat
  BY UvarintType
<1>5. Js!Signed(read.value) = Uvarint(leaf.stream, o).value
  BY <1>3, <1>4, SignedIs
<1>6. Js!decodeUvarint(leaf.stream, o) = [value |-> Js!Signed(read.value), next |-> read.next]
  BY JsIsPort DEF Js!decodeUvarint, Js!ToInt
<1> QED BY <1>3, <1>5, <1>6

-----------------------------------------------------------------------------
(* Binomials as running products *)

\* Binomials are natural numbers.
LEMMA BinomNat == PascalsRule => \A n, j \in Nat : Binom(n, j) \in Nat
<1> SUFFICES ASSUME PascalsRule, NEW n \in Nat PROVE \A j \in Nat : Binom(n, j) \in Nat
  OBVIOUS
<1> DEFINE X == {i \in Nat : \A j \in Nat : Binom(i, j) \in Nat}
<1>1. 0 \in X
  <2> SUFFICES ASSUME NEW j \in Nat PROVE Binom(0, j) \in Nat
    OBVIOUS
  <2>1. Comb(0, 0) = 1
    BY DEF PascalsRule, PascalsRow
  <2>2. CASE j = 0
    BY <2>1, <2>2 DEF Binom
  <2>3. CASE j > 0
    BY <2>3 DEF Binom
  <2> QED BY <2>2, <2>3
<1>2. ASSUME NEW i \in Nat, i < n, i \in X PROVE i + 1 \in X
  <2> SUFFICES ASSUME NEW j \in Nat PROVE Binom(i + 1, j) \in Nat
    OBVIOUS
  <2>1. CASE j = 0
    <3>1. Binom(i + 1, 0) = 1
      BY PascalsRule DEF PascalsRule, PascalsRow, Binom
    <3> QED BY <2>1, <3>1
  <2>2. CASE j > 0
    <3>1. j \in Nat \ {0} /\ j - 1 \in Nat
      BY <2>2
    <3>2. Binom(i + 1, j) = Binom(i, j) + Binom(i, j - 1)
      BY <3>1, BinomPascal
    <3>3. Binom(i, j) \in Nat /\ Binom(i, j - 1) \in Nat
      BY <1>2, <3>1
    <3> QED BY <3>2, <3>3
  <2> QED BY <2>1, <2>2
<1>3. n \in X
  <2> HIDE DEF X
  <2> QED BY <1>1, <1>2, SetInduction
<1> QED BY <1>3

\* j C(n, j) = (n - j + 1) C(n, j - 1)
LEMMA Absorption ==
    ASSUME PascalsRule, NEW n \in Nat
    PROVE  \A j \in Nat \ {0} : j * Binom(n, j) = (n - j + 1) * Binom(n, j - 1)
<1> DEFINE X == {i \in Nat : \A j \in Nat \ {0} :
                    j * Binom(i, j) = (i - j + 1) * Binom(i, j - 1)}
<1>1. 0 \in X
  <2> SUFFICES ASSUME NEW j \in Nat \ {0} PROVE j * Binom(0, j) = (0 - j + 1) * Binom(0, j - 1)
    OBVIOUS
  <2>1. Binom(0, j) = 0
    BY DEF Binom
  <2>2. CASE j = 1
    BY <2>1, <2>2, BinomNat
  <2>3. CASE j > 1
    <3>1. Binom(0, j - 1) = 0
      BY <2>3 DEF Binom
    <3> QED BY <2>1, <3>1
  <2> QED BY <2>2, <2>3
<1>2. ASSUME NEW i \in Nat, i < n, i \in X PROVE i + 1 \in X
  <2> SUFFICES ASSUME NEW j \in Nat \ {0}
               PROVE  j * Binom(i + 1, j) = ((i + 1) - j + 1) * Binom(i + 1, j - 1)
    OBVIOUS
  <2> DEFINE x == Binom(i, j)
             y == Binom(i, j - 1)
  <2>1. j - 1 \in Nat /\ x \in Nat /\ y \in Nat
    <3>1. j - 1 \in Nat
      OBVIOUS
    <3> QED BY <3>1, BinomNat
  <2>2. Binom(i + 1, j) = x + y
    BY BinomPascal
  <2>3. j * x = (i - j + 1) * y
    BY <1>2
  <2>4. CASE j = 1
    <3>1. y = 1 /\ Binom(i + 1, j - 1) = 1
      <4>1. Binom(i, 0) = 1 /\ Binom(i + 1, 0) = 1
        BY DEF PascalsRule, PascalsRow, Binom
      <4> QED BY <2>4, <4>1
    <3> HIDE DEF x, y
    <3> QED BY <2>1, <2>2, <2>3, <2>4, <3>1
  <2>5. CASE j > 1
    <3> DEFINE z == Binom(i, j - 2)
    <3>0. j - 1 \in Nat \ {0} /\ j - 2 \in Nat /\ (j - 1) - 1 = j - 2
      BY <2>5
    <3>1. j - 1 \in Nat \ {0} /\ j - 2 \in Nat /\ (j - 1) - 1 = j - 2 /\ z \in Nat
      BY <3>0, BinomNat
    <3>2. Binom(i + 1, j - 1) = y + z
      BY <3>1, BinomPascal
    <3>3. (j - 1) * y = (i - (j - 1) + 1) * z
      BY <1>2, <3>1
    <3> HIDE DEF x, y, z
    <3>4. j * (x + y) = j * x + j * y
      BY <2>1
    <3>5. (i - j + 1) * y + j * y = (i + 1) * y
      BY <2>1
    <3>6. ((i + 1) - j + 1) * (y + z) = ((i + 1) - j + 1) * y + ((i + 1) - j + 1) * z
      BY <2>1, <3>1
    <3>7. ((i + 1) - j + 1) * z = (j - 1) * y
      BY <2>1, <3>1, <3>3
    <3>8. ((i + 1) - j + 1) * y + (j - 1) * y = (i + 1) * y
      BY <2>1
    <3> QED BY <2>2, <2>3, <3>2, <3>4, <3>5, <3>6, <3>7, <3>8
  <2> QED BY <2>4, <2>5
<1>3. n \in X
  <2> HIDE DEF X
  <2> QED BY <1>1, <1>2, SetInduction
<1> QED BY <1>3

\* C(n, j) = C(n, n - j)
LEMMA Symmetry ==
    ASSUME PascalsRule, NEW n \in Nat
    PROVE  \A j \in 0 .. n : Binom(n, j) = Binom(n, n - j)
<1> DEFINE X == {i \in Nat : \A j \in 0 .. i : Binom(i, j) = Binom(i, i - j)}
<1>1. 0 \in X
  OBVIOUS
<1>2. ASSUME NEW i \in Nat, i < n, i \in X PROVE i + 1 \in X
  <2> SUFFICES ASSUME NEW j \in 0 .. i + 1 PROVE Binom(i + 1, j) = Binom(i + 1, (i + 1) - j)
    OBVIOUS
  <2>1. Binom(i + 1, 0) = 1 /\ Binom(i + 1, i + 1) = 1
    BY DEF PascalsRule, PascalsRow, Binom
  <2>2. CASE j = 0
    BY <2>1, <2>2
  <2>3. CASE j = i + 1
    BY <2>1, <2>3
  <2>4. CASE j \in 1 .. i
    <3> DEFINE m == (i + 1) - j
    <3>1. /\ j \in Nat \ {0} /\ m \in Nat \ {0}
          /\ j - 1 \in 0 .. i /\ j \in 0 .. i /\ i - (j - 1) = m /\ i - j = m - 1
      BY <2>4
    <3>2. Binom(i + 1, j) = Binom(i, j) + Binom(i, j - 1)
      BY <3>1, BinomPascal
    <3>3. Binom(i + 1, m) = Binom(i, m) + Binom(i, m - 1)
      BY <3>1, BinomPascal
    <3>4. Binom(i, j) = Binom(i, m - 1) /\ Binom(i, j - 1) = Binom(i, m)
      BY <1>2, <3>1
    <3>5. Binom(i, m) \in Nat /\ Binom(i, m - 1) \in Nat
      <4>1. m \in Nat /\ m - 1 \in Nat
        BY <3>1
      <4> HIDE DEF m
      <4> QED BY <4>1, BinomNat
    <3> HIDE DEF m
    <3> QED BY <3>2, <3>3, <3>4, <3>5 DEF m
  <2> QED BY <2>2, <2>3, <2>4
<1>3. n \in X
  <2> HIDE DEF X
  <2> QED BY <1>1, <1>2, SetInduction
<1> QED BY <1>3

\* The product up to i, divided by i, is C(n, i).
LEMMA NextProduct ==
    ASSUME PascalsRule, NEW n \in Nat, NEW i \in Nat \ {0}
    PROVE  /\ Binom(n, i - 1) * (n - (i - 1)) = i * Binom(n, i)
           /\ (Binom(n, i - 1) * (n - (i - 1))) \div i = Binom(n, i)
<1> DEFINE x == Binom(n, i - 1)
           y == Binom(n, i)
<1>1. i * y = (n - i + 1) * x
  BY Absorption
<1>2. i - 1 \in Nat /\ x \in Nat /\ y \in Nat
  <2>1. i - 1 \in Nat
    OBVIOUS
  <2> QED BY <2>1, BinomNat
<1> HIDE DEF x, y
<1>3. (n - i + 1) * x = x * (n - (i - 1))
  BY <1>2
<1>4. (i * y) \div i = y
  BY <1>2
<1> QED BY <1>1, <1>3, <1>4 DEF x, y

\* binom of the JavaScript port, which multiplies and divides in turn
LEMMA JsBinom ==
    ASSUME PascalsRule, NEW n \in Nat, NEW j \in Nat
    PROVE  Js!binom(n, j) = Binom(n, j)
<1> DEFINE c == IF j > n - j THEN n - j ELSE j
           f == Js!Products(n, c)
           X == {i \in Nat : i <= c => f[i] = Binom(n, i)}
<1>1. CASE j > n
  BY <1>1 DEF Js!binom, Binom
<1>2. CASE j <= n
  <2>1. c \in Nat
    BY <1>2
  <2>2. f[0] = 1 /\ \A i \in 1 .. c : f[i] = (f[i - 1] * (n - (i - 1))) \div i
    BY <2>1, JsProductsLoop
  <2> HIDE DEF f, c
  <2>3. 0 \in X
    BY <2>2 DEF PascalsRule, PascalsRow, Binom
  <2>4. ASSUME NEW i \in Nat, i < c, i \in X PROVE i + 1 \in X
    <3>1. i + 1 \in 1 .. c /\ (i + 1) - 1 = i /\ i + 1 \in Nat \ {0}
      BY <2>1, <2>4
    <3>2. f[i + 1] = (f[(i + 1) - 1] * (n - ((i + 1) - 1))) \div (i + 1)
      BY <2>2, <3>1
    <3>3. f[(i + 1) - 1] = Binom(n, (i + 1) - 1)
      <4>1. f[i] = Binom(n, i)
        BY <2>1, <2>4
      <4> QED BY <3>1, <4>1
    <3>4. (Binom(n, (i + 1) - 1) * (n - ((i + 1) - 1))) \div (i + 1) = Binom(n, i + 1)
      BY <3>1, NextProduct
    <3>5. f[i + 1] = Binom(n, i + 1)
      BY <3>2, <3>3, <3>4
    <3> QED BY <3>5
  <2>5. c \in X
    <3> HIDE DEF X
    <3> QED BY <2>1, <2>3, <2>4, SetInduction
  <2>6. Js!binom(n, j) = f[c]
    BY <1>2 DEF Js!binom, f, c
  <2>7. Binom(n, c) = Binom(n, j)
    BY <1>2, Symmetry DEF c
  <2> QED BY <2>1, <2>5, <2>6, <2>7
<1> QED BY <1>1, <1>2

-----------------------------------------------------------------------------
(* The search of the JavaScript port                                       *)

\* An element and the last one of a column that is not above target
LEMMA BesideLargest ==
    ASSUME PascalsRule, leaf \in Leaves, NEW target \in Nat, NEW j \in Nat \ {0},
           NEW lo \in Nat, NEW hi \in Nat, lo <= hi, hi <= BlockSize + leaf.n_leaf,
           NEW mid \in lo .. hi
    PROVE  LET F == FindLargestBinomLe(target, j, lo, hi)
           IN  /\ F \in (lo - 1) .. hi
               /\ Binom(mid, j) > target => F <= mid - 1
               /\ Binom(mid, j) <= target => mid <= F
<1> DEFINE F == FindLargestBinomLe(target, j, lo, hi)
<1>1. \A x \in Nat : Binom(x, j) \in Nat
  BY BinomNat
<1>2. \A x \in lo .. hi : Binom(x, j) \in Nat
  BY <1>1
<1> HIDE DEF F
<1>3. /\ F \in Int /\ F \in (lo - 1) .. hi
      /\ F >= lo => Binom(F, j) <= target
      /\ F < hi => Binom(F + 1, j) > target
  <2>1. j \in Int /\ lo \in Int /\ hi \in Int
    OBVIOUS
  <2> QED BY <1>2, <2>1, FindBounds DEF F
<1>4. BlockSize + leaf.n_leaf \in Int
  BY LeafAssumption DEF BlockSize
<1>5. ASSUME Binom(mid, j) > target PROVE F <= mid - 1
  <2>1. SUFFICES ASSUME F >= mid PROVE FALSE
    BY <1>3
  <2>2. F \in Nat /\ F <= BlockSize + leaf.n_leaf /\ mid \in Nat /\ mid <= F /\ F >= lo
    BY <1>3, <1>4, <2>1
  <2>3. Binom(mid, j) <= Binom(F, j)
    BY <2>2, ColumnAscends
  <2>4. Binom(F, j) <= target
    BY <1>3, <2>2
  <2> QED BY <1>1, <1>5, <2>2, <2>3, <2>4
<1>6. ASSUME Binom(mid, j) <= target PROVE mid <= F
  <2>1. SUFFICES ASSUME F < mid PROVE FALSE
    BY <1>3
  <2>2. F + 1 \in Nat /\ mid \in Nat /\ F + 1 <= mid /\ mid <= BlockSize + leaf.n_leaf /\ F < hi
    BY <1>3, <1>4, <2>1
  <2>3. Binom(F + 1, j) <= Binom(mid, j)
    BY <2>2, ColumnAscends
  <2>4. Binom(F + 1, j) > target
    BY <1>3, <2>2
  <2> QED BY <1>1, <1>6, <2>2, <2>3, <2>4
<1> QED BY <1>3, <1>5, <1>6 DEF F

\* Halving leaves half of the candidates.
LEMMA HalfOf ==
    ASSUME NEW l \in Nat, NEW h \in Nat, l <= h
    PROVE  LET mid == (l + h) \div 2
           IN  /\ mid \in l .. h
               /\ 2 * (mid - l) <= h - l + 1
               /\ 2 * (h - mid) <= h - l + 1
OBVIOUS

\* One halving makes up for one doubling of the turns that are left.
LEMMA HalfTimes ==
    ASSUME NEW c \in Nat, NEW d \in Nat, 2 * d <= c, NEW p \in Nat, NEW most \in Nat,
           c * p <= most
    PROVE  d * (2 * p) <= most
<1> DEFINE e == c - 2 * d
<1>1. e \in Nat /\ c = 2 * d + e
  OBVIOUS
<1> HIDE DEF e
<1>2. c * p = d * (2 * p) + e * p /\ e * p \in Nat /\ d * (2 * p) \in Nat
  BY <1>1
<1> QED BY <1>2

\* The search of the JavaScript port
LEMMA JsSearch ==
    ASSUME PascalsRule, leaf \in Leaves, NEW target \in Nat, NEW j \in Nat \ {0},
           NEW lo \in Nat, NEW hi \in Nat, lo <= hi, hi <= BlockSize + leaf.n_leaf,
           hi < 2 ^ (IntBits - 2)
    PROVE  Js!findLargestBinomLe(target, j, lo, hi) = FindLargestBinomLe(target, j, lo, hi)
<1> DEFINE F == FindLargestBinomLe(target, j, lo, hi)
           f == Js!Halvings(target, j, lo, hi)
           P(t, l, h) == /\ f[t] = [lo |-> l, hi |-> h, result |-> l - 1]
                         /\ l - 1 <= F /\ F <= h
                         /\ (h - l + 1) * 2 ^ t <= hi - lo + 1
           X == {t \in Nat : t <= IntBits => \E l \in lo .. hi + 1, h \in lo - 1 .. hi : P(t, l, h)}
<1>1. IntBits \in Nat /\ IntBits > 8
  BY PortsFit
<1>2. f[0] = [lo |-> lo, hi |-> hi, result |-> lo - 1]
      /\ \A t \in 1 .. IntBits : f[t] = Js!Halve(target, j, f[t - 1])
  BY JsHalvingsLoop
<1>3. \A mid \in lo .. hi : /\ F \in (lo - 1) .. hi
                            /\ Binom(mid, j) > target => F <= mid - 1
                            /\ Binom(mid, j) <= target => mid <= F
                            /\ Binom(mid, j) \in Nat
  <2>1. \A mid \in lo .. hi : mid \in Nat
    OBVIOUS
  <2> QED BY <2>1, BesideLargest, BinomNat
<1>4. F \in (lo - 1) .. hi
  <2>1. lo \in lo .. hi
    OBVIOUS
  <2> HIDE DEF F
  <2> QED BY <1>3, <2>1
<1> HIDE DEF F, f
<1>5. 0 \in X
  <2>1. 2 ^ 0 = 1 /\ lo \in lo .. hi + 1 /\ hi \in lo - 1 .. hi
    BY Powers
  <2>2. (hi - lo + 1) * 2 ^ 0 <= hi - lo + 1
    BY <2>1
  <2>3. P(0, lo, hi)
    BY <1>2, <1>4, <2>2
  <2> QED BY <2>1, <2>3
<1>6. ASSUME NEW t \in Nat, t < IntBits, t \in X PROVE t + 1 \in X
  <2>0. t <= IntBits
    BY <1>1, <1>6
  <2>1. PICK l \in lo .. hi + 1, h \in lo - 1 .. hi : P(t, l, h)
    <3> HIDE DEF P
    <3> QED BY <1>6, <2>0
  <2>2. f[t + 1] = Js!Halve(target, j, f[t])
    <3>1. t + 1 \in 1 .. IntBits /\ (t + 1) - 1 = t
      BY <1>1, <1>6
    <3>2. f[t + 1] = Js!Halve(target, j, f[(t + 1) - 1])
      BY <1>2, <3>1
    <3> QED BY <3>1, <3>2
  <2>3. 2 ^ t \in Nat \ {0} /\ 2 ^ (t + 1) = 2 * 2 ^ t
    BY Powers
  <2>4. \E a \in lo .. hi + 1, b \in lo - 1 .. hi : P(t + 1, a, b)
    <3>1. f[t].lo = l /\ f[t].hi = h /\ f[t] = [lo |-> l, hi |-> h, result |-> l - 1]
      BY <2>1
    <3>2. CASE l > h
      <4>1. f[t + 1] = f[t]
        BY <2>2, <3>1, <3>2 DEF Js!Halve
      <4>2. h - l + 1 = 0
        BY <1>4, <2>1, <3>2
      <4>3. (h - l + 1) * 2 ^ (t + 1) <= hi - lo + 1
        BY <2>3, <4>2
      <4>4. P(t + 1, l, h)
        BY <2>1, <3>1, <4>1, <4>3
      <4> QED BY <2>1, <4>4
    <3>3. CASE l <= h
      <4> DEFINE mid == (l + h) \div 2
      <4>1. l \in Nat /\ h \in Nat /\ l + h \in Nat
        BY <3>3
      <4>2. mid \in l .. h /\ 2 * (mid - l) <= h - l + 1 /\ 2 * (h - mid) <= h - l + 1
        BY <3>3, <4>1, HalfOf
      <4>3. Js!Signed(l + h) = l + h
        <5> DEFINE e == IntBits - 2
        <5>1. e \in Nat /\ IntBits - 1 = e + 1 /\ 2 ^ (e + 1) = 2 * 2 ^ e /\ 2 ^ e \in Nat
          BY <1>1, Powers
        <5>2. hi < 2 ^ e
          OBVIOUS
        <5> HIDE DEF e
        <5>3. l + h < 2 * 2 ^ e
          BY <3>3, <5>1, <5>2
        <5>4. l + h < 2 ^ (IntBits - 1)
          BY <5>1, <5>3
        <5> QED BY <4>1, <5>4, SignedIs
      <4> HIDE DEF mid
      <4>4. mid \in lo .. hi /\ mid \in Nat
        BY <3>3, <4>1, <4>2
      <4>5. Js!Exceeds(target, mid, j) = (Binom(mid, j) > target)
        BY <4>4, JsBinom DEF Js!Exceeds
      <4>6. ~(l > h)
        BY <3>3
      <4>7. f[t + 1] = IF Js!Exceeds(target, mid, j) THEN [f[t] EXCEPT !.hi = mid - 1]
                       ELSE [f[t] EXCEPT !.lo = mid + 1, !.result = mid]
        BY <2>2, <3>1, <4>3, <4>6 DEF Js!Halve, mid
      <4>8. CASE Binom(mid, j) > target
        <5>1. f[t + 1] = [lo |-> l, hi |-> mid - 1, result |-> l - 1]
          <6>1. f[t + 1] = [f[t] EXCEPT !.hi = mid - 1]
            BY <4>5, <4>7, <4>8
          <6> QED BY <3>1, <6>1
        <5>2. F <= mid - 1
          BY <1>3, <4>4, <4>8
        <5>3. ((mid - 1) - l + 1) * (2 * 2 ^ t) <= hi - lo + 1
          <6>1. /\ (mid - 1) - l + 1 \in Nat /\ h - l + 1 \in Nat
                /\ 2 * ((mid - 1) - l + 1) <= h - l + 1 /\ hi - lo + 1 \in Nat
            BY <3>3, <4>1, <4>2
          <6> QED BY <2>1, <2>3, <6>1, HalfTimes
        <5>4. P(t + 1, l, mid - 1) /\ mid - 1 \in lo - 1 .. hi
          BY <2>1, <2>3, <4>4, <5>1, <5>2, <5>3
        <5> QED BY <5>4
      <4>9. CASE ~(Binom(mid, j) > target)
        <5>1. f[t + 1] = [lo |-> mid + 1, hi |-> h, result |-> mid]
          <6>1. f[t + 1] = [f[t] EXCEPT !.lo = mid + 1, !.result = mid]
            BY <4>5, <4>7, <4>9
          <6> QED BY <3>1, <6>1
        <5>2. mid <= F
          BY <1>3, <4>4, <4>9
        <5>3. (h - (mid + 1) + 1) * (2 * 2 ^ t) <= hi - lo + 1
          <6>1. /\ h - (mid + 1) + 1 \in Nat /\ h - l + 1 \in Nat
                /\ 2 * (h - (mid + 1) + 1) <= h - l + 1 /\ hi - lo + 1 \in Nat
            BY <3>3, <4>1, <4>2
          <6> QED BY <2>1, <2>3, <6>1, HalfTimes
        <5>4. (mid + 1) - 1 = mid /\ mid + 1 \in lo .. hi + 1
          BY <4>4
        <5>5. P(t + 1, mid + 1, h)
          BY <2>1, <2>3, <5>1, <5>2, <5>3, <5>4
        <5> QED BY <5>4, <5>5
      <4> QED BY <4>8, <4>9
    <3> QED BY <3>2, <3>3
  <2> QED BY <2>4
<1>7. IntBits \in X
  <2> HIDE DEF X
  <2> QED BY <1>1, <1>5, <1>6, SetInduction
<1>8. PICK l \in lo .. hi + 1, h \in lo - 1 .. hi : P(IntBits, l, h)
  BY <1>7
<1>9. h - l + 1 = 0
  <2> DEFINE e == IntBits - 2
             c == h - l + 1
  <2>1. e \in Nat /\ IntBits = (e + 1) + 1 /\ 2 ^ ((e + 1) + 1) = 2 * 2 ^ (e + 1)
        /\ 2 ^ (e + 1) = 2 * 2 ^ e /\ 2 ^ e \in Nat \ {0}
    BY <1>1, Powers
  <2>2. hi < 2 ^ e
    OBVIOUS
  <2> HIDE DEF e
  <2>3. c \in Nat
    BY <1>4, <1>8
  <2>4. c * 2 ^ IntBits <= hi - lo + 1
    BY <1>8
  <2>5. 2 ^ IntBits = 4 * 2 ^ e
    BY <2>1
  <2> HIDE DEF c
  <2>6. c # 0 => 4 * 2 ^ e <= c * (4 * 2 ^ e)
    <3>1. \A x, y \in Nat \ {0} : y <= x * y
      OBVIOUS
    <3> DEFINE y == 4 * 2 ^ e
    <3>2. y \in Nat \ {0}
      BY <2>1
    <3> HIDE DEF y
    <3>3. c # 0 => y <= c * y
      BY <2>3, <3>1, <3>2
    <3> QED BY <3>3 DEF y
  <2>7. c = 0
    BY <2>1, <2>2, <2>3, <2>4, <2>5, <2>6
  <2> QED BY <2>7 DEF c
<1>10. Js!findLargestBinomLe(target, j, lo, hi) = f[IntBits].result
  BY DEF Js!findLargestBinomLe, f
<1>11. f[IntBits].result = l - 1 /\ l - 1 = F
  BY <1>4, <1>8, <1>9
<1> QED BY <1>10, <1>11 DEF F

-----------------------------------------------------------------------------
(* Labels as the ports read them *)

\* Sets are counted alike in every module.
LEMMA CountsAlike ==
    \A S : Port!Cardinality(S) = Cardinality(S) /\ Js!Cardinality(S) = Cardinality(S)
BY DEF Port!Cardinality, Js!Cardinality, Cardinality

\* remaining[code] of the ports, the code-th of the classes left over
LEMMA CorrectionOfCode ==
    ASSUME leaf \in Leaves, Conditional, NEW code \in Nat, code < NumRemaining
    PROVE  Port!Nth(Corrections(leaf), code) = LabelOf(code)
<1> DEFINE label == LabelOf(code)
<1>1. label \in Corrections(leaf)
  <2>1. /\ Corrections(leaf) = (LowestClass .. HighestClass) \ {leaf.prediction}
        /\ LowestClass \in Int /\ HighestClass \in Int /\ LowestClass <= HighestClass
        /\ leaf.prediction \in Int \cup {None}
    BY CorrectionsAre DEF AllClasses
  <2>2. leaf.prediction \in Int
    BY <2>1 DEF Conditional
  <2>3. label = Remaining(code)
    BY DEF LabelOf
  <2> QED BY <2>1, <2>2, <2>3 DEF Remaining, NumRemaining, Excludes, AllClasses
<1>2. ASSUME NEW c \in Nat, c < NumRemaining, LabelOf(c) = label PROVE c = code
  <2>1. /\ LowestClass \in Int /\ HighestClass \in Int
        /\ leaf.prediction \in Int \cup {None}
    BY CorrectionsAre
  <2>2. leaf.prediction \in Int
    BY <2>1 DEF Conditional
  <2>3. Remaining(c) = Remaining(code)
    BY <1>2 DEF LabelOf
  <2> QED BY <2>1, <2>2, <2>3 DEF Remaining
<1> HIDE DEF label
<1>3. \A d \in Corrections(leaf) : LabelCode(leaf, d) = code <=> d = label
  <2>1. ASSUME NEW d \in Corrections(leaf), LabelCode(leaf, d) = code PROVE d = label
    BY <2>1, CodeOfLabel DEF label
  <2>2. LabelCode(leaf, label) = code
    <3> DEFINE c == LabelCode(leaf, label)
    <3>1. c \in Nat /\ c < NumRemaining /\ LabelOf(c) = label
      BY <1>1, CodeOfLabel
    <3> HIDE DEF c
    <3>2. c = code
      BY <1>2, <3>1
    <3> QED BY <3>2 DEF c
  <2> QED BY <2>1, <2>2
<1>4. \A d : Port!Cardinality({c \in Corrections(leaf) : c < d}) = LabelCode(leaf, d)
  BY CountsAlike DEF LabelCode
<1>5. Port!Nth(Corrections(leaf), code) = CHOOSE d \in Corrections(leaf) : LabelCode(leaf, d) = code
  BY <1>4 DEF Port!Nth
<1>6. Port!Nth(Corrections(leaf), code) = label
  BY <1>1, <1>3, <1>5
<1> QED BY <1>6 DEF label

\* The width of a code, by a logarithm
LEMMA PortWidth ==
    \A m \in 0 .. 256 : Port!AtLeastOne(Port!CeilLog2(m)) = BitWidth(m)
<1> SUFFICES ASSUME NEW m \in 0 .. 256
             PROVE  Port!AtLeastOne(Port!CeilLog2(m)) = BitWidth(m)
  OBVIOUS
<1> DEFINE W == {w \in 0 .. 7 : Pow2(w) < m}
<1>1. Port!CeilLog2(m) = Cardinality(W)
  <2>1. {w \in 0 .. 7 : 2 ^ w < m} = W
    <3>1. \A w \in 0 .. 7 : 2 ^ w = Pow2(w)
      <4>1. \A w \in 0 .. 7 : w \in 0 .. 8
        OBVIOUS
      <4> QED BY <4>1, SmallPowers, Zenon
    <3> QED BY <3>1
  <2> HIDE DEF W
  <2> QED BY <2>1, CountsAlike DEF Port!CeilLog2
<1>2. CASE m <= 1
  <2>1. \A w \in 0 .. 7 : Pow2(w) \in Nat \ {0}
    BY Pow2Type
  <2>2. W = {}
    BY <1>2, <2>1
  <2>3. Cardinality(W) = 0
    BY <2>2, FS_EmptySet
  <2> QED BY <1>1, <1>2, <2>3 DEF Port!AtLeastOne, BitWidth
<1>3. CASE m = 2
  <2>1. \A w \in 0 .. 7 : Pow2(w) < 2 <=> w = 0
    BY DEF Pow2
  <2>2. W = {0}
    BY <1>3, <2>1
  <2>3. Cardinality(W) = 1
    BY <2>2, FS_Singleton
  <2> QED BY <1>1, <1>3, <2>3 DEF Port!AtLeastOne, BitWidth
<1>4. CASE m > 2
  <2>1. BitWidth(m) = Cardinality(W)
    BY <1>4 DEF BitWidth
  <2>2. BitWidth(m) \in 1 .. 8
    BY BitWidthType
  <2> HIDE DEF W
  <2> QED BY <1>1, <2>1, <2>2 DEF Port!AtLeastOne
<1> QED BY <1>2, <1>3, <1>4

\* Two bytes hold a code.
LEMMA PortBits ==
    ASSUME leaf \in Leaves, NEW pos \in Nat, NEW width \in 1 .. 8, BitsPresent(pos, width)
    PROVE  Port!BitsAt(leaf.stream, pos, width) = ExtractBits(pos, width)
<1> DEFINE b == pos \div 8
<1>1. b \in Nat /\ pos % 8 \in 0 .. 8 /\ width \in 0 .. 8
  OBVIOUS
<1>2. 2 ^ (pos % 8) = Pow2(pos % 8) /\ 2 ^ width = Pow2(width)
  BY <1>1, SmallPowers
<1>3. Size \in Nat
  BY SizeType
<1>4. b \in 0 .. Size - 1
  <2>1. b <= (pos + width - 1) \div 8
    OBVIOUS
  <2> QED BY <1>1, <1>3, <2>1 DEF BitsPresent
<1> HIDE DEF b
<1>5. Port!Byte(leaf.stream, b) = Byte(b)
  BY <1>1, <1>4, PortByte
<1>6. Byte(b) \in 0 .. 255
  BY <1>4, ByteType
<1>7. Byte(b) + 256 * Port!Byte(leaf.stream, b + 1) = Window(b)
  <2>1. b + 1 \in Int
    BY <1>1
  <2>2. Port!Byte(leaf.stream, b + 1) = IF b + 1 \in 0 .. Size - 1 THEN Byte(b + 1) ELSE 0
    BY <2>1, PortByte
  <2>3. b + 1 \in 0 .. Size - 1 <=> b + 1 < Size
    BY <1>1, <1>3
  <2> QED BY <1>6, <2>2, <2>3 DEF Window
<1> QED BY <1>2, <1>5, <1>7 DEF Port!BitsAt, ExtractBits, b

\* Every bit that is looked at stands below the sign bit.
LEMMA BitPositionFits ==
    ASSUME leaf \in Leaves, NEW pos \in Nat, pos <= 8 * Size
    PROVE  /\ pos + 7 < 2 ^ (IntBits - 1)
           /\ Js!Signed(pos) = pos
           /\ Js!BytesOf(pos) = NumBytes(pos)
<1> DEFINE a == 2 ^ (IntBits - 1)
<1>1. a \in Nat
  <2>1. IntBits - 1 \in Nat
    BY PortsFit
  <2> QED BY <2>1, Powers
<1>2. 8 * (Size + 1) <= a
  BY PortsFit DEF Size
<1>3. Size \in Nat
  BY SizeType
<1>4. pos + 7 < a /\ pos < a
  BY <1>1, <1>2, <1>3
<1>5. pos + 7 \in Nat
  OBVIOUS
<1>6. Js!Signed(pos) = pos
  BY <1>4, SignedIs
<1>7. Js!Signed(pos + 7) = pos + 7
  BY <1>4, <1>5, SignedIs
<1>8. Js!BytesOf(pos) = Js!NumBytes(pos)
  <2>1. (pos + 7) - 7 = pos
    OBVIOUS
  <2> QED BY <1>7, <2>1 DEF Js!BytesOf
<1> QED BY <1>4, <1>6, <1>8, JsIsPort

\* Labels that are read end within the stream.
LEMMA LabelsEnd ==
    ASSUME leaf \in Leaves, IInv, LabelsRead, Len(labels) > 0
    PROVE  8 * offset + Len(labels) * BitsPerLabel <= 8 * Size
<1> DEFINE c == Len(labels)
           w == BitsPerLabel
           pos == 8 * offset + (c - 1) * w
<1>1. c \in Nat /\ c > 0 /\ offset \in Nat /\ w \in 1 .. 8 /\ Size \in Nat
  BY BitsPerLabelType, SizeType DEF IInv, TypeOK
<1>2. c \in 1 .. Len(labels)
  BY <1>1
<1>3. BitsPresent(pos, w)
  BY <1>2 DEF LabelsRead
<1> HIDE DEF c, w
<1> DEFINE p == (c - 1) * w
<1>4. p \in Nat /\ c * w = p + w
  <2> DEFINE d == c - 1
  <2>1. d \in Nat /\ c = d + 1
    BY <1>1
  <2> HIDE DEF d
  <2>2. d * w \in Nat /\ (d + 1) * w = d * w + w
    BY <1>1, <2>1, ProductType
  <2> QED BY <2>1, <2>2 DEF d
<1> HIDE DEF p
<1>5. (8 * offset + p + w - 1) \div 8 < Size
  BY <1>3 DEF BitsPresent, p
<1>6. 8 * offset + p + w <= 8 * Size
  BY <1>1, <1>4, <1>5
<1> QED BY <1>1, <1>4, <1>6 DEF c, w

\* How the JavaScript port comes from a code to its label
LEMMA JsLabel ==
    ASSUME leaf \in Leaves, NEW code \in Nat, Conditional => code < NumRemaining
    PROVE  LET isLegacy == leaf.n_classes \in {0, 3}
               allClasses == IF isLegacy THEN -1 .. 1 ELSE 0 .. leaf.n_classes - 1
               remaining == allClasses \ {leaf.prediction}
           IN  (IF ~(leaf.prediction # None) THEN IF isLegacy THEN code - 1 ELSE code
                ELSE IF code < Js!Cardinality(remaining) THEN Js!Nth(remaining, code)
                ELSE Undefined) = LabelOf(code)
<1> DEFINE isLegacy == leaf.n_classes \in {0, 3}
           allClasses == IF isLegacy THEN -1 .. 1 ELSE 0 .. leaf.n_classes - 1
           remaining == allClasses \ {leaf.prediction}
<1>1. IsLegacy <=> isLegacy
  BY DEF IsLegacy, NClasses
<1>2. remaining = Corrections(leaf)
  BY DEF Corrections, Classes
<1>3. Conditional <=> leaf.prediction # None
  BY DEF Conditional
<1> HIDE DEF remaining, isLegacy
<1>4. CASE Conditional
  <2>1. Js!Cardinality(remaining) = NumRemaining
    BY <1>2, <1>4, CorrectionCount, CountsAlike
  <2>2. Js!Nth(remaining, code) = LabelOf(code)
    BY <1>2, <1>4, CorrectionOfCode, JsIsPort
  <2> QED BY <1>3, <1>4, <2>1, <2>2 DEF remaining, isLegacy
<1>5. CASE ~Conditional
  BY <1>1, <1>3, <1>5 DEF LabelOf, isLegacy
<1> QED BY <1>4, <1>5

\* The port takes as many bits for a label.
LEMMA JsWidth ==
    ASSUME leaf \in Leaves
    PROVE  LET isLegacy == leaf.n_classes \in {0, 3}
               allClasses == IF isLegacy THEN -1 .. 1 ELSE 0 .. leaf.n_classes - 1
               remaining == allClasses \ {leaf.prediction}
           IN  (IF leaf.prediction # None THEN Js!AtLeastOne(Js!CeilLog2(Js!Cardinality(remaining)))
                ELSE IF isLegacy THEN 2
                ELSE Js!AtLeastOne(Js!CeilLog2(leaf.n_classes))) = BitsPerLabel
<1> DEFINE isLegacy == leaf.n_classes \in {0, 3}
           allClasses == IF isLegacy THEN -1 .. 1 ELSE 0 .. leaf.n_classes - 1
           remaining == allClasses \ {leaf.prediction}
<1>1. IsLegacy <=> isLegacy
  BY DEF IsLegacy, NClasses
<1>2. remaining = Corrections(leaf)
  BY DEF Corrections, Classes
<1>3. Conditional <=> leaf.prediction # None
  BY DEF Conditional
<1>4. \A m \in 0 .. 256 : Js!AtLeastOne(Js!CeilLog2(m)) = BitWidth(m)
  BY JsIsPort, PortWidth
<1> HIDE DEF remaining, isLegacy
<1>5. CASE Conditional
  <2>1. Js!Cardinality(remaining) = NumRemaining /\ NumRemaining \in 0 .. 256
    BY <1>2, <1>5, CorrectionCount, CountsAlike
  <2>2. Js!AtLeastOne(Js!CeilLog2(Js!Cardinality(remaining))) = BitWidth(NumRemaining)
    BY <1>4, <2>1
  <2> QED BY <1>3, <1>5, <2>2 DEF BitsPerLabel, remaining, isLegacy
<1>6. CASE ~Conditional
  <2>1. NClasses \in 0 .. 256 /\ NClasses = leaf.n_classes
    BY CorrectionsAre DEF NClasses
  <2>2. Js!AtLeastOne(Js!CeilLog2(leaf.n_classes)) = BitWidth(NClasses)
    BY <1>4, <2>1
  <2> QED BY <1>1, <1>3, <1>6, <2>2 DEF BitsPerLabel, isLegacy
<1> QED BY <1>5, <1>6

\* decodeLabelsFixed reads the labels of the block.
LEMMA JsLabels ==
    ASSUME leaf \in Leaves, IInv, LabelsRead, Len(labels) = k
    PROVE  LET read == Js!decodeLabelsFixed(leaf.stream, k, offset, leaf.prediction,
                                            leaf.n_classes)
           IN  /\ read.labels = labels
               /\ read.next = offset + NumBytes(k * BitsPerLabel)
<1> DEFINE isLegacy == leaf.n_classes \in {0, 3}
           allClasses == IF isLegacy THEN -1 .. 1 ELSE 0 .. leaf.n_classes - 1
           remaining == allClasses \ {leaf.prediction}
           width == IF leaf.prediction # None
                    THEN Js!AtLeastOne(Js!CeilLog2(Js!Cardinality(remaining)))
                    ELSE IF isLegacy THEN 2
                    ELSE Js!AtLeastOne(Js!CeilLog2(leaf.n_classes))
           Coded(code) == IF ~(leaf.prediction # None)
                          THEN IF isLegacy THEN code - 1 ELSE code
                          ELSE IF code < Js!Cardinality(remaining) THEN Js!Nth(remaining, code)
                          ELSE Undefined
           all == [i \in 1 .. k |-> Coded(Js!extractBits(leaf.stream,
                                              8 * offset + (i - 1) * width, width))]
           next == IF k = 0 THEN offset ELSE offset + Js!BytesOf(k * width)
           w == BitsPerLabel
<1>1. width = w
  BY JsWidth
<1>2. \A code \in Nat : (Conditional => code < NumRemaining) => Coded(code) = LabelOf(code)
  BY JsLabel
<1>3. Js!decodeLabelsFixed(leaf.stream, k, offset, leaf.prediction, leaf.n_classes)
          = [labels |-> all, next |-> next]
  BY DEF Js!decodeLabelsFixed
<1> HIDE DEF width, Coded
<1>4. k \in Nat /\ labels \in Seq(Int) /\ offset \in Nat /\ w \in 1 .. 8 /\ Size \in Nat
  BY BitsPerLabelType, SizeType DEF IInv, TypeOK
<1>5. k > 0 => 8 * offset + k * w <= 8 * Size
  BY LabelsEnd
<1>6. all = labels
  <2>1. ASSUME NEW i \in 1 .. k PROVE all[i] = labels[i]
    <3> DEFINE pos == 8 * offset + (i - 1) * w
               code == ExtractBits(pos, w)
    <3>1. BitsPresent(pos, w) /\ (Conditional => code < NumRemaining) /\ labels[i] = LabelOf(code)
      BY DEF LabelsRead
    <3>2. i - 1 \in Nat /\ (i - 1) * w \in Nat /\ pos \in Nat
      <4>1. i - 1 \in Nat
        BY <1>4
      <4> QED BY <1>4, <4>1, ProductType
    <3>3. (i - 1) * w <= k * w
      <4> DEFINE c == i - 1
                 d == k - c
      <4>1. c \in Nat /\ d \in Nat /\ k = c + d
        BY <1>4, <3>2
      <4> HIDE DEF c, d
      <4>2. c * w \in Nat /\ d * w \in Nat /\ (c + d) * w = c * w + d * w
        BY <1>4, <4>1, ProductType
      <4> QED BY <4>1, <4>2 DEF c
    <3>4. pos <= 8 * Size
      <4>1. k * w \in Nat
        BY <1>4, ProductType
      <4>2. k > 0
        BY <1>4
      <4> HIDE DEF w
      <4> DEFINE x == k * w
                 y == (i - 1) * w
      <4>3. x \in Nat /\ y \in Nat /\ y <= x /\ 8 * offset + x <= 8 * Size /\ pos = 8 * offset + y
        BY <1>5, <3>2, <3>3, <4>1, <4>2
      <4> HIDE DEF x, y, pos
      <4> QED BY <1>4, <4>3
    <3> HIDE DEF pos, w
    <3>5. Js!Signed(pos) = pos
      BY <3>2, <3>4, BitPositionFits
    <3>6. Js!BitsAt(leaf.stream, pos, w) = code
      <4>1. Js!BitsAt(leaf.stream, pos, w) = Port!BitsAt(leaf.stream, pos, w)
        BY JsIsPort
      <4> QED BY <1>4, <3>1, <3>2, <4>1, PortBits
    <3>7. Js!extractBits(leaf.stream, pos, w) = code
      BY <3>5, <3>6 DEF Js!extractBits
    <3>8. code \in Nat
      BY <1>4, <3>1, <3>2, CodeType
    <3> HIDE DEF code
    <3>9. Coded(code) = LabelOf(code)
      BY <1>2, <3>1, <3>8
    <3>10. all[i] = Coded(Js!extractBits(leaf.stream, pos, w))
      BY <1>1 DEF pos
    <3> QED BY <3>1, <3>7, <3>9, <3>10
  <2>2. labels = [i \in 1 .. k |-> labels[i]]
    BY <1>4
  <2> HIDE DEF w
  <2> QED BY <2>1, <2>2
<1>7. next = offset + NumBytes(k * w)
  <2>1. CASE k = 0
    <3>1. k * w = 0 /\ NumBytes(0) = 0
      BY <1>4, <2>1 DEF NumBytes
    <3> QED BY <1>4, <2>1, <3>1
  <2>2. CASE k # 0
    <3>1. k > 0 /\ k * w \in Nat
      BY <1>4, <2>2, ProductType
    <3>2. k * w <= 8 * Size
      BY <1>4, <1>5, <3>1
    <3>3. Js!BytesOf(k * w) = NumBytes(k * w)
      BY <3>1, <3>2, BitPositionFits
    <3> QED BY <1>1, <2>2, <3>3
  <2> QED BY <2>1, <2>2
<1> QED BY <1>3, <1>6, <1>7

-----------------------------------------------------------------------------
(* The JavaScript decoder beside each step *)

\* A step within a block
LEMMA JsStays ==
    ASSUME leaf \in Leaves, JsInv, InBlock, InBlock',
           UNCHANGED <<leaf, block_id, results, n_b, encoding, k>>,
           LabelsRead', Fits' => Fits,
           offset \in Nat, offset' \in Nat, offset <= offset',
           \A from \in 0 .. Size :
               Legal /\ Fits /\ Fits' /\ JsProgress(from) => JsProgress(from)'
    PROVE  JsInv'
<1>1. Size \in Nat /\ Size' = Size /\ BlockPositions' = BlockPositions /\ (Legal' <=> Legal)
  BY SizeType DEF Size, BlockPositions, BlockSize, Legal, LegalEntries, PositionsIn
<1>2. (n_b = BlockPositions)'
  BY <1>1 DEF JsInv
<1>3. ~(pc \in {"record", "done"})'
  BY DEF InBlock
<1>4. ASSUME Legal', Fits'
      PROVE  JsReads'
  <2>1. PICK at \in 0 .. Size - 1 :
            JsStarted(at) /\ JsProgress(Uvarint(leaf.stream, at + 1).next)
    BY <1>1, <1>4 DEF JsInv, JsReads
  <2>2. Uvarint(leaf.stream, at + 1).next \in 0 .. Size
    <3>1. at + 1 \in 0 .. Size /\ Uvarint(leaf.stream, at + 1) # None
      BY <1>1, <2>1 DEF JsStarted, Started
    <3>2. Uvarint(leaf.stream, at + 1).next \in (at + 1 + 1) .. Size
      BY <3>1, UvarintType
    <3> QED BY <1>1, <3>2
  <2>3. JsStarted(at)'
    <3>1. at < offset'
      BY <1>1, <2>1 DEF JsStarted, Started
    <3> QED BY <1>1, <2>1, <3>1 DEF JsStarted, Started, JsAt, Byte
  <2>4. JsProgress(Uvarint(leaf.stream, at + 1).next)'
    BY <1>1, <1>4, <2>1, <2>2
  <2> QED BY <1>1, <2>3, <2>4 DEF JsReads
<1> QED BY <1>2, <1>3, <1>4 DEF JsInv

\* An exception ends the comparison.
LEMMA JsFail ==
    ASSUME Fail
    PROVE  JsInv'
BY DEF Fail, JsInv, InBlock

\* The call returns.
LEMMA JsReturn ==
    ASSUME JsInv, Return
    PROVE  JsInv'
<1>1. pc = "record" /\ pc' = "done" /\ UNCHANGED <<leaf, offset, block_id, results, block>>
  BY DEF Return
<1>2. (Legal' <=> Legal) /\ Size' = Size
  BY <1>1 DEF Legal, LegalEntries, PositionsIn, BlockSize, Size
<1>3. JsAt(offset) => JsAt(offset)'
  BY <1>1, <1>2 DEF JsAt
<1>4. ~MoreRecords'
  BY <1>1, <1>2 DEF Return, MoreRecords
<1> QED BY <1>1, <1>2, <1>3, <1>4 DEF JsInv, InBlock

\* Nothing is read yet, by either decoder.
LEMMA JsInit ==
    ASSUME Init
    PROVE  JsInv
<1>1. Size \in Nat /\ leaf \in Leaves /\ Len(leaf.stream) \in Nat
  BY SizeType DEF Init, Size
<1>2. Js!Records(leaf)[0] = [offset |-> 0, blockId |-> 0, list |-> <<>>, threw |-> FALSE]
  BY <1>1, JsRecordsLoop
<1>3. JsAt(offset)
  BY <1>1, <1>2 DEF JsAt, Init
<1> QED BY <1>3 DEF JsInv, InBlock, Init

\* A list that grows was legal before.
LEMMA LegalBefore ==
    ASSUME leaf' = leaf, Legal', Len(results) \in Nat, Len(results') \in Nat,
           Len(results) <= Len(results'),
           \A i \in 1 .. Len(results) : results'[i] = results[i]
    PROVE  Legal
<1>1. 2 ^ (IntBits - 1) \in Nat
  <2>1. IntBits - 1 \in Nat
    BY PortsFit
  <2> QED BY <2>1, Powers
<1>2. Len(results) < 2 ^ (IntBits - 1)
  BY <1>1 DEF Legal
<1>3. ASSUME NEW i \in 1 .. Len(results), results[i].data # None
      PROVE  /\ Len(results[i].data.labels) = Len(results[i].data.indices)
             /\ \A p \in 1 .. Len(results[i].data.indices) :
                    results[i].data.indices[p] \in 0 .. PositionsIn(results[i].bid) - 1
  <2>1. i \in 1 .. Len(results') /\ results'[i] = results[i]
    OBVIOUS
  <2> QED BY <1>3, <2>1 DEF Legal, LegalEntries, PositionsIn, BlockSize
<1> QED BY <1>2, <1>3 DEF Legal, LegalEntries

\* One turn of the JavaScript loop
LEMMA JsTurn ==
    ASSUME leaf \in Leaves, NEW at \in 0 .. Size - 1, JsAt(at), block_id \in Nat,
           block_id < leaf.num_blocks
    PROVE  LET last == [offset |-> at, blockId |-> block_id, list |-> results, threw |-> FALSE]
           IN  \E t \in 1 .. Size : t - 1 <= at /\ Js!Records(leaf)[t] = Js!Record(leaf, last)
<1> DEFINE last == [offset |-> at, blockId |-> block_id, list |-> results, threw |-> FALSE]
<1>1. Size \in Nat /\ Len(leaf.stream) = Size
  BY SizeType DEF Size
<1>2. PICK t \in 0 .. Size : t <= at /\ Js!Records(leaf)[t] = last
  BY DEF JsAt
<1>3. t + 1 \in 1 .. Size /\ (t + 1) - 1 = t /\ (t + 1) - 1 <= at
  BY <1>1, <1>2
<1>4. Js!Records(leaf)[t + 1] = Js!Turn(leaf, last)
  <2>1. \A i \in 1 .. Size : Js!Records(leaf)[i] = Js!Turn(leaf, Js!Records(leaf)[i - 1])
    BY <1>1, JsRecordsLoop
  <2>2. Js!Records(leaf)[t + 1] = Js!Turn(leaf, Js!Records(leaf)[(t + 1) - 1])
    BY <1>3, <2>1
  <2> QED BY <1>2, <1>3, <2>2
<1>5. leaf.num_blocks \in Nat
  BY LeafAssumption
<1>6. ~Js!Ended(leaf, last)
  <2>1. last.threw = FALSE /\ last.blockId = block_id /\ last.offset = at
    OBVIOUS
  <2> HIDE DEF last
  <2>2. ~(block_id >= leaf.num_blocks) /\ ~(at >= Size)
    <3>1. ~(at >= Size)
      BY <1>1
    <3> QED BY <3>1, <1>5
  <2> QED BY <1>1, <2>1, <2>2 DEF Js!Ended
<1>7. Js!Turn(leaf, last) = Js!Record(leaf, last)
  BY <1>6 DEF Js!Turn
<1> QED BY <1>3, <1>4, <1>7

-----------------------------------------------------------------------------
(* Indices                                                                 *)

\* Positions, bits and counts of a block stay below the sign bit.
LEMMA PositionsFit ==
    ASSUME leaf \in Leaves, IInv, JsInv, InBlock
    PROVE  /\ n_b \in Nat /\ k \in Nat
           /\ n_b <= 2 ^ (IntBits - 2)
           /\ 2 ^ (IntBits - 2) \in Nat /\ 2 ^ (IntBits - 1) \in Nat
           /\ \A v \in Nat : v <= n_b => v + 7 < 2 ^ (IntBits - 1)
<1> DEFINE e == IntBits - 2
           a == 2 ^ e
<1>1. e \in Nat /\ IntBits - 1 = e + 1 /\ 6 <= e
  BY PortsFit
<1>2. a \in Nat /\ 2 ^ (IntBits - 1) = 2 * a
  <2>1. 2 ^ e \in Nat /\ 2 ^ (e + 1) = 2 * 2 ^ e
    BY <1>1, Powers
  <2> QED BY <1>1, <2>1
<1>3. 64 <= a
  <2>1. 2 ^ 6 <= 2 ^ e
    BY <1>1, PowersAscend
  <2>2. 2 ^ 6 = 64
    BY SmallPowers, Pow2Is
  <2> QED BY <2>1, <2>2
<1>4. n_b \in Nat /\ k \in Nat /\ block_id \in Nat /\ block_id < leaf.num_blocks
      /\ n_b = BlockPositions
  BY DEF IInv, TypeOK, Control, JsInv
<1>5. leaf.block_size <= a /\ leaf.n_leaf - (leaf.num_blocks - 1) * leaf.block_size <= a
  BY PortsFit
<1>6. leaf.num_blocks \in Nat
  BY LeafAssumption
<1>7. n_b <= a
  <2>1. CASE block_id < leaf.num_blocks - 1
    BY <1>4, <1>5, <2>1 DEF BlockPositions, BlockSize
  <2>2. CASE ~(block_id < leaf.num_blocks - 1)
    <3>1. block_id = leaf.num_blocks - 1
      BY <1>4, <1>6, <2>2
    <3> QED BY <1>4, <1>5, <2>2, <3>1 DEF BlockPositions, BlockSize
  <2> QED BY <2>1, <2>2
<1> HIDE DEF a
<1>8. \A v \in Nat : v <= n_b => v + 7 < 2 * a
  BY <1>2, <1>3, <1>4, <1>7
<1> QED BY <1>2, <1>4, <1>7, <1>8 DEF a

\* One gap
LEMMA JsDeltaGap ==
    ASSUME leaf \in Leaves, IInv, JsInv, DeltaGap
    PROVE  JsInv'
<1> DEFINE gap == Uvarint(leaf.stream, offset)
           x == IndexAfterGap(gap.value)
<1>1. CASE gap = None
  BY <1>1, JsFail DEF DeltaGap
<1>2. CASE gap # None
  <2>1. /\ pc = "delta" /\ Len(indices) < k
        /\ indices' = Append(indices, x)
        /\ offset' = gap.next
        /\ UNCHANGED <<leaf, pc, block_id, results, n_b, encoding, k, labels,
                       rank, bit>>
    BY <1>2 DEF DeltaGap
  <2>2. /\ offset \in 0 .. Size /\ offset \in Nat
        /\ indices \in Seq(Int) /\ k \in Nat /\ Len(indices) \in Nat
        /\ \A i \in 1 .. Len(indices) : indices[i] \in Int
    BY <2>1, SizeType, ElementType DEF IInv, TypeOK, Control, SubsetInv
  <2>3. gap.value \in Nat
    BY <1>2, <2>2, UvarintType
  <2>4. x \in Int /\ (indices # <<>> => indices[Len(indices)] \in Int)
    BY <2>2, <2>3 DEF IndexAfterGap
  <2>5. /\ Len(indices') = Len(indices) + 1 /\ indices'[Len(indices) + 1] = x
        /\ \A i \in 1 .. Len(indices) : indices'[i] = indices[i]
    BY <2>1, <2>2, <2>4, AppendFacts
  <2>6. InBlock /\ InBlock'
    BY <2>1 DEF InBlock
  <2>7. LabelsRead'
    BY <2>1, <2>6 DEF JsInv, LabelsRead
  <2>8. Fits' => Fits
    <3>1. SUFFICES ASSUME Fits' PROVE Fits
      OBVIOUS
    <3>2. ASSUME NEW i \in 1 .. Len(indices) PROVE indices[i] \in 0 .. n_b - 1
      <4>1. i \in 1 .. Len(indices') /\ indices'[i] = indices[i]
        BY <2>2, <2>5
      <4> QED BY <2>1, <3>1, <4>1 DEF Fits
    <3> QED BY <2>1, <3>1, <3>2 DEF Fits
  <2>9. ASSUME NEW from \in 0 .. Size, Fits, Fits', JsProgress(from)
        PROVE  JsProgress(from)'
    <3> DEFINE t == Len(indices) + 1
               f == Js!GapsRead(leaf.stream, k, from)
               y == IF t = 1 THEN gap.value ELSE indices[t - 1] + 1 + gap.value
    <3>1. t \in 1 .. k /\ t - 1 = Len(indices)
      BY <2>1, <2>2
    <3>2. f[Len(indices)] = [indices |-> indices, next |-> offset]
      BY <2>1, <2>9 DEF JsProgress
    <3>3. f[t] = Js!ReadGap(leaf.stream, t, f[t - 1])
      <4>1. \A i \in 1 .. k : f[i] = Js!ReadGap(leaf.stream, i, f[i - 1])
        <5>1. k \in Nat
          BY <2>2
        <5> HIDE DEF gap, x, y, t
        <5>2. /\ Js!GapsRead(leaf.stream, k, from)[0] = [indices |-> <<>>, next |-> from]
              /\ \A i \in 1 .. k :
                     Js!GapsRead(leaf.stream, k, from)[i]
                         = Js!ReadGap(leaf.stream, i, Js!GapsRead(leaf.stream, k, from)[i - 1])
          BY <5>1, JsGapsLoop
        <5> QED BY <5>2 DEF f
      <4> QED BY <3>1, <4>1
    <3>4. x = y
      BY <2>2, <3>1 DEF IndexAfterGap
    <3>5. gap.value <= n_b - 1
      <4>1. x \in 0 .. n_b - 1
        <5>1. t \in 1 .. Len(indices')
          BY <2>2, <2>5
        <5> QED BY <2>1, <2>5, <2>9, <5>1 DEF Fits
      <4>2. t # 1 => indices[t - 1] \in 0 .. n_b - 1
        <5>1. t # 1 => t - 1 \in 1 .. Len(indices)
          BY <2>2
        <5> QED BY <2>9, <5>1 DEF Fits
      <4>3. n_b \in Nat
        BY <2>6, PositionsFit
      <4> DEFINE v == gap.value
                 last == indices[t - 1]
      <4>4. v \in Nat /\ x = IF t = 1 THEN v ELSE last + 1 + v
        BY <2>3, <3>4
      <4>5. t # 1 => last \in 0 .. n_b - 1
        BY <4>2
      <4> HIDE DEF v, last, x
      <4>6. v <= n_b - 1
        BY <4>1, <4>3, <4>4, <4>5
      <4> QED BY <4>6 DEF v
    <3>6. gap.value < 2 ^ (IntBits - 1)
      <4>1. /\ n_b \in Nat /\ 2 ^ (IntBits - 1) \in Nat
            /\ \A v \in Nat : v <= n_b => v + 7 < 2 ^ (IntBits - 1)
        BY <2>6, PositionsFit
      <4> HIDE DEF gap
      <4>2. gap.value <= n_b
        BY <2>3, <3>5, <4>1
      <4> QED BY <2>3, <4>1, <4>2
    <3> DEFINE read == Js!decodeUvarint(leaf.stream, offset)
    <3>7. read.value = gap.value /\ read.next = gap.next
      BY <1>2, <2>2, <3>6, JsUvarint
    <3> HIDE DEF gap, x, f
    <3>8. f[t] = [indices |-> Append(indices, y), next |-> gap.next]
      <4> DEFINE last == f[t - 1]
      <4>1. last.indices = indices /\ last.next = offset
        BY <3>1, <3>2
      <4> HIDE DEF last
      <4>2. f[t] = [indices |-> Append(last.indices,
                        IF t = 1 THEN read.value ELSE last.indices[t - 1] + 1 + read.value),
                    next |-> read.next]
        BY <3>3, <4>1 DEF Js!ReadGap, last
      <4> HIDE DEF read
      <4> QED BY <3>7, <4>1, <4>2
    <3>9. f[t] = [indices |-> indices', next |-> offset']
      BY <2>1, <3>4, <3>8
    <3>10. Len(indices') = t
      BY <2>5
    <3>11. f' = f
      BY <2>1 DEF f
    <3>12. (Js!GapsRead(leaf.stream, k, from)[Len(indices)] =
                [indices |-> indices, next |-> offset])'
      BY <3>9, <3>10, <3>11 DEF f
    <3> QED BY <2>1, <3>12 DEF JsProgress
  <2>10. offset' \in Nat /\ offset <= offset'
    <3>1. gap.next \in (offset + 1) .. Size
      BY <1>2, <2>2, UvarintType
    <3> HIDE DEF gap
    <3> QED BY <2>1, <2>2, <3>1, SizeType
  <2> QED BY <2>1, <2>2, <2>6, <2>7, <2>8, <2>9, <2>10, JsStays
<1> QED BY <1>1, <1>2

\* The rank of a block
LEMMA JsEnumRank ==
    ASSUME leaf \in Leaves, IInv, JsInv, EnumRank
    PROVE  JsInv'
<1> DEFINE rank_len == Uvarint(leaf.stream, offset)
           read == Js!decodeUvarint(leaf.stream, offset)
<1>1. /\ pc = "enum" /\ k > 0 /\ k \in Nat /\ n_b \in Nat
      /\ offset \in 0 .. Size /\ offset \in Nat
      /\ indices = <<>> /\ encoding = ENUM_RANK
  BY SizeType DEF EnumRank, IInv, TypeOK, Control
<1>2. CASE rank_len = None
  BY <1>2, JsFail DEF EnumRank
<1>3. CASE rank_len # None
  <2>1. rank_len.value \in Nat /\ rank_len.next \in Nat /\ offset <= rank_len.next
    <3>1. rank_len.value \in Nat /\ rank_len.next \in (offset + 1) .. Size
      BY <1>1, <1>3, UvarintType
    <3> QED BY <1>1, <3>1, SizeType
  <2>2. InBlock
    BY <1>1 DEF InBlock
  <2>3. labels = <<>>
    BY <1>1, <2>2 DEF JsInv, LabelsRead
  <2>4. Fits' /\ UNCHANGED <<n_b, k>> => Fits
    BY <1>1 DEF Fits
  <2>5. CASE rank_len.value = 0
    <3>1. /\ indices' = [i \in 1 .. k |-> i - 1]
          /\ offset' = rank_len.next
          /\ pc' = "labels"
          /\ UNCHANGED <<leaf, block_id, results, n_b, encoding, k, labels,
                         rank, bit>>
      BY <1>3, <2>1, <2>5 DEF EnumRank, FirstSubset
    <3>2. InBlock' /\ LabelsRead'
      BY <2>3, <3>1 DEF InBlock, LabelsRead
    <3>3. ASSUME NEW from \in 0 .. Size, JsProgress(from)
          PROVE  JsProgress(from)'
      <4>1. offset = from
        BY <1>1, <3>3 DEF JsProgress
      <4>2. read.value = 0 /\ read.next = rank_len.next
        <5>1. rank_len.value < 2 ^ (IntBits - 1)
          <6>1. IntBits - 1 \in Nat
            BY PortsFit
          <6>2. 2 ^ (IntBits - 1) \in Nat \ {0}
            BY <6>1, Powers
          <6> HIDE DEF rank_len
          <6> QED BY <2>5, <6>2
        <5> QED BY <1>1, <1>3, <2>5, <5>1, JsUvarint
      <4> HIDE DEF rank_len, read
      <4>3. k # 0
        BY <1>1
      <4>4. Js!decodeEnumRank(leaf.stream, n_b, k, from)
                = [indices |-> [i \in 1 .. k |-> i - 1], next |-> rank_len.next, threw |-> FALSE]
        BY <4>1, <4>2, <4>3 DEF Js!decodeEnumRank, Js!RankedIn, read
      <4>5. JsIndices(from)' = Js!decodeEnumRank(leaf.stream, n_b, k, from)
        BY <1>1, <3>1 DEF JsIndices, ENUM_RANK, DELTA_GAPS
      <4> QED BY <3>1, <4>4, <4>5 DEF JsProgress
    <3>4. offset' \in Nat /\ offset <= offset'
      <4> HIDE DEF rank_len
      <4> QED BY <1>1, <2>1, <3>1
    <3> QED BY <1>1, <2>2, <2>4, <3>1, <3>2, <3>3, <3>4, JsStays
  <2>6. CASE rank_len.value > 0
    <3>1. /\ rank' = FromBytes(RankBytes(leaf.stream, rank_len))
          /\ offset' = rank_len.next + rank_len.value
          /\ pc' = "unrank"
          /\ UNCHANGED <<leaf, block_id, results, n_b, encoding, k, indices,
                         labels, bit>>
      BY <1>3, <2>1, <2>6 DEF EnumRank
    <3>2. InBlock' /\ LabelsRead'
      BY <2>3, <3>1 DEF InBlock, LabelsRead
    <3>3. ASSUME NEW from \in 0 .. Size, JsProgress(from)
          PROVE  JsProgress(from)'
      <4>1. offset = from
        BY <1>1, <3>3 DEF JsProgress
      <4> DEFINE f == Js!Unrankings(FromBytes(RankBytes(leaf.stream, rank_len)), n_b, k)
      <4>2. f[0] = [rank |-> rank', upper |-> n_b - 1, indices |-> <<>>]
        BY <1>1, <3>1, JsUnrankingsLoop
      <4>3. Len(indices') = 0 /\ indices' = <<>> /\ Upper' = n_b - 1
        BY <1>1, <3>1 DEF Upper
      <4>4. f[Len(indices')] = [rank |-> rank', upper |-> Upper', indices |-> indices']
        BY <4>2, <4>3
      <4> QED BY <1>1, <1>3, <2>6, <3>1, <4>1, <4>4 DEF JsProgress
    <3>4. offset' \in Nat /\ offset <= offset'
      <4> HIDE DEF rank_len
      <4> QED BY <1>1, <2>1, <3>1
    <3> QED BY <1>1, <2>2, <2>4, <3>1, <3>2, <3>3, <3>4, JsStays
  <2> QED BY <2>1, <2>5, <2>6
<1> QED BY <1>2, <1>3

\* One element of unrankSubset
LEMMA JsUnrank ==
    ASSUME PascalsRule, leaf \in Leaves, IInv, JsInv, Unrank
    PROVE  JsInv'
<1> DEFINE j == k - Len(indices)
           i == FindLargestBinomLe(rank, j, j - 1, Upper)
<1>1. /\ pc = "unrank" /\ Len(indices) < k
      /\ UNCHANGED <<leaf, pc, offset, block_id, results, n_b, encoding, k,
                     labels, bit>>
  BY DEF Unrank
<1>2. /\ indices' = <<i>> \o indices
      /\ rank' = rank - Binom(i, j)
      /\ i \in Int /\ j \in Int /\ j >= 1 /\ Upper \in Int
      /\ k <= n_b => j - 1 <= Upper /\ Upper <= n_b - 1
      /\ j - 1 <= Upper => i \in (j - 1) .. Upper
  BY NextElement
<1>3. /\ indices \in Seq(Int) /\ Len(indices) \in Nat /\ k \in Nat /\ rank \in Nat
      /\ offset \in Nat /\ offset' = offset
      /\ n_b <= BlockSize + leaf.n_leaf
  BY <1>1 DEF IInv, TypeOK, Control, InBlock
<1>4. InBlock /\ InBlock'
  BY <1>1 DEF InBlock
<1>5. LabelsRead'
  BY <1>1, <1>4 DEF JsInv, LabelsRead
<1> HIDE DEF i
<1>6. /\ Len(indices') = Len(indices) + 1 /\ indices'[1] = i
      /\ \A m \in 2 .. Len(indices) + 1 : indices'[m] = indices[m - 1]
  BY <1>2, <1>3, PrependFacts
<1>7. Fits' => Fits
  <2>1. SUFFICES ASSUME Fits' PROVE Fits
    OBVIOUS
  <2>2. ASSUME NEW m \in 1 .. Len(indices) PROVE indices[m] \in 0 .. n_b - 1
    <3>1. m + 1 \in 1 .. Len(indices') /\ indices'[m + 1] = indices[m]
      <4>1. m + 1 \in 2 .. Len(indices) + 1 /\ (m + 1) - 1 = m
        BY <1>3
      <4>2. indices'[m + 1] = indices[(m + 1) - 1]
        BY <1>6, <4>1
      <4> QED BY <1>3, <1>6, <4>1, <4>2
    <3> QED BY <1>1, <2>1, <3>1 DEF Fits
  <2> QED BY <1>1, <2>1, <2>2 DEF Fits, Size
<1>8. ASSUME NEW from \in 0 .. Size, Fits, JsProgress(from)
      PROVE  JsProgress(from)'
  <2> DEFINE t == Len(indices) + 1
             f == Js!Unrankings(FromBytes(RankBytes(leaf.stream, Uvarint(leaf.stream, from))),
                                n_b, k)
             last == [rank |-> rank, upper |-> Upper, indices |-> indices]
  <2>1. t \in 1 .. k /\ t - 1 = Len(indices) /\ k - (t - 1) = j
    BY <1>1, <1>3
  <2>2. f[t - 1] = last
    BY <1>1, <1>8, <2>1 DEF JsProgress
  <2>3. f[t] = Js!Unrank(k - (t - 1), f[t - 1])
    <3>1. \A m \in 1 .. k : f[m] = Js!Unrank(k - (m - 1), f[m - 1])
      BY <1>3, JsUnrankingsLoop
    <3> HIDE DEF f, t
    <3> QED BY <2>1, <3>1
  <2> HIDE DEF f, t
  <2>4. j - 1 <= Upper /\ Upper <= n_b - 1 /\ i \in (j - 1) .. Upper
    BY <1>2, <1>8 DEF Fits
  <2>5. n_b \in Nat /\ n_b <= 2 ^ (IntBits - 2) /\ 2 ^ (IntBits - 2) \in Nat
    BY <1>4, PositionsFit
  <2> DEFINE lo == j - 1
             hi == Upper
  <2>6. /\ j \in Nat \ {0} /\ lo \in Nat /\ hi \in Nat /\ lo <= hi
        /\ hi <= BlockSize + leaf.n_leaf /\ hi < 2 ^ (IntBits - 2) /\ i \in Nat
    <3>1. BlockSize + leaf.n_leaf \in Int
      BY LeafAssumption DEF BlockSize
    <3> HIDE DEF j
    <3> QED BY <1>2, <1>3, <2>4, <2>5, <3>1
  <2>7. Js!findLargestBinomLe(rank, j, lo, hi) = FindLargestBinomLe(rank, j, lo, hi)
    <3> HIDE DEF j, lo, hi
    <3> QED BY <1>3, <2>6, JsSearch
  <2>8. Js!findLargestBinomLe(rank, j, j - 1, Upper) = i
    BY <2>7 DEF i
  <2>9. Js!binom(i, j) = Binom(i, j)
    BY <2>6, JsBinom
  <2>10. last.rank = rank /\ last.upper = Upper /\ last.indices = indices
    OBVIOUS
  <2> HIDE DEF j, last
  <2>11. Js!Unrank(j, last) = [rank |-> rank - Binom(i, j), upper |-> i - 1,
                               indices |-> <<i>> \o indices]
    BY <2>8, <2>9, <2>10 DEF Js!Unrank
  <2>12. indices' # <<>> /\ Upper' = i - 1
    <3>1. indices' # <<>>
      BY <1>3, <1>6
    <3> QED BY <1>6, <3>1 DEF Upper
  <2>13. f[t] = [rank |-> rank', upper |-> Upper', indices |-> indices']
    BY <1>2, <2>1, <2>2, <2>3, <2>11, <2>12
  <2>14. Len(indices') = t /\ f' = f
    BY <1>1, <1>6 DEF f, t
  <2>15. f'[Len(indices')] = [rank |-> rank', upper |-> Upper', indices |-> indices']
    BY <2>13, <2>14
  <2> QED BY <1>1, <1>8, <2>15 DEF JsProgress, f
<1>9. offset <= offset'
  BY <1>3
<1> QED BY <1>1, <1>3, <1>4, <1>5, <1>7, <1>8, <1>9, JsStays

\* One bit
LEMMA JsBitmapBit ==
    ASSUME leaf \in Leaves, IInv, JsInv, BitmapBit
    PROVE  JsInv'
<1>1. /\ pc = "bitmap" /\ bit < BitmapBits
      /\ bit' = bit + 1
      /\ indices' = IF BitCounts THEN Append(indices, bit) ELSE indices
      /\ UNCHANGED <<leaf, pc, offset, block_id, results, n_b, encoding, k,
                     labels, rank>>
  BY DEF BitmapBit
<1>2. /\ indices \in Seq(Int) /\ Len(indices) \in Nat /\ bit \in Nat /\ n_b \in Nat
      /\ offset \in Nat /\ Size \in Nat
  BY <1>1, SizeType DEF IInv, TypeOK
<1>3. InBlock /\ InBlock'
  BY <1>1 DEF InBlock
<1>4. LabelsRead'
  BY <1>1, <1>3 DEF JsInv, LabelsRead
<1>5. Fits' => Fits
  <2>1. SUFFICES ASSUME Fits' PROVE Fits
    OBVIOUS
  <2>2. Append(indices, bit) \in Seq(Int) /\ Len(Append(indices, bit)) = Len(indices) + 1
        /\ \A m \in 1 .. Len(indices) : Append(indices, bit)[m] = indices[m]
    BY <1>2, AppendFacts
  <2>3. ASSUME NEW m \in 1 .. Len(indices) PROVE indices[m] \in 0 .. n_b - 1
    <3>1. m \in 1 .. Len(indices') /\ indices'[m] = indices[m]
      BY <1>1, <1>2, <2>2
    <3> QED BY <1>1, <2>1, <3>1 DEF Fits
  <2> QED BY <1>1, <2>1, <2>3 DEF Fits
<1>6. ASSUME NEW from \in 0 .. Size, JsProgress(from)
      PROVE  JsProgress(from)'
  <2> DEFINE f == Js!SetBits(leaf.stream, from, n_b)
  <2>1. offset = from /\ f[Lesser(bit, n_b)] = indices
    BY <1>1, <1>6 DEF JsProgress
  <2>2. f[Lesser(bit', n_b)] = indices'
    <3>1. CASE bit < n_b
      <4>1. f[bit] = indices /\ Lesser(bit', n_b) = bit + 1
        BY <1>1, <1>2, <2>1, <3>1 DEF Lesser
      <4>2. f[bit + 1] = Port!OneMoreBit(leaf.stream, from, bit, f[bit])
        <5>1. f = Port!SetBits(leaf.stream, from, n_b)
          BY JsIsPort
        <5>2. \A m \in 1 .. n_b : f[m] = Port!OneMoreBit(leaf.stream, from, m - 1, f[m - 1])
          BY <1>2, <5>1, SetBitsLoop
        <5>3. bit + 1 \in 1 .. n_b /\ (bit + 1) - 1 = bit
          BY <1>2, <3>1
        <5> HIDE DEF f
        <5>4. f[bit + 1] = Port!OneMoreBit(leaf.stream, from, (bit + 1) - 1, f[(bit + 1) - 1])
          BY <5>2, <5>3
        <5> QED BY <5>3, <5>4
      <4> DEFINE b == from + bit \div 8
      <4>3. b \in 0 .. Size - 1 /\ b \in Int
        <5>1. BitmapBits <= 8 * (Size - from)
          <6>1. NumBytes(n_b) \in Nat
            BY <1>2, NumBytesType
          <6> QED BY <1>2, <2>1, <6>1 DEF BitmapBits, Lesser
        <5>2. BitmapBits \in Int
          <6>1. NumBytes(n_b) \in Nat
            BY <1>2, NumBytesType
          <6> QED BY <1>2, <6>1 DEF BitmapBits, Lesser
        <5>3. bit < 8 * (Size - from)
          BY <1>1, <1>2, <5>1, <5>2
        <5> QED BY <1>2, <5>3
      <4>4. Port!Byte(leaf.stream, b) = Byte(b)
        BY <4>3, PortByte
      <4>5. 2 ^ (bit % 8) = Pow2(bit % 8)
        <5>1. bit % 8 \in 0 .. 8
          BY <1>2
        <5> QED BY <5>1, SmallPowers
      <4> HIDE DEF f
      <4>6. Port!OneMoreBit(leaf.stream, from, bit, f[bit])
                = IF BitSet THEN Append(indices, bit) ELSE indices
        BY <2>1, <4>1, <4>4, <4>5 DEF Port!OneMoreBit, Port!Bit, BitSet
      <4> QED BY <1>1, <3>1, <4>1, <4>2, <4>6 DEF BitCounts
    <3>2. CASE ~(bit < n_b)
      <4>1. Lesser(bit', n_b) = n_b /\ Lesser(bit, n_b) = n_b
        BY <1>1, <1>2, <3>2 DEF Lesser
      <4> QED BY <1>1, <2>1, <3>2, <4>1 DEF BitCounts
    <3> QED BY <3>1, <3>2
  <2> QED BY <1>1, <2>1, <2>2 DEF JsProgress
<1>7. offset' = offset /\ offset <= offset'
  BY <1>1, <1>2
<1> QED BY <1>1, <1>2, <1>3, <1>4, <1>5, <1>6, <1>7, JsStays

\* No bit is set past the end of the data.
LEMMA BitsPastData ==
    ASSUME leaf \in Leaves, NEW from \in 0 .. Size, NEW n \in Nat, NEW b \in 0 .. n,
           8 * (Size - from) <= b
    PROVE  Port!SetBits(leaf.stream, from, n)[n] = Port!SetBits(leaf.stream, from, n)[b]
<1> DEFINE f == Port!SetBits(leaf.stream, from, n)
           X == {m \in Nat : m <= n - b => f[b + m] = f[b]}
<1>1. Size \in Nat
  BY SizeType
<1>2. \A m \in 1 .. n : f[m] = Port!OneMoreBit(leaf.stream, from, m - 1, f[m - 1])
  BY SetBitsLoop
<1> HIDE DEF f
<1>3. 0 \in X
  BY <1>1
<1>4. ASSUME NEW m \in Nat, m < n - b, m \in X PROVE m + 1 \in X
  <2> DEFINE p == b + m
             at == from + p \div 8
  <2>1. p \in Nat /\ p + 1 \in 1 .. n /\ b + (m + 1) = p + 1 /\ (p + 1) - 1 = p
    BY <1>4
  <2>2. f[p + 1] = Port!OneMoreBit(leaf.stream, from, (p + 1) - 1, f[(p + 1) - 1])
    BY <1>2, <2>1
  <2>3. at \in Int /\ at \notin 0 .. Size - 1
    BY <1>1, <2>1
  <2>4. Port!Byte(leaf.stream, at) = 0
    BY <2>3, PortByte
  <2>5. Port!Bit(0, p % 8) = 0
    <3> DEFINE q == 2 ^ (p % 8)
    <3>1. p % 8 \in Nat
      BY <2>1
    <3>2. q \in Nat \ {0}
      BY <3>1, Powers
    <3> HIDE DEF q
    <3>3. (0 \div q) % 2 = 0
      BY <3>2
    <3> QED BY <3>3 DEF Port!Bit, q
  <2>6. f[p + 1] = f[p]
    BY <2>1, <2>2, <2>4, <2>5 DEF Port!OneMoreBit
  <2>7. f[p] = f[b]
    BY <1>4
  <2> QED BY <2>1, <2>6, <2>7
<1>5. n - b \in X
  <2> DEFINE c == n - b
  <2>1. c \in Nat
    OBVIOUS
  <2>2. \A m \in Nat : m < c /\ m \in X => m + 1 \in X
    BY <1>4
  <2> HIDE DEF c, X
  <2>3. c \in X
    BY <1>3, <2>1, <2>2, SetInduction
  <2> QED BY <2>3 DEF c
<1>6. f[b + (n - b)] = f[b] /\ b + (n - b) = n
  BY <1>5
<1> QED BY <1>6 DEF f

-----------------------------------------------------------------------------
(* From the indices to the labels                                         *)

\* A number of bits that a block can have takes the same bytes.
LEMMA JsBytes ==
    ASSUME leaf \in Leaves, IInv, JsInv, InBlock
    PROVE  Js!BytesOf(n_b) = NumBytes(n_b) /\ n_b <= 8 * NumBytes(n_b)
<1>1. n_b \in Nat /\ n_b + 7 < 2 ^ (IntBits - 1)
  BY PositionsFit
<1>2. Js!Signed(n_b + 7) = n_b + 7
  <2>1. n_b + 7 \in Nat
    BY <1>1
  <2> QED BY <1>1, <2>1, SignedIs
<1>3. Js!BytesOf(n_b) = NumBytes(n_b)
  <2>1. (n_b + 7) - 7 = n_b
    BY <1>1
  <2> QED BY <1>2, <2>1, JsIsPort DEF Js!BytesOf
<1> QED BY <1>1, <1>3 DEF NumBytes

\* A rank whose bytes are all there
LEMMA JsRanked ==
    ASSUME leaf \in Leaves, IInv, JsInv, InBlock, NEW from \in 0 .. Size, k > 0,
           Uvarint(leaf.stream, from) # None,
           Uvarint(leaf.stream, from).value > 0,
           Uvarint(leaf.stream, from).next + Uvarint(leaf.stream, from).value < Size
    PROVE  LET rank_len == Uvarint(leaf.stream, from)
               read == FromBytes(RankBytes(leaf.stream, rank_len))
           IN  Js!decodeEnumRank(leaf.stream, n_b, k, from)
                   = [indices |-> Js!Unrankings(read, n_b, k)[k].indices,
                      next |-> rank_len.next + rank_len.value, threw |-> FALSE]
<1> DEFINE rank_len == Uvarint(leaf.stream, from)
           rankLen == Js!decodeUvarint(leaf.stream, from)
           to == rank_len.next + rank_len.value
<1>1. Size \in Nat /\ Len(leaf.stream) = Size /\ k \in Nat
  BY SizeType, PositionsFit DEF Size
<1>2. rank_len.value \in Nat /\ rank_len.next \in Nat
  <2>1. rank_len.value \in Nat /\ rank_len.next \in (from + 1) .. Size
    BY UvarintType
  <2> QED BY <1>1, <2>1
<1>3. rank_len.value < 2 ^ (IntBits - 1)
  <2>1. 8 * (Size + 1) <= 2 ^ (IntBits - 1) /\ 2 ^ (IntBits - 1) \in Nat
    BY PortsFit, PositionsFit DEF Size
  <2>2. rank_len.value < Size
    BY <1>1, <1>2
  <2> HIDE DEF rank_len
  <2> QED BY <1>1, <1>2, <2>1, <2>2
<1>4. rankLen.value = rank_len.value /\ rankLen.next = rank_len.next
  BY <1>3, JsUvarint
<1>5. k # 0 /\ ~(k < 0) /\ rank_len.value # 0
  BY <1>1, <1>2
<1> HIDE DEF rankLen, rank_len
<1>6. to \in Nat /\ to < Size
  BY <1>2 DEF rank_len
<1>7. Js!Slice(leaf.stream, rank_len.next, to) = RankBytes(leaf.stream, rank_len)
  <2>1. ~(to < 0) /\ Lesser(to, Len(leaf.stream)) = to
    BY <1>1, <1>6 DEF Lesser
  <2> QED BY <1>1, <1>6, <2>1 DEF Js!Slice, RankBytes
<1>8. Js!decodeEnumRank(leaf.stream, n_b, k, from)
          = [indices |-> Js!unrankSubset(FromBytes(Js!Slice(leaf.stream, rank_len.next, to)),
                                         n_b, k),
             next |-> to, threw |-> FALSE]
  BY <1>4, <1>5 DEF Js!decodeEnumRank, Js!RankedIn, rankLen
<1> QED BY <1>7, <1>8 DEF Js!unrankSubset, rank_len

\* The indices are read, each in its way.
LEMMA JsIndicesRead ==
    ASSUME leaf \in Leaves, IInv, JsInv, IndicesRead
    PROVE  JsInv'
<1>1. /\ pc' = "labels"
      /\ UNCHANGED <<leaf, block_id, results, n_b, encoding, k, indices, labels, rank, bit>>
  BY DEF IndicesRead, block
<1>2. pc \in {"delta", "unrank", "enum", "bitmap"}
  BY DEF IndicesRead
<1>3. InBlock /\ InBlock'
  BY <1>1, <1>2 DEF InBlock
<1>4. labels = <<>>
  BY <1>2, <1>3 DEF JsInv, LabelsRead
<1>5. LabelsRead'
  BY <1>1, <1>4 DEF LabelsRead
<1>6. Fits' => Fits
  <2>1. SUFFICES ASSUME Fits' PROVE Fits
    OBVIOUS
  <2>2. pc = "unrank" => offset' = offset
    BY DEF IndicesRead
  <2> QED BY <1>1, <1>2, <2>1, <2>2 DEF Fits, Size
<1>7. /\ n_b \in Nat /\ k \in Nat /\ offset \in Nat /\ Size \in Nat /\ indices \in Seq(Int)
      /\ bit \in Nat
  BY SizeType DEF IInv, TypeOK
<1>8. ASSUME NEW from \in 0 .. Size, Fits', JsProgress(from)
      PROVE  JsProgress(from)'
  <2> DEFINE found == JsIndices(from)
  <2>1. SUFFICES ASSUME TRUE
                 PROVE  /\ found.indices = indices
                        /\ found.next = offset'
                        /\ encoding = ENUM_RANK => ~found.threw
    <3>1. JsIndices(from)' = JsIndices(from)
      BY <1>1 DEF JsIndices
    <3> QED BY <1>1, <2>1, <3>1 DEF JsProgress
  <2>2. CASE pc = "delta"
    <3>1. encoding = DELTA_GAPS /\ Len(indices) = k /\ offset' = offset
      BY <2>2 DEF IndicesRead, IInv, Control
    <3>2. Js!GapsRead(leaf.stream, k, from)[k] = [indices |-> indices, next |-> offset]
      BY <1>8, <2>2, <3>1 DEF JsProgress
    <3>3. ~(k < 0)
      BY <1>7
    <3>4. found = [indices |-> indices, next |-> offset]
      BY <3>1, <3>2, <3>3 DEF JsIndices, Js!decodeDeltaGaps
    <3> QED BY <3>1, <3>4 DEF DELTA_GAPS, ENUM_RANK
  <2>3. CASE pc = "enum"
    <3>1. encoding = ENUM_RANK /\ k = 0 /\ offset' = offset /\ indices = <<>> /\ offset = from
      BY <1>8, <2>3 DEF IndicesRead, IInv, Control, JsProgress
    <3>2. found = [indices |-> <<>>, next |-> from, threw |-> FALSE]
      BY <3>1 DEF JsIndices, Js!decodeEnumRank, Js!RankedIn, DELTA_GAPS, ENUM_RANK
    <3> QED BY <3>1, <3>2
  <2>4. CASE pc = "unrank"
    <3> DEFINE rank_len == Uvarint(leaf.stream, from)
               read == FromBytes(RankBytes(leaf.stream, rank_len))
    <3>1. encoding = ENUM_RANK /\ Len(indices) = k /\ offset' = offset
      BY <2>4 DEF IndicesRead, IInv, Control
    <3>2. /\ k > 0 /\ rank_len # None /\ rank_len.value > 0
          /\ offset = rank_len.next + rank_len.value
          /\ Js!Unrankings(read, n_b, k)[k] = [rank |-> rank, upper |-> Upper, indices |-> indices]
      BY <1>8, <2>4, <3>1 DEF JsProgress
    <3>3. offset < Size
      BY <1>1, <1>8, <3>1, <3>2 DEF Fits, Size
    <3>4. Js!decodeEnumRank(leaf.stream, n_b, k, from)
              = [indices |-> Js!Unrankings(read, n_b, k)[k].indices,
                 next |-> rank_len.next + rank_len.value, threw |-> FALSE]
      BY <1>3, <3>2, <3>3, JsRanked
    <3>5. found = Js!decodeEnumRank(leaf.stream, n_b, k, from)
      BY <3>1 DEF JsIndices, DELTA_GAPS, ENUM_RANK
    <3> HIDE DEF read, rank_len, found
    <3> QED BY <3>1, <3>2, <3>4, <3>5
  <2>5. CASE pc = "bitmap"
    <3> DEFINE f == Js!SetBits(leaf.stream, from, n_b)
    <3>1. /\ encoding \notin {DELTA_GAPS, ENUM_RANK} /\ bit >= BitmapBits
          /\ offset' = offset + NumBytes(n_b) /\ offset = from /\ f[Lesser(bit, n_b)] = indices
      BY <1>8, <2>5 DEF IndicesRead, IInv, Control, JsProgress
    <3>2. Js!BytesOf(n_b) = NumBytes(n_b) /\ n_b <= 8 * NumBytes(n_b) /\ NumBytes(n_b) \in Nat
      BY <1>3, <1>7, JsBytes, NumBytesType
    <3>3. found = [indices |-> f[n_b], next |-> from + NumBytes(n_b)]
      BY <3>1, <3>2 DEF JsIndices, Js!decodeBitmap
    <3>4. f[n_b] = indices
      <4>1. CASE bit >= n_b
        <5>1. Lesser(bit, n_b) = n_b
          BY <1>7, <4>1 DEF Lesser
        <5> QED BY <3>1, <5>1
      <4>2. CASE bit < n_b
        <5>1. Lesser(bit, n_b) = bit
          BY <1>7, <4>2 DEF Lesser
        <5>2. 8 * (Size - from) <= bit
          BY <1>7, <3>1, <3>2, <4>2 DEF BitmapBits, Lesser
        <5>3. Port!SetBits(leaf.stream, from, n_b)[n_b] = Port!SetBits(leaf.stream, from, n_b)[bit]
          <6>1. bit \in 0 .. n_b
            BY <1>7, <4>2
          <6> QED BY <1>7, <5>2, <6>1, BitsPastData
        <5>4. f = Port!SetBits(leaf.stream, from, n_b)
          BY JsIsPort
        <5> QED BY <3>1, <5>1, <5>3, <5>4
      <4> QED BY <1>7, <4>1, <4>2
    <3> HIDE DEF f, found
    <3> QED BY <3>1, <3>3, <3>4
  <2> QED BY <1>2, <2>2, <2>3, <2>4, <2>5
<1>9. offset' \in Nat /\ offset <= offset'
  <2>1. offset' = offset \/ offset' = offset + NumBytes(n_b)
    BY DEF IndicesRead
  <2>2. NumBytes(n_b) \in Nat
    BY <1>7, NumBytesType
  <2> QED BY <1>7, <2>1, <2>2
<1> QED BY <1>1, <1>3, <1>5, <1>6, <1>7, <1>8, <1>9, JsStays

\* One label
LEMMA JsOneLabel ==
    ASSUME leaf \in Leaves, IInv, JsInv, Label
    PROVE  JsInv'
<1> DEFINE w == BitsPerLabel
           pos == 8 * offset + Len(labels) * w
           code == ExtractBits(pos, w)
<1>1. CASE ~BitsPresent(pos, w)
  BY <1>1, JsFail DEF Label
<1>2. CASE BitsPresent(pos, w) /\ (Conditional /\ code >= NumRemaining)
  BY <1>2, JsFail DEF Label
<1>3. CASE BitsPresent(pos, w) /\ ~(Conditional /\ code >= NumRemaining)
  <2>1. /\ pc = "labels" /\ Len(labels) < k
        /\ labels' = Append(labels, LabelOf(code))
        /\ UNCHANGED <<leaf, pc, block_id, results, n_b, encoding, k, indices, offset,
                       rank, bit>>
    BY <1>3 DEF Label
  <2>2. labels \in Seq(Int) /\ Len(labels) \in Nat /\ offset \in Nat /\ w \in 1 .. 8
    BY BitsPerLabelType DEF IInv, TypeOK
  <2>3. code \in Nat /\ NumRemaining \in Int
    <3>1. pos \in Nat
      <4>1. Len(labels) * w \in Nat
        BY <2>2, ProductType
      <4> QED BY <2>2, <4>1
    <3> QED BY <1>3, <2>2, <3>1, CodeType, ClassTypes DEF NumRemaining
  <2>4. Conditional => code < NumRemaining
    <3> HIDE DEF code
    <3> QED BY <1>3, <2>3
  <2>5. LabelOf(code) \in Int
    BY <2>3, <2>4, LabelType
  <2> DEFINE c == Len(labels) + 1
  <2>6. /\ Len(labels') = c /\ labels'[c] = LabelOf(code)
        /\ \A i \in 1 .. Len(labels) : labels'[i] = labels[i]
    <3> HIDE DEF code
    <3> QED BY <2>1, <2>2, <2>5, AppendFacts
  <2>7. InBlock /\ InBlock'
    BY <2>1 DEF InBlock
  <2>8. LabelsRead'
    <3>1. /\ BitsPerLabel' = BitsPerLabel /\ NumRemaining' = NumRemaining
          /\ (Conditional' <=> Conditional)
          /\ \A p : (BitsPresent(p, w)' <=> BitsPresent(p, w))
                    /\ ExtractBits(p, w)' = ExtractBits(p, w)
          /\ \A x : LabelOf(x)' = LabelOf(x)
      BY <2>1 DEF BitsPerLabel, NumRemaining, Conditional, BitsPresent, ExtractBits, Window, Byte,
                  Size, LabelOf, Remaining, Excludes, AllClasses, LowestClass, HighestClass,
                  IsLegacy, NClasses
    <3>2. ASSUME NEW i \in 1 .. c
          PROVE  LET p == 8 * offset + (i - 1) * w
                     x == ExtractBits(p, w)
                 IN  /\ BitsPresent(p, w)
                     /\ Conditional => x < NumRemaining
                     /\ labels'[i] = LabelOf(x)
      <4>1. CASE i = c
        <5>1. i - 1 = Len(labels)
          BY <2>2, <4>1
        <5> QED BY <1>3, <2>4, <2>6, <4>1, <5>1
      <4>2. CASE i # c
        <5>1. i \in 1 .. Len(labels) /\ labels'[i] = labels[i]
          BY <2>2, <2>6, <4>2
        <5> QED BY <2>7, <5>1 DEF JsInv, LabelsRead
      <4> QED BY <4>1, <4>2
    <3> HIDE DEF c
    <3>3. (\A i \in 1 .. Len(labels) :
              LET p == 8 * offset + (i - 1) * BitsPerLabel
                  x == ExtractBits(p, BitsPerLabel)
              IN  /\ BitsPresent(p, BitsPerLabel)
                  /\ Conditional => x < NumRemaining
                  /\ labels[i] = LabelOf(x))'
      BY <2>1, <2>6, <3>1, <3>2
    <3> QED BY <2>1, <3>3 DEF LabelsRead
  <2>9. Fits' => Fits
    BY <2>1 DEF Fits, Size
  <2>10. \A from \in 0 .. Size : JsProgress(from) => JsProgress(from)'
    BY <2>1 DEF JsProgress, JsIndices
  <2>11. offset' = offset /\ offset <= offset'
    BY <2>1, <2>2
  <2> QED BY <2>1, <2>2, <2>7, <2>8, <2>9, <2>10, <2>11, JsStays
<1> QED BY <1>1, <1>2, <1>3

-----------------------------------------------------------------------------
(* Records                                                                 *)

\* A block has no more indices than positions.
LEMMA NoMoreThanFit ==
    ASSUME NEW s \in Seq(Int), Ascending(s), NEW n \in Nat,
           \A i \in 1 .. Len(s) : s[i] \in 0 .. n - 1
    PROVE  Len(s) <= n
<1> DEFINE X == {m \in Nat : m < Len(s) => s[m + 1] >= m}
<1>1. Len(s) \in Nat /\ \A i \in 1 .. Len(s) : s[i] \in Int
  BY ElementType
<1>2. 0 \in X
  <2>1. 0 < Len(s) => s[0 + 1] >= 0
    <3>1. 0 < Len(s) => 0 + 1 \in 1 .. Len(s)
      BY <1>1
    <3>2. 0 < Len(s) => s[0 + 1] \in 0 .. n - 1
      BY <3>1
    <3> QED BY <3>2
  <2> QED BY <2>1
<1>3. ASSUME NEW m \in Nat, m \in X PROVE m + 1 \in X
  <2> SUFFICES ASSUME m + 1 < Len(s) PROVE s[(m + 1) + 1] >= m + 1
    OBVIOUS
  <2> DEFINE a == m + 1
             b == (m + 1) + 1
  <2>1. a \in 1 .. Len(s) /\ b \in 1 .. Len(s) /\ a < b
    BY <1>1
  <2>2. s[a] \in Int /\ s[b] \in Int
    BY <1>1, <2>1
  <2>3. s[a] < s[b]
    BY <2>1 DEF Ascending
  <2>4. s[a] >= m
    BY <1>1, <1>3
  <2> HIDE DEF a, b
  <2>5. s[b] >= m + 1
    BY <2>2, <2>3, <2>4
  <2> QED BY <2>5 DEF b
<1>4. CASE Len(s) > 0
  <2> DEFINE c == Len(s) - 1
  <2>1. c \in Nat /\ c < Len(s) /\ c + 1 = Len(s) /\ Len(s) \in 1 .. Len(s)
    BY <1>1, <1>4
  <2>2. c \in X
    <3> HIDE DEF X, c
    <3> QED BY <1>2, <1>3, <2>1, SetInduction
  <2>3. s[Len(s)] >= c
    BY <2>1, <2>2
  <2>4. s[Len(s)] \in 0 .. n - 1
    BY <2>1
  <2> QED BY <1>1, <2>1, <2>3, <2>4
<1> QED BY <1>1, <1>4

\* A run of empty blocks
LEMMA JsEmptyRun ==
    ASSUME leaf \in Leaves, IInv, JsInv, EmptyRun
    PROVE  JsInv'
<1> DEFINE run == Uvarint(leaf.stream, offset + 1)
           blanks == EmptyEntries(run.value)
<1>1. CASE run = None
  BY <1>1, JsFail DEF EmptyRun
<1>2. CASE run # None
  <2>1. /\ results' = results \o blanks
        /\ block_id' = block_id + run.value
        /\ offset' = run.next
        /\ UNCHANGED <<leaf, pc, block>>
        /\ pc = "record" /\ offset < Size /\ block_id < leaf.num_blocks
        /\ Byte(offset) % 4 = 0
    BY <1>2 DEF EmptyRun, AtRecord, MoreRecords, Header, EMPTY_RUN
  <2>2. /\ offset \in Nat /\ block_id \in Nat /\ results \in Seq(BlockEntry)
        /\ Size \in Nat /\ offset \in 0 .. Size - 1 /\ offset + 1 \in 0 .. Size
        /\ Len(results) \in Nat
    BY <2>1, SizeType DEF IInv, TypeOK
  <2>3. run.value \in Nat /\ run.next \in (offset + 1 + 1) .. Size
    BY <1>2, <2>2, UvarintType
  <2>4. ~InBlock'
    BY <2>1 DEF InBlock
  <2>5. /\ Len(results') = Len(results) + run.value
        /\ \A i \in 1 .. Len(results) : results'[i] = results[i]
    <3>1. blanks \in Seq(BlockEntry) /\ Len(blanks) = run.value
      <4>1. \A i \in 1 .. run.value : [bid |-> block_id + i - 1, data |-> None] \in BlockEntry
        BY <2>2, <2>3 DEF BlockEntry
      <4>2. blanks \in [1 .. run.value -> BlockEntry]
        BY <4>1 DEF EmptyEntries
      <4> HIDE DEF blanks, run
      <4> QED BY ONLY <2>3, <4>2, FunctionIsSeq, Zenon
    <3> HIDE DEF blanks, run
    <3>2. /\ Len(results \o blanks) = Len(results) + Len(blanks)
          /\ \A i \in 1 .. Len(results) : (results \o blanks)[i] = results[i]
      BY <2>2, <3>1, ConcatFacts
    <3> QED BY <2>1, <3>1, <3>2
  <2>6. ASSUME Legal' PROVE JsAt(offset)'
    <3>1. Legal
      <4>1. Len(results) <= Len(results') /\ Len(results') \in Nat
        BY <2>2, <2>3, <2>5
      <4> QED BY <2>1, <2>2, <2>5, <2>6, <4>1, LegalBefore
    <3>2. run.value < 2 ^ (IntBits - 1)
      <4>1. 2 ^ (IntBits - 1) \in Nat
        <5>1. IntBits - 1 \in Nat
          BY PortsFit
        <5> QED BY <5>1, Powers
      <4>2. Len(results') < 2 ^ (IntBits - 1)
        BY <2>6 DEF Legal
      <4> HIDE DEF run
      <4> QED BY <2>2, <2>3, <2>5, <4>1, <4>2
    <3>3. /\ Js!decodeUvarint(leaf.stream, offset + 1).value = run.value
          /\ Js!decodeUvarint(leaf.stream, offset + 1).next = run.next
      BY <1>2, <2>2, <3>2, JsUvarint
    <3> DEFINE last == [offset |-> offset, blockId |-> block_id, list |-> results,
                        threw |-> FALSE]
    <3>4. PICK t \in 1 .. Size : t - 1 <= offset /\ Js!Records(leaf)[t] = Js!Record(leaf, last)
      <4>1. JsAt(offset)
        BY <2>1, <3>1 DEF JsInv
      <4> QED BY <2>1, <2>2, <4>1, JsTurn
    <3>5. Js!Byte(leaf.stream, offset) % 4 = 0
      <4>1. Js!Byte(leaf.stream, offset) = Port!Byte(leaf.stream, offset)
        BY JsIsPort
      <4>2. Port!Byte(leaf.stream, offset) = Byte(offset)
        BY <2>2, PortByte
      <4> QED BY <2>1, <4>1, <4>2
    <3>6. last.offset = offset /\ last.blockId = block_id /\ last.list = results
      OBVIOUS
    <3>7. ~(run.value < 0)
      BY <2>3
    <3> HIDE DEF last, run, blanks
    <3>8. Js!Record(leaf, last)
              = [offset |-> run.next, blockId |-> block_id + run.value,
                 list |-> results \o [i \in 1 .. run.value |->
                                          [bid |-> block_id + i - 1, data |-> None]],
                 threw |-> FALSE]
      BY <3>3, <3>5, <3>6, <3>7 DEF Js!Record, Js!AfterRun, Js!AfterBlock
    <3>9. Js!Records(leaf)[t] = [offset |-> offset', blockId |-> block_id',
                                 list |-> results', threw |-> FALSE]
      BY <2>1, <3>4, <3>8 DEF blanks, EmptyEntries
    <3>10. t \in 0 .. Size /\ t <= offset'
      BY <2>1, <2>2, <2>3, <3>4
    <3>11. leaf' = leaf /\ Size' = Size
      BY <2>1 DEF Size
    <3> QED BY <3>9, <3>10, <3>11 DEF JsAt
  <2> QED BY <2>1, <2>4, <2>6 DEF JsInv
<1> QED BY <1>1, <1>2

\* The header of a block
LEMMA JsBlockHeader ==
    ASSUME leaf \in Leaves, IInv, JsInv, BlockHeader
    PROVE  JsInv'
<1> DEFINE count == Uvarint(leaf.stream, offset + 1)
           enc == (Header \div 4) % 4
<1>1. CASE count = None
  BY <1>1, JsFail DEF BlockHeader
<1>2. CASE count # None
  <2>1. /\ n_b' = BlockPositions /\ encoding' = enc /\ k' = count.value
        /\ offset' = count.next /\ indices' = <<>> /\ labels' = <<>> /\ bit' = 0
        /\ pc' = IndexLoop(enc)
        /\ UNCHANGED <<leaf, block_id, results, rank>>
        /\ pc = "record" /\ offset < Size /\ Byte(offset) % 4 = NON_EMPTY_BLOCK
    BY <1>2 DEF BlockHeader, AtRecord, MoreRecords, Header
  <2>2. /\ offset \in Nat /\ Size \in Nat /\ offset \in 0 .. Size - 1
        /\ offset + 1 \in 0 .. Size
    BY <2>1, SizeType DEF IInv, TypeOK
  <2>3. count.value \in Nat /\ n_b' \in Nat
    <3>1. count.value \in Nat
      BY <1>2, <2>2, UvarintType
    <3>2. leaf' \in Leaves /\ IInv'
      BY BlockHeaderStep
    <3> QED BY <3>1, <3>2 DEF IInv, TypeOK
  <2>4. pc' \in {"delta", "enum", "bitmap"}
    BY <2>1 DEF IndexLoop
  <2>5. /\ BlockPositions' = BlockPositions /\ (Legal' <=> Legal) /\ Size' = Size
        /\ \A p : Byte(p)' = Byte(p)
    BY <2>1 DEF BlockPositions, BlockSize, Legal, LegalEntries, PositionsIn, Size, Byte
  <2>6. LabelsRead'
    BY <2>1, <2>4 DEF LabelsRead
  <2>7. ASSUME Legal' PROVE JsReads'
    <3>1. PICK at \in 0 .. Size - 1 : at = offset
      BY <2>2
    <3>2. JsAt(at)
      BY <2>1, <2>5, <2>7, <3>1 DEF JsInv
    <3>3. JsStarted(at)'
      <4>1. at < offset'
        <5>1. count.next \in (offset + 1 + 1) .. Size
          BY <1>2, <2>2, UvarintType
        <5> HIDE DEF count
        <5> QED BY <2>1, <2>2, <3>1, <5>1
      <4> QED BY <1>2, <2>1, <2>5, <3>1, <3>2, <4>1 DEF JsStarted, Started, JsAt, Header
    <3>4. PICK from : from = count.next
      OBVIOUS
    <3>5. JsProgress(from)'
      <4>1. CASE pc' = "delta"
        <5>1. Js!GapsRead(leaf.stream, k', from)[0] = [indices |-> <<>>, next |-> from]
          BY <2>1, <2>3, JsGapsLoop
        <5>2. Len(indices') = 0
          BY <2>1
        <5>3. (Js!GapsRead(leaf.stream, k, from)[Len(indices)]
                   = [indices |-> indices, next |-> offset])'
          BY <2>1, <3>4, <5>1, <5>2
        <5> QED BY <4>1, <5>3 DEF JsProgress
      <4>2. CASE pc' = "enum"
        BY <2>1, <3>4, <4>2 DEF JsProgress
      <4>3. CASE pc' = "bitmap"
        <5>1. Port!SetBits(leaf.stream, from, n_b')[0] = <<>>
          BY <2>3, SetBitsLoop
        <5>2. Js!SetBits(leaf.stream, from, n_b')[0] = <<>>
          BY <5>1, JsIsPort
        <5>3. Lesser(bit', n_b') = 0
          BY <2>1, <2>3 DEF Lesser
        <5>4. (Js!SetBits(leaf.stream, from, n_b)[Lesser(bit, n_b)] = indices)'
          BY <2>1, <5>2, <5>3
        <5> QED BY <2>1, <3>4, <4>3, <5>4 DEF JsProgress
      <4> QED BY <2>4, <4>1, <4>2, <4>3
    <3>6. from = Uvarint(leaf'.stream, at + 1).next
      BY <2>1, <3>1, <3>4
    <3>7. JsProgress(Uvarint(leaf.stream, at + 1).next)'
      BY <3>5, <3>6
    <3> QED BY <2>5, <3>3, <3>7 DEF JsReads
  <2> QED BY <2>1, <2>4, <2>5, <2>6, <2>7 DEF JsInv, InBlock
<1> QED BY <1>1, <1>2

\* A block is read: the JavaScript decoder has made the same entry.
LEMMA JsBlockRead ==
    ASSUME leaf \in Leaves, IInv, JsInv, BlockRead
    PROVE  JsInv'
<1> DEFINE data == [indices |-> indices, labels |-> labels]
           entry == [bid |-> block_id, data |-> data]
<1>1. /\ pc = "labels" /\ Len(labels) = k
      /\ results' = Append(results, entry)
      /\ block_id' = block_id + 1
      /\ offset' = offset + NumBytes(k * BitsPerLabel)
      /\ pc' = "record"
      /\ UNCHANGED <<leaf, block>>
  BY DEF BlockRead
<1>2. /\ offset \in Nat /\ block_id \in Nat /\ k \in Nat
      /\ results \in Seq(BlockEntry) /\ Len(results) \in Nat
      /\ indices \in Seq(Int) /\ labels \in Seq(Int)
      /\ block_id < leaf.num_blocks /\ Ascending(indices) /\ Size \in Nat /\ n_b \in Nat
  BY <1>1, SizeType DEF IInv, TypeOK, Control, InBlock, SubsetInv
<1>3. InBlock /\ ~InBlock'
  BY <1>1 DEF InBlock
<1>4. /\ Len(results') = Len(results) + 1 /\ results'[Len(results) + 1] = entry
      /\ \A i \in 1 .. Len(results) : results'[i] = results[i]
  <2>1. entry \in BlockEntry
    BY <1>2 DEF BlockEntry
  <2> HIDE DEF entry
  <2> QED BY <1>1, <1>2, <2>1, AppendFacts
<1>5. n_b = BlockPositions /\ LabelsRead
  BY <1>3 DEF JsInv
<1>6. ASSUME Legal' PROVE JsAt(offset)'
  <2>1. Legal
    <3>1. Len(results) <= Len(results') /\ Len(results') \in Nat
      BY <1>2, <1>4
    <3> QED BY <1>1, <1>2, <1>4, <1>6, <3>1, LegalBefore
  <2>2. Fits
    <3>1. entry.bid = block_id /\ entry.data = data /\ data.indices = indices
          /\ data.labels = labels /\ data # None
      <4>1. data # None
        BY <1>2, NoneAssumption
      <4> QED BY <4>1
    <3> HIDE DEF entry, data
    <3>2. Len(labels) = Len(indices)
          /\ \A p \in 1 .. Len(indices) : indices[p] \in 0 .. PositionsIn(block_id) - 1
      <4>1. Len(results) + 1 \in 1 .. Len(results')
        BY <1>2, <1>4
      <4>2. results'[Len(results) + 1].data # None
        BY <1>4, <3>1
      <4> QED BY <1>1, <1>4, <1>6, <3>1, <4>1, <4>2 DEF Legal, LegalEntries, PositionsIn, BlockSize
    <3>3. PositionsIn(block_id) = n_b
      BY <1>5 DEF PositionsIn, BlockPositions
    <3>4. k <= n_b
      <4>1. Len(indices) <= n_b
        BY <1>2, <3>2, <3>3, NoMoreThanFit
      <4> QED BY <1>1, <3>2, <4>1
    <3>5. k > 0 => offset < Size
      <4>1. k > 0 => 8 * offset + k * BitsPerLabel <= 8 * Size
        BY <1>1, <1>5, LabelsEnd
      <4>2. k * BitsPerLabel \in Nat /\ (k > 0 => k * BitsPerLabel > 0)
        <5> DEFINE w == BitsPerLabel
        <5>1. w \in 1 .. 8
          BY BitsPerLabelType
        <5> HIDE DEF w
        <5>2. k * w \in Nat /\ (k > 0 => k * w > 0)
          BY <1>2, <5>1, ProductType
        <5> QED BY <5>2 DEF w
      <4> QED BY <1>2, <4>1, <4>2
    <3> QED BY <3>2, <3>3, <3>4, <3>5 DEF Fits
  <2>3. PICK at \in 0 .. Size - 1 :
            JsStarted(at) /\ JsProgress(Uvarint(leaf.stream, at + 1).next)
    BY <1>3, <2>1, <2>2 DEF JsInv, JsReads
  <2> DEFINE count == Uvarint(leaf.stream, at + 1)
             from == count.next
             found == JsIndices(from)
  <2>4. /\ JsAt(at) /\ Byte(at) % 4 = 1 /\ encoding = (Byte(at) \div 4) % 4
        /\ count # None /\ k = count.value /\ at + 1 \in 0 .. Size
    BY <1>2, <2>3 DEF JsStarted, Started, NON_EMPTY_BLOCK
  <2>5. /\ found.indices = indices /\ found.next = offset
        /\ encoding = ENUM_RANK => ~found.threw
    BY <1>1, <2>3 DEF JsProgress
  <2>6. /\ Js!decodeUvarint(leaf.stream, at + 1).value = k
        /\ Js!decodeUvarint(leaf.stream, at + 1).next = from
    <3>1. count.value < 2 ^ (IntBits - 1)
      <4>1. /\ 2 ^ (IntBits - 1) \in Nat
            /\ \A v \in Nat : v <= n_b => v + 7 < 2 ^ (IntBits - 1)
        BY <1>3, PositionsFit
      <4>2. k <= n_b
        BY <2>2 DEF Fits
      <4>3. k + 7 < 2 ^ (IntBits - 1)
        BY <1>2, <4>1, <4>2
      <4> QED BY <1>2, <2>4, <4>1, <4>3
    <3> QED BY <2>4, <3>1, JsUvarint
  <2>7. Js!Byte(leaf.stream, at) = Byte(at)
    <3>1. Port!Byte(leaf.stream, at) = Byte(at)
      BY <1>2, PortByte
    <3> QED BY <3>1, JsIsPort
  <2> DEFINE coded == Js!decodeLabelsFixed(leaf.stream, k, offset, leaf.prediction,
                                           leaf.n_classes)
  <2>8. coded.labels = labels /\ coded.next = offset'
    BY <1>1, <1>5, JsLabels
  <2> HIDE DEF count, from, found, coded
  <2> DEFINE B == Js!decodeBlock(leaf.stream, n_b, at, leaf.prediction, leaf.n_classes)
  <2>9. B.data = data /\ B.next = offset' /\ ~B.threw
    <3> DEFINE ranked == Js!decodeEnumRank(leaf.stream, n_b, k, from)
               read == IF encoding = 0 THEN Js!decodeDeltaGaps(leaf.stream, k, from)
                       ELSE IF encoding = 1 THEN ranked
                       ELSE Js!decodeBitmap(leaf.stream, n_b, from)
    <3>1. read = found
      BY DEF found, JsIndices, DELTA_GAPS, ENUM_RANK
    <3>2. encoding = 1 => ~ranked.threw
      BY <2>5, <3>1 DEF ENUM_RANK
    <3> HIDE DEF ranked, read
    <3>3. Js!decodeBlock(leaf.stream, n_b, at, leaf.prediction, leaf.n_classes)
              = [data |-> [indices |-> read.indices,
                           labels |-> Js!decodeLabelsFixed(leaf.stream, k, read.next,
                                          leaf.prediction, leaf.n_classes).labels],
                 next |-> Js!decodeLabelsFixed(leaf.stream, k, read.next, leaf.prediction,
                                               leaf.n_classes).next,
                 threw |-> encoding = 1 /\ ranked.threw]
      BY <2>4, <2>6, <2>7 DEF Js!decodeBlock, Js!BlockOf, read, ranked
    <3>4. /\ read.indices = indices /\ read.next = offset
      BY <2>5, <3>1
    <3> HIDE DEF B
    <3>5. B = [data |-> [indices |-> indices, labels |-> coded.labels], next |-> coded.next,
               threw |-> encoding = 1 /\ ranked.threw]
      BY <3>3, <3>4 DEF coded, B
    <3>6. ~(encoding = 1 /\ ranked.threw)
      BY <3>2
    <3>7. B.data = [indices |-> indices, labels |-> coded.labels] /\ B.next = coded.next
      BY <3>5
    <3>8. ~B.threw
      BY <3>5, <3>6, Zenon
    <3> QED BY <2>8, <3>7, <3>8
  <2> DEFINE last == [offset |-> at, blockId |-> block_id, list |-> results, threw |-> FALSE]
  <2>10. PICK t \in 1 .. Size : t - 1 <= at /\ Js!Records(leaf)[t] = Js!Record(leaf, last)
    BY <1>2, <2>4, JsTurn
  <2>11. last.offset = at /\ last.blockId = block_id /\ last.list = results
    OBVIOUS
  <2> HIDE DEF last, data
  <2>12. Js!Record(leaf, last)
             = [offset |-> offset', blockId |-> block_id + 1,
                list |-> Append(results, [bid |-> block_id, data |-> data]),
                threw |-> FALSE]
    <3> DEFINE nB == IF block_id < leaf.num_blocks - 1 THEN leaf.block_size
                     ELSE leaf.n_leaf - block_id * leaf.block_size
    <3>1. nB = n_b
      BY <1>5 DEF BlockPositions, BlockSize
    <3> HIDE DEF nB
    <3>2. Js!Record(leaf, last)
              = [offset |-> Js!decodeBlock(leaf.stream, nB, at, leaf.prediction,
                                           leaf.n_classes).next,
                 blockId |-> block_id + 1,
                 list |-> Append(results,
                              [bid |-> block_id,
                               data |-> Js!decodeBlock(leaf.stream, nB, at, leaf.prediction,
                                                       leaf.n_classes).data]),
                 threw |-> FALSE]
      BY <2>4, <2>7, <2>9, <2>11, <3>1 DEF Js!Record, Js!AfterRun, Js!AfterBlock, nB
    <3> QED BY <2>9, <3>1, <3>2
  <2>13. Js!Records(leaf)[t] = [offset |-> offset', blockId |-> block_id',
                                list |-> results', threw |-> FALSE]
    BY <1>1, <2>10, <2>12
  <2>14. t \in 0 .. Size /\ t <= offset'
    <3>1. at < offset /\ NumBytes(k * BitsPerLabel) \in Nat
      <4>1. k * BitsPerLabel \in Nat
        BY <1>2, BitsPerLabelType, ProductType
      <4> QED BY <2>3, <4>1, NumBytesType DEF JsStarted, Started
    <3> QED BY <1>1, <1>2, <2>10, <3>1
  <2>15. leaf' = leaf /\ Size' = Size
    BY <1>1 DEF Size
  <2> QED BY <2>13, <2>14, <2>15 DEF JsAt
<1> QED BY <1>1, <1>3, <1>6 DEF JsInv

-----------------------------------------------------------------------------
(* The JavaScript decoder makes the list of the Python decoder             *)

\* Every step keeps the JavaScript decoder in step.
LEMMA JsNext ==
    ASSUME PascalsRule, leaf \in Leaves, IInv, JsInv, [Next]_vars
    PROVE  JsInv'
<1>1. CASE Return
  BY <1>1, JsReturn
<1>2. CASE UnknownRecord
  BY <1>2, JsFail DEF UnknownRecord
<1>3. CASE EmptyRun
  BY <1>3, JsEmptyRun
<1>4. CASE BlockHeader
  BY <1>4, JsBlockHeader
<1>5. CASE DeltaGap
  BY <1>5, JsDeltaGap
<1>6. CASE EnumRank
  BY <1>6, JsEnumRank
<1>7. CASE Unrank
  BY <1>7, JsUnrank
<1>8. CASE BitmapBit
  BY <1>8, JsBitmapBit
<1>9. CASE IndicesRead
  BY <1>9, JsIndicesRead
<1>10. CASE Label
  BY <1>10, JsOneLabel
<1>11. CASE BlockRead
  BY <1>11, JsBlockRead
<1>12. CASE UNCHANGED vars
  <2>1. UNCHANGED <<leaf, pc, offset, block_id, results, n_b, encoding, k,
                    indices, labels, rank, bit>>
    BY <1>12 DEF vars, block
  <2>2. /\ Size' = Size /\ (Legal' <=> Legal) /\ (Fits' <=> Fits) /\ (InBlock' <=> InBlock)
        /\ BlockPositions' = BlockPositions /\ (MoreRecords' <=> MoreRecords)
        /\ \A at : JsAt(at)' <=> JsAt(at)
        /\ \A from : JsProgress(from)' <=> JsProgress(from)
    BY <2>1 DEF Size, Legal, LegalEntries, PositionsIn, BlockSize, Fits, InBlock, BlockPositions,
                MoreRecords, JsAt, JsProgress, JsIndices, Upper
  <2>3. LabelsRead' <=> LabelsRead
    BY <2>1 DEF LabelsRead, BitsPerLabel, NumRemaining, Conditional, BitsPresent, ExtractBits,
                Window, Byte, Size, LabelOf, Remaining, Excludes, AllClasses, LowestClass,
                HighestClass, IsLegacy, NClasses
  <2>4. \A at : JsStarted(at)' <=> JsStarted(at)
    BY <2>1, <2>2 DEF JsStarted, Started, Byte
  <2>5. JsReads => JsReads'
    <3>1. ASSUME NEW at \in 0 .. Size - 1, JsStarted(at),
                 JsProgress(Uvarint(leaf.stream, at + 1).next)
          PROVE  JsReads'
      <4>1. JsStarted(at)'
        BY <2>4, <3>1
      <4>2. PICK from : from = Uvarint(leaf.stream, at + 1).next
        OBVIOUS
      <4>3. JsProgress(from)'
        BY <2>2, <3>1, <4>2
      <4>4. from = Uvarint(leaf'.stream, at + 1).next
        BY <2>1, <4>2
      <4>5. JsProgress(Uvarint(leaf.stream, at + 1).next)'
        BY <4>3, <4>4
      <4> QED BY <2>2, <4>1, <4>5 DEF JsReads
    <3> QED BY <3>1 DEF JsReads
  <2> QED BY <2>1, <2>2, <2>3, <2>5 DEF JsInv
<1> QED
  BY <1>1, <1>2, <1>3, <1>4, <1>5, <1>6, <1>7, <1>8, <1>9, <1>10, <1>11, <1>12
  DEF Next, Step, Terminating

\* Once it has ended, more turns of the JavaScript loop change nothing.
LEMMA JsEnds ==
    ASSUME leaf \in Leaves, NEW t \in 0 .. Size, Js!Ended(leaf, Js!Records(leaf)[t])
    PROVE  Js!Records(leaf)[Size] = Js!Records(leaf)[t]
<1> DEFINE f == Js!Records(leaf)
           X == {m \in Nat : m <= Size - t => f[t + m] = f[t]}
           c == Size - t
<1>1. Size \in Nat /\ Len(leaf.stream) = Size /\ t \in Nat /\ c \in Nat /\ t + c = Size
  BY SizeType DEF Size
<1>2. \A i \in 1 .. Size : f[i] = Js!Turn(leaf, f[i - 1])
  BY <1>1, JsRecordsLoop
<1>3. Js!Turn(leaf, f[t]) = f[t]
  BY DEF Js!Turn
<1> HIDE DEF f
<1>4. 0 \in X
  BY <1>1
<1>5. ASSUME NEW m \in Nat, m < c, m \in X PROVE m + 1 \in X
  <2>1. t + (m + 1) \in 1 .. Size /\ (t + (m + 1)) - 1 = t + m /\ m <= Size - t
    BY <1>1, <1>5
  <2>2. f[t + (m + 1)] = Js!Turn(leaf, f[(t + (m + 1)) - 1])
    BY <1>2, <2>1
  <2>3. f[t + m] = f[t]
    BY <1>5, <2>1
  <2> QED BY <1>3, <2>1, <2>2, <2>3
<1>6. c \in X
  <2> HIDE DEF X, c
  <2> QED BY <1>1, <1>4, <1>5, SetInduction
<1> QED BY <1>1, <1>6 DEF f

\* At the end the two lists are the same.
LEMMA JsDone ==
    ASSUME leaf \in Leaves, IInv, JsInv, pc = "done", Legal
    PROVE  Js!decodeRecordStream(leaf) = results
<1>1. Size \in Nat /\ Len(leaf.stream) = Size /\ offset \in Nat /\ block_id \in Nat
      /\ leaf.num_blocks \in Nat
  BY SizeType, LeafAssumption DEF Size, IInv, TypeOK
<1> DEFINE last == [offset |-> offset, blockId |-> block_id, list |-> results, threw |-> FALSE]
<1>2. PICK t \in 0 .. Size : Js!Records(leaf)[t] = last
  BY DEF JsInv, JsAt
<1>3. last.offset = offset /\ last.blockId = block_id /\ last.list = results /\ ~last.threw
  OBVIOUS
<1> HIDE DEF last
<1>4. Js!Ended(leaf, last)
  <2>1. block_id >= leaf.num_blocks \/ offset >= Size
    BY <1>1 DEF JsInv, MoreRecords
  <2> QED BY <1>1, <1>3, <2>1 DEF Js!Ended
<1>5. Js!Records(leaf)[Size] = last
  BY <1>2, <1>4, JsEnds
<1>6. Js!Records(leaf)[Len(leaf.stream)] = last
  BY <1>1, <1>5
<1> QED BY <1>3, <1>4, <1>6 DEF Js!decodeRecordStream, Js!Outcome

\* The JavaScript decoder makes the list that Python makes, of whatever bytes.
THEOREM JavaScriptKeepsStep ==
    ASSUME PascalsRule
    PROVE  Spec => []JsInv
<1>1. Init => leaf \in Leaves /\ IInv /\ JsInv
  BY InitInv, JsInit
<1>2. leaf \in Leaves /\ IInv /\ JsInv /\ [Next]_vars => (leaf \in Leaves /\ IInv /\ JsInv)'
  BY NextInv, JsNext
<1> QED BY <1>1, <1>2, PTL DEF Spec

\* Where Python returns a legal list, JavaScript returns the same
\* (decodeRecordStream of js/src/codec.js).
THEOREM JavaScriptAgrees ==
    ASSUME PascalsRule
    PROVE  Spec => []JsAgrees
<1>1. Init => leaf \in Leaves /\ IInv
  BY InitInv
<1>2. leaf \in Leaves /\ IInv /\ [Next]_vars => (leaf \in Leaves /\ IInv)'
  BY NextInv
<1>3. leaf \in Leaves /\ IInv /\ JsInv => JsAgrees
  BY JsDone DEF JsAgrees
<1> QED BY <1>1, <1>2, <1>3, JavaScriptKeepsStep, PTL DEF Spec

-----------------------------------------------------------------------------
(* Leaves that are written *)

\* Blocks that were written have one label for each index, in the block.
LEMMA WrittenEntries ==
    ASSUME IInv, leaf \in Leaves, IsWritten(leaf), ReadInv, LegalEntries, [Next]_vars
    PROVE  LegalEntries'
<1> DEFINE Fine(e) ==
               e.data # None =>
                   /\ Len(e.data.labels) = Len(e.data.indices)
                   /\ \A p \in 1 .. Len(e.data.indices) :
                          e.data.indices[p] \in 0 .. PositionsIn(e.bid) - 1
<1>0. results \in Seq(BlockEntry) /\ block_id \in Nat
  BY DEF IInv, TypeOK
<1>1. CASE UNCHANGED <<leaf, results>>
  BY <1>1 DEF LegalEntries, PositionsIn, BlockSize
<1>2. ASSUME leaf' = leaf, \A i \in 1 .. Len(results') : Fine(results'[i]) PROVE LegalEntries'
  <2>1. \A bid : PositionsIn(bid)' = PositionsIn(bid)
    BY <1>2 DEF PositionsIn, BlockSize
  <2> QED BY <1>2, <2>1 DEF LegalEntries
<1>3. \A i \in 1 .. Len(results) : Fine(results[i])
  BY DEF LegalEntries
<1>4. CASE EmptyRun
  <2>1. CASE Uvarint(leaf.stream, offset + 1) = None
    BY <1>1, <1>4, <2>1 DEF EmptyRun, Fail
  <2>2. CASE Uvarint(leaf.stream, offset + 1) # None
    <3>1. PICK n : n = Uvarint(leaf.stream, offset + 1).value
      OBVIOUS
    <3> DEFINE t == EmptyEntries(n)
    <3>2. results' = results \o t /\ leaf' = leaf
      BY <1>4, <2>2, <3>1 DEF EmptyRun
    <3>3. n \in Nat
      <4>1. offset + 1 \in 0 .. Len(leaf.stream)
        BY <1>4, SizeType DEF EmptyRun, AtRecord, MoreRecords, IInv, TypeOK, Size
      <4> QED BY <2>2, <3>1, <4>1, UvarintAssumption
    <3>4. t \in Seq(BlockEntry) /\ Len(t) = n /\ \A i \in 1 .. n : t[i].data = None
      <4>1. t \in [1 .. n -> BlockEntry] /\ \A i \in 1 .. n : t[i].data = None
        BY <1>0, <3>3 DEF EmptyEntries, BlockEntry
      <4> HIDE DEF t
      <4> QED BY <3>3, <4>1, FunctionIsSeq
    <3>5. \A i \in 1 .. Len(t) : Fine(t[i])
      BY <3>4
    <3> HIDE DEF t, Fine
    <3>6. /\ Len(results \o t) = Len(results) + Len(t)
          /\ \A i \in 1 .. Len(results) : (results \o t)[i] = results[i]
          /\ \A i \in (Len(results) + 1) .. (Len(results) + Len(t)) :
                 (results \o t)[i] = t[i - Len(results)]
      BY <1>0, <3>4, ConcatFacts
    <3>7. ASSUME NEW i \in 1 .. Len(results') PROVE Fine(results'[i])
      <4>1. Len(results) \in Nat /\ Len(t) \in Nat
        BY <1>0, <3>3, <3>4
      <4>2. CASE i \in 1 .. Len(results)
        BY <1>3, <3>2, <3>6, <4>2
      <4>3. CASE i \notin 1 .. Len(results)
        <5>1. /\ i \in (Len(results) + 1) .. (Len(results) + Len(t))
              /\ i - Len(results) \in 1 .. Len(t)
          BY <3>2, <3>6, <4>1, <4>3
        <5> QED BY <3>2, <3>5, <3>6, <5>1
      <4> QED BY <4>2, <4>3
    <3> QED BY <1>2, <3>2, <3>7
  <2> QED BY <2>1, <2>2
<1>5. CASE BlockRead
  <2> DEFINE data == [indices |-> indices, labels |-> labels]
             entry == [bid |-> block_id, data |-> data]
  <2>1. /\ pc = "labels" /\ Len(labels) = k /\ TheBlock /\ Progress
        /\ results' = Append(results, entry) /\ leaf' = leaf
    BY <1>5 DEF BlockRead, ReadInv, InBlock
  <2>2. /\ indices = Written.indices /\ k = Len(indices) /\ n_b \in Nat
        /\ \A i \in 1 .. k : indices[i] \in 0 .. n_b - 1
    BY <2>1, BlockFacts DEF Progress
  <2>3. PositionsIn(block_id) = n_b
    <3>1. n_b = PositionsOf(leaf, block_id + 1) /\ leaf.num_blocks = Len(leaf.blocks)
          /\ Len(leaf.blocks) \in Nat
      BY <2>1, BlocksOfLeaf DEF TheBlock
    <3>2. (block_id + 1) - 1 = block_id
          /\ (block_id + 1 < Len(leaf.blocks) <=> block_id < leaf.num_blocks - 1)
      BY <1>0, <3>1
    <3> QED BY <3>1, <3>2 DEF PositionsOf, PositionsIn, BlockSize
  <2>4. Fine(entry)
    <3>1. entry.bid = block_id /\ entry.data = data /\ data.labels = labels
          /\ data.indices = indices
      OBVIOUS
    <3> HIDE DEF entry, data
    <3> QED BY <2>1, <2>2, <2>3, <3>1
  <2> HIDE DEF entry, Fine
  <2>5. /\ Len(Append(results, entry)) = Len(results) + 1
        /\ Append(results, entry)[Len(results) + 1] = entry
        /\ \A i \in 1 .. Len(results) : Append(results, entry)[i] = results[i]
    BY <1>0
  <2>6. ASSUME NEW i \in 1 .. Len(results') PROVE Fine(results'[i])
    <3>1. i \in 1 .. Len(results) \/ i = Len(results) + 1
      BY <1>0, <2>1, <2>5
    <3> QED BY <1>3, <2>1, <2>4, <2>5, <3>1
  <2> QED BY <1>2, <2>1, <2>6
<1>6. Fail => UNCHANGED <<leaf, results>>
  BY DEF Fail
<1>7. [Next]_vars => EmptyRun \/ BlockRead \/ UNCHANGED <<leaf, results>>
  BY <1>6 DEF Next, Step, Terminating, vars, block, Return, UnknownRecord, BlockHeader, DeltaGap,
              EnumRank, Unrank, BitmapBit, IndicesRead, Label
<1> QED BY <1>1, <1>4, <1>5, <1>7

\* The JavaScript decoder reads whatever an encoder wrote.
THEOREM JavaScriptReadsWritten ==
    ASSUME PascalsRule, LeavesAreWritten
    PROVE  Spec => []JsReadsWritten
<1> DEFINE Inv == leaf \in Leaves /\ IInv /\ ReadInv /\ LegalEntries
<1>1. Init => Inv
  <2> SUFFICES ASSUME Init PROVE Inv
    OBVIOUS
  <2>1. leaf \in Leaves /\ IInv
    BY InitInv
  <2>2. ReadInv
    BY <2>1, InitReads DEF LeavesAreWritten
  <2>3. LegalEntries
    BY DEF LegalEntries, Init
  <2> QED BY <2>1, <2>2, <2>3
<1>2. Inv /\ [Next]_vars => Inv'
  <2> SUFFICES ASSUME Inv, [Next]_vars PROVE Inv'
    OBVIOUS
  <2>1. IsWritten(leaf)
    BY DEF LeavesAreWritten
  <2>2. (leaf \in Leaves /\ IInv)'
    BY NextInv
  <2>3. ReadInv' /\ LegalEntries'
    BY <2>1, NextReads, WrittenEntries
  <2> QED BY <2>2, <2>3
<1>3. Inv /\ JsInv => JsReadsWritten
  <2> SUFFICES ASSUME Inv, JsInv, pc = "done" PROVE Js!decodeRecordStream(leaf) = results
    BY DEF JsReadsWritten
  <2>1. Len(results) = block_id /\ block_id = Len(leaf.blocks)
    BY DEF IInv, ListInv, BlocksInOrder, ReadInv
  <2>2. leaf.num_blocks = Len(leaf.blocks)
    BY BlocksOfLeaf DEF LeavesAreWritten
  <2>3. Legal
    BY <2>1, <2>2, PortsFit DEF Legal
  <2> QED BY <2>3, JsDone
<1>4. Spec => []JsInv
  BY JavaScriptKeepsStep
<1> QED BY <1>1, <1>2, <1>3, <1>4, PTL DEF Spec

-----------------------------------------------------------------------------
(* The functions of the Rust port                                          *)

\* binom of the Rust port
LEMMA RsProductsLoop ==
    ASSUME NEW n, NEW c \in Nat
    PROVE  LET f == Rs!Products(n, c)
           IN  /\ f[0] = 1
               /\ \A i \in 1 .. c : f[i] = Rs!U128(f[i - 1] * (n - (i - 1))) \div i
<1> DEFINE A == 1
           S == {m \in Nat : \E f : f = [i \in 0 .. m |->
                    IF i = 0 THEN A ELSE Rs!U128(f[i - 1] * (n - (i - 1))) \div i]}
           g == CHOOSE f : f = [i \in 0 .. c |->
                    IF i = 0 THEN A ELSE Rs!U128(f[i - 1] * (n - (i - 1))) \div i]
<1>0. c \in Nat
  OBVIOUS
<1> HIDE DEF A
<1>1. 0 \in S
  <2> DEFINE h == [i \in 0 .. 0 |-> A]
  <2>1. h = [i \in 0 .. 0 |-> IF i = 0 THEN A ELSE Rs!U128(h[i - 1] * (n - (i - 1))) \div i]
    OBVIOUS
  <2> QED BY <2>1
<1>2. ASSUME NEW m \in Nat, m \in S PROVE m + 1 \in S
  <2>1. PICK f : f = [i \in 0 .. m |->
                    IF i = 0 THEN A ELSE Rs!U128(f[i - 1] * (n - (i - 1))) \div i]
    BY <1>2
  <2> DEFINE h == [i \in 0 .. m + 1 |->
                    IF i <= m THEN f[i] ELSE Rs!U128(f[m] * (n - (i - 1))) \div i]
  <2>2. h = [i \in 0 .. m + 1 |->
                    IF i = 0 THEN A ELSE Rs!U128(h[i - 1] * (n - (i - 1))) \div i]
    BY <2>1
  <2> HIDE DEF h
  <2> QED BY <2>2
<1>3. c \in S
  <2> HIDE DEF S
  <2> QED BY <1>0, <1>1, <1>2, SetInduction
<1>4. g = [i \in 0 .. c |-> IF i = 0 THEN A ELSE Rs!U128(g[i - 1] * (n - (i - 1))) \div i]
  BY <1>3
<1>5. Rs!Products(n, c) = g
  BY DEF Rs!Products, A
<1> HIDE DEF g
<1>6. g[0] = A /\ \A i \in 1 .. c : g[i] = Rs!U128(g[i - 1] * (n - (i - 1))) \div i
  BY <1>0, <1>4
<1> QED BY <1>5, <1>6 DEF A

\* Its search
LEMMA RsHalvingsLoop ==
    ASSUME NEW target, NEW j, NEW lo, NEW hi
    PROVE  LET f == Rs!Halvings(target, j, lo, hi)
           IN  /\ f[0] = [lo |-> lo, hi |-> hi, result |-> Rs!U64(lo - 1)]
               /\ \A i \in 1 .. 2 * IntBits : f[i] = Rs!Halve(target, j, f[i - 1])
<1> DEFINE A == [lo |-> lo, hi |-> hi, result |-> Rs!U64(lo - 1)]
           S == {m \in Nat : \E f : f = [i \in 0 .. m |->
                    IF i = 0 THEN A ELSE Rs!Halve(target, j, f[i - 1])]}
           g == CHOOSE f : f = [i \in 0 .. 2 * IntBits |->
                    IF i = 0 THEN A ELSE Rs!Halve(target, j, f[i - 1])]
<1>0. 2 * IntBits \in Nat
  BY PortsFit
<1> HIDE DEF A
<1>1. 0 \in S
  <2> DEFINE h == [i \in 0 .. 0 |-> A]
  <2>1. h = [i \in 0 .. 0 |-> IF i = 0 THEN A ELSE Rs!Halve(target, j, h[i - 1])]
    OBVIOUS
  <2> QED BY <2>1
<1>2. ASSUME NEW m \in Nat, m \in S PROVE m + 1 \in S
  <2>1. PICK f : f = [i \in 0 .. m |->
                    IF i = 0 THEN A ELSE Rs!Halve(target, j, f[i - 1])]
    BY <1>2
  <2> DEFINE h == [i \in 0 .. m + 1 |->
                    IF i <= m THEN f[i] ELSE Rs!Halve(target, j, f[m])]
  <2>2. h = [i \in 0 .. m + 1 |->
                    IF i = 0 THEN A ELSE Rs!Halve(target, j, h[i - 1])]
    BY <2>1
  <2> HIDE DEF h
  <2> QED BY <2>2
<1>3. 2 * IntBits \in S
  <2> HIDE DEF S
  <2> QED BY <1>0, <1>1, <1>2, SetInduction
<1>4. g = [i \in 0 .. 2 * IntBits |-> IF i = 0 THEN A ELSE Rs!Halve(target, j, g[i - 1])]
  BY <1>3
<1>5. Rs!Halvings(target, j, lo, hi) = g
  BY DEF Rs!Halvings, A
<1> HIDE DEF g
<1>6. g[0] = A /\ \A i \in 1 .. 2 * IntBits : g[i] = Rs!Halve(target, j, g[i - 1])
  BY <1>0, <1>4
<1> QED BY <1>5, <1>6 DEF A

\* unrank_subset
LEMMA RsUnrankingsLoop ==
    ASSUME NEW r, NEW n, NEW c \in Nat
    PROVE  LET f == Rs!Unrankings(r, n, c)
           IN  /\ f[0] = [rank |-> r, upper |-> Rs!U64(n - 1), indices |-> <<>>]
               /\ \A i \in 1 .. c : f[i] = Rs!Unrank(c - (i - 1), f[i - 1])
<1> DEFINE A == [rank |-> r, upper |-> Rs!U64(n - 1), indices |-> <<>>]
           S == {m \in Nat : \E f : f = [i \in 0 .. m |->
                    IF i = 0 THEN A ELSE Rs!Unrank(c - (i - 1), f[i - 1])]}
           g == CHOOSE f : f = [i \in 0 .. c |->
                    IF i = 0 THEN A ELSE Rs!Unrank(c - (i - 1), f[i - 1])]
<1>0. c \in Nat
  OBVIOUS
<1> HIDE DEF A
<1>1. 0 \in S
  <2> DEFINE h == [i \in 0 .. 0 |-> A]
  <2>1. h = [i \in 0 .. 0 |-> IF i = 0 THEN A ELSE Rs!Unrank(c - (i - 1), h[i - 1])]
    OBVIOUS
  <2> QED BY <2>1
<1>2. ASSUME NEW m \in Nat, m \in S PROVE m + 1 \in S
  <2>1. PICK f : f = [i \in 0 .. m |->
                    IF i = 0 THEN A ELSE Rs!Unrank(c - (i - 1), f[i - 1])]
    BY <1>2
  <2> DEFINE h == [i \in 0 .. m + 1 |->
                    IF i <= m THEN f[i] ELSE Rs!Unrank(c - (i - 1), f[m])]
  <2>2. h = [i \in 0 .. m + 1 |->
                    IF i = 0 THEN A ELSE Rs!Unrank(c - (i - 1), h[i - 1])]
    BY <2>1
  <2> HIDE DEF h
  <2> QED BY <2>2
<1>3. c \in S
  <2> HIDE DEF S
  <2> QED BY <1>0, <1>1, <1>2, SetInduction
<1>4. g = [i \in 0 .. c |-> IF i = 0 THEN A ELSE Rs!Unrank(c - (i - 1), g[i - 1])]
  BY <1>3
<1>5. Rs!Unrankings(r, n, c) = g
  BY DEF Rs!Unrankings, A
<1> HIDE DEF g
<1>6. g[0] = A /\ \A i \in 1 .. c : g[i] = Rs!Unrank(c - (i - 1), g[i - 1])
  BY <1>0, <1>4
<1> QED BY <1>5, <1>6 DEF A

\* decode_delta_gaps
LEMMA RsGapsLoop ==
    ASSUME NEW data, NEW n \in Nat, NEW from
    PROVE  LET f == Rs!GapsRead(data, n, from)
           IN  /\ f[0] = [indices |-> <<>>, next |-> from]
               /\ \A i \in 1 .. n : f[i] = Rs!ReadGap(data, i, f[i - 1])
<1> DEFINE A == [indices |-> <<>>, next |-> from]
           S == {m \in Nat : \E f : f = [i \in 0 .. m |->
                    IF i = 0 THEN A ELSE Rs!ReadGap(data, i, f[i - 1])]}
           g == CHOOSE f : f = [i \in 0 .. n |->
                    IF i = 0 THEN A ELSE Rs!ReadGap(data, i, f[i - 1])]
<1>0. n \in Nat
  OBVIOUS
<1> HIDE DEF A
<1>1. 0 \in S
  <2> DEFINE h == [i \in 0 .. 0 |-> A]
  <2>1. h = [i \in 0 .. 0 |-> IF i = 0 THEN A ELSE Rs!ReadGap(data, i, h[i - 1])]
    OBVIOUS
  <2> QED BY <2>1
<1>2. ASSUME NEW m \in Nat, m \in S PROVE m + 1 \in S
  <2>1. PICK f : f = [i \in 0 .. m |->
                    IF i = 0 THEN A ELSE Rs!ReadGap(data, i, f[i - 1])]
    BY <1>2
  <2> DEFINE h == [i \in 0 .. m + 1 |->
                    IF i <= m THEN f[i] ELSE Rs!ReadGap(data, i, f[m])]
  <2>2. h = [i \in 0 .. m + 1 |->
                    IF i = 0 THEN A ELSE Rs!ReadGap(data, i, h[i - 1])]
    BY <2>1
  <2> HIDE DEF h
  <2> QED BY <2>2
<1>3. n \in S
  <2> HIDE DEF S
  <2> QED BY <1>0, <1>1, <1>2, SetInduction
<1>4. g = [i \in 0 .. n |-> IF i = 0 THEN A ELSE Rs!ReadGap(data, i, g[i - 1])]
  BY <1>3
<1>5. Rs!GapsRead(data, n, from) = g
  BY DEF Rs!GapsRead, A
<1> HIDE DEF g
<1>6. g[0] = A /\ \A i \in 1 .. n : g[i] = Rs!ReadGap(data, i, g[i - 1])
  BY <1>0, <1>4
<1> QED BY <1>5, <1>6 DEF A

\* decode_record_stream
LEMMA RsRecordsLoop ==
    ASSUME NEW l, Len(l.stream) \in Nat
    PROVE  LET f == Rs!Records(l)
           IN  /\ f[0] = [offset |-> 0, block_id |-> 0, list |-> <<>>, panicked |-> FALSE]
               /\ \A i \in 1 .. Len(l.stream) : f[i] = Rs!Turn(l, f[i - 1])
<1> DEFINE A == [offset |-> 0, block_id |-> 0, list |-> <<>>, panicked |-> FALSE]
           S == {m \in Nat : \E f : f = [i \in 0 .. m |->
                    IF i = 0 THEN A ELSE Rs!Turn(l, f[i - 1])]}
           g == CHOOSE f : f = [i \in 0 .. Len(l.stream) |->
                    IF i = 0 THEN A ELSE Rs!Turn(l, f[i - 1])]
<1>0. Len(l.stream) \in Nat
  OBVIOUS
<1> HIDE DEF A
<1>1. 0 \in S
  <2> DEFINE h == [i \in 0 .. 0 |-> A]
  <2>1. h = [i \in 0 .. 0 |-> IF i = 0 THEN A ELSE Rs!Turn(l, h[i - 1])]
    OBVIOUS
  <2> QED BY <2>1
<1>2. ASSUME NEW m \in Nat, m \in S PROVE m + 1 \in S
  <2>1. PICK f : f = [i \in 0 .. m |->
                    IF i = 0 THEN A ELSE Rs!Turn(l, f[i - 1])]
    BY <1>2
  <2> DEFINE h == [i \in 0 .. m + 1 |->
                    IF i <= m THEN f[i] ELSE Rs!Turn(l, f[m])]
  <2>2. h = [i \in 0 .. m + 1 |->
                    IF i = 0 THEN A ELSE Rs!Turn(l, h[i - 1])]
    BY <2>1
  <2> HIDE DEF h
  <2> QED BY <2>2
<1>3. Len(l.stream) \in S
  <2> HIDE DEF S
  <2> QED BY <1>0, <1>1, <1>2, SetInduction
<1>4. g = [i \in 0 .. Len(l.stream) |-> IF i = 0 THEN A ELSE Rs!Turn(l, g[i - 1])]
  BY <1>3
<1>5. Rs!Records(l) = g
  BY DEF Rs!Records, A
<1> HIDE DEF g
<1>6. g[0] = A /\ \A i \in 1 .. Len(l.stream) : g[i] = Rs!Turn(l, g[i - 1])
  BY <1>0, <1>4
<1> QED BY <1>5, <1>6 DEF A

\* Below the sign bit an integer is the number itself, at either width.
LEMMA RsInteger ==
    ASSUME NEW v \in Nat, v < 2 ^ (IntBits - 1)
    PROVE  Rs!U32(v) = v /\ Rs!U64(v) = v
<1> DEFINE e == IntBits - 1
           a == 2 ^ IntBits
           b == 2 ^ (2 * IntBits)
<1>1. e \in Nat /\ IntBits \in Nat /\ 2 * IntBits \in Nat /\ e <= IntBits /\ e <= 2 * IntBits
  BY PortsFit
<1>2. a \in Nat \ {0} /\ b \in Nat \ {0} /\ 2 ^ e \in Nat
  BY <1>1, Powers
<1>3. 2 ^ e <= a /\ 2 ^ e <= b
  BY <1>1, PowersAscend
<1>4. v < 2 ^ e
  OBVIOUS
<1>5. Rs!U32(v) = v % a /\ Rs!U64(v) = v % b
  BY DEF Rs!U32, Rs!U64
<1> HIDE DEF a, b, e
<1>6. v < a /\ v < b
  BY <1>2, <1>3, <1>4
<1>7. v % a = v /\ v % b = v
  BY <1>2, <1>6
<1> QED BY <1>5, <1>7

\* Below the width of a rank a rank is the number itself.
LEMMA RsLong ==
    ASSUME NEW v \in Nat, v < 2 ^ RankBits
    PROVE  Rs!U128(v) = v
<1> DEFINE a == 2 ^ RankBits
<1>1. a \in Nat \ {0} /\ v < a
  BY RankBitsAssumption, Powers
<1>2. Rs!U128(v) = v % a
  BY DEF Rs!U128
<1> HIDE DEF a
<1> QED BY <1>1, <1>2

\* What the Rust port has in common with the other one
LEMMA RsIsPort ==
    /\ \A data, o, width : Rs!Varint(data, o, width) = Port!Varint(data, o, width)
    /\ \A data, p : Rs!Byte(data, p) = Port!Byte(data, p)
    /\ \A data, o, n : Rs!SetBits(data, o, n) = Port!SetBits(data, o, n)
    /\ \A data, pos, width : Rs!BitsAt(data, pos, width) = Port!BitsAt(data, pos, width)
    /\ \A m : Rs!CeilLog2(m) = Port!CeilLog2(m)
    /\ \A w : Rs!AtLeastOne(w) = Port!AtLeastOne(w)
    /\ \A r, c : Rs!Nth(r, c) = Port!Nth(r, c)
    /\ \A bits : Rs!NumBytes(bits) = NumBytes(bits)
<1>1. \A data, p : Rs!Byte(data, p) = Port!Byte(data, p)
  BY DEF Rs!Byte, Port!Byte
<1>2. \A v, p : Rs!Bit(v, p) = Port!Bit(v, p)
  BY DEF Rs!Bit, Port!Bit
<1>3. \A v, w, width : Rs!Or(v, w, width) = Port!Or(v, w, width)
  BY DEF Rs!Or, Port!Or, Rs!OrBits, Port!OrBits, Rs!OrBit, Port!OrBit, Rs!Bit, Port!Bit
<1>4. \A data, o, width : Rs!Varint(data, o, width) = Port!Varint(data, o, width)
  BY DEF Rs!Varint, Port!Varint, Rs!LastByte, Port!LastByte, Rs!VarintValue, Port!VarintValue,
         Rs!NextValue, Port!NextValue, Rs!Shl, Port!Shl, Rs!Or, Port!Or, Rs!OrBits, Port!OrBits,
         Rs!OrBit, Port!OrBit, Rs!Bit, Port!Bit, Rs!Byte, Port!Byte
<1>5. \A data, o, n : Rs!SetBits(data, o, n) = Port!SetBits(data, o, n)
  BY DEF Rs!SetBits, Port!SetBits, Rs!OneMoreBit, Port!OneMoreBit, Rs!Bit, Port!Bit, Rs!Byte,
         Port!Byte
<1>6. \A data, pos, width : Rs!BitsAt(data, pos, width) = Port!BitsAt(data, pos, width)
  BY DEF Rs!BitsAt, Port!BitsAt, Rs!Byte, Port!Byte
<1>7. \A m : Rs!CeilLog2(m) = Port!CeilLog2(m)
  BY DEF Rs!CeilLog2, Port!CeilLog2, Rs!Cardinality, Port!Cardinality
<1>8. \A w : Rs!AtLeastOne(w) = Port!AtLeastOne(w)
  BY DEF Rs!AtLeastOne, Port!AtLeastOne
<1>9. \A r, c : Rs!Nth(r, c) = Port!Nth(r, c)
  BY DEF Rs!Nth, Port!Nth, Rs!Cardinality, Port!Cardinality
<1>10. \A bits : Rs!NumBytes(bits) = NumBytes(bits)
  BY DEF Rs!NumBytes, NumBytes
<1> QED BY <1>1, <1>4, <1>5, <1>6, <1>7, <1>8, <1>9, <1>10

\* decode_uvarint reads what leb128 reads, below the sign bit of u32.
LEMMA RsUvarint ==
    ASSUME leaf \in Leaves, NEW o \in 0 .. Size, Uvarint(leaf.stream, o) # None,
           Uvarint(leaf.stream, o).value < 2 ^ (IntBits - 1)
    PROVE  /\ Rs!decode_uvarint(leaf.stream, o).value = Uvarint(leaf.stream, o).value
           /\ Rs!decode_uvarint(leaf.stream, o).next = Uvarint(leaf.stream, o).next
           /\ Rs!U32(Uvarint(leaf.stream, o).value) = Uvarint(leaf.stream, o).value
<1> DEFINE top == IntBits - 1
           width == 2 * IntBits
           read == Port!Varint(leaf.stream, o, width)
<1>1. top \in Nat /\ width \in Nat /\ top < width
  BY PortsFit
<1>2. Uvarint(leaf.stream, o).value < 2 ^ top
  OBVIOUS
<1>3. Rs!decode_uvarint(leaf.stream, o) = read
  BY RsIsPort DEF Rs!decode_uvarint
<1> HIDE DEF top, width
<1>4. read.value = Uvarint(leaf.stream, o).value /\ read.next = Uvarint(leaf.stream, o).next
  BY <1>1, <1>2, VarintAgrees
<1>5. Uvarint(leaf.stream, o).value \in Nat
  BY UvarintType
<1>6. Rs!U32(Uvarint(leaf.stream, o).value) = Uvarint(leaf.stream, o).value
  BY <1>5, RsInteger
<1> QED BY <1>3, <1>4, <1>6

\* binom of the Rust port, as long as u128 holds the products
LEMMA RsBinom ==
    ASSUME PascalsRule, NEW n \in Nat, NEW j \in Nat,
           \A i \in 1 .. j : 2 * i <= n => i * Binom(n, i) < 2 ^ RankBits
    PROVE  Rs!binom(n, j) = Binom(n, j)
<1> DEFINE c == IF j > n - j THEN n - j ELSE j
           f == Rs!Products(n, c)
           X == {i \in Nat : i <= c => f[i] = Binom(n, i)}
<1>1. CASE j > n
  BY <1>1 DEF Rs!binom, Binom
<1>2. CASE j <= n
  <2>1. c \in Nat
    BY <1>2
  <2>2. f[0] = 1 /\ \A i \in 1 .. c : f[i] = Rs!U128(f[i - 1] * (n - (i - 1))) \div i
    BY <2>1, RsProductsLoop
  <2> HIDE DEF f, c
  <2>3. 0 \in X
    BY <2>2 DEF PascalsRule, PascalsRow, Binom
  <2>4. ASSUME NEW i \in Nat, i < c, i \in X PROVE i + 1 \in X
    <3>1. i + 1 \in 1 .. c /\ (i + 1) - 1 = i /\ i + 1 \in Nat \ {0}
      BY <2>1, <2>4
    <3>2. f[i + 1] = Rs!U128(f[(i + 1) - 1] * (n - ((i + 1) - 1))) \div (i + 1)
      BY <2>2, <3>1
    <3>3. f[(i + 1) - 1] = Binom(n, (i + 1) - 1)
      <4>1. f[i] = Binom(n, i)
        BY <2>1, <2>4
      <4> QED BY <3>1, <4>1
    <3>4. Rs!U128(Binom(n, (i + 1) - 1) * (n - ((i + 1) - 1))) \div (i + 1) = Binom(n, i + 1)
      <4> DEFINE d == i + 1
                 x == Binom(n, d - 1) * (n - (d - 1))
      <4>1. d \in Nat \ {0} /\ d \in 1 .. j /\ 2 * d <= n
        BY <1>2, <2>1, <3>1 DEF c
      <4>2. x = d * Binom(n, d) /\ x \div d = Binom(n, d)
        BY <4>1, NextProduct
      <4>3. d * Binom(n, d) < 2 ^ RankBits
        BY <4>1
      <4>4. d \in Nat /\ Binom(n, d) \in Nat
        BY <4>1, BinomNat
      <4> HIDE DEF d
      <4>5. d * Binom(n, d) \in Nat
        BY <4>4, ProductType
      <4>6. Rs!U128(x) = x
        BY <4>2, <4>3, <4>5, RsLong
      <4> QED BY <4>2, <4>6 DEF d
    <3>5. f[i + 1] = Binom(n, i + 1)
      BY <3>2, <3>3, <3>4
    <3> QED BY <3>5
  <2>5. c \in X
    <3> HIDE DEF X
    <3> QED BY <2>1, <2>3, <2>4, SetInduction
  <2>6. Rs!binom(n, j) = f[c]
    BY <1>2 DEF Rs!binom, f, c
  <2>7. Binom(n, c) = Binom(n, j)
    BY <1>2, Symmetry DEF c
  <2> QED BY <2>1, <2>5, <2>6, <2>7
<1> QED BY <1>1, <1>2

-----------------------------------------------------------------------------
(* The search of the Rust port                                             *)

\* The search of the Rust port
LEMMA RsSearch ==
    ASSUME PascalsRule, leaf \in Leaves, NEW target \in Nat, NEW j \in Nat \ {0},
           NEW lo \in Nat, NEW hi \in Nat, lo <= hi, hi <= BlockSize + leaf.n_leaf,
           hi < 2 ^ (IntBits - 2), Binom(lo, j) <= target,
           \A n \in 0 .. hi, i \in 1 .. j : 2 * i <= n => i * Binom(n, i) < 2 ^ RankBits
    PROVE  Rs!find_largest_binom_le(target, j, lo, hi) = FindLargestBinomLe(target, j, lo, hi)
<1> DEFINE F == FindLargestBinomLe(target, j, lo, hi)
           f == Rs!Halvings(target, j, lo, hi)
           Res(l) == IF l = lo THEN Rs!U64(lo - 1) ELSE l - 1
           P(t, l, h) == /\ f[t] = [lo |-> l, hi |-> h, result |-> Res(l)]
                         /\ l - 1 <= F /\ F <= h
                         /\ (h - l + 1) * 2 ^ t <= hi - lo + 1
           X == {t \in Nat : t <= 2 * IntBits => \E l \in lo .. hi + 1, h \in lo - 1 .. hi : P(t, l, h)}
<1>1. IntBits \in Nat /\ IntBits > 8
  BY PortsFit
<1>2. f[0] = [lo |-> lo, hi |-> hi, result |-> Rs!U64(lo - 1)]
      /\ \A t \in 1 .. 2 * IntBits : f[t] = Rs!Halve(target, j, f[t - 1])
  BY RsHalvingsLoop
<1>3. \A mid \in lo .. hi : /\ F \in (lo - 1) .. hi
                            /\ Binom(mid, j) > target => F <= mid - 1
                            /\ Binom(mid, j) <= target => mid <= F
                            /\ Binom(mid, j) \in Nat
  <2>1. \A mid \in lo .. hi : mid \in Nat
    OBVIOUS
  <2> QED BY <2>1, BesideLargest, BinomNat
<1>4. F \in (lo - 1) .. hi
  <2>1. lo \in lo .. hi
    OBVIOUS
  <2> HIDE DEF F
  <2> QED BY <1>3, <2>1
<1> HIDE DEF F, f
<1>5. 0 \in X
  <2>1. 2 ^ 0 = 1 /\ lo \in lo .. hi + 1 /\ hi \in lo - 1 .. hi
    BY Powers
  <2>2. (hi - lo + 1) * 2 ^ 0 <= hi - lo + 1
    BY <2>1
  <2>3. P(0, lo, hi)
    BY <1>2, <1>4, <2>2 DEF Res
  <2> QED BY <2>1, <2>3
<1>6. ASSUME NEW t \in Nat, t < 2 * IntBits, t \in X PROVE t + 1 \in X
  <2>0. t <= 2 * IntBits
    BY <1>1, <1>6
  <2>1. PICK l \in lo .. hi + 1, h \in lo - 1 .. hi : P(t, l, h)
    <3> HIDE DEF P
    <3> QED BY <1>6, <2>0
  <2>2. f[t + 1] = Rs!Halve(target, j, f[t])
    <3>1. t + 1 \in 1 .. 2 * IntBits /\ (t + 1) - 1 = t
      BY <1>1, <1>6
    <3>2. f[t + 1] = Rs!Halve(target, j, f[(t + 1) - 1])
      BY <1>2, <3>1
    <3> QED BY <3>1, <3>2
  <2>3. 2 ^ t \in Nat \ {0} /\ 2 ^ (t + 1) = 2 * 2 ^ t
    BY Powers
  <2>4. \E a \in lo .. hi + 1, b \in lo - 1 .. hi : P(t + 1, a, b)
    <3>1. f[t].lo = l /\ f[t].hi = h /\ f[t] = [lo |-> l, hi |-> h, result |-> Res(l)]
      BY <2>1
    <3>2. CASE l > h
      <4>1. f[t + 1] = f[t]
        BY <2>2, <3>1, <3>2 DEF Rs!Halve
      <4>2. h - l + 1 = 0
        BY <1>4, <2>1, <3>2
      <4>3. (h - l + 1) * 2 ^ (t + 1) <= hi - lo + 1
        BY <2>3, <4>2
      <4>4. P(t + 1, l, h)
        BY <2>1, <3>1, <4>1, <4>3
      <4> QED BY <2>1, <4>4
    <3>3. CASE l <= h
      <4> DEFINE mid == (l + h) \div 2
      <4>1. l \in Nat /\ h \in Nat /\ l + h \in Nat
        BY <3>3
      <4>2. mid \in l .. h /\ 2 * (mid - l) <= h - l + 1 /\ 2 * (h - mid) <= h - l + 1
        BY <3>3, <4>1, HalfOf
      <4>3. l + (h - l) \div 2 = mid
        BY <3>3, <4>1
      <4> HIDE DEF mid
      <4>4. mid \in lo .. hi /\ mid \in Nat
        BY <3>3, <4>1, <4>2
      <4>5. Rs!binom(mid, j) = Binom(mid, j)
        <5>1. \A i \in 1 .. j : 2 * i <= mid => i * Binom(mid, i) < 2 ^ RankBits
          <6>1. mid \in 0 .. hi
            BY <4>4
          <6> QED BY <6>1
        <5>2. j \in Nat
          OBVIOUS
        <5> QED BY <4>4, <5>1, <5>2, RsBinom
      <4>6. ~(l > h)
        BY <3>3
      <4>7. f[t + 1] = IF Binom(mid, j) <= target
                       THEN [f[t] EXCEPT !.lo = mid + 1, !.result = mid]
                       ELSE [f[t] EXCEPT !.hi = mid - 1]
        BY <2>2, <3>1, <4>3, <4>5, <4>6 DEF Rs!Halve
      <4>10. Binom(mid, j) \in Nat
        BY <1>3, <4>4
      <4>8. CASE ~(Binom(mid, j) <= target)
        <5>1. f[t + 1] = [lo |-> l, hi |-> mid - 1, result |-> Res(l)]
          <6>1. f[t + 1] = [f[t] EXCEPT !.hi = mid - 1]
            BY <4>7, <4>8
          <6> QED BY <3>1, <6>1
        <5>2. F <= mid - 1
          BY <1>3, <4>10, <4>4, <4>8
        <5>3. ((mid - 1) - l + 1) * (2 * 2 ^ t) <= hi - lo + 1
          <6>1. /\ (mid - 1) - l + 1 \in Nat /\ h - l + 1 \in Nat
                /\ 2 * ((mid - 1) - l + 1) <= h - l + 1 /\ hi - lo + 1 \in Nat
            BY <3>3, <4>1, <4>2
          <6> QED BY <2>1, <2>3, <6>1, HalfTimes
        <5>4. P(t + 1, l, mid - 1) /\ mid - 1 \in lo - 1 .. hi
          BY <2>1, <2>3, <4>4, <5>1, <5>2, <5>3
        <5> QED BY <5>4
      <4>9. CASE Binom(mid, j) <= target
        <5>1. f[t + 1] = [lo |-> mid + 1, hi |-> h, result |-> mid] /\ Res(mid + 1) = mid
          <6>1. f[t + 1] = [f[t] EXCEPT !.lo = mid + 1, !.result = mid]
            BY <4>7, <4>9
          <6>2. mid + 1 # lo /\ (mid + 1) - 1 = mid
            BY <4>4
          <6> QED BY <3>1, <6>1, <6>2
        <5>2. mid <= F
          BY <1>3, <4>4, <4>9
        <5>3. (h - (mid + 1) + 1) * (2 * 2 ^ t) <= hi - lo + 1
          <6>1. /\ h - (mid + 1) + 1 \in Nat /\ h - l + 1 \in Nat
                /\ 2 * (h - (mid + 1) + 1) <= h - l + 1 /\ hi - lo + 1 \in Nat
            BY <3>3, <4>1, <4>2
          <6> QED BY <2>1, <2>3, <6>1, HalfTimes
        <5>4. (mid + 1) - 1 = mid /\ mid + 1 \in lo .. hi + 1
          BY <4>4
        <5>5. P(t + 1, mid + 1, h)
          BY <2>1, <2>3, <5>1, <5>2, <5>3, <5>4
        <5> QED BY <5>4, <5>5
      <4> QED BY <4>8, <4>9
    <3> QED BY <3>2, <3>3
  <2> QED BY <2>4
<1>7. 2 * IntBits \in X
  <2> HIDE DEF X
  <2> QED BY <1>1, <1>5, <1>6, SetInduction
<1>8. PICK l \in lo .. hi + 1, h \in lo - 1 .. hi : P(2 * IntBits, l, h)
  BY <1>7
<1>9. h - l + 1 = 0
  <2> DEFINE e == IntBits - 2
             c == h - l + 1
  <2>0. IntBits = (e + 1) + 1
    BY <1>1
  <2>1. e \in Nat /\ 2 ^ ((e + 1) + 1) = 2 * 2 ^ (e + 1)
        /\ 2 ^ (e + 1) = 2 * 2 ^ e /\ 2 ^ e \in Nat \ {0}
    BY <1>1, Powers
  <2>2. hi < 2 ^ e
    OBVIOUS
  <2> HIDE DEF e
  <2>3. c \in Nat
    BY <1>4, <1>8
  <2>4. c * 2 ^ (2 * IntBits) <= hi - lo + 1
    BY <1>8
  <2>5. 2 ^ (2 * IntBits) \in Nat /\ 2 ^ (2 * IntBits) >= 4 * 2 ^ e
    <3>1. 2 * IntBits \in Nat /\ IntBits <= 2 * IntBits
      BY <1>1
    <3>2. 2 ^ IntBits <= 2 ^ (2 * IntBits) /\ 2 ^ (2 * IntBits) \in Nat
      BY <1>1, <3>1, PowersAscend, Powers
    <3>3. 2 ^ IntBits = 4 * 2 ^ e
      BY <2>0, <2>1
    <3> QED BY <2>1, <3>2, <3>3
  <2> HIDE DEF c
  <2>6. c # 0 => 2 ^ (2 * IntBits) <= c * 2 ^ (2 * IntBits)
    <3>1. \A x \in Nat \ {0}, y \in Nat : y <= x * y
      OBVIOUS
    <3> DEFINE y == 2 ^ (2 * IntBits)
    <3>2. y \in Nat
      BY <2>5
    <3> HIDE DEF y
    <3>3. c # 0 => y <= c * y
      BY <2>3, <3>1, <3>2
    <3> QED BY <3>3 DEF y
  <2>7. c = 0
    <3> DEFINE x == 2 ^ e
               y == 2 ^ (2 * IntBits)
               z == c * 2 ^ (2 * IntBits)
    <3>1. x \in Nat \ {0} /\ y \in Nat /\ y >= 4 * x /\ hi < x
      BY <2>1, <2>2, <2>5
    <3>2. z <= hi - lo + 1 /\ (c # 0 => y <= z)
      BY <2>4, <2>6
    <3>3. z \in Nat
      BY <2>3, <2>5, ProductType
    <3> HIDE DEF x, y, z
    <3> QED BY <2>3, <3>1, <3>2, <3>3
  <2> QED BY <2>7 DEF c
<1>10. Rs!find_largest_binom_le(target, j, lo, hi) = f[2 * IntBits].result
  BY DEF Rs!find_largest_binom_le, f
<1>11. lo <= F
  <2>1. SUFFICES ASSUME F = lo - 1 PROVE FALSE
    BY <1>4
  <2>2. Binom(lo, j) > target
    <3>1. \A x \in lo .. hi : Binom(x, j) \in Nat
      BY <1>3
    <3>2. j \in Int /\ lo \in Int /\ hi \in Int /\ F < hi
      BY <2>1
    <3>3. Binom(F + 1, j) > target
      BY <3>1, <3>2, FindBounds DEF F
    <3> QED BY <2>1, <3>3
  <2>3. Binom(lo, j) \in Nat
    BY BinomNat
  <2> QED BY <2>2, <2>3
<1>12. f[2 * IntBits].result = l - 1 /\ l - 1 = F
  <2>1. l - 1 = F
    BY <1>4, <1>8, <1>9
  <2>2. l # lo
    BY <1>4, <1>11, <2>1
  <2>3. f[2 * IntBits].result = Res(l)
    BY <1>8
  <2> QED BY <2>1, <2>2, <2>3
<1> QED BY <1>10, <1>12 DEF F

-----------------------------------------------------------------------------
(* Labels in the Rust port                                                 *)

\* A code that tells at most 127 classes apart is no more than seven bits wide.
LEMMA NarrowWidth ==
    \A m \in Int : m <= 128 => BitWidth(m) \in 1 .. 7
<1> SUFFICES ASSUME NEW m \in Int, m <= 128, m > 2 PROVE BitWidth(m) \in 1 .. 7
  BY DEF BitWidth
<1> DEFINE W == {w \in 0 .. 7 : Pow2(w) < m}
<1>1. IsFiniteSet(0 .. 6) /\ Cardinality(0 .. 6) = 7
  <2>1. 0 \in Int /\ 6 \in Int
    OBVIOUS
  <2>2. IsFiniteSet(0 .. 6) /\ Cardinality(0 .. 6) = IF 0 > 6 THEN 0 ELSE 6 - 0 + 1
    BY <2>1, FS_Interval, Zenon
  <2>3. ~(0 > 6) /\ 6 - 0 + 1 = 7
    OBVIOUS
  <2> QED BY <2>2, <2>3, Zenon
<1>2. Pow2(7) = 128
  BY DEF Pow2
<1>3. W \in SUBSET (0 .. 6)
  <2>1. ASSUME NEW w \in W PROVE w \in 0 .. 6
    <3>1. w \in 0 .. 7 /\ w # 7
      BY <1>2
    <3> QED BY <3>1
  <2> QED BY <2>1
<1>4. Cardinality(W) <= 7
  BY <1>1, <1>3, FS_Subset, FS_CardinalityType
<1>5. BitWidth(m) = Cardinality(W) /\ BitWidth(m) \in 1 .. 8
  BY BitWidthType DEF BitWidth
<1> HIDE DEF W
<1> QED BY <1>4, <1>5

\* Then a label takes at most seven bits.
LEMMA NarrowLabels ==
    ASSUME leaf \in Leaves, leaf.n_classes <= 127
    PROVE  BitsPerLabel \in 1 .. 7
<1>1. /\ LowestClass \in Int /\ HighestClass \in Int
      /\ IsLegacy => LowestClass = -1 /\ HighestClass = 1
      /\ ~IsLegacy => LowestClass = 0 /\ HighestClass = NClasses - 1
      /\ NClasses \in 0 .. 255
  BY CorrectionsAre
<1>2. NClasses <= 127
  BY DEF NClasses
<1>3. NumRemaining \in Int /\ NumRemaining <= 128
  BY <1>1, <1>2 DEF NumRemaining
<1> QED BY <1>1, <1>2, <1>3, NarrowWidth DEF BitsPerLabel

\* A class below 128 is an i8.
LEMMA AsI8Is ==
    ASSUME NEW c \in 0 .. 127
    PROVE  Rs!AsI8(c) = c
BY DEF Rs!AsI8

\* A code of up to seven bits is below 128.
LEMMA NarrowCode ==
    ASSUME leaf \in Leaves, NEW pos \in Nat, NEW width \in 1 .. 7, BitsPresent(pos, width)
    PROVE  ExtractBits(pos, width) \in 0 .. 127
<1>1. ExtractBits(pos, width) \in Nat
  <2>1. width \in 1 .. 8
    OBVIOUS
  <2> QED BY <2>1, CodeType
<1>2. Pow2(width) \in Nat \ {0} /\ Pow2(width) <= 128
  BY DEF Pow2
<1> DEFINE x == Window(pos \div 8) \div Pow2(pos % 8)
<1>3. ExtractBits(pos, width) = x % Pow2(width)
  BY DEF ExtractBits
<1>4. x \in Int
  <2>1. Window(pos \div 8) \in Nat
    <3> DEFINE b == pos \div 8
    <3>1. b \in Nat /\ Size \in Nat /\ b <= (pos + width - 1) \div 8
      BY SizeType
    <3>2. b \in 0 .. Size - 1
      BY <3>1 DEF BitsPresent
    <3> HIDE DEF b
    <3>3. Byte(b) \in 0 .. 255
      BY <3>2, ByteType
    <3>4. b + 1 < Size => Byte(b + 1) \in 0 .. 255
      <4>1. b + 1 < Size => b + 1 \in 0 .. Size - 1
        BY <3>1
      <4> QED BY <4>1, ByteType
    <3>5. 256 * Byte(b + 1) \in Nat \/ ~(b + 1 < Size)
      BY <3>4
    <3> QED BY <3>3, <3>5 DEF Window, b
  <2>2. Pow2(pos % 8) \in Nat \ {0}
    <3>1. pos % 8 \in 0 .. 8
      OBVIOUS
    <3> QED BY <3>1, Pow2Type
  <2>3. \A a \in Nat, b \in Nat \ {0} : a \div b \in Int
    OBVIOUS
  <2> QED BY <2>1, <2>2, <2>3
<1> HIDE DEF x
<1>5. x % Pow2(width) \in 0 .. Pow2(width) - 1
  BY <1>2, <1>4
<1> QED BY <1>1, <1>2, <1>3, <1>5

\* Every bit that is looked at stands below the sign bit.
LEMMA RsBitPosition ==
    ASSUME leaf \in Leaves, NEW pos \in Nat, pos <= 8 * Size
    PROVE  /\ Rs!U32(pos) = pos
           /\ Rs!NumBytes(Rs!U32(Rs!U32(pos) + 7) - 7) = NumBytes(pos)
<1>1. pos + 7 < 2 ^ (IntBits - 1)
  BY BitPositionFits
<1>2. 2 ^ (IntBits - 1) \in Nat
  <2>1. IntBits - 1 \in Nat
    BY PortsFit
  <2> QED BY <2>1, Powers
<1>3. pos + 7 \in Nat /\ pos < 2 ^ (IntBits - 1)
  BY <1>1, <1>2
<1>4. Rs!U32(pos) = pos
  BY <1>3, RsInteger
<1>5. Rs!U32(pos + 7) = pos + 7
  BY <1>1, <1>3, RsInteger
<1>6. Rs!U32(Rs!U32(pos) + 7) - 7 = pos
  BY <1>4, <1>5
<1> QED BY <1>4, <1>6, RsIsPort

\* How the Rust port comes from a code to its label
LEMMA RsLabel ==
    ASSUME leaf \in Leaves, NEW code \in 0 .. 127, leaf.n_classes <= 127,
           Conditional => code < NumRemaining
    PROVE  LET is_legacy == leaf.n_classes \in {0, 3}
               all_classes == IF is_legacy THEN -1 .. 1 ELSE 0 .. Rs!AsI8(leaf.n_classes) - 1
               remaining == all_classes \ {leaf.prediction}
           IN  (IF leaf.prediction # None THEN Rs!Nth(remaining, code)
                ELSE IF is_legacy THEN code - 1 ELSE Rs!AsI8(code)) = LabelOf(code)
<1> DEFINE is_legacy == leaf.n_classes \in {0, 3}
           all_classes == IF is_legacy THEN -1 .. 1 ELSE 0 .. Rs!AsI8(leaf.n_classes) - 1
           remaining == all_classes \ {leaf.prediction}
<1>0. leaf.n_classes \in 0 .. 127
  <2>1. leaf.n_classes \in 0 .. 255
    BY LeafAssumption, Zenon
  <2> QED BY <2>1
<1>1. IsLegacy <=> is_legacy
  BY DEF IsLegacy, NClasses
<1>2. remaining = Corrections(leaf)
  <2>1. Rs!AsI8(leaf.n_classes) = leaf.n_classes
    BY <1>0, AsI8Is
  <2> QED BY <2>1 DEF Corrections, Classes
<1>3. Conditional <=> leaf.prediction # None
  BY DEF Conditional
<1> HIDE DEF remaining, is_legacy
<1>4. CASE Conditional
  <2>1. code \in Nat
    OBVIOUS
  <2>2. Rs!Nth(remaining, code) = LabelOf(code)
    BY <1>2, <1>4, <2>1, CorrectionOfCode, RsIsPort
  <2> QED BY <1>3, <1>4, <2>2 DEF remaining, is_legacy
<1>5. CASE ~Conditional
  <2>1. Rs!AsI8(code) = code
    BY AsI8Is
  <2> QED BY <1>1, <1>3, <1>5, <2>1 DEF LabelOf, is_legacy
<1> QED BY <1>4, <1>5

\* The Rust port takes as many bits for a label.
LEMMA RsWidth ==
    ASSUME leaf \in Leaves, leaf.n_classes <= 127
    PROVE  LET is_legacy == leaf.n_classes \in {0, 3}
               all_classes == IF is_legacy THEN -1 .. 1 ELSE 0 .. Rs!AsI8(leaf.n_classes) - 1
               remaining == all_classes \ {leaf.prediction}
           IN  /\ (IF leaf.prediction # None THEN Rs!AtLeastOne(Rs!CeilLog2(Rs!Cardinality(remaining)))
                   ELSE IF is_legacy THEN 2
                   ELSE Rs!AtLeastOne(Rs!CeilLog2(leaf.n_classes))) = BitsPerLabel
               /\ Conditional => Rs!Cardinality(remaining) = NumRemaining
<1> DEFINE is_legacy == leaf.n_classes \in {0, 3}
           all_classes == IF is_legacy THEN -1 .. 1 ELSE 0 .. Rs!AsI8(leaf.n_classes) - 1
           remaining == all_classes \ {leaf.prediction}
<1>0. leaf.n_classes \in 0 .. 127
  <2>1. leaf.n_classes \in 0 .. 255
    BY LeafAssumption, Zenon
  <2> QED BY <2>1
<1>1. IsLegacy <=> is_legacy
  BY DEF IsLegacy, NClasses
<1>2. remaining = Corrections(leaf)
  <2>1. Rs!AsI8(leaf.n_classes) = leaf.n_classes
    BY <1>0, AsI8Is
  <2> QED BY <2>1 DEF Corrections, Classes
<1>3. Conditional <=> leaf.prediction # None
  BY DEF Conditional
<1>4. \A m \in 0 .. 256 : Rs!AtLeastOne(Rs!CeilLog2(m)) = BitWidth(m)
  BY RsIsPort, PortWidth
<1> HIDE DEF remaining, is_legacy
<1>5. CASE Conditional
  <2>1. Rs!Cardinality(remaining) = NumRemaining /\ NumRemaining \in 0 .. 256
    <3>1. Rs!Cardinality(remaining) = Cardinality(remaining)
      BY DEF Rs!Cardinality, Cardinality
    <3> QED BY <1>2, <1>5, <3>1, CorrectionCount
  <2>2. Rs!AtLeastOne(Rs!CeilLog2(Rs!Cardinality(remaining))) = BitWidth(NumRemaining)
    BY <1>4, <2>1
  <2> QED BY <1>3, <1>5, <2>1, <2>2 DEF BitsPerLabel, remaining, is_legacy
<1>6. CASE ~Conditional
  <2>1. NClasses \in 0 .. 256 /\ NClasses = leaf.n_classes
    BY CorrectionsAre DEF NClasses
  <2>2. Rs!AtLeastOne(Rs!CeilLog2(leaf.n_classes)) = BitWidth(NClasses)
    BY <1>4, <2>1
  <2> QED BY <1>1, <1>3, <1>6, <2>2 DEF BitsPerLabel, is_legacy
<1> QED BY <1>5, <1>6

\* decode_labels reads the labels of the block.
LEMMA RsLabels ==
    ASSUME leaf \in Leaves, IInv, LabelsRead, Len(labels) = k, leaf.n_classes <= 127
    PROVE  Rs!decode_labels(leaf.stream, k, offset, leaf.prediction, leaf.n_classes)
               = [labels |-> labels, next |-> offset + NumBytes(k * BitsPerLabel),
                  panics |-> FALSE]
<1> DEFINE is_legacy == leaf.n_classes \in {0, 3}
           all_classes == IF is_legacy THEN -1 .. 1 ELSE 0 .. Rs!AsI8(leaf.n_classes) - 1
           remaining == all_classes \ {leaf.prediction}
           width == IF leaf.prediction # None
                    THEN Rs!AtLeastOne(Rs!CeilLog2(Rs!Cardinality(remaining)))
                    ELSE IF is_legacy THEN 2
                    ELSE Rs!AtLeastOne(Rs!CeilLog2(leaf.n_classes))
           Code(i) == Rs!Extract(leaf.stream,
                                 Rs!U32(Rs!U32(8 * offset) + Rs!U32((i - 1) * width)), width)
           Coded(code) == IF leaf.prediction # None THEN Rs!Nth(remaining, code)
                          ELSE IF is_legacy THEN code - 1 ELSE Rs!AsI8(code)
           TooMany == Rs!Cardinality(remaining)
           past == 8 * offset + k * width > 8 * Len(leaf.stream)
           beyond == (leaf.prediction # None) /\ \E i \in 1 .. k : Code(i) >= TooMany
           all == [i \in 1 .. k |-> Coded(Code(i))]
           bytes == Rs!NumBytes(Rs!U32(Rs!U32(k * width) + 7) - 7)
           w == BitsPerLabel
<1>1. width = w
  BY RsWidth
<1>2. \A code \in 0 .. 127 : (Conditional => code < NumRemaining) => Coded(code) = LabelOf(code)
  BY RsLabel
<1>3. Conditional => TooMany = NumRemaining
  BY RsWidth
<1>4. Rs!decode_labels(leaf.stream, k, offset, leaf.prediction, leaf.n_classes)
          = IF k = 0 THEN [labels |-> <<>>, next |-> offset, panics |-> FALSE]
            ELSE IF past \/ beyond THEN [labels |-> <<>>, next |-> offset, panics |-> TRUE]
            ELSE [labels |-> all, next |-> offset + bytes, panics |-> FALSE]
  BY DEF Rs!decode_labels
<1> HIDE DEF Coded, TooMany
<1>5. k \in Nat /\ labels \in Seq(Int) /\ offset \in Nat /\ w \in 1 .. 7 /\ w \in 1 .. 8 /\ Size \in Nat
  BY BitsPerLabelType, NarrowLabels, SizeType DEF IInv, TypeOK
<1>6. k > 0 => 8 * offset + k * w <= 8 * Size
  BY LabelsEnd
<1>7. ASSUME NEW i \in 1 .. k
      PROVE  LET code == Code(i)
             IN  /\ Conditional => ~(code >= TooMany)
                 /\ Coded(code) = labels[i]
  <2> DEFINE back == (i - 1) * w
             pos == 8 * offset + back
             code == ExtractBits(pos, w)
  <2>1. BitsPresent(pos, w) /\ (Conditional => code < NumRemaining) /\ labels[i] = LabelOf(code)
    BY DEF LabelsRead
  <2>2. i - 1 \in Nat /\ back \in Nat /\ pos \in Nat
    <3>1. i - 1 \in Nat
      BY <1>5
    <3> QED BY <1>5, <3>1, ProductType
  <2>3. back <= k * w
    <3> DEFINE c == i - 1
               d == k - c
    <3>1. c \in Nat /\ d \in Nat /\ k = c + d
      BY <1>5, <2>2
    <3> HIDE DEF c, d
    <3>2. c * w \in Nat /\ d * w \in Nat /\ (c + d) * w = c * w + d * w
      BY <1>5, <3>1, ProductType
    <3> QED BY <3>1, <3>2 DEF c
  <2>4. pos <= 8 * Size /\ 8 * offset <= 8 * Size /\ back <= 8 * Size
    <3>1. k * w \in Nat /\ k > 0
      BY <1>5, ProductType
    <3> DEFINE x == k * w
    <3>2. x \in Nat /\ back <= x /\ 8 * offset + x <= 8 * Size
      BY <1>6, <2>3, <3>1
    <3> HIDE DEF x, back
    <3> QED BY <1>5, <2>2, <3>2
  <2> HIDE DEF back, w
  <2>5. Rs!U32(8 * offset) = 8 * offset /\ Rs!U32(back) = back /\ Rs!U32(pos) = pos
    <3>1. 8 * offset \in Nat
      BY <1>5
    <3> HIDE DEF pos
    <3> QED BY <2>2, <2>4, <3>1, RsBitPosition
  <2>6. Rs!U32(Rs!U32(8 * offset) + Rs!U32(back)) = pos
    BY <2>5
  <2> HIDE DEF pos
  <2>7. Rs!BitsAt(leaf.stream, pos, w) = code
    BY <1>5, <2>1, <2>2, PortBits, RsIsPort
  <2>8. Rs!Extract(leaf.stream, pos, w) = code
    <3>1. w # 8
      BY <1>5
    <3> QED BY <2>7, <3>1 DEF Rs!Extract
  <2>9. Code(i) = code
    BY <1>1, <2>6, <2>8 DEF back
  <2>10. code \in 0 .. 127
    BY <1>5, <2>1, <2>2, NarrowCode
  <2> HIDE DEF code, Code
  <2>11. Coded(code) = LabelOf(code)
    BY <1>2, <2>1, <2>10
  <2>12. Conditional => ~(code >= TooMany)
    <3>1. NumRemaining \in 0 .. 256
      BY CorrectionCount
    <3> QED BY <1>3, <2>1, <2>10, <3>1
  <2> QED BY <2>1, <2>9, <2>11, <2>12
<1> HIDE DEF Code
<1>8. CASE k = 0
  <2>1. labels = <<>> /\ k * w = 0 /\ NumBytes(0) = 0
    BY <1>5, <1>8 DEF NumBytes
  <2>2. Rs!decode_labels(leaf.stream, k, offset, leaf.prediction, leaf.n_classes)
            = [labels |-> <<>>, next |-> offset, panics |-> FALSE]
    BY <1>4, <1>8
  <2>3. offset + NumBytes(k * w) = offset
    BY <1>5, <2>1
  <2>4. offset + NumBytes(k * BitsPerLabel) = offset
    BY <2>3
  <2> DEFINE to == offset + NumBytes(k * BitsPerLabel)
  <2>5. to = offset /\ labels = <<>>
    BY <2>1, <2>4
  <2> HIDE DEF past, beyond, all, bytes, w, to
  <2>6. Rs!decode_labels(leaf.stream, k, offset, leaf.prediction, leaf.n_classes)
            = [labels |-> labels, next |-> to, panics |-> FALSE]
    BY <2>2, <2>5
  <2> QED BY <2>6 DEF to
<1>9. CASE k # 0
  <2>1. k > 0 /\ k * w \in Nat
    BY <1>5, <1>9, ProductType
  <2>2. k * w <= 8 * Size /\ ~(8 * offset + k * w > 8 * Size)
    <3> DEFINE x == k * w
    <3>1. x \in Nat /\ 8 * offset + x <= 8 * Size
      BY <1>6, <2>1
    <3> HIDE DEF x
    <3>2. x <= 8 * Size /\ ~(8 * offset + x > 8 * Size)
      BY <1>5, <3>1
    <3> QED BY <3>2 DEF x
  <2>3. ~past
    <3>1. Len(leaf.stream) = Size
      BY DEF Size
    <3> HIDE DEF width
    <3> QED BY <1>1, <2>2, <3>1
  <2>4. ~beyond
    BY <1>7 DEF Conditional
  <2>5. all = labels
    <3>1. \A i \in 1 .. k : Coded(Code(i)) = labels[i]
      BY <1>7
    <3>2. labels = [i \in 1 .. k |-> labels[i]]
      BY <1>5
    <3> QED BY <3>1, <3>2
  <2>6. bytes = NumBytes(k * w)
    <3> HIDE DEF width, w
    <3> QED BY <1>1, <2>1, <2>2, RsBitPosition
  <2> HIDE DEF past, beyond, all, bytes, w
  <2> QED BY <1>4, <1>9, <2>3, <2>4, <2>5, <2>6 DEF w
<1> QED BY <1>8, <1>9

-----------------------------------------------------------------------------
(* The Rust decoder beside each step *)

\* A panic is one of the leaf's.
LEMMA PanicStays ==
    ASSUME NEW mayPanic, leaf' = leaf, RsPanics(mayPanic)
    PROVE  RsPanics(mayPanic)'
BY DEF RsPanics, Size

\* A step within a block
LEMMA RsStays ==
    ASSUME leaf \in Leaves, NEW mayPanic, RsInv(mayPanic), InBlock, InBlock',
           UNCHANGED <<leaf, block_id, results, n_b, encoding, k>>,
           Fits' => Fits,
           offset \in Nat, offset' \in Nat, offset <= offset',
           \A from \in 0 .. Size :
               Legal /\ Fits /\ Fits' /\ RsProgress(from) => RsProgress(from)'
    PROVE  RsInv(mayPanic)'
<1>1. Size \in Nat /\ Size' = Size /\ (Legal' <=> Legal)
  BY SizeType DEF Size, BlockSize, Legal, LegalEntries, PositionsIn
<1>2. ~(pc \in {"record", "done"})'
  BY DEF InBlock
<1>3. ASSUME Legal', Fits', ~RsPanics(mayPanic)'
      PROVE  RsReads'
  <2>0. ~RsPanics(mayPanic)
    BY <1>3, PanicStays
  <2>1. PICK at \in 0 .. Size - 1 :
            RsStarted(at) /\ RsProgress(Uvarint(leaf.stream, at + 1).next)
    BY <1>1, <1>3, <2>0 DEF RsInv, RsReads
  <2>2. Uvarint(leaf.stream, at + 1).next \in 0 .. Size
    <3>1. at + 1 \in 0 .. Size /\ Uvarint(leaf.stream, at + 1) # None
      BY <1>1, <2>1 DEF RsStarted, Started
    <3>2. Uvarint(leaf.stream, at + 1).next \in (at + 1 + 1) .. Size
      BY <3>1, UvarintType
    <3> QED BY <1>1, <3>2
  <2>3. RsStarted(at)'
    <3>1. at < offset'
      BY <1>1, <2>1 DEF RsStarted, Started
    <3> QED BY <1>1, <2>1, <3>1 DEF RsStarted, Started, RsAt, Byte
  <2>4. RsProgress(Uvarint(leaf.stream, at + 1).next)'
    BY <1>1, <1>3, <2>1, <2>2
  <2> QED BY <1>1, <2>3, <2>4 DEF RsReads
<1> QED BY <1>2, <1>3 DEF RsInv

\* An exception ends the comparison.
LEMMA RsFail ==
    ASSUME NEW mayPanic, Fail
    PROVE  RsInv(mayPanic)'
BY DEF Fail, RsInv, InBlock

\* The call returns.
LEMMA RsReturn ==
    ASSUME NEW mayPanic, RsInv(mayPanic), Return
    PROVE  RsInv(mayPanic)'
<1>1. pc = "record" /\ pc' = "done" /\ UNCHANGED <<leaf, offset, block_id, results, block>>
  BY DEF Return
<1>2. (Legal' <=> Legal) /\ Size' = Size
  BY <1>1 DEF Legal, LegalEntries, PositionsIn, BlockSize, Size
<1>3. RsAt(offset) => RsAt(offset)'
  BY <1>1, <1>2 DEF RsAt
<1>4. RsPanics(mayPanic) => RsPanics(mayPanic)'
  BY <1>1, PanicStays
<1> QED BY <1>1, <1>2, <1>3, <1>4 DEF RsInv, InBlock

\* Nothing is read yet, by either decoder.
LEMMA RsInit ==
    ASSUME NEW mayPanic, Init
    PROVE  RsInv(mayPanic)
<1>1. Size \in Nat /\ leaf \in Leaves /\ Len(leaf.stream) \in Nat
  BY SizeType DEF Init, Size
<1>2. Rs!Records(leaf)[0] = [offset |-> 0, block_id |-> 0, list |-> <<>>, panicked |-> FALSE]
  BY <1>1, RsRecordsLoop
<1>3. RsAt(offset)
  BY <1>1, <1>2 DEF RsAt, Init
<1> QED BY <1>3 DEF RsInv, InBlock, Init

\* One turn of the Rust loop
LEMMA RsTurn ==
    ASSUME leaf \in Leaves, NEW at \in 0 .. Size - 1, RsAt(at), block_id \in Nat,
           block_id < leaf.num_blocks
    PROVE  LET last == [offset |-> at, block_id |-> block_id, list |-> results, panicked |-> FALSE]
           IN  \E t \in 1 .. Size : t - 1 <= at /\ Rs!Records(leaf)[t] = Rs!Record(leaf, last)
<1> DEFINE last == [offset |-> at, block_id |-> block_id, list |-> results, panicked |-> FALSE]
<1>1. Size \in Nat /\ Len(leaf.stream) = Size
  BY SizeType DEF Size
<1>2. PICK t \in 0 .. Size : t <= at /\ Rs!Records(leaf)[t] = last
  BY DEF RsAt
<1>3. t + 1 \in 1 .. Size /\ (t + 1) - 1 = t /\ (t + 1) - 1 <= at
  BY <1>1, <1>2
<1>4. Rs!Records(leaf)[t + 1] = Rs!Turn(leaf, last)
  <2>1. \A i \in 1 .. Size : Rs!Records(leaf)[i] = Rs!Turn(leaf, Rs!Records(leaf)[i - 1])
    BY <1>1, RsRecordsLoop
  <2>2. Rs!Records(leaf)[t + 1] = Rs!Turn(leaf, Rs!Records(leaf)[(t + 1) - 1])
    BY <1>3, <2>1
  <2> QED BY <1>2, <1>3, <2>2
<1>5. leaf.num_blocks \in Nat
  BY LeafAssumption
<1>6. ~Rs!Ended(leaf, last)
  <2>1. last.panicked = FALSE /\ last.block_id = block_id /\ last.offset = at
    OBVIOUS
  <2> HIDE DEF last
  <2>2. ~(block_id >= leaf.num_blocks) /\ ~(at >= Size)
    <3>1. ~(at >= Size)
      BY <1>1
    <3> QED BY <3>1, <1>5
  <2> QED BY <1>1, <2>1, <2>2 DEF Rs!Ended
<1>7. Rs!Turn(leaf, last) = Rs!Record(leaf, last)
  BY <1>6 DEF Rs!Turn
<1> QED BY <1>3, <1>4, <1>7

\* Once it has ended, more turns of the Rust loop change nothing.
LEMMA RsEnds ==
    ASSUME leaf \in Leaves, NEW t \in 0 .. Size, Rs!Ended(leaf, Rs!Records(leaf)[t])
    PROVE  Rs!Records(leaf)[Size] = Rs!Records(leaf)[t]
<1> DEFINE f == Rs!Records(leaf)
           X == {m \in Nat : m <= Size - t => f[t + m] = f[t]}
           c == Size - t
<1>1. Size \in Nat /\ Len(leaf.stream) = Size /\ t \in Nat /\ c \in Nat /\ t + c = Size
  BY SizeType DEF Size
<1>2. \A i \in 1 .. Size : f[i] = Rs!Turn(leaf, f[i - 1])
  BY <1>1, RsRecordsLoop
<1>3. Rs!Turn(leaf, f[t]) = f[t]
  BY DEF Rs!Turn
<1> HIDE DEF f
<1>4. 0 \in X
  BY <1>1
<1>5. ASSUME NEW m \in Nat, m < c, m \in X PROVE m + 1 \in X
  <2>1. t + (m + 1) \in 1 .. Size /\ (t + (m + 1)) - 1 = t + m /\ m <= Size - t
    BY <1>1, <1>5
  <2>2. f[t + (m + 1)] = Rs!Turn(leaf, f[(t + (m + 1)) - 1])
    BY <1>2, <2>1
  <2>3. f[t + m] = f[t]
    BY <1>5, <2>1
  <2> QED BY <1>3, <2>1, <2>2, <2>3
<1>6. c \in X
  <2> HIDE DEF X, c
  <2> QED BY <1>1, <1>4, <1>5, SetInduction
<1> QED BY <1>1, <1>6 DEF f

\* One gap
LEMMA RsDeltaGap ==
    ASSUME leaf \in Leaves, IInv, JsInv, NEW mayPanic, RsInv(mayPanic), DeltaGap
    PROVE  RsInv(mayPanic)'
<1> DEFINE gap == Uvarint(leaf.stream, offset)
           x == IndexAfterGap(gap.value)
<1>1. CASE gap = None
  BY <1>1, RsFail DEF DeltaGap
<1>2. CASE gap # None
  <2>1. /\ pc = "delta" /\ Len(indices) < k
        /\ indices' = Append(indices, x)
        /\ offset' = gap.next
        /\ UNCHANGED <<leaf, pc, block_id, results, n_b, encoding, k, labels,
                       rank, bit>>
    BY <1>2 DEF DeltaGap
  <2>2. /\ offset \in 0 .. Size /\ offset \in Nat
        /\ indices \in Seq(Int) /\ k \in Nat /\ Len(indices) \in Nat
        /\ \A i \in 1 .. Len(indices) : indices[i] \in Int
    BY <2>1, SizeType, ElementType DEF IInv, TypeOK, Control, SubsetInv
  <2>3. gap.value \in Nat
    BY <1>2, <2>2, UvarintType
  <2>4. x \in Int /\ (indices # <<>> => indices[Len(indices)] \in Int)
    BY <2>2, <2>3 DEF IndexAfterGap
  <2>5. /\ Len(indices') = Len(indices) + 1 /\ indices'[Len(indices) + 1] = x
        /\ \A i \in 1 .. Len(indices) : indices'[i] = indices[i]
    BY <2>1, <2>2, <2>4, AppendFacts
  <2>6. InBlock /\ InBlock'
    BY <2>1 DEF InBlock
  <2>8. Fits' => Fits
    <3>1. SUFFICES ASSUME Fits' PROVE Fits
      OBVIOUS
    <3>2. ASSUME NEW i \in 1 .. Len(indices) PROVE indices[i] \in 0 .. n_b - 1
      <4>1. i \in 1 .. Len(indices') /\ indices'[i] = indices[i]
        BY <2>2, <2>5
      <4> QED BY <2>1, <3>1, <4>1 DEF Fits
    <3> QED BY <2>1, <3>1, <3>2 DEF Fits
  <2>9. ASSUME NEW from \in 0 .. Size, Fits, Fits', RsProgress(from)
        PROVE  RsProgress(from)'
    <3> DEFINE t == Len(indices) + 1
               f == Rs!GapsRead(leaf.stream, k, from)
               y == IF t = 1 THEN gap.value ELSE indices[t - 1] + 1 + gap.value
    <3>1. t \in 1 .. k /\ t - 1 = Len(indices)
      BY <2>1, <2>2
    <3>2. f[Len(indices)] = [indices |-> indices, next |-> offset]
      BY <2>1, <2>9 DEF RsProgress
    <3>3. f[t] = Rs!ReadGap(leaf.stream, t, f[t - 1])
      <4>1. \A i \in 1 .. k : f[i] = Rs!ReadGap(leaf.stream, i, f[i - 1])
        <5>1. k \in Nat
          BY <2>2
        <5> HIDE DEF gap, x, y, t
        <5>2. /\ Rs!GapsRead(leaf.stream, k, from)[0] = [indices |-> <<>>, next |-> from]
              /\ \A i \in 1 .. k :
                     Rs!GapsRead(leaf.stream, k, from)[i]
                         = Rs!ReadGap(leaf.stream, i, Rs!GapsRead(leaf.stream, k, from)[i - 1])
          BY <5>1, RsGapsLoop
        <5> QED BY <5>2 DEF f
      <4> QED BY <3>1, <4>1
    <3>4. x = y
      BY <2>2, <3>1 DEF IndexAfterGap
    <3>5. gap.value <= n_b - 1
      <4>1. x \in 0 .. n_b - 1
        <5>1. t \in 1 .. Len(indices')
          BY <2>2, <2>5
        <5> QED BY <2>1, <2>5, <2>9, <5>1 DEF Fits
      <4>2. t # 1 => indices[t - 1] \in 0 .. n_b - 1
        <5>1. t # 1 => t - 1 \in 1 .. Len(indices)
          BY <2>2
        <5> QED BY <2>9, <5>1 DEF Fits
      <4>3. n_b \in Nat
        BY <2>6, PositionsFit
      <4> DEFINE v == gap.value
                 last == indices[t - 1]
      <4>4. v \in Nat /\ x = IF t = 1 THEN v ELSE last + 1 + v
        BY <2>3, <3>4
      <4>5. t # 1 => last \in 0 .. n_b - 1
        BY <4>2
      <4> HIDE DEF v, last, x
      <4>6. v <= n_b - 1
        BY <4>1, <4>3, <4>4, <4>5
      <4> QED BY <4>6 DEF v
    <3>6. gap.value < 2 ^ (IntBits - 1)
      <4>1. /\ n_b \in Nat /\ 2 ^ (IntBits - 1) \in Nat
            /\ \A v \in Nat : v <= n_b => v + 7 < 2 ^ (IntBits - 1)
        BY <2>6, PositionsFit
      <4> HIDE DEF gap
      <4>2. gap.value <= n_b
        BY <2>3, <3>5, <4>1
      <4> QED BY <2>3, <4>1, <4>2
    <3> DEFINE read == Rs!decode_uvarint(leaf.stream, offset)
    <3>7. read.value = gap.value /\ read.next = gap.next /\ Rs!U32(gap.value) = gap.value
      BY <1>2, <2>2, <3>6, RsUvarint
    <3>13. Rs!U32(y) = y
      <4>1. x \in 0 .. n_b - 1
        <5>1. t \in 1 .. Len(indices')
          BY <2>2, <2>5
        <5> QED BY <2>1, <2>5, <2>9, <5>1 DEF Fits
      <4>2. /\ n_b \in Nat /\ 2 ^ (IntBits - 1) \in Nat
            /\ \A v \in Nat : v <= n_b => v + 7 < 2 ^ (IntBits - 1)
        BY <2>6, PositionsFit
      <4> HIDE DEF gap, x
      <4>3. x \in Nat /\ x + 7 < 2 ^ (IntBits - 1) /\ x < 2 ^ (IntBits - 1)
        BY <4>1, <4>2
      <4>4. Rs!U32(x) = x
        BY <4>3, RsInteger
      <4> QED BY <3>4, <4>4
    <3> HIDE DEF gap, x, f
    <3>8. f[t] = [indices |-> Append(indices, y), next |-> gap.next]
      <4> DEFINE last == f[t - 1]
      <4>1. last.indices = indices /\ last.next = offset
        BY <3>1, <3>2
      <4> HIDE DEF last
      <4>2. f[t] = [indices |-> Append(last.indices,
                        IF t = 1 THEN Rs!U32(read.value)
                        ELSE Rs!U32(last.indices[t - 1] + 1 + Rs!U32(read.value))),
                    next |-> read.next]
        BY <3>3, <4>1 DEF Rs!ReadGap, Rs!IndexAfter, last
      <4> HIDE DEF read
      <4>3. (IF t = 1 THEN Rs!U32(read.value)
             ELSE Rs!U32(last.indices[t - 1] + 1 + Rs!U32(read.value))) = y
        <5>1. CASE t = 1
          <6>1. y = gap.value
            BY <5>1
          <6> QED BY <3>7, <5>1, <6>1
        <5>2. CASE t # 1
          <6>1. y = indices[t - 1] + 1 + gap.value
            BY <5>2
          <6> QED BY <3>7, <3>13, <4>1, <5>2, <6>1
        <5> QED BY <5>1, <5>2
      <4> QED BY <3>7, <4>1, <4>2, <4>3
    <3>9. f[t] = [indices |-> indices', next |-> offset']
      BY <2>1, <3>4, <3>8
    <3>10. Len(indices') = t
      BY <2>5
    <3>11. f' = f
      BY <2>1 DEF f
    <3>12. (Rs!GapsRead(leaf.stream, k, from)[Len(indices)] =
                [indices |-> indices, next |-> offset])'
      BY <3>9, <3>10, <3>11 DEF f
    <3> QED BY <2>1, <3>12 DEF RsProgress
  <2>10. offset' \in Nat /\ offset <= offset'
    <3>1. gap.next \in (offset + 1) .. Size
      BY <1>2, <2>2, UvarintType
    <3> HIDE DEF gap
    <3> QED BY <2>1, <2>2, <3>1, SizeType
  <2> QED BY <2>1, <2>2, <2>6, <2>8, <2>9, <2>10, RsStays
<1> QED BY <1>1, <1>2

\* The rank of a block
LEMMA RsEnumRank ==
    ASSUME leaf \in Leaves, IInv, JsInv, NEW mayPanic, RsInv(mayPanic), EnumRank, RanksFit'
    PROVE  RsInv(mayPanic)'
<1> DEFINE rank_len == Uvarint(leaf.stream, offset)
           read == Rs!decode_uvarint(leaf.stream, offset)
<1>1. /\ pc = "enum" /\ k > 0 /\ k \in Nat /\ n_b \in Nat
      /\ offset \in 0 .. Size /\ offset \in Nat
      /\ indices = <<>> /\ encoding = ENUM_RANK
  BY SizeType DEF EnumRank, IInv, TypeOK, Control
<1>2. CASE rank_len = None
  BY <1>2, RsFail DEF EnumRank
<1>3. CASE rank_len # None
  <2>1. rank_len.value \in Nat /\ rank_len.next \in Nat /\ offset <= rank_len.next
    <3>1. rank_len.value \in Nat /\ rank_len.next \in (offset + 1) .. Size
      BY <1>1, <1>3, UvarintType
    <3> QED BY <1>1, <3>1, SizeType
  <2>2. InBlock
    BY <1>1 DEF InBlock
  <2>4. Fits' /\ UNCHANGED <<n_b, k>> => Fits
    BY <1>1 DEF Fits
  <2>5. CASE rank_len.value = 0
    <3>1. /\ indices' = [i \in 1 .. k |-> i - 1]
          /\ offset' = rank_len.next
          /\ pc' = "labels"
          /\ UNCHANGED <<leaf, block_id, results, n_b, encoding, k, labels,
                         rank, bit>>
      BY <1>3, <2>1, <2>5 DEF EnumRank, FirstSubset
    <3>2. InBlock'
      BY <3>1 DEF InBlock
    <3>3. ASSUME NEW from \in 0 .. Size, RsProgress(from)
          PROVE  RsProgress(from)'
      <4>1. offset = from
        BY <1>1, <3>3 DEF RsProgress
      <4>2. read.value = 0 /\ read.next = rank_len.next
        <5>1. rank_len.value < 2 ^ (IntBits - 1)
          <6>1. IntBits - 1 \in Nat
            BY PortsFit
          <6>2. 2 ^ (IntBits - 1) \in Nat \ {0}
            BY <6>1, Powers
          <6> HIDE DEF rank_len
          <6> QED BY <2>5, <6>2
        <5> QED BY <1>1, <1>3, <2>5, <5>1, RsUvarint
      <4> HIDE DEF rank_len, read
      <4>3. k # 0
        BY <1>1
      <4>4. Rs!decode_enum_rank(leaf.stream, n_b, k, from)
                = [indices |-> [i \in 1 .. k |-> i - 1], next |-> rank_len.next, panics |-> FALSE]
        BY <4>1, <4>2, <4>3 DEF Rs!decode_enum_rank, Rs!RankedIn, read
      <4>5. RsIndices(from)' = Rs!decode_enum_rank(leaf.stream, n_b, k, from)
        BY <1>1, <3>1 DEF RsIndices, ENUM_RANK, DELTA_GAPS
      <4> QED BY <3>1, <4>4, <4>5 DEF RsProgress
    <3>4. offset' \in Nat /\ offset <= offset'
      <4> HIDE DEF rank_len
      <4> QED BY <1>1, <2>1, <3>1
    <3> QED BY <1>1, <2>2, <2>4, <3>1, <3>2, <3>3, <3>4, RsStays
  <2>6. CASE rank_len.value > 0
    <3>1. /\ rank' = FromBytes(RankBytes(leaf.stream, rank_len))
          /\ offset' = rank_len.next + rank_len.value
          /\ pc' = "unrank"
          /\ UNCHANGED <<leaf, block_id, results, n_b, encoding, k, indices,
                         labels, bit>>
      BY <1>3, <2>1, <2>6 DEF EnumRank
    <3>2. InBlock'
      BY <3>1 DEF InBlock
    <3>3. ASSUME NEW from \in 0 .. Size, Fits, RsProgress(from)
          PROVE  RsProgress(from)'
      <4>1. offset = from
        BY <1>1, <3>3 DEF RsProgress
      <4> DEFINE f == Rs!Unrankings(Rs!U128(rank'), n_b, k)
      <4>2. Rs!U128(rank') = rank'
        <5>1. rank' < 2 ^ RankBits
          BY <3>1 DEF RanksFit
        <5>2. rank' \in Nat
          <6>1. IInv'
            <7>1. [Next]_vars
              BY DEF Next, Step
            <7> QED BY <7>1, NextInv
          <6> QED BY <6>1 DEF IInv, TypeOK
        <5> QED BY <5>1, <5>2, RsLong
      <4>3. Rs!U64(n_b - 1) = n_b - 1 /\ ~(n_b - 1 < 0)
        <5>1. /\ 2 ^ (IntBits - 1) \in Nat
              /\ \A v \in Nat : v <= n_b => v + 7 < 2 ^ (IntBits - 1)
          BY <2>2, PositionsFit
        <5>2. k <= n_b
          BY <3>3 DEF Fits
        <5>3. n_b - 1 \in Nat /\ n_b - 1 <= n_b
          BY <1>1, <5>2
        <5>4. (n_b - 1) + 7 < 2 ^ (IntBits - 1)
          BY <5>1, <5>3
        <5>5. n_b - 1 < 2 ^ (IntBits - 1)
          BY <5>1, <5>3, <5>4
        <5> QED BY <5>3, <5>5, RsInteger
      <4>4. f[0] = [rank |-> rank', upper |-> n_b - 1, indices |-> <<>>]
        <5>1. k \in Nat
          BY <1>1
        <5>2. f[0] = [rank |-> Rs!U128(rank'), upper |-> Rs!U64(n_b - 1), indices |-> <<>>]
          BY <5>1, RsUnrankingsLoop
        <5> QED BY <4>2, <4>3, <5>2
      <4>5. Len(indices') = 0 /\ indices' = <<>> /\ Upper' = n_b - 1
        BY <1>1, <3>1 DEF Upper
      <4> HIDE DEF f
      <4>6. f[Len(indices')] = [rank |-> rank', upper |-> IF Upper' < 0 THEN 0 ELSE Upper',
                                indices |-> indices']
        BY <4>3, <4>4, <4>5
      <4> QED BY <1>1, <1>3, <2>6, <3>1, <4>1, <4>6 DEF RsProgress, f
    <3>4. offset' \in Nat /\ offset <= offset'
      <4> HIDE DEF rank_len
      <4> QED BY <1>1, <2>1, <3>1
    <3> QED BY <1>1, <2>2, <2>4, <3>1, <3>2, <3>3, <3>4, RsStays
  <2> QED BY <2>1, <2>5, <2>6
<1> QED BY <1>2, <1>3

\* One element of unrank_subset
LEMMA RsUnrank ==
    ASSUME PascalsRule, leaf \in Leaves, IInv, JsInv, NEW mayPanic, RsInv(mayPanic), Unrank, RanksFit
    PROVE  RsInv(mayPanic)'
<1> DEFINE j == k - Len(indices)
           i == FindLargestBinomLe(rank, j, j - 1, Upper)
<1>1. /\ pc = "unrank" /\ Len(indices) < k
      /\ UNCHANGED <<leaf, pc, offset, block_id, results, n_b, encoding, k,
                     labels, bit>>
  BY DEF Unrank
<1>2. /\ indices' = <<i>> \o indices
      /\ rank' = rank - Binom(i, j)
      /\ i \in Int /\ j \in Int /\ j >= 1 /\ Upper \in Int
      /\ k <= n_b => j - 1 <= Upper /\ Upper <= n_b - 1
      /\ j - 1 <= Upper => i \in (j - 1) .. Upper
  BY NextElement
<1>3. /\ indices \in Seq(Int) /\ Len(indices) \in Nat /\ k \in Nat /\ rank \in Nat
      /\ offset \in Nat /\ offset' = offset
      /\ n_b <= BlockSize + leaf.n_leaf
  BY <1>1 DEF IInv, TypeOK, Control, InBlock
<1>4. InBlock /\ InBlock'
  BY <1>1 DEF InBlock
<1> HIDE DEF i
<1>6. /\ Len(indices') = Len(indices) + 1 /\ indices'[1] = i
      /\ \A m \in 2 .. Len(indices) + 1 : indices'[m] = indices[m - 1]
  BY <1>2, <1>3, PrependFacts
<1>7. Fits' => Fits
  <2>1. SUFFICES ASSUME Fits' PROVE Fits
    OBVIOUS
  <2>2. ASSUME NEW m \in 1 .. Len(indices) PROVE indices[m] \in 0 .. n_b - 1
    <3>1. m + 1 \in 1 .. Len(indices') /\ indices'[m + 1] = indices[m]
      <4>1. m + 1 \in 2 .. Len(indices) + 1 /\ (m + 1) - 1 = m
        BY <1>3
      <4>2. indices'[m + 1] = indices[(m + 1) - 1]
        BY <1>6, <4>1
      <4> QED BY <1>3, <1>6, <4>1, <4>2
    <3> QED BY <1>1, <2>1, <3>1 DEF Fits
  <2> QED BY <1>1, <2>1, <2>2 DEF Fits, Size
<1>8. ASSUME NEW from \in 0 .. Size, Fits, RsProgress(from)
      PROVE  RsProgress(from)'
  <2> DEFINE t == Len(indices) + 1
             f == Rs!Unrankings(Rs!U128(FromBytes(RankBytes(leaf.stream,
                                                         Uvarint(leaf.stream, from)))), n_b, k)
             last == [rank |-> rank, upper |-> IF Upper < 0 THEN 0 ELSE Upper, indices |-> indices]
  <2>1. t \in 1 .. k /\ t - 1 = Len(indices) /\ k - (t - 1) = j
    BY <1>1, <1>3
  <2>2. f[t - 1] = last
    BY <1>1, <1>8, <2>1 DEF RsProgress
  <2>3. f[t] = Rs!Unrank(k - (t - 1), f[t - 1])
    <3>1. \A m \in 1 .. k : f[m] = Rs!Unrank(k - (m - 1), f[m - 1])
      BY <1>3, RsUnrankingsLoop
    <3> HIDE DEF f, t
    <3> QED BY <2>1, <3>1
  <2> HIDE DEF f, t
  <2>4. j - 1 <= Upper /\ Upper <= n_b - 1 /\ i \in (j - 1) .. Upper
    BY <1>2, <1>8 DEF Fits
  <2>5. n_b \in Nat /\ n_b <= 2 ^ (IntBits - 2) /\ 2 ^ (IntBits - 2) \in Nat
    BY <1>4, PositionsFit
  <2> DEFINE lo == j - 1
             hi == Upper
  <2>6. /\ j \in Nat \ {0} /\ lo \in Nat /\ hi \in Nat /\ lo <= hi
        /\ hi <= BlockSize + leaf.n_leaf /\ hi < 2 ^ (IntBits - 2) /\ i \in Nat
    <3>1. BlockSize + leaf.n_leaf \in Int
      BY LeafAssumption DEF BlockSize
    <3> HIDE DEF j
    <3> QED BY <1>2, <1>3, <2>4, <2>5, <3>1
  <2>7. Rs!find_largest_binom_le(rank, j, lo, hi) = FindLargestBinomLe(rank, j, lo, hi)
    <3>1. \A n \in 0 .. hi, m \in 1 .. j : 2 * m <= n => m * Binom(n, m) < 2 ^ RankBits
      <4>1. ASSUME NEW n \in 0 .. hi, NEW m \in 1 .. j, 2 * m <= n
            PROVE  m * Binom(n, m) < 2 ^ RankBits
        <5>1. n \in 0 .. n_b - 1 /\ m \in 1 .. k
          BY <1>3, <2>4, <2>5, <2>6
        <5> QED BY <1>1, <4>1, <5>1 DEF RanksFit, BinomialsFit
      <4> QED BY <4>1
    <3>2. Binom(lo, j) <= rank
      <4>1. Binom(j - 1, j) = 0
        BY <1>2 DEF Binom
      <4> QED BY <1>3, <4>1
    <3> HIDE DEF j, lo, hi
    <3> QED BY <1>3, <2>6, <3>1, <3>2, RsSearch
  <2>8. Rs!find_largest_binom_le(rank, j, j - 1, Upper) = i
    BY <2>7 DEF i
  <2>9. Rs!binom(i, j) = Binom(i, j)
    <3>1. \A m \in 1 .. j : 2 * m <= i => m * Binom(i, m) < 2 ^ RankBits
      <4>1. ASSUME NEW m \in 1 .. j, 2 * m <= i PROVE m * Binom(i, m) < 2 ^ RankBits
        <5>1. i \in 0 .. n_b - 1 /\ m \in 1 .. k
          BY <1>3, <2>4, <2>5, <2>6
        <5> QED BY <1>1, <4>1, <5>1 DEF RanksFit, BinomialsFit
      <4> QED BY <4>1
    <3> HIDE DEF j
    <3> QED BY <2>6, <3>1, RsBinom
  <2>10. last.rank = rank /\ last.upper = Upper /\ last.indices = indices
    BY <2>6
  <2>16. Rs!U32(i) = i
    <3>1. /\ 2 ^ (IntBits - 1) \in Nat
          /\ \A v \in Nat : v <= n_b => v + 7 < 2 ^ (IntBits - 1)
      BY <1>4, PositionsFit
    <3>2. i <= n_b
      BY <2>4, <2>5, <2>6
    <3>3. i + 7 < 2 ^ (IntBits - 1)
      BY <2>6, <3>1, <3>2
    <3>4. i < 2 ^ (IntBits - 1)
      BY <2>6, <3>1, <3>3
    <3> QED BY <2>6, <3>4, RsInteger
  <2>17. Rs!U128(rank - Binom(i, j)) = rank - Binom(i, j)
    <3>1. rank < 2 ^ RankBits /\ 2 ^ RankBits \in Nat
      BY <1>1, RankBitsAssumption, Powers DEF RanksFit
    <3>2. Binom(i, j) \in Nat /\ Binom(i, j) <= rank
      <4>1. Binom(i, j) \in Nat
        BY <2>6, BinomNat
      <4>2. Binom(i, j) <= rank
        BY <2>4, NextElement DEF i
      <4> QED BY <4>1, <4>2
    <3> DEFINE x == rank - Binom(i, j)
    <3>3. x \in Nat /\ x < 2 ^ RankBits
      BY <1>3, <3>1, <3>2
    <3> HIDE DEF x
    <3>4. Rs!U128(x) = x
      BY <3>3, RsLong
    <3> QED BY <3>4 DEF x
  <2> HIDE DEF j, last
  <2>11. Rs!Unrank(j, last) = [rank |-> rank - Binom(i, j), 
                               upper |-> IF i > 0 THEN i - 1 ELSE 0,
                               indices |-> <<i>> \o indices]
    BY <2>8, <2>9, <2>10, <2>16, <2>17 DEF Rs!Unrank
  <2>12. indices' # <<>> /\ Upper' = i - 1
    <3>1. indices' # <<>>
      BY <1>3, <1>6
    <3> QED BY <1>6, <3>1 DEF Upper
  <2>13. f[t] = [rank |-> rank', upper |-> IF Upper' < 0 THEN 0 ELSE Upper',
                 indices |-> indices']
    <3>1. (IF i > 0 THEN i - 1 ELSE 0) = (IF Upper' < 0 THEN 0 ELSE Upper')
      BY <2>6, <2>12
    <3> QED BY <1>2, <2>1, <2>2, <2>3, <2>11, <3>1
  <2>14. Len(indices') = t /\ f' = f
    BY <1>1, <1>6 DEF f, t
  <2>15. f'[Len(indices')] = [rank |-> rank', upper |-> IF Upper' < 0 THEN 0 ELSE Upper',
                             indices |-> indices']
    BY <2>13, <2>14
  <2> QED BY <1>1, <1>8, <2>15 DEF RsProgress, f
<1>9. offset <= offset'
  BY <1>3
<1> QED BY <1>1, <1>3, <1>4, <1>7, <1>8, <1>9, RsStays

\* One bit
LEMMA RsBitmapBit ==
    ASSUME leaf \in Leaves, IInv, JsInv, NEW mayPanic, RsInv(mayPanic), BitmapBit
    PROVE  RsInv(mayPanic)'
<1>1. /\ pc = "bitmap" /\ bit < BitmapBits
      /\ bit' = bit + 1
      /\ indices' = IF BitCounts THEN Append(indices, bit) ELSE indices
      /\ UNCHANGED <<leaf, pc, offset, block_id, results, n_b, encoding, k,
                     labels, rank>>
  BY DEF BitmapBit
<1>2. /\ indices \in Seq(Int) /\ Len(indices) \in Nat /\ bit \in Nat /\ n_b \in Nat
      /\ offset \in Nat /\ Size \in Nat
  BY <1>1, SizeType DEF IInv, TypeOK
<1>3. InBlock /\ InBlock'
  BY <1>1 DEF InBlock
<1>5. Fits' => Fits
  <2>1. SUFFICES ASSUME Fits' PROVE Fits
    OBVIOUS
  <2>2. Append(indices, bit) \in Seq(Int) /\ Len(Append(indices, bit)) = Len(indices) + 1
        /\ \A m \in 1 .. Len(indices) : Append(indices, bit)[m] = indices[m]
    BY <1>2, AppendFacts
  <2>3. ASSUME NEW m \in 1 .. Len(indices) PROVE indices[m] \in 0 .. n_b - 1
    <3>1. m \in 1 .. Len(indices') /\ indices'[m] = indices[m]
      BY <1>1, <1>2, <2>2
    <3> QED BY <1>1, <2>1, <3>1 DEF Fits
  <2> QED BY <1>1, <2>1, <2>3 DEF Fits
<1>6. ASSUME NEW from \in 0 .. Size, RsProgress(from)
      PROVE  RsProgress(from)'
  <2> DEFINE f == Rs!SetBits(leaf.stream, from, n_b)
  <2>1. offset = from /\ f[Lesser(bit, n_b)] = indices
    BY <1>1, <1>6 DEF RsProgress
  <2>2. f[Lesser(bit', n_b)] = indices'
    <3>1. CASE bit < n_b
      <4>1. f[bit] = indices /\ Lesser(bit', n_b) = bit + 1
        BY <1>1, <1>2, <2>1, <3>1 DEF Lesser
      <4>2. f[bit + 1] = Port!OneMoreBit(leaf.stream, from, bit, f[bit])
        <5>1. f = Port!SetBits(leaf.stream, from, n_b)
          BY RsIsPort
        <5>2. \A m \in 1 .. n_b : f[m] = Port!OneMoreBit(leaf.stream, from, m - 1, f[m - 1])
          BY <1>2, <5>1, SetBitsLoop
        <5>3. bit + 1 \in 1 .. n_b /\ (bit + 1) - 1 = bit
          BY <1>2, <3>1
        <5> HIDE DEF f
        <5>4. f[bit + 1] = Port!OneMoreBit(leaf.stream, from, (bit + 1) - 1, f[(bit + 1) - 1])
          BY <5>2, <5>3
        <5> QED BY <5>3, <5>4
      <4> DEFINE b == from + bit \div 8
      <4>3. b \in 0 .. Size - 1 /\ b \in Int
        <5>1. BitmapBits <= 8 * (Size - from)
          <6>1. NumBytes(n_b) \in Nat
            BY <1>2, NumBytesType
          <6> QED BY <1>2, <2>1, <6>1 DEF BitmapBits, Lesser
        <5>2. BitmapBits \in Int
          <6>1. NumBytes(n_b) \in Nat
            BY <1>2, NumBytesType
          <6> QED BY <1>2, <6>1 DEF BitmapBits, Lesser
        <5>3. bit < 8 * (Size - from)
          BY <1>1, <1>2, <5>1, <5>2
        <5> QED BY <1>2, <5>3
      <4>4. Port!Byte(leaf.stream, b) = Byte(b)
        BY <4>3, PortByte
      <4>5. 2 ^ (bit % 8) = Pow2(bit % 8)
        <5>1. bit % 8 \in 0 .. 8
          BY <1>2
        <5> QED BY <5>1, SmallPowers
      <4> HIDE DEF f
      <4>6. Port!OneMoreBit(leaf.stream, from, bit, f[bit])
                = IF BitSet THEN Append(indices, bit) ELSE indices
        BY <2>1, <4>1, <4>4, <4>5 DEF Port!OneMoreBit, Port!Bit, BitSet
      <4> QED BY <1>1, <3>1, <4>1, <4>2, <4>6 DEF BitCounts
    <3>2. CASE ~(bit < n_b)
      <4>1. Lesser(bit', n_b) = n_b /\ Lesser(bit, n_b) = n_b
        BY <1>1, <1>2, <3>2 DEF Lesser
      <4> QED BY <1>1, <2>1, <3>2, <4>1 DEF BitCounts
    <3> QED BY <3>1, <3>2
  <2> QED BY <1>1, <2>1, <2>2 DEF RsProgress
<1>7. offset' = offset /\ offset <= offset'
  BY <1>1, <1>2
<1> QED BY <1>1, <1>2, <1>3, <1>5, <1>6, <1>7, RsStays

\* A number of bits that a block can have takes the same bytes.
LEMMA RsBytes ==
    ASSUME leaf \in Leaves, IInv, JsInv, InBlock
    PROVE  Rs!U32(n_b + 7) \div 8 = NumBytes(n_b) /\ n_b <= 8 * NumBytes(n_b)
<1>1. n_b \in Nat /\ n_b + 7 < 2 ^ (IntBits - 1)
  BY PositionsFit
<1>2. Rs!U32(n_b + 7) = n_b + 7
  <2>1. n_b + 7 \in Nat
    BY <1>1
  <2> QED BY <1>1, <2>1, RsInteger
<1> QED BY <1>1, <1>2 DEF NumBytes

\* A rank whose bytes are all there
LEMMA RsRanked ==
    ASSUME leaf \in Leaves, IInv, JsInv, InBlock, NEW from \in 0 .. Size, k > 0,
           Uvarint(leaf.stream, from) # None,
           Uvarint(leaf.stream, from).value > 0,
           Uvarint(leaf.stream, from).next + Uvarint(leaf.stream, from).value < Size
    PROVE  LET rank_len == Uvarint(leaf.stream, from)
               read == FromBytes(RankBytes(leaf.stream, rank_len))
           IN  Rs!decode_enum_rank(leaf.stream, n_b, k, from)
                   = [indices |-> Rs!Unrankings(Rs!U128(read), n_b, k)[k].indices,
                      next |-> rank_len.next + rank_len.value, panics |-> FALSE]
<1> DEFINE rank_len == Uvarint(leaf.stream, from)
           wide == Rs!decode_uvarint(leaf.stream, from)
           to == rank_len.next + rank_len.value
<1>1. Size \in Nat /\ Len(leaf.stream) = Size /\ k \in Nat
  BY SizeType, PositionsFit DEF Size
<1>2. rank_len.value \in Nat /\ rank_len.next \in Nat
  <2>1. rank_len.value \in Nat /\ rank_len.next \in (from + 1) .. Size
    BY UvarintType
  <2> QED BY <1>1, <2>1
<1>3. rank_len.value < 2 ^ (IntBits - 1)
  <2>1. 8 * (Size + 1) <= 2 ^ (IntBits - 1) /\ 2 ^ (IntBits - 1) \in Nat
    BY PortsFit, PositionsFit DEF Size
  <2>2. rank_len.value < Size
    BY <1>1, <1>2
  <2> HIDE DEF rank_len
  <2> QED BY <1>1, <1>2, <2>1, <2>2
<1>4. /\ wide.value = rank_len.value /\ wide.next = rank_len.next
      /\ Rs!U32(rank_len.value) = rank_len.value
  BY <1>3, RsUvarint
<1>5. k # 0 /\ ~(k < 0) /\ rank_len.value # 0
  BY <1>1, <1>2
<1> HIDE DEF wide, rank_len
<1>6. to \in Nat /\ to < Size /\ rank_len.next <= to
  BY <1>2 DEF rank_len
<1>7. Rs!U32(to) = to
  <2>1. 8 * (Size + 1) <= 2 ^ (IntBits - 1) /\ 2 ^ (IntBits - 1) \in Nat
    BY PortsFit, PositionsFit DEF Size
  <2> HIDE DEF to
  <2>2. to < 2 ^ (IntBits - 1)
    BY <1>1, <1>6, <2>1
  <2> QED BY <1>6, <2>2, RsInteger
<1>8. Rs!U32(wide.next + Rs!U32(wide.value)) = to
  BY <1>4, <1>7
<1>9. ~(to < rank_len.next) /\ ~(to > Len(leaf.stream))
  <2> HIDE DEF to
  <2> QED BY <1>1, <1>2, <1>6
<1> DEFINE bytes == SubSeq(leaf.stream, rank_len.next + 1, to)
<1>10. bytes = RankBytes(leaf.stream, rank_len)
  <2>1. Lesser(to, Len(leaf.stream)) = to
    <3> HIDE DEF to
    <3> QED BY <1>1, <1>6 DEF Lesser
  <2> QED BY <2>1 DEF RankBytes
<1> HIDE DEF to
<1>11. Rs!RankedIn(leaf.stream, n_b, k, from, wide)
           = [indices |-> Rs!unrank_subset(Rs!U128(FromBytes(bytes)), n_b, k),
              next |-> to, panics |-> FALSE]
  BY <1>4, <1>5, <1>8, <1>9 DEF Rs!RankedIn
<1>12. Rs!decode_enum_rank(leaf.stream, n_b, k, from) = Rs!RankedIn(leaf.stream, n_b, k, from, wide)
  BY DEF Rs!decode_enum_rank, wide
<1> HIDE DEF bytes
<1> QED BY <1>10, <1>11, <1>12 DEF Rs!unrank_subset, rank_len, to

\* The indices are read, each in its way.
LEMMA RsIndicesRead ==
    ASSUME leaf \in Leaves, IInv, JsInv, NEW mayPanic, RsInv(mayPanic), IndicesRead
    PROVE  RsInv(mayPanic)'
<1>1. /\ pc' = "labels"
      /\ UNCHANGED <<leaf, block_id, results, n_b, encoding, k, indices, labels, rank, bit>>
  BY DEF IndicesRead, block
<1>2. pc \in {"delta", "unrank", "enum", "bitmap"}
  BY DEF IndicesRead
<1>3. InBlock /\ InBlock'
  BY <1>1, <1>2 DEF InBlock
<1>6. Fits' => Fits
  <2>1. SUFFICES ASSUME Fits' PROVE Fits
    OBVIOUS
  <2>2. pc = "unrank" => offset' = offset
    BY DEF IndicesRead
  <2> QED BY <1>1, <1>2, <2>1, <2>2 DEF Fits, Size
<1>7. /\ n_b \in Nat /\ k \in Nat /\ offset \in Nat /\ Size \in Nat /\ indices \in Seq(Int)
      /\ bit \in Nat
  BY SizeType DEF IInv, TypeOK
<1>8. ASSUME NEW from \in 0 .. Size, Fits', RsProgress(from)
      PROVE  RsProgress(from)'
  <2> DEFINE found == RsIndices(from)
  <2>1. SUFFICES ASSUME TRUE
                 PROVE  IF found.panics THEN k = 0
                        ELSE found.indices = indices /\ found.next = offset'
    <3>1. RsIndices(from)' = RsIndices(from)
      BY <1>1 DEF RsIndices
    <3> QED BY <1>1, <2>1, <3>1 DEF RsProgress
  <2>2. CASE pc = "delta"
    <3>1. encoding = DELTA_GAPS /\ Len(indices) = k /\ offset' = offset
      BY <2>2 DEF IndicesRead, IInv, Control
    <3>2. Rs!GapsRead(leaf.stream, k, from)[k] = [indices |-> indices, next |-> offset]
      BY <1>8, <2>2, <3>1 DEF RsProgress
    <3>3. found = [indices |-> indices, next |-> offset, panics |-> FALSE]
      BY <3>1, <3>2 DEF RsIndices, Rs!decode_delta_gaps
    <3>4. found.indices = indices /\ found.next = offset /\ ~found.panics
      BY <3>3
    <3> HIDE DEF found
    <3> QED BY <3>1, <3>4
  <2>3. CASE pc = "enum"
    <3>1. encoding = ENUM_RANK /\ k = 0 /\ offset' = offset /\ indices = <<>> /\ offset = from
      BY <1>8, <2>3 DEF IndicesRead, IInv, Control, RsProgress
    <3>2. found = [indices |-> <<>>, next |-> from, panics |-> FALSE]
      BY <3>1 DEF RsIndices, Rs!decode_enum_rank, Rs!RankedIn, DELTA_GAPS, ENUM_RANK
    <3>3. found.indices = <<>> /\ found.next = from /\ ~found.panics
      BY <3>2
    <3> HIDE DEF found
    <3> QED BY <3>1, <3>3
  <2>4. CASE pc = "unrank"
    <3> DEFINE rank_len == Uvarint(leaf.stream, from)
               read == FromBytes(RankBytes(leaf.stream, rank_len))
    <3>1. encoding = ENUM_RANK /\ Len(indices) = k /\ offset' = offset
      BY <2>4 DEF IndicesRead, IInv, Control
    <3>2. /\ k > 0 /\ rank_len # None /\ rank_len.value > 0
          /\ offset = rank_len.next + rank_len.value
          /\ Rs!Unrankings(Rs!U128(read), n_b, k)[k] =
                 [rank |-> rank, upper |-> IF Upper < 0 THEN 0 ELSE Upper,
                  indices |-> indices]
      BY <1>8, <2>4, <3>1 DEF RsProgress
    <3>3. offset < Size
      BY <1>1, <1>8, <3>1, <3>2 DEF Fits, Size
    <3>4. Rs!decode_enum_rank(leaf.stream, n_b, k, from)
              = [indices |-> Rs!Unrankings(Rs!U128(read), n_b, k)[k].indices,
                 next |-> rank_len.next + rank_len.value, panics |-> FALSE]
      BY <1>3, <3>2, <3>3, RsRanked
    <3>5. found = Rs!decode_enum_rank(leaf.stream, n_b, k, from)
      BY <3>1 DEF RsIndices, DELTA_GAPS, ENUM_RANK
    <3> DEFINE made == Rs!Unrankings(Rs!U128(read), n_b, k)[k]
    <3>6. made.indices = indices
      BY <3>2
    <3> HIDE DEF read, rank_len, made
    <3>7. found.indices = made.indices /\ found.next = rank_len.next + rank_len.value
          /\ ~found.panics
      BY <3>4, <3>5 DEF made
    <3> HIDE DEF found
    <3> QED BY <3>1, <3>2, <3>6, <3>7
  <2>5. CASE pc = "bitmap"
    <3> DEFINE f == Rs!SetBits(leaf.stream, from, n_b)
    <3>1. /\ encoding \notin {DELTA_GAPS, ENUM_RANK} /\ bit >= BitmapBits
          /\ offset' = offset + NumBytes(n_b) /\ offset = from /\ f[Lesser(bit, n_b)] = indices
      BY <1>8, <2>5 DEF IndicesRead, IInv, Control, RsProgress
    <3>2. Rs!U32(n_b + 7) \div 8 = NumBytes(n_b) /\ n_b <= 8 * NumBytes(n_b)
          /\ NumBytes(n_b) \in Nat
      BY <1>3, <1>7, RsBytes, NumBytesType
    <3>3. found = IF from + NumBytes(n_b) > Len(leaf.stream)
                  THEN [indices |-> <<>>, next |-> from, panics |-> TRUE]
                  ELSE [indices |-> f[n_b], next |-> from + NumBytes(n_b), panics |-> FALSE]
      BY <3>1, <3>2 DEF RsIndices, Rs!decode_bitmap
    <3>4. f[n_b] = indices
      <4>1. CASE bit >= n_b
        <5>1. Lesser(bit, n_b) = n_b
          BY <1>7, <4>1 DEF Lesser
        <5> QED BY <3>1, <5>1
      <4>2. CASE bit < n_b
        <5>1. Lesser(bit, n_b) = bit
          BY <1>7, <4>2 DEF Lesser
        <5>2. 8 * (Size - from) <= bit
          BY <1>7, <3>1, <3>2, <4>2 DEF BitmapBits, Lesser
        <5>3. Port!SetBits(leaf.stream, from, n_b)[n_b] = Port!SetBits(leaf.stream, from, n_b)[bit]
          <6>1. bit \in 0 .. n_b
            BY <1>7, <4>2
          <6> QED BY <1>7, <5>2, <6>1, BitsPastData
        <5>4. f = Port!SetBits(leaf.stream, from, n_b)
          BY RsIsPort
        <5> QED BY <3>1, <5>1, <5>3, <5>4
      <4> QED BY <1>7, <4>1, <4>2
    <3> HIDE DEF f, found
    <3>5. CASE from + NumBytes(n_b) > Len(leaf.stream)
      <4>1. found.panics
        BY <3>3, <3>5
      <4>2. ~(offset' < Size')
        BY <1>1, <1>7, <3>1, <3>2, <3>5 DEF Size
      <4>3. k = 0
        BY <1>1, <1>7, <1>8, <4>2 DEF Fits
      <4> QED BY <4>1, <4>3
    <3>6. CASE ~(from + NumBytes(n_b) > Len(leaf.stream))
      <4>1. found.indices = f[n_b] /\ found.next = from + NumBytes(n_b) /\ ~found.panics
        BY <3>3, <3>6
      <4> QED BY <3>1, <3>4, <4>1
    <3> QED BY <3>5, <3>6
  <2> QED BY <1>2, <2>2, <2>3, <2>4, <2>5
<1>9. offset' \in Nat /\ offset <= offset'
  <2>1. offset' = offset \/ offset' = offset + NumBytes(n_b)
    BY DEF IndicesRead
  <2>2. NumBytes(n_b) \in Nat
    BY <1>7, NumBytesType
  <2> QED BY <1>7, <2>1, <2>2
<1> QED BY <1>1, <1>3, <1>6, <1>7, <1>8, <1>9, RsStays

\* One label
LEMMA RsOneLabel ==
    ASSUME leaf \in Leaves, IInv, JsInv, NEW mayPanic, RsInv(mayPanic), Label
    PROVE  RsInv(mayPanic)'
<1> DEFINE w == BitsPerLabel
           pos == 8 * offset + Len(labels) * w
           code == ExtractBits(pos, w)
<1>1. CASE ~BitsPresent(pos, w)
  BY <1>1, RsFail DEF Label
<1>2. CASE BitsPresent(pos, w) /\ (Conditional /\ code >= NumRemaining)
  BY <1>2, RsFail DEF Label
<1>3. CASE BitsPresent(pos, w) /\ ~(Conditional /\ code >= NumRemaining)
  <2>1. /\ pc = "labels" /\ Len(labels) < k
        /\ labels' = Append(labels, LabelOf(code))
        /\ UNCHANGED <<leaf, pc, block_id, results, n_b, encoding, k, indices, offset,
                       rank, bit>>
    BY <1>3 DEF Label
  <2>2. labels \in Seq(Int) /\ Len(labels) \in Nat /\ offset \in Nat /\ w \in 1 .. 8
    BY BitsPerLabelType DEF IInv, TypeOK
  <2>7. InBlock /\ InBlock'
    BY <2>1 DEF InBlock
  <2>9. Fits' => Fits
    BY <2>1 DEF Fits, Size
  <2>10. \A from \in 0 .. Size : RsProgress(from) => RsProgress(from)'
    BY <2>1 DEF RsProgress, RsIndices
  <2>11. offset' = offset /\ offset <= offset'
    BY <2>1, <2>2
  <2> QED BY <2>1, <2>2, <2>7, <2>9, <2>10, <2>11, RsStays
<1> QED BY <1>1, <1>2, <1>3

\* A difference is right though one of its terms wraps.
LEMMA WrapsBack ==
    ASSUME NEW m \in Nat \ {0}, NEW a \in Int, NEW b \in Int, a - b \in 0 .. m - 1
    PROVE  (a - (b % m)) % m = a - b
<1> DEFINE q == b \div m
           r == b % m
           x == a - r
           p == x \div m
           s == x % m
<1>1. q \in Int /\ r \in 0 .. m - 1 /\ b = m * q + r
  OBVIOUS
<1>2. x \in Int
  BY <1>1
<1> HIDE DEF q, r, x
<1>3. p \in Int /\ s \in 0 .. m - 1 /\ x = m * p + s
  BY <1>2
<1> HIDE DEF p, s
<1>4. x = a - r
  BY DEF x
<1> DEFINE d == p - q
           c == a - b
<1>5. d \in Int /\ c \in 0 .. m - 1
  BY <1>1, <1>3
<1>6. m * p = m * q + m * d /\ m * p \in Int /\ m * q \in Int /\ m * d \in Int
  BY <1>1, <1>3, <1>5 DEF d
<1>7. c - s = m * d
  BY <1>1, <1>3, <1>4, <1>6 DEF c
<1> HIDE DEF c, d
<1>8. c - s < m /\ c - s > -m
  BY <1>3, <1>5
<1>9. d >= 1 => m * d >= m
  <2>1. \A y \in Nat \ {0} : m * y >= m
    OBVIOUS
  <2> QED BY <1>5, <2>1
<1>10. d <= -1 => m * d <= -m
  <2>1. \A y \in Int : y <= -1 => m * y <= -m
    OBVIOUS
  <2> QED BY <1>5, <2>1
<1>11. d = 0
  BY <1>3, <1>5, <1>6, <1>7, <1>8, <1>9, <1>10
<1>12. c = s
  BY <1>3, <1>5, <1>7, <1>11
<1> QED BY <1>12 DEF c, s, x, r

\* The positions of a block, computed in u32
LEMMA RsPositions ==
    ASSUME leaf \in Leaves, IInv, JsInv, InBlock, block_id \in Nat
    PROVE  (IF block_id < leaf.num_blocks - 1 THEN leaf.block_size
            ELSE Rs!U32(leaf.n_leaf - Rs!U32(block_id * leaf.block_size))) = n_b
<1> DEFINE m == 2 ^ IntBits
           a == leaf.n_leaf
           b == block_id * leaf.block_size
<1>1. n_b = BlockPositions
  BY DEF JsInv
<1>2. CASE block_id < leaf.num_blocks - 1
  BY <1>1, <1>2 DEF BlockPositions, BlockSize
<1>3. CASE ~(block_id < leaf.num_blocks - 1)
  <2>1. n_b = a - b
    BY <1>1, <1>3 DEF BlockPositions, BlockSize
  <2>2. n_b \in Nat /\ n_b + 7 < 2 ^ (IntBits - 1) /\ 2 ^ (IntBits - 1) \in Nat
    BY PositionsFit
  <2>3. m \in Nat \ {0} /\ 2 ^ (IntBits - 1) <= m
    <3> DEFINE e == IntBits - 1
    <3>1. e \in Nat /\ IntBits \in Nat /\ e <= IntBits
      BY PortsFit
    <3>2. 2 ^ e <= 2 ^ IntBits /\ 2 ^ IntBits \in Nat \ {0}
      BY <3>1, PowersAscend, Powers
    <3> QED BY <3>2
  <2>4. a \in Int /\ b \in Int
    <3>1. leaf.n_leaf \in Nat /\ leaf.block_size \in Nat
      BY LeafAssumption
    <3> QED BY <3>1, ProductType
  <2> HIDE DEF m, a, b
  <2>5. a - b \in 0 .. m - 1
    BY <2>1, <2>2, <2>3
  <2>6. (a - (b % m)) % m = n_b
    BY <2>1, <2>3, <2>4, <2>5, WrapsBack
  <2>7. Rs!U32(a - Rs!U32(b)) = n_b
    BY <2>6 DEF Rs!U32, m
  <2> QED BY <1>3, <2>7 DEF a, b
<1> QED BY <1>2, <1>3

\* A run of empty blocks
LEMMA RsEmptyRun ==
    ASSUME leaf \in Leaves, IInv, JsInv, NEW mayPanic, RsInv(mayPanic), EmptyRun
    PROVE  RsInv(mayPanic)'
<1> DEFINE run == Uvarint(leaf.stream, offset + 1)
           blanks == EmptyEntries(run.value)
<1>1. CASE run = None
  BY <1>1, RsFail DEF EmptyRun
<1>2. CASE run # None
  <2>1. /\ results' = results \o blanks
        /\ block_id' = block_id + run.value
        /\ offset' = run.next
        /\ UNCHANGED <<leaf, pc, block>>
        /\ pc = "record" /\ offset < Size /\ block_id < leaf.num_blocks
        /\ Byte(offset) % 4 = 0
    BY <1>2 DEF EmptyRun, AtRecord, MoreRecords, Header, EMPTY_RUN
  <2>2. /\ offset \in Nat /\ block_id \in Nat /\ results \in Seq(BlockEntry)
        /\ Size \in Nat /\ offset \in 0 .. Size - 1 /\ offset + 1 \in 0 .. Size
        /\ Len(results) \in Nat
    BY <2>1, SizeType DEF IInv, TypeOK
  <2>3. run.value \in Nat /\ run.next \in (offset + 1 + 1) .. Size
    BY <1>2, <2>2, UvarintType
  <2>4. ~InBlock'
    BY <2>1 DEF InBlock
  <2>5. /\ Len(results') = Len(results) + run.value
        /\ \A i \in 1 .. Len(results) : results'[i] = results[i]
    <3>1. blanks \in Seq(BlockEntry) /\ Len(blanks) = run.value
      <4>1. \A i \in 1 .. run.value : [bid |-> block_id + i - 1, data |-> None] \in BlockEntry
        BY <2>2, <2>3 DEF BlockEntry
      <4>2. blanks \in [1 .. run.value -> BlockEntry]
        BY <4>1 DEF EmptyEntries
      <4> HIDE DEF blanks, run
      <4> QED BY ONLY <2>3, <4>2, FunctionIsSeq, Zenon
    <3> HIDE DEF blanks, run
    <3>2. /\ Len(results \o blanks) = Len(results) + Len(blanks)
          /\ \A i \in 1 .. Len(results) : (results \o blanks)[i] = results[i]
      BY <2>2, <3>1, ConcatFacts
    <3> QED BY <2>1, <3>1, <3>2
  <2>6. ASSUME Legal', ~RsPanics(mayPanic)' PROVE RsAt(offset)'
    <3>1. Legal
      <4>1. Len(results) <= Len(results') /\ Len(results') \in Nat
        BY <2>2, <2>3, <2>5
      <4> QED BY <2>1, <2>2, <2>5, <2>6, <4>1, LegalBefore
    <3>2. run.value < 2 ^ (IntBits - 1)
      <4>1. 2 ^ (IntBits - 1) \in Nat
        <5>1. IntBits - 1 \in Nat
          BY PortsFit
        <5> QED BY <5>1, Powers
      <4>2. Len(results') < 2 ^ (IntBits - 1)
        BY <2>6 DEF Legal
      <4> HIDE DEF run
      <4> QED BY <2>2, <2>3, <2>5, <4>1, <4>2
    <3>3. /\ Rs!decode_uvarint(leaf.stream, offset + 1).value = run.value
          /\ Rs!decode_uvarint(leaf.stream, offset + 1).next = run.next
          /\ Rs!U32(run.value) = run.value
      BY <1>2, <2>2, <3>2, RsUvarint
    <3> DEFINE last == [offset |-> offset, block_id |-> block_id, list |-> results,
                        panicked |-> FALSE]
    <3>4. PICK t \in 1 .. Size : t - 1 <= offset /\ Rs!Records(leaf)[t] = Rs!Record(leaf, last)
      <4>1. RsAt(offset)
        BY <2>1, <2>6, <3>1, PanicStays DEF RsInv
      <4> QED BY <2>1, <2>2, <4>1, RsTurn
    <3>5. Rs!Byte(leaf.stream, offset) % 4 = 0
      <4>1. Rs!Byte(leaf.stream, offset) = Port!Byte(leaf.stream, offset)
        BY RsIsPort
      <4>2. Port!Byte(leaf.stream, offset) = Byte(offset)
        BY <2>2, PortByte
      <4> QED BY <2>1, <4>1, <4>2
    <3>6. last.offset = offset /\ last.block_id = block_id /\ last.list = results
      OBVIOUS
    <3> HIDE DEF last, run, blanks
    <3>8. Rs!Record(leaf, last)
              = [offset |-> run.next, block_id |-> block_id + run.value,
                 list |-> results \o [i \in 1 .. run.value |->
                                          [bid |-> block_id + i - 1, data |-> None]],
                 panicked |-> FALSE]
      BY <3>3, <3>5, <3>6 DEF Rs!Record, Rs!AfterRun, Rs!AfterBlock
    <3>9. Rs!Records(leaf)[t] = [offset |-> offset', block_id |-> block_id',
                                 list |-> results', panicked |-> FALSE]
      BY <2>1, <3>4, <3>8 DEF blanks, EmptyEntries
    <3>10. t \in 0 .. Size /\ t <= offset'
      BY <2>1, <2>2, <2>3, <3>4
    <3>11. leaf' = leaf /\ Size' = Size
      BY <2>1 DEF Size
    <3> QED BY <3>9, <3>10, <3>11 DEF RsAt
  <2> QED BY <2>1, <2>4, <2>6 DEF RsInv
<1> QED BY <1>1, <1>2

\* The header of a block
LEMMA RsBlockHeader ==
    ASSUME leaf \in Leaves, IInv, JsInv, NEW mayPanic, RsInv(mayPanic), BlockHeader
    PROVE  RsInv(mayPanic)'
<1> DEFINE count == Uvarint(leaf.stream, offset + 1)
           enc == (Header \div 4) % 4
<1>1. CASE count = None
  BY <1>1, RsFail DEF BlockHeader
<1>2. CASE count # None
  <2>1. /\ n_b' = BlockPositions /\ encoding' = enc /\ k' = count.value
        /\ offset' = count.next /\ indices' = <<>> /\ labels' = <<>> /\ bit' = 0
        /\ pc' = IndexLoop(enc)
        /\ UNCHANGED <<leaf, block_id, results, rank>>
        /\ pc = "record" /\ offset < Size /\ Byte(offset) % 4 = NON_EMPTY_BLOCK
    BY <1>2 DEF BlockHeader, AtRecord, MoreRecords, Header
  <2>2. /\ offset \in Nat /\ Size \in Nat /\ offset \in 0 .. Size - 1
        /\ offset + 1 \in 0 .. Size
    BY <2>1, SizeType DEF IInv, TypeOK
  <2>3. count.value \in Nat /\ n_b' \in Nat
    <3>1. count.value \in Nat
      BY <1>2, <2>2, UvarintType
    <3>2. leaf' \in Leaves /\ IInv'
      BY BlockHeaderStep
    <3> QED BY <3>1, <3>2 DEF IInv, TypeOK
  <2>4. pc' \in {"delta", "enum", "bitmap"}
    BY <2>1 DEF IndexLoop
  <2>5. /\ BlockPositions' = BlockPositions /\ (Legal' <=> Legal) /\ Size' = Size
        /\ \A p : Byte(p)' = Byte(p)
    BY <2>1 DEF BlockPositions, BlockSize, Legal, LegalEntries, PositionsIn, Size, Byte
  <2>7. ASSUME Legal', ~RsPanics(mayPanic)' PROVE RsReads'
    <3>1. PICK at \in 0 .. Size - 1 : at = offset
      BY <2>2
    <3>2. RsAt(at)
      BY <2>1, <2>5, <2>7, <3>1, PanicStays DEF RsInv
    <3>3. RsStarted(at)'
      <4>1. at < offset'
        <5>1. count.next \in (offset + 1 + 1) .. Size
          BY <1>2, <2>2, UvarintType
        <5> HIDE DEF count
        <5> QED BY <2>1, <2>2, <3>1, <5>1
      <4> QED BY <1>2, <2>1, <2>5, <3>1, <3>2, <4>1 DEF RsStarted, Started, RsAt, Header
    <3>4. PICK from : from = count.next
      OBVIOUS
    <3>5. RsProgress(from)'
      <4>1. CASE pc' = "delta"
        <5>1. Rs!GapsRead(leaf.stream, k', from)[0] = [indices |-> <<>>, next |-> from]
          <6>1. k' \in Nat
            BY <2>1, <2>3
          <6> HIDE DEF count, enc
          <6>2. /\ Rs!GapsRead(leaf.stream, k', from)[0] = [indices |-> <<>>, next |-> from]
                /\ \A i \in 1 .. k' :
                       Rs!GapsRead(leaf.stream, k', from)[i]
                           = Rs!ReadGap(leaf.stream, i, Rs!GapsRead(leaf.stream, k', from)[i - 1])
            BY <6>1, RsGapsLoop
          <6> QED BY <6>2
        <5>2. Len(indices') = 0
          BY <2>1
        <5>3. (Rs!GapsRead(leaf.stream, k, from)[Len(indices)]
                   = [indices |-> indices, next |-> offset])'
          BY <2>1, <3>4, <5>1, <5>2
        <5> QED BY <4>1, <5>3 DEF RsProgress
      <4>2. CASE pc' = "enum"
        BY <2>1, <3>4, <4>2 DEF RsProgress
      <4>3. CASE pc' = "bitmap"
        <5>1. Port!SetBits(leaf.stream, from, n_b')[0] = <<>>
          BY <2>3, SetBitsLoop
        <5>2. Rs!SetBits(leaf.stream, from, n_b')[0] = <<>>
          BY <5>1, RsIsPort
        <5>3. Lesser(bit', n_b') = 0
          BY <2>1, <2>3 DEF Lesser
        <5>4. (Rs!SetBits(leaf.stream, from, n_b)[Lesser(bit, n_b)] = indices)'
          BY <2>1, <5>2, <5>3
        <5> QED BY <2>1, <3>4, <4>3, <5>4 DEF RsProgress
      <4> QED BY <2>4, <4>1, <4>2, <4>3
    <3>6. from = Uvarint(leaf'.stream, at + 1).next
      BY <2>1, <3>1, <3>4
    <3>7. RsProgress(Uvarint(leaf.stream, at + 1).next)'
      BY <3>5, <3>6
    <3> QED BY <2>5, <3>3, <3>7 DEF RsReads
  <2> QED BY <2>1, <2>4, <2>5, <2>7 DEF RsInv, InBlock
<1> QED BY <1>1, <1>2

\* A block is read: the Rust decoder has made the same entry.
LEMMA RsBlockRead ==
    ASSUME leaf \in Leaves, IInv, JsInv, NEW mayPanic, RsInv(mayPanic), BlockRead,
           leaf.n_classes <= 127, mayPanic \in BOOLEAN,
           mayPanic \/ (encoding # RESERVED /\ k > 0)
    PROVE  RsInv(mayPanic)'
<1> DEFINE data == [indices |-> indices, labels |-> labels]
           entry == [bid |-> block_id, data |-> data]
<1>1. /\ pc = "labels" /\ Len(labels) = k
      /\ results' = Append(results, entry)
      /\ block_id' = block_id + 1
      /\ offset' = offset + NumBytes(k * BitsPerLabel)
      /\ pc' = "record"
      /\ UNCHANGED <<leaf, block>>
  BY DEF BlockRead
<1>2. /\ offset \in Nat /\ block_id \in Nat /\ k \in Nat
      /\ results \in Seq(BlockEntry) /\ Len(results) \in Nat
      /\ indices \in Seq(Int) /\ labels \in Seq(Int)
      /\ block_id < leaf.num_blocks /\ Ascending(indices) /\ Size \in Nat /\ n_b \in Nat
  BY <1>1, SizeType DEF IInv, TypeOK, Control, InBlock, SubsetInv
<1>3. InBlock /\ ~InBlock'
  BY <1>1 DEF InBlock
<1>4. /\ Len(results') = Len(results) + 1 /\ results'[Len(results) + 1] = entry
      /\ \A i \in 1 .. Len(results) : results'[i] = results[i]
  <2>1. entry \in BlockEntry
    BY <1>2 DEF BlockEntry
  <2> HIDE DEF entry
  <2> QED BY <1>1, <1>2, <2>1, AppendFacts
<1>5. n_b = BlockPositions /\ LabelsRead
  BY <1>3 DEF JsInv
<1>6. ASSUME Legal', ~RsPanics(mayPanic)' PROVE RsAt(offset)'
  <2>1. Legal
    <3>1. Len(results) <= Len(results') /\ Len(results') \in Nat
      BY <1>2, <1>4
    <3> QED BY <1>1, <1>2, <1>4, <1>6, <3>1, LegalBefore
  <2>2. Fits
    <3>1. entry.bid = block_id /\ entry.data = data /\ data.indices = indices
          /\ data.labels = labels /\ data # None
      <4>1. data # None
        BY <1>2, NoneAssumption
      <4> QED BY <4>1
    <3> HIDE DEF entry, data
    <3>2. Len(labels) = Len(indices)
          /\ \A p \in 1 .. Len(indices) : indices[p] \in 0 .. PositionsIn(block_id) - 1
      <4>1. Len(results) + 1 \in 1 .. Len(results')
        BY <1>2, <1>4
      <4>2. results'[Len(results) + 1].data # None
        BY <1>4, <3>1
      <4> QED BY <1>1, <1>4, <1>6, <3>1, <4>1, <4>2 DEF Legal, LegalEntries, PositionsIn, BlockSize
    <3>3. PositionsIn(block_id) = n_b
      BY <1>5 DEF PositionsIn, BlockPositions
    <3>4. k <= n_b
      <4>1. Len(indices) <= n_b
        BY <1>2, <3>2, <3>3, NoMoreThanFit
      <4> QED BY <1>1, <3>2, <4>1
    <3>5. k > 0 => offset < Size
      <4>1. k > 0 => 8 * offset + k * BitsPerLabel <= 8 * Size
        BY <1>1, <1>5, LabelsEnd
      <4>2. k * BitsPerLabel \in Nat /\ (k > 0 => k * BitsPerLabel > 0)
        <5> DEFINE w == BitsPerLabel
        <5>1. w \in 1 .. 8
          BY BitsPerLabelType
        <5> HIDE DEF w
        <5>2. k * w \in Nat /\ (k > 0 => k * w > 0)
          BY <1>2, <5>1, ProductType
        <5> QED BY <5>2 DEF w
      <4> QED BY <1>2, <4>1, <4>2
    <3> QED BY <3>2, <3>3, <3>4, <3>5 DEF Fits
  <2>3. PICK at \in 0 .. Size - 1 :
            RsStarted(at) /\ RsProgress(Uvarint(leaf.stream, at + 1).next)
    BY <1>1, <1>3, <1>6, <2>1, <2>2, PanicStays DEF RsInv, RsReads
  <2> DEFINE count == Uvarint(leaf.stream, at + 1)
             from == count.next
             found == RsIndices(from)
  <2>4. /\ RsAt(at) /\ Byte(at) % 4 = 1 /\ encoding = (Byte(at) \div 4) % 4
        /\ count # None /\ k = count.value /\ at + 1 \in 0 .. Size
    BY <1>2, <2>3 DEF RsStarted, Started, NON_EMPTY_BLOCK
  <2>5. IF found.panics THEN k = 0 ELSE found.indices = indices /\ found.next = offset
    BY <1>1, <2>3 DEF RsProgress
  <2>6. /\ Rs!decode_uvarint(leaf.stream, at + 1).value = k
        /\ Rs!decode_uvarint(leaf.stream, at + 1).next = from
        /\ Rs!U32(k) = k
    <3>1. count.value < 2 ^ (IntBits - 1)
      <4>1. /\ 2 ^ (IntBits - 1) \in Nat
            /\ \A v \in Nat : v <= n_b => v + 7 < 2 ^ (IntBits - 1)
        BY <1>3, PositionsFit
      <4>2. k <= n_b
        BY <2>2 DEF Fits
      <4>3. k + 7 < 2 ^ (IntBits - 1)
        BY <1>2, <4>1, <4>2
      <4> QED BY <1>2, <2>4, <4>1, <4>3
    <3> QED BY <2>4, <3>1, RsUvarint
  <2>7. Rs!Byte(leaf.stream, at) = Byte(at)
    <3>1. Port!Byte(leaf.stream, at) = Byte(at)
      BY <1>2, PortByte
    <3> QED BY <3>1, RsIsPort
  <2> DEFINE coded == Rs!decode_labels(leaf.stream, k, found.next, leaf.prediction,
                                       leaf.n_classes)
             B == Rs!decode_block(leaf.stream, n_b, at, leaf.prediction, leaf.n_classes)
             last == [offset |-> at, block_id |-> block_id, list |-> results,
                      panicked |-> FALSE]
  <2> HIDE DEF count, from, found
  <2>8. B = [data |-> [indices |-> found.indices, labels |-> coded.labels],
             next |-> coded.next,
             panics |-> encoding = 3 \/ found.panics \/ coded.panics]
    <3> DEFINE read == IF encoding = 0 THEN Rs!decode_delta_gaps(leaf.stream, k, from)
                       ELSE IF encoding = 1 THEN Rs!decode_enum_rank(leaf.stream, n_b, k, from)
                       ELSE Rs!decode_bitmap(leaf.stream, n_b, from)
    <3>1. read = found
      BY DEF found, RsIndices, DELTA_GAPS, ENUM_RANK
    <3> HIDE DEF read
    <3>2. B = [data |-> [indices |-> read.indices,
                         labels |-> Rs!decode_labels(leaf.stream, k, read.next,
                                        leaf.prediction, leaf.n_classes).labels],
               next |-> Rs!decode_labels(leaf.stream, k, read.next, leaf.prediction,
                                         leaf.n_classes).next,
               panics |-> \/ encoding = 3 \/ read.panics
                          \/ Rs!decode_labels(leaf.stream, k, read.next, leaf.prediction,
                                               leaf.n_classes).panics]
      BY <2>4, <2>6, <2>7 DEF Rs!decode_block, Rs!BlockOf, read
    <3> QED BY <3>1, <3>2
  <2> HIDE DEF coded, B
  <2>9. B.data = [indices |-> found.indices, labels |-> coded.labels] /\ B.next = coded.next
    BY <2>8
  <2>10. B.panics <=> encoding = 3 \/ found.panics \/ coded.panics
    BY <2>8, Zenon
  <2>11. PICK t \in 1 .. Size : t - 1 <= at /\ Rs!Records(leaf)[t] = Rs!Record(leaf, last)
    BY <1>2, <2>4, RsTurn
  <2>12. last.offset = at /\ last.block_id = block_id /\ last.list = results
    OBVIOUS
  <2>13. [last EXCEPT !.panicked = TRUE].panicked
    OBVIOUS
  <2> HIDE DEF last, data
  <2>14. Rs!Record(leaf, last) = Rs!AfterBlock(last, B)
    <3> DEFINE nB == IF block_id < leaf.num_blocks - 1 THEN leaf.block_size
                     ELSE Rs!U32(leaf.n_leaf - Rs!U32(block_id * leaf.block_size))
    <3>1. nB = n_b
      BY <1>2, <1>3, <1>5, RsPositions
    <3> HIDE DEF nB
    <3>2. Rs!Record(leaf, last)
              = Rs!AfterBlock(last, Rs!decode_block(leaf.stream, nB, at, leaf.prediction,
                                                    leaf.n_classes))
      BY <2>4, <2>7, <2>12 DEF Rs!Record, nB
    <3> QED BY <3>1, <3>2 DEF B
  <2>15. t \in 0 .. Size /\ leaf' = leaf /\ Size' = Size
    BY <1>1, <1>2 DEF Size
  <2>16. ~B.panics
    <3>1. SUFFICES ASSUME B.panics PROVE FALSE
      OBVIOUS
    <3>2. Rs!Records(leaf)[t] = [last EXCEPT !.panicked = TRUE]
      BY <2>11, <2>14, <3>1 DEF Rs!AfterBlock
    <3>3. Rs!Records(leaf)[t].panicked
      BY <2>13, <3>2
    <3>4. ~mayPanic
      BY <1>6, <2>15, <3>3 DEF RsPanics
    <3>5. encoding # RESERVED /\ k > 0
      BY <3>4
    <3>6. ~found.panics /\ found.next = offset
      BY <1>2, <2>5, <3>5
    <3>7. coded = [labels |-> labels, next |-> offset + NumBytes(k * BitsPerLabel),
                   panics |-> FALSE]
      BY <1>1, <1>5, <3>6, RsLabels DEF coded
    <3>8. ~coded.panics
      BY <3>7
    <3> QED BY <2>10, <3>1, <3>5, <3>6, <3>8 DEF RESERVED
  <2>17. found.indices = indices /\ found.next = offset
    BY <2>5, <2>10, <2>16
  <2>18. coded = [labels |-> labels, next |-> offset + NumBytes(k * BitsPerLabel),
                  panics |-> FALSE]
    BY <1>1, <1>5, <2>17, RsLabels DEF coded
  <2>19. B.data = data /\ B.next = offset'
    <3>1. coded.labels = labels /\ coded.next = offset'
      BY <1>1, <2>18
    <3> QED BY <2>9, <2>17, <3>1 DEF data
  <2>20. Rs!Record(leaf, last)
             = [offset |-> offset', block_id |-> block_id + 1,
                list |-> Append(results, [bid |-> block_id, data |-> data]),
                panicked |-> FALSE]
    BY <2>12, <2>14, <2>16, <2>19 DEF Rs!AfterBlock
  <2>21. Rs!Records(leaf)[t] = [offset |-> offset', block_id |-> block_id',
                                list |-> results', panicked |-> FALSE]
    BY <1>1, <2>11, <2>20
  <2>22. t <= offset'
    <3>1. at < offset /\ NumBytes(k * BitsPerLabel) \in Nat
      <4>1. k * BitsPerLabel \in Nat
        BY <1>2, BitsPerLabelType, ProductType
      <4> QED BY <2>3, <4>1, NumBytesType DEF RsStarted, Started
    <3> QED BY <1>1, <1>2, <2>11, <3>1
  <2> QED BY <2>15, <2>21, <2>22 DEF RsAt
<1> QED BY <1>1, <1>3, <1>6 DEF RsInv

\* Every step keeps the Rust decoder in step.
LEMMA RsNext ==
    ASSUME PascalsRule, leaf \in Leaves, IInv, JsInv, leaf.n_classes <= 127,
           RanksFit, RanksFit', NEW mayPanic \in BOOLEAN, RsInv(mayPanic),
           InBlock => mayPanic \/ (encoding # RESERVED /\ k > 0),
           [Next]_vars
    PROVE  RsInv(mayPanic)'
<1>1. CASE Return
  BY <1>1, RsReturn
<1>2. CASE UnknownRecord
  BY <1>2, RsFail DEF UnknownRecord
<1>3. CASE EmptyRun
  BY <1>3, RsEmptyRun
<1>4. CASE BlockHeader
  BY <1>4, RsBlockHeader
<1>5. CASE DeltaGap
  BY <1>5, RsDeltaGap
<1>6. CASE EnumRank
  BY <1>6, RsEnumRank
<1>7. CASE Unrank
  BY <1>7, RsUnrank
<1>8. CASE BitmapBit
  BY <1>8, RsBitmapBit
<1>9. CASE IndicesRead
  BY <1>9, RsIndicesRead
<1>10. CASE Label
  BY <1>10, RsOneLabel
<1>11. CASE BlockRead
  <2>1. InBlock
    BY <1>11 DEF BlockRead, InBlock
  <2> QED BY <1>11, <2>1, RsBlockRead
<1>12. CASE UNCHANGED vars
  <2>1. UNCHANGED <<leaf, pc, offset, block_id, results, n_b, encoding, k,
                    indices, labels, rank, bit>>
    BY <1>12 DEF vars, block
  <2>2. /\ Size' = Size /\ (Legal' <=> Legal) /\ (Fits' <=> Fits) /\ (InBlock' <=> InBlock)
        /\ \A at : RsAt(at)' <=> RsAt(at)
        /\ \A from : RsProgress(from)' <=> RsProgress(from)
    BY <2>1 DEF Size, Legal, LegalEntries, PositionsIn, BlockSize, Fits, InBlock,
                RsAt, RsProgress, RsIndices, Upper
  <2>3. RsPanics(mayPanic) => RsPanics(mayPanic)'
    BY <2>1, PanicStays
  <2>4. \A at : RsStarted(at)' <=> RsStarted(at)
    BY <2>1, <2>2 DEF RsStarted, Started, Byte
  <2>5. RsReads => RsReads'
    <3>1. ASSUME NEW at \in 0 .. Size - 1, RsStarted(at),
                 RsProgress(Uvarint(leaf.stream, at + 1).next)
          PROVE  RsReads'
      <4>1. RsStarted(at)'
        BY <2>4, <3>1
      <4>2. PICK from : from = Uvarint(leaf.stream, at + 1).next
        OBVIOUS
      <4>3. RsProgress(from)'
        BY <2>2, <3>1, <4>2
      <4>4. from = Uvarint(leaf'.stream, at + 1).next
        BY <2>1, <4>2
      <4>5. RsProgress(Uvarint(leaf.stream, at + 1).next)'
        BY <4>3, <4>4
      <4> QED BY <2>2, <4>1, <4>5 DEF RsReads
    <3> QED BY <3>1 DEF RsReads
  <2> QED BY <2>1, <2>2, <2>3, <2>5 DEF RsInv
<1> QED
  BY <1>1, <1>2, <1>3, <1>4, <1>5, <1>6, <1>7, <1>8, <1>9, <1>10, <1>11, <1>12
  DEF Next, Step, Terminating

\* At the end the two lists are the same, or the port has panicked.
LEMMA RsDone ==
    ASSUME leaf \in Leaves, IInv, JsInv, NEW mayPanic, RsInv(mayPanic), pc = "done", Legal
    PROVE  \/ Rs!decode_record_stream(leaf) = results
           \/ mayPanic /\ Rs!decode_record_stream(leaf) = Failed
<1>1. Size \in Nat /\ Len(leaf.stream) = Size /\ offset \in Nat /\ block_id \in Nat
      /\ leaf.num_blocks \in Nat
  BY SizeType, LeafAssumption DEF Size, IInv, TypeOK
<1>2. CASE RsAt(offset)
  <2> DEFINE last == [offset |-> offset, block_id |-> block_id, list |-> results,
                      panicked |-> FALSE]
  <2>1. PICK t \in 0 .. Size : Rs!Records(leaf)[t] = last
    BY <1>2 DEF RsAt
  <2>2. last.offset = offset /\ last.block_id = block_id /\ last.list = results /\ ~last.panicked
    OBVIOUS
  <2> HIDE DEF last
  <2>3. Rs!Ended(leaf, last)
    <3>1. block_id >= leaf.num_blocks \/ offset >= Size
      BY <1>1 DEF JsInv, MoreRecords
    <3> QED BY <1>1, <2>2, <3>1 DEF Rs!Ended
  <2>4. Rs!Records(leaf)[Size] = last
    BY <2>1, <2>3, RsEnds
  <2>5. Rs!Records(leaf)[Len(leaf.stream)] = last
    BY <1>1, <2>4
  <2> QED BY <2>2, <2>5 DEF Rs!decode_record_stream, Rs!Outcome
<1>3. CASE RsPanics(mayPanic)
  <2>1. PICK t \in 0 .. Size : Rs!Records(leaf)[t].panicked
    BY <1>3 DEF RsPanics
  <2>2. Rs!Ended(leaf, Rs!Records(leaf)[t])
    BY <2>1 DEF Rs!Ended
  <2>3. Rs!Records(leaf)[Size] = Rs!Records(leaf)[t]
    BY <2>2, RsEnds
  <2>4. Rs!Records(leaf)[Len(leaf.stream)] = Rs!Records(leaf)[t]
    BY <1>1, <2>3
  <2>5. Rs!decode_record_stream(leaf) = Failed
    BY <2>1, <2>4 DEF Rs!decode_record_stream, Rs!Outcome
  <2> QED BY <1>3, <2>5 DEF RsPanics
<1> QED BY <1>2, <1>3 DEF RsInv

\* The Rust decoder keeps step with Python on whatever bytes, as long as u128
\* holds the ranks and the products of its binomials, or it panics.
THEOREM RustKeepsStep ==
    ASSUME PascalsRule, ClassesFit
    PROVE  Spec /\ []RanksFit => []RsInv(TRUE)
<1> DEFINE Inv == leaf \in Leaves /\ IInv /\ JsInv /\ RsInv(TRUE)
<1>1. Init => Inv
  BY InitInv, JsInit, RsInit
<1>2. Inv /\ RanksFit /\ RanksFit' /\ [Next]_vars => Inv'
  <2> SUFFICES ASSUME Inv, RanksFit, RanksFit', [Next]_vars PROVE Inv'
    OBVIOUS
  <2>1. leaf.n_classes <= 127
    BY DEF ClassesFit
  <2>2. (leaf \in Leaves /\ IInv)' /\ JsInv'
    BY NextInv, JsNext
  <2>3. RsInv(TRUE)'
    BY <2>1, RsNext
  <2> QED BY <2>2, <2>3
<1>3. Inv => RsInv(TRUE)
  OBVIOUS
<1> HIDE DEF Inv
<1> QED BY <1>1, <1>2, <1>3, PTL DEF Spec

\* The list that Python makes of whatever bytes, if it is legal, is the one
\* that the Rust decoder makes, or that one panics.
THEOREM RustPortAgrees ==
    ASSUME PascalsRule, ClassesFit
    PROVE  Spec /\ []RanksFit => []RustAgrees
<1>1. Init => leaf \in Leaves /\ IInv
  BY InitInv
<1>2. leaf \in Leaves /\ IInv /\ [Next]_vars => (leaf \in Leaves /\ IInv)'
  BY NextInv
<1>3. leaf \in Leaves /\ IInv /\ JsInv /\ RsInv(TRUE) => RustAgrees
  BY RsDone DEF RustAgrees
<1> QED BY <1>1, <1>2, <1>3, JavaScriptKeepsStep, RustKeepsStep, PTL DEF Spec

-----------------------------------------------------------------------------
(* Leaves that are written *)

\* A block is read in the encoding it was written in, one of three.
KnownEncoding ==
    InBlock => /\ encoding # RESERVED
               /\ encoding = (HeaderOf(leaf, block_id + 1) \div 4) % 4

\* Every step keeps that so.
LEMMA WrittenEncodings ==
    ASSUME IInv, leaf \in Leaves, IsWritten(leaf), ReadInv, KnownEncoding, [Next]_vars
    PROVE  KnownEncoding'
<1>1. CASE BlockHeader
  <2> DEFINE b == block_id + 1
             enc == (Header \div 4) % 4
  <2>1. pc = "record" /\ MoreRecords /\ Header % 4 = NON_EMPTY_BLOCK
    BY <1>1 DEF BlockHeader, AtRecord
  <2>2. b \in 1 .. Len(leaf.blocks) /\ Header = HeaderOf(leaf, b)
    BY <2>1, AtARecord DEF MoreRecords
  <2>3. BlockAt(leaf, b)
    BY <2>1, BlockKind
  <2>4. PICK from \in 0 .. Len(leaf.stream) : IndicesAt(leaf, b, enc, from)
    BY <2>2, <2>3 DEF BlockAt
  <2>5. enc # RESERVED
    <3> HIDE DEF enc
    <3> QED BY <2>4 DEF IndicesAt, DELTA_GAPS, ENUM_RANK, BITMAP, RESERVED
  <2>6. encoding' = enc \/ ~InBlock'
    BY <1>1 DEF BlockHeader, Fail, InBlock
  <2>7. leaf' = leaf /\ (block_id' = block_id \/ ~InBlock')
    BY <1>1 DEF BlockHeader, Fail, InBlock
  <2> QED BY <2>2, <2>5, <2>6, <2>7 DEF KnownEncoding, HeaderOf
<1>2. CASE ~BlockHeader
  <2>1. /\ InBlock' => InBlock /\ encoding' = encoding /\ block_id' = block_id
        /\ leaf' = leaf
    BY <1>2 DEF Next, Step, Terminating, vars, block, Return, UnknownRecord, EmptyRun, DeltaGap,
                EnumRank, Unrank, BitmapBit, IndicesRead, Label, BlockRead, AtRecord, Fail, InBlock
  <2> QED BY <2>1 DEF KnownEncoding, HeaderOf
<1> QED BY <1>1, <1>2

\* If the ranks that were written fit, those that are left while one is
\* unranked do.
LEMMA WrittenRanks ==
    ASSUME IInv, leaf \in Leaves, IsWritten(leaf), ReadInv, KnownEncoding, WrittenRanksFit
    PROVE  RanksFit
<1> SUFFICES ASSUME pc = "unrank" PROVE rank < 2 ^ RankBits /\ BinomialsFit(n_b, k)
  BY DEF RanksFit
<1> DEFINE b == block_id + 1
<1>1. TheBlock /\ Remains(Written.indices, Part.ranks) /\ encoding = ENUM_RANK
  BY DEF InBlock, ReadInv, Progress, IInv, Control
<1>2. /\ b \in 1 .. Len(leaf.blocks)
      /\ leaf.blocks[b] # None /\ (HeaderOf(leaf, b) \div 4) % 4 = ENUM_RANK
  BY <1>1 DEF TheBlock, BlockAt, KnownEncoding, InBlock
<1>3. /\ BinomialsFit(PositionsOf(leaf, b), Len(leaf.blocks[b].indices))
      /\ \A m \in 0 .. Len(leaf.blocks[b].indices) :
             leaf.layout[b].ranks[m] < 2 ^ RankBits
  BY <1>2 DEF WrittenRanksFit
<1>4. k = Len(leaf.blocks[b].indices) /\ n_b = PositionsOf(leaf, b)
  BY <1>1 DEF TheBlock, Written
<1>5. k - Len(indices) \in 0 .. k
  <2>1. Len(indices) <= k
    BY DEF IInv, Control
  <2>2. Len(indices) \in Nat /\ k \in Nat
    BY <1>1, BlockFacts DEF IInv, TypeOK
  <2> QED BY <2>1, <2>2
<1>6. rank = leaf.layout[b].ranks[k - Len(indices)]
  BY <1>1 DEF Remains, Part
<1> QED BY <1>3, <1>4, <1>5, <1>6

\* Where the ranks that were written fit, every rank fits that the call meets.
THEOREM WrittenRanksStay ==
    ASSUME PascalsRule, LeavesAreWritten, WrittenRanksFit
    PROVE  Spec => []RanksFit
<1> DEFINE Inv == leaf \in Leaves /\ IInv /\ ReadInv /\ KnownEncoding
<1>1. Init => Inv
  <2> SUFFICES ASSUME Init PROVE Inv
    OBVIOUS
  <2>1. leaf \in Leaves /\ IInv
    BY InitInv
  <2>2. ReadInv
    BY <2>1, InitReads DEF LeavesAreWritten
  <2>3. KnownEncoding
    BY DEF KnownEncoding, InBlock, Init
  <2> QED BY <2>1, <2>2, <2>3
<1>2. Inv /\ [Next]_vars => Inv'
  <2> SUFFICES ASSUME Inv, [Next]_vars PROVE Inv'
    OBVIOUS
  <2>1. IsWritten(leaf)
    BY DEF LeavesAreWritten
  <2> QED BY <2>1, NextInv, NextReads, WrittenEncodings
<1>3. Inv => RanksFit
  BY WrittenRanks DEF LeavesAreWritten
<1> HIDE DEF Inv
<1> QED BY <1>1, <1>2, <1>3, PTL DEF Spec

\* The Rust decoder reads whatever an encoder wrote, and does not panic.
THEOREM RustReadsBack ==
    ASSUME PascalsRule, ClassesFit, LeavesAreWritten, WrittenRanksFit
    PROVE  Spec => []RustReadsWritten
<1> DEFINE Inv == /\ leaf \in Leaves /\ IInv /\ JsInv /\ RsInv(FALSE)
                  /\ ReadInv /\ LegalEntries /\ KnownEncoding
<1>1. Init => Inv
  <2> SUFFICES ASSUME Init PROVE Inv
    OBVIOUS
  <2>1. leaf \in Leaves /\ IInv /\ JsInv /\ RsInv(FALSE)
    BY InitInv, JsInit, RsInit
  <2>2. ReadInv
    BY <2>1, InitReads DEF LeavesAreWritten
  <2>3. LegalEntries /\ KnownEncoding
    BY DEF LegalEntries, KnownEncoding, InBlock, Init
  <2> QED BY <2>1, <2>2, <2>3
<1>2. Inv /\ RanksFit /\ RanksFit' /\ [Next]_vars => Inv'
  <2> SUFFICES ASSUME Inv, RanksFit, RanksFit', [Next]_vars PROVE Inv'
    OBVIOUS
  <2>1. IsWritten(leaf) /\ leaf.n_classes <= 127
    BY DEF LeavesAreWritten, ClassesFit
  <2>2. (leaf \in Leaves /\ IInv)' /\ JsInv'
    BY NextInv, JsNext
  <2>3. InBlock => encoding # RESERVED /\ k > 0
    <3>1. ASSUME InBlock PROVE k > 0
      <4>1. k \in Nat \ {0}
        BY <2>1, <3>1, BlockFacts DEF ReadInv
      <4> QED BY <4>1
    <3> QED BY <3>1 DEF KnownEncoding
  <2>4. RsInv(FALSE)'
    BY <2>1, <2>3, RsNext
  <2>5. ReadInv' /\ LegalEntries' /\ KnownEncoding'
    BY <2>1, NextReads, WrittenEntries, WrittenEncodings
  <2> QED BY <2>2, <2>4, <2>5
<1>3. Inv => RustReadsWritten
  <2> SUFFICES ASSUME Inv, pc = "done" PROVE Rs!decode_record_stream(leaf) = results
    BY DEF RustReadsWritten
  <2>1. Len(results) = block_id /\ block_id = Len(leaf.blocks)
    BY DEF IInv, ListInv, BlocksInOrder, ReadInv
  <2>2. leaf.num_blocks = Len(leaf.blocks)
    BY BlocksOfLeaf DEF LeavesAreWritten
  <2>3. Legal
    BY <2>1, <2>2, PortsFit DEF Legal
  <2> QED BY <2>3, RsDone
<1> HIDE DEF Inv
<1> QED BY <1>1, <1>2, <1>3, WrittenRanksStay, PTL DEF Spec

==============================================================================
