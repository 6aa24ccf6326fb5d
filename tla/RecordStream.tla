----------------------------- MODULE RecordStream -----------------------------
(***************************************************************************)
(* decode_record_stream (codec/v18_codec.py) and everything it calls:      *)
(* decode_empty_run, decode_block, the three index decoders and the label  *)
(* decoder of codec/residual_v18.py, and unrank_subset of                  *)
(* codec/combinadic.py.  A behaviour decodes one leaf chosen from Leaves;  *)
(* every iteration of a loop of the code is one step, except that of the   *)
(* loop over a run of empty blocks, which reads nothing: EmptyRun appends  *)
(* the whole run, as the code does before anything else happens.           *)
(*                                                                         *)
(* Offsets are those of the code (0-based).  An exception, of whichever    *)
(* class, ends the call with pc = "error".                                 *)
(***************************************************************************)
EXTENDS Sequences, Combinadic, BlockList

CONSTANTS
    Leaves,         \* the arguments of the call: [stream, num_blocks, n_leaf,
                    \* prediction, block_size, n_classes]
    Uvarint(_, _),  \* leb128.u.decode_reader on data[offset:], None at EOF
    FromBytes(_)    \* int.from_bytes(_, 'big')

ASSUME NoneAssumption ==
    /\ None \notin Int
    /\ None \notin [indices : Seq(Int), labels : Seq(Int)]

\* The headers considered are those whose last block starts inside the leaf;
\* n_classes is one byte of the file header.
ASSUME LeafAssumption ==
    \A l \in Leaves :
        /\ l.stream \in Seq(0 .. 255)
        /\ l.num_blocks \in Nat
        /\ l.n_leaf \in Nat
        /\ l.block_size \in Nat \ {0}
        /\ l.n_classes \in 0 .. 255
        /\ l.n_leaf >= (l.num_blocks - 1) * l.block_size
        /\ l.prediction \in Int \cup {None}

\* What the code relies on of the three library functions it calls.
ASSUME UvarintAssumption ==
    \A l \in Leaves : \A o \in 0 .. Len(l.stream) :
        \/ Uvarint(l.stream, o) = None
        \/ /\ Uvarint(l.stream, o) # None
           /\ Uvarint(l.stream, o).value \in Nat
           /\ Uvarint(l.stream, o).next \in (o + 1) .. Len(l.stream)

ASSUME CombAssumption ==
    \A most \in {l.block_size + l.n_leaf : l \in Leaves} :
        \A n \in 0 .. most : \A j \in 0 .. n : Comb(n, j) \in Nat

Lesser(a, b) == IF a <= b THEN a ELSE b

\* data[offset:offset + rank_len], which may be cut short
RankBytes(stream, rank_len) ==
    SubSeq(stream, rank_len.next + 1,
           Lesser(rank_len.next + rank_len.value, Len(stream)))

ASSUME FromBytesAssumption ==
    \A l \in Leaves : \A o \in 0 .. Len(l.stream) :
        Uvarint(l.stream, o) # None =>
            FromBytes(RankBytes(l.stream, Uvarint(l.stream, o))) \in Nat

VARIABLES
    leaf,       \* the arguments of the call
    pc,         \* the loop the call is in
    offset,     \* read position in leaf.stream
    block_id,   \* next block
    results,    \* the list under construction
    n_b,        \* positions in the current block
    encoding,   \* index encoding of the current block
    k,          \* its number of mismatches, as read
    indices,    \* its indices so far
    labels,     \* its labels so far
    rank,       \* what is left of its combinadic rank
    bit         \* next bit of its bitmap

block == <<n_b, encoding, k, indices, labels, rank, bit>>
vars == <<leaf, pc, offset, block_id, results, block>>

EMPTY_RUN == 0
NON_EMPTY_BLOCK == 1

DELTA_GAPS == 0
ENUM_RANK == 1
BITMAP == 2
RESERVED == 3

-----------------------------------------------------------------------------
(* Bytes and bits *)

BlockSize == leaf.block_size
NClasses == leaf.n_classes
Size == Len(leaf.stream)
Byte(p) == leaf.stream[p + 1]
Header == Byte(offset)

\* 2^w for the widths w of the format
Pow2(w) == <<1, 2, 4, 8, 16, 32, 64, 128, 256>>[w + 1]

NumBytes(bits) == (bits + 7) \div 8

WindowOfOneByte(b) == Byte(b)  \* mutant: codes do not cross bytes

\* The 16-bit window at byte b; what lies past the end is never looked at
Window(b) == Byte(b) + (IF b + 1 < Size THEN 256 * Byte(b + 1) ELSE 0)

\* The bytes that hold these bits exist; otherwise data[byte_idx] raises
BitsPresent(pos, width) == (pos + width - 1) \div 8 < Size
ExtractBits(pos, width) == (Window(pos \div 8) \div Pow2(pos % 8)) % Pow2(width)

-----------------------------------------------------------------------------
(* Labels *)

IsLegacy == NClasses = 0 \/ NClasses = 3
LowestClass == IF IsLegacy THEN -1 ELSE 0
HighestClass == IF IsLegacy THEN 1 ELSE NClasses - 1
AllClasses == LowestClass .. HighestClass

Conditional == leaf.prediction # None
Excludes == leaf.prediction \in AllClasses
NumRemaining == HighestClass - LowestClass + 1 - (IF Excludes THEN 1 ELSE 0)

\* max(1, ceil(log2(m))), and 1 where the code takes no logarithm
BitWidth(m) == IF m <= 2 THEN 1 ELSE Cardinality({w \in 0 .. 7 : Pow2(w) < m})

BitsPerLabel ==
    IF Conditional THEN BitWidth(NumRemaining)
    ELSE IF IsLegacy THEN 2
    ELSE BitWidth(NClasses)

AnyClass(code) == LowestClass + code  \* mutant: the prediction stays in

\* remaining[code]: the classes in order, the prediction left out
Remaining(code) ==
    IF Excludes /\ LowestClass + code >= leaf.prediction
    THEN LowestClass + code + 1
    ELSE LowestClass + code

LabelOf(code) ==
    IF Conditional THEN Remaining(code)
    ELSE IF IsLegacy THEN code - 1
    ELSE code

-----------------------------------------------------------------------------
(* The outer loop *)

Init ==
    /\ leaf \in Leaves
    /\ pc = "record"
    /\ offset = 0
    /\ block_id = 0
    /\ results = <<>>
    /\ n_b = 0
    /\ encoding = DELTA_GAPS
    /\ k = 0
    /\ indices = <<>>
    /\ labels = <<>>
    /\ rank = 0
    /\ bit = 0

OneMoreRecord ==  \* mutant: off by one
    block_id <= leaf.num_blocks /\ offset < Size

MoreRecords == block_id < leaf.num_blocks /\ offset < Size

Fail == pc' = "error" /\ UNCHANGED <<leaf, offset, block_id, results, block>>

ReturnWithAllBlocks ==  \* mutant: waits for blocks a short stream never brings
    /\ pc = "record"
    /\ block_id = leaf.num_blocks
    /\ pc' = "done"
    /\ UNCHANGED <<leaf, offset, block_id, results, block>>

Return ==
    /\ pc = "record"
    /\ ~MoreRecords
    /\ pc' = "done"
    /\ UNCHANGED <<leaf, offset, block_id, results, block>>

AtRecord(type) == pc = "record" /\ MoreRecords /\ Header % 4 = type

UnknownRecord ==
    /\ \E type \in {2, 3} : AtRecord(type)
    /\ Fail

SameBlockEntries(n) ==  \* mutant: block_id does not advance with the run
    [i \in 1 .. n |-> [bid |-> block_id, data |-> None]]

EmptyEntries(n) ==
    [i \in 1 .. n |-> [bid |-> block_id + i - 1, data |-> None]]

EmptyRun ==
    /\ AtRecord(EMPTY_RUN)
    /\ LET run == Uvarint(leaf.stream, offset + 1)
       IN  IF run = None THEN Fail
           ELSE /\ results' = results \o EmptyEntries(run.value)
                /\ block_id' = block_id + run.value
                /\ offset' = run.next
                /\ UNCHANGED <<leaf, pc, block>>

-----------------------------------------------------------------------------
(* decode_block: the record's header, its indices, its labels *)

BlockPositions ==
    IF block_id < leaf.num_blocks - 1
    THEN BlockSize
    ELSE leaf.n_leaf - block_id * BlockSize

\* RESERVED takes the else branch and is read as a bitmap
IndexLoop(enc) ==
    CASE enc = DELTA_GAPS -> "delta"
      [] enc = ENUM_RANK -> "enum"
      [] OTHER -> "bitmap"

BlockHeader ==
    /\ AtRecord(NON_EMPTY_BLOCK)
    /\ LET count == Uvarint(leaf.stream, offset + 1)
           enc == (Header \div 4) % 4
       IN  IF count = None THEN Fail
           ELSE /\ n_b' = BlockPositions
                /\ encoding' = enc
                /\ k' = count.value
                /\ offset' = count.next
                /\ indices' = <<>>
                /\ labels' = <<>>
                /\ bit' = 0
                /\ pc' = IndexLoop(enc)
                /\ UNCHANGED <<leaf, block_id, results, rank>>

IndexAtGap(gap) ==  \* mutant: the gap is taken from the last index itself
    IF indices = <<>> THEN gap ELSE indices[Len(indices)] + gap

IndexAfterGap(gap) ==
    IF indices = <<>> THEN gap ELSE indices[Len(indices)] + 1 + gap

DeltaGap ==
    /\ pc = "delta"
    /\ Len(indices) < k
    /\ LET gap == Uvarint(leaf.stream, offset)
       IN  IF gap = None THEN Fail
           ELSE /\ indices' = Append(indices, IndexAfterGap(gap.value))
                /\ offset' = gap.next
                /\ UNCHANGED <<leaf, pc, block_id, results, n_b, encoding, k,
                               labels, rank, bit>>

WholeBlock == [i \in 1 .. n_b |-> i - 1]  \* mutant: range(n) for range(k)

\* list(range(k)): a rank of no bytes stands for the first k positions,
\* whatever n_b is.
FirstSubset == [i \in 1 .. k |-> i - 1]

EnumRank ==
    /\ pc = "enum"
    /\ k > 0
    /\ LET rank_len == Uvarint(leaf.stream, offset)
       IN  \/ rank_len = None /\ Fail
           \/ /\ rank_len # None
              /\ rank_len.value = 0
              /\ indices' = FirstSubset
              /\ offset' = rank_len.next
              /\ pc' = "labels"
              /\ UNCHANGED <<leaf, block_id, results, n_b, encoding, k,
                             labels, rank, bit>>
           \/ /\ rank_len # None
              /\ rank_len.value > 0
              /\ rank' = FromBytes(RankBytes(leaf.stream, rank_len))
              /\ offset' = rank_len.next + rank_len.value
              /\ pc' = "unrank"
              /\ UNCHANGED <<leaf, block_id, results, n_b, encoding, k,
                             indices, labels, bit>>

\* One j of unrank_subset, which fills the subset from its largest element.
UpperWithLast == IF indices = <<>> THEN n_b - 1 ELSE indices[1]  \* mutant

Upper == IF indices = <<>> THEN n_b - 1 ELSE indices[1] - 1

Unrank ==
    /\ pc = "unrank"
    /\ Len(indices) < k
    /\ LET j == k - Len(indices)
           i == FindLargestBinomLe(rank, j, j - 1, Upper)
       IN  /\ indices' = <<i>> \o indices
           /\ rank' = rank - Binom(i, j)
    /\ UNCHANGED <<leaf, pc, offset, block_id, results, n_b, encoding, k,
                   labels, bit>>

\* Bits the slice data[offset:offset + num_bytes] holds: it may be cut short
BitmapBits == 8 * (Lesser(offset + NumBytes(n_b), Size) - offset)

BitSet == (Byte(offset + bit \div 8) \div Pow2(bit % 8)) % 2 = 1

\* Padding bits of the last byte do not count
BitCounts == BitSet /\ bit < n_b

BitmapBit ==
    /\ pc = "bitmap"
    /\ bit < BitmapBits
    /\ bit' = bit + 1
    /\ indices' = IF BitCounts THEN Append(indices, bit) ELSE indices
    /\ UNCHANGED <<leaf, pc, offset, block_id, results, n_b, encoding, k,
                   labels, rank>>

IndicesRead ==
    /\ \/ /\ pc \in {"delta", "unrank"}
          /\ Len(indices) = k
          /\ UNCHANGED offset
       \/ /\ pc = "enum"
          /\ k = 0
          /\ UNCHANGED offset
       \/ /\ pc = "bitmap"
          /\ bit >= BitmapBits
          /\ offset' = offset + NumBytes(n_b)
    /\ pc' = "labels"
    /\ UNCHANGED <<leaf, block_id, results, block>>

\* One label.  The read past the end and remaining[code] raise IndexError.
Label ==
    /\ pc = "labels"
    /\ Len(labels) < k
    /\ LET pos == 8 * offset + Len(labels) * BitsPerLabel
           code == ExtractBits(pos, BitsPerLabel)
       IN  IF ~BitsPresent(pos, BitsPerLabel) THEN Fail
           ELSE IF Conditional /\ code >= NumRemaining THEN Fail
           ELSE /\ labels' = Append(labels, LabelOf(code))
                /\ UNCHANGED <<leaf, pc, offset, block_id, results, n_b,
                               encoding, k, indices, rank, bit>>

BlockRead ==
    /\ pc = "labels"
    /\ Len(labels) = k
    /\ results' = Append(results,
            [bid |-> block_id, data |-> [indices |-> indices, labels |-> labels]])
    /\ block_id' = block_id + 1
    /\ offset' = offset + NumBytes(k * BitsPerLabel)
    /\ pc' = "record"
    /\ UNCHANGED <<leaf, block>>

Terminating == pc \in {"done", "error"} /\ UNCHANGED vars

Step ==
    \/ Return \/ UnknownRecord \/ EmptyRun
    \/ BlockHeader \/ DeltaGap \/ EnumRank \/ Unrank \/ BitmapBit
    \/ IndicesRead \/ Label \/ BlockRead

Next == Step \/ Terminating

Spec == Init /\ [][Next]_vars

\* The call runs on its thread until it returns or raises.
FairSpec == Spec /\ WF_vars(Step)

-----------------------------------------------------------------------------
(* Correctness *)

TypeOK ==
    /\ pc \in {"record", "delta", "enum", "unrank", "bitmap", "labels",
               "done", "error"}
    /\ offset \in Nat
    /\ block_id \in Nat
    /\ results \in Seq(BlockEntry)
    /\ n_b \in Nat
    /\ encoding \in DELTA_GAPS .. RESERVED
    /\ k \in Nat
    /\ indices \in Seq(Int)
    /\ labels \in Seq(Int)
    /\ rank \in Nat
    /\ bit \in Nat

\* The list names the blocks 0, 1, 2, ... in order: runs and blocks together
\* skip none and count none twice (decode_record_stream).
BlocksInOrder ==
    /\ Len(results) = block_id
    /\ \A i \in 1 .. Len(results) : results[i].bid = i - 1

\* However the bytes read, the indices of a block come out sorted and unique
\* (two of the assertions of BlockData.validate, which no decoder calls).
AscendingIndices ==
    /\ Ascending(indices)
    /\ \A i \in 1 .. Len(results) :
           results[i].data # None => Ascending(results[i].data.indices)

\* An ENUM_RANK block whose k fits it and every BITMAP block stay inside the
\* block, at whichever byte the stream is cut (decode_enum_rank, decode_bitmap).
IndicesInBlock ==
    (encoding # DELTA_GAPS /\ (encoding = ENUM_RANK => k <= n_b)) =>
        \A i \in 1 .. Len(indices) : indices[i] \in 0 .. n_b - 1

\* DELTA_GAPS and ENUM_RANK give exactly the k indices their labels go with.
CountsAgree ==
    (pc = "labels" /\ encoding \in {DELTA_GAPS, ENUM_RANK}) =>
        Len(indices) = k

\* A conditional label never repeats the prediction it corrects
\* (decode_labels_fixed leaves it out of `remaining`).
CorrectionsDiffer ==
    Conditional =>
        \A i \in 1 .. Len(results) : results[i].data # None =>
            leaf.prediction \notin
                {results[i].data.labels[j] : j \in 1 .. Len(results[i].data.labels)}

\* A run may count past num_blocks, but what it adds are empty blocks: no
\* correction is filed under a block the leaf does not have.
CorrectionsInLeaf ==
    \A i \in 1 .. Len(results) :
        results[i].bid >= leaf.num_blocks => results[i].data = None

-----------------------------------------------------------------------------
(* The inductive invariant *)

InBlock == pc \in {"delta", "enum", "unrank", "bitmap", "labels"}

\* Where the call is: which loop it can be in with which encoding
Control ==
    /\ pc \in {"delta", "enum"} => offset <= Size
    /\ InBlock => /\ block_id < leaf.num_blocks
                  /\ n_b <= BlockSize + leaf.n_leaf
    /\ pc = "delta" => encoding = DELTA_GAPS
    /\ pc \in {"enum", "unrank"} => encoding = ENUM_RANK
    /\ pc = "bitmap" => encoding \notin {DELTA_GAPS, ENUM_RANK}
    /\ pc = "enum" => indices = <<>>
    /\ pc \in {"delta", "unrank"} => Len(indices) <= k

\* What the rest of the block still has to choose from.  Unranking a k that
\* does not fit the block runs below lo from the start and stays there.
Candidates ==
    /\ (pc = "unrank" /\ indices # <<>>) =>
           IF k <= n_b THEN indices[1] >= k - Len(indices)
                       ELSE indices[1] = k - Len(indices) - 1
    /\ pc = "bitmap" => \A i \in 1 .. Len(indices) : indices[i] < bit

PendingLabels ==
    Conditional => \A i \in 1 .. Len(labels) : labels[i] # leaf.prediction

ListInv ==
    /\ BlocksInOrder
    /\ \A i \in 1 .. Len(results) :
           results[i].data # None => Ascending(results[i].data.indices)
    /\ CorrectionsDiffer
    /\ CorrectionsInLeaf

SubsetInv == Ascending(indices) /\ IndicesInBlock /\ CountsAgree

\* What every step of the decoder preserves, and the invariants above follow
\* from: the argument of RecordStreamProofs.
IInv == TypeOK /\ Control /\ Candidates /\ ListInv /\ SubsetInv /\ PendingLabels
-----------------------------------------------------------------------------
(* Termination, and the promise to the callers *)

\* Every stream, however malformed, is decoded or refused in finite time.
Termination == <>(pc \in {"done", "error"})

Status == CASE pc = "done" -> "returned" [] pc = "error" -> "raised"
            [] OTHER -> "running"

Delivery == INSTANCE BlockDelivery WITH
    num_blocks <- leaf.num_blocks, prediction <- leaf.prediction,
    list <- results, status <- Status

\* Every step of the decoder adds legal entries to its caller's list, ends
\* it, or is of no concern to the caller: decode_record_stream implements
\* BlockDelivery.
DeliversBlocks == Delivery!Spec
=============================================================================
