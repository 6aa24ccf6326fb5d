------------------------------ MODULE LeafWriter ------------------------------
(***************************************************************************)
(* A writer of record streams.  The repository only decodes: the writer is *)
(* the external encoder, modelled from what each decoder of                *)
(* codec/residual_v18.py takes its input to be.  It may give each block    *)
(* any of the index encodings and split empty runs where it likes.         *)
(*                                                                         *)
(* A block is None (no mismatch) or [indices, labels].                     *)
(***************************************************************************)
EXTENDS PyLibrary

CONSTANTS
    NClasses,   \* classes of the labels, 0 for legacy win/draw/loss
    Prediction  \* prediction the labels differ from, None: fixed-width labels

Classes == IF NClasses \in {0, 3} THEN {-1, 0, 1} ELSE 0 .. (NClasses - 1)

\* Labels a correction can carry
Corrections == Classes \ {Prediction}

\* Unsigned LEB128 of the values below 2^14
WriteUvarint(v) == IF v < 128 THEN <<v>> ELSE <<128 + (v % 128), v \div 128>>

WriteDeltaGaps(indices) ==
    FlattenSeq([i \in 1 .. Len(indices) |->
        WriteUvarint(IF i = 1 THEN indices[1]
                     ELSE indices[i] - indices[i - 1] - 1)])

\* rank_subset: a strictly ascending k-subset to its combinadic rank
RankSubset(indices) ==
    LET rank[j \in 0 .. Len(indices)] ==
            IF j = 0 THEN 0
            ELSE rank[j - 1] + (IF j > indices[j] THEN 0 ELSE MathComb(indices[j], j))
    IN  rank[Len(indices)]

BigEndianBytes(v) == IF v < 256 THEN <<v>> ELSE <<v \div 256, v % 256>>

\* A rank of zero may take one byte or none.
WriteRank(indices, zero) ==
    LET rank == RankSubset(indices)
        bytes == IF rank = 0 THEN zero ELSE BigEndianBytes(rank)
    IN  WriteUvarint(Len(bytes)) \o bytes

\* Packs codes, least significant bit first, into bytes
PackBits(codes, width) ==
    LET bitAt(p) == IF p >= Len(codes) * width THEN 0
                    ELSE (codes[p \div width + 1] \div 2 ^ (p % width)) % 2
    IN  [b \in 1 .. (Len(codes) * width + 7) \div 8 |->
            LET n[i \in 0 .. 8] == IF i = 8 THEN 0
                                   ELSE bitAt(8 * (b - 1) + i) + 2 * n[i + 1]
            IN  n[0]]

WriteBitmap(indices, n) ==
    PackBits([p \in 1 .. n |-> IF p - 1 \in ToSet(indices) THEN 1 ELSE 0], 1)

\* ceil(log2(m)) for the class counts of the format, at least 1
LabelWidth ==
    IF Prediction = None /\ NClasses \in {0, 3} THEN 2
    ELSE Max({1} \cup {w \in 1 .. 8 : 2 ^ (w - 1) < Cardinality(Corrections)})

\* The code of a label: its position among the labels the codec can express
LabelCode(label) == Cardinality({c \in Corrections : c < label})

WriteLabels(labels) ==
    PackBits([i \in 1 .. Len(labels) |-> LabelCode(labels[i])], LabelWidth)

\* Encoding 3 is ENUM_RANK without a byte for a rank of zero.
WriteIndices(encoding, indices, n) ==
    CASE encoding = 0 -> WriteDeltaGaps(indices)
      [] encoding = 1 -> WriteRank(indices, <<0>>)
      [] encoding = 2 -> WriteBitmap(indices, n)
      [] encoding = 3 -> WriteRank(indices, <<>>)

WriteHeader(encoding, indices) ==
    <<1 + 4 * (IF encoding = 3 THEN 1 ELSE encoding)>> \o WriteUvarint(Len(indices))

WriteBlock(encoding, block, n) ==
    WriteHeader(encoding, block.indices)
        \o WriteIndices(encoding, block.indices, n) \o WriteLabels(block.labels)

WriteEmptyRun(length) == <<0>> \o WriteUvarint(length)

\* Positions of block b (1-based) of a leaf
PositionsOf(b, blocks, blockSize, nLeaf) ==
    IF b < Len(blocks) THEN blockSize ELSE nLeaf - (b - 1) * blockSize

\* The records of a leaf. encodings[b] is the encoding of block b; where
\* merge[b] holds and blocks b - 1 and b are empty they share a run.
Joined(b, blocks, merge) ==
    b > 1 /\ merge[b] /\ blocks[b] = None /\ blocks[b - 1] = None

WriteRecords(blocks, encodings, merge, blockSize, nLeaf) ==
    LET RunFrom(b) == Min({e \in b .. Len(blocks) :
                              e = Len(blocks) \/ ~Joined(e + 1, blocks, merge)}) - b + 1
        RecordOf(b) == IF blocks[b] # None
                       THEN WriteBlock(encodings[b], blocks[b],
                                       PositionsOf(b, blocks, blockSize, nLeaf))
                       ELSE IF Joined(b, blocks, merge) THEN <<>>
                       ELSE WriteEmptyRun(RunFrom(b))
    IN  SubSeq([b \in 1 .. Len(blocks) |-> RecordOf(b)], 1, Len(blocks))

\* Where the parts of a block's record are, if it begins at at
PartsOf(at, encoding, block, n) ==
    LET s == block.indices
        from == at + Len(WriteHeader(encoding, s))
    IN  [at |-> at,
         gaps |-> [i \in 1 .. Len(s) + 1 |->
                      from + Len(WriteDeltaGaps(SubSeq(s, 1, i - 1)))],
         ranks |-> [m \in 0 .. Len(s) |-> RankSubset(SubSeq(s, 1, m))],
         labels |-> from + Len(WriteIndices(encoding, s, n))]

LayoutOf(records, blocks, encodings, merge, blockSize, nLeaf) ==
    LET At(b) == Len(FlattenSeq(SubSeq(records, 1, b - 1)))
    IN  [b \in {c \in 1 .. Len(blocks) + 1 :
                   c <= Len(blocks) => ~Joined(c, blocks, merge)} |->
            IF b > Len(blocks) \/ blocks[b] = None THEN [at |-> At(b)]
            ELSE PartsOf(At(b), encodings[b], blocks[b],
                         PositionsOf(b, blocks, blockSize, nLeaf))]

\* Blocks of n positions with at most kmax mismatches
AscendingSeqs(n, kmax) ==
    {SetToSortSeq(S, <) : S \in {T \in SUBSET (0 .. n - 1) : Cardinality(T) <= kmax}}

BlocksOf(n, kmax) ==
    {None} \cup UNION {{[indices |-> s, labels |-> l] :
                           l \in [1 .. Len(s) -> Corrections]} :
                       s \in AscendingSeqs(n, kmax) \ {<<>>}}
=============================================================================
