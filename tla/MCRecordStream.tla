---------------------------- MODULE MCRecordStream ----------------------------
(***************************************************************************)
(* Instances of RecordStream: leaves an encoder wrote (with the blocks it  *)
(* wrote, to compare with) and short streams of arbitrary bytes.           *)
(***************************************************************************)
EXTENDS RecordPorts

CONSTANTS
    Predictions,    \* the leaf predictions to try; None: fixed-width labels
    MaxSize         \* bytes of the longest arbitrary stream

Lib == INSTANCE PyLibrary
W(p, n) == INSTANCE LeafWriter WITH Prediction <- p, NClasses <- n

MCUvarint(stream, o) == Lib!LEB128(stream, o)
MCComb(n, j) == Lib!MathComb(n, j)
MCFromBytes(bytes) == Lib!BigEndian(bytes)

WrittenLeaf(p, n, size, nLeaf, blocks, encodings, merge) ==
    LET records == W(p, n)!WriteRecords(blocks, encodings, merge, size, nLeaf)
    IN  [stream |-> Lib!FlattenSeq(records),
         num_blocks |-> Len(blocks), n_leaf |-> nLeaf, prediction |-> p,
         block_size |-> size, n_classes |-> n, blocks |-> blocks,
         layout |-> W(p, n)!LayoutOf(records, blocks, encodings, merge, size, nLeaf)]

\* Win/draw/loss leaves of five positions in blocks of two: two full blocks
\* and a last one of one, every content, one or two encodings, empty runs
\* merged or split. What no byte depends on is not varied: the encoding of an
\* empty block and the split between blocks that are not both empty.
SmallLeavesOf(p) ==
    LET Full == W(p, 0)!BlocksOf(2, 2)
        Last == W(p, 0)!BlocksOf(1, 1)
        Encodings == IF p = None THEN {0, 3} ELSE 0 .. 2
        Varied(a, b, c, e, f, merge) ==
            /\ f = e \/ (p # None /\ f = (e + 1) % 3) \/ None \in {a, b}
            /\ a = None /\ c = None => e = 0
            /\ b = None => f = 0
            /\ merge => b = None /\ None \in {a, c}
    IN  {WrittenLeaf(p, 0, 2, 5, <<t[1], t[2], t[3]>>, <<t[4], t[5], t[4]>>,
                     <<FALSE, t[6], t[6]>>) :
            t \in {u \in Full \X Full \X Last \X Encodings \X Encodings \X BOOLEAN :
                      Varied(u[1], u[2], u[3], u[4], u[5], u[6])}}

\* Blocks of twelve positions under labels of six classes: codes that cross
\* bytes, bitmaps of two bytes, ranks of two bytes.
WideBlocks(p, n) ==
    {[indices |-> s,
      labels |-> [i \in 1 .. Len(s) |->
                     IF i % 2 = 1 THEN Lib!Max(W(p, 6)!Corrections)
                                  ELSE Lib!Min(W(p, 6)!Corrections)]] :
        s \in {t \in W(p, 6)!AscendingSeqs(n, 4) :
                  Len(t) = 1 \/ (Len(t) = Lib!Min({4, n}) /\ t[Len(t)] = n - 1)}}

WideLeavesOf(p) ==
    LET b == CHOOSE x \in WideBlocks(p, 3) : Len(x.labels) = 3
    IN  {WrittenLeaf(p, 6, 12, 15, <<a, b>>, <<e, e>>, <<FALSE, FALSE>>) :
            a \in WideBlocks(p, 12), e \in 0 .. 2}

\* At the widths of the ports: as many positions as the ports can search, 127
\* classes, bitmaps of 32 bytes.
EdgeLeavesOf(p) ==
    LET n == 2 ^ (IntBits - 2)
        At(s) == [indices |-> s,
                  labels |-> [i \in 1 .. Len(s) |-> IF i % 2 = 1 THEN 126 ELSE 1]]
    IN  {WrittenLeaf(p, 127, 1, n, <<At(s)>>, <<e>>, <<FALSE>>) :
            s \in {<<127, 128, n - 1>>, <<0, n - 1>>}, e \in {0, 2}}
        \cup {WrittenLeaf(p, 127, 1, n, <<At(<<n - 1>>)>>, <<1>>, <<FALSE>>)}

WrittenLeaves ==
    UNION {EdgeLeavesOf(p) : p \in {None, 0}} \cup UNION {SmallLeavesOf(p) : p \in {None, 0}}
        \cup UNION {WideLeavesOf(p) : p \in {None, 2}}

\* Bytes that are each kind of record header (13: the reserved encoding) and
\* small counts; 129 is a delta header too, and a varint that goes on.
Alphabet == {0, 1, 2, 5, 9, 13, 129}

\* Arbitrary streams of at most MaxSize bytes. A varint that goes on ends the
\* stream or spends a second byte on a zero, which keeps counts below 14.
ArbitraryLeaves ==
    {[stream |-> s, num_blocks |-> 2, n_leaf |-> 4, prediction |-> p,
      block_size |-> 3, n_classes |-> 0] :
        p \in Predictions,
        s \in {t \in UNION {[1 .. n -> Alphabet] : n \in 0 .. MaxSize} :
                  \A i \in 1 .. Len(t) - 1 : t[i] = 129 => t[i + 1] = 0}}

-----------------------------------------------------------------------------
(* What comments of the code say of a decoded block *)

DecodedBlocks == {results[i] : i \in {m \in 1 .. Len(results) :
                                        results[m].data # None}}

\* "Mismatch indices within block [0, n_b)" (BlockData.indices).
IndicesWithinBlock ==
    \A e \in DecodedBlocks : \A i \in 1 .. Len(e.data.indices) :
        e.data.indices[i] \in 0 .. BlockSize - 1
=============================================================================
