----------------------------- MODULE WrittenStream ----------------------------
(***************************************************************************)
(* What it takes a stream to be a writing of some blocks, and what the     *)
(* decoder owes such a stream.  The repository only decodes: the format is *)
(* that which the decoders of codec/residual_v18.py take their input to    *)
(* be.  It is stated byte by byte and bit by bit, and leaves an encoder    *)
(* free to choose encodings, to merge or split empty runs, to write a rank *)
(* of zero in no bytes, and to pad as it likes.                            *)
(*                                                                         *)
(* A written leaf also has                                                 *)
(*   blocks, each None (no mismatch) or [indices, labels], and             *)
(*   layout, for each block that begins a record and for the end:          *)
(*     at, where the record begins; gaps, where each gap of DELTA_GAPS     *)
(*     does; ranks[m], the rank of the first m indices; and labels, where  *)
(*     the labels begin.                                                   *)
(***************************************************************************)
EXTENDS RecordStream

PositionsOf(l, b) ==
    IF b < Len(l.blocks) THEN l.block_size
    ELSE l.n_leaf - (b - 1) * l.block_size

HeaderOf(l, b) == l.stream[l.layout[b].at + 1]

StreamBit(l, p) == (l.stream[p \div 8 + 1] \div Pow2(p % 8)) % 2

VarintAt(l, o, value, next) ==
    /\ o \in 0 .. Len(l.stream)
    /\ Uvarint(l.stream, o) # None
    /\ Uvarint(l.stream, o).value = value
    /\ Uvarint(l.stream, o).next = next

EmptyRunAt(l, b) ==
    /\ HeaderOf(l, b) % 4 = EMPTY_RUN
    /\ \E n \in 1 .. Len(l.blocks) + 1 - b :
           /\ b + n \in DOMAIN l.layout
           /\ VarintAt(l, l.layout[b].at + 1, n, l.layout[b + n].at)
           /\ \A i \in b .. b + n - 1 : l.blocks[i] = None

-----------------------------------------------------------------------------
(* Indices *)

\* What a block of n positions can have as its indices
IsSubset(s, n) ==
    /\ s \in Seq(0 .. n - 1)
    /\ s # <<>>
    /\ Ascending(s)

GapBefore(s, i) == IF i = 1 THEN s[1] ELSE s[i] - s[i - 1] - 1

GapsAt(l, b, from) ==
    LET s == l.blocks[b].indices
        gaps == l.layout[b].gaps
    IN  /\ gaps[1] = from
        /\ gaps[Len(s) + 1] = l.layout[b].labels
        /\ \A i \in 1 .. Len(s) : VarintAt(l, gaps[i], GapBefore(s, i), gaps[i + 1])

\* rank_subset, one turn of its loop after the other
Ranks(s, R) ==
    /\ R \in [0 .. Len(s) -> Nat]
    /\ R[0] = 0
    /\ \A m \in 1 .. Len(s) : R[m] = R[m - 1] + Binom(s[m], m)

RankAt(l, b, from) ==
    LET R == l.layout[b].ranks
        rank_of_all == R[Len(l.blocks[b].indices)]
        to == l.layout[b].labels
    IN  /\ Ranks(l.blocks[b].indices, R)
        /\ to \in 0 .. Len(l.stream)
        /\ \E bytes \in 0 .. to :
               /\ VarintAt(l, from, bytes, to - bytes)
               /\ rank_of_all = IF bytes = 0 THEN 0
                                ELSE FromBytes(SubSeq(l.stream, to - bytes + 1, to))

BitmapAt(l, b, from) ==
    LET s == l.blocks[b].indices
        n == PositionsOf(l, b)
    IN  /\ l.layout[b].labels = from + NumBytes(n)
        /\ l.layout[b].labels <= Len(l.stream)
        /\ \A p \in 0 .. n - 1 :
               StreamBit(l, 8 * from + p) = 1 <=> \E i \in 1 .. Len(s) : s[i] = p

IndicesAt(l, b, enc, from) ==
    \/ enc = DELTA_GAPS /\ GapsAt(l, b, from)
    \/ enc = ENUM_RANK /\ RankAt(l, b, from)
    \/ enc = BITMAP /\ BitmapAt(l, b, from)

-----------------------------------------------------------------------------
(* Labels *)

Classes(l) == IF l.n_classes \in {0, 3} THEN -1 .. 1 ELSE 0 .. l.n_classes - 1

\* The labels a correction can have, and the code of one: its place among them
Corrections(l) == Classes(l) \ {l.prediction}
LabelCode(l, label) == Cardinality({c \in Corrections(l) : c < label})

\* The least width that tells them apart; two bits for plain win/draw/loss
IsWidth(l, w) ==
    IF l.prediction = None /\ l.n_classes \in {0, 3} THEN w = 2
    ELSE /\ Cardinality(Corrections(l)) <= Pow2(w)
         /\ w > 1 => Pow2(w - 1) < Cardinality(Corrections(l))

\* Codes stand one after the other, least significant bit first.
LabelsAt(l, b) ==
    LET from == l.layout[b].labels
        to == l.layout[b + 1].at
        label == l.blocks[b].labels
    IN  \E w \in 1 .. 8 :
            /\ IsWidth(l, w)
            /\ to = from + NumBytes(Len(label) * w)
            /\ to <= Len(l.stream)
            /\ \A i \in 1 .. Len(label) : \A j \in 0 .. w - 1 :
                   StreamBit(l, 8 * from + (i - 1) * w + j)
                       = (LabelCode(l, label[i]) \div Pow2(j)) % 2

-----------------------------------------------------------------------------
(* The leaf *)

BlockAt(l, b) ==
    LET block_b == l.blocks[b]
    IN  /\ block_b # None
        /\ IsSubset(block_b.indices, PositionsOf(l, b))
        /\ block_b.labels \in Seq(Corrections(l))
        /\ Len(block_b.labels) = Len(block_b.indices)
        /\ b + 1 \in DOMAIN l.layout
        /\ HeaderOf(l, b) % 4 = NON_EMPTY_BLOCK
        /\ \E from \in 0 .. Len(l.stream) :
               /\ VarintAt(l, l.layout[b].at + 1, Len(block_b.indices), from)
               /\ IndicesAt(l, b, (HeaderOf(l, b) \div 4) % 4, from)
        /\ LabelsAt(l, b)

IsWritten(l) ==
    LET end == Len(l.blocks) + 1
    IN  /\ l.blocks \in Seq({None} \cup [indices : Seq(Int), labels : Seq(Int)])
        /\ l.num_blocks = Len(l.blocks)
        /\ {1, end} \subseteq DOMAIN l.layout
        /\ l.layout[1].at = 0
        /\ l.layout[end].at = Len(l.stream)
        /\ \A b \in DOMAIN l.layout \ {end} :
               /\ b \in 1 .. Len(l.blocks)
               /\ l.layout[b].at \in 0 .. Len(l.stream) - 1
               /\ EmptyRunAt(l, b) \/ BlockAt(l, b)

LeavesAreWritten == \A l \in Leaves : IsWritten(l)

\* What an encoder wrote is read back, block by block and in order, whatever
\* encodings it chose, and the call returns only with all of it and with the
\* stream used up.
RoundTrip ==
    /\ pc # "error"
    /\ Len(results) <= Len(leaf.blocks)
    /\ \A i \in 1 .. Len(results) :
           results[i] = [bid |-> i - 1, data |-> leaf.blocks[i]]
    /\ pc = "done" => Len(results) = Len(leaf.blocks) /\ offset = Size
=============================================================================
