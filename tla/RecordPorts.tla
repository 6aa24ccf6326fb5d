----------------------------- MODULE RecordPorts ------------------------------
(***************************************************************************)
(* The JavaScript and the Rust decoder next to the call of RecordStream:   *)
(* what they owe a leaf that Python has decoded.                           *)
(***************************************************************************)
EXTENDS WrittenStream

CONSTANTS
    IntBits, RankBits,      \* widths of the ports' integers
    Undefined, Failed

\* leb128.u: seven bits a byte, the least significant first
ASSUME LEB128Assumption ==
    \A l \in Leaves : \A o \in 0 .. Len(l.stream) :
        Uvarint(l.stream, o) =
            IF o = Len(l.stream) THEN None
            ELSE IF l.stream[o + 1] < 128
            THEN [value |-> l.stream[o + 1], next |-> o + 1]
            ELSE IF Uvarint(l.stream, o + 1) = None THEN None
            ELSE [value |-> (l.stream[o + 1] % 128)
                                + 128 * Uvarint(l.stream, o + 1).value,
                  next |-> Uvarint(l.stream, o + 1).next]

\* Positions in a block end a bit below the sign bit: further up lo + hi of
\* the JavaScript search is negative, and the search does not end
\* (combinadic.js:77).  Blocks are counted, and the bit positions of a stream
\* become indices by a signed shift, below the sign bit.
ASSUME PortsFit ==
    /\ IntBits \in Nat
    /\ IntBits > 8
    /\ \A l \in Leaves :
           /\ l.block_size <= 2 ^ (IntBits - 2)
           /\ l.n_leaf - (l.num_blocks - 1) * l.block_size <= 2 ^ (IntBits - 2)
           /\ l.num_blocks < 2 ^ (IntBits - 1)
           /\ 8 * (Len(l.stream) + 1) <= 2 ^ (IntBits - 1)

ASSUME RankBitsAssumption == RankBits \in Nat

Js == INSTANCE JsResidual
Rs == INSTANCE RsResidual

\* The JavaScript decoder reads what an encoder wrote as Python does, with
\* positions up to 30 bits of an int32 (js/src/codec.js decodeRecordStream).
JsReadsWritten == pc = "done" => Js!decodeRecordStream(leaf) = results

\* So does the Rust decoder, with classes up to the 127 of an i8 and as long as
\* u128 holds the products of the binomials (wasm/src/codec.rs
\* decode_record_stream).
RustReadsWritten == pc = "done" => Rs!decode_record_stream(leaf) = results

PositionsIn(bid) ==
    IF bid < leaf.num_blocks - 1 THEN BlockSize ELSE leaf.n_leaf - bid * BlockSize

\* Python returned positions of the block with one label each.
LegalEntries ==
    \A i \in 1 .. Len(results) : results[i].data # None =>
        /\ Len(results[i].data.labels) = Len(results[i].data.indices)
        /\ \A p \in 1 .. Len(results[i].data.indices) :
               results[i].data.indices[p] \in 0 .. PositionsIn(results[i].bid) - 1

\* ... and no more entries than the ports can count.
Legal == Len(results) < 2 ^ (IntBits - 1) /\ LegalEntries

\* Where Python finds a legal list in arbitrary bytes, so does JavaScript,
\* though it reads on past the end of the data instead of raising.
JsAgrees == (pc = "done" /\ Legal) => Js!decodeRecordStream(leaf) = results

\* ... and the Rust decoder finds the same list or panics.
RustAgrees ==
    (pc = "done" /\ Legal) => Rs!decode_record_stream(leaf) \in {results, Failed}

-----------------------------------------------------------------------------
(* What the integers of the Rust decoder hold *)

\* Classes are i8.
ClassesFit == \A l \in Leaves : l.n_classes <= 127

\* Binomials are products that are divided only then, and the larger half of
\* a row is read from the smaller one.
BinomialsFit(n, subset) ==
    \A m \in 0 .. n - 1, i \in 1 .. subset : 2 * i <= m => i * Binom(m, i) < 2 ^ RankBits

\* The ranks that an encoder wrote, and what unranking them asks for
WrittenRanksFit ==
    \A l \in Leaves : \A b \in 1 .. Len(l.blocks) :
        (l.blocks[b] # None /\ (HeaderOf(l, b) \div 4) % 4 = ENUM_RANK) =>
            /\ BinomialsFit(PositionsOf(l, b), Len(l.blocks[b].indices))
            /\ \A m \in 0 .. Len(l.blocks[b].indices) :
                   l.layout[b].ranks[m] < 2 ^ RankBits
-----------------------------------------------------------------------------
(* The inductive invariants of the comparisons *)

\* The block fits as far as it is read, and its labels can be read at all.
Fits ==
    /\ k <= n_b
    /\ \A i \in 1 .. Len(indices) : indices[i] \in 0 .. n_b - 1
    /\ (pc \in {"unrank", "labels"} /\ k > 0) => offset < Size

LabelsRead ==
    /\ pc # "labels" => labels = <<>>
    /\ \A i \in 1 .. Len(labels) :
           LET pos == 8 * offset + (i - 1) * BitsPerLabel
               code == ExtractBits(pos, BitsPerLabel)
           IN  /\ BitsPresent(pos, BitsPerLabel)
               /\ Conditional => code < NumRemaining
               /\ labels[i] = LabelOf(code)

\* Some turns of the JavaScript loop make this list, and stop at this byte.
JsAt(at) ==
    \E t \in 0 .. Size :
        /\ t <= at
        /\ Js!Records(leaf)[t] = [offset |-> at, blockId |-> block_id,
                                  list |-> results, threw |-> FALSE]

JsIndices(from) ==
    IF encoding = DELTA_GAPS THEN Js!decodeDeltaGaps(leaf.stream, k, from)
    ELSE IF encoding = ENUM_RANK THEN Js!decodeEnumRank(leaf.stream, n_b, k, from)
    ELSE Js!decodeBitmap(leaf.stream, n_b, from)

\* As many turns of the port's loop have made the same indices.
JsProgress(from) ==
    /\ pc = "delta" =>
           Js!GapsRead(leaf.stream, k, from)[Len(indices)] =
               [indices |-> indices, next |-> offset]
    /\ pc = "enum" => offset = from
    /\ pc = "unrank" =>
           LET rank_len == Uvarint(leaf.stream, from)
               read == FromBytes(RankBytes(leaf.stream, rank_len))
           IN  /\ k > 0
               /\ rank_len # None
               /\ rank_len.value > 0
               /\ offset = rank_len.next + rank_len.value
               /\ Js!Unrankings(read, n_b, k)[Len(indices)] =
                      [rank |-> rank, upper |-> Upper, indices |-> indices]
    /\ pc = "bitmap" =>
           /\ offset = from
           /\ Js!SetBits(leaf.stream, from, n_b)[Lesser(bit, n_b)] = indices
    /\ pc = "labels" =>
           /\ JsIndices(from).indices = indices
           /\ JsIndices(from).next = offset
           /\ encoding = ENUM_RANK => ~JsIndices(from).threw

\* The block that is read starts at this byte.
Started(at) ==
    /\ at < offset
    /\ Byte(at) % 4 = NON_EMPTY_BLOCK
    /\ encoding = (Byte(at) \div 4) % 4
    /\ Uvarint(leaf.stream, at + 1) # None
    /\ k = Uvarint(leaf.stream, at + 1).value

JsStarted(at) == JsAt(at) /\ Started(at)

JsReads ==
    \E at \in 0 .. Size - 1 :
        JsStarted(at) /\ JsProgress(Uvarint(leaf.stream, at + 1).next)

JsInv ==
    /\ InBlock => n_b = BlockPositions /\ LabelsRead
    /\ (pc \in {"record", "done"} /\ Legal) => JsAt(offset)
    /\ pc = "done" => ~MoreRecords
    /\ (InBlock /\ Legal /\ Fits) => JsReads

\* Some turns of the Rust loop make this list, and stop at this byte.
RsAt(at) ==
    \E t \in 0 .. Size :
        /\ t <= at
        /\ Rs!Records(leaf)[t] = [offset |-> at, block_id |-> block_id,
                                  list |-> results, panicked |-> FALSE]

\* One of its turns panics.  Whether it may is told from outside: on what an
\* encoder wrote it may not.
RsPanics(mayPanic) == mayPanic /\ \E t \in 0 .. Size : Rs!Records(leaf)[t].panicked

RsIndices(from) ==
    IF encoding = DELTA_GAPS THEN Rs!decode_delta_gaps(leaf.stream, k, from)
    ELSE IF encoding = ENUM_RANK THEN Rs!decode_enum_rank(leaf.stream, n_b, k, from)
    ELSE Rs!decode_bitmap(leaf.stream, n_b, from)

\* u128 holds the rank that is left, and the binomials it is compared with.
RanksFit == pc = "unrank" => rank < 2 ^ RankBits /\ BinomialsFit(n_b, k)

\* As JsProgress.  A bitmap that is cut short panics; only a block without
\* labels is legal then.
RsProgress(from) ==
    /\ pc = "delta" =>
           Rs!GapsRead(leaf.stream, k, from)[Len(indices)] =
               [indices |-> indices, next |-> offset]
    /\ pc = "enum" => offset = from
    /\ pc = "unrank" =>
           LET rank_len == Uvarint(leaf.stream, from)
               read == FromBytes(RankBytes(leaf.stream, rank_len))
           IN  /\ k > 0
               /\ rank_len # None
               /\ rank_len.value > 0
               /\ offset = rank_len.next + rank_len.value
               /\ Rs!Unrankings(Rs!U128(read), n_b, k)[Len(indices)] =
                      [rank |-> rank, upper |-> IF Upper < 0 THEN 0 ELSE Upper,
                       indices |-> indices]
    /\ pc = "bitmap" =>
           /\ offset = from
           /\ Rs!SetBits(leaf.stream, from, n_b)[Lesser(bit, n_b)] = indices
    /\ pc = "labels" =>
           IF RsIndices(from).panics THEN k = 0
           ELSE RsIndices(from).indices = indices /\ RsIndices(from).next = offset

RsStarted(at) == RsAt(at) /\ Started(at)

RsReads ==
    \E at \in 0 .. Size - 1 :
        RsStarted(at) /\ RsProgress(Uvarint(leaf.stream, at + 1).next)

RsInv(mayPanic) ==
    /\ (pc \in {"record", "done"} /\ Legal) => RsAt(offset) \/ RsPanics(mayPanic)
    /\ (InBlock /\ Legal /\ Fits) => RsReads \/ RsPanics(mayPanic)
=============================================================================
