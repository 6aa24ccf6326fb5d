------------------------------ MODULE JsResidual ------------------------------
(***************************************************************************)
(* The JavaScript decoder of record streams (js/src/codec.js, residual.js, *)
(* combinadic.js and leb128.js) as functions of a leaf, a record with the  *)
(* arguments of decodeRecordStream.                                        *)
(*                                                                         *)
(* Reading past the data is no error: the undefined it gives counts as 0   *)
(* in every bit operation.                                                 *)
(***************************************************************************)
EXTENDS PortLibrary

CONSTANTS
    IntBits,    \* bits of the integers that bit operators work on: 32
    Undefined,  \* undefined
    Failed      \* an exception

\* Two's complement
Signed(v) == ((v + 2 ^ (IntBits - 1)) % 2 ^ IntBits) - 2 ^ (IntBits - 1)

ToInt(read) == [value |-> Signed(read.value), next |-> read.next]

decodeUvarint(data, offset) == ToInt(Varint(data, offset, IntBits))

-----------------------------------------------------------------------------
(* combinadic.js; its integers are BigInts where they can be large *)

Products(n, k) ==
    LET result[i \in 0 .. k] ==
            IF i = 0 THEN 1 ELSE (result[i - 1] * (n - (i - 1))) \div i
    IN  result

binom(n, j) ==
    LET k == IF j > n - j THEN n - j ELSE j
    IN  IF j < 0 \/ j > n THEN 0 ELSE Products(n, k)[k]

Beyond(target, mid, j) == binom(mid, j) >= target  \* mutant: strict

Exceeds(target, mid, j) == binom(mid, j) > target

Halve(target, j, last) ==
    LET mid == Signed(last.lo + last.hi) \div 2
    IN  IF last.lo > last.hi THEN last
        ELSE IF Exceeds(target, mid, j) THEN [last EXCEPT !.hi = mid - 1]
        ELSE [last EXCEPT !.lo = mid + 1, !.result = mid]

Halvings(target, j, lo, hi) ==
    LET turn[t \in 0 .. IntBits] ==
            IF t = 0 THEN [lo |-> lo, hi |-> hi, result |-> lo - 1]
            ELSE Halve(target, j, turn[t - 1])
    IN  turn

\* A turn leaves half of the candidates at most, unless lo + hi passes the
\* sign bit: then the loop does not end.
findLargestBinomLe(target, j, lo, hi) == Halvings(target, j, lo, hi)[IntBits].result

Unrank(j, last) ==
    LET i == findLargestBinomLe(last.rank, j, j - 1, last.upper)
    IN  [rank |-> last.rank - binom(i, j), upper |-> i - 1,
         indices |-> <<i>> \o last.indices]

Unrankings(rank, n, k) ==
    LET turn[t \in 0 .. k] ==
            IF t = 0 THEN [rank |-> rank, upper |-> n - 1, indices |-> <<>>]
            ELSE Unrank(k - (t - 1), turn[t - 1])
    IN  turn

unrankSubset(rank, n, k) == Unrankings(rank, n, k)[k].indices

-----------------------------------------------------------------------------
(* residual.js *)

WholeBytes(bits) == bits \div 8  \* mutant: rounds down

BytesOf(bits) == NumBytes(Signed(bits + 7) - 7)

extractBits(data, pos, width) == BitsAt(data, Signed(pos), width)

ReadGap(data, i, last) ==
    LET gap == decodeUvarint(data, last.next)
    IN  [indices |-> Append(last.indices,
             IF i = 1 THEN gap.value ELSE last.indices[i - 1] + 1 + gap.value),
         next |-> gap.next]

GapsRead(data, n, offset) ==
    LET read[i \in 0 .. n] ==
            IF i = 0 THEN [indices |-> <<>>, next |-> offset]
            ELSE ReadGap(data, i, read[i - 1])
    IN  read

\* k is negative where the varint passed the sign bit: the first index is
\* read all the same.
decodeDeltaGaps(data, k, offset) ==
    LET n == IF k < 0 THEN 1 ELSE k
    IN  GapsRead(data, n, offset)[n]

\* data.slice(from, to): a negative end counts from the end of the data
Slice(data, from, to) ==
    SubSeq(data, from + 1, IF to < 0 THEN Len(data) + to
                           ELSE IF to < Len(data) THEN to ELSE Len(data))

\* new Array(k) throws for a negative k
RankedIn(data, n, k, offset, rankLen) ==
    LET to == rankLen.next + rankLen.value
    IN  IF k = 0 THEN [indices |-> <<>>, next |-> offset, threw |-> FALSE]
        ELSE IF rankLen.value = 0
        THEN [indices |-> [i \in 1 .. k |-> i - 1], next |-> rankLen.next, threw |-> FALSE]
        ELSE IF k < 0 THEN [indices |-> <<>>, next |-> to, threw |-> TRUE]
        ELSE [indices |-> unrankSubset(FromBytes(Slice(data, rankLen.next, to)), n, k),
              next |-> to, threw |-> FALSE]

decodeEnumRank(data, n, k, offset) ==
    RankedIn(data, n, k, offset, decodeUvarint(data, offset))

\* Nothing is looked at where n + 7 passes the sign bit.
decodeBitmap(data, n, offset) ==
    LET bits == IF n <= 8 * BytesOf(n) THEN n ELSE 0
    IN  [indices |-> SetBits(data, offset, bits)[bits], next |-> offset + BytesOf(n)]

decodeLabelsFixed(data, k, offset, leafPrediction, nClasses) ==
    LET isLegacy == nClasses \in {0, 3}
        conditional == leafPrediction # None
        allClasses == IF isLegacy THEN -1 .. 1 ELSE 0 .. nClasses - 1
        remaining == allClasses \ {leafPrediction}
        bitsPerLabel == IF conditional THEN AtLeastOne(CeilLog2(Cardinality(remaining)))
                        ELSE IF isLegacy THEN 2
                        ELSE AtLeastOne(CeilLog2(nClasses))
        Label(code) == IF ~conditional THEN IF isLegacy THEN code - 1 ELSE code
                       ELSE IF code < Cardinality(remaining) THEN Nth(remaining, code)
                       ELSE Undefined
    IN  [labels |-> [i \in 1 .. k |->
             Label(extractBits(data, 8 * offset + (i - 1) * bitsPerLabel, bitsPerLabel))],
         next |-> IF k = 0 THEN offset ELSE offset + BytesOf(k * bitsPerLabel)]

BlockOf(data, nB, encoding, k, leafPrediction, nClasses) ==
    LET ranked == decodeEnumRank(data, nB, k.value, k.next)
        found == IF encoding = 0 THEN decodeDeltaGaps(data, k.value, k.next)
                 ELSE IF encoding = 1 THEN ranked
                 ELSE decodeBitmap(data, nB, k.next)
        coded == decodeLabelsFixed(data, k.value, found.next, leafPrediction, nClasses)
    IN  [data |-> [indices |-> found.indices, labels |-> coded.labels],
         next |-> coded.next, threw |-> encoding = 1 /\ ranked.threw]

decodeBlock(data, nB, offset, leafPrediction, nClasses) ==
    BlockOf(data, nB, (Byte(data, offset) \div 4) % 4,
            decodeUvarint(data, offset + 1), leafPrediction, nClasses)

-----------------------------------------------------------------------------
(* codec.js *)

AfterRun(last, run) ==
    [offset |-> run.next,
     blockId |-> last.blockId + (IF run.value < 0 THEN 0 ELSE run.value),
     list |-> last.list \o [i \in 1 .. run.value |->
                               [bid |-> last.blockId + i - 1, data |-> None]],
     threw |-> FALSE]

AfterBlock(last, block) ==
    IF block.threw THEN [last EXCEPT !.threw = TRUE]
    ELSE [offset |-> block.next,
          blockId |-> last.blockId + 1,
          list |-> Append(last.list, [bid |-> last.blockId, data |-> block.data]),
          threw |-> FALSE]

\* One turn of the loop, from what the turns before it made
Record(l, last) ==
    LET recType == Byte(l.stream, last.offset) % 4
        nB == IF last.blockId < l.num_blocks - 1 THEN l.block_size
              ELSE l.n_leaf - last.blockId * l.block_size
    IN  IF recType = 0
        THEN AfterRun(last, decodeUvarint(l.stream, last.offset + 1))
        ELSE IF recType # 1 THEN [last EXCEPT !.threw = TRUE]
        ELSE AfterBlock(last,
                 decodeBlock(l.stream, nB, last.offset, l.prediction, l.n_classes))

Ended(l, last) ==
    last.threw \/ last.blockId >= l.num_blocks \/ last.offset >= Len(l.stream)

Turn(l, last) == IF Ended(l, last) THEN last ELSE Record(l, last)

Records(l) ==
    LET turn[t \in 0 .. Len(l.stream)] ==
            IF t = 0 THEN [offset |-> 0, blockId |-> 0, list |-> <<>>, threw |-> FALSE]
            ELSE Turn(l, turn[t - 1])
    IN  turn

\* Every record takes a byte at least, but for negative counts and lengths: a
\* loop that has not ended after that many turns counts as failed.
Outcome(l, last) == IF Ended(l, last) /\ ~last.threw THEN last.list ELSE Failed

decodeRecordStream(l) == Outcome(l, Records(l)[Len(l.stream)])
=============================================================================
