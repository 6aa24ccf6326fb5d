------------------------------ MODULE RsResidual ------------------------------
(***************************************************************************)
(* The Rust decoder of record streams (wasm/src/codec.rs, residual.rs,     *)
(* combinadic.rs and leb128.rs) as built for wasm32 in release mode:       *)
(* arithmetic wraps at the width of its type, indexing past the data       *)
(* panics.                                                                 *)
(***************************************************************************)
EXTENDS PortLibrary

CONSTANTS
    IntBits,    \* bits of u32 and usize; u64 has twice as many
    RankBits,   \* bits of u128
    Failed      \* a panic

U32(v) == v % 2 ^ IntBits
U64(v) == v % 2 ^ (2 * IntBits)
U128(v) == v % 2 ^ RankBits
AsI8(v) == ((v + 128) % 256) - 128

decode_uvarint(data, offset) == Varint(data, offset, 2 * IntBits)

-----------------------------------------------------------------------------
(* combinadic.rs *)

\* The product is taken before the division, both in u128.
Products(n, k) ==
    LET result[i \in 0 .. k] ==
            IF i = 0 THEN 1 ELSE U128(result[i - 1] * (n - (i - 1))) \div i
    IN  result

binom(n, j) ==
    LET k == IF j > n - j THEN n - j ELSE j
    IN  IF j > n THEN 0 ELSE Products(n, k)[k]

\* A search at the edge of u64 breaks off: the range it leaves is empty.
Halve(target, j, last) ==
    LET mid == last.lo + (last.hi - last.lo) \div 2
    IN  IF last.lo > last.hi THEN last
        ELSE IF binom(mid, j) <= target THEN [last EXCEPT !.lo = mid + 1, !.result = mid]
        ELSE [last EXCEPT !.hi = mid - 1]

Halvings(target, j, lo, hi) ==
    LET turn[t \in 0 .. 2 * IntBits] ==
            IF t = 0 THEN [lo |-> lo, hi |-> hi, result |-> U64(lo - 1)]
            ELSE Halve(target, j, turn[t - 1])
    IN  turn

\* A turn leaves half of the candidates at most.
find_largest_binom_le(target, j, lo, hi) ==
    Halvings(target, j, lo, hi)[2 * IntBits].result

Unrank(j, last) ==
    LET i == find_largest_binom_le(last.rank, j, j - 1, last.upper)
    IN  [rank |-> U128(last.rank - binom(i, j)),
         upper |-> IF i > 0 THEN i - 1 ELSE 0,
         indices |-> <<U32(i)>> \o last.indices]

Unrankings(rank, n, k) ==
    LET turn[t \in 0 .. k] ==
            IF t = 0 THEN [rank |-> rank, upper |-> U64(n - 1), indices |-> <<>>]
            ELSE Unrank(k - (t - 1), turn[t - 1])
    IN  turn

\* The indices are those that decode_enum_rank casts to u32.
unrank_subset(rank, n, k) == Unrankings(rank, n, k)[k].indices

-----------------------------------------------------------------------------
(* residual.rs *)

ExtractInByte(data, pos, width) ==  \* mutant: codes do not cross bytes
    (Byte(data, pos \div 8) \div 2 ^ (pos % 8)) % 2 ^ width

\* A mask of eight bits is built by shifting a u8 by its width, which shifts
\* by nothing and leaves the mask 0.
Extract(data, pos, width) ==
    IF pos % 8 = 0 /\ width = 8 THEN 0 ELSE BitsAt(data, pos, width)

NextGap(prev, gap) == prev + gap  \* mutant: gaps count from the index itself

IndexAfter(prev, gap) == U32(prev + 1 + U32(gap))

ReadGap(data, i, last) ==
    LET gap == decode_uvarint(data, last.next)
    IN  [indices |-> Append(last.indices,
             IF i = 1 THEN U32(gap.value)
             ELSE IndexAfter(last.indices[i - 1], gap.value)),
         next |-> gap.next]

GapsRead(data, k, offset) ==
    LET read[i \in 0 .. k] ==
            IF i = 0 THEN [indices |-> <<>>, next |-> offset]
            ELSE ReadGap(data, i, read[i - 1])
    IN  read

decode_delta_gaps(data, k, offset) ==
    LET read == GapsRead(data, k, offset)[k]
    IN  [indices |-> read.indices, next |-> read.next, panics |-> FALSE]

\* decode_bigint_be wraps as it goes, which leaves the same remainder.
RankedIn(data, n, k, offset, rank_len) ==
    LET end == U32(rank_len.next + U32(rank_len.value))
        rank == U128(FromBytes(SubSeq(data, rank_len.next + 1, end)))
    IN  IF k = 0 THEN [indices |-> <<>>, next |-> offset, panics |-> FALSE]
        ELSE IF rank_len.value = 0
        THEN [indices |-> [i \in 1 .. k |-> i - 1], next |-> rank_len.next, panics |-> FALSE]
        ELSE IF end < rank_len.next \/ end > Len(data)
        THEN [indices |-> <<>>, next |-> end, panics |-> TRUE]
        ELSE [indices |-> unrank_subset(rank, n, k), next |-> end, panics |-> FALSE]

decode_enum_rank(data, n, k, offset) ==
    RankedIn(data, n, k, offset, decode_uvarint(data, offset))

decode_bitmap(data, n, offset) ==
    LET num_bytes == U32(n + 7) \div 8
        bits == IF n <= 8 * num_bytes THEN n ELSE 8 * num_bytes
    IN  IF offset + num_bytes > Len(data)
        THEN [indices |-> <<>>, next |-> offset, panics |-> TRUE]
        ELSE [indices |-> SetBits(data, offset, bits)[bits],
              next |-> offset + num_bytes, panics |-> FALSE]

decode_labels(data, k, offset, leaf_prediction, n_classes) ==
    LET is_legacy == n_classes \in {0, 3}
        conditional == leaf_prediction # None
        all_classes == IF is_legacy THEN -1 .. 1 ELSE 0 .. AsI8(n_classes) - 1
        remaining == all_classes \ {leaf_prediction}
        bits == IF conditional THEN AtLeastOne(CeilLog2(Cardinality(remaining)))
                ELSE IF is_legacy THEN 2
                ELSE AtLeastOne(CeilLog2(n_classes))
        Code(i) == Extract(data, U32(U32(8 * offset) + U32((i - 1) * bits)), bits)
        Label(code) == IF conditional THEN Nth(remaining, code)
                       ELSE IF is_legacy THEN code - 1 ELSE AsI8(code)
        num_bytes == NumBytes(U32(U32(k * bits) + 7) - 7)
    IN  IF k = 0 THEN [labels |-> <<>>, next |-> offset, panics |-> FALSE]
        ELSE IF \/ 8 * offset + k * bits > 8 * Len(data)
                \/ conditional /\ \E i \in 1 .. k : Code(i) >= Cardinality(remaining)
        THEN [labels |-> <<>>, next |-> offset, panics |-> TRUE]
        ELSE [labels |-> [i \in 1 .. k |-> Label(Code(i))],
              next |-> offset + num_bytes, panics |-> FALSE]

\* The reserved encoding panics.
BlockOf(data, n_b, encoding, count, leaf_prediction, n_classes) ==
    LET k == U32(count.value)
        found == IF encoding = 0 THEN decode_delta_gaps(data, k, count.next)
                 ELSE IF encoding = 1 THEN decode_enum_rank(data, n_b, k, count.next)
                 ELSE decode_bitmap(data, n_b, count.next)
        coded == decode_labels(data, k, found.next, leaf_prediction, n_classes)
    IN  [data |-> [indices |-> found.indices, labels |-> coded.labels],
         next |-> coded.next,
         panics |-> encoding = 3 \/ found.panics \/ coded.panics]

decode_block(data, n_b, offset, leaf_prediction, n_classes) ==
    BlockOf(data, n_b, (Byte(data, offset) \div 4) % 4,
            decode_uvarint(data, offset + 1), leaf_prediction, n_classes)

-----------------------------------------------------------------------------
(* codec.rs *)

AfterRun(last, run) ==
    LET run_len == U32(run.value)
    IN  [offset |-> run.next,
         block_id |-> last.block_id + run_len,
         list |-> last.list \o [i \in 1 .. run_len |->
                                   [bid |-> last.block_id + i - 1, data |-> None]],
         panicked |-> FALSE]

AfterBlock(last, block) ==
    IF block.panics THEN [last EXCEPT !.panicked = TRUE]
    ELSE [offset |-> block.next,
          block_id |-> last.block_id + 1,
          list |-> Append(last.list, [bid |-> last.block_id, data |-> block.data]),
          panicked |-> FALSE]

\* One turn of the loop, from what the turns before it made
Record(l, last) ==
    LET rec_type == Byte(l.stream, last.offset) % 4
        n_b == IF last.block_id < l.num_blocks - 1 THEN l.block_size
               ELSE U32(l.n_leaf - U32(last.block_id * l.block_size))
    IN  IF rec_type = 0
        THEN AfterRun(last, decode_uvarint(l.stream, last.offset + 1))
        ELSE IF rec_type # 1 THEN [last EXCEPT !.panicked = TRUE]
        ELSE AfterBlock(last,
                 decode_block(l.stream, n_b, last.offset, l.prediction, l.n_classes))

Ended(l, last) ==
    last.panicked \/ last.block_id >= l.num_blocks \/ last.offset >= Len(l.stream)

Turn(l, last) == IF Ended(l, last) THEN last ELSE Record(l, last)

Records(l) ==
    LET turn[t \in 0 .. Len(l.stream)] ==
            IF t = 0
            THEN [offset |-> 0, block_id |-> 0, list |-> <<>>, panicked |-> FALSE]
            ELSE Turn(l, turn[t - 1])
    IN  turn

\* Every record takes a byte at least.
Outcome(last) == IF last.panicked THEN Failed ELSE last.list

decode_record_stream(l) == Outcome(Records(l)[Len(l.stream)])
=============================================================================
