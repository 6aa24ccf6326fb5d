---------------------------- MODULE ResidualFormat ----------------------------
(***************************************************************************)
(* How the Python package reads a residual file: the pure functions of     *)
(* codec/v18_codec.py.  The machine that calls them is ResidualFile; the   *)
(* other readers are compared with them.                                   *)
(*                                                                         *)
(* A file is abstracted to what the readers tell apart:                    *)
(*   header  the 112 bytes, None when the file is shorter;                 *)
(*   index   the complete index entries from leaf_index_offset on;         *)
(*   blobs   for an offset with 29 more bytes, the blob header there and,  *)
(*           in body, everything that follows it.                          *)
(***************************************************************************)
EXTENDS BlockList

CONSTANTS
    Files,                  \* the files to read
    Failed,                 \* an exception, whichever its class
    CountsSize,             \* size of n_leaf_pred in a body: 12 bytes
    Crc32(_),               \* zlib.crc32
    Decode(_, _, _, _, _, _) \* decode_record_stream, Failed when it raises

MAGIC == "CEGR"

LEAF_BLOCK == 0
LEAF_BLOCK_PRED == 1

FIXED_2BIT == 0
HUFFMAN == 1
CONDITIONAL_1BIT == 2

-----------------------------------------------------------------------------
(* Headers and blobs *)

\* V18Header.from_bytes raises on a short file, another magic and enum values
\* it does not know.
HeaderAccepted(f) ==
    /\ f.header # None
    /\ f.header.magic = MAGIC
    /\ f.header.partition_mode \in {LEAF_BLOCK, LEAF_BLOCK_PRED}
    /\ f.header.label_codec \in {FIXED_2BIT, HUFFMAN, CONDITIONAL_1BIT}

AlwaysClasses(f) == f.header  \* mutant: the reserved byte of old files counts

\* n_classes is a reserved byte before version 30
HeaderOf(f) ==
    [f.header EXCEPT !.n_classes = IF f.header.version_major >= 30 THEN @ ELSE 0]

\* Bytes of the body before the record stream
CountsBefore(mode) == IF mode = LEAF_BLOCK_PRED THEN CountsSize ELSE 0

\* A slice: a stream the file cuts short is silently shorter
StreamOf(raw, mode) ==
    LET rest == SubSeq(raw.body, CountsBefore(mode) + 1, Len(raw.body))
    IN  SubSeq(rest, 1, IF raw.record_stream_len <= Len(rest)
                        THEN raw.record_stream_len ELSE Len(rest))

CrcAlwaysMatches(stored, stream) == TRUE  \* mutant: no verification

\* A checksum of 0 is not verified
CrcMatches(stored, stream) == stored # 0 => stored = Crc32(stream)

\* LeafBlob.from_bytes: the blob's own leaf_id, its k_leaf and the entry's
\* blob_len decide nothing.
BlobAt(f, offset, mode) ==
    IF offset \notin DOMAIN f.blobs THEN Failed
    ELSE IF Len(f.blobs[offset].body) < CountsBefore(mode) THEN Failed
    ELSE LET raw == f.blobs[offset]
             stream == StreamOf(raw, mode)
         IN  IF ~CrcMatches(raw.record_stream_crc32, stream) THEN Failed
             ELSE [base_pred_label |-> raw.pred_code - 1,
                   n_leaf |-> raw.n_leaf,
                   num_blocks |-> raw.num_blocks,
                   record_stream_crc32 |-> raw.record_stream_crc32,
                   record_stream |-> stream]

-----------------------------------------------------------------------------
(* Corrections *)

LeafPred(header, blob) ==
    IF header.label_codec = CONDITIONAL_1BIT THEN blob.base_pred_label ELSE None

Blocks(header, blob) ==
    Decode(blob.record_stream, blob.num_blocks, blob.n_leaf, header.block_size,
           LeafPred(header, blob), header.n_classes)

\* What the callers rely on of decode_record_stream, whatever the file
Delivered(blocks) == blocks # Failed /\ IsBlockList(blocks)

ASSUME NoneAssumption == None \notin Int /\ Failed \notin Int /\ Failed # None

Least(S) == CHOOSE x \in S : \A y \in S : x <= y
Greatest(S) == CHOOSE x \in S : \A y \in S : y <= x

Positions(s, x) == {p \in 1 .. Len(s) : s[p] = x}

\* data.indices.index(idx), then data.labels[pos], which raises IndexError
\* where a bitmap names more positions than it has labels
LabelIn(data, idx) ==
    LET pos == Least(Positions(data.indices, idx))
    IN  IF Positions(data.indices, idx) = {} THEN None
        ELSE IF pos > Len(data.labels) THEN Failed
        ELSE data.labels[pos]

\* The loop of lookup over the blocks of the leaf
LookupIn(blocks, block_id, idx) ==
    LET found == {i \in 1 .. Len(blocks) : blocks[i].bid = block_id}
        data == blocks[Least(found)].data
    IN  IF found = {} \/ data = None THEN None ELSE LabelIn(data, idx)

\* zip stops at the shorter of the two lists; a dict keeps the last value.
Paired(data) == IF Len(data.indices) <= Len(data.labels)
                THEN Len(data.indices) ELSE Len(data.labels)

PairedFromTheEnd(data) ==  \* mutant: labels are aligned at their end
    LET n == Paired(data)
    IN  [idx \in {data.indices[p] : p \in 1 .. n} |->
            data.labels[n + 1 - Greatest({p \in 1 .. n : data.indices[p] = idx})]]

BlockCache(data) ==
    [idx \in {data.indices[p] : p \in 1 .. Paired(data)} |->
        data.labels[Greatest({p \in 1 .. Paired(data) : data.indices[p] = idx})]]

\* The entries of blocks with corrections
Corrected(blocks) ==
    {i \in 1 .. Len(blocks) : blocks[i].data # None /\ blocks[i].data.indices # <<>>}

LeafCache(blocks) ==
    [bid \in {blocks[i].bid : i \in Corrected(blocks)} |->
        BlockCache(blocks[Greatest({i \in Corrected(blocks) :
                                    blocks[i].bid = bid})].data)]
=============================================================================
