-------------------------------- MODULE JsFile --------------------------------
(***************************************************************************)
(* How the JavaScript reader reads a residual file: parseResidualFile and  *)
(* buildLookupCache of js/src/codec.js, on the files of ResidualFormat.    *)
(* It knows no checksum, no enum and no partition mode.                    *)
(***************************************************************************)
EXTENDS ResidualFormat

CONSTANTS
    Undefined,  \* undefined
    JsDecode(_, _, _, _, _, _)  \* decodeRecordStream, Failed when it throws

\* A DataView throws on a header, an entry or a blob header that is not all
\* there.
parseHeaderOk(f) == f.header # None /\ f.header.magic = MAGIC

leafIndex(f) == SubSeq(f.index, 1, f.header.num_leaves)

Parses(f) ==
    /\ parseHeaderOk(f)
    /\ f.header.num_leaves <= Len(f.index)
    /\ \A i \in 1 .. f.header.num_leaves : f.index[i].blob_offset \in DOMAIN f.blobs

\* data.slice(dataStart, dataStart + recordStreamLen): the stream follows the
\* 29 bytes of the header in every version, and may be cut short.
recordStream(raw) ==
    SubSeq(raw.body, 1, IF raw.record_stream_len <= Len(raw.body)
                        THEN raw.record_stream_len ELSE Len(raw.body))

FirstBlob(f, leafId) ==  \* mutant: leafBlobs keeps the first entry of a leaf
    f.blobs[leafIndex(f)[Least({i \in 1 .. Len(leafIndex(f)) :
                                    leafIndex(f)[i].leaf_id = leafId})].blob_offset]

\* leafBlobs.set keeps the last entry of a leaf.
leafBlob(f, leafId) ==
    f.blobs[leafIndex(f)[Greatest({i \in 1 .. Len(leafIndex(f)) :
                                       leafIndex(f)[i].leaf_id = leafId})].blob_offset]

leafBlocks(f, leafId) ==
    LET raw == leafBlob(f, leafId)
    IN  JsDecode(recordStream(raw), raw.num_blocks, raw.n_leaf, f.header.block_size,
                 IF f.header.label_codec = CONDITIONAL_1BIT THEN raw.pred_code - 1
                 ELSE None,
                 IF f.header.version_major >= 30 THEN f.header.n_classes ELSE 0)

\* Every position of a block is a key, with undefined for a missing label.
blockCache(data) ==
    [idx \in {data.indices[p] : p \in 1 .. Len(data.indices)} |->
        LET pos == Greatest(Positions(data.indices, idx))
        IN  IF pos <= Len(data.labels) THEN data.labels[pos] ELSE Undefined]

leafCache(blocks) ==
    [bid \in {blocks[i].bid : i \in Corrected(blocks)} |->
        blockCache(blocks[Greatest({i \in Corrected(blocks) :
                                    blocks[i].bid = bid})].data)]

leafIds(f) == {leafIndex(f)[i].leaf_id : i \in 1 .. Len(leafIndex(f))}

Throws(f) == \E leafId \in leafIds(f) : leafBlocks(f, leafId) = Failed

buildLookupCache(f) == [leafId \in leafIds(f) |-> leafCache(leafBlocks(f, leafId))]
=============================================================================
