---------------------------- MODULE ResidualReaders ----------------------------
(***************************************************************************)
(* Two comparisons of the Python reader of residual files (ResidualFile):  *)
(* with what an encoder wrote, for files that arrive intact, and with the  *)
(* JavaScript reader (JsFile), for files that may not.                     *)
(***************************************************************************)
EXTENDS ResidualFile, JsFile

CONSTANT
    Meant(_, _)     \* the blocks that the encoder wrote for an entry of a file

\* A complete file with one entry per leaf, whose streams decode to what was
\* meant.
ASSUME EncoderAssumption ==
    \A w \in Files :
        /\ HeaderAccepted(w)
        /\ w.header.num_leaves = Len(w.index)
        /\ \A i, j \in DOMAIN w.index : w.index[i].leaf_id = w.index[j].leaf_id => i = j
        /\ \A i \in DOMAIN w.index :
               LET raw == w.blobs[w.index[i].blob_offset]
                   mode == w.header.partition_mode
               IN  /\ BlobAt(w, w.index[i].blob_offset, mode) # Failed
                   /\ Meant(w, i) # Failed
                   /\ Meant(w, i) =
                          Decode(StreamOf(raw, mode), raw.num_blocks, raw.n_leaf,
                                 w.header.block_size,
                                 IF w.header.label_codec = CONDITIONAL_1BIT
                                 THEN raw.pred_code - 1 ELSE None,
                                 IF w.header.version_major >= 30
                                 THEN w.header.n_classes ELSE 0)

\* On a stream that Python decodes, the JavaScript decoder finds the same.
ASSUME JsDecoderAgrees ==
    \A w \in Files : \A f \in {w} \cup Damaged(w) :
        HeaderAccepted(f) =>
            \A offset \in Offsets(f) :
                LET raw == f.blobs[offset]
                    stream == StreamOf(raw, LEAF_BLOCK)
                    pred == IF f.header.label_codec = CONDITIONAL_1BIT
                            THEN raw.pred_code - 1 ELSE None
                    classes == IF f.header.version_major >= 30 THEN f.header.n_classes ELSE 0
                    size == f.header.block_size
                    python == Decode(stream, raw.num_blocks, raw.n_leaf, size, pred, classes)
                IN  python # Failed =>
                        JsDecode(stream, raw.num_blocks, raw.n_leaf, size, pred, classes)
                            = python

\* The bytes that follow a blob header are a sequence, its length is a number.
ASSUME BodyAssumption ==
    \A w \in Files : \A f \in {w} \cup Damaged(w) :
        \A raw \in {f.blobs[offset] : offset \in DOMAIN f.blobs} :
            /\ raw.body \in Seq({raw.body[p] : p \in DOMAIN raw.body})
            /\ raw.record_stream_len \in Nat

-----------------------------------------------------------------------------
(* Correctness *)

\* An intact file is read, and each question about it has the answer that the
\* encoder meant: the index of a surplus position raises (from_bytes, lookup).
ReadsBack ==
    data = written =>
        /\ pc \notin {"refused", "uncached"}
        /\ pc = "cached" =>
               \A i \in DOMAIN written.index : \A b \in BlockIds : \A x \in Indices :
                   LET blocks == Meant(written, i)
                       answer == Lookup(written.index[i].leaf_id, b, x)
                       Position(j) == {p \in 1 .. Len(blocks[j].data.indices) :
                                          blocks[j].data.indices[p] = x}
                       found == {j \in 1 .. Len(blocks) :
                                    /\ blocks[j].bid = b
                                    /\ blocks[j].data # None
                                    /\ Position(j) # {}}
                   IN  \/ found = {} /\ answer = None
                       \/ \E j \in found : \E p \in Position(j) :
                              answer = IF p <= Len(blocks[j].data.labels)
                                       THEN blocks[j].data.labels[p] ELSE Failed

\* JavaScript has Python's corrections for a block, and undefined labels for
\* positions that have none.
Agree(ours, theirs) ==
    /\ DOMAIN ours \subseteq DOMAIN theirs
    /\ \A x \in DOMAIN theirs :
           theirs[x] = IF x \in DOMAIN ours THEN ours[x] ELSE Undefined

\* Whatever file Python reads and caches, damaged or not, JavaScript reads too
\* and caches the same corrections. All it has in addition are undefined
\* labels, for the positions that a bitmap names without a label. Files of
\* partition mode LEAF_BLOCK only: JavaScript takes the counts of the other
\* mode for records (js/src/codec.js buildLookupCache).
JsAnswersLikePython ==
    (pc = "cached" /\ header.partition_mode = LEAF_BLOCK) =>
        /\ Parses(data)
        /\ ~Throws(data)
        /\ LET js == buildLookupCache(data)
           IN  /\ DOMAIN js = DOMAIN cache
               /\ \A l \in DOMAIN cache :
                      /\ DOMAIN js[l] = DOMAIN cache[l]
                      /\ \A b \in DOMAIN cache[l] : Agree(cache[l][b], js[l][b])

-----------------------------------------------------------------------------
(* The inductive invariant *)

\* Nothing stops an intact file on its way to the cache.
NotRefused == data = written => pc \notin {"refused", "uncached"}
=============================================================================
