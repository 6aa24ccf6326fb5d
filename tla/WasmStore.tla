------------------------------ MODULE WasmStore -------------------------------
(***************************************************************************)
(* The WebAssembly reader (wasm/src/lib.rs with parse_and_cache and the    *)
(* parsers of wasm/src/codec.rs) and the page that drives it: the page     *)
(* allocates buffers, writes files into them, loads them and asks.         *)
(*                                                                         *)
(* A panic of the module is a trap: the call ends without a result and the *)
(* page may go on calling.  The STATE lock is only taken after parsing and *)
(* for reading, where nothing panics, so it is never poisoned.             *)
(*                                                                         *)
(* A file's index is what starts at its leaf_index_offset, which is taken  *)
(* to lie in memory: that it is cast to usize as well is not modelled.     *)
(***************************************************************************)
EXTENDS ResidualFormat

CONSTANTS
    Buffers,        \* what alloc can return until linear memory is full
    LeafIds, BlockIds, Indices,     \* what lookups may ask for
    Usize,          \* values of usize: 2^32 on wasm32
    Trap,           \* the result of a call that panics
    RsDecode(_, _, _, _, _, _)      \* codec.rs decode_record_stream, Failed
                                    \* where it panics

ASSUME UsizeAssumption == Usize \in Nat \ {0}

VARIABLES
    memory,     \* buffer -> what it holds, None before alloc
    state,      \* STATE
    reply,      \* the last call, with its result
    loaded      \* history: the file of the last load that returned 0

vars == <<memory, state, reply, loaded>>

NO_CORRECTION == -128
Zeros == [header |-> None, index |-> <<>>, blobs |-> <<>>]

-----------------------------------------------------------------------------
(* codec.rs *)

AsI8(n) == ((n + 128) % 256) - 128
AsUsize(n) == n % Usize

\* No enum is checked
ParseHeaderOk(f) == f.header # None /\ f.header.magic = MAGIC

\* &data[data_start..rs_end]; a length that wraps or leaves the file panics.
\* The blob header has 29 bytes in every partition mode.
RecordStream(raw) == SubSeq(raw.body, 1, AsUsize(raw.record_stream_len))

BlobParses(f, offset) ==
    /\ offset \in DOMAIN f.blobs
    /\ AsUsize(f.blobs[offset].record_stream_len) <= Len(f.blobs[offset].body)

RsLeafPred(f, raw) ==
    IF f.header.label_codec = CONDITIONAL_1BIT
    THEN AsI8(AsI8(raw.pred_code) - 1)
    ELSE None

RsBlocks(f, raw) ==
    RsDecode(RecordStream(raw), raw.num_blocks, raw.n_leaf, f.header.block_size,
             RsLeafPred(f, raw),
             IF f.header.version_major >= 30 THEN f.header.n_classes ELSE 0)

\* bd.labels[i] panics where a block names more positions than labels
Cacheable(blocks) ==
    /\ blocks # Failed
    /\ \A i \in Corrected(blocks) :
           Len(blocks[i].data.indices) <= Len(blocks[i].data.labels)

LeafParses(f, offset) ==
    BlobParses(f, offset) /\ Cacheable(RsBlocks(f, f.blobs[offset]))

BlockEntries(data) ==
    [idx \in {data.indices[p] : p \in 1 .. Len(data.indices)} |->
        data.labels[Greatest(Positions(data.indices, idx))]]

RsLeafCache(blocks) ==
    [bid \in {blocks[i].bid : i \in Corrected(blocks)} |->
        BlockEntries(blocks[Greatest({i \in Corrected(blocks) :
                                          blocks[i].bid = bid})].data)]

Entries(f) == SubSeq(f.index, 1, f.header.num_leaves)

Parses(f) ==
    /\ f.header.num_leaves <= Len(f.index)
    /\ \A i \in 1 .. Len(Entries(f)) : LeafParses(f, AsUsize(Entries(f)[i].blob_offset))

FirstOffset(f, leaf_id) ==  \* mutant: entry().or_insert keeps the first
    AsUsize(f.index[Least({i \in 1 .. Len(Entries(f)) :
                               f.index[i].leaf_id = leaf_id})].blob_offset)

\* cache.insert keeps the last of several entries for a leaf
OffsetOf(f, leaf_id) ==
    AsUsize(f.index[Greatest({i \in 1 .. Len(Entries(f)) :
                                  f.index[i].leaf_id = leaf_id})].blob_offset)

LookupCache(f) ==
    [leaf_id \in {Entries(f)[i].leaf_id : i \in 1 .. Len(Entries(f))} |->
        RsLeafCache(RsBlocks(f, f.blobs[OffsetOf(f, leaf_id)]))]

-----------------------------------------------------------------------------
(* The Python reader as a reference *)

\* from_bytes returns
PythonReads(f) ==
    /\ HeaderAccepted(f)
    /\ f.header.num_leaves <= Len(f.index)
    /\ \A i \in 1 .. f.header.num_leaves :
           BlobAt(f, f.index[i].blob_offset, f.header.partition_mode) # Failed

\* V18ResidualFile.lookup on the object from_bytes returns
PythonLookup(f, leaf_id, block_id, idx) ==
    LET entries == {i \in 1 .. f.header.num_leaves : f.index[i].leaf_id = leaf_id}
        blob == BlobAt(f, f.index[Greatest(entries)].blob_offset, f.header.partition_mode)
    IN  IF entries = {} THEN None
        ELSE LookupIn(Blocks(HeaderOf(f), blob), block_id, idx)

Comparable(f) == PythonReads(f) /\ f.header.partition_mode = LEAF_BLOCK

\* The fields of a header and of an index entry that the readers use.
ASSUME FileAssumption ==
    \A f \in Files :
        /\ f.index \in Seq([leaf_id : Nat, blob_offset : Nat])
        /\ f.header # None =>
               /\ {"magic", "version_major", "partition_mode", "label_codec",
                   "n_classes", "block_size", "num_leaves"} \subseteq DOMAIN f.header
               /\ f.header.num_leaves \in Nat

\* Files and their streams are shorter than memory.
ASSUME LengthAssumption ==
    \A f \in Files : Comparable(f) =>
        \A o \in DOMAIN f.blobs :
            /\ o \in 0 .. Usize - 1
            /\ f.blobs[o].body \in Seq({f.blobs[o].body[p] : p \in DOMAIN f.blobs[o].body})
            /\ f.blobs[o].record_stream_len \in 0 .. Usize - 1

\* The two decoders find the same legal list in a stream both take, the one
\* given the prediction as an i8 and the other as an int.
ASSUME DecodersAgree ==
    \A f \in Files : Comparable(f) =>
        \A o \in DOMAIN f.blobs :
            LET h == HeaderOf(f)
                blob == BlobAt(f, o, LEAF_BLOCK)
            IN  (blob # Failed /\ BlobParses(f, o)) =>
                    /\ RsDecode(blob.record_stream, blob.num_blocks, blob.n_leaf,
                                h.block_size, RsLeafPred(f, f.blobs[o]), h.n_classes)
                           = Blocks(h, blob)
                    /\ Blocks(h, blob) = Failed \/ Delivered(Blocks(h, blob))

\* None is neither a cached file nor the state it leaves.
ASSUME StateAssumption ==
    \A f \in Files :
        (ParseHeaderOk(f) /\ Parses(f)) =>
            None # [header |-> f.header, cache |-> LookupCache(f)]

-----------------------------------------------------------------------------
(* lib.rs *)

Init ==
    /\ memory = [b \in Buffers |-> None]
    /\ state = None
    /\ reply = [call |-> "instantiate", value |-> 0]
    /\ loaded = None

\* Buffers are forgotten, never freed
Alloc(b) ==
    /\ memory[b] = None
    /\ memory' = [memory EXCEPT ![b] = Zeros]
    /\ reply' = [call |-> "alloc", value |-> b]
    /\ UNCHANGED <<state, loaded>>

\* The page writes a file into a buffer, loaded or not
HostWrite(b, f) ==
    /\ memory[b] # None
    /\ memory' = [memory EXCEPT ![b] = f]
    /\ UNCHANGED <<state, reply, loaded>>

ReplaceHeaderFirst(b) ==  \* mutant: the header is stored before the body parses
    LET f == memory[b]
    IN  /\ f # None
        /\ ParseHeaderOk(f)
        /\ reply' = [call |-> "load", value |-> IF Parses(f) THEN 0 ELSE Trap]
        /\ loaded' = IF Parses(f) THEN f ELSE loaded
        /\ state' = [header |-> f.header,
                     cache |-> IF Parses(f) THEN LookupCache(f)
                               ELSE IF state = None THEN <<>> ELSE state.cache]
        /\ UNCHANGED memory

LoadResidual(b) ==
    LET f == memory[b]
    IN  /\ f # None
        /\ \/ /\ ~ParseHeaderOk(f)
              /\ reply' = [call |-> "load", value |-> -1]
              /\ UNCHANGED <<state, loaded>>
           \/ /\ ParseHeaderOk(f)
              /\ ~Parses(f)
              /\ reply' = [call |-> "load", value |-> Trap]
              /\ UNCHANGED <<state, loaded>>
           \/ /\ ParseHeaderOk(f)
              /\ Parses(f)
              /\ reply' = [call |-> "load", value |-> 0]
              /\ state' = [header |-> f.header, cache |-> LookupCache(f)]
              /\ loaded' = f
        /\ UNCHANGED memory

Answer(leaf_id, block_id, idx) ==
    IF /\ state # None
       /\ leaf_id \in DOMAIN state.cache
       /\ block_id \in DOMAIN state.cache[leaf_id]
       /\ idx \in DOMAIN state.cache[leaf_id][block_id]
    THEN state.cache[leaf_id][block_id][idx]
    ELSE NO_CORRECTION

Lookup(leaf_id, block_id, idx) ==
    /\ reply' = [call |-> "lookup", query |-> <<leaf_id, block_id, idx>>,
                 value |-> Answer(leaf_id, block_id, idx)]
    /\ UNCHANGED <<memory, state, loaded>>

GetNumLeaves ==
    /\ reply' = [call |-> "get_num_leaves",
                 value |-> IF state = None THEN 0 ELSE state.header.num_leaves]
    /\ UNCHANGED <<memory, state, loaded>>

GetTotalPositions ==
    /\ reply' = [call |-> "get_total_positions",
                 value |-> IF state = None THEN 0 ELSE state.header.total_positions]
    /\ UNCHANGED <<memory, state, loaded>>

Next ==
    \/ \E b \in Buffers : Alloc(b) \/ LoadResidual(b)
    \/ \E b \in Buffers, f \in Files : HostWrite(b, f)
    \/ \E l \in LeafIds, b \in BlockIds, i \in Indices : Lookup(l, b, i)
    \/ GetNumLeaves \/ GetTotalPositions

Spec == Init /\ [][Next]_vars

-----------------------------------------------------------------------------
(* Correctness *)

\* Whatever was loaded, refused or overwritten before, a lookup answers for
\* the last file that load_residual accepted, and answers what Python's lookup
\* does for it (-128 for its None), as long as Python reads the file too.
LookupsAnswerLikePython ==
    reply.call = "lookup" =>
        \/ loaded = None /\ reply.value = NO_CORRECTION
        \/ loaded # None /\ ~Comparable(loaded)
        \/ /\ loaded # None
           /\ LET answer == PythonLookup(loaded, reply.query[1], reply.query[2],
                                         reply.query[3])
              IN  reply.value = IF answer = None THEN NO_CORRECTION ELSE answer

\* Header and cache are of one file, the last accepted: a load that fails or
\* traps half-way leaves no mixture of two files (load_residual).
OneFileAtATime ==
    IF state = None THEN loaded = None
    ELSE /\ loaded # None
         /\ state.header = loaded.header
         /\ DOMAIN state.cache =
                {loaded.index[i].leaf_id : i \in 1 .. state.header.num_leaves}
=============================================================================
