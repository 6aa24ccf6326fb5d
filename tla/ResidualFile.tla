----------------------------- MODULE ResidualFile -----------------------------
(***************************************************************************)
(* V18ResidualFile (codec/v18_codec.py): from_bytes, which reads the       *)
(* header, the leaf index table and one blob per entry, and then, on the   *)
(* object, build_lookup_cache and lookup.                                  *)
(*                                                                         *)
(* data is the file on disk: what the encoder wrote, or a damaged copy.    *)
(***************************************************************************)
EXTENDS ResidualFormat

CONSTANTS
    Damaged(_),     \* the copies of a written file that may be read
    BlockIds,       \* the blocks and the indices that lookups ask for
    Indices

\* The fields of a header and of an index entry that the readers use
ASSUME FileAssumption ==
    \A w \in Files : \A f \in {w} \cup Damaged(w) :
        /\ f.index \in Seq([leaf_id : Nat, blob_offset : Nat])
        /\ f.header # None =>
               /\ {"magic", "version_major", "partition_mode", "label_codec",
                   "n_classes", "block_size", "num_leaves"} \subseteq DOMAIN f.header
               /\ f.header.num_leaves \in Nat

\* The decoder keeps the promise of BlockDelivery.
ASSUME DecodeAssumption ==
    \A w \in Files : \A f \in {w} \cup Damaged(w) :
        HeaderAccepted(f) =>
            \A offset \in DOMAIN f.blobs :
                LET blob == BlobAt(f, offset, HeaderOf(f).partition_mode)
                IN  blob # Failed =>
                        \/ Blocks(HeaderOf(f), blob) = Failed
                        \/ Delivered(Blocks(HeaderOf(f), blob))

\* The offsets that the table of a file names, and the streams there
Offsets(f) == {f.index[i].blob_offset : i \in DOMAIN f.index} \cap DOMAIN f.blobs
StreamsWritten(w) ==
    {StreamOf(w.blobs[offset], w.header.partition_mode) : offset \in Offsets(w)}

\* Damage that CRC-32 is there for: the checksum is one the file was written
\* with, and a stream that is no longer a written one has another.
StreamDamaged(w, raw) ==
    /\ raw.record_stream_crc32 \in {w.blobs[o].record_stream_crc32 : o \in Offsets(w)}
    /\ \A mode \in {LEAF_BLOCK, LEAF_BLOCK_PRED} : \A stream \in StreamsWritten(w) :
           Crc32(StreamOf(raw, mode)) = Crc32(stream) => StreamOf(raw, mode) = stream

\* The checksum itself is hit, but neither the stream nor what cuts it out
ChecksumDamaged(w, f, raw) ==
    /\ f.header = w.header
    /\ StreamOf(raw, w.header.partition_mode) \in StreamsWritten(w)

\* An offset hits bytes that are no blob: what is read there as the checksum
\* is not that of what is read as the stream.
NoBlob(raw) ==
    \A mode \in {LEAF_BLOCK, LEAF_BLOCK_PRED} :
        raw.record_stream_crc32 \notin {Crc32(StreamOf(raw, mode))} \ {0}

\* An encoder stores the checksum of a stream, or 0, and damage is of one of
\* these kinds.
ASSUME ChecksumAssumption ==
    \A w \in Files :
        /\ \A offset \in Offsets(w) :
               w.blobs[offset].record_stream_crc32
                   \in {0, Crc32(StreamOf(w.blobs[offset], w.header.partition_mode))}
        /\ \A f \in Damaged(w) : \A offset \in Offsets(f) :
               \/ StreamDamaged(w, f.blobs[offset])
               \/ ChecksumDamaged(w, f, f.blobs[offset])
               \/ NoBlob(f.blobs[offset])

VARIABLES
    written,    \* the file the encoder wrote
    data,       \* the file that is read
    pc,         \* where the calls are
    header,     \* self.header
    leaf_index, \* self.leaf_index
    read,       \* entries whose blob has been read
    leaf_blobs, \* self.leaf_blobs
    cache       \* the cache under construction

vars == <<written, data, pc, header, leaf_index, read, leaf_blobs, cache>>

\* The dict with no keys, and d[key] = value
EmptyDict == <<>>
Put(d, key, value) ==
    [x \in DOMAIN d \cup {key} |-> IF x = key THEN value ELSE d[x]]

PutIfAbsent(d, key, value) ==  \* mutant: setdefault
    IF key \in DOMAIN d THEN d ELSE Put(d, key, value)

Store(d, key, value) == Put(d, key, value)

-----------------------------------------------------------------------------
(* from_bytes *)

Init ==
    /\ written \in Files
    /\ data \in {written} \cup Damaged(written)
    /\ pc = "header"
    /\ header = None
    /\ leaf_index = <<>>
    /\ read = 0
    /\ leaf_blobs = EmptyDict
    /\ cache = EmptyDict

Refuse ==
    /\ pc' = "refused"
    /\ UNCHANGED <<written, data, header, leaf_index, read, leaf_blobs, cache>>

ReadHeader ==
    /\ pc = "header"
    /\ IF HeaderAccepted(data)
       THEN /\ header' = HeaderOf(data)
            /\ pc' = "index"
            /\ UNCHANGED <<written, data, leaf_index, read, leaf_blobs, cache>>
       ELSE Refuse

ReadWholeTable ==  \* mutant: entries past num_leaves are read too
    /\ pc = "index"
    /\ leaf_index' = data.index
    /\ pc' = "blobs"
    /\ UNCHANGED <<written, data, header, read, leaf_blobs, cache>>

ReadLeafIndexTable ==
    /\ pc = "index"
    /\ IF header.num_leaves <= Len(data.index)
       THEN /\ leaf_index' = SubSeq(data.index, 1, header.num_leaves)
            /\ pc' = "blobs"
            /\ UNCHANGED <<written, data, header, read, leaf_blobs, cache>>
       ELSE Refuse

\* The blob goes under the leaf_id of the entry, over an earlier one
ReadBlob ==
    /\ pc = "blobs"
    /\ read < Len(leaf_index)
    /\ LET entry == leaf_index[read + 1]
           blob == BlobAt(data, entry.blob_offset, header.partition_mode)
       IN  IF blob = Failed THEN Refuse
           ELSE /\ leaf_blobs' = Store(leaf_blobs, entry.leaf_id, blob)
                /\ read' = read + 1
                /\ UNCHANGED <<written, data, pc, header, leaf_index, cache>>

FileRead ==
    /\ pc = "blobs"
    /\ read = Len(leaf_index)
    /\ pc' = "loaded"
    /\ UNCHANGED <<written, data, header, leaf_index, read, leaf_blobs, cache>>

-----------------------------------------------------------------------------
(* build_lookup_cache and lookup *)

LeafBlocks(leaf_id) == Blocks(header, leaf_blobs[leaf_id])

BuildLookupCache ==
    /\ pc = "loaded"
    /\ pc' = "caching"
    /\ UNCHANGED <<written, data, header, leaf_index, read, leaf_blobs, cache>>

\* A dict is traversed in the order its keys came in
NextLeaf ==
    leaf_index[Least({i \in 1 .. Len(leaf_index) :
                          leaf_index[i].leaf_id \notin DOMAIN cache})].leaf_id

SkipUndecodableLeaf ==  \* mutant: a bad leaf is left out of the cache
    /\ pc = "caching"
    /\ DOMAIN cache # DOMAIN leaf_blobs
    /\ cache' = Put(cache, NextLeaf,
                    IF LeafBlocks(NextLeaf) = Failed THEN EmptyDict
                    ELSE LeafCache(LeafBlocks(NextLeaf)))
    /\ UNCHANGED <<written, data, pc, header, leaf_index, read, leaf_blobs>>

\* One leaf of the loop; an undecodable one takes the whole cache with it
CacheLeaf ==
    /\ pc = "caching"
    /\ DOMAIN cache # DOMAIN leaf_blobs
    /\ IF LeafBlocks(NextLeaf) = Failed
       THEN /\ pc' = "uncached"
            /\ cache' = EmptyDict
       ELSE /\ cache' = Put(cache, NextLeaf, LeafCache(LeafBlocks(NextLeaf)))
            /\ UNCHANGED pc
    /\ UNCHANGED <<written, data, header, leaf_index, read, leaf_blobs>>

CacheBuilt ==
    /\ pc = "caching"
    /\ DOMAIN cache = DOMAIN leaf_blobs
    /\ pc' = "cached"
    /\ UNCHANGED <<written, data, header, leaf_index, read, leaf_blobs, cache>>

Lookup(leaf_id, block_id, idx) ==
    IF leaf_id \notin DOMAIN leaf_blobs THEN None
    ELSE IF LeafBlocks(leaf_id) = Failed THEN Failed
    ELSE LookupIn(LeafBlocks(leaf_id), block_id, idx)

Terminating == pc \in {"refused", "cached", "uncached"} /\ UNCHANGED vars

Step ==
    \/ ReadHeader \/ ReadLeafIndexTable \/ ReadBlob \/ FileRead
    \/ BuildLookupCache \/ CacheLeaf \/ CacheBuilt

Next == Step \/ Terminating

Spec == Init /\ [][Next]_vars

-----------------------------------------------------------------------------
(* Correctness *)

TypeOK ==
    /\ pc \in {"header", "index", "blobs", "loaded", "caching", "cached",
               "uncached", "refused"}
    /\ pc \in {"header", "refused"} \/ header = HeaderOf(data)
    /\ leaf_index \in Seq([leaf_id : Nat, blob_offset : Nat])
    /\ pc \in {"header", "index", "refused"} \/
           leaf_index = SubSeq(data.index, 1, header.num_leaves)
    /\ read \in 0 .. Len(leaf_index)
    /\ pc \in {"header", "index", "blobs", "refused"} \/ read = Len(leaf_index)

\* Of several entries for one leaf the last one read is in force, each leaf
\* that the table names has a blob, and no other leaf has one (from_bytes).
LastEntryWins ==
    /\ DOMAIN leaf_blobs = {leaf_index[i].leaf_id : i \in 1 .. read}
    /\ \A leaf_id \in DOMAIN leaf_blobs :
           LET last == Greatest({i \in 1 .. read : leaf_index[i].leaf_id = leaf_id})
           IN  leaf_blobs[leaf_id] =
                   BlobAt(data, leaf_index[last].blob_offset, header.partition_mode)

\* A stream that carries a checksum is one the encoder wrote, whatever the
\* damage between the two moved, cut or altered ("CRC32 integrity: per-leaf
\* record stream verification"; LeafBlob.from_bytes).
ChecksummedStreamsIntact ==
    \A leaf_id \in DOMAIN leaf_blobs :
        leaf_blobs[leaf_id].record_stream_crc32 # 0 =>
            leaf_blobs[leaf_id].record_stream \in StreamsWritten(written)

CachedLabel(leaf_id, block_id, idx) ==
    IF /\ block_id \in DOMAIN cache[leaf_id]
       /\ idx \in DOMAIN cache[leaf_id][block_id]
    THEN cache[leaf_id][block_id][idx]
    ELSE None

\* The cache answers every question like lookup, which decodes the leaf again,
\* except where lookup raises: there the cache silently has no correction.
CacheAnswersLikeLookup ==
    \A leaf_id \in DOMAIN cache : \A block_id \in BlockIds : \A idx \in Indices :
        LET answer == Lookup(leaf_id, block_id, idx)
        IN  CachedLabel(leaf_id, block_id, idx) =
                IF answer = Failed THEN None ELSE answer

\* One undecodable leaf denies the cache of the whole file, and nothing else
\* does: a cache that is returned has every leaf (build_lookup_cache).
CacheAllOrNothing ==
    /\ pc = "cached" => /\ DOMAIN cache = DOMAIN leaf_blobs
                        /\ \A leaf_id \in DOMAIN leaf_blobs : LeafBlocks(leaf_id) # Failed
    /\ pc = "uncached" => \E leaf_id \in DOMAIN leaf_blobs : LeafBlocks(leaf_id) = Failed

-----------------------------------------------------------------------------
(* The inductive invariant *)

\* The file was written, or damaged on its way
Source == written \in Files /\ data \in {written} \cup Damaged(written)

\* What is filled in later is still empty
Unread ==
    /\ pc \in {"header", "index"} => read = 0 /\ leaf_index = <<>>
    /\ pc \in {"header", "index", "blobs", "loaded"} => DOMAIN cache = {}

\* Past the header it is an accepted one, and so it is for every entry and
\* blob read; past the table, the file has all of it.
Accepted ==
    /\ (pc \notin {"header", "refused"} \/ leaf_index # <<>> \/ DOMAIN leaf_blobs # {}) =>
           HeaderAccepted(data) /\ header = HeaderOf(data)
    /\ (pc \notin {"header", "index", "refused"} \/ leaf_index # <<>>) =>
           /\ header.num_leaves <= Len(data.index)
           /\ leaf_index = SubSeq(data.index, 1, header.num_leaves)

\* Every entry read has a blob, the one that a later entry replaced too
BlobsRead ==
    /\ \A leaf_id \in DOMAIN leaf_blobs : leaf_blobs[leaf_id] # Failed
    /\ \A i \in 1 .. read :
           BlobAt(data, leaf_index[i].blob_offset, header.partition_mode) # Failed

\* The cache so far, leaf by leaf
CacheSoFar ==
    /\ DOMAIN cache \subseteq DOMAIN leaf_blobs
    /\ \A leaf_id \in DOMAIN cache :
           /\ LeafBlocks(leaf_id) # Failed
           /\ cache[leaf_id] = LeafCache(LeafBlocks(leaf_id))

IInv ==
    /\ TypeOK /\ Unread /\ Accepted /\ LastEntryWins
    /\ BlobsRead /\ CacheSoFar /\ CacheAllOrNothing
=============================================================================
