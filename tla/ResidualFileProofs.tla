-------------------------- MODULE ResidualFileProofs --------------------------
(***************************************************************************)
(* Theorems about ResidualFile: which blob serves a leaf, when the cache   *)
(* of a file is refused, and that cache and lookup agree, for every file,  *)
(* every damage and every decoder that keeps the promise of BlockDelivery. *)
(***************************************************************************)
EXTENDS ResidualReaders, CorrectionsProofs

-----------------------------------------------------------------------------
(* The inductive invariant *)

IndexEntry == [leaf_id : Nat, blob_offset : Nat]

\* The file that is read is one the assumptions speak of.
THEOREM SourceInv == Spec => []Source
  <1>1. Init => Source
    BY DEF Init, Source
  <1>2. Source /\ [Next]_vars => Source'
    BY DEF Source, Next, Step, Terminating, vars, ReadHeader,
           ReadLeafIndexTable, ReadBlob, FileRead, BuildLookupCache, CacheLeaf,
           CacheBuilt, Refuse
  <1> QED
    BY <1>1, <1>2, PTL DEF Spec

\* The types of its table and of its header, of which only n_classes may be
\* read as something else than it is.
LEMMA SourceTypes ==
    ASSUME Source
    PROVE  /\ data.index \in Seq(IndexEntry)
           /\ HeaderAccepted(data) =>
                  /\ data.header # None
                  /\ data.header.num_leaves \in Nat
                  /\ HeaderOf(data).num_leaves = data.header.num_leaves
                  /\ HeaderOf(data).partition_mode = data.header.partition_mode
                  /\ HeaderOf(data).label_codec = data.header.label_codec
                  /\ HeaderOf(data).block_size = data.header.block_size
                  /\ HeaderOf(data).n_classes =
                         IF data.header.version_major >= 30
                         THEN data.header.n_classes ELSE 0
  <1>1. /\ data.index \in Seq(IndexEntry)
        /\ data.header # None =>
               /\ {"magic", "version_major", "partition_mode", "label_codec",
                   "n_classes", "block_size", "num_leaves"} \subseteq DOMAIN data.header
               /\ data.header.num_leaves \in Nat
    BY FileAssumption DEF Source, IndexEntry
  <1> QED
    BY <1>1 DEF HeaderAccepted, HeaderOf

\* Reading starts with nothing read.
LEMMA InitStep == Init => IInv
  <1> SUFFICES ASSUME Init PROVE IInv
    OBVIOUS
  <1>1. /\ pc = "header" /\ read = 0 /\ leaf_index = <<>>
        /\ DOMAIN leaf_blobs = {} /\ DOMAIN cache = {}
    BY DEF Init, EmptyDict
  <1>2. TypeOK
    BY <1>1 DEF TypeOK
  <1>3. LastEntryWins
    BY <1>1 DEF LastEntryWins
  <1> QED
    BY <1>1, <1>2, <1>3
       DEF IInv, Unread, Accepted, BlobsRead, CacheSoFar, CacheAllOrNothing

\* Refusing the file keeps what has been read.
LEMMA RefuseStep ==
    ASSUME IInv, Refuse
    PROVE  IInv'
  <1>1. TypeOK'
    BY DEF IInv, TypeOK, Refuse
  <1>2. LastEntryWins' /\ BlobsRead'
    BY DEF IInv, LastEntryWins, BlobsRead, Refuse
  <1>3. CacheSoFar'
    BY DEF IInv, CacheSoFar, LeafBlocks, Refuse
  <1>4. Unread' /\ CacheAllOrNothing'
    BY DEF IInv, Unread, CacheAllOrNothing, Refuse
  <1>5. Accepted'
    BY DEF IInv, TypeOK, Accepted, Refuse
  <1> QED
    BY <1>1, <1>2, <1>3, <1>4, <1>5 DEF IInv

\* A header is accepted or the file refused.
LEMMA ReadHeaderStep ==
    ASSUME IInv, ReadHeader
    PROVE  IInv'
  <1>1. CASE HeaderAccepted(data)
    <2>1. /\ pc = "header" /\ pc' = "index" /\ header' = HeaderOf(data)
          /\ UNCHANGED <<written, data, leaf_index, read, leaf_blobs, cache>>
      BY <1>1 DEF ReadHeader
    <2>2. read = 0 /\ leaf_index = <<>> /\ DOMAIN cache = {}
      BY <2>1 DEF IInv, Unread
    <2>3. DOMAIN leaf_blobs = {}
      BY <2>2 DEF IInv, LastEntryWins
    <2>4. TypeOK'
      BY <2>1, <2>2 DEF IInv, TypeOK
    <2>5. LastEntryWins'
      BY <2>1, <2>2, <2>3 DEF LastEntryWins
    <2>6. Accepted'
      BY <1>1, <2>1, <2>2 DEF Accepted
    <2> QED
      BY <2>1, <2>2, <2>3, <2>4, <2>5, <2>6
         DEF IInv, Unread, BlobsRead, CacheSoFar, CacheAllOrNothing
  <1>2. CASE ~HeaderAccepted(data)
    BY <1>2, RefuseStep DEF ReadHeader
  <1> QED
    BY <1>1, <1>2

\* The table is read as far as the header counts, or the file refused.
LEMMA ReadLeafIndexTableStep ==
    ASSUME Source, IInv, ReadLeafIndexTable
    PROVE  IInv'
  <1>1. CASE header.num_leaves <= Len(data.index)
    <2>1. /\ pc = "index" /\ pc' = "blobs"
          /\ leaf_index' = SubSeq(data.index, 1, header.num_leaves)
          /\ UNCHANGED <<written, data, header, read, leaf_blobs, cache>>
      BY <1>1 DEF ReadLeafIndexTable
    <2>2. read = 0 /\ DOMAIN cache = {}
      BY <2>1 DEF IInv, Unread
    <2>3. DOMAIN leaf_blobs = {}
      BY <2>2 DEF IInv, LastEntryWins
    <2>4. HeaderAccepted(data) /\ header = HeaderOf(data)
      BY <2>1 DEF IInv, Accepted
    <2>5. leaf_index' \in Seq(IndexEntry)
      <3>1. data.index \in Seq(IndexEntry) /\ header.num_leaves \in Nat
        BY <2>4, SourceTypes
      <3>2. \A i \in 1 .. header.num_leaves : data.index[i] \in IndexEntry
        <4> HIDE DEF IndexEntry
        <4> QED
          BY <1>1, <3>1
      <3> HIDE DEF IndexEntry
      <3> QED
        BY <2>1, <3>1, <3>2
    <2>6. TypeOK'
      BY <2>1, <2>2, <2>4, <2>5 DEF TypeOK, IndexEntry
    <2>7. LastEntryWins'
      BY <2>1, <2>2, <2>3 DEF LastEntryWins
    <2>8. Accepted'
      BY <1>1, <2>1, <2>4 DEF Accepted
    <2> QED
      BY <2>1, <2>2, <2>3, <2>6, <2>7, <2>8
         DEF IInv, Unread, BlobsRead, CacheSoFar, CacheAllOrNothing
  <1>2. CASE ~(header.num_leaves <= Len(data.index))
    BY <1>2, RefuseStep DEF ReadLeafIndexTable
  <1> QED
    BY <1>1, <1>2

\* The new blob is the one of the last entry for its leaf; the entries for
\* another leaf are those it had.
LEMMA ReadBlobStep ==
    ASSUME IInv, ReadBlob
    PROVE  IInv'
  <1> DEFINE entry == leaf_index[read + 1]
             blob == BlobAt(data, entry.blob_offset, header.partition_mode)
             entries(n, leaf_id) == {i \in 1 .. n : leaf_index[i].leaf_id = leaf_id}
  <1>1. CASE blob = Failed
    BY <1>1, RefuseStep DEF ReadBlob
  <1>2. CASE blob # Failed
    <2>1. /\ pc = "blobs" /\ read < Len(leaf_index)
          /\ leaf_blobs' = Put(leaf_blobs, entry.leaf_id, blob)
          /\ read' = read + 1
          /\ UNCHANGED <<written, data, pc, header, leaf_index, cache>>
      BY <1>2 DEF ReadBlob, Store
    <2>2. read \in Nat /\ Len(leaf_index) \in Nat
      BY DEF IInv, TypeOK
    <2>3. /\ DOMAIN leaf_blobs' = DOMAIN leaf_blobs \cup {entry.leaf_id}
          /\ leaf_blobs'[entry.leaf_id] = blob
          /\ \A leaf_id \in DOMAIN leaf_blobs :
                 leaf_id # entry.leaf_id => leaf_blobs'[leaf_id] = leaf_blobs[leaf_id]
      BY <2>1 DEF Put
    <2>4. TypeOK'
      BY <2>1, <2>2 DEF IInv, TypeOK
    <2>5. DOMAIN cache = {}
      BY <2>1 DEF IInv, Unread
    <2>6. 1 .. read + 1 = 1 .. read \cup {read + 1}
      BY <2>2
    <2>7. LastEntryWins'
      <3>1. DOMAIN leaf_blobs' = {leaf_index[i].leaf_id : i \in 1 .. read + 1}
        BY <2>3, <2>6 DEF IInv, LastEntryWins
      <3>2. ASSUME NEW leaf_id \in DOMAIN leaf_blobs'
            PROVE  leaf_blobs'[leaf_id] =
                       BlobAt(data, leaf_index[Greatest(entries(read + 1, leaf_id))].blob_offset,
                              header.partition_mode)
        <4>1. CASE leaf_id = entry.leaf_id
          <5>1. read + 1 \in entries(read + 1, leaf_id)
            BY <2>2, <4>1
          <5>2. \A i \in entries(read + 1, leaf_id) : i \in Int /\ i <= read + 1
            BY <2>2
          <5> HIDE DEF entries
          <5>3. Greatest(entries(read + 1, leaf_id)) = read + 1
            BY <2>2, <5>1, <5>2, GreatestAtTop
          <5> QED
            BY <2>3, <4>1, <5>3
        <4>2. CASE leaf_id # entry.leaf_id
          <5>1. entries(read + 1, leaf_id) = entries(read, leaf_id)
            BY <2>6, <4>2
          <5>2. leaf_id \in DOMAIN leaf_blobs /\ leaf_blobs'[leaf_id] = leaf_blobs[leaf_id]
            BY <2>3, <4>2
          <5> QED
            BY <5>1, <5>2 DEF IInv, LastEntryWins
        <4> QED
          BY <4>1, <4>2
      <3> QED
        BY <2>1, <3>1, <3>2 DEF LastEntryWins
    <2>8. BlobsRead'
      BY <1>2, <2>1, <2>3, <2>6 DEF IInv, BlobsRead
    <2>9. Accepted'
      BY <2>1 DEF IInv, Accepted
    <2> QED
      BY <2>1, <2>4, <2>5, <2>7, <2>8, <2>9
         DEF IInv, Unread, CacheSoFar, CacheAllOrNothing
  <1> QED
    BY <1>1, <1>2

\* A step that moves on to the next loop and changes nothing else.
LEMMA MoveOn ==
    ASSUME IInv, UNCHANGED <<written, data, header, leaf_index, read, leaf_blobs, cache>>,
           FileRead \/ BuildLookupCache \/ CacheBuilt
    PROVE  IInv'
  <1>1. TypeOK'
    BY DEF IInv, TypeOK, FileRead, BuildLookupCache, CacheBuilt
  <1>2. Unread' /\ Accepted'
    BY DEF IInv, Unread, Accepted, FileRead, BuildLookupCache, CacheBuilt
  <1>3. LastEntryWins' /\ BlobsRead'
    BY DEF IInv, LastEntryWins, BlobsRead
  <1>4. CacheSoFar'
    BY DEF IInv, CacheSoFar, LeafBlocks
  <1>5. CacheAllOrNothing'
    BY DEF IInv, CacheSoFar, CacheAllOrNothing, LeafBlocks, FileRead,
           BuildLookupCache, CacheBuilt
  <1> QED
    BY <1>1, <1>2, <1>3, <1>4, <1>5 DEF IInv

\* While a leaf is missing in the cache, the next one is such a leaf.
LEMMA NextLeafIsRead ==
    ASSUME IInv, pc = "caching", DOMAIN cache # DOMAIN leaf_blobs
    PROVE  NextLeaf \in DOMAIN leaf_blobs
  <1> DEFINE missing == {i \in 1 .. Len(leaf_index) : leaf_index[i].leaf_id \notin DOMAIN cache}
  <1>1. read = Len(leaf_index) /\ Len(leaf_index) \in Nat
    BY DEF IInv, TypeOK
  <1>2. DOMAIN leaf_blobs = {leaf_index[i].leaf_id : i \in 1 .. Len(leaf_index)}
    BY <1>1 DEF IInv, LastEntryWins
  <1>3. missing # {}
    BY <1>2 DEF IInv, CacheSoFar
  <1>4. missing \subseteq Nat
    BY <1>1
  <1>5. Least(missing) \in missing
    <2> HIDE DEF missing
    <2> QED
      BY <1>3, <1>4, LeastExists
  <1> QED
    BY <1>2, <1>5 DEF NextLeaf

\* A leaf joins the cache, or the cache is given up.
LEMMA CacheLeafStep ==
    ASSUME IInv, CacheLeaf
    PROVE  IInv'
  <1>1. /\ pc = "caching" /\ DOMAIN cache # DOMAIN leaf_blobs
        /\ UNCHANGED <<written, data, header, leaf_index, read, leaf_blobs>>
    BY DEF CacheLeaf
  <1>2. NextLeaf \in DOMAIN leaf_blobs
    BY <1>1, NextLeafIsRead
  <1>3. pc' \in {"caching", "uncached"}
    BY <1>1 DEF CacheLeaf
  <1>4. TypeOK'
    BY <1>1, <1>3 DEF IInv, TypeOK
  <1>5. Unread' /\ Accepted'
    BY <1>1, <1>3 DEF IInv, Unread, Accepted
  <1>6. LastEntryWins' /\ BlobsRead'
    BY <1>1 DEF IInv, LastEntryWins, BlobsRead
  <1>7. CASE LeafBlocks(NextLeaf) = Failed
    <2>1. pc' = "uncached" /\ DOMAIN cache' = {}
      BY <1>7 DEF CacheLeaf, EmptyDict
    <2>2. CacheSoFar'
      BY <2>1 DEF CacheSoFar
    <2>3. CacheAllOrNothing'
      BY <1>1, <1>2, <1>7, <2>1 DEF CacheAllOrNothing, LeafBlocks
    <2> QED
      BY <1>4, <1>5, <1>6, <2>2, <2>3 DEF IInv
  <1>8. CASE LeafBlocks(NextLeaf) # Failed
    <2> DEFINE next == NextLeaf
    <2>1. pc' = pc /\ cache' = Put(cache, next, LeafCache(LeafBlocks(next)))
      BY <1>8 DEF CacheLeaf
    <2>2. next \in DOMAIN leaf_blobs /\ LeafBlocks(next) # Failed
      BY <1>2, <1>8
    <2> HIDE DEF next
    <2>3. /\ DOMAIN cache' = DOMAIN cache \cup {next}
          /\ cache'[next] = LeafCache(LeafBlocks(next))
          /\ \A leaf_id \in DOMAIN cache : leaf_id # next => cache'[leaf_id] = cache[leaf_id]
      BY <2>1 DEF Put
    <2>4. CacheSoFar'
      BY <1>1, <2>2, <2>3 DEF IInv, CacheSoFar, LeafBlocks
    <2>5. CacheAllOrNothing'
      BY <1>1, <2>1 DEF CacheAllOrNothing
    <2> QED
      BY <1>4, <1>5, <1>6, <2>4, <2>5 DEF IInv
  <1> QED
    BY <1>7, <1>8

\* The invariant behind the theorems below: what is filled in later is still
\* empty, and what is filled in comes from the file that was accepted.
THEOREM Inductive == Spec => []IInv
  <1>1. Source /\ IInv /\ [Next]_vars => IInv'
    <2> SUFFICES ASSUME Source, IInv, [Next]_vars
                 PROVE  IInv'
      OBVIOUS
    <2>1. CASE ReadHeader
      BY <2>1, ReadHeaderStep
    <2>2. CASE ReadLeafIndexTable
      BY <2>2, ReadLeafIndexTableStep
    <2>3. CASE ReadBlob
      BY <2>3, ReadBlobStep
    <2>4. CASE CacheLeaf
      BY <2>4, CacheLeafStep
    <2>5. CASE FileRead \/ BuildLookupCache \/ CacheBuilt
      <3>1. UNCHANGED <<written, data, header, leaf_index, read, leaf_blobs, cache>>
        BY <2>5 DEF FileRead, BuildLookupCache, CacheBuilt
      <3> QED
        BY <2>5, <3>1, MoveOn
    <2>6. CASE UNCHANGED vars
      BY ZenonT(60), <2>6
         DEF vars, IInv, TypeOK, Unread, Accepted, LastEntryWins, BlobsRead,
             CacheSoFar, CacheAllOrNothing, LeafBlocks
    <2> QED
      BY <2>1, <2>2, <2>3, <2>4, <2>5, <2>6 DEF Next, Step, Terminating
  <1> QED
    BY <1>1, InitStep, SourceInv, PTL DEF Spec

-----------------------------------------------------------------------------
(* What from_bytes and build_lookup_cache promise *)

\* The types of the object under construction (from_bytes).
THEOREM Types == Spec => []TypeOK
  <1>1. IInv => TypeOK
    BY DEF IInv
  <1> QED
    BY <1>1, Inductive, PTL

\* The last entry of the table for a leaf decides which blob serves it, in
\* every file (from_bytes).
THEOREM LastEntry == Spec => []LastEntryWins
  <1>1. IInv => LastEntryWins
    BY DEF IInv
  <1> QED
    BY <1>1, Inductive, PTL

\* The entries read so far are the first of the table of the file.
LEMMA EntriesOfTable ==
    ASSUME Source, IInv, NEW i \in 1 .. Len(leaf_index)
    PROVE  /\ i \in DOMAIN data.index
           /\ i <= header.num_leaves
           /\ leaf_index[i] = data.index[i]
  <1>1. leaf_index # <<>> /\ leaf_index \in Seq(IndexEntry)
    BY DEF IInv, TypeOK, IndexEntry
  <1>2. /\ header.num_leaves <= Len(data.index)
        /\ leaf_index = SubSeq(data.index, 1, header.num_leaves)
    BY <1>1 DEF IInv, Accepted
  <1>3. data.index \in Seq(IndexEntry)
    BY SourceTypes
  <1>4. HeaderAccepted(data) /\ header = HeaderOf(data)
    BY <1>1 DEF IInv, Accepted
  <1>5. header.num_leaves \in Nat
    BY <1>4, SourceTypes
  <1> DEFINE n == header.num_leaves
             t == data.index
             E == IndexEntry
  <1> HIDE DEF n, t, E
  <1>6. t \in Seq(E) /\ n \in Nat /\ n <= Len(t) /\ leaf_index = SubSeq(t, 1, n)
    BY <1>2, <1>3, <1>5 DEF n, t, E
  <1>7. Len(SubSeq(t, 1, n)) = n /\ \A j \in 1 .. n : SubSeq(t, 1, n)[j] = t[j]
    BY <1>6
  <1>8. i \in 1 .. n /\ DOMAIN t = 1 .. Len(t) /\ Len(t) \in Nat
    BY <1>6, <1>7
  <1> QED
    BY <1>6, <1>7, <1>8 DEF n, t

\* A blob in use is the one of an entry of the table.
LEMMA BlobInUse ==
    ASSUME Source, IInv, NEW leaf_id \in DOMAIN leaf_blobs
    PROVE  \E i \in DOMAIN data.index :
               /\ data.index[i].leaf_id = leaf_id
               /\ data.index[i].blob_offset \in Offsets(data)
               /\ leaf_blobs[leaf_id] = BlobAt(data, data.index[i].blob_offset,
                                              data.header.partition_mode)
               /\ leaf_blobs[leaf_id] # Failed
  <1> DEFINE entries == {i \in 1 .. read : leaf_index[i].leaf_id = leaf_id}
             last == Greatest(entries)
             offset == leaf_index[last].blob_offset
  <1>1. read \in Nat /\ Len(leaf_index) \in Nat /\ read <= Len(leaf_index)
    BY DEF IInv, TypeOK
  <1>2. HeaderAccepted(data) /\ header = HeaderOf(data)
    BY DEF IInv, Accepted
  <1>3. header.partition_mode = data.header.partition_mode
    BY <1>2, SourceTypes
  <1>4. leaf_blobs[leaf_id] = BlobAt(data, offset, data.header.partition_mode)
    BY <1>3 DEF IInv, LastEntryWins
  <1>5. leaf_blobs[leaf_id] # Failed
    BY DEF IInv, BlobsRead
  <1>6. last \in entries
    <2>1. entries # {}
      BY DEF IInv, LastEntryWins
    <2>2. \A i \in entries : i \in Int /\ i <= read
      BY <1>1
    <2> HIDE DEF entries
    <2> QED
      BY <1>1, <2>1, <2>2, GreatestExists
  <1>7. last \in DOMAIN data.index /\ leaf_index[last] = data.index[last]
    <2>1. last \in 1 .. Len(leaf_index)
      BY <1>1, <1>6
    <2> HIDE DEF last
    <2> QED
      BY <2>1, EntriesOfTable
  <1>8. offset \in DOMAIN data.blobs
    BY <1>4, <1>5 DEF BlobAt
  <1>9. leaf_index[last].leaf_id = leaf_id
    BY <1>6
  <1> HIDE DEF last
  <1>10. offset \in Offsets(data)
    BY <1>7, <1>8 DEF Offsets
  <1> QED
    BY <1>4, <1>5, <1>7, <1>9, <1>10

\* A leaf that decodes has a delivered list.
LEMMA LeafDelivered ==
    ASSUME Source, IInv, NEW leaf_id \in DOMAIN leaf_blobs, LeafBlocks(leaf_id) # Failed
    PROVE  Delivered(LeafBlocks(leaf_id))
  <1>1. HeaderAccepted(data) /\ header = HeaderOf(data)
    BY DEF IInv, Accepted
  <1>2. header.partition_mode = data.header.partition_mode
    BY <1>1, SourceTypes
  <1>3. PICK i \in DOMAIN data.index :
            /\ data.index[i].blob_offset \in Offsets(data)
            /\ leaf_blobs[leaf_id] = BlobAt(data, data.index[i].blob_offset,
                                           data.header.partition_mode)
            /\ leaf_blobs[leaf_id] # Failed
    BY BlobInUse
  <1> DEFINE offset == data.index[i].blob_offset
  <1>4. offset \in DOMAIN data.blobs
    BY <1>3 DEF Offsets
  <1>5. \/ Blocks(HeaderOf(data), leaf_blobs[leaf_id]) = Failed
        \/ Delivered(Blocks(HeaderOf(data), leaf_blobs[leaf_id]))
    BY <1>1, <1>2, <1>3, <1>4, DecodeAssumption DEF Source
  <1> QED
    BY <1>1, <1>5 DEF LeafBlocks

\* A stream with a checksum is one of those the file was written with,
\* whatever the damage, as far as CRC-32 tells streams apart
\* (LeafBlob.from_bytes).
THEOREM StreamsIntact == Spec => []ChecksummedStreamsIntact
  <1>1. Source /\ IInv => ChecksummedStreamsIntact
    <2> SUFFICES ASSUME Source, IInv, NEW leaf_id \in DOMAIN leaf_blobs,
                        leaf_blobs[leaf_id].record_stream_crc32 # 0
                 PROVE  leaf_blobs[leaf_id].record_stream \in StreamsWritten(written)
      BY DEF ChecksummedStreamsIntact
    <2> DEFINE mode == data.header.partition_mode
    <2>1. PICK offset \in Offsets(data) :
              /\ leaf_blobs[leaf_id] = BlobAt(data, offset, mode)
              /\ leaf_blobs[leaf_id] # Failed
      <3>1. PICK i \in DOMAIN data.index :
                /\ data.index[i].blob_offset \in Offsets(data)
                /\ leaf_blobs[leaf_id] = BlobAt(data, data.index[i].blob_offset, mode)
                /\ leaf_blobs[leaf_id] # Failed
        BY BlobInUse
      <3> QED
        BY <3>1
    <2> DEFINE raw == data.blobs[offset]
               stream == StreamOf(raw, mode)
               stored == raw.record_stream_crc32
    <2>2. /\ leaf_blobs[leaf_id].record_stream_crc32 = stored
          /\ leaf_blobs[leaf_id].record_stream = stream
          /\ CrcMatches(stored, stream)
      BY <2>1 DEF BlobAt
    <2>3. stored # 0 /\ stored = Crc32(stream)
      BY <2>2 DEF CrcMatches
    <2>4. mode \in {LEAF_BLOCK, LEAF_BLOCK_PRED}
      BY DEF IInv, Accepted, HeaderAccepted
    <2>5. CASE data = written
      BY <2>2, <2>5 DEF StreamsWritten
    <2>6. CASE data # written
      <3>1. written \in Files /\ data \in Damaged(written)
        BY <2>6 DEF Source
      <3>2. CASE StreamDamaged(written, raw)
        <4>1. PICK o \in Offsets(written) : stored = written.blobs[o].record_stream_crc32
          BY <3>2 DEF StreamDamaged
        <4> DEFINE meant == StreamOf(written.blobs[o], written.header.partition_mode)
        <4>2. stored = Crc32(meant) /\ meant \in StreamsWritten(written)
          BY <2>3, <3>1, <4>1, ChecksumAssumption DEF StreamsWritten
        <4>3. stream = meant
          BY <2>3, <2>4, <3>2, <4>2 DEF StreamDamaged
        <4> QED
          BY <2>2, <4>2, <4>3
      <3>3. CASE ChecksumDamaged(written, data, raw)
        BY <2>2, <3>3 DEF ChecksumDamaged
      <3>4. CASE NoBlob(raw)
        BY <2>3, <2>4, <3>4 DEF NoBlob
      <3> QED
        BY <3>1, <3>2, <3>3, <3>4, ChecksumAssumption
    <2> QED
      BY <2>5, <2>6
  <1> QED
    BY <1>1, Inductive, SourceInv, PTL

\* A cache is returned exactly when every leaf decodes (build_lookup_cache).
THEOREM AllOrNothing == Spec => []CacheAllOrNothing
  <1>1. IInv => CacheAllOrNothing
    BY DEF IInv
  <1> QED
    BY <1>1, Inductive, PTL

\* The cache answers as lookup does, whatever blocks, indices and leaves are
\* asked for, for every decoder that keeps the promise of BlockDelivery; None
\* stands where lookup raises (build_lookup_cache, lookup).
THEOREM CacheAgrees == Spec => []CacheAnswersLikeLookup
  <1>1. Source /\ IInv => CacheAnswersLikeLookup
    <2> SUFFICES ASSUME Source, IInv, NEW leaf_id \in DOMAIN cache,
                        NEW block_id \in BlockIds, NEW idx \in Indices
                 PROVE  CachedLabel(leaf_id, block_id, idx) =
                            IF Lookup(leaf_id, block_id, idx) = Failed THEN None
                            ELSE Lookup(leaf_id, block_id, idx)
      BY DEF CacheAnswersLikeLookup
    <2> DEFINE blocks == LeafBlocks(leaf_id)
    <2>1. leaf_id \in DOMAIN leaf_blobs /\ blocks # Failed /\ cache[leaf_id] = LeafCache(blocks)
      BY DEF IInv, CacheSoFar
    <2>2. Delivered(blocks)
      BY <2>1, LeafDelivered
    <2>3. Lookup(leaf_id, block_id, idx) = LookupIn(blocks, block_id, idx)
      BY <2>1 DEF Lookup
    <2>4. CachedLabel(leaf_id, block_id, idx) = CachedIn(blocks, block_id, idx)
      BY <2>1 DEF CachedLabel, CachedIn
    <2> HIDE DEF blocks
    <2> QED
      BY <2>2, <2>3, <2>4, LeafAgrees
  <1> QED
    BY <1>1, Inductive, SourceInv, PTL

-----------------------------------------------------------------------------
(* Files that arrive intact *)

\* A blob that is read has the fields of the bytes at its offset.
LEMMA FieldsOfBlob ==
    ASSUME NEW f, NEW at, NEW partition, BlobAt(f, at, partition) # Failed
    PROVE  LET read_blob == BlobAt(f, at, partition)
               bytes == f.blobs[at]
           IN  /\ read_blob.base_pred_label = bytes.pred_code - 1
               /\ read_blob.n_leaf = bytes.n_leaf
               /\ read_blob.num_blocks = bytes.num_blocks
               /\ read_blob.record_stream = StreamOf(bytes, partition)
  <1> DEFINE bytes == f.blobs[at]
             stream == StreamOf(bytes, partition)
  <1>1. BlobAt(f, at, partition) =
            [base_pred_label |-> bytes.pred_code - 1,
             n_leaf |-> bytes.n_leaf,
             num_blocks |-> bytes.num_blocks,
             record_stream_crc32 |-> bytes.record_stream_crc32,
             record_stream |-> stream]
    BY DEF BlobAt
  <1> HIDE DEF bytes, stream
  <1>2. /\ BlobAt(f, at, partition).base_pred_label = bytes.pred_code - 1
        /\ BlobAt(f, at, partition).n_leaf = bytes.n_leaf
        /\ BlobAt(f, at, partition).num_blocks = bytes.num_blocks
        /\ BlobAt(f, at, partition).record_stream = stream
    BY <1>1
  <1> QED
    BY <1>2 DEF bytes, stream

\* The blocks of a leaf of an intact file are those its encoder meant.
LEMMA IntactLeaf ==
    ASSUME Source, IInv, data = written,
           NEW i \in DOMAIN data.index, data.index[i].leaf_id \in DOMAIN leaf_blobs
    PROVE  LeafBlocks(data.index[i].leaf_id) = Meant(written, i)
  <1> DEFINE leaf_id == data.index[i].leaf_id
             mode == data.header.partition_mode
             offset == data.index[i].blob_offset
             raw == data.blobs[offset]
             blob == leaf_blobs[leaf_id]
  <1>1. HeaderAccepted(data) /\ header = HeaderOf(data)
    BY DEF IInv, Accepted
  <1>2. PICK j \in DOMAIN data.index :
            /\ data.index[j].leaf_id = leaf_id
            /\ blob = BlobAt(data, data.index[j].blob_offset, mode)
            /\ blob # Failed
    BY BlobInUse
  <1>3. j = i
    BY <1>2, EncoderAssumption DEF Source
  <1>4. /\ blob.base_pred_label = raw.pred_code - 1
        /\ blob.n_leaf = raw.n_leaf
        /\ blob.num_blocks = raw.num_blocks
        /\ blob.record_stream = StreamOf(raw, mode)
    <2>1. blob = BlobAt(data, offset, mode) /\ blob # Failed
      BY <1>2, <1>3
    <2> HIDE DEF blob, raw, mode
    <2> QED
      BY <2>1, FieldsOfBlob DEF raw
  <1>5. /\ header.label_codec = data.header.label_codec
        /\ header.block_size = data.header.block_size
        /\ header.n_classes = IF data.header.version_major >= 30
                              THEN data.header.n_classes ELSE 0
    BY <1>1, SourceTypes
  <1>6. Meant(written, i) =
            Decode(StreamOf(raw, mode), raw.num_blocks, raw.n_leaf, data.header.block_size,
                   IF data.header.label_codec = CONDITIONAL_1BIT
                   THEN raw.pred_code - 1 ELSE None,
                   IF data.header.version_major >= 30 THEN data.header.n_classes ELSE 0)
    BY EncoderAssumption DEF Source
  <1> HIDE DEF blob, raw, mode
  <1> QED
    BY <1>4, <1>5, <1>6 DEF LeafBlocks, Blocks, LeafPred, blob

\* No check of from_bytes and no record of a leaf stops an intact file.
LEMMA NotRefusedStep ==
    ASSUME Source, IInv, NotRefused, [Next]_vars
    PROVE  NotRefused'
  <1>1. UNCHANGED <<written, data>>
    BY DEF Next, Step, Terminating, vars, ReadHeader, ReadLeafIndexTable, ReadBlob,
           FileRead, BuildLookupCache, CacheLeaf, CacheBuilt, Refuse
  <1> SUFFICES ASSUME data = written, pc \notin {"refused", "uncached"}
               PROVE  pc' \notin {"refused", "uncached"}
    BY <1>1 DEF NotRefused
  <1>2. /\ HeaderAccepted(data) /\ data.header.num_leaves = Len(data.index)
        /\ \A i \in DOMAIN data.index :
               /\ BlobAt(data, data.index[i].blob_offset, data.header.partition_mode) # Failed
               /\ Meant(written, i) # Failed
    BY EncoderAssumption DEF Source
  <1>3. pc # "header" => header = HeaderOf(data)
    BY DEF IInv, TypeOK
  <1>4. /\ data.index \in Seq(IndexEntry)
        /\ HeaderOf(data).num_leaves = Len(data.index)
        /\ HeaderOf(data).partition_mode = data.header.partition_mode
    BY <1>2, SourceTypes
  <1>5. CASE ReadHeader
    BY <1>2, <1>5 DEF ReadHeader
  <1>6. CASE ReadLeafIndexTable
    <2>1. header.num_leaves <= Len(data.index)
      <3>1. Len(data.index) \in Nat
        BY <1>4
      <3> QED
        BY <1>3, <1>4, <1>6, <3>1 DEF ReadLeafIndexTable
    <2> QED
      BY <1>6, <2>1 DEF ReadLeafIndexTable
  <1>7. CASE ReadBlob
    <2>1. pc = "blobs" /\ read < Len(leaf_index)
      BY <1>7 DEF ReadBlob
    <2>2. read + 1 \in 1 .. Len(leaf_index)
      BY <2>1 DEF IInv, TypeOK
    <2>3. read + 1 \in DOMAIN data.index /\ leaf_index[read + 1] = data.index[read + 1]
      BY <2>2, EntriesOfTable
    <2>4. BlobAt(data, leaf_index[read + 1].blob_offset, header.partition_mode) # Failed
      BY <1>2, <1>3, <1>4, <2>1, <2>3
    <2> QED
      BY <1>7, <2>4 DEF ReadBlob
  <1>8. CASE CacheLeaf
    <2>1. pc = "caching" /\ DOMAIN cache # DOMAIN leaf_blobs
      BY <1>8 DEF CacheLeaf
    <2> DEFINE next == NextLeaf
    <2>2. next \in DOMAIN leaf_blobs
      BY <2>1, NextLeafIsRead
    <2> HIDE DEF next
    <2>3. PICK i \in DOMAIN data.index : data.index[i].leaf_id = next
      BY <2>2, BlobInUse
    <2>4. LeafBlocks(next) # Failed
      BY <1>2, <2>2, <2>3, IntactLeaf
    <2> QED
      BY <1>8, <2>4 DEF CacheLeaf, next
  <1>9. CASE FileRead \/ BuildLookupCache \/ CacheBuilt \/ UNCHANGED vars
    BY <1>9 DEF FileRead, BuildLookupCache, CacheBuilt, vars
  <1> QED
    BY <1>5, <1>6, <1>7, <1>8, <1>9 DEF Next, Step, Terminating

\* An intact file is read and cached, and every leaf, block and index that
\* lookup is asked for has the answer its encoder meant (from_bytes, lookup).
THEOREM IntactFileReadsBack == Spec => []ReadsBack
  <1>1. Init => NotRefused
    BY DEF Init, NotRefused
  <1>2. Source /\ IInv /\ NotRefused /\ [Next]_vars => NotRefused'
    BY NotRefusedStep
  <1>3. Source /\ IInv /\ NotRefused => ReadsBack
    <2> SUFFICES ASSUME Source, IInv, data = written, pc = "cached",
                        NEW i \in DOMAIN written.index, NEW b \in BlockIds,
                        NEW x \in Indices
                 PROVE
                   LET blocks == Meant(written, i)
                       answer == Lookup(written.index[i].leaf_id, b, x)
                       Position(j) == {p \in 1 .. Len(blocks[j].data.indices) :
                                          blocks[j].data.indices[p] = x}
                       found == {j \in 1 .. Len(blocks) :
                                    /\ blocks[j].bid = b
                                    /\ blocks[j].data # None
                                    /\ Position(j) # {}}
                   IN  \/ found = {} /\ answer = None
                       \/ \E j \in found : \E p \in Position(j) :
                              answer = IF p <= Len(blocks[j].data.labels)
                                       THEN blocks[j].data.labels[p] ELSE Failed
      BY Zenon DEF NotRefused, ReadsBack
    <2> DEFINE leaf_id == written.index[i].leaf_id
               blocks == Meant(written, i)
    <2>1. leaf_id \in DOMAIN leaf_blobs
      <3>1. HeaderAccepted(data) /\ header = HeaderOf(data)
        BY DEF IInv, Accepted
      <3>2. /\ header.num_leaves = Len(data.index)
            /\ data.index \in Seq(IndexEntry)
        BY <3>1, SourceTypes, EncoderAssumption DEF Source
      <3>3. leaf_index = SubSeq(data.index, 1, header.num_leaves) /\ read = Len(leaf_index)
        BY DEF IInv, TypeOK
      <3> HIDE DEF IndexEntry
      <3>4. leaf_index = data.index /\ i \in 1 .. Len(data.index)
        BY <3>2, <3>3
      <3> QED
        BY <3>3, <3>4 DEF IInv, LastEntryWins
    <2>2. LeafBlocks(leaf_id) = blocks
      BY <2>1, IntactLeaf
    <2>3. blocks # Failed
      BY EncoderAssumption DEF Source
    <2>4. Delivered(blocks)
      BY <2>1, <2>2, <2>3, LeafDelivered
    <2>5. Lookup(leaf_id, b, x) = LookupIn(blocks, b, x)
      BY <2>1, <2>2, <2>3 DEF Lookup
    <2> HIDE DEF leaf_id, blocks
    <2> QED
      BY SMTT(60), <2>4, <2>5, SearchFinds DEF leaf_id, blocks
  <1> QED
    BY <1>1, <1>2, <1>3, Inductive, SourceInv, PTL DEF Spec

-----------------------------------------------------------------------------
(* The JavaScript reader *)

\* Both dicts of a block have its labels; the JavaScript one has undefined for
\* the positions without.
LEMMA SameDict ==
    ASSUME NEW blocks, Delivered(blocks),
           NEW j \in 1 .. Len(blocks), blocks[j].data # None
    PROVE  Agree(BlockCache(blocks[j].data), blockCache(blocks[j].data))
  <1> DEFINE d == blocks[j].data
             n == Paired(d)
             m == Len(d.indices)
  <1>1. d.indices \in Seq(Int) /\ d.labels \in Seq(Int)
    BY ListTypes
  <1>2. m \in Nat /\ Len(d.labels) \in Nat
    BY <1>1
  <1>3. /\ n \in Nat /\ n <= m /\ n <= Len(d.labels)
        /\ n = m \/ n = Len(d.labels)
    BY <1>2 DEF Paired
  <1>4. \A p, q \in 1 .. m : d.indices[p] = d.indices[q] => p = q
    BY OnePosition
  <1>5. /\ DOMAIN BlockCache(d) = {d.indices[p] : p \in 1 .. n}
        /\ DOMAIN blockCache(d) = {d.indices[p] : p \in 1 .. m}
    BY DEF BlockCache, blockCache
  <1> HIDE DEF d, n, m
  <1>6. ASSUME NEW p \in 1 .. m
        PROVE  /\ blockCache(d)[d.indices[p]] =
                      IF p <= Len(d.labels) THEN d.labels[p] ELSE Undefined
               /\ d.indices[p] \in DOMAIN BlockCache(d) <=> p <= n
               /\ p <= n => BlockCache(d)[d.indices[p]] = d.labels[p]
    <2>1. p \in Int
      OBVIOUS
    <2>2. Positions(d.indices, d.indices[p]) = {p}
      BY <1>4 DEF Positions, m
    <2>3. blockCache(d)[d.indices[p]] =
              IF p <= Len(d.labels) THEN d.labels[p] ELSE Undefined
      <3>1. Greatest(Positions(d.indices, d.indices[p])) = p
        BY <2>1, <2>2, LeastOfOne
      <3> QED
        BY <3>1 DEF blockCache, m
    <2>4. d.indices[p] \in DOMAIN BlockCache(d) <=> p <= n
      BY <1>2, <1>3, <1>4, <1>5
    <2>5. ASSUME p <= n PROVE BlockCache(d)[d.indices[p]] = d.labels[p]
      <3>1. {q \in 1 .. n : d.indices[q] = d.indices[p]} = {p}
        BY <1>2, <1>3, <1>4, <2>5
      <3>2. Greatest({q \in 1 .. n : d.indices[q] = d.indices[p]}) = p
        BY <2>1, <3>1, LeastOfOne
      <3>3. d.indices[p] \in {d.indices[q] : q \in 1 .. n}
        BY <1>3, <2>5
      <3> QED
        BY <3>2, <3>3 DEF BlockCache, n
    <2> QED
      BY <2>3, <2>4, <2>5
  <1>7. DOMAIN BlockCache(d) \subseteq DOMAIN blockCache(d)
    BY <1>2, <1>3, <1>5
  <1>8. ASSUME NEW x \in DOMAIN blockCache(d)
        PROVE  blockCache(d)[x] = IF x \in DOMAIN BlockCache(d)
                                  THEN BlockCache(d)[x] ELSE Undefined
    <2>1. PICK p \in 1 .. m : x = d.indices[p]
      BY <1>5
    <2>2. p <= n <=> p <= Len(d.labels)
      BY <1>2, <1>3, <2>1
    <2> QED
      BY <1>6, <2>1, <2>2
  <1> QED
    BY <1>7, <1>8 DEF Agree, d

\* So have the dicts of a leaf, block by block.
LEMMA SameDicts ==
    ASSUME NEW blocks, Delivered(blocks)
    PROVE  /\ DOMAIN leafCache(blocks) = DOMAIN LeafCache(blocks)
           /\ \A b \in DOMAIN LeafCache(blocks) :
                  Agree(LeafCache(blocks)[b], leafCache(blocks)[b])
  <1>1. DOMAIN leafCache(blocks) = DOMAIN LeafCache(blocks)
    BY DEF leafCache, LeafCache
  <1>2. ASSUME NEW b \in DOMAIN LeafCache(blocks)
        PROVE  Agree(LeafCache(blocks)[b], leafCache(blocks)[b])
    <2> DEFINE Of == {i \in Corrected(blocks) : blocks[i].bid = b}
               g == Greatest(Of)
    <2>1. b \in {blocks[i].bid : i \in Corrected(blocks)}
      BY DEF LeafCache
    <2>2. /\ LeafCache(blocks)[b] = BlockCache(blocks[g].data)
          /\ leafCache(blocks)[b] = blockCache(blocks[g].data)
      BY <2>1 DEF LeafCache, leafCache
    <2>3. g \in Of
      <3>1. Of # {}
        BY <2>1
      <3>2. \A i \in Of : i \in Int /\ i <= Len(blocks)
        BY EntryTypes DEF Corrected
      <3>3. Len(blocks) \in Int
        BY EntryTypes
      <3> HIDE DEF Of
      <3> QED
        BY <3>1, <3>2, <3>3, GreatestExists
    <2>4. g \in 1 .. Len(blocks) /\ blocks[g].data # None
      BY <2>3 DEF Corrected
    <2> HIDE DEF g
    <2> QED
      BY <2>2, <2>4, SameDict
  <1> QED
    BY <1>1, <1>2

\* In a file without counts both readers cut the same stream.
LEMMA SameStream ==
    ASSUME Source, NEW offset \in DOMAIN data.blobs
    PROVE  recordStream(data.blobs[offset]) = StreamOf(data.blobs[offset], LEAF_BLOCK)
  <1> DEFINE raw == data.blobs[offset]
             T == {raw.body[p] : p \in DOMAIN raw.body}
  <1>1. raw.body \in Seq(T)
    BY BodyAssumption DEF Source
  <1> HIDE DEF raw, T
  <1>2. SubSeq(raw.body, 1, Len(raw.body)) = raw.body
    BY <1>1
  <1>3. CountsBefore(LEAF_BLOCK) + 1 = 1
    BY DEF CountsBefore, LEAF_BLOCK, LEAF_BLOCK_PRED
  <1> QED
    BY <1>2, <1>3 DEF StreamOf, recordStream, raw

\* A leaf that Python decodes is one that JavaScript decodes, to the same list.
LEMMA SameList ==
    ASSUME Source, IInv, pc = "cached", header.partition_mode = LEAF_BLOCK,
           NEW leaf_id \in DOMAIN leaf_blobs, LeafBlocks(leaf_id) # Failed
    PROVE  leafBlocks(data, leaf_id) = LeafBlocks(leaf_id)
  <1> DEFINE entries == {i \in 1 .. read : leaf_index[i].leaf_id = leaf_id}
             last == Greatest(entries)
             offset == leaf_index[last].blob_offset
             raw == data.blobs[offset]
             blob == leaf_blobs[leaf_id]
             pred == IF data.header.label_codec = CONDITIONAL_1BIT
                     THEN raw.pred_code - 1 ELSE None
             classes == IF data.header.version_major >= 30
                        THEN data.header.n_classes ELSE 0
             stream == StreamOf(raw, LEAF_BLOCK)
  <1>1. HeaderAccepted(data) /\ header = HeaderOf(data)
    BY DEF IInv, Accepted
  <1>2. /\ header.label_codec = data.header.label_codec
        /\ header.block_size = data.header.block_size
        /\ header.n_classes = classes
        /\ header.num_leaves = data.header.num_leaves
    BY <1>1, SourceTypes
  <1>3. leafIndex(data) = leaf_index /\ read = Len(leaf_index) /\ read \in Nat
    BY <1>2 DEF IInv, TypeOK, leafIndex
  <1>4. leafBlob(data, leaf_id) = raw
    BY <1>3 DEF leafBlob
  <1>5. last \in entries
    <2>1. entries # {}
      BY DEF IInv, LastEntryWins
    <2>2. \A i \in entries : i \in Int /\ i <= read
      BY <1>3
    <2> HIDE DEF entries
    <2> QED
      BY <1>3, <2>1, <2>2, GreatestExists
  <1>6. last \in 1 .. Len(leaf_index)
    BY <1>3, <1>5
  <1>7. blob = BlobAt(data, offset, LEAF_BLOCK) /\ blob # Failed
    BY SMTT(60) DEF IInv, LastEntryWins, BlobsRead
  <1>8. offset \in Offsets(data)
    <2> HIDE DEF last
    <2>1. last \in DOMAIN data.index /\ leaf_index[last] = data.index[last]
      BY <1>6, EntriesOfTable
    <2> QED
      BY <1>7, <2>1 DEF BlobAt, Offsets
  <1> HIDE DEF offset
  <1>9. offset \in DOMAIN data.blobs
    BY <1>8 DEF Offsets
  <1>10. /\ blob.base_pred_label = raw.pred_code - 1
         /\ blob.n_leaf = raw.n_leaf
         /\ blob.num_blocks = raw.num_blocks
         /\ blob.record_stream = stream
    BY <1>7 DEF BlobAt
  <1>11. recordStream(raw) = stream
    BY <1>9, SameStream
  <1>12. Decode(stream, raw.num_blocks, raw.n_leaf, data.header.block_size, pred, classes)
             # Failed
         => JsDecode(stream, raw.num_blocks, raw.n_leaf, data.header.block_size,
                     pred, classes)
            = Decode(stream, raw.num_blocks, raw.n_leaf, data.header.block_size,
                     pred, classes)
    BY <1>1, <1>8, JsDecoderAgrees DEF Source
  <1> HIDE DEF blob, raw, stream, classes
  <1>13. LeafBlocks(leaf_id) =
             Decode(stream, raw.num_blocks, raw.n_leaf, data.header.block_size, pred, classes)
    BY <1>2, <1>10 DEF LeafBlocks, Blocks, LeafPred, blob
  <1>14. leafBlocks(data, leaf_id) =
             JsDecode(stream, raw.num_blocks, raw.n_leaf, data.header.block_size,
                      pred, classes)
    BY <1>4, <1>11 DEF leafBlocks, classes
  <1> QED
    BY <1>12, <1>13, <1>14

\* JavaScript reads whatever file of mode LEAF_BLOCK Python reads and caches,
\* intact or damaged, and has the same corrections for it; undefined labels are
\* all it has in addition (parseResidualFile, buildLookupCache).
THEOREM JsReadsTheSame == Spec => []JsAnswersLikePython
  <1>1. Source /\ IInv => JsAnswersLikePython
    <2> SUFFICES ASSUME Source, IInv, pc = "cached", header.partition_mode = LEAF_BLOCK
                 PROVE  /\ Parses(data)
                        /\ ~Throws(data)
                        /\ DOMAIN buildLookupCache(data) = DOMAIN cache
                        /\ \A l \in DOMAIN cache :
                               /\ DOMAIN buildLookupCache(data)[l] = DOMAIN cache[l]
                               /\ \A b \in DOMAIN cache[l] :
                                      Agree(cache[l][b], buildLookupCache(data)[l][b])
      BY DEF JsAnswersLikePython
    <2>1. HeaderAccepted(data) /\ header = HeaderOf(data)
      BY DEF IInv, Accepted
    <2>2. /\ header.num_leaves = data.header.num_leaves
          /\ data.header.num_leaves \in Nat
          /\ data.header # None
      BY <2>1, SourceTypes
    <2>3. /\ header.num_leaves <= Len(data.index)
          /\ leaf_index = SubSeq(data.index, 1, header.num_leaves)
          /\ read = Len(leaf_index)
      BY DEF IInv, Accepted, TypeOK
    <2>4. leafIndex(data) = leaf_index
      BY <2>2, <2>3 DEF leafIndex
    <2>5. DOMAIN cache = DOMAIN leaf_blobs /\ leafIds(data) = DOMAIN leaf_blobs
      BY ZenonT(60), <2>3, <2>4 DEF IInv, CacheAllOrNothing, LastEntryWins, leafIds
    <2>6. Parses(data)
      <3>1. parseHeaderOk(data)
        BY <2>1 DEF HeaderAccepted, parseHeaderOk
      <3>2. ASSUME NEW i \in 1 .. data.header.num_leaves
            PROVE  data.index[i].blob_offset \in DOMAIN data.blobs
        <4>1. i \in 1 .. Len(leaf_index)
          <5>1. Len(SubSeq(data.index, 1, header.num_leaves)) = header.num_leaves
            BY <2>2
          <5> QED
            BY <2>2, <2>3, <5>1
        <4>2. leaf_index[i] = data.index[i]
          BY <4>1, EntriesOfTable
        <4>3. BlobAt(data, leaf_index[i].blob_offset, header.partition_mode) # Failed
          BY <2>3, <4>1 DEF IInv, BlobsRead
        <4> QED
          BY <4>2, <4>3 DEF BlobAt
      <3> QED
        BY <2>2, <2>3, <3>1, <3>2 DEF Parses
    <2>7. ASSUME NEW l \in DOMAIN leaf_blobs
          PROVE  /\ leafBlocks(data, l) # Failed
                 /\ Delivered(leafBlocks(data, l))
                 /\ cache[l] = LeafCache(leafBlocks(data, l))
      <3>1. LeafBlocks(l) # Failed /\ cache[l] = LeafCache(LeafBlocks(l))
        BY <2>5 DEF IInv, CacheSoFar
      <3>2. leafBlocks(data, l) = LeafBlocks(l)
        BY <3>1, SameList
      <3> QED
        BY <3>1, <3>2, LeafDelivered
    <2>8. ~Throws(data)
      BY <2>5, <2>7 DEF Throws
    <2>9. /\ DOMAIN buildLookupCache(data) = DOMAIN cache
          /\ \A l \in DOMAIN cache :
                 buildLookupCache(data)[l] = leafCache(leafBlocks(data, l))
      BY <2>5 DEF buildLookupCache
    <2>10. ASSUME NEW l \in DOMAIN cache
           PROVE  /\ DOMAIN buildLookupCache(data)[l] = DOMAIN cache[l]
                  /\ \A b \in DOMAIN cache[l] :
                         Agree(cache[l][b], buildLookupCache(data)[l][b])
      <3> DEFINE blocks == leafBlocks(data, l)
      <3>1. /\ Delivered(blocks)
            /\ cache[l] = LeafCache(blocks)
            /\ buildLookupCache(data)[l] = leafCache(blocks)
        BY <2>5, <2>7, <2>9
      <3> HIDE DEF blocks
      <3> QED
        BY <3>1, SameDicts
    <2> QED
      BY <2>6, <2>8, <2>9, <2>10
  <1> QED
    BY <1>1, Inductive, SourceInv, PTL
=============================================================================
