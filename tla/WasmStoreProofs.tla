--------------------------- MODULE WasmStoreProofs ----------------------------
(***************************************************************************)
(* Theorems about WasmStore: for every set of files on which the record    *)
(* decoders agree, and whatever the page loads, overwrites and asks,       *)
(* lookups answer for the last file accepted, as Python's lookup does.     *)
(***************************************************************************)
EXTENDS WasmStore, CorrectionsProofs

-----------------------------------------------------------------------------
(* The dict of a leaf, and Python's *)

\* A block with a label for each index has the same dict in both readers.
LEMMA SameBlock ==
    ASSUME NEW blocks, Delivered(blocks), Cacheable(blocks),
           NEW i \in Corrected(blocks)
    PROVE  BlockEntries(blocks[i].data) = BlockCache(blocks[i].data)
  <1>1. i \in 1 .. Len(blocks) /\ blocks[i].data # None
    BY DEF Corrected
  <1>2. /\ blocks[i].data.indices \in Seq(Int) /\ blocks[i].data.labels \in Seq(Int)
    BY <1>1, ListTypes
  <1>3. Len(blocks[i].data.indices) <= Len(blocks[i].data.labels)
    BY DEF Cacheable
  <1>4. Paired(blocks[i].data) = Len(blocks[i].data.indices)
    BY <1>2, <1>3 DEF Paired
  <1> QED
    BY <1>4 DEF BlockEntries, BlockCache, Positions

\* A set of entries of a list has a last one.
LEMMA LastEntry ==
    ASSUME NEW blocks, Delivered(blocks), NEW S, S \subseteq Corrected(blocks), S # {}
    PROVE  Greatest(S) \in S
  <1>1. Len(blocks) \in Nat
    BY EntryTypes
  <1>2. \A x \in S : x \in Int /\ x <= Len(blocks)
    BY <1>1 DEF Corrected
  <1> QED
    BY <1>1, <1>2, GreatestExists

\* A list that load_residual takes has the same dicts in both readers.
LEMMA SameLeaf ==
    ASSUME NEW blocks, Delivered(blocks), Cacheable(blocks)
    PROVE  RsLeafCache(blocks) = LeafCache(blocks)
  <1> DEFINE Of(bid) == {i \in Corrected(blocks) : blocks[i].bid = bid}
             Bids == {blocks[i].bid : i \in Corrected(blocks)}
  <1>1. ASSUME NEW bid \in Bids
        PROVE  BlockEntries(blocks[Greatest(Of(bid))].data)
               = BlockCache(blocks[Greatest(Of(bid))].data)
    <2>1. Of(bid) # {} /\ Of(bid) \subseteq Corrected(blocks)
      OBVIOUS
    <2>2. Greatest(Of(bid)) \in Corrected(blocks)
      <3> HIDE DEF Of
      <3> QED
        BY <2>1, LastEntry
    <2> HIDE DEF Of
    <2> QED
      BY <2>2, SameBlock
  <1> QED
    BY <1>1 DEF RsLeafCache, LeafCache

\* What such a dict holds is a label.
LEMMA CachedIsLabel ==
    ASSUME NEW blocks, Delivered(blocks),
           NEW bid \in DOMAIN LeafCache(blocks),
           NEW idx \in DOMAIN LeafCache(blocks)[bid]
    PROVE  LeafCache(blocks)[bid][idx] \in Int
  <1> DEFINE Of == {i \in Corrected(blocks) : blocks[i].bid = bid}
             g == Greatest(Of)
             d == blocks[g].data
             P == {p \in 1 .. Paired(d) : d.indices[p] = idx}
  <1>1. bid \in {blocks[i].bid : i \in Corrected(blocks)}
    BY DEF LeafCache
  <1>2. g \in Corrected(blocks)
    <2>1. Of # {} /\ Of \subseteq Corrected(blocks)
      BY <1>1
    <2> HIDE DEF Of
    <2> QED
      BY <2>1, LastEntry
  <1>3. LeafCache(blocks)[bid] = BlockCache(d)
    BY <1>1 DEF LeafCache
  <1>4. d.indices \in Seq(Int) /\ d.labels \in Seq(Int)
    <2> HIDE DEF g
    <2>1. g \in 1 .. Len(blocks) /\ blocks[g].data # None
      BY <1>2 DEF Corrected
    <2> QED
      BY <2>1, ListTypes
  <1> HIDE DEF d
  <1>5. /\ Paired(d) \in Nat /\ Paired(d) <= Len(d.labels)
        /\ Len(d.labels) \in Nat
    BY <1>4 DEF Paired
  <1>6. idx \in {d.indices[p] : p \in 1 .. Paired(d)}
    BY <1>3 DEF BlockCache
  <1>7. Greatest(P) \in P
    <2>1. P # {} /\ \A p \in P : p \in Int /\ p <= Paired(d)
      BY <1>5, <1>6
    <2> HIDE DEF P
    <2> QED
      BY <1>5, <2>1, GreatestExists
  <1>8. d.labels[Greatest(P)] \in Int
    <2>1. Greatest(P) \in 1 .. Len(d.labels)
      BY <1>5, <1>7
    <2> HIDE DEF P
    <2> QED
      BY <1>4, <2>1
  <1>9. BlockCache(d)[idx] = d.labels[Greatest(P)]
    BY <1>6 DEF BlockCache
  <1> QED
    BY <1>3, <1>8, <1>9

\* On a list that load_residual takes, Python's lookup raises nothing.
LEMMA LookupFinds ==
    ASSUME NEW blocks, Delivered(blocks), Cacheable(blocks), NEW block_id, NEW idx
    PROVE  LookupIn(blocks, block_id, idx) # Failed
  <1> DEFINE found == {i \in 1 .. Len(blocks) : blocks[i].bid = block_id}
             i == Least(found)
             d == blocks[i].data
             pos == Least(Positions(d.indices, idx))
  <1>1. CASE found = {} \/ d = None
    BY <1>1, NoneAssumption DEF LookupIn
  <1>2. CASE found # {} /\ d # None /\ Positions(d.indices, idx) = {}
    BY <1>2, NoneAssumption DEF LookupIn, LabelIn
  <1>3. CASE found # {} /\ d # None /\ Positions(d.indices, idx) # {}
    <2>1. i \in 1 .. Len(blocks)
      <3>1. found # {} /\ found \subseteq Nat
        BY <1>3, EntryTypes
      <3>2. i \in found
        <4> HIDE DEF found
        <4> QED
          BY <3>1, LeastExists
      <3> QED
        BY <3>2
    <2> HIDE DEF i
    <2>2. d.indices \in Seq(Int) /\ d.labels \in Seq(Int)
      BY <1>3, <2>1, ListTypes
    <2>3. pos \in 1 .. Len(d.indices)
      <3>1. Positions(d.indices, idx) \subseteq Nat
        BY <2>2 DEF Positions
      <3>2. pos \in Positions(d.indices, idx)
        BY <1>3, <3>1, LeastExists
      <3> QED
        BY <3>2 DEF Positions
    <2>4. i \in Corrected(blocks)
      BY <1>3, <2>1, <2>2, <2>3 DEF Corrected
    <2>5. Len(d.indices) <= Len(d.labels)
      BY <2>4 DEF Cacheable
    <2> HIDE DEF d
    <2>6. pos <= Len(d.labels) /\ ~(pos > Len(d.labels))
      BY <2>2, <2>3, <2>5
    <2>7. d.labels[pos] \in Int
      BY <2>2, <2>3, <2>6
    <2>8. LabelIn(d, idx) = d.labels[pos]
      BY <1>3, <2>6 DEF LabelIn
    <2>9. LookupIn(blocks, block_id, idx) = LabelIn(d, idx)
      BY <1>3 DEF LookupIn, d, i
    <2> QED
      BY <2>7, <2>8, <2>9, NoneAssumption
  <1> QED
    BY <1>1, <1>2, <1>3

RsCachedIn(blocks, block_id, idx) ==
    IF /\ block_id \in DOMAIN RsLeafCache(blocks)
       /\ idx \in DOMAIN RsLeafCache(blocks)[block_id]
    THEN RsLeafCache(blocks)[block_id][idx]
    ELSE NO_CORRECTION

\* So the Rust cache answers as Python's search, with -128 for None.
LEMMA RsLeafAgrees ==
    ASSUME NEW blocks, Delivered(blocks), Cacheable(blocks), NEW block_id, NEW idx
    PROVE  RsCachedIn(blocks, block_id, idx)
           = (IF LookupIn(blocks, block_id, idx) = None THEN NO_CORRECTION
              ELSE LookupIn(blocks, block_id, idx))
  <1>1. CachedIn(blocks, block_id, idx) = LookupIn(blocks, block_id, idx)
    BY LeafAgrees, LookupFinds
  <1>2. RsLeafCache(blocks) = LeafCache(blocks)
    BY SameLeaf
  <1>3. CASE /\ block_id \in DOMAIN LeafCache(blocks)
             /\ idx \in DOMAIN LeafCache(blocks)[block_id]
    <2>1. LeafCache(blocks)[block_id][idx] # None
      BY <1>3, CachedIsLabel, NoneAssumption
    <2> QED
      BY <1>1, <1>2, <1>3, <2>1 DEF CachedIn, RsCachedIn
  <1>4. CASE ~(/\ block_id \in DOMAIN LeafCache(blocks)
               /\ idx \in DOMAIN LeafCache(blocks)[block_id])
    BY <1>1, <1>2, <1>4 DEF CachedIn, RsCachedIn
  <1> QED
    BY <1>3, <1>4

-----------------------------------------------------------------------------
(* The streams and the entries of a file *)

\* A stream inside the file is the same bytes in both readers, although one
\* casts its length and the other cuts it.
LEMMA SameStream ==
    ASSUME NEW f \in Files, Comparable(f), NEW o \in DOMAIN f.blobs, BlobParses(f, o)
    PROVE  RecordStream(f.blobs[o]) = StreamOf(f.blobs[o], LEAF_BLOCK)
  <1> DEFINE raw == f.blobs[o]
             T == {raw.body[p] : p \in DOMAIN raw.body}
  <1>1. raw.body \in Seq(T) /\ raw.record_stream_len \in 0 .. Usize - 1
    BY LengthAssumption
  <1>2. AsUsize(raw.record_stream_len) <= Len(raw.body)
    BY DEF BlobParses
  <1> HIDE DEF raw, T
  <1>3. AsUsize(raw.record_stream_len) = raw.record_stream_len
    BY <1>1, UsizeAssumption DEF AsUsize
  <1>4. SubSeq(raw.body, 1, Len(raw.body)) = raw.body
    BY <1>1
  <1>5. CountsBefore(LEAF_BLOCK) = 0
    BY DEF CountsBefore, LEAF_BLOCK, LEAF_BLOCK_PRED
  <1>6. StreamOf(raw, LEAF_BLOCK) = SubSeq(raw.body, 1, raw.record_stream_len)
    <2>1. raw.record_stream_len <= Len(raw.body)
      BY <1>2, <1>3
    <2>2. SubSeq(raw.body, CountsBefore(LEAF_BLOCK) + 1, Len(raw.body)) = raw.body
      BY <1>4, <1>5
    <2> QED
      BY <2>1, <2>2 DEF StreamOf
  <1> QED
    BY <1>3, <1>6 DEF RecordStream, raw

\* The blocks load_residual caches for a leaf are those Python's lookup reads.
LEMMA SameBlocks ==
    ASSUME NEW f \in Files, Comparable(f), NEW o \in DOMAIN f.blobs, BlobParses(f, o),
           BlobAt(f, o, LEAF_BLOCK) # Failed
    PROVE  LET blocks == Blocks(HeaderOf(f), BlobAt(f, o, LEAF_BLOCK))
           IN  /\ RsBlocks(f, f.blobs[o]) = blocks
               /\ blocks = Failed \/ Delivered(blocks)
  <1> DEFINE raw == f.blobs[o]
             blob == BlobAt(f, o, LEAF_BLOCK)
             h == HeaderOf(f)
  <1>1. f.header # None
    BY DEF Comparable, PythonReads, HeaderAccepted
  <1>2. /\ "n_classes" \in DOMAIN f.header /\ "block_size" \in DOMAIN f.header
        /\ "version_major" \in DOMAIN f.header
    BY <1>1, FileAssumption
  <1>3. /\ h.n_classes = (IF f.header.version_major >= 30 THEN f.header.n_classes ELSE 0)
        /\ h.block_size = f.header.block_size
    BY <1>2 DEF HeaderOf
  <1>4. /\ blob.record_stream = StreamOf(raw, LEAF_BLOCK)
        /\ blob.num_blocks = raw.num_blocks /\ blob.n_leaf = raw.n_leaf
    BY DEF BlobAt
  <1>5. blob.record_stream = RecordStream(raw)
    BY <1>4, SameStream
  <1>6. /\ RsDecode(blob.record_stream, blob.num_blocks, blob.n_leaf,
                    h.block_size, RsLeafPred(f, raw), h.n_classes) = Blocks(h, blob)
        /\ Blocks(h, blob) = Failed \/ Delivered(Blocks(h, blob))
    BY DecodersAgree
  <1> HIDE DEF raw, blob, h
  <1>7. RsBlocks(f, raw) = Blocks(h, blob)
    BY <1>3, <1>4, <1>5, <1>6 DEF RsBlocks
  <1> QED
    BY <1>6, <1>7 DEF raw, blob, h

\* The entries that load_residual reads are the first num_leaves of the table.
LEMMA EntriesRead ==
    ASSUME NEW f \in Files, ParseHeaderOk(f), Parses(f)
    PROVE  /\ f.header.num_leaves \in Nat
           /\ Len(Entries(f)) = f.header.num_leaves
           /\ \A i \in 1 .. f.header.num_leaves : Entries(f)[i] = f.index[i]
  <1>1. /\ f.index \in Seq([leaf_id : Nat, blob_offset : Nat])
        /\ f.header.num_leaves \in Nat
    BY FileAssumption DEF ParseHeaderOk
  <1>2. f.header.num_leaves <= Len(f.index)
    BY DEF Parses
  <1> DEFINE n == f.header.num_leaves
             s == f.index
             E == [leaf_id : Nat, blob_offset : Nat]
  <1> HIDE DEF n, s, E
  <1>3. s \in Seq(E) /\ n \in Nat /\ n <= Len(s)
    BY <1>1, <1>2 DEF n, s, E
  <1>4. Len(SubSeq(s, 1, n)) = n /\ \A i \in 1 .. n : SubSeq(s, 1, n)[i] = s[i]
    BY <1>3
  <1> QED
    BY <1>3, <1>4 DEF Entries, n, s

\* The cache of a file answers as Python's lookup does on the same file.
LEMMA FileAgrees ==
    ASSUME NEW f \in Files, ParseHeaderOk(f), Parses(f), Comparable(f),
           NEW leaf_id, NEW block_id, NEW idx,
           state = [header |-> f.header, cache |-> LookupCache(f)], state # None
    PROVE  Answer(leaf_id, block_id, idx)
           = (IF PythonLookup(f, leaf_id, block_id, idx) = None THEN NO_CORRECTION
              ELSE PythonLookup(f, leaf_id, block_id, idx))
  <1> DEFINE n == f.header.num_leaves
             entries == {i \in 1 .. n : f.index[i].leaf_id = leaf_id}
             Ids == {Entries(f)[i].leaf_id : i \in 1 .. Len(Entries(f))}
             o == f.index[Greatest(entries)].blob_offset
             blob == BlobAt(f, o, LEAF_BLOCK)
             blocks == Blocks(HeaderOf(f), blob)
  <1>1. /\ n \in Nat /\ Len(Entries(f)) = n
        /\ \A i \in 1 .. n : Entries(f)[i] = f.index[i]
    BY EntriesRead
  <1>2. leaf_id \in Ids <=> entries # {}
    BY <1>1
  <1>3. state.cache = LookupCache(f) /\ DOMAIN LookupCache(f) = Ids
    BY DEF LookupCache
  <1>4. f.header.partition_mode = LEAF_BLOCK
    BY DEF Comparable
  <1>5. CASE entries = {}
    <2>1. PythonLookup(f, leaf_id, block_id, idx) = None
      BY <1>5 DEF PythonLookup
    <2>2. leaf_id \notin DOMAIN state.cache
      BY <1>2, <1>3, <1>5
    <2> QED
      BY <2>1, <2>2 DEF Answer
  <1>6. CASE entries # {}
    <2>1. Greatest(entries) \in entries
      <3>1. \A i \in entries : i \in Int /\ i <= n
        BY <1>1
      <3> HIDE DEF entries, n
      <3> QED
        BY <1>1, <1>6, <3>1, GreatestExists
    <2>2. Greatest(entries) \in 1 .. n
      BY <2>1
    <2>3. blob # Failed
      <3> HIDE DEF entries
      <3> QED
        BY <1>4, <2>2 DEF Comparable, PythonReads
    <2>4. AsUsize(o) = o
      <3>1. o \in DOMAIN f.blobs
        BY <2>3 DEF BlobAt
      <3>2. o \in 0 .. Usize - 1
        <4> HIDE DEF o
        <4> QED
          BY <3>1, LengthAssumption
      <3> HIDE DEF o
      <3> QED
        BY <3>2, UsizeAssumption DEF AsUsize
    <2>5. LeafParses(f, o)
      <3>1. Entries(f)[Greatest(entries)] = f.index[Greatest(entries)]
        <4> HIDE DEF entries
        <4> QED
          BY <1>1, <2>2
      <3>2. Greatest(entries) \in 1 .. Len(Entries(f))
        BY SMTT(60), <1>1, <2>2
      <3>3. LeafParses(f, AsUsize(Entries(f)[Greatest(entries)].blob_offset))
        <4> HIDE DEF entries
        <4> QED
          BY <3>2, Zenon DEF Parses
      <3> QED
        BY <2>4, <3>1, <3>3
    <2>6. BlobParses(f, o) /\ o \in DOMAIN f.blobs
          /\ Cacheable(RsBlocks(f, f.blobs[o]))
      BY <2>5 DEF LeafParses, BlobParses
    <2>7. /\ RsBlocks(f, f.blobs[o]) = blocks
          /\ blocks = Failed \/ Delivered(blocks)
      <3> HIDE DEF o
      <3> QED
        BY SMTT(60), <2>3, <2>6, SameBlocks
    <2>8. Delivered(blocks) /\ Cacheable(blocks)
      BY <2>6, <2>7 DEF Cacheable
    <2>9. PythonLookup(f, leaf_id, block_id, idx) = LookupIn(blocks, block_id, idx)
      BY <1>4, <1>6 DEF PythonLookup
    <2>10. OffsetOf(f, leaf_id) = o
      <3>1. OffsetOf(f, leaf_id) = AsUsize(o)
        BY <1>1 DEF OffsetOf
      <3> QED
        BY <2>4, <3>1
    <2>11. leaf_id \in DOMAIN state.cache
           /\ state.cache[leaf_id] = RsLeafCache(blocks)
      <3>1. leaf_id \in Ids
        BY <1>2, <1>6
      <3>2. LookupCache(f)[leaf_id] = RsLeafCache(RsBlocks(f, f.blobs[OffsetOf(f, leaf_id)]))
        BY <3>1 DEF LookupCache
      <3> HIDE DEF Ids, o, blocks
      <3> QED
        BY <1>3, <2>7, <2>10, <3>1, <3>2
    <2> HIDE DEF blocks, entries
    <2>12. Answer(leaf_id, block_id, idx) = RsCachedIn(blocks, block_id, idx)
      BY <2>11 DEF Answer, RsCachedIn
    <2> QED
      BY <2>8, <2>9, <2>12, RsLeafAgrees
  <1> QED
    BY <1>5, <1>6

-----------------------------------------------------------------------------
(* The inductive invariant *)

\* Buffers hold nothing, zeros or a file the page has written.
MemoryHolds ==
    /\ memory = [b \in Buffers |-> memory[b]]
    /\ \A b \in Buffers : memory[b] \in {None, Zeros} \cup Files

\* The state is that of the file last accepted.
StateOfLoaded ==
    \/ state = None /\ loaded = None
    \/ /\ loaded \in Files /\ loaded # None
       /\ ParseHeaderOk(loaded) /\ Parses(loaded)
       /\ state # None
       /\ state = [header |-> loaded.header, cache |-> LookupCache(loaded)]

IInv ==
    /\ MemoryHolds
    /\ StateOfLoaded
    /\ LookupsAnswerLikePython

\* The module starts without a file.
LEMMA InitIInv == Init => IInv
  <1> SUFFICES ASSUME Init PROVE IInv
    OBVIOUS
  <1>1. MemoryHolds
    BY DEF Init, MemoryHolds
  <1>2. StateOfLoaded
    BY DEF Init, StateOfLoaded
  <1>3. LookupsAnswerLikePython
    <2>1. reply.call = "instantiate"
      BY DEF Init
    <2> QED
      BY <2>1 DEF LookupsAnswerLikePython
  <1> QED
    BY <1>1, <1>2, <1>3 DEF IInv

\* Calls and writes that leave the state alone keep what it is of.
LEMMA StateKept ==
    ASSUME StateOfLoaded, state' = state, loaded' = loaded
    PROVE  StateOfLoaded'
  BY DEF StateOfLoaded

\* Zeros are no file.
LEMMA ZerosRefused == ~ParseHeaderOk(Zeros)
  BY DEF Zeros, ParseHeaderOk

\* A new buffer holds zeros.
LEMMA AllocKeeps ==
    ASSUME IInv, NEW b \in Buffers, Alloc(b)
    PROVE  IInv'
  <1>1. /\ memory' = [memory EXCEPT ![b] = Zeros]
        /\ reply'.call = "alloc" /\ state' = state /\ loaded' = loaded
    BY DEF Alloc
  <1>2. MemoryHolds'
    BY <1>1 DEF IInv, MemoryHolds
  <1>3. StateOfLoaded'
    BY <1>1, StateKept DEF IInv
  <1>4. LookupsAnswerLikePython'
    BY <1>1 DEF LookupsAnswerLikePython
  <1> QED
    BY <1>2, <1>3, <1>4 DEF IInv

\* Writing to a buffer, even a loaded one, changes no answer.
LEMMA HostWriteKeeps ==
    ASSUME IInv, NEW b \in Buffers, NEW f \in Files, HostWrite(b, f)
    PROVE  IInv'
  <1>1. /\ memory' = [memory EXCEPT ![b] = f]
        /\ reply' = reply /\ state' = state /\ loaded' = loaded
    BY DEF HostWrite
  <1>2. MemoryHolds'
    BY <1>1 DEF IInv, MemoryHolds
  <1>3. StateOfLoaded'
    BY SMTT(60), <1>1, StateKept DEF IInv
  <1>4. LookupsAnswerLikePython'
    BY <1>1 DEF IInv, LookupsAnswerLikePython, Comparable, PythonReads, PythonLookup
  <1> QED
    BY <1>2, <1>3, <1>4 DEF IInv

\* A load replaces header and cache together, or neither.
LEMMA LoadResidualKeeps ==
    ASSUME IInv, NEW b \in Buffers, LoadResidual(b)
    PROVE  IInv'
  <1>1. memory' = memory /\ reply'.call = "load"
    BY DEF LoadResidual
  <1>2. MemoryHolds'
    BY <1>1 DEF IInv, MemoryHolds
  <1>3. LookupsAnswerLikePython'
    BY <1>1 DEF LookupsAnswerLikePython
  <1>4. StateOfLoaded'
    <2> DEFINE f == memory[b]
    <2>1. CASE state' = state /\ loaded' = loaded
      BY <2>1, StateKept DEF IInv
    <2>2. CASE /\ ParseHeaderOk(f) /\ Parses(f) /\ f # None
               /\ state' = [header |-> f.header, cache |-> LookupCache(f)]
               /\ loaded' = f
      <3>1. f \in Files
        BY <2>2, ZerosRefused DEF IInv, MemoryHolds
      <3>2. None # [header |-> f.header, cache |-> LookupCache(f)]
        BY <2>2, <3>1, StateAssumption
      <3> HIDE DEF f
      <3>3. ParseHeaderOk(loaded') /\ Parses(loaded')
            /\ state' = [header |-> loaded'.header, cache |-> LookupCache(loaded')]
            /\ loaded' \in Files /\ loaded' # None /\ state' # None
        BY <2>2, <3>1, <3>2
      <3> QED
        BY <3>3, Zenon DEF StateOfLoaded
    <2> QED
      BY <2>1, <2>2 DEF LoadResidual
  <1> QED
    BY <1>2, <1>3, <1>4 DEF IInv

\* An answer is Python's for the loaded file.
LEMMA LookupKeeps ==
    ASSUME IInv, NEW leaf_id, NEW block_id, NEW idx, Lookup(leaf_id, block_id, idx)
    PROVE  IInv'
  <1> DEFINE answer == PythonLookup(loaded, leaf_id, block_id, idx)
  <1>1. /\ reply'.call = "lookup"
        /\ reply'.query[1] = leaf_id /\ reply'.query[2] = block_id
        /\ reply'.query[3] = idx
        /\ reply'.value = Answer(leaf_id, block_id, idx)
        /\ memory' = memory /\ state' = state /\ loaded' = loaded
    BY DEF Lookup
  <1>2. MemoryHolds'
    BY <1>1 DEF IInv, MemoryHolds
  <1>3. StateOfLoaded'
    BY <1>1, StateKept DEF IInv
  <1>4. CASE state = None /\ loaded = None
    <2>1. reply'.value = NO_CORRECTION
      BY <1>1, <1>4 DEF Answer
    <2>2. LookupsAnswerLikePython'
      BY <1>1, <1>4, <2>1 DEF LookupsAnswerLikePython
    <2> QED
      BY <1>2, <1>3, <2>2 DEF IInv
  <1>5. CASE /\ loaded \in Files /\ loaded # None
             /\ ParseHeaderOk(loaded) /\ Parses(loaded) /\ state # None
             /\ state = [header |-> loaded.header, cache |-> LookupCache(loaded)]
    <2>1. Comparable(loaded) =>
              reply'.value = (IF answer = None THEN NO_CORRECTION ELSE answer)
      BY <1>1, <1>5, FileAgrees
    <2>2. /\ Comparable(loaded') = Comparable(loaded)
          /\ PythonLookup(loaded', reply'.query[1], reply'.query[2], reply'.query[3])
                 = answer
      BY <1>1
    <2> HIDE DEF answer
    <2>3. LookupsAnswerLikePython'
      BY <1>1, <1>5, <2>1, <2>2, Zenon DEF LookupsAnswerLikePython
    <2> QED
      BY <1>2, <1>3, <2>3 DEF IInv
  <1> QED
    BY <1>4, <1>5 DEF IInv, StateOfLoaded

\* The getters change nothing.
LEMMA GetterKeeps ==
    ASSUME IInv, GetNumLeaves \/ GetTotalPositions
    PROVE  IInv'
  <1>1. /\ reply'.call \in {"get_num_leaves", "get_total_positions"}
        /\ memory' = memory /\ state' = state /\ loaded' = loaded
    BY DEF GetNumLeaves, GetTotalPositions
  <1>2. MemoryHolds' /\ LookupsAnswerLikePython'
    BY <1>1 DEF IInv, MemoryHolds, LookupsAnswerLikePython
  <1>3. StateOfLoaded'
    BY <1>1, StateKept DEF IInv
  <1> QED
    BY <1>2, <1>3 DEF IInv

\* Nor does anything else.
LEMMA StutterKeeps ==
    ASSUME IInv, UNCHANGED vars
    PROVE  IInv'
  <1>1. memory' = memory /\ state' = state /\ loaded' = loaded /\ reply' = reply
    BY DEF vars
  <1>2. MemoryHolds'
    BY SMTT(60), <1>1 DEF IInv, MemoryHolds
  <1>3. LookupsAnswerLikePython'
    BY <1>1 DEF IInv, LookupsAnswerLikePython, Comparable, PythonReads, PythonLookup
  <1>4. StateOfLoaded'
    BY <1>1, StateKept DEF IInv
  <1> QED
    BY <1>2, <1>3, <1>4 DEF IInv

-----------------------------------------------------------------------------
(* The theorems *)

\* The invariant holds whatever the page calls.
THEOREM Inductive == Spec => []IInv
  <1>1. ASSUME IInv, [Next]_vars
        PROVE  IInv'
    BY <1>1, AllocKeeps, HostWriteKeeps, LoadResidualKeeps, LookupKeeps, GetterKeeps,
       StutterKeeps DEF Next
  <1> QED
    BY InitIInv, <1>1, PTL DEF Spec

\* Every lookup answers for the last file load_residual accepted, and answers
\* what V18ResidualFile.lookup answers for it.
THEOREM Answers == Spec => []LookupsAnswerLikePython
  <1>1. IInv => LookupsAnswerLikePython
    BY DEF IInv
  <1> QED
    BY Inductive, <1>1, PTL

\* Header and cache are of one file: a load that fails or traps half-way
\* leaves no mixture of two (load_residual).
THEOREM OneFile == Spec => []OneFileAtATime
  <1>1. ASSUME IInv
        PROVE  OneFileAtATime
    <2>1. CASE state = None /\ loaded = None
      BY <2>1 DEF OneFileAtATime
    <2>2. CASE /\ loaded \in Files /\ loaded # None
               /\ ParseHeaderOk(loaded) /\ Parses(loaded) /\ state # None
               /\ state = [header |-> loaded.header, cache |-> LookupCache(loaded)]
      <3>1. state.header = loaded.header
            /\ DOMAIN state.cache = {Entries(loaded)[i].leaf_id :
                                        i \in 1 .. Len(Entries(loaded))}
        BY <2>2 DEF LookupCache
      <3>2. /\ Len(Entries(loaded)) = loaded.header.num_leaves
            /\ \A i \in 1 .. loaded.header.num_leaves :
                   Entries(loaded)[i] = loaded.index[i]
        BY <2>2, EntriesRead
      <3> QED
        BY <2>2, <3>1, <3>2 DEF OneFileAtATime
    <2> QED
      BY <1>1, <2>1, <2>2 DEF IInv, StateOfLoaded
  <1> QED
    BY Inductive, <1>1, PTL
=============================================================================
