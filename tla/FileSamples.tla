------------------------------ MODULE FileSamples ------------------------------
(***************************************************************************)
(* Files for the instances of ResidualFile and WasmStore.  A stream is a   *)
(* sequence of record names, one per block; Records says what the decoders *)
(* make of each, at the level of records what RecordStream does at the     *)
(* level of bytes.                                                         *)
(***************************************************************************)
EXTENDS ResidualFormat, FiniteSetsExt, SequencesExt

CONSTANTS
    Modes,      \* partition modes of the written files
    Names       \* the record names a written stream draws from

\* The records: an empty block, blocks of one and of two corrections, a bitmap
\* that names more positions than it has labels, and bytes no decoder takes
Records == [
    none |-> None,
    one  |-> [indices |-> <<1>>, codes |-> <<1>>],
    two  |-> [indices |-> <<0, 1>>, codes |-> <<0, 1>>],
    long |-> [indices |-> <<0, 1>>, codes |-> <<1>>]]

Undecodable == {"counts", "noise"}

\* Labels that a code stands for: the classes in order, without the prediction
Label(code, pred, nClasses) ==
    LET classes == IF nClasses \in {0, 3} THEN -1 .. 1 ELSE 0 .. nClasses - 1
    IN  IF pred \in classes /\ Min(classes) + code >= pred
        THEN Min(classes) + code + 1
        ELSE Min(classes) + code

MCDecode(stream, numBlocks, nLeaf, blockSize, pred, nClasses) ==
    LET used == SubSeq(stream, 1, Min({numBlocks, Len(stream)}))
        Block(name) ==
            IF Records[name] = None THEN None
            ELSE [indices |-> Records[name].indices,
                  labels |-> [i \in 1 .. Len(Records[name].codes) |->
                                 Label(Records[name].codes[i], pred, nClasses)]]
    IN  IF ToSet(used) \cap Undecodable # {} THEN Failed
        ELSE [i \in 1 .. Len(used) |-> [bid |-> i - 1, data |-> Block(used[i])]]

\* No two streams of the instance have the same checksum and none has 0
NameNumber == [none |-> 1, one |-> 2, two |-> 3, long |-> 4, counts |-> 5, noise |-> 6]
MCCrc32(stream) == FoldLeft(LAMBDA crc, name : 7 * crc + NameNumber[name], 0, stream)

-----------------------------------------------------------------------------
(* Written files: two leaves of two blocks *)

WrittenBlob(stream, mode, checked) ==
    [pred_code |-> 2, n_leaf |-> 4, num_blocks |-> Len(stream),
     record_stream_len |-> Len(stream),
     record_stream_crc32 |-> IF checked THEN MCCrc32(stream) ELSE 0,
     body |-> (IF mode = LEAF_BLOCK_PRED THEN <<"counts">> ELSE <<>>) \o stream]

\* The reserved byte of an old file may hold anything, as n_classes does here.
WrittenFile(mode, codec, version, streams, checked) ==
    [header |-> [magic |-> MAGIC, version_major |-> version,
                 partition_mode |-> mode, label_codec |-> codec, n_classes |-> 4,
                 block_size |-> 2, num_leaves |-> Len(streams),
                 total_positions |-> 4 * Len(streams)],
     index |-> [i \in 1 .. Len(streams) |-> [leaf_id |-> 10 * i, blob_offset |-> i]],
     blobs |-> [i \in 1 .. Len(streams) |-> WrittenBlob(streams[i], mode, checked)]]

WrittenFiles ==
    {WrittenFile(mode, codec, version, <<s, t>>, checked) :
        mode \in Modes, codec \in {FIXED_2BIT, CONDITIONAL_1BIT},
        version \in {18, 30}, s \in [1 .. 2 -> Names], t \in {<<"one", "none">>},
        checked \in BOOLEAN}

-----------------------------------------------------------------------------
(* Damage on the way: one field or one byte *)

HeaderDamage(f) ==
    {[f EXCEPT !.header = None],
     [f EXCEPT !.header.magic = "GREC"],
     [f EXCEPT !.header.partition_mode = 1 - f.header.partition_mode],
     [f EXCEPT !.header.partition_mode = 7],
     [f EXCEPT !.header.label_codec = 7],
     [f EXCEPT !.header.num_leaves = f.header.num_leaves + 1],
     [f EXCEPT !.header.num_leaves = f.header.num_leaves - 1]}

IndexDamage(f) ==
    {[f EXCEPT !.index[i].leaf_id = 10] : i \in DOMAIN f.index}
        \cup {[f EXCEPT !.index[i].blob_offset = o] :
                 i \in DOMAIN f.index, o \in 1 .. Len(f.index) + 1}

BlobDamage(f) ==
    UNION {
        {[f EXCEPT !.blobs[o].body[p] = name] :
            p \in DOMAIN f.blobs[o].body, name \in Names \cup {"noise"}}
        \cup {[f EXCEPT !.blobs[o].body = Front(f.blobs[o].body)],
              [f EXCEPT !.blobs[o].body = <<>>],
              [f EXCEPT !.blobs[o].record_stream_crc32 = 1],
              [f EXCEPT !.blobs[o].record_stream_len = @ + 1],
              [f EXCEPT !.blobs[o].pred_code = 200],
              [f EXCEPT !.blobs[o].num_blocks = 1]} :
        o \in {1}}

MCDamaged(f) == HeaderDamage(f) \cup IndexDamage(f) \cup BlobDamage(f)
===============================================================================
