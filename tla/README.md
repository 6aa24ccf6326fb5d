# proofcodec-verify in TLA+

Specifications of the decoders, searches, baselines and verifiers of
`proofcodec-verify`, checked with TLC on small instances and proved with TLAPS
for every instance.

## The system

`proofcodec-verify` reads what a proprietary encoder wrote and never writes. A
decision tree predicts a label for every position of a domain; a *residual
file* lists, leaf by leaf of that tree and block by block of a leaf, the
positions where the prediction is wrong and the right label. A *proof bundle* is
a directory with the manifest, the tree and the residual.

| Part | State it keeps | Operations | Talks to |
|---|---|---|---|
| record stream decoder (`codec/residual_v18.py`, `codec/combinadic.py`, `decode_record_stream`) | a read position, a block number, the list under construction | one call, five nested loops | called by the file reader; calls leb128, `math.comb`, `int.from_bytes` |
| residual file reader (`codec/v18_codec.py`) | header, index table, a blob per leaf | `from_bytes`, `build_lookup_cache`, `lookup`, `summary` | decoder; `zlib.crc32` |
| WebAssembly reader (`wasm/src`) | linear memory, the `STATE` of the last load | `alloc`, `load_residual`, `lookup`, two getters | a web page, which may call in any order and after a trap |
| JavaScript reader (`js/src`) | none between calls | the same functions as the Python reader | a page |
| bundle verifier (`proof/bundle.py`, `cli.py`) | the loaded bundle, the result | `load`, `verify_bundle`, report, exit status | the file system, which others may change |
| combinadic search (`codec/combinadic.py`) | the range still to search | `_find_largest_binom_le` | called by `unrank_subset` |
| baselines (`baseline/`, `cmd_baselines`) | a heap of Huffman nodes | push, merge, code lengths, prices, `ratio_B` | the command line, a library caller |
| flat tree (`flat_tree.py`, `flat-tree.js`) | the node the walk is at | `predict` | a page, a test |

What is hard here is not concurrency, of which there is little. It is that
every byte decides how the next one is read, that the same format is read by
three implementations and inside one of them by two paths (`lookup` and the
cache), that no encoder is at hand to test against, and that malformed input
ends in half a dozen ways: an exception, a trap, a list that is silently short,
an index outside its block. The places where this bites are the `hazards` of
`PROJECT.json`, each with its line and the properties aimed at it; one that lies
outside the assumptions or the precondition of every property says so in a note
instead.

What makes each part correct:

* decoder: what an encoder wrote is read back; every input ends the call; the
  list names blocks in order; the indices of a block ascend; a correction
  differs from the prediction and belongs to a block the leaf has;
* file reader: a damaged checksummed stream is refused; the last entry for a
  leaf is in force; cache and `lookup` agree; the cache is complete or refused;
* WebAssembly reader: answers are those of one file, the last accepted, and
  those of the Python reader;
* ports: they read what an encoder wrote as Python does, and find the same list
  wherever Python finds a legal one;
* bundle verifier: exit status 0 means a bundle that passes the checks
  `verify_bundle` makes, and the report agrees;
* combinadic search: scan and bisection find the same, largest element;
* baselines: the code is optimal, ties never fall to insertion order, and
  "beats Huffman" is said of no size that some prefix code gets down to, and of
  every smaller one as long as a float holds B0 exactly;
* flat tree: the leaf that answers is that of the region of the vector, and the
  walk ends on arrays that point forward.

## Modules

| Module | Models | Role |
|---|---|---|
| `Combinadic` | `binom`, Pascal's rule, and what the search for an element returns | shared operators |
| `BlockList` | a list of decoded blocks that names each block once and in order | shared operators |
| `RecordStream` | `decode_record_stream` and everything it calls | machine, invariants |
| `BlockDelivery` | what that call promises its callers | abstract specification |
| `WrittenStream` | the format that the decoders of `residual_v18.py` take their input to be; `RoundTrip` | invariant of `RecordStream` |
| `RecordStreamProofs` | | theorems about `RecordStream`, `WrittenStream` and `RecordPorts` |
| `PyLibrary` | leb128, `math.comb`, `int.from_bytes` | external, for TLC |
| `LeafWriter` | `rank_subset`; an encoder of record streams (not in the repository) | external, for TLC |
| `PortLibrary` | integers of a width, leb128 and the loops that `js/src` and `wasm/src` write alike | shared operators |
| `JsResidual`, `RsResidual` | the same decoder in JavaScript and in Rust | operators |
| `RecordPorts` | both of them next to the call of `RecordStream` | comparison, its invariants |
| `MCRecordStream` | | instances |
| `MCWrittenStream` | | that the written leaves are written, and fit the ports |
| `BinomSearch`, `MCBinomSearch` | the scan and the bisection of `_find_largest_binom_le` | machine, instance |
| `BinomSearchProofs` | | theorems about `BinomSearch` |
| `ResidualFormat` | the pure functions of `v18_codec.py` on an abstract file | shared reference |
| `CorrectionsProofs` | | lemmas about it, for both file readers |
| `ResidualFile` | `from_bytes`, `build_lookup_cache`, `lookup` | machine, invariants |
| `ResidualFileProofs` | | theorems about `ResidualFile` and `ResidualReaders` |
| `JsFile` | `parseResidualFile` and `buildLookupCache` of `js/src/codec.js` | operators |
| `ResidualReaders` | `ResidualFile` next to the encoder and to `JsFile` | invariants |
| `WasmStore` | the exports of `lib.rs`, the file level of `codec.rs`, the page | machine, invariants |
| `WasmStoreProofs` | | theorems about `WasmStore` |
| `FileSamples` | written and damaged files, a record-level decoder | for TLC |
| `MCResidualFile`, `MCWasmStore` | | instances |
| `BundleVerify`, `MCBundleVerify` | `proofcodec-verify bundle` next to a process that changes the directory | machine, instance |
| `BundleVerifyProofs` | | theorems about `BundleVerify` |
| `Baselines`, `MCBaselines` | Huffman coding, the prices, the `baselines` command | machine, instance |
| `BaselinesProofs` | | theorems about `Baselines` |
| `FlatTree`, `MCFlatTree` | `predict` in Python and in JavaScript | machine, instance |
| `FlatTreeProofs` | | theorems about `FlatTree` |

### RecordStream

One behaviour is one call of `decode_record_stream`. `pc` says which loop the
call is in, `offset`, `block_id` and `results` are the variables of that name,
and `n_b`, `encoding`, `k`, `indices`, `labels`, `rank` and `bit` are locals of
the functions called for the current block. A step is one turn of a loop, except
that `EmptyRun` appends a whole run: the loop over a run reads nothing and nothing
happens in between.

| Action | Code |
|---|---|
| `Return`, `UnknownRecord`, `EmptyRun`, `BlockRead` | the `while` of `decode_record_stream`, with `decode_empty_run` |
| `BlockHeader`, `IndicesRead` | `decode_block` up to and after its index decoder |
| `DeltaGap` | one gap of `decode_delta_gaps` |
| `EnumRank`, `Unrank` | `decode_enum_rank`; one element of `unrank_subset` with its search (`FindLargestBinomLe` of `Combinadic`, what `BinomSearch` computes) |
| `BitmapBit` | one bit of `decode_bitmap` |
| `Label` | one label of `decode_labels_fixed`, conditional or of fixed width |

Every exception is `pc = "error"`, which no caller tells apart. Slices that the
stream cuts short stay short, as in Python. `Uvarint`, `Comb` and `FromBytes`
are constants with the little that is assumed of them, so that the proofs hold
for the real library functions; `PyLibrary` defines them for TLC, with ranks
saturating above every binomial of an instance, because TLC's integers
have 32 bits. Every leaf brings its own block size and number of classes. `LeafAssumption` restricts headers to those whose last block
starts inside the leaf (`n_leaf >= (num_blocks - 1) * block_size`): for others
the code computes a negative block size, which is left out.

### WrittenStream

The repository has no encoder. What a stream must be to be a writing of some
blocks is stated here as relations, byte by byte for varints and bit by bit for
bitmaps and labels, and follows the decoders, not some writer: `IsWritten` lets
an encoder choose the encoding of each block, merge or split empty runs, write a
rank of zero in no bytes, and fill spare bits as it likes. A leaf carries its
blocks and, as ghost data, `layout`: where each record and its parts begin, and
the partial sums of the rank. `LeafWriter` is one such encoder, for TLC.
`RoundTrip` then says that the decoder never raises, that its list is a prefix of
what was written at all times, and that it ends with all of it and all bytes
read.

### ResidualFormat, ResidualFile, ResidualReaders

A file is abstracted to its header fields, its index entries and, per offset, a
blob header with the bytes that follow it, so that damage anywhere can be told
apart. `Decode` is a constant: its assumption is the promise of
`BlockDelivery` (`IsBlockList`), which `RecordStreamProofs` proves of the decoder.
`ChecksumAssumption` says what damage a checksum can show: it hits a stream,
which then has another CRC (`StreamDamaged`: a CRC-32 tells apart any two streams
of which it is asked here, though not any two at all), or the stored checksum
(`ChecksumDamaged`), or the offset, so that no blob is found there (`NoBlob`). The
dict of blobs and the dicts of the cache are functions; the cache loop follows
the insertion order of the dict. `written` is the file before, `data` the file
after damage. `ResidualReaders` compares this reader with what the encoder meant
(`ReadsBack`, given `EncoderAssumption`: one entry per leaf, and streams that
decode to the blocks meant) and with the JavaScript reader
(`JsAnswersLikePython`, given `JsDecoderAgrees`, what `JavaScriptAgrees` proves
of the record decoder).

### PortLibrary, JsResidual, RsResidual, RecordPorts, JsFile

The ports are functions of their arguments: nothing of theirs outlives a call.
Each loop is a recursive function on `0 .. n` whose value at `i` is what `i`
turns make, so that the provers can reason about it. What a language does to a
number is kept. In JavaScript, bit operators work on `IntBits`-bit integers with
a sign, a shift count wraps, reading past the data gives undefined, which counts
as 0, and ranks are BigInts without a limit. In Rust, `u32`, `u64` and `u128`
wrap at `IntBits`, twice `IntBits` and `RankBits` bits, labels are cast to `i8`,
and reading past the data panics.

`RecordPorts` says where the comparison is meant to hold:

* `PortsFit`: positions of a block end at 2^(`IntBits` - 2), because `lo + hi` of
  the search in `combinadic.js:77` is negative above and the search does not
  end; blocks and the bits of a stream are counted below the sign bit, which for
  `IntBits` = 32 allows streams of 2^28 bytes;
* `LEB128Assumption`: Python's varint is seven bits a byte, least significant
  first;
* `ClassesFit` and `WrittenRanksFit`: an `i8` holds the classes of a leaf, `u128`
  the ranks that were written and the products behind their binomials. The
  run `doc_rank` shows what the Rust decoder does where they do not;
* `Legal`: Python's list has a label for each position and names positions of
  its blocks only. Elsewhere the decoders do differ: a varint past
  32 bits is a smaller number in the ports.

`JsFile` is the file level of the JavaScript reader, which knows no checksum and
no partition mode.

### BinomSearch

One turn of the scan or of the bisection per step; `ScanLimit` is the 32 of the
code, in the runs too.

### WasmStore

One action per export, `HostWrite` for the page. A panic is a trap and leaves
`state` as it was, because `load_residual` parses before it takes the lock;
`loaded` is a history variable. `AsI8` and `AsUsize` keep the widths of the
casts at the file level: of labels, of an entry's `blob_offset` and of
`record_stream_len`. The cast of `leaf_index_offset` (`codec.rs:165`) is not
modelled: the index of a file is a field of it. The comparison with Python
assumes blobs at offsets below `Usize` and streams shorter than it
(`LengthAssumption`), as in every file that fits the linear memory; an index entry
may still point beyond, as one sample does: Python finds no blob there, and this
reader looks where the wrapped offset points. `PythonReads` and `PythonLookup` are the Python reader
as functions of a file, for the comparison.

### BundleVerify

`call` says which of the two loads is running; each step reads the directory
once, and `Change` may happen between any two; `exists()` and the `open` that
follows it are one step, and the directory itself stays. `seen` is a history variable
with everything each file has been.

A file is `Absent`, `Garbage` (no JSON; of the manifest also JSON that is no object,
which `load` refuses just so) or its content. `load` takes any JSON value of the
other files: `EmptyModel` is any model that counts as false, `null` in
`residual.json` is no residual. `IllTyped` is a `mismatches` that cannot be
compared with 0, which ends the program with a traceback after the first load;
the other fields of a manifest have their declared types. `PassesChecks` is what
`verify_bundle` does check: that all loads, and the first three of the four
checks its docstring lists. The fourth, consistency of the verification report,
is not made, and neither is that of the residual's hash; `QuietVerdict` and
`VerdictWasEarned` therefore speak of `PassesChecks` and not of the docstring, and
the run `doc_checks` shows the difference.

### Baselines

A dictionary of counts is a sequence, in its insertion order, and the heap is
the set of its nodes: the order `Before` is total on them, so what the heap
pops is determined. `Start`, `Push`, `Merge`, `Extract` and `Report` follow
`compute_all_baselines` under the command or a library caller. Entropy is
compared in integers (`EntropyAtMost`: products and powers instead of sums and
logarithms). A negative total raises in the logarithm, as in Python.

`ratio_B` and the bits per position are quotients of integers, which Python
rounds correctly to a float of `FloatBits` significant bits (53) and refuses with
an `OverflowError` from `FloatLimit` (2^1024 - 2^970) on. `BeatsHuffman` is the
comparison of the rounded quotient with 1.0, in integers: a quotient within half
a unit in the last place of 1, that is within 2^-54, is 1.0. So a size that is
smaller, but by no more than one part in 2^54, is told NO;
`BeatsEveryPrefixCode` promises a YES only while B0 is below 2^(`FloatBits` + 1)
bits, and promises without any bound that a YES is true.

### FlatTree

One turn of the loop of `predict` per step, in the semantics of the runtime: a
negative index reads from the end in Python and is a TypeError in JavaScript,
and a missing feature raises in one and compares false in the other.

## Runs

| Run | Instance | Shows |
|---|---|---|
| `written` | small win/draw/loss leaves (three blocks of 2, 2 and 1 positions with every content; under a predicted class the three encodings, alone and next to each other; without one gaps and ranks, those of zero in no bytes; runs merged or split), six-class leaves in blocks of 12 and 3, leaves at the port widths (256 positions, 127 classes) | Python, JavaScript and Rust read back what was written; the leaves are written in the sense of `WrittenStream` and fit the ports, and `math.comb` keeps Pascal's rule up to row 23 |
| `arbitrary` | every stream of up to five bytes over seven values, two blocks of at most 3 positions | the invariants, `Termination`, refinement of `BlockDelivery`; where Python finds a legal list, JavaScript finds it and Rust finds it or panics |
| `doc_indices` | the same, four bytes | finding: indices outside the block |
| `doc_rank` | the leaves of `written`, with one bit less for ranks | finding: products of binomials wrap |
| `binom_search` | ranges of 1 to 46 candidates on both sides of the scan limit, subsets of up to 4, targets at and next to every coefficient | scan and bisection find the same, and end |
| `residual` | two leaves of two blocks, four kinds of record, two modes, codecs and versions, any single damage | what is refused, which blob serves, cache = lookup, JavaScript = Python |
| `wasm` | one buffer, some thirty files, every order of calls | answers of the last accepted file, as in Python |
| `doc_load` | the same | finding: a trap instead of -1 |
| `bundle` | every state of five files, nested, incomplete and ill-typed manifests included, one change at any moment | verdict, report, exit status |
| `doc_checks` | no change | findings: neither the residual's hash nor the verification report is checked against the manifest |
| `baselines` | win/draw/loss counts from -1 to 5 under the command, other orders and up to five classes under the library; floats of two bits, so that ratios round to 1 and overflow | the code is optimal, the verdict true, the order of the baselines |
| `flat_tree` | every array of up to three nodes, cycles and stray indices included, forward arrays of five | region, no exception and an end on forward arrays |

Why these bounds are enough: blocks do not influence each other except through
`offset` and `block_id`, so three blocks (first, middle, last) cover the cases of
`n_b` and of runs; the byte alphabet has every record header and encoding, the
counts 0, 1, 2, 5, 9 and 13 that are below, at and above the block size, and a
varint that continues. Label widths 1, 2 and 3 are covered, and 3 does not
divide a byte; so are the seven bits of 127 classes. For the file level two
leaves and two blocks suffice for every clash of keys; one buffer suffices
because a load only depends on what the buffer holds. One change of a directory
separates any two of the reads of the command. Five classes make Huffman trees
of every shape up to depth four.

The bounds, each a constant: `MaxSize` (bytes of arbitrary streams), `MaxChanges`
(other process), `Usize` (8 instead of 2^32), `CountsSize` (1 unit for the 12
bytes of `n_leaf_pred`), `IntBits` (10 instead of 32: the largest blocks of
`written` are as large as the ports can search), `RankBits` (11 instead of 128: the
largest binomial products of `written` just fit, and do not at the 10 of
`doc_rank`), `MaxRank` of `PyLibrary` (where coefficients saturate), `MaxCount`
and `MaxTotal` (counts of a dictionary), `FloatBits` and `FloatLimit` (2 instead of
53, 163 instead of 2^1024 - 2^970: sizes of B0 on both sides of 2^(`FloatBits` + 1),
the largest model size and the B1 of the fewest counts overflow), `MaxK` and `His` (subset sizes and range
ends of `binom_search`). Blocks of twelve positions carry one correction
anywhere, or four that end at the last position. With labels wider than 127
classes Rust's `i8` cannot hold a class: the ports are compared up to there.

Every property of a passing run has a mutant in `PROJECT.json`: a plausible bug
in a mapped definition that makes TLC report the property. The mutated forms
stand in the modules, each before the definition it replaces, marked `mutant`.

## Fairness

`FairSpec` of `RecordStream`, `BinomSearch`, `Baselines` and `FlatTree` assumes
`WF_vars(Step)`, that the call goes on executing until it returns or raises. It
is one thread without locks or I/O, so the scheduler owes it nothing else.
`Termination` then says that no input makes it loop; `EndsOnOrdered` says it of
forward arrays only, because `predict` does loop on an array with a cycle. The
page and the process that changes the directory are owed nothing: `WasmStore`
and `BundleVerify` have safety properties only.

## Proofs

`RecordStreamProofs` proves, for every set of leaves, block size, class count
and library function within the assumptions of `RecordStream`:

* `InductiveInvariant`: `Spec => []IInv`. The invariants worth having are not
  inductive: that indices stay inside the block while a rank is unranked needs
  to know that the elements still to come fit below the smallest so far
  (`Candidates`), that list entries differ from the prediction needs the same
  of pending labels (`PendingLabels`), and each loop must know which encoding
  and which bounds it was entered with (`Control`). `IInv` adds just these to
  `TypeOK`. There is one lemma per action, and `FindBounds` for the scan of
  `_find_largest_binom_le`.
* `Types`, `InOrder`, `SortedAndUnique`, `InsideBlock`, `IndexPerLabel`,
  `RealCorrections` and `InsideLeaf`: the properties of the `arbitrary` run.
* `Refinement`: `Spec => DeliversBlocks`, every step adds legal entries to the
  caller's list, ends it, or is a stutter for the caller.
* `GivesBlockList`: a returned list is an `IsBlockList`, which is what the file
  readers assume of `Decode`.
* `LabelsHaveOneCode`: no two labels that a stream can hold have the same code.
* `UnrankUndoesRank` and `RankUndoesUnrank`: with binomials that keep Pascal's
  rule, unranking the rank of an ascending sequence gives that sequence, and the
  rank of what is unranked is the rank that was read.
* `WrittenIsReadBack`: `Spec => []RoundTrip`. Hypotheses are `PascalsRule`, which
  `math.comb` keeps for all n and TLC checks of its saturating stand-in up to
  row 23, and `LeavesAreWritten`, which TLC checks of every leaf of `written`. The
  invariant `ReadInv` says which block `offset` is in and how much of it is read
  (`TheBlock`, `Progress`): gaps and bits so far are those of the written block,
  the rank to go is the rank of its first m indices, labels so far are its
  labels. The lemmas it needs are that a window of bits is the number whose bits
  they are (`WindowBits`), that least widths are unique (`SameWidth`), that a code
  is turned back into its label (`CodeOfLabel`), that the search finds the next
  index of a rank (`UnrankInverts`), and that only the first subset has rank zero
  (`RankOfFirst`).

It proves the same of the ports, for every width of their integers within
`PortsFit`. Their loops are functions of all their input while `RecordStream`
takes a step at a time, so the invariants say that they keep step:

* `JavaScriptKeepsStep`: `Spec => []JsInv`. Between records, the JavaScript loop
  has made the same list, and stands at the same byte, after some number of
  turns; inside a block its inner loop has, after as many turns as Python took,
  the same indices or the same rank left. Both are conditional, on a list that
  is `Legal` so far and on a block that still `Fits`: on other input JavaScript
  goes on where Python raises, and the two part for good. That the condition can
  only be lost is what makes it inductive. `JavaScriptAgrees` (`JsAgrees`, for
  arbitrary bytes) and `JavaScriptReadsWritten` follow at the end of the call;
  the latter needs that a written leaf stays legal.
* `RustKeepsStep`, `RustPortAgrees` (`RustAgrees`) and `RustReadsBack`
  (`RustReadsWritten`): the same for Rust with `RsInv(mayPanic)`. On arbitrary
  bytes the port may have panicked instead; on written ones (`mayPanic` FALSE) it
  never does. The hypothesis of the first two, `[]RanksFit`, is about the ranks
  the call meets; for written leaves `WrittenRanksStay` derives it from
  `WrittenRanksFit`. `RustPortAgrees` and `JavaScriptAgrees` are equalities of
  whole lists, so each port also decides the kinds of records, the runs and the
  end of the call as Python does.
* The lemmas below them are about the arithmetic that makes the ports hard to
  compare: `|`, `&` and shifts on integers of a width are sums and products of
  powers of two as long as nothing reaches the sign bit, a varint of wrapping
  shifts is the number itself below the width, running products are binomials
  (with the halving of the row), a code that crosses bytes is the same window of
  bits, and a difference is right though one of its terms wraps (`WrapsBack`).

TLC checked both invariants on the instances of `written` and `arbitrary` before
they were proved. `RanksFit` has no run of its own: it is a hypothesis, of which
`written` checks the constant form (`WidthAssumption`).

`ResidualFileProofs` proves, for every set of files, every damage and every
decoder that keeps the promise of `BlockDelivery` (`FileAssumption`,
`DecodeAssumption`):

* `Inductive`: `Spec => []IInv`. Next to the properties `IInv` says that what a
  later loop fills in is still empty (`Unread`), that blobs and cache only exist
  under an accepted header (`Accepted`), that no blob is a failed one
  (`BlobsRead`) and that each cached leaf is the cache of its blocks
  (`CacheSoFar`): `CacheAnswersLikeLookup` mentions labels only and is not kept
  by a step on its own.
* `StreamsIntact`: `ChecksummedStreamsIntact`, from `ChecksumAssumption`: every
  accepted stream with a checksum is one that was written.
* `IntactFileReadsBack`: `ReadsBack`, from `EncoderAssumption`. `NotRefused` is the
  strengthening: nothing stops an intact file before it is cached.
* `JsReadsTheSame`: `JsAnswersLikePython`, from `JsDecoderAgrees` and
  `BodyAssumption` (what follows a blob header are bytes). What is proved is the
  file level: header, index, blobs, streams and dicts of the two are the same.
* `Types`, `LastEntry`, `AllOrNothing` and `CacheAgrees`: the properties
  `TypeOK`, `LastEntryWins`, `CacheAllOrNothing` and `CacheAnswersLikeLookup` of
  the `residual` run. The last rests on `LeafAgrees`: on delivered blocks, with
  one entry per block and one position per index, first match (`lookup`) and
  last match (a dict) are the same.

`CorrectionsProofs` has the lemmas of that last argument, `GreatestExists` and
the agreement of a block's dict with the search through its list.
`WasmStoreProofs` uses them again:

* `Answers` and `OneFile`: `LookupsAnswerLikePython` and `OneFileAtATime`, for
  every set of files and every order of calls. The invariant is that `state` is
  what `load_residual` makes of `loaded` (`StateOfLoaded`) and that buffers hold
  nothing, zeros or written files. The streams the two readers cut out of a file
  are shown to be the same (`SameStream`, which needs that offsets and lengths do
  not wrap: `LengthAssumption`), and so are the dicts (`SameLeaf`). That the record decoders
  themselves agree on such a stream is an assumption here (`DecodersAgree`), where
  the decoder is an operator; `RustReadsBack` proves it of the streams an encoder
  wrote.

`BundleVerifyProofs` proves `Verdict`, `Quiet` and `Report` (`VerdictWasEarned`,
`QuietVerdict`, `ReportAgreesWithExit`) for any contents, hash and number of
changes; the run has one change. They are about the checks `verify_bundle` makes
(`PassesChecks`), not those its docstring lists. `IInv` says what each load has read so far and
from which contents (`FirstLoad`, `QuietLoad`), and that a valid result was
earned before the second load started (`ValidIsEarned`): the second load
overwrites the manifest and tree the verdict was of.

`BinomSearchProofs` proves `Brackets` and `Largest` for every call and scan limit,
from the single assumption that a column of Pascal's triangle does not descend.
`Bracketed` is the loop invariant of both loops.

`BaselinesProofs` proves, for every dictionary and caller:

* `Types` and `TiesByRank`: the symbols below the nodes of the heap are disjoint
  and each node has the rank of one of its own symbols, so nodes of equal rank
  would share a symbol.
* `Optimal` (`OptimalPrefixCode`): no prefix code, given by its lengths and
  Kraft's inequality, is shorter than the code of a call. Kept by each step is
  that every code of the symbols leaves words for the nodes of the heap that,
  with the bits already paid below the nodes, cost no more (`Competes`,
  `NoWorse`); for a merge, the two lightest nodes can be made siblings of greatest
  length without loss (`Siblings`), which is the exchange argument. Sums over sets are reasoned about
  by unfolding the recursive function under `MapThenSumSet`, and powers of two
  from the sizes of power sets.
* `BeatsThemAll` (`BeatsEveryPrefixCode`), for every precision of floats: the
  command claims a win for no size that some prefix code gets down to, and for
  every size below all of them while B0 is below 2^(`FloatBits` + 1) bits. `Rounding`
  is what rounding makes of the comparison. The part of `CallAssumption` about
  `model_bits` says that a size, where there is one, is a whole number of bits.
* `OrderOfBaselines` (`BaselineOrder`): entropy, Huffman and fixed width keep their
  order. No state is needed beyond `Optimal`; the rest is about counts and lengths.
  `EntropyBound`: no prefix code is below the entropy. The two rarest symbols are
  made siblings and joined into one (`JoinRarest`), which saves a bit per use of
  either, and the product of the n ^ n grows by no more, since
  (a + b) ^ (a + b) <= 2 ^ (a + b) * a ^ a * b ^ b (`TwoCounts`, from n ^ n being
  log-convex and Bernoulli's inequality). `ShannonCode`: words with the least
  number of bits m for which n * 2 ^ m reaches the total fit, and cost less than a
  bit per use above the entropy. They may be longer than `PrefixCodes` allows, so
  `NoLongerWords` shows that words no longer than the number of symbols do as well.

`FlatTreeProofs` proves `Types`, `NeverRaises` and `NoNodeTwice` for every array
and vector, and `AnswersFromItsRegion` (`RegionAnswers`): the node the walk is at
has the vector in its region. `Below` is the least set of nodes that is closed
under children, so the step from a node to its child needs no induction over the
tree.

The proofs that go along data (gaps, bits, elements of a set, rows of Pascal's
triangle) do not cite a library theorem with an operator parameter: each states
the set of those n for which its claim holds, and `SetInduction`, a consequence
of the least-element principle for sets of naturals, shows that it is all of
`Nat`.

Only model-checked: the liveness properties (`Termination`, `EndsOnOrdered`), which
need `ENABLED`. Every invariant and action property of the passing runs is stated
by a theorem.

## Not modelled

* `V18ResidualFile.summary` and the `decode` command: they print fields and
  counts of what `ResidualFile` reads and keep no state.
* `binom_bitlen`: a size estimate that nothing calls. `BlockData.validate` has no
  caller either, which is the first finding.
* `BaselineU` and the sizes and ratios a bundle report prints: formulas without
  a consequence, but for the overflow of a price that is too large for a float,
  which is modelled (`NoEntropy`, `RatioOverflows`).
* Fields of a manifest other than `mismatches` that have another type than the
  dataclass declares.
* `leaf_index_offset as usize` (`codec.rs:165`): the place of an index in a file.
* Headers whose last block starts behind the end of its leaf, for which the code
  computes a negative block size.
* Packaging, workflows, the benchmark page and the tests.

## Findings

* `residual_v18.py:79`: a gap list can name positions outside its block although
  `BlockData.indices` is documented as within `[0, n_b)`.
* `wasm/src/combinadic.rs:13`: `binom` multiplies before it divides in `u128`. With
  the default block size of 4096 the product passes 2^128 from 14 mismatches in a
  block on, and the Rust decoder returns other positions than were ranked, where
  Python and JavaScript are exact.
* `wasm/src/lib.rs:44`: `load_residual` traps on a malformed body although it is
  documented to return -1 on error.
* `proof/bundle.py:296`: the residual's hash is reported as passed without being
  computed although `README.md:183` says hashes of both artifacts are checked.
* `proof/bundle.py:248`: the docstring of `verify_bundle` lists "4. Verification
  report consistency", and nothing compares a report with anything: the
  manifest's `verification_hash` only enters the hash of the manifest, and
  `verification.json` is parsed and never looked at.

The last two share the run `doc_checks`: a bundle that fails both checks is
VERIFIED with status 0. `DocumentedChecks` is violated only where both are missing,
so its counterexample shows either.

One statement of the documentation has no counterpart to run: the `--counts`
option that `README.md:48` shows is not an option of the `baselines` command.

## Plan

Headers whose last block starts behind the end of its leaf.
