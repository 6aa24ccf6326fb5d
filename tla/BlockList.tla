------------------------------- MODULE BlockList ------------------------------
(***************************************************************************)
(* The list of decoded blocks that decode_record_stream returns and that   *)
(* build_lookup_cache and lookup go through.                               *)
(***************************************************************************)
EXTENDS Integers, Sequences

CONSTANT None   \* Python's None: no correction in the block

\* (bid, BlockData or None)
BlockEntry ==
    [bid : Nat, data : {None} \cup [indices : Seq(Int), labels : Seq(Int)]]

Ascending(s) == \A i, j \in 1 .. Len(s) : i < j => s[i] < s[j]

\* What the callers rely on, and RecordStreamProofs shows of the decoder: the
\* blocks 0, 1, 2, ... in order, with sorted and unique indices.
IsBlockList(list) ==
    /\ list \in Seq(BlockEntry)
    /\ \A i \in 1 .. Len(list) :
           /\ list[i].bid = i - 1
           /\ list[i].data # None => Ascending(list[i].data.indices)
=============================================================================
