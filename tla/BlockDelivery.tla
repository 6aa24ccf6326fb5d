----------------------------- MODULE BlockDelivery ----------------------------
(***************************************************************************)
(* What decode_record_stream promises to build_lookup_cache and lookup,    *)
(* its callers: a list of numbered blocks that only grows and is then      *)
(* returned or lost to an exception.                                       *)
(***************************************************************************)
EXTENDS Integers, Sequences

CONSTANT None

VARIABLES
    num_blocks, \* blocks of the leaf
    prediction, \* what conditional labels may not say, or None
    list,       \* the entries so far
    status      \* running, returned or raised

vars == <<num_blocks, prediction, list, status>>

\* Strictly ascending indices in a block of the leaf, none of them
\* "corrected" to what the model predicted anyway.
Legal(entry) ==
    entry.data # None =>
        /\ entry.bid < num_blocks
        /\ \A i, j \in 1 .. Len(entry.data.indices) :
               i < j => entry.data.indices[i] < entry.data.indices[j]
        /\ prediction # None =>
               \A i \in 1 .. Len(entry.data.labels) :
                   entry.data.labels[i] # prediction

Init == list = <<>> /\ status = "running"

Deliver ==
    /\ status = "running"
    /\ Len(list') > Len(list)
    /\ \A i \in 1 .. Len(list) : list'[i] = list[i]
    /\ \A i \in (Len(list) + 1) .. Len(list') :
           list'[i].bid = i - 1 /\ Legal(list'[i])
    /\ UNCHANGED <<num_blocks, prediction, status>>

Finish ==
    /\ status = "running"
    /\ status' \in {"returned", "raised"}
    /\ UNCHANGED <<num_blocks, prediction, list>>

Next == Deliver \/ Finish

Spec == Init /\ [][Next]_vars
=============================================================================
