------------------------------ MODULE MCFlatTree ------------------------------
(***************************************************************************)
(* Instances of FlatTree: every array of up to three nodes, cycles and     *)
(* indices off both ends included, and every tree of five nodes.           *)
(***************************************************************************)
EXTENDS FlatTree

InnerNode(feature, threshold, left, right) ==
    [feature |-> feature, threshold |-> threshold, children_left |-> left,
     children_right |-> right, value |-> 0]

LeafNode(value) ==
    [feature |-> -1, threshold |-> 0, children_left |-> -1,
     children_right |-> -1, value |-> value]

\* Node i of n: a leaf that answers with i, or a split
NodesAt(i, splits, children) ==
    {LeafNode(i)} \cup {InnerNode(f, 1, l, r) : f \in splits, l, r \in children}

AnyArrays ==
    {<<>>} \cup {<<a>> : a \in NodesAt(0, {0, 2}, -2 .. 1)}
    \cup {<<a, b, c>> : a \in NodesAt(0, {0, 2}, -1 .. 3),
                        b, c \in NodesAt(1, {1}, {-3, 0, 1, 2})}

ForwardArrays ==
    {<<a, b, c, d, LeafNode(4)>> :
        a \in NodesAt(0, {0, 1}, 1 .. 4), b \in NodesAt(1, {0, 1}, 2 .. 4),
        c \in NodesAt(2, {1}, 3 .. 4), d \in {LeafNode(3)}}

AllModels == AnyArrays \cup ForwardArrays
AllVectors == [1 .. 2 -> 0 .. 2]
=============================================================================
