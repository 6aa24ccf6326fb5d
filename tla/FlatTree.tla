------------------------------- MODULE FlatTree -------------------------------
(***************************************************************************)
(* predict of the flat decision tree, in Python (codec/flat_tree.py) and   *)
(* in JavaScript (flat-tree.js): the model whose predictions the residual  *)
(* file corrects.  One behaviour is one call; every turn of its loop is    *)
(* one step.  Node indices are those of the file (0-based).                *)
(*                                                                         *)
(* The two walks differ where the arrays are not a tree: Python counts     *)
(* negative indices from the end and raises IndexError past it, JavaScript *)
(* finds no node and raises TypeError; a missing feature raises in Python  *)
(* and compares false in JavaScript.                                       *)
(***************************************************************************)
EXTENDS Integers, Sequences

CONSTANTS
    Models,     \* node arrays: sequences of [feature, threshold,
                \* children_left, children_right, value]
    Vectors,    \* feature vectors: sequences of integers
    Runtimes    \* \subseteq {"python", "js"}

ASSUME ModelAssumption ==
    \A nodes \in Models :
        nodes \in Seq([feature : Int, threshold : Int, children_left : Int,
                       children_right : Int, value : Int])

ASSUME VectorAssumption == \A v \in Vectors : v \in Seq(Int)

ASSUME RuntimeAssumption == Runtimes \subseteq {"python", "js"}

VARIABLES
    nodes,      \* self.nodes
    features,   \* the argument
    runtime,    \* which of the two programs runs
    pc,         \* walk, done or raised
    node_idx,
    label       \* the value returned

vars == <<nodes, features, runtime, pc, node_idx, label>>

NumNodes == Len(nodes)

\* The array elements an index reaches
NodeFound == IF runtime = "python" THEN node_idx \in -NumNodes .. NumNodes - 1
                                   ELSE node_idx \in 0 .. NumNodes - 1
NodeAt(i) == nodes[(IF i < 0 THEN i + NumNodes ELSE i) + 1]
Node == NodeAt(node_idx)

FeatureBeforeLast == Node.feature < Len(features) - 1  \* mutant: off by one

FeatureFound == Node.feature < Len(features)
Feature == features[Node.feature + 1]

LessThan == FeatureFound /\ Feature < Node.threshold  \* mutant: strict

\* undefined <= threshold is false
GoesLeft == FeatureFound /\ Feature <= Node.threshold

IsLeafOrFirst(node) == node.feature <= 0  \* mutant: feature 0 is a split too

IsLeaf(node) == node.feature < 0

Init ==
    /\ nodes \in Models
    /\ features \in Vectors
    /\ runtime \in Runtimes
    /\ pc = "walk"
    /\ node_idx = 0
    /\ label = 0

Raise ==
    /\ pc = "walk"
    /\ \/ ~NodeFound
       \/ /\ NodeFound
          /\ ~IsLeaf(Node)
          /\ ~FeatureFound
          /\ runtime = "python"
    /\ pc' = "raised"
    /\ UNCHANGED <<nodes, features, runtime, node_idx, label>>

Leaf ==
    /\ pc = "walk"
    /\ NodeFound
    /\ IsLeaf(Node)
    /\ label' = Node.value
    /\ pc' = "done"
    /\ UNCHANGED <<nodes, features, runtime, node_idx>>

StaysAtRoot ==  \* mutant: the right turn is taken from the root again
    IF GoesLeft THEN Node.children_left ELSE nodes[1].children_right

Child == IF GoesLeft THEN Node.children_left ELSE Node.children_right

Descend ==
    /\ pc = "walk"
    /\ NodeFound
    /\ ~IsLeaf(Node)
    /\ FeatureFound \/ runtime = "js"
    /\ node_idx' = Child
    /\ UNCHANGED <<nodes, features, runtime, pc, label>>

Terminating == pc \in {"done", "raised"} /\ UNCHANGED vars

Step == Raise \/ Leaf \/ Descend

Next == Step \/ Terminating

Spec == Init /\ [][Next]_vars

\* The call runs on its thread until it returns or raises.
FairSpec == Spec /\ WF_vars(Step)

-----------------------------------------------------------------------------
(* Correctness *)

Indices == 0 .. NumNodes - 1

\* Inner nodes point forward at nodes, as arrays written in preorder do
Ordered ==
    /\ NumNodes > 0
    /\ \A i \in Indices : ~IsLeaf(NodeAt(i)) =>
           /\ NodeAt(i).children_left \in i + 1 .. NumNodes - 1
           /\ NodeAt(i).children_right \in i + 1 .. NumNodes - 1

\* The vector has every feature some node splits on
Complete == \A i \in Indices : NodeAt(i).feature < Len(features)

\* Types of the variables; what is returned is the value of some leaf.
TypeOK ==
    /\ pc \in {"walk", "done", "raised"}
    /\ node_idx \in Int
    /\ label \in Int
    /\ pc = "done" => \E i \in Indices : /\ NodeAt(i).feature < 0
                                         /\ label = NodeAt(i).value

\* On a forward array and a complete vector neither program ever leaves the
\* array or misses a feature, so the two take the same walk.
OrderedNeverRaises ==
    (Ordered /\ Complete) => pc # "raised" /\ node_idx \in Indices

\* Nodes that lie below node i when turning left (right) there
ChildrenOf(i) ==
    IF IsLeaf(NodeAt(i)) THEN {}
    ELSE {NodeAt(i).children_left, NodeAt(i).children_right}
Closed(S) == \A j \in S : ChildrenOf(j) \subseteq S

\* What the edges reach from node i: the least closed set that holds it
Below(i) ==
    {j \in Indices : \A S \in SUBSET Indices : i \in S /\ Closed(S) => j \in S}

\* Every node but the root hangs from one edge
ProperTree ==
    /\ Ordered
    /\ \A c \in 1 .. NumNodes - 1 :
           \E i \in Indices :
               /\ c \in ChildrenOf(i)
               /\ NodeAt(i).children_left # NodeAt(i).children_right
               /\ \A j \in Indices \ {i} : c \notin ChildrenOf(j)

\* At every node above n the vector passes the test towards n.
PassesTowards(n) ==
    \A i \in Indices : ~IsLeaf(NodeAt(i)) =>
        LET x == features[NodeAt(i).feature + 1]
        IN  /\ n \in Below(NodeAt(i).children_left) => x <= NodeAt(i).threshold
            /\ n \in Below(NodeAt(i).children_right) => x > NodeAt(i).threshold

\* The leaf that answers lies in the region of the vector: at every node
\* above it the vector passes the test towards it, and the label is the leaf's.
RegionAnswers ==
    (ProperTree /\ Complete /\ pc = "done") =>
        /\ IsLeaf(NodeAt(node_idx))
        /\ label = NodeAt(node_idx).value
        /\ PassesTowards(node_idx)

\* A forward array is walked in finite time, whatever the vector; an array
\* with a cycle need not be: neither program looks for one.
EndsOnOrdered == Ordered => <>(pc \in {"done", "raised"})

-----------------------------------------------------------------------------
(* The inductive invariant *)

InModel == nodes \in Models /\ features \in Vectors /\ runtime \in Runtimes

\* The walk so far has kept to the region of the vector, not its end only.
OnThePath == (ProperTree /\ Complete) => PassesTowards(node_idx)

IInv == InModel /\ TypeOK /\ OrderedNeverRaises /\ OnThePath /\ RegionAnswers
=============================================================================
