---------------------------- MODULE FlatTreeProofs ----------------------------
(***************************************************************************)
(* Proofs about FlatTree, for every array of nodes, feature vector and     *)
(* both runtimes.                                                          *)
(***************************************************************************)
EXTENDS FlatTree, TLAPS

NodeRecord == [feature : Int, threshold : Int, children_left : Int,
               children_right : Int, value : Int]

\* What a sequence holds is of its set.
LEMMA ElementType == \A S : \A q \in Seq(S) : \A i \in 1 .. Len(q) : q[i] \in S
OBVIOUS

\* An index that finds a node finds a record of five integers, in Python also
\* when it counts from the end.
LEMMA NodeType ==
    ASSUME InModel
    PROVE  /\ NumNodes \in Nat
           /\ \A i \in Indices : NodeAt(i) \in NodeRecord
           /\ node_idx \in Int /\ NodeFound =>
                  \E i \in Indices : NodeAt(node_idx) = NodeAt(i)
<1>1. nodes \in Seq(NodeRecord)
  BY ModelAssumption DEF InModel, NodeRecord
<1>2. NumNodes \in Nat
  BY <1>1 DEF NumNodes
<1>3. ASSUME NEW i \in Indices PROVE NodeAt(i) \in NodeRecord
  <2>1. i + 1 \in 1 .. Len(nodes) /\ NodeAt(i) = nodes[i + 1]
    BY <1>2, <1>3 DEF Indices, NumNodes, NodeAt
  <2>2. nodes[i + 1] \in NodeRecord
    BY ONLY <1>1, <2>1, ElementType, Zenon
  <2> QED BY <2>1, <2>2
<1>4. ASSUME node_idx \in Int, NodeFound
      PROVE  \E i \in Indices : NodeAt(node_idx) = NodeAt(i)
  <2> DEFINE i == IF node_idx < 0 THEN node_idx + NumNodes ELSE node_idx
  <2>1. i \in Indices
    BY <1>2, <1>4 DEF NodeFound, Indices
  <2>2. NodeAt(node_idx) = NodeAt(i)
    BY <1>2, <1>4, <2>1 DEF NodeAt, Indices
  <2> QED BY <2>1, <2>2
<1> QED BY <1>2, <1>3, <1>4

\* The child of a node of a forward array comes later.
LEMMA ForwardChild ==
    ASSUME InModel, Ordered, node_idx \in Indices, ~IsLeaf(Node)
    PROVE  Child \in node_idx + 1 .. NumNodes - 1
<1>1. /\ NodeAt(node_idx).children_left \in node_idx + 1 .. NumNodes - 1
      /\ NodeAt(node_idx).children_right \in node_idx + 1 .. NumNodes - 1
  BY DEF Ordered, Node
<1> QED BY <1>1 DEF Child, Node

\* In a tree, what lies below a node and is not the node itself lies there
\* because its parent does.
LEMMA ParentBelow ==
    ASSUME InModel, ProperTree, NEW r \in Indices, NEW n \in Indices,
           NEW c \in Below(r), c # r, c \in ChildrenOf(n)
    PROVE  n \in Below(r)
<1>1. NumNodes \in Nat
  BY NodeType
<1>2. c \in 1 .. NumNodes - 1
  BY <1>1 DEF ProperTree, Ordered, ChildrenOf, Indices
<1>3. \A j \in Indices : c \in ChildrenOf(j) => j = n
  BY <1>2 DEF ProperTree
<1>4. ASSUME NEW S \in SUBSET Indices, r \in S, Closed(S), n \notin S PROVE FALSE
  <2> DEFINE T == S \ {c}
  <2>1. Closed(T)
    BY <1>3, <1>4 DEF Closed
  <2>2. T \in SUBSET Indices /\ r \in T /\ c \notin T
    BY <1>4
  <2> QED BY <2>1, <2>2 DEF Below
<1> QED BY <1>4 DEF Below

\* Nothing leads back to the root.
LEMMA RootOnTop ==
    ASSUME InModel, Ordered, NEW r \in Indices, r # 0
    PROVE  0 \notin Below(r)
<1> DEFINE S == Indices \ {0}
<1>1. NumNodes \in Nat
  BY NodeType
<1>2. Closed(S)
  BY <1>1 DEF Closed, ChildrenOf, Ordered, Indices
<1> QED BY <1>2 DEF Below

\* A node keeps its children and its test within types.
LEMMA InnerNode ==
    ASSUME InModel, Ordered, Complete, NEW i \in Indices, ~IsLeaf(NodeAt(i))
    PROVE  /\ NodeAt(i).children_left \in Indices \ {0}
           /\ NodeAt(i).children_right \in Indices \ {0}
           /\ NodeAt(i).threshold \in Int
           /\ features[NodeAt(i).feature + 1] \in Int
<1>1. NumNodes \in Nat /\ NodeAt(i) \in NodeRecord
  BY NodeType
<1>2. /\ NodeAt(i).children_left \in i + 1 .. NumNodes - 1
      /\ NodeAt(i).children_right \in i + 1 .. NumNodes - 1
  BY DEF Ordered
<1>3. /\ NodeAt(i).children_left \in Indices \ {0}
      /\ NodeAt(i).children_right \in Indices \ {0}
  BY <1>1, <1>2 DEF Indices
<1>4. features \in Seq(Int)
  BY VectorAssumption DEF InModel
<1>5. NodeAt(i).feature + 1 \in 1 .. Len(features)
  BY <1>1, <1>4 DEF Complete, IsLeaf, NodeRecord
<1>6. features[NodeAt(i).feature + 1] \in Int
  BY ONLY <1>4, <1>5, ElementType, Zenon
<1> QED BY <1>1, <1>3, <1>6 DEF NodeRecord

\* The root is above no test.
LEMMA RootPasses ==
    ASSUME InModel, Ordered, Complete PROVE PassesTowards(0)
<1> SUFFICES ASSUME NEW i \in Indices, ~IsLeaf(NodeAt(i))
             PROVE  /\ 0 \notin Below(NodeAt(i).children_left)
                    /\ 0 \notin Below(NodeAt(i).children_right)
  BY DEF PassesTowards
<1>1. /\ NodeAt(i).children_left \in Indices \ {0}
      /\ NodeAt(i).children_right \in Indices \ {0}
  BY InnerNode
<1> QED BY <1>1, RootOnTop

\* One turn of the loop keeps to the region: the only test above the child
\* that was not already above its parent is the parent's own, which sent the
\* walk to that side.
LEMMA ChildPasses ==
    ASSUME InModel, ProperTree, Complete, node_idx \in Indices, ~IsLeaf(Node),
           PassesTowards(node_idx)
    PROVE  PassesTowards(Child)
<1>1. Ordered
  BY DEF ProperTree
<1> DEFINE Test(i) == features[NodeAt(i).feature + 1] <= NodeAt(i).threshold
<1>2. Child \in ChildrenOf(node_idx)
  BY DEF Child, ChildrenOf, Node
<1>3. /\ NodeAt(node_idx).children_left # NodeAt(node_idx).children_right
      /\ \A j \in Indices : Child \in ChildrenOf(j) => j = node_idx
  <2>1. Child \in node_idx + 1 .. NumNodes - 1 /\ NumNodes \in Nat
    BY <1>1, ForwardChild, NodeType
  <2>2. Child \in 1 .. NumNodes - 1
    BY <2>1 DEF Indices
  <2>3. PICK k \in Indices :
            /\ Child \in ChildrenOf(k)
            /\ NodeAt(k).children_left # NodeAt(k).children_right
            /\ \A j \in Indices \ {k} : Child \notin ChildrenOf(j)
    BY <2>2 DEF ProperTree
  <2>4. k = node_idx
    BY <1>2, <2>3
  <2> QED BY <2>3, <2>4
<1>4. GoesLeft <=> Test(node_idx)
  <2>1. FeatureFound
    BY DEF Complete, FeatureFound, Node
  <2> QED BY <2>1 DEF GoesLeft, Feature, Node
<1> SUFFICES ASSUME NEW i \in Indices, ~IsLeaf(NodeAt(i))
             PROVE  /\ Child \in Below(NodeAt(i).children_left) => Test(i)
                    /\ Child \in Below(NodeAt(i).children_right) =>
                           features[NodeAt(i).feature + 1] > NodeAt(i).threshold
  BY DEF PassesTowards
<1>5. /\ NodeAt(i).children_left \in Indices
      /\ NodeAt(i).children_right \in Indices
      /\ NodeAt(i).threshold \in Int
      /\ features[NodeAt(i).feature + 1] \in Int
  BY <1>1, InnerNode
<1>6. /\ node_idx \in Below(NodeAt(i).children_left) => Test(i)
      /\ node_idx \in Below(NodeAt(i).children_right) =>
             features[NodeAt(i).feature + 1] > NodeAt(i).threshold
  BY DEF PassesTowards
<1>7. ASSUME Child \in Below(NodeAt(i).children_left) PROVE Test(i)
  <2>1. CASE Child # NodeAt(i).children_left
    BY <1>2, <1>5, <1>6, <1>7, <2>1, ParentBelow
  <2>2. CASE Child = NodeAt(i).children_left
    <3>1. i = node_idx
      BY <1>3, <2>2 DEF ChildrenOf
    <3>2. GoesLeft
      BY <1>3, <2>2, <3>1 DEF Child, Node
    <3> QED BY <1>4, <3>1, <3>2
  <2> QED BY <2>1, <2>2
<1>8. ASSUME Child \in Below(NodeAt(i).children_right)
      PROVE  features[NodeAt(i).feature + 1] > NodeAt(i).threshold
  <2>1. CASE Child # NodeAt(i).children_right
    BY <1>2, <1>5, <1>6, <1>8, <2>1, ParentBelow
  <2>2. CASE Child = NodeAt(i).children_right
    <3>1. i = node_idx
      BY <1>3, <2>2 DEF ChildrenOf
    <3>2. ~GoesLeft
      BY <1>3, <2>2, <3>1 DEF Child, Node
    <3>3. ~Test(i)
      BY <1>4, <3>1, <3>2
    <3> QED BY <1>5, <3>3
  <2> QED BY <2>1, <2>2
<1> QED BY <1>7, <1>8

\* The walk starts at the root.
LEMMA InitInv == Init => IInv
<1> SUFFICES ASSUME Init PROVE IInv
  OBVIOUS
<1>1. InModel /\ pc = "walk" /\ node_idx = 0 /\ label = 0
  BY DEF Init, InModel
<1>2. NumNodes \in Nat
  BY <1>1, NodeType
<1>3. TypeOK /\ OrderedNeverRaises
  BY <1>1, <1>2 DEF TypeOK, OrderedNeverRaises, Ordered, Indices
<1>4. OnThePath
  BY <1>1, RootPasses DEF OnThePath, ProperTree
<1>5. RegionAnswers
  BY <1>1 DEF RegionAnswers
<1> QED BY <1>1, <1>3, <1>4, <1>5 DEF IInv

\* What is said of the array and the vector alone outlives every step.
LEMMA SameModel ==
    ASSUME UNCHANGED <<nodes, features>>
    PROVE  /\ NumNodes' = NumNodes /\ Indices' = Indices
           /\ \A i : NodeAt(i)' = NodeAt(i)
           /\ Ordered' <=> Ordered
           /\ Complete' <=> Complete
           /\ ProperTree' <=> ProperTree
           /\ \A n : PassesTowards(n)' <=> PassesTowards(n)
<1>1. /\ NumNodes' = NumNodes /\ Indices' = Indices
      /\ \A i : NodeAt(i)' = NodeAt(i)
  BY DEF NumNodes, Indices, NodeAt
<1>2. Ordered' <=> Ordered
  BY <1>1 DEF Ordered
<1>3. Complete' <=> Complete
  BY <1>1 DEF Complete
<1>4. \A i : ChildrenOf(i)' = ChildrenOf(i)
  BY <1>1 DEF ChildrenOf
<1>5. ProperTree' <=> ProperTree
  BY <1>1, <1>2, <1>4 DEF ProperTree
<1>6. \A S : Closed(S)' <=> Closed(S)
  BY <1>4 DEF Closed
<1>7. \A i : Below(i)' = Below(i)
  BY <1>1, <1>6 DEF Below
<1>8. \A n : PassesTowards(n)' <=> PassesTowards(n)
  BY <1>1, <1>7 DEF PassesTowards
<1> QED BY <1>1, <1>2, <1>3, <1>5, <1>8

\* Every step keeps the invariant.
LEMMA NextInv == IInv /\ [Next]_vars => IInv'
<1> SUFFICES ASSUME IInv, [Next]_vars PROVE IInv'
  OBVIOUS
<1>1. /\ InModel /\ NumNodes \in Nat /\ node_idx \in Int /\ label \in Int
      /\ pc \in {"walk", "done", "raised"}
      /\ \A i \in Indices : NodeAt(i) \in NodeRecord
      /\ NodeFound => \E i \in Indices : NodeAt(node_idx) = NodeAt(i)
  BY NodeType DEF IInv, TypeOK
<1>2. UNCHANGED <<nodes, features, runtime>>
  BY DEF Next, Step, Terminating, Raise, Leaf, Descend, vars
<1>3. InModel'
  BY <1>1, <1>2 DEF InModel
<1>4. /\ NumNodes' = NumNodes /\ Indices' = Indices
      /\ \A i : NodeAt(i)' = NodeAt(i)
      /\ (Ordered' <=> Ordered) /\ (Complete' <=> Complete)
      /\ (ProperTree' <=> ProperTree)
      /\ \A n : PassesTowards(n)' <=> PassesTowards(n)
  BY ONLY <1>2, SameModel
<1>5. CASE Raise
  <2>1. pc = "walk" /\ pc' = "raised" /\ UNCHANGED <<node_idx, label>>
    BY <1>5 DEF Raise
  <2>2. ~(Ordered /\ Complete)
    <3> SUFFICES ASSUME Ordered, Complete PROVE FALSE
      OBVIOUS
    <3>1. node_idx \in Indices
      BY DEF IInv, OrderedNeverRaises
    <3>2. NodeFound
      BY <1>1, <3>1 DEF NodeFound, Indices
    <3>3. FeatureFound
      BY <3>1 DEF Complete, FeatureFound, Node
    <3> QED BY <1>5, <3>2, <3>3 DEF Raise
  <2>3. TypeOK'
    BY <1>1, <2>1 DEF TypeOK
  <2>4. OrderedNeverRaises' /\ OnThePath' /\ RegionAnswers'
    BY <1>4, <2>1, <2>2 DEF OrderedNeverRaises, OnThePath, RegionAnswers, ProperTree
  <2> QED BY <1>3, <2>3, <2>4 DEF IInv
<1>6. CASE Leaf
  <2>1. /\ pc = "walk" /\ NodeFound /\ IsLeaf(Node) /\ label' = Node.value
        /\ pc' = "done" /\ UNCHANGED node_idx
    BY <1>6 DEF Leaf
  <2>2. PICK i \in Indices : NodeAt(node_idx) = NodeAt(i)
    BY <1>1, <2>1
  <2>3. NodeAt(i).feature < 0 /\ label' = NodeAt(i).value /\ label' \in Int
    BY <1>1, <2>1, <2>2 DEF Node, NodeRecord, IsLeaf
  <2>4. TypeOK'
    BY <1>1, <1>4, <2>1, <2>3 DEF TypeOK
  <2>5. OrderedNeverRaises'
    BY <1>4, <2>1 DEF IInv, OrderedNeverRaises
  <2>6. OnThePath'
    BY <1>4, <2>1 DEF IInv, OnThePath
  <2>7. NodeAt(node_idx)' = Node
    BY <1>2, <2>1 DEF Node, NodeAt, NumNodes
  <2>8. RegionAnswers'
    BY <1>4, <2>1, <2>6, <2>7 DEF RegionAnswers, OnThePath, IsLeaf
  <2> QED BY <1>3, <2>4, <2>5, <2>6, <2>8 DEF IInv
<1>7. CASE Descend
  <2>1. /\ pc = "walk" /\ pc' = "walk" /\ NodeFound /\ ~IsLeaf(Node)
        /\ node_idx' = Child /\ UNCHANGED label
    BY <1>7 DEF Descend
  <2>2. PICK i \in Indices : NodeAt(node_idx) = NodeAt(i)
    BY <1>1, <2>1
  <2>3. TypeOK'
    BY <1>1, <2>1, <2>2 DEF TypeOK, Child, Node, NodeRecord
  <2>4. Ordered /\ Complete => node_idx' \in Indices
    BY <1>1, <2>1, ForwardChild DEF IInv, OrderedNeverRaises, Indices
  <2>5. OrderedNeverRaises'
    BY <1>4, <2>1, <2>4 DEF OrderedNeverRaises
  <2>6. ProperTree /\ Complete => PassesTowards(Child)
    BY <1>1, <2>1, ChildPasses DEF IInv, OnThePath, OrderedNeverRaises, ProperTree
  <2>7. OnThePath' /\ RegionAnswers'
    BY <1>4, <2>1, <2>6 DEF OnThePath, RegionAnswers
  <2> QED BY <1>3, <2>3, <2>5, <2>7 DEF IInv
<1>8. CASE UNCHANGED vars
  <2>1. pc' = pc /\ node_idx' = node_idx /\ label' = label
    BY <1>8 DEF vars
  <2>2. TypeOK' /\ OrderedNeverRaises' /\ OnThePath'
    BY <1>4, <2>1 DEF IInv, TypeOK, OrderedNeverRaises, OnThePath
  <2>3. NodeAt(node_idx)' = NodeAt(node_idx)
    BY <1>2, <2>1 DEF NodeAt, NumNodes
  <2>4. RegionAnswers'
    BY <1>4, <2>1, <2>3 DEF IInv, RegionAnswers, IsLeaf
  <2> QED BY <1>3, <2>2, <2>4 DEF IInv
<1> QED BY <1>5, <1>6, <1>7, <1>8 DEF Next, Step, Terminating

\* The invariant holds in every state.
LEMMA Inductive == Spec => []IInv
BY InitInv, NextInv, PTL DEF Spec

(* predict only ever returns the value of a leaf of its array, however     *)
(* malformed the array.                                                    *)
THEOREM Types == Spec => []TypeOK
<1>1. IInv => TypeOK
  BY DEF IInv
<1> QED BY <1>1, Inductive, PTL

(* On forward arrays and complete vectors neither language raises: there   *)
(* the differences between the two walks never show.                       *)
THEOREM NeverRaises == Spec => []OrderedNeverRaises
<1>1. IInv => OrderedNeverRaises
  BY DEF IInv
<1> QED BY <1>1, Inductive, PTL

(* The label predict returns is that of the leaf whose region the vector   *)
(* lies in: no test on the way down was missed, taken at another node or   *)
(* with the sides exchanged.                                               *)
THEOREM AnswersFromItsRegion == Spec => []RegionAnswers
<1>1. IInv => RegionAnswers
  BY DEF IInv
<1> QED BY <1>1, Inductive, PTL

(* On forward arrays and complete vectors no node is visited twice: each   *)
(* turn of the loop moves further down the array, which is why it ends     *)
(* (predict keeps no record of the nodes it visited).                      *)
THEOREM NoNodeTwice ==
    Spec => [][Ordered /\ Complete => node_idx' = node_idx \/ node_idx' > node_idx]_vars
<1>1. IInv /\ [Next]_vars
        => [Ordered /\ Complete => node_idx' = node_idx \/ node_idx' > node_idx]_vars
  <2> SUFFICES ASSUME IInv, Next, Ordered, Complete, node_idx' # node_idx
               PROVE  node_idx' > node_idx
    BY DEF vars
  <2>1. Descend
    BY DEF Next, Step, Terminating, Raise, Leaf, vars
  <2>2. node_idx \in Indices /\ NumNodes \in Nat
    BY NodeType DEF IInv, OrderedNeverRaises
  <2>3. Child \in node_idx + 1 .. NumNodes - 1
    BY <2>1, <2>2, ForwardChild DEF IInv, Descend
  <2> QED BY <2>1, <2>2, <2>3 DEF Descend, Indices
<1> QED BY <1>1, Inductive, PTL DEF Spec
=============================================================================
