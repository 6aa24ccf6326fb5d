--------------------------- MODULE CorrectionsProofs ---------------------------
(***************************************************************************)
(* Lemmas about the blocks of one leaf (ResidualFormat): what lookup finds *)
(* in a delivered list, and what the dict of the cache has, are the same.  *)
(***************************************************************************)
EXTENDS ResidualFormat, TLAPS, SequenceTheorems, WellFoundedInduction

-----------------------------------------------------------------------------
(* Least and greatest positions *)

\* A single element is both least and greatest.
LEMMA LeastOfOne ==
    ASSUME NEW x \in Int
    PROVE  Least({x}) = x /\ Greatest({x}) = x
  BY DEF Least, Greatest

\* A last element is the greatest of every set of positions up to it.
LEMMA GreatestAtTop ==
    ASSUME NEW n \in Int, NEW S, n \in S, \A x \in S : x \in Int /\ x <= n
    PROVE  Greatest(S) = n
  <1>1. n \in S /\ \A y \in S : y <= n
    OBVIOUS
  <1>2. ASSUME NEW m \in S, \A y \in S : y <= m
        PROVE  m = n
    <2>1. m \in Int /\ m <= n /\ n <= m
      BY <1>2
    <2> QED
      BY <2>1
  <1> QED
    BY <1>1, <1>2 DEF Greatest

\* A nonempty set of naturals has a least element.
LEMMA LeastExists ==
    ASSUME NEW S, S \subseteq Nat, S # {}
    PROVE  Least(S) \in S /\ \A y \in S : Least(S) <= y
  <1> DEFINE R == {ss \in Nat \X Nat : ss[1] < ss[2]}
  <1>1. IsWellFoundedOn(R, Nat)
    BY NatLessThanWellFounded DEF OpToRel
  <1> HIDE DEF R
  <1>2. PICK x \in S : \A y \in S : <<y, x>> \notin R
    BY <1>1, WFMin
  <1>3. ASSUME NEW y \in S
        PROVE  x <= y
    <2>1. <<y, x>> \in Nat \X Nat
      OBVIOUS
    <2>2. y < x => <<y, x>> \in R
      BY <2>1 DEF R
    <2> QED
      BY <1>2, <2>2
  <1> QED
    BY <1>2, <1>3 DEF Least

\* A nonempty set of positions has a greatest element.
LEMMA GreatestExists ==
    ASSUME NEW n \in Int, NEW S, S # {}, \A x \in S : x \in Int /\ x <= n
    PROVE  Greatest(S) \in S
  <1> DEFINE D == {n - x : x \in S}
  <1>1. D \subseteq Nat /\ D # {}
    OBVIOUS
  <1>2. Least(D) \in D /\ \A y \in D : Least(D) <= y
    <2> HIDE DEF D
    <2> QED
      BY <1>1, LeastExists
  <1>3. PICK x \in S : Least(D) = n - x
    BY <1>2
  <1>4. ASSUME NEW y \in S
        PROVE  y <= x
    <2>1. n - y \in D
      OBVIOUS
    <2>2. n - x <= n - y
      BY <1>2, <1>3, <2>1
    <2> QED
      BY <2>2
  <1> QED
    BY <1>4 DEF Greatest

-----------------------------------------------------------------------------
(* Cache and lookup on the blocks of one leaf *)

\* The entries of a delivered list, one by one.
LEMMA EntryTypes ==
    ASSUME NEW blocks, Delivered(blocks)
    PROVE  /\ Len(blocks) \in Nat
           /\ \A i \in 1 .. Len(blocks) : blocks[i] \in BlockEntry
  <1>1. blocks \in Seq(BlockEntry)
    BY DEF Delivered, IsBlockList
  <1> HIDE DEF BlockEntry
  <1> QED
    BY <1>1

\* The two lists of a block with corrections.
LEMMA ListTypes ==
    ASSUME NEW blocks, Delivered(blocks),
           NEW i \in 1 .. Len(blocks), blocks[i].data # None
    PROVE  /\ blocks[i].data.indices \in Seq(Int)
           /\ blocks[i].data.labels \in Seq(Int)
  <1>1. blocks[i] \in BlockEntry
    BY EntryTypes
  <1>2. blocks[i].data \in {None} \cup [indices : Seq(Int), labels : Seq(Int)]
    BY <1>1 DEF BlockEntry
  <1> QED
    BY <1>2

\* A delivered list has at most one entry for a block.
LEMMA OneEntryPerBlock ==
    ASSUME NEW blocks, Delivered(blocks),
           NEW i \in 1 .. Len(blocks), NEW j \in 1 .. Len(blocks),
           blocks[i].bid = blocks[j].bid
    PROVE  i = j
  <1>1. Len(blocks) \in Nat
    BY EntryTypes
  <1>2. blocks[i].bid = i - 1 /\ blocks[j].bid = j - 1
    BY Zenon DEF Delivered, IsBlockList, Ascending
  <1>3. i - 1 = j - 1
    BY <1>2
  <1> QED
    BY <1>1, <1>3

\* An index occurs at most once in a delivered block.
LEMMA OnePosition ==
    ASSUME NEW blocks, Delivered(blocks),
           NEW i \in 1 .. Len(blocks), blocks[i].data # None,
           NEW p \in 1 .. Len(blocks[i].data.indices),
           NEW q \in 1 .. Len(blocks[i].data.indices),
           blocks[i].data.indices[p] = blocks[i].data.indices[q]
    PROVE  p = q
  <1>1. /\ blocks[i].data.indices \in Seq(Int)
        /\ blocks[i].data.labels \in Seq(Int)
    BY ListTypes
  <1>2. /\ Len(blocks[i].data.indices) \in Nat
        /\ blocks[i].data.indices[p] \in Int
        /\ blocks[i].data.indices[q] \in Int
    BY SMTT(60), <1>1
  <1>3. /\ p < q => blocks[i].data.indices[p] < blocks[i].data.indices[q]
        /\ q < p => blocks[i].data.indices[q] < blocks[i].data.indices[p]
    BY Zenon DEF Delivered, IsBlockList, Ascending
  <1> QED
    BY <1>2, <1>3

CachedIn(blocks, block_id, idx) ==
    IF /\ block_id \in DOMAIN LeafCache(blocks)
       /\ idx \in DOMAIN LeafCache(blocks)[block_id]
    THEN LeafCache(blocks)[block_id][idx]
    ELSE None

\* The dict of a block has the label of an index where lookup finds one, and
\* nothing where lookup finds nothing or raises.
LEMMA BlockAgrees ==
    ASSUME NEW blocks, Delivered(blocks),
           NEW i \in 1 .. Len(blocks), blocks[i].data # None, NEW idx
    PROVE  (IF idx \in DOMAIN BlockCache(blocks[i].data)
            THEN BlockCache(blocks[i].data)[idx] ELSE None)
           = (IF LabelIn(blocks[i].data, idx) = Failed THEN None
              ELSE LabelIn(blocks[i].data, idx))
  <1> DEFINE d == blocks[i].data
             n == Paired(d)
  <1>1. d.indices \in Seq(Int) /\ d.labels \in Seq(Int)
    BY ListTypes
  <1>2. /\ Len(d.indices) \in Nat /\ Len(d.labels) \in Nat
        /\ \A p \in 1 .. Len(d.labels) : d.labels[p] \in Int
    BY <1>1
  <1>3. /\ n \in Nat /\ n <= Len(d.indices) /\ n <= Len(d.labels)
        /\ n = Len(d.indices) \/ n = Len(d.labels)
    BY <1>2 DEF Paired
  <1>4. \A p, q \in 1 .. Len(d.indices) : d.indices[p] = d.indices[q] => p = q
    BY OnePosition
  <1> HIDE DEF d, n
  <1>5. CASE Positions(d.indices, idx) = {}
    <2>1. LabelIn(d, idx) = None
      BY <1>5 DEF LabelIn
    <2>2. idx \notin {d.indices[p] : p \in 1 .. n}
      BY <1>2, <1>3, <1>5 DEF Positions
    <2> QED
      BY <2>1, <2>2, NoneAssumption DEF BlockCache, n, d
  <1>6. CASE Positions(d.indices, idx) # {}
    <2>1. PICK p \in 1 .. Len(d.indices) : d.indices[p] = idx
      BY <1>6 DEF Positions
    <2>2. Positions(d.indices, idx) = {p}
      BY <1>4, <2>1 DEF Positions
    <2>3. Least(Positions(d.indices, idx)) = p
      <3>1. p \in Int
        BY <1>2
      <3> QED
        BY <2>2, <3>1, LeastOfOne
    <2>4. CASE p <= n
      <3>1. LabelIn(d, idx) = d.labels[p]
        BY <1>2, <1>3, <1>6, <2>3, <2>4 DEF LabelIn
      <3>2. d.labels[p] \in Int
        BY <1>2, <1>3, <2>4
      <3>3. {r \in 1 .. n : d.indices[r] = idx} = {p}
        BY SMTT(60), <1>2, <1>3, <1>4, <2>1, <2>4
      <3>4. Greatest({r \in 1 .. n : d.indices[r] = idx}) = p
        <4>1. p \in Int
          BY <1>2
        <4> QED
          BY <3>3, <4>1, LeastOfOne
      <3>5. idx \in {d.indices[r] : r \in 1 .. n}
        BY <1>2, <2>1, <2>4
      <3>6. idx \in DOMAIN BlockCache(d) /\ BlockCache(d)[idx] = d.labels[p]
        BY <3>4, <3>5 DEF BlockCache, n
      <3> QED
        BY <3>1, <3>2, <3>6, NoneAssumption DEF d
    <2>5. CASE ~(p <= n)
      <3>1. p > Len(d.labels)
        BY <1>2, <1>3, <2>1, <2>5
      <3>2. LabelIn(d, idx) = Failed
        BY <1>6, <2>3, <3>1 DEF LabelIn
      <3>3. idx \notin {d.indices[r] : r \in 1 .. n}
        BY <1>2, <1>3, <1>4, <2>1, <2>5
      <3>4. idx \notin DOMAIN BlockCache(d)
        BY <3>3 DEF BlockCache, n
      <3> QED
        BY <3>2, <3>4, NoneAssumption DEF d
    <2> QED
      BY <2>4, <2>5
  <1> QED
    BY <1>5, <1>6

\* The cache of a delivered list answers as the search through the list.
LEMMA LeafAgrees ==
    ASSUME NEW blocks, Delivered(blocks), NEW block_id, NEW idx
    PROVE  CachedIn(blocks, block_id, idx)
           = (IF LookupIn(blocks, block_id, idx) = Failed THEN None
              ELSE LookupIn(blocks, block_id, idx))
  <1> DEFINE found == {i \in 1 .. Len(blocks) : blocks[i].bid = block_id}
  <1>1. CASE found = {}
    <2>1. LookupIn(blocks, block_id, idx) = None
      BY <1>1 DEF LookupIn
    <2>2. block_id \notin {blocks[i].bid : i \in Corrected(blocks)}
      BY <1>1 DEF Corrected
    <2>3. block_id \notin DOMAIN LeafCache(blocks)
      BY <2>2 DEF LeafCache
    <2> QED
      BY <2>1, <2>3, NoneAssumption DEF CachedIn
  <1>2. CASE found # {}
    <2>1. PICK i \in 1 .. Len(blocks) : blocks[i].bid = block_id
      BY <1>2
    <2>2. found = {i}
      BY <2>1, OneEntryPerBlock
    <2>3. Least(found) = i
      <3>1. i \in Int
        BY EntryTypes
      <3> QED
        BY <2>2, <3>1, LeastOfOne
    <2>4. CASE blocks[i].data = None
      <3>1. LookupIn(blocks, block_id, idx) = None
        BY <2>3, <2>4 DEF LookupIn
      <3>2. block_id \notin {blocks[j].bid : j \in Corrected(blocks)}
        BY <2>2, <2>4 DEF Corrected
      <3> QED
        BY <3>1, <3>2, NoneAssumption DEF CachedIn, LeafCache
    <2>5. CASE blocks[i].data # None /\ blocks[i].data.indices = <<>>
      <3>1. Positions(blocks[i].data.indices, idx) = {}
        BY SMTT(60), <2>5 DEF Positions
      <3>2. LookupIn(blocks, block_id, idx) = None
        BY <2>2, <2>3, <2>5, <3>1 DEF LookupIn, LabelIn
      <3>3. block_id \notin {blocks[j].bid : j \in Corrected(blocks)}
        BY <2>2, <2>5 DEF Corrected
      <3> QED
        BY <3>2, <3>3, NoneAssumption DEF CachedIn, LeafCache
    <2>6. CASE blocks[i].data # None /\ blocks[i].data.indices # <<>>
      <3>1. LookupIn(blocks, block_id, idx) = LabelIn(blocks[i].data, idx)
        BY <2>2, <2>3, <2>6 DEF LookupIn
      <3>2. {j \in Corrected(blocks) : blocks[j].bid = block_id} = {i}
        BY <2>1, <2>2, <2>6 DEF Corrected
      <3>3. block_id \in {blocks[j].bid : j \in Corrected(blocks)}
        BY <2>1, <3>2
      <3>4. /\ block_id \in DOMAIN LeafCache(blocks)
            /\ LeafCache(blocks)[block_id] = BlockCache(blocks[i].data)
        <4>1. i \in Int
          BY EntryTypes
        <4>2. Greatest({j \in Corrected(blocks) : blocks[j].bid = block_id}) = i
          BY <3>2, <4>1, LeastOfOne
        <4> QED
          BY <3>3, <4>2 DEF LeafCache
      <3> QED
        BY <2>6, <3>1, <3>4, BlockAgrees DEF CachedIn
    <2> QED
      BY <2>4, <2>5, <2>6
  <1> QED
    BY <1>1, <1>2

\* What the search finds is the label at a position of the index in the block,
\* None when no block names the index, and a failure for a surplus position.
LEMMA SearchFinds ==
    ASSUME NEW blocks, Delivered(blocks), NEW b, NEW x
    PROVE  LET Position(j) == {p \in 1 .. Len(blocks[j].data.indices) :
                                  blocks[j].data.indices[p] = x}
               found == {j \in 1 .. Len(blocks) :
                            /\ blocks[j].bid = b
                            /\ blocks[j].data # None
                            /\ Position(j) # {}}
           IN  \/ found = {} /\ LookupIn(blocks, b, x) = None
               \/ \E j \in found : \E p \in Position(j) :
                      LookupIn(blocks, b, x) =
                          IF p <= Len(blocks[j].data.labels)
                          THEN blocks[j].data.labels[p] ELSE Failed
  <1> DEFINE Position(j) == {p \in 1 .. Len(blocks[j].data.indices) :
                                blocks[j].data.indices[p] = x}
             found == {j \in 1 .. Len(blocks) :
                          /\ blocks[j].bid = b
                          /\ blocks[j].data # None
                          /\ Position(j) # {}}
             named == {i \in 1 .. Len(blocks) : blocks[i].bid = b}
             n == Least(named)
             d == blocks[n].data
  <1>1. CASE named = {}
    BY <1>1 DEF LookupIn
  <1>2. CASE named # {}
    <2>1. n \in named
      <3>1. named \subseteq Nat
        BY EntryTypes
      <3> HIDE DEF named
      <3> QED
        BY <1>2, <3>1, LeastExists
    <2>2. n \in 1 .. Len(blocks) /\ blocks[n].bid = b
      BY <2>1
    <2> HIDE DEF n
    <2>3. \A j \in named : j = n
      BY <2>2, OneEntryPerBlock
    <2>4. CASE d = None
      <3>1. found = {}
        BY <2>3, <2>4
      <3>2. LookupIn(blocks, b, x) = None
        BY <2>4 DEF LookupIn, n
      <3> QED
        BY <3>1, <3>2
    <2>5. CASE d # None
      <3>1. LookupIn(blocks, b, x) = LabelIn(d, x)
        BY <1>2, <2>5 DEF LookupIn, n
      <3>2. CASE Position(n) = {}
        <4>1. found = {}
          BY <2>3, <3>2
        <4>2. LabelIn(d, x) = None
          BY <3>2 DEF LabelIn, Positions
        <4> QED
          BY <3>1, <4>1, <4>2
      <3>3. CASE Position(n) # {}
        <4> DEFINE p == Least(Position(n))
        <4>1. d.indices \in Seq(Int) /\ d.labels \in Seq(Int)
          BY <2>2, <2>5, ListTypes
        <4>2. Position(n) \subseteq Nat
          BY <4>1
        <4>3. p \in Position(n)
          <5> HIDE DEF Position
          <5> QED
            BY <3>3, <4>2, LeastExists
        <4>4. Positions(d.indices, x) = Position(n)
          BY DEF Positions
        <4>5. p \in Nat /\ Len(d.labels) \in Nat
          BY SMTT(60), <4>1, <4>2, <4>3
        <4> HIDE DEF p
        <4>6. LabelIn(d, x) = IF p <= Len(d.labels) THEN d.labels[p] ELSE Failed
          BY <3>3, <4>4, <4>5 DEF LabelIn, p
        <4>7. n \in found
          BY <2>2, <2>5, <3>3
        <4> QED
          BY <3>1, <4>3, <4>6, <4>7
      <3> QED
        BY <3>2, <3>3
    <2> QED
      BY <2>4, <2>5
  <1> QED
    BY <1>1, <1>2
=============================================================================
