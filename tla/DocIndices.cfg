CONSTANTS
    None = None
    Predictions = {0}
    MaxSize = 4
    IntBits = 10
    RankBits = 11
    Undefined = Undefined
    Failed = Failed
    Leaves <- ArbitraryLeaves
    Uvarint <- MCUvarint
    Comb <- MCComb
    FromBytes <- MCFromBytes
SPECIFICATION Spec
INVARIANTS IndicesWithinBlock
