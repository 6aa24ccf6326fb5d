CONSTANTS
    None = None
    Predictions = {None}
    MaxSize = 0
    IntBits = 10
    RankBits = 10
    Undefined = Undefined
    Failed = Failed
    Leaves <- WrittenLeaves
    Uvarint <- MCUvarint
    Comb <- MCComb
    FromBytes <- MCFromBytes
SPECIFICATION Spec
INVARIANTS RustReadsWritten
