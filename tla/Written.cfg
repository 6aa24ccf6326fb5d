CONSTANTS
    None = None
    Predictions = {None}
    MaxSize = 0
    IntBits = 10
    RankBits = 11
    Undefined = Undefined
    Failed = Failed
    Leaves <- WrittenLeaves
    Uvarint <- MCUvarint
    Comb <- MCComb
    FromBytes <- MCFromBytes
SPECIFICATION Spec
INVARIANTS RoundTrip JsReadsWritten RustReadsWritten
