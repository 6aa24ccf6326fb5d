CONSTANTS
    None = None
    Predictions = {None, 0}
    MaxSize = 5
    IntBits = 10
    RankBits = 11
    Undefined = Undefined
    Failed = Failed
    Leaves <- ArbitraryLeaves
    Uvarint <- MCUvarint
    Comb <- MCComb
    FromBytes <- MCFromBytes
SPECIFICATION FairSpec
INVARIANTS TypeOK BlocksInOrder AscendingIndices IndicesInBlock CountsAgree CorrectionsDiffer CorrectionsInLeaf IInv JsAgrees RustAgrees
PROPERTIES Termination DeliversBlocks
