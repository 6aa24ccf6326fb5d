CONSTANTS
    None = None
    Failed = Failed
    Trap = Trap
    Modes = {0}
    Names = {"none", "one", "two", "long"}
    Buffers = {1}
    LeafIds = {10, 20}
    BlockIds = {0, 1}
    Indices = {0, 1}
    Usize = 8
    CountsSize = 1
    Files <- LoadedFiles
    Decode <- MCDecode
    RsDecode <- MCDecode
    Crc32 <- MCCrc32
SPECIFICATION Spec
INVARIANTS LoadReturnsZeroOrMinusOne
