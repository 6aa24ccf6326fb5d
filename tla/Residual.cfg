CONSTANTS
    None = None
    Failed = Failed
    Modes = {0, 1}
    Names = {"none", "one", "two", "long"}
    BlockIds = {0, 1, 2}
    Indices = {0, 1, 2}
    CountsSize = 1
    Files <- WrittenFiles
    Damaged <- MCDamaged
    Decode <- MCDecode
    JsDecode <- MCDecode
    Undefined = Undefined
    Crc32 <- MCCrc32
    Meant <- MCMeant
SPECIFICATION Spec
INVARIANTS TypeOK LastEntryWins ChecksummedStreamsIntact CacheAnswersLikeLookup CacheAllOrNothing ReadsBack JsAnswersLikePython
