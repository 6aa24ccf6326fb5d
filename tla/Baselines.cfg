CONSTANTS
    None = None
    MaxCount = 5
    MaxTotal = 7
    FloatBits = 2
    FloatLimit = 163
    Calls <- AllCalls
SPECIFICATION FairSpec
INVARIANTS TypeOK RankDecides OptimalPrefixCode BeatsEveryPrefixCode BaselineOrder
PROPERTIES Termination
