CONSTANTS
    None = None
    MaxK = 4
    His = {0, 1, 2, 5, 31, 32, 33, 34, 35, 36, 45}
    ScanLimit = 32
    Calls <- UnrankCalls
    Comb <- MCComb
SPECIFICATION FairSpec
INVARIANTS Bracketed FindsLargest
PROPERTIES Termination
