CONSTANTS
    Models <- AllModels
    Vectors <- AllVectors
    Runtimes = {"python", "js"}
SPECIFICATION FairSpec
INVARIANTS TypeOK OrderedNeverRaises RegionAnswers
PROPERTIES EndsOnOrdered
