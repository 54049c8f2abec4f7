CONSTANTS
    NoBuffer = NoBuffer
    LeafHashes <- MCLeafHashes
    Salts <- MCSalts
    MaxLeaves = 5
    MaxBatches = 2
    Operations = {"flush", "retract", "copy", "write"}
SPECIFICATION Spec
CHECK_DEADLOCK FALSE
INVARIANTS
    TypeOK
    StraightPathsSurvive
    RootRemembers
    RoundTripKeepsRoot
PROPERTIES
    RetractedToLast
