CONSTANTS
    LeafHashes <- MCLeafHashes
    Salts <- MCSalts
    Begun <- MCBegun
    Lengths <- MCLengths
    MaxBatches = 3
SPECIFICATION Spec
INVARIANTS
    TypeOK
    StackCompletes
    PairsSorted
    ProofsConvinceContract
    PastOfStraightTree
