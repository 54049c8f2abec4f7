CONSTANTS
    LeafHashes <- MCLeafHashes
    Salts <- MCSalts
    Begun <- MCEmpty
    Lengths = {0, 1, 2, 3}
    MaxBatches = 2
SPECIFICATION Spec
INVARIANT IncrementalPathsVerify
