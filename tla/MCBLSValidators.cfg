CONSTANTS
    k1 = k1
    k2 = k2
    k3 = k3
    OffCurve = OffCurve
    Keys <- MCKeys
    MaxValidators = 4
    MaxSeeded = 2
    MaxMultiplicity = 4
    MaxNamed = 5
SPECIFICATION Spec
SYMMETRY KeySymmetry
INVARIANTS
    TypeOK
    AggregateMatches
    NegateAgrees
PROPERTY MalformedFirstKeyBlocks
