CONSTANTS
    k1 = k1
    k2 = k2
    k3 = k3
    c1 = c1
    c2 = c2
    OffCurve = OffCurve
    Keys <- MCKeys
    Clients <- MCClients
    MaxValidators = 3
    MaxSeeded = 0
    MaxMultiplicity = 3
    MaxNodes = 2
    MaxPending = 1
SPECIFICATION Spec
SYMMETRY MCSymmetry
INVARIANTS
    TypeOK
PROPERTIES
    ImplementsSignedRegistry
