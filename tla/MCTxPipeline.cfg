CONSTANTS
    c1 = c1
    c2 = c2
    o1 = o1
    o2 = o2
    NoObject = NoObject
    Callers <- MCTwoCallers
    Objects <- MCOneObject
    Chain = 1
    ChainIds = {0}
    Fees = {1, 2}
    MaxWaits = 1
    MaxJobs = 3
SPECIFICATION Spec
SYMMETRY MCCallerSymmetry
INVARIANTS
    TypeOK
    ReturnedIsKnown
    NoNonceGap
    OwnNoncesDiffer
    ExecutedOnce
