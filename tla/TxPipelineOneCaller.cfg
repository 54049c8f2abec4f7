CONSTANTS
    c1 = c1
    c2 = c2
    o1 = o1
    o2 = o2
    NoObject = NoObject
    Callers <- MCOneCaller
    Objects <- MCTwoObjects
    Chain = 1
    ChainIds = {0, 2}
    Fees = {1, 2}
    MaxWaits = 3
    MaxJobs = 2
SPECIFICATION FairSpec
PROPERTIES
    CallsEnd
    ReturnedIsMined
