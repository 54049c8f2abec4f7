CONSTANTS
    Selectors <- MCSelectors
    Addresses <- MCAddresses
    Keys <- MCKeys
    Signatures <- MCSignatures
    Hashes <- MCHashes
    IndexLists <- MCIndexLists
    Proofs <- MCProofs
    Quantities <- MCQuantities
    Contract <- MCContract
    Populations <- MCPopulations
    Secp <- MCSecp
    TooLarge = 2147483647
SPECIFICATION Spec
CHECK_DEADLOCK FALSE
INVARIANTS
    TypeOK
    ArgumentsArrive
    SignedIsSent
    HashesAgree
