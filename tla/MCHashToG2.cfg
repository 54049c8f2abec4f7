CONSTANTS
    CURVE_ORDER_FACTOR = 5
    FIELD_MODULUS <- MCFieldModulus
    TWISTB <- MCTwistB
    FROBENIUS_COEFF_X <- MCFrobeniusX
    FROBENIUS_COEFF_Y <- MCFrobeniusY
    Calls <- MCCalls
    WordBytes = 2
    SpareBits = 1
SPECIFICATION Spec
CHECK_DEADLOCK FALSE
INVARIANTS
    TypeOK
    SearchInOrder
    LoopKeepsProduct
    HashInSubgroup
    AnswersRight
PROPERTY CallEnds
