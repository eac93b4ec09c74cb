SPECIFICATION Spec
CONSTANTS
    W = 3
    NC0 = 3
    NC1 = 1
    Lambda = 2208
    MinusB1 = 51
    B2 = 20
    SplitShift = 15
    Operands = {1, 63, 2010, 4020}
    Shifts = {13, 18}
INVARIANTS ComputesModOrder LimbReadsAgree SplitIsShort InverseChainExact
