CONSTANTS
    P = 43
    CURVE_B = 7
    GX = 2
    GY = 12
    Order = 31
    Beta = 6
    Lambda = 5
    Logs = {0, 1, 6}
    Zs = {1, 3}
    ScalarBits = 5
    HalfBits = 3
    WINDOW_A = 3
    WINDOW_G = 4
    GenRows = 3
    GenBits = 2
    MinusB1 = 1
    B2 = 5
    NumsX = 38
    Blinds = {1, 7, 19}
SPECIFICATION Spec
INVARIANTS AccIsMultiple MagnitudesHold PointReadsAgree BlindingCancels RecodingsExact
CHECK_DEADLOCK FALSE
