CONSTANTS
    P = 43
    CURVE_B = 7
    GX = 2
    GY = 12
    Order = 31
    B32Max = 50
    Keys = {0, 1, 12, 30, 31, 45}
    Tweaks = {0, 1, 7, 30, 31, 40}
    Msgs = {3, 40}
    Rs = {0, 1, 4, 7, 9, 11, 13, 21, 30, 31, 42}
    Ss = {0, 1, 2, 8, 15, 16, 30, 31, 44}
SPECIFICATION BindingSpec
INVARIANTS KeyPairsStayPairs SignedVerifies RecoveryIsExact EncodingsNameKeys
           BindingNeverPanics
CHECK_DEADLOCK FALSE
