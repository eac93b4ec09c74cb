SPECIFICATION Spec
CONSTANTS
    Builds <- MCBuilds
    Seeds <- MCSeeds
    MaxSteps = 3
INVARIANTS ComputesModP WithinMagnitude NormalisationsAgree ReadsCanonical ChainsReachExponents
CHECK_DEADLOCK FALSE
