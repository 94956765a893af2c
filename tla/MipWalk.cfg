CONSTANTS
    Sizes <- MCSizes
    WalkSizes <- MCWalkSizes
    LineCounts = {1, 2, 3, 32}
SPECIFICATION WalkSpec
INVARIANTS ChainEndsAtOne PermitsSuffice WalksInBounds RegularLevelsRight
