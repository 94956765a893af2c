CONSTANTS
    Ranges <- MCRanges
    Extremes <- MCExtremes
    CmpErrors = {0, 1, 2}
    OwnErrors = {3, 4, 5}
    MaxError = 3
    errorThreshold = 4
SPECIFICATION ChoiceSpec
INVARIANT HybridBestWithoutHeuristics
