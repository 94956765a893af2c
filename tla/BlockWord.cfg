CONSTANTS
    Colours <- MCColours
    THBlocks <- MCTHBlocks
    IndexSets <- MCIndexSets
    Modifiers <- MCModifiers
    Corners <- MCCorners
    AlphaBlocks <- MCAlphaBlocks
    DxtBlocks <- MCDxtBlocks
SPECIFICATION Spec
INVARIANTS ModeRecognised PixelsAsPainted AlphaWithinStep
