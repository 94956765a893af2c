SPECIFICATION Spec
CONSTANTS
    Images <- MCNarrowImages
    Lines = 2
INVARIANT LevelsDisjoint
