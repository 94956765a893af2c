SPECIFICATION Spec
CONSTANTS
    Images <- MCImages
    Qualities <- MCQualities
    MaxError = 2
    PartLines = 2
INVARIANTS
    TypeOK
    FileIsRight
    RightBlocksRedone
PROPERTIES
    WrittenOnce
    UsesForkJoin
