SPECIFICATION FairSpec
CONSTANTS
    Images <- MCImages
    Lines = 2
INVARIANTS
    TypeOK
    ReadsAreSafe
    SleeperWillBeWoken
    PartsMatchDone
    WritesAreSafe
PROPERTY ProviderFinishes
