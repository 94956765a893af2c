CONSTANTS
    Directories <- MCDirectories
    OptionSets <- MCOptions
    PoolSizes = {0, 2}
SPECIFICATION FairSpec
INVARIANTS TasksInScope  PriorIsOpen
PROPERTY Completes
