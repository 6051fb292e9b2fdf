SPECIFICATION Spec
CONSTANTS
    MaxPages = 2
    Capacity = 4
    Sizes = {1, 3}
    MaxGeneration = 2
    MaxCursors = 1
    MaxBatch = 2
    Configs <- MCConfigs
INVARIANTS PagesInitialized BatchIsPrefix ScansComplete
PROPERTY ImplementsRecordStore
CHECK_DEADLOCK FALSE
