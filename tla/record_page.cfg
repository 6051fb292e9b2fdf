SPECIFICATION Spec
CONSTANTS
    PageSize = 7
    HeaderSize = 1
    EntrySize = 1
    SlotRange = 6
    MaxGeneration = 3
    MaxPayload = 3
    PageId = 1
    Data = {a, b}
INVARIANTS FinalChecksPass NoResidue
PROPERTY ImplementsRecordStore
SYMMETRY DataSymmetry
CHECK_DEADLOCK FALSE
