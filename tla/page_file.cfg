SPECIFICATION Spec
CONSTANTS
    MaxPage = 4
    Values = {v1, v2}
    Zero = Zero
    Torn = Torn
    Partial = Partial
    Absent = Absent
    Unknown = Unknown
INVARIANTS DiskSound OwnedContent MemoryMatchesFile
SYMMETRY ValueSymmetry
CHECK_DEADLOCK FALSE
