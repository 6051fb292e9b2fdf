SPECIFICATION GuiSpec
CONSTANTS
    db1 = db1
    t1 = t1
    a = a
    b = b
    Handles = {db1}
    Main = db1
    Tables = {t1}
    Texts = {a, b}
    Faults = {"error", "throw", "invalid", "compiler"}
    MaxSnapshots = 3
INVARIANTS CleanBeforeOpen SessionHonest FixesFit SchemaFresh
PROPERTY RequestsAnswered
CHECK_DEADLOCK FALSE
