SPECIFICATION CliSpec
CONSTANTS
    Handles = {h1, h2, h3}
    Others = {h2, h3}
    Session = h1
    tab1 = tab1
    Tables = {tab1}
    Faults = {"error", "throw", "invalid", "compiler", "malformed", "analysis"}
    Scripts <- MCScripts
    Policies <- MCPolicies
    BatchRows = 2
    MaxRows = 3
    MaxQueryRows = 1
INVARIANTS SlotOwned CatalogMatchesStorage OutcomesTruthful CursorsReleased ExitTruthful
SYMMETRY Symmetry
CHECK_DEADLOCK FALSE
