CONSTANTS
  TableIds = {t2, t3}
  Names = {a, b}
  Schemas <- MCSchemas
  MaxLeftover = 1
  Scenarios <- MCScenarios
  None = None
SYMMETRY Symmetry
SPECIFICATION Spec
INVARIANTS
  FailClosed
  ReopenShowsCreated
  CatalogAgrees
CHECK_DEADLOCK FALSE
