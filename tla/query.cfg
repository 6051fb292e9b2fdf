SPECIFICATION QuerySpec
CONSTANTS
    MaxExpressionDepth = 11
    Scale = 6
    MaxSlotId = 100
    MaxPlanDepth = 11
    MaxQueryRows = 3
    MaxBigInt = 3
    MaxDouble = 18
    MaxLongDouble = 36
    MaxExpressionComplexity = 11
    NearMiss <- MCNearMiss
    Damaged <- MCDamaged
    Catalog <- MCCatalog
    Statements <- MCStatements
    Contents <- MCContents
INVARIANTS ReadAsWritten FixItsAdvance CompiledRuns QueriesFollowSql ChangesFollowSql
CHECK_DEADLOCK FALSE
