SPECIFICATION TextSpec
CONSTANTS
    Texts <- MCTexts
    MaxSqlBytes = 6
    MaxVarcharBytes = 2
    MaxIdentifierBytes = 2
    MaxIntegerDigits = 2
    MaxDoubleDigits = 3
    MaxStatements = 2
INVARIANTS SplitFollowsLexer RangesLocated
CHECK_DEADLOCK FALSE
