SPECIFICATION TextSpec
CONSTANTS
    Texts <- MCLoneCr
    MaxSqlBytes = 5
    MaxVarcharBytes = 2
    MaxIdentifierBytes = 2
    MaxIntegerDigits = 2
    MaxDoubleDigits = 3
    MaxStatements = 2
INVARIANT LoneCrTakesColumn
CHECK_DEADLOCK FALSE
