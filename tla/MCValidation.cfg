SPECIFICATION ValidationSpec
CONSTANTS
    NoName = NoName
    Headers <- MCHeaders
    Canonical <- MCCanonical
    Required = {"quantity"}
    Meaning <- MCMeaning
    MaxColumns = 4
    Contents <- MCContents
    Defects <- MCDefects
    MaxRows = 3
    max_columns = 3
    MaxLen = 4
INVARIANTS
    FirstMatchWins
    ClashesComeFromLiterals
    CountsAreFirstOffences
    CleanRowsAreKept
CHECK_DEADLOCK FALSE
