SPECIFICATION CustomersSpec
CONSTANTS
    NaN = NaN
    MaxCustomers = 4
    Frequencies = {0, 1, 2}
    NumbersOfSegments = {2, 3}
    Values <- MCValues
    Purchases = {0, 1}
    RECORDS_PREVIEW_LIMIT = 3
INVARIANTS
    BandsAreMonotonicAndEven
    AtRiskAreTheMostValuable
    SummaryAddsUp
    StoredResultsAreWhole
CHECK_DEADLOCK FALSE
