SPECIFICATION ForecastSpec
CONSTANTS
    Lags = {1, 3}
    Windows = {2, 3}
    PriceWindow = 3
    Horizon = 2
    Predictions <- MCPredictions
    NQuantiles = 1
    MonthLengths = {31}
    NaN = NaN
    MaxSeries = 2
    MaxDays = 5
    MaxSaleDays = 3
    Totals <- MCTotals
    LastDates <- MCLastDates
    DaysOfWeek = 3
    Deviations = {1}
    min_history_days = 3
    lead_time_days = 1
INVARIANTS
    FeaturesMatchTraining
    SteadyPricesMatchTraining
    SeriesAreAligned
    OrdersCoverForecasts
    WeeklyPatternsContinue
CHECK_DEADLOCK FALSE
