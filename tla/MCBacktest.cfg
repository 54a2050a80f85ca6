SPECIFICATION BacktestSpec
CONSTANTS
    MaxHorizon = 9
    backtest_windows = 2
    MaxDays = 40
INVARIANTS
    TwoDaysAreEnough
    WindowsAreHeldOut
CHECK_DEADLOCK FALSE
