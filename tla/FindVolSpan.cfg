\* Five observations through a window of two returns.
CONSTANTS
    Window = 2
    LogPrices = {0, 1, 3}
    TimeSteps = {0, 1, 2}
    MaxObs = 5
SPECIFICATION VolSpec
INVARIANT AnnualizedOverWindow
CHECK_DEADLOCK FALSE
