\* One warm-up round, three samples, no fault.
CONSTANTS
    Warmup = 1
    NSamples = 3
    Durations = {1, 2, 5}
    MaxFaults = 0
SPECIFICATION Spec
INVARIANT PlotAfterCompute
CHECK_DEADLOCK FALSE
