\* One warm-up round, three samples, two faults.
CONSTANTS
    Warmup = 1
    NSamples = 3
    Durations = {1, 2, 5}
    MaxFaults = 2
SPECIFICATION Spec
INVARIANT TypeOK
INVARIANT SamplesOwnRoundTrip
INVARIANT ReportTrue
PROPERTY PingEnds
CHECK_DEADLOCK FALSE
