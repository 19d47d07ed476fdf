\* Two RX buffers, two warm-up iterations, three measured ones,
\* the clocks fitted before each second one.
CONSTANTS
    NRxBufs = 2
    Warmup = 2
    Iters = 3
    CalPeriod = 2
    CalSamples = 3
    MinFit = 2
    MaxHouse = 2
SPECIFICATION Spec
INVARIANT TypeOK
INVARIANT SamplesUnmixed
INVARIANT CountsTally
INVARIANT SpinsOnNextBuffer
PROPERTY RunEnds
CHECK_DEADLOCK FALSE
