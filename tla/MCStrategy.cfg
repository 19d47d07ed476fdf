\* Two warm-up frames, two measured ones, one more than is wanted.
CONSTANTS
    WordMod = 16
    Bswap32 <- MCBswap32
    Count = 2
    Warmup = 2
    Epoch = 7
    Steps = {2, 9}
    Ulp = 2
    TscNum = 3
    TscDen = 2
    Unit = 2
    QuoteQty = 3
    Theos = {1, 4, 5, 6}
    MaxFrames = 5
SPECIFICATION Spec
INVARIANT TypeOK
INVARIANT SamplesTally
INVARIANT NicGapsTrue
INVARIANT QuoteTracksTheo
INVARIANT QuoteStraddlesTheo
CHECK_DEADLOCK FALSE
