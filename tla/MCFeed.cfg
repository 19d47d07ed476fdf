\* A pool of two, mids 1 and 2, three descriptors for two slots, one fault.
CONSTANTS
    WordMod = 6
    Bswap32 <- MCBswap32
    PoolMax = 2
    Tick = 1
    Dists = {1, 2}
    Qtys = {1, 2}
    InitialMid = 2
    MidMoves <- MCMidMoves
    MidMax = 2
    EvolveEvery = 2
    TxSlots = 2
    TxRing = 3
    EvBatch = 1
    Total = 5
    MaxFaults = 1
SPECIFICATION Spec
VIEW MCView
INVARIANT TypeOK
INVARIANT Mirror
INVARIANT NoGhostOrders
INVARIANT WholePacketsApply
INVARIANT ExecutesAtTouch
INVARIANT QuoteMatchesBook
CHECK_DEADLOCK FALSE
