\* The documented promise, with three descriptors for two slots.
CONSTANTS
    TxSlots = 2
    MaxPayload = 3
    MinData = 2
    Lengths = {1, 3, 4}
    TxRing = 3
    EvBatch = 2
    IdMod = 4
    MaxCalls = 7
SPECIFICATION TxSpec
INVARIANT NeverOverwritesInFlight
