\* Words of two bits; ids, prices and quantities as MCOrderBook's header says.
CONSTANTS
    WordMod = 4
    Bswap32 <- MCBswap32
    Packets <- MCPackets
    Payloads <- MCPayloads
    Ids = {1, 2}
    DeepId = 3
    Prices = {1, 2}
    Quantities = {0, 1, 3}
SPECIFICATION Spec
VIEW MCView
INVARIANT TypeOK
INVARIANT LevelsMatchOrders
INVARIANT NoPhantomLevel
INVARIANT TopOfBook
INVARIANT ChartFits
PROPERTY ImplementsAbstractBook
