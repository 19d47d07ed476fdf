\* Five packets through TX and RX rings of two.
CONSTANTS
    Total = 5
    TxRing = 2
    EvBatch = 1
    RxBufs = 2
    MaxEvents = 1
SPECIFICATION Spec
INVARIANT TypeOK
INVARIANT FramesAccounted
INVARIANT ReportIsFinal
PROPERTY RigEnds
CHECK_DEADLOCK FALSE
