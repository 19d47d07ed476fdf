\* Four buffers asked for, three posted; polls of at most two events.
CONSTANTS
    RxqCapacity = 4
    RingCap = 3
    MaxEvents = 2
    MaxFrames = 6
SPECIFICATION Spec
INVARIANT TypeOK
INVARIANT BuffersAccounted
INVARIANT NotOverwrittenBeforeRead
INVARIANT DeliveredInOrder
PROPERTY EveryFrameDelivered
