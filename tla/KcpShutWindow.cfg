SPECIFICATION Spec
CONSTANTS
    WND_SND = 2
    WND_RCV = 2
    MTU = 100
    OVERHEAD = 24
    RECV_BUF = 200
    MsgLens = {10}
    MaxFrags <- ShutWindow
    MaxAcks = 1
    MaxNet = 2
CHECK_DEADLOCK FALSE
INVARIANTS NoSegmentAbandoned BuffersBounded NothingDeliverableHeld
