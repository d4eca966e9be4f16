SPECIFICATION Spec
CONSTANTS
    WND_SND = 2
    WND_RCV = 3
    MTU = 100
    OVERHEAD = 24
    RECV_BUF = 200
    MsgLens = {10, 80}
    MaxFrags <- OneWay
    MaxAcks = 2
    MaxNet = 2
CHECK_DEADLOCK FALSE
INVARIANTS TypeOK InOrder   
PROPERTIES ReliableStreamSpec
