SPECIFICATION FairSpec
CONSTANTS
    WND_SND = 1
    WND_RCV = 2
    MTU = 100
    OVERHEAD = 24
    RECV_BUF = 100
    MsgLens = {10}
    MaxFrags <- OneWay
    MaxAcks = 1
    MaxNet = 2
CHECK_DEADLOCK FALSE
PROPERTIES EverythingArrives SenderDrains
