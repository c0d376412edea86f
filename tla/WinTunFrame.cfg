SPECIFICATION MCSpec
CONSTANTS
    NUp = 1
    NDown = 1
    RxCap = 1
    TxCap = 1
    SessLimit = 2
    SockCap = 1
    Handover = {"warm"}
    Sources = {s1}
    Targets = {t1}
    HeaderLen = 2
    BodyLen = 2
    UdpSess = 3
    UdpSock = 1
    UdpRx = 1
    NPackets = 3
    MaxConns = 1
INVARIANTS CacheIsRemaining
CHECK_DEADLOCK FALSE
