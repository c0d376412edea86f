SPECIFICATION MCSpec
CONSTANTS
    NUp = 4
    NDown = 2
    RxCap = 1
    TxCap = 1
    SessLimit = 2
    SockCap = 1
    Handover = {"warm", "hello", "cold"}
    Sources = {s1, s2}
    Targets = {t1, t2}
    HeaderLen = 1
    BodyLen = 1
    UdpSess = 2
    UdpSock = 1
    UdpRx = 1
    NPackets = 2
    MaxConns = 2
INVARIANTS NoStaleHandle NoStall SocketsInUse
PROPERTIES RelayIsPipes ClosedIsRemoved
CHECK_DEADLOCK FALSE
