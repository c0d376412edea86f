SPECIFICATION MCSpec
CONSTANTS
    s1 = s1 s2 = s2 d1 = d1 d2 = d2 i1 = i1 i2 = i2
    Src = {s1, s2}
    Dst = {d1, d2}
    Index = {i1, i2}
    Handover = {"cold", "hello", "warm"}
    MaxQueue = 1
    MaxIn = 2
    SockCap = 1
    SessLimit = 2
    MaxUp = 2
    MaxDown = 2
    Size = 2
    MaxIndex = 5
    Addrs = {"a", "b"}
    MaxMoves = 1
    MaxLookups = 2
INVARIANTS TcpInOrder UdpInName MapsAgree PoolNoneClosed NoLostWakeup
PROPERTIES NothingStuck PoolFollows
CHECK_DEADLOCK FALSE
