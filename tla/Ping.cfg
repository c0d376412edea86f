SPECIFICATION MCSpec
CONSTANTS
    i1 = i1 i2 = i2
    Ips = {i1, i2}
    MaxAsk = 3
    SockCap = 1
    SessLimit = 2
    NoBypass = {}
    Order <- FirstSecond
    MaxAge = 2
    MaxDown = 1
    InBound = 2
    SendBound = 1
INVARIANT PingAccounted
PROPERTIES PingAnswered PingDecided
CHECK_DEADLOCK FALSE
