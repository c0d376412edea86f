SPECIFICATION MCSpec
CONSTANTS
    left = left mid = mid right = right
    Ips = {left, mid, right}
    PingIps = {i1, i2}
    Order <- Parted
    NoBypass = {mid}
    Ages = {0, 2}
    Ageing = {left}
    MaxDown = 2
    Clients = {c1, c2}
    BadIp = bad
    NAsks = 2
INVARIANTS AsksAnswered ProfilerGoesOn
PROPERTY LostIsAskedAgain
CHECK_DEADLOCK FALSE
