SPECIFICATION MCSpec
CONSTANTS
    Kinds = {"socket", "domain", "private", "back", "pass", "bad", "udp", "ping"}
    HeadLen = 2
    HttpLen = 2
    NUp = 5
    NDown = 2
    MaxTries = 2
    IdleTicks = 1
    Targets = {t1, t2}
    Privates = {t2}
    NPackets = 2
    ChanCap = 1
    MaxExtra = 2
    MaxPacketSize = 2
    Lengths = {0, 2, 3}
    NFrames = 2
INVARIANTS PacketsInOrder HoleFollowsRequests ReadsBack
PROPERTIES RelayIsPipes TasksEnd
CHECK_DEADLOCK FALSE
