SPECIFICATION MCSpec
CONSTANTS
    Srcs = {s1, s2}
    Dsts = {d1}
    NConns = 2
    QCap = 1
    NoticeCap = 3
    Sources = {s1}
    Targets = {d1}
    ChanCap = 1
    DataCap = 1
    CloseCap = 1
    NPackets = 3
    NAnswers = 1
    MaxSocks = 2
    MaxConns = 2
INVARIANTS NoticesAreCurrent SocketsCached
PROPERTIES LoopsUnblock DeadAreForgotten
CHECK_DEADLOCK FALSE
