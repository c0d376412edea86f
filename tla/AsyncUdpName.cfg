SPECIFICATION MCSpec
CONSTANTS
    Srcs = {s1}
    Dsts = {d1, d2}
    NConns = 1
    QCap = 1
    NoticeCap = 1
    Sources = {s1}
    Targets = {d1}
    ChanCap = 1
    DataCap = 1
    CloseCap = 1
    NPackets = 1
    NAnswers = 1
    MaxSocks = 1
    MaxConns = 1
INVARIANT AnsweredInName
CHECK_DEADLOCK FALSE
