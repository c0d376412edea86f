SPECIFICATION DSpec
CONSTANTS
    Sources = {s1, s2}
    NSyns = 3
    NBytes = 2
    RxCap = 1
    TxCap = 1
    ChanCap = 1
    RespCap = 1
SYMMETRY SourcesAlike
INVARIANT SenderFound
CHECK_DEADLOCK FALSE
