SPECIFICATION SafeSpec
CONSTANTS
    a = a
    b = b
    c = c
    d = d
    e = e
    NULL = NULL
    Response = Response
    Pkts <- FivePkts
    Segs <- MixedSegs
    MaxBurst = 2
    TxSize = 4
    NicSize = 4
    AllocFails = FALSE
    Responses = FALSE
INVARIANTS OneOwner SentBeforeFree
