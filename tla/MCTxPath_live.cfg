SPECIFICATION Spec
CONSTANTS
    a = a
    b = b
    c = c
    d = d
    e = e
    NULL = NULL
    Response = Response
    Pkts <- TwoPkts
    Segs <- MixedSegs
    MaxBurst = 2
    TxSize = 2
    NicSize = 2
    AllocFails = TRUE
    Responses = TRUE
PROPERTY QueuedIsSent
