SPECIFICATION Spec
CONSTANTS
    Mbufs = {m1, m2, m3}
    NbQueues = 2
    MaxFrames = 2
    Arp = {2}
    MaxBurst = 2
    RingCap = 1
    RxSize = 2
    HasDispatcher = TRUE
INVARIANTS RxInvariant InOrder ArpShared
PROPERTY DispatchedArrives
