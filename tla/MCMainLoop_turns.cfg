SPECIFICATION LoopSpec
CONSTANTS
    c1 = c1
    c2 = c2
    NULL = NULL
    Callouts <- TwoCallouts
    WheelSize = 2
    TickMod = 4
    ToTicks = {1, 2}
    DirectFlags = {FALSE}
    SelfDrain = FALSE
    Msgs = {m1, m2, m3}
    Procs = {p1, p2}
    Types = {1, 2}
    MaxBurst = 2
    RingCap = 2
    Unknown = FALSE
INVARIANTS MsgInvariant PoolHasOwnBuffers
PROPERTIES RequestHandled EveryCalloutServed TickEnds
