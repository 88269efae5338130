SPECIFICATION SafeSpec
CONSTANTS
    Msgs = {m1, m2}
    Procs = {p1}
    Types = {1, 2}
    MaxBurst = 2
    RingCap = 1
    Unknown = TRUE
INVARIANT RequestsFromOthers
