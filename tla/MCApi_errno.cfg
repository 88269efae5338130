SPECIFICATION Spec
CONSTANTS
    Parts = {"file"}
    Fds = {0, 1, 2}
    Files = {f1, f2}
    NoFile = NoFile
    Addrs = {5}
    Controls <- MCControls
    Deliveries <- MCDeliveries
    Errors = {11, 35}
    StaleErrnos = {0}
    IntMax = 7
    Lengths = {0, 1, 7, 8}
    KqNevents = 2
    MaxKevents = 3
    MaxOptions = 1
    Bits = 2
    NoSa = NoSa
    RoundUnits = 8
    Requests <- MCRequests
    MaxLens = {28, 64}
    LoFamilies = {"inet"}
    IfaNet = {1}
    LoNet = {}
    MaxRoutes = 3
    InitRib <- MCInitRib
INVARIANT ErrnoSet
