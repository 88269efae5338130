SPECIFICATION Spec
CONSTANTS
    KernelParts = {"timer", "rate", "pps", "conv", "uio", "heap", "sb", "sized", "pool", "start", "port",
                   "input", "zc", "veth", "pcap"}
    Usec = 6
    Hz = 2
    Tick = 3
    LongMax = 63
    IntMax = 31
    TickMod = 8
    MaxTimer = 1
    MaxSec = 34
    MaxElapsed = 30
    MaxAge = 6
    MaxCalls = 4
    Limits <- MCLimits
    SubrIntMax = 7
    MaxIov = 3
    IovLens = {0, 1, 3, 8}
    MaxMove = 3
    Blocks = {b1, b2, b3}
    MaxRefs = 3
    Bufs = {s1, s2, s3}
    Sizes = {1, 2, 4}
    SbLimit = 5
    MaxElements = 9
    Primes <- MCPrimes
    Gids = {1, 2, 3, 4, 5}
    MaxGroups = 5
    PageStart = 8
    PageSize = 4
    NbPages = 4
    Phy <- MCPhy
    MaxMapped = 1
    NoPage = NoPage
    Linked <- MCLinked
    ModuleSets <- MCModuleSets
    Subsystem <- MCSubsystem
    Order <- MCOrder
    PortList <- MCPortList
    Slaves <- MCSlaves
    LcoreList <- MCLcoreList
    KeySize <- MCKeySize
    RetaSize <- MCRetaSize
    Capa <- MCCapa
    DescLim <- MCDescLim
    HashKey <- MCHashKey
    HashBits = 4
    GroupSize = 4
    QueueSize = 8
    PortConfigs <- MCPortConfigs
    ProcLcore <- MCProcLcore
    SocketOf <- MCSocketOf
    MaxPktBurst = 1
    CacheSize = 1
    DispatchSize = 1
    PoolAlign = 2
    Flows <- MCFlows
    MaxCheckTime = 3
    Segs <- MCSegs
    ClusterSizes = {2, 3}
    ZcLengths = {0, 1, 2, 4, 6}
    Vips <- MCVips
    Vips6 <- MCVips6
    PrefixLens = {0, 3, 4, 8}
    ByteBits = 4
    AddrBits = 8
    DefaultPrefix = 5
    SnapLen = 3
    SaveLen = 12
    NbFiles = 3
    FileHdr = 2
    PktHdr = 2
    Frames <- MCFrames
    MaxFrames = 8
INVARIANTS
    NoDrift
    RateLimited
    AlgorithmsExact
    BytesInOrder
    HeapHeld
    SbCharged
    PagesConserved
    DataWherePageIs
    StartedOnce
    FlowsDelivered
    PortsConfigured
    SegmentsOnce
    AddressesSet
    CapturesReadable
CHECK_DEADLOCK FALSE
