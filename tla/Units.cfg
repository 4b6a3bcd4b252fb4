CONSTANTS
    e1 = e1
    e2 = e2
    e3 = e3
    NoId = NoId
    Capacity = 2
    Id = {e1, e2, e3}
    Delay = {0, 3}
    Period = {0, 2}
    Work = {1, 3}
    MaxNow = 4

    MaxJobs = 3
    MaxRequested = 3

    cb1 = cb1
    cb2 = cb2
    g1 = g1
    g2 = g2
    NoCallback = NoCallback
    RingSize = 3
    Callback = {cb1, cb2}
    GuestContext = {g1, g2}

    n1 = n1
    n2 = n2
    NoName = NoName
    Name = {n1, n2}
    Slot = {1, 2}
    Body = {"ff", "d"}
    Erased = "ff"
    Blocks = {1, 2}
    UserBlocks = 2

    c1 = c1
    c2 = c2
    c3 = c3
    NoContext = NoContext
    Context = {c1, c2, c3}
    NotPreempted = NotPreempted
    Lane = {"a", "b"}
    CacheCapacity = 2
    MaxAge = 3

    mem1 = mem1
    NoLoc = NoLoc
    Loc = {mem1}
    Journaled = {mem1}
    Modulus = 4
    Half = 2
    a = a
    b = b
    Block = {a, b}
    Whitelist = {b}
    Start = 0
    StepCap = 2
    Grace = 0
    Charge = {0, 1}
    MaxBlocks = 2
    MaxBlockLen = 2
SPECIFICATION UnitsSpec
INVARIANTS
    CacheExact
    OneSlotPerId
    OneWriterPerChunk
    VerdictExact
    NoWorkerOutlives
    RingIsQueue
    ContextKept
    DirectoryOK
    CacheOwn
    RecentKept
    NativeKept
    NoFalseAlarm
    CleanAgrees
PROPERTIES
    BehavesAsQueue
    PoolEnds
    CardDurable
CHECK_DEADLOCK FALSE
