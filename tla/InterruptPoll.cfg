CONSTANTS
    c1 = c1
    vb = vb
    Capacity = 1
    Id = {vb}
    NoId = NoId
    Delay = {}
    Period = {}
    Work = {}
    MaxNow = 0
    NoContext = NoContext
    Context = {c1}
    NotPreempted = NotPreempted
    Lane = {"a"}
    CacheCapacity = 1
    MaxAge = 1
    Retrace = vb
    Interval = 3
    FrameUnits = 2
    Channel = {1, 2}
    Port = {"EXI"}
    ChunkUnits = {1}
    Blocks = {1}
    Masks <- MCMasks
    SiMasks <- MCSiMasks
    MaxBlocks = 6
SPECIFICATION Spec
INVARIANTS
    PollTypeOK
    CadenceExact
    CauseFollowsLines
PROPERTIES
    DeliveryJustified
    PollReturns
