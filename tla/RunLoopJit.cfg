CONSTANTS
    c1 = c1
    Elsewhere = Elsewhere
    Chunk = {c1}
    Mem1Chunk = {c1}
    Reg = {0, 1}
    JitBuild = {TRUE}
    IdleLoop = c1
    TimerRatio = 2
    Charge = {0, 2}
    SliceLength = {2}
    MaxHooks = 1
    MaxTime = 2
SPECIFICATION Spec
PROPERTY FallbackOnlyUncovered
