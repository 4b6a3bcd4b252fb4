CONSTANTS
    c1 = c1
    Elsewhere = Elsewhere
    Chunk = {c1}
    Mem1Chunk = {c1}
    Reg = {0, 1}
    JitBuild = {FALSE}
    IdleLoop = c1
    TimerRatio = 2
    Charge = {4}
    SliceLength = {6}
    MaxHooks = 1
    MaxTime = 2
SPECIFICATION Spec
INVARIANT TimeBaseMatches
