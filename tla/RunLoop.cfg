CONSTANTS
    c1 = c1
    Elsewhere = Elsewhere
    Chunk = {c1}
    Mem1Chunk = {c1}
    Reg = {0, 1}
    JitBuild = {TRUE, FALSE}
    IdleLoop = c1
    TimerRatio = 2
    Charge = {0, 2}
    SliceLength = {3}
    MaxHooks = 1
    MaxTime = 3
SPECIFICATION Spec
INVARIANTS
    TypeOK
    StateResident
    CyclesConserved
    NativeEntrySound
PROPERTIES
    InterpreterOnlyUncovered
    SliceEnds
