CONSTANTS
    NoLoc = NoLoc
    Loc = {"mem1", "mem2"}
    Journaled = {"mem1"}
    Modulus = 4
    Half = 2
    Block = {"a", "b"}
    Whitelist = {"b"}
    Start = 0
    StepCap = 2
    Grace = 0
    Charge = {0, 1}
    MaxBlocks = 2
    MaxBlockLen = 2
SPECIFICATION LockstepSpec
INVARIANT NativeKept
CHECK_DEADLOCK FALSE
