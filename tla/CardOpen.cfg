CONSTANTS
    NoName = NoName
    Name = {"n1", "n2"}
    Slot = {1, 2}
    Body = {"ff", "d"}
    Erased = "ff"
    Blocks = {1, 2}
    UserBlocks = 2
SPECIFICATION CardSpec
PROPERTY OpeningKeepsContainer
CHECK_DEADLOCK FALSE
