CONSTANTS
    a = a
    b = b
    c1 = c1
    c2 = c2
    Threads = {s1, u}
    Selectors = {s1}
    Channels = {a, b, c1, c2}
    Capacity <- OneEach
    Selects <- TwoSelects
    Program <- TwoProgram
    MaxSends = 0
    TurnWrap = 4
SPECIFICATION PSpec
CHECK_DEADLOCK FALSE
PROPERTIES
    NoArmHidden
