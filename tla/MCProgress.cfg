CONSTANTS
    a = a
    b = b
    c1 = c1
    c2 = c2
    Threads = {s1, s2, u}
    Selectors = {s1, s2}
    Channels = {a, b}
    Capacity <- OneEach
    Selects <- PairSelects
    Program <- PairProgram
    MaxSends = 1
    TurnWrap = 2
    Callers = {m1}
    Workers = {w1}
    Objects = {o1}
    Jobs = {j1, j2}
    MaxCount = 2
    MaxAsked = 1
    MaxLevel = 2
    MaxCalls = 2
    None = None
SPECIFICATION ProgressSpec
CHECK_DEADLOCK FALSE
PROPERTIES
    SelectServed
    NoArmHidden
    CallsReturn
