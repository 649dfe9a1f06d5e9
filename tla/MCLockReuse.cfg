CONSTANTS
    Threads = {t1}
    Mutexes = {}
    Objs = {1, 2}
    HeldMax = 2
    MaxFrames = 2
    Reuse = TRUE
    NoThread = NoThread
    DeepCount = 1
    DeepLocks = {1, 2}
SYMMETRY Symmetry
SPECIFICATION AnyShape
CHECK_DEADLOCK FALSE
INVARIANTS
    ReportsTrue
