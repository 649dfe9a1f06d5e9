CONSTANTS
    Threads = {t1, t2, t3}
    Mutexes = {4}
    Objs = {1, 2, 3}
    HeldMax = 2
    MaxFrames = 3
    Reuse = TRUE
    NoThread = NoThread
    DeepCount = 2
    DeepLocks = {1, 2, 4}
SYMMETRY Symmetry
SPECIFICATION ShapesSpec
CHECK_DEADLOCK FALSE
INVARIANTS
    LocksMatchBlocks
    RecordSound
    DeadlockReported
    NoWaitCycle
