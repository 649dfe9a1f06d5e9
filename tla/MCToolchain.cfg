CONSTANTS
    Home <- MCHome
    NoLock = 0
    Threads = {t1, t2}
    N = 3
    Versions = {1, 2, 3}
    Bad = 3
    MaxEdits = 2
    MaxStops = 1
    EditsWhileBuilding = FALSE
    Sites = {1, 2, 3, 4, 5, 6, 7, 8, 9, 10, 11, 12, 13, 14, 15, 16, 17, 18, 19, 20, 21, 22}
    MaxTurns = 2
    Family = "sound"
SYMMETRY Symmetry
SPECIFICATION ToolchainSpec
CHECK_DEADLOCK FALSE
INVARIANTS
    FreesExact
    FillsExact
    NoLockCycle
    LockCheckExact
    CacheSound
    NothingAgain
    EndsExact
PROPERTIES
    SeesAlive
