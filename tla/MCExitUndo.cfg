CONSTANTS
    Sites = {1, 2, 3, 4, 5, 6, 7, 8, 9}
    MaxTurns = 0
    Family = "undo"
SPECIFICATION ExitSpec
CHECK_DEADLOCK FALSE
INVARIANTS
    RunsOnce
