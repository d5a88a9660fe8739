CONSTANTS
    Procs = {p1, p2}
    BITMAP_SIZE = 2
    NumLocks = 2
    NoProc = NoProc
    DeadProc = DeadProc
    KillDuringSetup = FALSE
SPECIFICATION MCSpec
INVARIANTS UniqueAllocation
PROPERTIES ImplementsLockManager ReplacedUnlessKilled
