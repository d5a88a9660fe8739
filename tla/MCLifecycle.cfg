CONSTANTS
    Procs = {p1, p2, p3}
    NoProc = NoProc
    Commands = {"start", "stop", "kill", "cleanup", "rm -f"}
    MaxCommands = 3
    MaxRuns = 3
    ExitCodes = {0, 1}
    RestartPolicy = "on-failure"
    RestartRetries = 1
    HealthRestart = FALSE
    ExecBusy = FALSE
    ConmonMayDie = FALSE
    LateExitFile = FALSE
    PodmanMayDie = TRUE
    Variants = {"cfg", "unforced"}
SYMMETRY ProcSymmetry
SPECIFICATION MCSpec
INVARIANTS
    ExitFileOfThisRun
    LockFreedOnce
    RetriesBounded
    UserStopSticks
    RunningKeepsResources
    RunIsTracked
    RemovedIsGone
CHECK_DEADLOCK FALSE
