CONSTANTS
    Procs = {p1, p2, p3}
    NoProc = NoProc
    Commands = {"init", "start", "stop", "kill", "pause", "unpause", "restart", "cleanup", "rm", "rm -f", "wait", "sync"}
    MaxCommands = 2
    MaxRuns = 2
    ExitCodes = {0}
    RestartPolicy = "always"
    RestartRetries = 0
    HealthRestart = TRUE
    ExecBusy = TRUE
    ConmonMayDie = TRUE
    LateExitFile = TRUE
    PodmanMayDie = TRUE
SYMMETRY ProcSymmetry
SPECIFICATION Spec
INVARIANTS
    CopyIsCurrent
CHECK_DEADLOCK FALSE
