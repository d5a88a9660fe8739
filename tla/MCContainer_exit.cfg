CONSTANTS
    Procs = {p1, p2}
    NoProc = NoProc
    Commands = {"start", "stop", "kill", "pause", "unpause", "restart", "cleanup", "rm", "wait"}
    MaxCommands = 4
    MaxRuns = 2
    ExitCodes = {0}
    RestartPolicy = "no"
    RestartRetries = 0
    HealthRestart = FALSE
    ExecBusy = FALSE
    ConmonMayDie = FALSE
    LateExitFile = FALSE
    PodmanMayDie = FALSE
SPECIFICATION FairSpec
INVARIANTS
    WaiterFindsCode
PROPERTIES
    ExitIsHandled
CHECK_DEADLOCK FALSE
