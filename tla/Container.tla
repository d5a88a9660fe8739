------------------------------ MODULE Container ------------------------------
(***************************************************************************)
(* The life of one container, driven by podman processes that share the    *)
(* database and the container's lock, by conmon and by the OCI runtime     *)
(* (libpod/container_api.go, container_internal.go, runtime_ctr.go).       *)
(*                                                                         *)
(* A process copies the database row into memory when it takes the lock    *)
(* (syncContainer), works on the copy and saves it.  stop, wait and the    *)
(* removal of exec sessions give the lock up in the middle.  Taking the    *)
(* lock and syncContainer are one step: nobody else writes in between.     *)
(***************************************************************************)
EXTENDS Integers

CONSTANTS
    Procs,           \* podman processes, each running one command at a time
    NoProc,          \* owner of the lock when nobody holds it
    Commands,        \* the commands users run, a subset of UserCommands
    MaxCommands,     \* bound: how many user commands are started
    MaxRuns,         \* bound: how often the container is created in the runtime
    ExitCodes,       \* what the container's process may exit with
    RestartPolicy,   \* config.RestartPolicy: "no", "always" or "on-failure"
    RestartRetries,  \* config.RestartRetries (0: no limit)
    HealthRestart,   \* config.HealthCheckOnFailureAction is restart
    ExecBusy,        \* the bundle of a finished exec session may be busy
    ConmonMayDie,    \* conmon may be killed, leaving no exit file
    LateExitFile,    \* conmon may be slower than podman's wait for the exit file
    PodmanMayDie     \* podman may be ended by SIGTERM

UserCommands == {"init", "start", "stop", "kill", "pause", "unpause", "restart",
                 "cleanup", "rm", "rm -f", "wait", "sync"}

ASSUME ContainerAssumption ==
    /\ NoProc \notin Procs /\ {"none", "stopped"} \cap Procs = {}
    /\ Commands \subseteq UserCommands
    /\ MaxCommands \in Nat
    /\ MaxRuns \in Nat
    /\ ExitCodes \subseteq 0 .. 255
    /\ RestartPolicy \in {"no", "always", "on-failure"}
    /\ RestartRetries \in Nat
    /\ {HealthRestart, ExecBusy, ConmonMayDie, LateExitFile, PodmanMayDie}
          \subseteq BOOLEAN

VARIABLES
    db,         \* ContainerState as saved in the database
    exists,     \* is the container in the database
    codeRow,    \* the container's row of the exit code table
    lock,       \* holder of the container's lock
    freed,      \* how often the lock was given back to the lock manager
    storage,    \* does the container's storage exist
    oci,        \* what the OCI runtime knows of the container
    runs,       \* how often the container was created in the runtime
    conmon,     \* run -> state of the conmon that monitors it
    exitFile,   \* the exit file, named after the container, not after the run
    unhealthy,  \* the health check log says unhealthy
    launched,   \* "podman container cleanup" processes conmon has launched
    pc,         \* process -> where it is
    cmd,        \* process -> the command it runs
    mem,        \* process -> c.state, its copy of the row
    valid,      \* process -> c.valid
    err,        \* process -> will it return an error
    conmonPID,  \* process -> the run whose conmon WaitForExit waits for
    ran,        \* the runs whose process was started (history)
    intent,     \* the users' last wish (history): the process whose stop it is, and
                \* "stopped" once that has returned
    begun,      \* which of GoOn users have run (history)
    budget      \* user commands that may still be started

dbVars == <<db, exists, codeRow>>
ociVars == <<oci, runs, conmon, exitFile, unhealthy>>
rmVars == <<freed, storage>>
procVars == <<cmd, valid, conmonPID>>
userVars == <<launched, ran, intent, begun, budget>>
vars == <<dbVars, lock, ociVars, rmVars, pc, mem, err, procVars, userVars>>

Runs == 1 .. MaxRuns
Codes == ExitCodes \cup {-1, 0}
NoFile == [run |-> 0, code |-> 0]
NoOci == [st |-> "absent", run |-> 0]
Blank == [State |-> "Unknown", PID |-> 0, ExitCode |-> 0, StoppedByUser |-> FALSE,
          RestartPolicyMatch |-> FALSE, RestartCount |-> 0, Mounted |-> FALSE,
          NetNS |-> FALSE]

Init ==
    /\ db = [Blank EXCEPT !.State = "Configured"]
    /\ exists = TRUE
    /\ codeRow = NoFile
    /\ lock = NoProc
    /\ freed = 0
    /\ storage = TRUE
    /\ oci = NoOci
    /\ runs = 0
    /\ conmon = [r \in Runs |-> "none"]
    /\ exitFile = NoFile
    /\ unhealthy = FALSE
    /\ launched = 0
    /\ pc = [p \in Procs |-> "idle"]
    /\ cmd = [p \in Procs |-> "none"]
    /\ mem = [p \in Procs |-> Blank]
    /\ valid = [p \in Procs |-> FALSE]
    /\ err = [p \in Procs |-> FALSE]
    /\ conmonPID = [p \in Procs |-> 0]
    /\ ran = {}
    /\ intent = "none"
    /\ begun = {}
    /\ budget = MaxCommands
-----------------------------------------------------------------------------
(* Control and saving *)

At(p, l) == pc[p] = l /\ lock = p
Doing(p, C) == At(p, "body") /\ valid[p] /\ cmd[p] \in C
StateIn(p, S) == mem[p].State \in S
Goto(p, l) == pc' = [pc EXCEPT ![p] = l] /\ UNCHANGED err
Fail(p, l) == pc' = [pc EXCEPT ![p] = l] /\ err' = [err EXCEPT ![p] = TRUE]

\* SaveContainer: the copy of a removed container is not written.
Save(p, s) ==
    /\ mem' = [mem EXCEPT ![p] = s]
    /\ db' = IF valid[p] THEN s ELSE db

Live == oci.st \in {"created", "running", "paused"}
Alive(r) == Live /\ oci.run = r
DeadOci == [oci EXCEPT !.st = "stopped"]

\* Mutant: a paused container is not expected to exit.
SeesExit_NotPaused(s) == s.State \in {"Running", "Stopping"} /\ exitFile # NoFile

\* checkExitFile: whatever exit file is there counts for a container that may
\* be running.
SeesExit(s) == s.State \in {"Running", "Paused", "Stopping"} /\ exitFile # NoFile

checkExitFile(s) ==
    IF SeesExit(s)
    THEN [s EXCEPT !.State = "Stopped", !.PID = 0, !.ExitCode = exitFile.code]
    ELSE s

\* handleExitFile: AddContainerExitCode.
RecordExit(s) == codeRow' = IF SeesExit(s) THEN exitFile ELSE codeRow

\* syncContainer also notes that the restart policy may apply.
Synced(s) ==
    [checkExitFile(s) EXCEPT !.RestartPolicyMatch =
        \/ s.RestartPolicyMatch
        \/ /\ SeesExit(s)
           /\ s.State \in {"Running", "Paused"}
           /\ RestartPolicy # "no"
           /\ ~s.StoppedByUser]

syncContainer(p) ==
    IF exists /\ valid[p]
    THEN /\ mem' = [mem EXCEPT ![p] = Synced(db)]
         /\ db' = Synced(db)
         /\ RecordExit(db)
         /\ UNCHANGED valid
    ELSE /\ valid' = [valid EXCEPT ![p] = FALSE]
         /\ UNCHANGED <<mem, db, codeRow>>
-----------------------------------------------------------------------------
(* Commands begin, take the lock and return *)

Starters == {"init", "start", "restart"}
Stoppers == {"stop", "health stop"}
Cleaners == {"cleanup", "cleanup --stopped-only"}
Removers == {"rm", "rm -f"}

\* The commands that stop the container, without the lock, and then go on.
GoOn == {"restart", "rm -f"}

\* A user runs a command on a container that is in the database.
BeginUser(p, c) ==
    /\ pc[p] = "idle" /\ exists /\ budget > 0
    /\ budget' = budget - 1
    /\ cmd' = [cmd EXCEPT ![p] = c]
    /\ valid' = [valid EXCEPT ![p] = TRUE]
    /\ intent' = CASE c \in Starters -> "none"
                   [] c = "stop" /\ \A q \in Procs : cmd[q] \notin Starters -> p
                   [] OTHER -> intent
    /\ begun' = begun \cup ({c} \cap GoOn)
    /\ Goto(p, "lock")
    /\ UNCHANGED <<dbVars, lock, ociVars, rmVars, mem, conmonPID, launched, ran>>

\* The "podman container cleanup" conmon launches when the container exits.
BeginCleanup(p) ==
    /\ pc[p] = "idle" /\ launched > 0
    /\ launched' = launched - 1
    /\ IF exists
       THEN /\ cmd' = [cmd EXCEPT ![p] = "cleanup --stopped-only"]
            /\ valid' = [valid EXCEPT ![p] = TRUE]
            /\ Goto(p, "lock")
       ELSE UNCHANGED <<cmd, valid, pc, err>>
    /\ UNCHANGED <<dbVars, lock, ociVars, rmVars, mem, conmonPID, ran, intent,
                   begun, budget>>

\* The health check turns unhealthy: it is logged, and the on-failure action
\* stops the container, leaving the restart to the cleanup process.
BeginHealthStop(p) ==
    /\ HealthRestart /\ pc[p] = "idle" /\ exists
    /\ oci.st = "running" /\ ~unhealthy
    /\ unhealthy' = TRUE
    /\ cmd' = [cmd EXCEPT ![p] = "health stop"]
    /\ valid' = [valid EXCEPT ![p] = TRUE]
    /\ Goto(p, "lock")
    /\ UNCHANGED <<dbVars, lock, oci, runs, conmon, exitFile, rmVars, mem,
                   conmonPID, userVars>>

\* lock.Lock and syncContainer, when a command begins and after each place
\* where the lock is given up.
AfterLock == [lock |-> "body", stop_lock |-> "stop_check",
              exec_lock |-> "rm_mark", wait_lock |-> "wait_result"]

\* Mutant: the state is not read again after the lock was given up.
LockAndSync_NoResync(p) ==
    /\ pc[p] \in DOMAIN AfterLock
    /\ lock = NoProc
    /\ lock' = p
    /\ IF pc[p] = "lock" THEN syncContainer(p) ELSE UNCHANGED <<db, codeRow, mem, valid>>
    /\ Goto(p, AfterLock[pc[p]])
    /\ UNCHANGED <<exists, ociVars, rmVars, cmd, conmonPID, userVars>>

LockAndSync(p) ==
    /\ pc[p] \in DOMAIN AfterLock
    /\ lock = NoProc
    /\ lock' = p
    /\ syncContainer(p)
    /\ Goto(p, AfterLock[pc[p]])
    /\ UNCHANGED <<exists, ociVars, rmVars, cmd, conmonPID, userVars>>

\* Unlock and return.  Start and StopWithTimeout save their error first.
Return(p) ==
    /\ At(p, "done")
    /\ db' = IF err[p] /\ valid[p] /\ cmd[p] \in {"start"} \cup Stoppers
             THEN mem[p] ELSE db
    /\ lock' = NoProc
    /\ intent' = IF cmd[p] = "stop" /\ intent = p /\ ~err[p] THEN "stopped"
                 ELSE intent
    /\ pc' = [pc EXCEPT ![p] = "idle"]
    /\ cmd' = [cmd EXCEPT ![p] = "none"]
    /\ mem' = [mem EXCEPT ![p] = Blank]
    /\ valid' = [valid EXCEPT ![p] = FALSE]
    /\ err' = [err EXCEPT ![p] = FALSE]
    /\ conmonPID' = [conmonPID EXCEPT ![p] = 0]
    /\ UNCHANGED <<exists, codeRow, ociVars, rmVars, launched, ran, begun, budget>>

\* The container was removed before the command got the lock: Cleanup then has
\* nothing to do, WaitForExit looks for a recorded exit code, the other commands
\* return syncContainer's error.
Removed(p) ==
    /\ At(p, "body") /\ ~valid[p]
    /\ IF \/ cmd[p] \in Cleaners
          \/ cmd[p] = "wait" /\ codeRow # NoFile
       THEN Goto(p, "done") ELSE Fail(p, "done")
    /\ UNCHANGED <<dbVars, lock, ociVars, rmVars, mem, procVars, userVars>>

\* Mutant: init does not inhibit shutdown signals.
Inhibited_NotInit == {"cl_runtime", "cl_storage"}

\* SIGTERM ends a podman process wherever shutdown signals are not inhibited;
\* the mutex is robust, so a lock it held becomes free.
Inhibited == {"save_created", "cl_runtime", "cl_storage"}

Die(p) ==
    /\ PodmanMayDie
    /\ pc[p] \notin Inhibited \cup {"idle"}
    /\ lock' = IF lock = p THEN NoProc ELSE lock
    /\ pc' = [pc EXCEPT ![p] = "idle"]
    /\ cmd' = [cmd EXCEPT ![p] = "none"]
    /\ mem' = [mem EXCEPT ![p] = Blank]
    /\ valid' = [valid EXCEPT ![p] = FALSE]
    /\ err' = [err EXCEPT ![p] = FALSE]
    /\ conmonPID' = [conmonPID EXCEPT ![p] = 0]
    /\ UNCHANGED <<dbVars, ociVars, rmVars, userVars>>
-----------------------------------------------------------------------------
(* Starting: prepareToStart, init, start *)

\* The state checks of Init, Start and restartWithTimeout.
Startable(c) ==
    {"Configured", "Stopped", "Exited"} \cup IF c = "init" THEN {} ELSE {"Created"}

BeginStart(p) ==
    /\ Doing(p, Starters)
    /\ ~(cmd[p] = "restart" /\ StateIn(p, {"Running"}))
    /\ IF StateIn(p, Startable(cmd[p])) THEN Goto(p, "prepare") ELSE Fail(p, "done")
    /\ UNCHANGED <<dbVars, lock, ociVars, rmVars, mem, procVars, userVars>>

\* prepare mounts the storage and sets up the network, then saves.
prepare(p) ==
    /\ At(p, "prepare") /\ valid[p] /\ storage
    /\ Save(p, [mem[p] EXCEPT !.Mounted = TRUE, !.NetNS = TRUE])
    /\ Goto(p, CASE StateIn(p, {"Stopped"}) -> "reinit"
                 [] StateIn(p, {"Configured", "Exited"}) -> "create"
                 [] OTHER -> "start")
    /\ UNCHANGED <<exists, codeRow, lock, ociVars, rmVars, procVars, userVars>>

\* If either fails, what the other one did is undone.
prepareFails(p) ==
    /\ At(p, "prepare")
    /\ \/ ~valid[p] \/ ~storage
       \/ ~mem[p].Mounted \/ ~mem[p].NetNS \/ StateIn(p, {"Stopped"})
    /\ Save(p, [mem[p] EXCEPT !.Mounted = FALSE, !.NetNS = FALSE])
    /\ Fail(p, "cl_net")
    /\ UNCHANGED <<exists, codeRow, lock, ociVars, rmVars, procVars, userVars>>

\* Mutant: a container that has stopped is not deleted in the runtime.
cleanupRuntime_KeepsStopped(p) ==
    IF StateIn(p, {"Stopped", "Created"})
    THEN /\ exitFile' = NoFile
         /\ oci' = IF StateIn(p, {"Stopped"}) THEN oci ELSE NoOci
         /\ Save(p, [mem[p] EXCEPT !.State =
                       IF @ = "Stopped" THEN "Exited" ELSE "Configured"])
         /\ UNCHANGED <<runs, conmon, unhealthy>>
    ELSE UNCHANGED <<ociVars, mem, db>>

\* cleanupRuntime: conmon's files are removed and the runtime deletes the
\* container with --force, which kills what is left of it.
cleanupRuntime(p) ==
    IF StateIn(p, {"Stopped", "Created"})
    THEN /\ exitFile' = NoFile
         /\ oci' = NoOci
         /\ Save(p, [mem[p] EXCEPT !.State =
                       IF @ = "Stopped" THEN "Exited" ELSE "Configured"])
         /\ UNCHANGED <<runs, conmon, unhealthy>>
    ELSE UNCHANGED <<ociVars, mem, db>>

reinit(p) ==
    /\ At(p, "reinit")
    /\ cleanupRuntime(p)
    /\ Goto(p, "create")
    /\ UNCHANGED <<exists, codeRow, lock, rmVars, procVars, userVars>>

\* Mutant: the files of the last run's conmon are not removed.
init_KeepsFiles(p) ==
    /\ At(p, "create")
    /\ oci.st = "absent" /\ runs < MaxRuns
    /\ LateExitFile \/ \A r \in Runs : conmon[r] # "monitoring"
    /\ runs' = runs + 1
    /\ oci' = [st |-> "created", run |-> runs + 1]
    /\ conmon' = [conmon EXCEPT ![runs + 1] = "monitoring"]
    /\ mem' = [mem EXCEPT ![p].PID = runs + 1]
    /\ Goto(p, "save_created")
    /\ UNCHANGED <<dbVars, lock, exitFile, unhealthy, rmVars, procVars, userVars>>

\* init removes the exit file and asks the runtime, through a new conmon, to
\* create the container.  Unless LateExitFile, the conmon of an earlier run has
\* reported by then.
init(p) ==
    /\ At(p, "create")
    /\ oci.st = "absent" /\ runs < MaxRuns
    /\ LateExitFile \/ \A r \in Runs : conmon[r] # "monitoring"
    /\ exitFile' = NoFile
    /\ runs' = runs + 1
    /\ oci' = [st |-> "created", run |-> runs + 1]
    /\ conmon' = [conmon EXCEPT ![runs + 1] = "monitoring"]
    /\ mem' = [mem EXCEPT ![p].PID = runs + 1]
    /\ Goto(p, "save_created")
    /\ UNCHANGED <<dbVars, lock, unhealthy, rmVars, procVars, userVars>>

\* The spec cannot be generated, or the runtime refuses.  createOCIContainer then
\* deletes whatever the runtime has under the container's ID.
initFails(p) ==
    /\ At(p, "create")
    /\ exitFile' = NoFile
    /\ oci' \in {NoOci} \cup IF oci.st = "absent" THEN {} ELSE {oci}
    /\ Fail(p, IF cmd[p] = "init" THEN "done" ELSE "cl_net")
    /\ UNCHANGED <<dbVars, lock, runs, conmon, unhealthy, rmVars, mem, procVars, userVars>>

\* The rest of init; only a restart by policy keeps the retry count.
SaveCreated(p) ==
    /\ At(p, "save_created")
    /\ Save(p, [mem[p] EXCEPT !.State = "Created", !.ExitCode = 0,
                   !.StoppedByUser = FALSE, !.RestartPolicyMatch = FALSE,
                   !.RestartCount =
                      IF cmd[p] \in Cleaners THEN mem[p].RestartCount ELSE 0])
    /\ unhealthy' = FALSE
    /\ Goto(p, IF cmd[p] = "init" THEN "done" ELSE "start")
    /\ UNCHANGED <<exists, codeRow, lock, oci, runs, conmon, exitFile, rmVars,
                   procVars, userVars>>

\* start: the runtime starts what it has created under the container's ID.
start(p) ==
    /\ At(p, "start") /\ oci.st = "created"
    /\ oci' = [oci EXCEPT !.st = "running"]
    /\ mem' = [mem EXCEPT ![p].State = "Running"]
    /\ ran' = ran \cup {oci.run}
    /\ Goto(p, "save")
    /\ UNCHANGED <<dbVars, lock, runs, conmon, exitFile, unhealthy, rmVars,
                   procVars, launched, intent, begun, budget>>

startFails(p) ==
    /\ At(p, "start") /\ oci.st # "created"
    /\ Fail(p, IF cmd[p] = "start" THEN "done" ELSE "cl_net")
    /\ UNCHANGED <<dbVars, lock, ociVars, rmVars, mem, procVars, userVars>>

\* The save that ends start, pause, unpause and Kill.
SaveState(p) ==
    /\ At(p, "save")
    /\ Save(p, mem[p])
    /\ Goto(p, "done")
    /\ UNCHANGED <<exists, codeRow, lock, ociVars, rmVars, procVars, userVars>>
-----------------------------------------------------------------------------
(* Signals: Kill, Pause, Unpause *)

\* SIGKILL is waited for, other signals are not and may be ignored.
Kill(p) ==
    /\ Doing(p, {"kill"})
    /\ IF StateIn(p, {"Running", "Stopping", "Paused"}) /\ Live
       THEN /\ mem' = [mem EXCEPT ![p].StoppedByUser = TRUE]
            /\ \/ oci' = DeadOci /\ Goto(p, "conmon")
               \/ oci' \in {oci, DeadOci} /\ Goto(p, "save")
       ELSE Fail(p, "done") /\ UNCHANGED <<mem, oci>>
    /\ UNCHANGED <<dbVars, lock, runs, conmon, exitFile, unhealthy, rmVars,
                   procVars, userVars>>

\* Pause and Unpause: the state check, the runtime's, and the new state.
Freeze(p, c, from, to, ociFrom, ociTo) ==
    /\ Doing(p, {c})
    /\ IF StateIn(p, {from}) /\ oci.st = ociFrom
       THEN /\ oci' = [oci EXCEPT !.st = ociTo]
            /\ mem' = [mem EXCEPT ![p].State = to]
            /\ Goto(p, "save")
       ELSE Fail(p, "done") /\ UNCHANGED <<oci, mem>>
    /\ UNCHANGED <<dbVars, lock, runs, conmon, exitFile, unhealthy, rmVars,
                   procVars, userVars>>

Pause(p) == Freeze(p, "pause", "Running", "Paused", "running", "paused")
Unpause(p) == Freeze(p, "unpause", "Paused", "Running", "paused", "running")
-----------------------------------------------------------------------------
(* Stopping: stop, StopContainer, waitForConmonToExitAndSave *)

\* stop is part of StopWithTimeout, restartWithTimeout and removeContainer.
StopsFirst(p) ==
    \/ Doing(p, Stoppers)
    \/ Doing(p, {"restart"}) /\ StateIn(p, {"Running"})
    \/ Doing(p, {"rm -f"}) /\ StateIn(p, {"Running", "Stopping"})

\* Mutant: nothing is saved when there is nothing to stop.
stop_OnlyRunning(p) ==
    /\ StopsFirst(p)
    /\ IF StateIn(p, {"Created", "Running", "Stopping"})
       THEN /\ Save(p, [mem[p] EXCEPT !.StoppedByUser = TRUE, !.State = "Stopping"])
            /\ Goto(p, "stop_ping")
            /\ lock' = NoProc
       ELSE /\ IF StateIn(p, {"Stopped", "Exited"}) THEN Goto(p, "done")
               ELSE Fail(p, "done")
            /\ UNCHANGED <<db, mem, lock>>
    /\ UNCHANGED <<exists, codeRow, ociVars, rmVars, procVars, userVars>>

\* StoppedByUser is saved even when there is nothing to stop; that a container
\* is already stopped (ErrCtrStopped) is no failure of "podman stop".
stop(p) ==
    /\ StopsFirst(p)
    /\ IF StateIn(p, {"Created", "Running", "Stopping"})
       THEN /\ Save(p, [mem[p] EXCEPT !.StoppedByUser = TRUE, !.State = "Stopping"])
            /\ Goto(p, "stop_ping")
            /\ lock' = NoProc
       ELSE /\ Save(p, [mem[p] EXCEPT !.StoppedByUser = TRUE])
            /\ IF StateIn(p, {"Stopped", "Exited"}) THEN Goto(p, "done")
               ELSE Fail(p, "done")
            /\ UNCHANGED lock
    /\ UNCHANGED <<exists, codeRow, ociVars, rmVars, procVars, userVars>>

\* StopContainer, without the lock: ping the PID of the copy ...
StopPing(p) ==
    /\ pc[p] = "stop_ping"
    /\ Goto(p, IF Alive(mem[p].PID) THEN "stop_kill" ELSE "stop_lock")
    /\ UNCHANGED <<dbVars, lock, ociVars, rmVars, mem, procVars, userVars>>

\* ... signal the container by its ID until that PID is dead ...
StopKill(p) ==
    /\ pc[p] = "stop_kill"
    /\ \/ Live /\ oci' = DeadOci
       \/ ~Alive(mem[p].PID) /\ UNCHANGED oci
    /\ Goto(p, "stop_lock")
    /\ UNCHANGED <<dbVars, lock, runs, conmon, exitFile, unhealthy, rmVars, mem,
                   procVars, userVars>>

\* ... or give up on a process that does not even die of SIGKILL.
StopKillFails(p) ==
    /\ pc[p] = "stop_kill" /\ Alive(mem[p].PID)
    /\ Fail(p, "stop_lock")
    /\ UNCHANGED <<dbVars, lock, ociVars, rmVars, mem, procVars, userVars>>

\* What stop returns to.
AfterStop(p) == CASE cmd[p] = "restart" -> "restart_net"
                  [] cmd[p] \in Removers -> "rm_check"
                  [] OTHER -> "done"

\* The lock is held again: was the container removed, did StopContainer fail, did
\* another process change the state?  If not, conmon is waited for.
StopCheck(p) ==
    /\ At(p, "stop_check")
    /\ mem' = IF valid[p] THEN mem ELSE [mem EXCEPT ![p].State = "Stopped"]
    /\ Goto(p, CASE err[p] -> "done"
                 [] ~err[p] /\ valid[p] /\ StateIn(p, {"Stopping"}) -> "conmon"
                 [] OTHER -> AfterStop(p))
    /\ UNCHANGED <<dbVars, lock, ociVars, rmVars, procVars, userVars>>

\* CheckConmonRunning.
ConmonRunning(s) ==
    IF s.PID = 0 THEN s.State \in {"Running", "Paused"}
    ELSE conmon[s.PID] \in {"monitoring", "exiting"}

ConmonAlive(p) ==
    /\ At(p, "conmon") /\ ConmonRunning(mem[p])
    /\ Save(p, mem[p])
    /\ Goto(p, "exitwait")
    /\ UNCHANGED <<exists, codeRow, lock, ociVars, rmVars, procVars, userVars>>

ConmonGone(p) ==
    /\ At(p, "conmon") /\ ~ConmonRunning(mem[p])
    /\ SeesExit(mem[p]) \/ ~StateIn(p, {"Stopping"})
    /\ Save(p, checkExitFile(mem[p]))
    /\ RecordExit(mem[p])
    /\ Goto(p, AfterStop(p))
    /\ UNCHANGED <<exists, lock, ociVars, rmVars, procVars, userVars>>

\* Conmon died without an exit file: kill a runaway container, make up an exit
\* code, clean up, and return an error.
ConmonDiedEarly(p) ==
    /\ At(p, "conmon") /\ ~ConmonRunning(mem[p])
    /\ ~SeesExit(mem[p]) /\ StateIn(p, {"Stopping"})
    /\ oci' = IF Alive(mem[p].PID) THEN DeadOci ELSE oci
    /\ Save(p, [mem[p] EXCEPT !.State = "Stopped", !.PID = 0, !.ExitCode = -1])
    /\ codeRow' = [run |-> mem[p].PID, code |-> -1]
    /\ Fail(p, "cl_net")
    /\ UNCHANGED <<exists, lock, runs, conmon, exitFile, unhealthy, rmVars,
                   procVars, userVars>>

\* waitForExitFileAndSync, with the lock held.
ExitFileAppears(p) ==
    /\ At(p, "exitwait") /\ exitFile # NoFile
    /\ Save(p, checkExitFile(mem[p]))
    /\ RecordExit(mem[p])
    /\ Goto(p, AfterStop(p))
    /\ UNCHANGED <<exists, lock, ociVars, rmVars, procVars, userVars>>

\* Five seconds are over: conmon is late, or is gone without writing the file.
ExitFileTimeout(p) ==
    /\ At(p, "exitwait") /\ exitFile = NoFile
    /\ LateExitFile \/ ~ConmonRunning(mem[p])
    /\ Save(p, [mem[p] EXCEPT !.State = "Stopped", !.ExitCode = -1])
    /\ Fail(p, "done")
    /\ UNCHANGED <<exists, codeRow, lock, ociVars, rmVars, procVars, userVars>>

\* restartWithTimeout and handleRestartPolicy never reuse the network.
RestartNet(p) ==
    /\ At(p, "restart_net")
    /\ Save(p, [mem[p] EXCEPT !.NetNS = FALSE])
    /\ IF mem[p].NetNS /\ ~valid[p] THEN Fail(p, "done") ELSE Goto(p, "prepare")
    /\ UNCHANGED <<exists, codeRow, lock, ociVars, rmVars, procVars, userVars>>
-----------------------------------------------------------------------------
(* Cleanup and the restart policy *)

\* Mutant: one retry too many.
shouldRestart_OneMore(s) ==
    \/ HealthRestart /\ unhealthy
    \/ /\ ~s.StoppedByUser
       /\ s.RestartPolicyMatch
       /\ RestartPolicy # "no"
       /\ RestartPolicy = "on-failure" =>
            /\ s.ExitCode # 0
            /\ RestartRetries > 0 => s.RestartCount <= RestartRetries

shouldRestart(s) ==
    \/ HealthRestart /\ unhealthy
    \/ /\ ~s.StoppedByUser
       /\ s.RestartPolicyMatch
       /\ RestartPolicy # "no"
       /\ RestartPolicy = "on-failure" =>
            /\ s.ExitCode # 0
            /\ RestartRetries > 0 => s.RestartCount < RestartRetries

\* The restart is counted before it is tried; without one, cleanup follows.
handleRestartPolicy(p) ==
    IF shouldRestart(mem[p])
    THEN /\ Save(p, [mem[p] EXCEPT !.RestartCount = @ + 1])
         /\ Goto(p, "restart_net")
    ELSE Goto(p, "cl_net") /\ UNCHANGED <<mem, db>>

\* Mutant: the state is not checked.
Cleanup_AnyState(p) ==
    /\ Doing(p, Cleaners)
    /\ handleRestartPolicy(p)
    /\ UNCHANGED <<exists, codeRow, lock, ociVars, rmVars, procVars, userVars>>

\* Mutant: conmon's cleanup takes only a container that was cleaned up already.
Cleanup_ExitedOnly(p) ==
    /\ Doing(p, Cleaners)
    /\ IF \/ ~StateIn(p, {"Configured", "Created", "Stopped", "Stopping", "Exited"})
          \/ cmd[p] = "cleanup --stopped-only" /\ ~StateIn(p, {"Exited"})
       THEN Fail(p, "done") /\ UNCHANGED <<mem, db>>
       ELSE handleRestartPolicy(p)
    /\ UNCHANGED <<exists, codeRow, lock, ociVars, rmVars, procVars, userVars>>

Cleanup(p) ==
    /\ Doing(p, Cleaners)
    /\ CASE \/ ~StateIn(p, {"Configured", "Created", "Stopped", "Stopping", "Exited"})
            \/ cmd[p] = "cleanup --stopped-only" /\ ~StateIn(p, {"Stopped"})
              -> Fail(p, "done") /\ UNCHANGED <<mem, db>>
         [] cmd[p] = "cleanup" /\ StateIn(p, {"Configured", "Exited"})
              -> Goto(p, "done") /\ UNCHANGED <<mem, db>>
         [] OTHER -> handleRestartPolicy(p)
    /\ UNCHANGED <<exists, codeRow, lock, ociVars, rmVars, procVars, userVars>>

\* cleanup: the network, the runtime, the storage.
CleanupNetwork(p) ==
    /\ At(p, "cl_net")
    /\ Save(p, [mem[p] EXCEPT !.NetNS = FALSE])
    /\ Goto(p, "cl_runtime")
    /\ UNCHANGED <<exists, codeRow, lock, ociVars, rmVars, procVars, userVars>>

CleanupRuntime(p) ==
    /\ At(p, "cl_runtime")
    /\ cleanupRuntime(p)
    /\ Goto(p, "cl_storage")
    /\ UNCHANGED <<exists, codeRow, lock, rmVars, procVars, userVars>>

CleanupStorage(p) ==
    /\ At(p, "cl_storage")
    /\ Save(p, [mem[p] EXCEPT !.Mounted = FALSE])
    /\ Goto(p, IF cmd[p] \in Removers /\ ~err[p] THEN "rm_exec" ELSE "done")
    /\ UNCHANGED <<exists, codeRow, lock, ociVars, rmVars, procVars, userVars>>
-----------------------------------------------------------------------------
(* Removal: removeContainer *)

\* Without --force a container that may be running is not removed; a paused one
\* is killed here, a running one is stopped (stop, above).
Remove(p) ==
    /\ Doing(p, Removers) /\ ~StopsFirst(p)
    /\ CASE cmd[p] = "rm" /\ StateIn(p, {"Running", "Paused", "Stopping"})
              -> Fail(p, "done") /\ UNCHANGED oci
         [] cmd[p] = "rm -f" /\ StateIn(p, {"Paused"})
              -> IF Live THEN oci' = DeadOci /\ Goto(p, "exitwait")
                 ELSE Fail(p, "done") /\ UNCHANGED oci
         [] OTHER -> Goto(p, "cl_net") /\ UNCHANGED oci
    /\ UNCHANGED <<dbVars, lock, runs, conmon, exitFile, unhealthy, rmVars, mem,
                   procVars, userVars>>

\* Mutant: the database is not asked again after stop.
RemoveCheck_Trusting(p) ==
    /\ At(p, "rm_check")
    /\ Goto(p, "cl_net")
    /\ UNCHANGED <<dbVars, lock, ociVars, rmVars, mem, procVars, userVars>>

\* stop gave up the lock: does the container still exist?
RemoveCheck(p) ==
    /\ At(p, "rm_check")
    /\ IF exists THEN Goto(p, "cl_net") /\ UNCHANGED <<ociVars, mem, db>>
       ELSE Goto(p, "done") /\ cleanupRuntime(p)
    /\ UNCHANGED <<exists, codeRow, lock, rmVars, procVars, userVars>>

\* removeAllExecSessions: a busy bundle is waited for without the lock.
RemoveExecSessions(p) ==
    /\ At(p, "rm_exec")
    /\ \/ Goto(p, "rm_mark") /\ UNCHANGED lock
       \/ ExecBusy /\ runs > 0 /\ Goto(p, "exec_lock") /\ lock' = NoProc
    /\ UNCHANGED <<dbVars, ociVars, rmVars, mem, procVars, userVars>>

MarkRemoving(p) ==
    /\ At(p, "rm_mark")
    /\ Save(p, [mem[p] EXCEPT !.State = "Removing"])
    /\ Goto(p, "rm_storage")
    /\ UNCHANGED <<exists, codeRow, lock, ociVars, rmVars, procVars, userVars>>

teardownStorage(p) ==
    /\ At(p, "rm_storage")
    /\ Save(p, [mem[p] EXCEPT !.Mounted = FALSE])
    /\ storage' = FALSE
    /\ Goto(p, "rm_db")
    /\ UNCHANGED <<exists, codeRow, lock, ociVars, freed, procVars, userVars>>

RemoveFromDB(p) ==
    /\ At(p, "rm_db")
    /\ exists' = FALSE
    /\ Goto(p, "rm_free")
    /\ UNCHANGED <<db, codeRow, lock, ociVars, rmVars, mem, procVars, userVars>>

FreeLock(p) ==
    /\ At(p, "rm_free")
    /\ freed' = freed + 1
    /\ valid' = [valid EXCEPT ![p] = FALSE]
    /\ Goto(p, "done")
    /\ UNCHANGED <<dbVars, lock, ociVars, storage, mem, cmd, conmonPID, userVars>>
-----------------------------------------------------------------------------
(* WaitForExit and Sync *)

\* Without a conmon to wait for, the exit code is looked up at once.
WaitForExit(p) ==
    /\ Doing(p, {"wait"})
    /\ IF mem[p].PID # 0
       THEN /\ conmonPID' = [conmonPID EXCEPT ![p] = mem[p].PID]
            /\ Goto(p, "wait_conmon")
            /\ lock' = NoProc
       ELSE /\ IF codeRow # NoFile \/ StateIn(p, {"Configured", "Created"})
               THEN Goto(p, "done") ELSE Fail(p, "done")
            /\ UNCHANGED <<lock, conmonPID>>
    /\ UNCHANGED <<dbVars, ociVars, rmVars, mem, cmd, valid, userVars>>

WaitForConmon(p) ==
    /\ pc[p] = "wait_conmon" /\ conmon[conmonPID[p]] = "gone"
    /\ Goto(p, "wait_lock")
    /\ UNCHANGED <<dbVars, lock, ociVars, rmVars, mem, procVars, userVars>>

WaitResult(p) ==
    /\ At(p, "wait_result")
    /\ IF codeRow # NoFile THEN Goto(p, "done") ELSE Fail(p, "done")
    /\ UNCHANGED <<dbVars, lock, ociVars, rmVars, mem, procVars, userVars>>

Sync(p) ==
    /\ Doing(p, {"sync"})
    /\ Goto(p, "done")
    /\ UNCHANGED <<dbVars, lock, ociVars, rmVars, mem, procVars, userVars>>
-----------------------------------------------------------------------------
(* The container's process and conmon *)

ContainerExits ==
    /\ oci.st \in {"running", "paused"}
    /\ oci' = DeadOci
    /\ UNCHANGED <<dbVars, lock, runs, conmon, exitFile, unhealthy, rmVars, pc, mem,
                   err, procVars, userVars>>

\* Conmon writes the exit file and launches the cleanup command ...
ConmonReports(r) ==
    /\ conmon[r] = "monitoring" /\ ~Alive(r)
    /\ conmon' = [conmon EXCEPT ![r] = "exiting"]
    /\ \E c \in ExitCodes : exitFile' = [run |-> r, code |-> c]
    /\ launched' = launched + 1
    /\ UNCHANGED <<dbVars, lock, oci, runs, unhealthy, rmVars, pc, mem, err, procVars,
                   ran, intent, begun, budget>>

\* ... and exits.
ConmonExits(r) ==
    /\ conmon[r] = "exiting"
    /\ conmon' = [conmon EXCEPT ![r] = "gone"]
    /\ UNCHANGED <<dbVars, lock, oci, runs, exitFile, unhealthy, rmVars, pc, mem, err,
                   procVars, userVars>>

ConmonDies(r) ==
    /\ ConmonMayDie /\ conmon[r] = "monitoring"
    /\ conmon' = [conmon EXCEPT ![r] = "gone"]
    /\ UNCHANGED <<dbVars, lock, oci, runs, exitFile, unhealthy, rmVars, pc, mem, err,
                   procVars, userVars>>
-----------------------------------------------------------------------------
Starting(p) == \/ BeginStart(p) \/ prepare(p) \/ prepareFails(p) \/ reinit(p)
               \/ init(p) \/ initFails(p) \/ SaveCreated(p) \/ start(p)
               \/ startFails(p) \/ SaveState(p)
Signalling(p) == Kill(p) \/ Pause(p) \/ Unpause(p)
Stopping(p) == \/ stop(p) \/ StopPing(p) \/ StopKill(p) \/ StopKillFails(p)
               \/ StopCheck(p) \/ ConmonAlive(p) \/ ConmonGone(p)
               \/ ConmonDiedEarly(p) \/ ExitFileAppears(p) \/ ExitFileTimeout(p)
               \/ RestartNet(p)
Cleaning(p) == Cleanup(p) \/ CleanupNetwork(p) \/ CleanupRuntime(p) \/ CleanupStorage(p)
Removing(p) == \/ Remove(p) \/ RemoveCheck(p) \/ RemoveExecSessions(p) \/ MarkRemoving(p)
               \/ teardownStorage(p) \/ RemoveFromDB(p) \/ FreeLock(p)
Waiting(p) == WaitForExit(p) \/ WaitForConmon(p) \/ WaitResult(p) \/ Sync(p)

\* Every step of a command that has begun.
Podman(p) == \/ LockAndSync(p) \/ Removed(p) \/ Starting(p) \/ Signalling(p)
             \/ Stopping(p) \/ Cleaning(p) \/ Removing(p) \/ Waiting(p) \/ Return(p)

Conmon(r) == ConmonReports(r) \/ ConmonExits(r)

Next ==
    \/ \E p \in Procs : \/ \E c \in Commands : BeginUser(p, c)
                        \/ BeginCleanup(p) \/ BeginHealthStop(p)
                        \/ Podman(p) \/ Die(p)
    \/ ContainerExits
    \/ \E r \in Runs : Conmon(r) \/ ConmonDies(r)

Spec == Init /\ [][Next]_vars

\* A process that can go on does so, conmon does its part, and the cleanup
\* command it launches gets to run.
FairSpec ==
    /\ Spec
    /\ \A p \in Procs : WF_vars(Podman(p)) /\ WF_vars(BeginCleanup(p))
    /\ \A r \in Runs : WF_vars(Conmon(r))
-----------------------------------------------------------------------------
(* Properties *)

States == {"Unknown", "Configured", "Created", "Running", "Paused", "Stopping",
           "Stopped", "Exited", "Removing"}
StateType == [State : States, PID : 0 .. MaxRuns, ExitCode : Codes,
              StoppedByUser : BOOLEAN, RestartPolicyMatch : BOOLEAN,
              RestartCount : Nat, Mounted : BOOLEAN, NetNS : BOOLEAN]
ExitFiles == [run : 0 .. MaxRuns, code : Codes]
OciType == [st : {"absent", "created", "running", "paused", "stopped"},
            run : 0 .. MaxRuns]
Unlocked == {"idle", "lock", "stop_ping", "stop_kill", "stop_lock", "exec_lock",
             "wait_conmon", "wait_lock"}
Locked == {"body", "prepare", "reinit", "create", "save_created", "start", "save",
           "stop_check", "conmon", "exitwait", "restart_net", "cl_net", "cl_runtime",
           "cl_storage", "rm_check", "rm_exec", "rm_mark", "rm_storage", "rm_db",
           "rm_free", "wait_result", "done"}

TypeOK ==
    /\ db \in StateType
    /\ exists \in BOOLEAN
    /\ codeRow \in ExitFiles
    /\ lock \in Procs \cup {NoProc}
    /\ freed \in Nat
    /\ storage \in BOOLEAN
    /\ oci \in OciType
    /\ runs \in 0 .. MaxRuns
    /\ conmon \in [Runs -> {"none", "monitoring", "exiting", "gone"}]
    /\ exitFile \in ExitFiles
    /\ unhealthy \in BOOLEAN
    /\ launched \in Nat
    /\ pc \in [Procs -> Unlocked \cup Locked]
    /\ cmd \in [Procs -> UserCommands \cup {"none", "health stop",
                                            "cleanup --stopped-only"}]
    /\ mem \in [Procs -> StateType]
    /\ valid \in [Procs -> BOOLEAN]
    /\ err \in [Procs -> BOOLEAN]
    /\ conmonPID \in [Procs -> 0 .. MaxRuns]
    /\ ran \subseteq 0 .. MaxRuns
    /\ intent \in Procs \cup {"none", "stopped"}
    /\ begun \subseteq GoOn
    /\ budget \in Nat

\* No lost update: a process inside the critical section works on the row as the
\* database has it (but for what it is about to save), also after it gave the lock
\* up in stop, WaitForExit or removeAllExecSessions and took it again.
Unsaved(p) == pc[p] \in {"save", "save_created", "conmon"}
CopyIsCurrent ==
    \A p \in Procs : lock = p /\ valid[p] =>
        IF Unsaved(p)
        THEN mem[p] = [db EXCEPT !.State = mem[p].State, !.PID = mem[p].PID,
                                 !.StoppedByUser = mem[p].StoppedByUser]
        ELSE mem[p] = db

\* A container the database calls running or paused keeps its mounts and its
\* network: no command cleans up under it, other than one that stops it and then
\* goes on, not knowing that it was started again.
RunningKeepsResources ==
    begun = {} /\ db.State \in {"Running", "Paused"} => db.Mounted /\ db.NetNS

\* podman does not lose track of what the runtime runs: whenever the container's
\* process lives, the row holds its PID, or the process that created it is about
\* to save it.  Only a forced removal may leave it without a row.
RunIsTracked ==
    Live => \/ /\ exists \/ "rm -f" \in begun
               /\ db.PID = oci.run
            \/ \E p \in Procs : pc[p] = "save_created" /\ mem[p].PID = oci.run

\* Once a container is removed, unless by force, the runtime has nothing left of it.
RemovedIsGone == ~exists /\ "rm -f" \notin begun => oci.st = "absent"

\* The lock ID of a container goes back to the lock manager at most once; a second
\* Free could free the lock of another container.
LockFreedOnce == freed <= 1

\* The exit file podman would attribute to a running container is of that run.
ExitFileOfThisRun ==
    exitFile # NoFile /\ db.State \in {"Running", "Paused", "Stopping"}
        => exitFile.run = db.PID

\* WaitForExit finds the exit code of the run it waited for, or of a later one, if
\* that run was ever started; a run that a late stop, or the cleanup of a created
\* container, ended before it started has no exit code, and neither has one that
\* began while a forced removal was under way.
WaiterFindsCode ==
    "rm -f" \notin begun =>
        \A p \in Procs : pc[p] = "wait_result" /\ conmonPID[p] \in ran
                             => codeRow.run >= conmonPID[p]

\* A container the user has stopped stays stopped until a user starts it, whatever
\* the restart policy says and however the cleanup command interleaves.
UserStopSticks == intent = "stopped" => ~Live

\* The on-failure policy restarts at most RestartRetries times.
RetriesBounded ==
    RestartPolicy = "on-failure" /\ RestartRetries > 0 => db.RestartCount <= RestartRetries

\* A container whose process was started and has died is cleaned up, restarted or
\* removed.  (The cleanup of a run that a late stop ended before its start finds the
\* state Created and does nothing; the one who stops it next has to clean up, as
\* "podman stop" does with a Cleanup of its own.)
ExitIsHandled ==
    (exists /\ db.State \in {"Running", "Paused", "Stopping"} /\ ~Live /\ db.PID \in ran)
        ~> (~exists \/ Live \/ db.State \in {"Configured", "Exited"})
=============================================================================
