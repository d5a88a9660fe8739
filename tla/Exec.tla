-------------------------------- MODULE Exec --------------------------------
(***************************************************************************)
(* Exec sessions of one container (container_exec.go).  A session is in    *)
(* the container's state and in the registry of the database; its exit     *)
(* code is in a file of its bundle, then in the session and in an          *)
(* exec_died event.  Three parties race for it when the process ends: the  *)
(* client that was attached, the exit command conmon runs, and commands on *)
(* the container.  Everything is done under the container's lock except    *)
(* the attach, the client's wait for the exit file, and the windows of     *)
(* cleanupExecBundle, so each action below is what happens up to one.      *)
(***************************************************************************)
EXTENDS Naturals, Sequences

CONSTANTS Sessions, Nil,
          Systems  \* [kind, faults]: how each session is used, what may go wrong

\* "cli": podman exec; "detached": podman exec -d; "health": a health check;
\* "http": started and attached to through the API; "http detached": started
\* through the API, with Detach.
Kinds == {"cli", "detached", "health", "http", "http detached"}

\* "resize": of a terminal; "detach": the client's detach keys; "slow": the exit
\* file takes more than five seconds; "startfail": the OCI runtime cannot start
\* the process; "die": a client is killed; "stop", "restart", "rm", "reap": other
\* commands on the container; "stopexec", "rmexec": on the session.
Faults == {"resize", "detach", "slow", "startfail", "die", "stop", "restart", "rm",
           "reap", "stopexec", "rmexec"}

VARIABLES sys,       \* the system chosen
          ctrState,  \* "running", "stopped", "gone"
          ExecSessions, \* session -> [State, ExitCode], or Nil
          registry,  \* the sessions of the database's registry
          process,   \* session -> "none", "alive", "dead"
          bundle,    \* session -> does its bundle exist
          exitFile,  \* session -> does its exit file
          died,      \* session -> the codes of its exec_died events
          client,    \* session -> what its client is doing
          exitCode,  \* session -> what the client read
          result,    \* session -> what podman exec returned: a code or "error"
          exitCmd,   \* session -> what conmon's exit command is doing
          mgr        \* another command: what it is doing and to which sessions

execVars == <<sys, ctrState, ExecSessions, registry, process, bundle, exitFile, died,
          client, exitCode, result, exitCmd, mgr>>

Has(f) == f \in sys.faults
Kind(s) == sys.kind[s]

\* "real": what the process exits with; "zero": a code nobody has set.
Codes == {"real", "zero", "minus one", "generic"}

Created == [State |-> "created", ExitCode |-> "zero"]
Running == [State |-> "running", ExitCode |-> "zero"]
Stopped(code) == [State |-> "stopped", ExitCode |-> code]

IsRunning(s) == ExecSessions[s] # Nil /\ ExecSessions[s].State = "running"

NoCmd == [pc |-> "idle", todo |-> {}, cur |-> Nil]

ExecInit ==
    /\ sys \in Systems
    /\ ctrState = "running"
    /\ ExecSessions = [s \in Sessions |-> Nil]
    /\ registry = {}
    /\ process = [s \in Sessions |-> "none"]
    /\ bundle = [s \in Sessions |-> FALSE]
    /\ exitFile = [s \in Sessions |-> FALSE]
    /\ died = [s \in Sessions |-> <<>>]
    /\ client = [s \in Sessions |-> "create"]
    /\ exitCode = [s \in Sessions |-> Nil]
    /\ result = [s \in Sessions |-> Nil]
    /\ exitCmd = [s \in Sessions |-> "none"]
    /\ mgr = NoCmd

\* The groups an action may leave alone.
db == <<ExecSessions, registry, died>>
files == <<process, bundle, exitFile>>

---------------------------------------------------------------------------
\* The process ends, and conmon writes the exit file if the bundle is there.
ProcessExits(s) ==
    /\ process[s] = "alive"
    /\ process' = [process EXCEPT ![s] = "dead"]
    /\ UNCHANGED <<sys, ctrState, db, bundle, exitFile, client, exitCode, result, exitCmd, mgr>>

ConmonWrites(s) ==
    /\ process[s] = "dead" /\ bundle[s] /\ ~exitFile[s]
    /\ exitFile' = [exitFile EXCEPT ![s] = TRUE]
    /\ UNCHANGED <<sys, ctrState, db, process, bundle, client, exitCode, result, exitCmd, mgr>>

\* readExecExitCode waits five seconds for the file: until it is there, or for
\* nothing if there is no bundle to write it to or the process still runs.
ReadFails(s) ==
    ~exitFile[s] /\ (~bundle[s] \/ process[s] = "alive" \/ Has("slow"))

ReadReturns(s) == exitFile[s] \/ ReadFails(s)

\* The event first, then the session if it is still there.
justWriteExecExitCode(s, code, emit) ==
    /\ died' = IF emit THEN [died EXCEPT ![s] = Append(@, code)] ELSE died
    /\ ExecSessions' = [ExecSessions EXCEPT ![s] = IF @ = Nil THEN Nil ELSE Stopped(code)]

\* Takes the bundle away; before it succeeds it may give the lock up any number
\* of times, so it is the last thing an action does.
cleanupExecBundle(s) ==
    /\ bundle' = [bundle EXCEPT ![s] = FALSE]
    /\ exitFile' = [exitFile EXCEPT ![s] = FALSE]

---------------------------------------------------------------------------
\* The state is saved, then the session registered.
ExecCreate(s) ==
    /\ client[s] = "create"
    /\ IF ctrState = "running"
       THEN /\ ExecSessions' = [ExecSessions EXCEPT ![s] = Created]
            /\ \/ /\ registry' = registry \cup {s}
                  /\ client' = [client EXCEPT ![s] = "start"]
               \/ /\ Has("die")
                  /\ registry' = registry
                  /\ client' = [client EXCEPT ![s] = "done"]
            /\ UNCHANGED result
       ELSE /\ client' = [client EXCEPT ![s] = "done"]
            /\ result' = [result EXCEPT ![s] = "error"]
            /\ UNCHANGED <<ExecSessions, registry>>
    /\ UNCHANGED <<sys, ctrState, died, files, exitCode, exitCmd, mgr>>

\* Where the client goes when its session could not be started.
AfterFailure(s) ==
    CASE Kind(s) \in {"cli", "health"} -> "remove"
      [] Kind(s) = "detached" -> "force remove"
      [] OTHER -> "done"

\* ExecStart, execStartAndAttach and ExecHTTPStartAndAttach up to the unlock; the
\* last records a failure in the session.
StartSession(s) ==
    /\ client[s] = "start"
    /\ IF /\ ctrState = "running"
          /\ ExecSessions[s] # Nil /\ ExecSessions[s].State = "created"
       THEN /\ bundle' = [bundle EXCEPT ![s] = TRUE]
            /\ \/ /\ process' = [process EXCEPT ![s] = "alive"]
                  /\ ExecSessions' = [ExecSessions EXCEPT ![s] = Running]
                  /\ client' = [client EXCEPT ![s] =
                        IF Kind(s) \in {"cli", "health", "http"} THEN "attached" ELSE "done"]
                  /\ exitCmd' = [exitCmd EXCEPT ![s] = IF Kind(s) = "health" THEN @ ELSE "wait"]
                  /\ UNCHANGED result
               \/ /\ Has("die")   \* before the state is saved
                  /\ process' = [process EXCEPT ![s] = "alive"]
                  /\ exitCmd' = [exitCmd EXCEPT ![s] = IF Kind(s) = "health" THEN @ ELSE "wait"]
                  /\ client' = [client EXCEPT ![s] = "done"]
                  /\ UNCHANGED <<ExecSessions, result>>
               \/ /\ Has("startfail")
                  /\ ExecSessions' = IF Kind(s) = "http"
                                     THEN [ExecSessions EXCEPT ![s] = Stopped("generic")]
                                     ELSE ExecSessions
                  /\ client' = [client EXCEPT ![s] = AfterFailure(s)]
                  /\ result' = [result EXCEPT ![s] = "error"]
                  /\ UNCHANGED <<process, exitCmd>>
       ELSE /\ client' = [client EXCEPT ![s] = AfterFailure(s)]
            /\ result' = [result EXCEPT ![s] = "error"]
            /\ UNCHANGED <<bundle, process, ExecSessions, exitCmd>>
    /\ UNCHANGED <<sys, ctrState, registry, died, exitFile, exitCode, mgr>>

\* The attach ends with the process, or with the detach keys, an error.
AttachEnds(s) ==
    /\ client[s] = "attached"
    /\ \/ process[s] = "dead" /\ UNCHANGED result
       \/ /\ Has("detach") /\ process[s] = "alive"
          /\ result' = [result EXCEPT ![s] = "error"]
    /\ client' = [client EXCEPT ![s] = "read"]
    /\ UNCHANGED <<sys, ctrState, db, files, exitCode, exitCmd, mgr>>

\* Without the lock.
readExecExitCode(s) ==
    /\ client[s] = "read" /\ ReadReturns(s)
    /\ exitCode' = [exitCode EXCEPT ![s] = IF exitFile[s] THEN "real" ELSE "minus one"]
    /\ client' = [client EXCEPT ![s] = "write"]
    /\ UNCHANGED <<sys, ctrState, db, files, result, exitCmd, mgr>>

\* A plausible bug: that the session was cleaned up meanwhile is not looked for.
WriteUnchecked(s) ==
    /\ client[s] = "write"
    /\ justWriteExecExitCode(s, exitCode[s], TRUE)
    /\ result' = [result EXCEPT ![s] = IF exitCode[s] = "real" THEN @ ELSE "error"]
    /\ client' = [client EXCEPT ![s] = "bundle"]
    /\ UNCHANGED <<sys, ctrState, registry, files, exitCode, exitCmd, mgr>>

\* execStartAndAttach has the lock again: a code it could not read is nothing to
\* report if the session is gone, or recorded as stopped.  ExecHTTPStartAndAttach
\* writes what it has.
WriteExitCode(s) ==
    /\ client[s] = "write"
    /\ LET gone == ctrState = "gone"
           settled == /\ exitCode[s] = "minus one"
                      /\ ExecSessions[s] = Nil \/ ExecSessions[s].State = "stopped"
       IN IF Kind(s) # "http" /\ (gone \/ settled)
          THEN /\ client' = [client EXCEPT ![s] = "report"]
               /\ UNCHANGED <<ExecSessions, died, result>>
          ELSE /\ IF gone THEN UNCHANGED <<ExecSessions, died>>
                  ELSE justWriteExecExitCode(s, exitCode[s], Kind(s) # "health")
               /\ result' = [result EXCEPT ![s] = IF exitCode[s] = "real" THEN @ ELSE "error"]
               /\ client' = [client EXCEPT ![s] = "bundle"]
    /\ UNCHANGED <<sys, ctrState, registry, files, exitCode, exitCmd, mgr>>

ClientCleansBundle(s) ==
    /\ client[s] = "bundle"
    /\ cleanupExecBundle(s)
    /\ client' = [client EXCEPT ![s] = IF Kind(s) = "http" THEN "done" ELSE "report"]
    /\ UNCHANGED <<sys, ctrState, db, process, exitCode, result, exitCmd, mgr>>

\* The end of exec(): the code of the session, or of its last event.
ReportExitCode(s) ==
    /\ client[s] = "report"
    /\ result' = [result EXCEPT ![s] =
          IF @ = "error" \/ ctrState = "gone" THEN "error"
          ELSE IF ExecSessions[s] # Nil THEN ExecSessions[s].ExitCode
          ELSE IF died[s] # <<>> THEN died[s][Len(died[s])] ELSE "error"]
    /\ client' = [client EXCEPT ![s] = "remove"]
    /\ UNCHANGED <<sys, ctrState, db, files, exitCode, exitCmd, mgr>>

\* A plausible bug: a session that still runs is removed.
RemoveUnchecked(s, err) ==
    /\ err = ~(ExecSessions[s] = Nil \/ s \in registry)
    /\ died' = died
    /\ ExecSessions' = [ExecSessions EXCEPT ![s] = IF s \in registry THEN Nil ELSE @]
    /\ registry' = registry \ {s}

\* ExecRemove without force: the code of a session that has ended is recorded
\* first; its bundle stays.  err: does the call fail with an error other than
\* that there is no such session.
ExecRemove(s, err) ==
    LET reap == IsRunning(s) /\ exitFile[s] /\ process[s] # "alive"
        may == ExecSessions[s] # Nil /\ (IsRunning(s) => reap)
        ok == may /\ s \in registry
    IN  /\ IsRunning(s) => ReadReturns(s)
        /\ err = (ctrState = "gone" \/ (ExecSessions[s] # Nil /\ ~ok))
        /\ died' = IF reap THEN [died EXCEPT ![s] = Append(@, "real")] ELSE died
        /\ ExecSessions' = [ExecSessions EXCEPT ![s] = IF ok THEN Nil
                                                       ELSE IF reap THEN Stopped("real") ELSE @]
        /\ registry' = IF ok THEN registry \ {s} ELSE registry

\* The deferred ExecRemove of exec(), and the one after a failed ExecStart, whose
\* session has not run.
ClientRemoves(s) ==
    /\ client[s] \in {"remove", "force remove"}
    /\ \E err \in BOOLEAN :
          /\ ExecRemove(s, err)
          /\ result' = IF err THEN [result EXCEPT ![s] = "error"] ELSE result
    /\ client' = [client EXCEPT ![s] = "done"]
    /\ UNCHANGED <<sys, ctrState, files, exitCode, exitCmd, mgr>>

\* The client is killed.
ClientDies(s) ==
    /\ Has("die") /\ client[s] \notin {"create", "done"}
    /\ client' = [client EXCEPT ![s] = "done"]
    /\ result' = [result EXCEPT ![s] = Nil]
    /\ UNCHANGED <<sys, ctrState, db, files, exitCode, exitCmd, mgr>>

---------------------------------------------------------------------------
\* conmon has written the exit file, if there was where to, and runs the exit
\* command.
ConmonEnds(s) ==
    exitCmd[s] = "wait" /\ process[s] = "dead" /\ (exitFile[s] \/ ~bundle[s])

\* A plausible bug: the exit command leaves an attached session to its client.
CleanupDetachedOnly(s) ==
    /\ ConmonEnds(s) /\ Kind(s) \in {"cli", "detached"}
    /\ IF IsRunning(s) /\ exitFile[s] /\ Kind(s) = "detached"
       THEN justWriteExecExitCode(s, "real", TRUE)
       ELSE UNCHANGED <<ExecSessions, died>>
    /\ exitCmd' = [exitCmd EXCEPT ![s] =
          IF ExecSessions[s] = Nil \/ (IsRunning(s) /\ ~(exitFile[s] /\ Kind(s) = "detached"))
          THEN "done" ELSE "bundle"]
    /\ UNCHANGED <<sys, ctrState, registry, files, client, exitCode, result, mgr>>

\* podman container cleanup --exec: ExecCleanup.
ExecCleanup(s) ==
    /\ ConmonEnds(s) /\ Kind(s) \in {"cli", "detached"}
    /\ IF IsRunning(s) /\ exitFile[s]
       THEN justWriteExecExitCode(s, "real", TRUE)
       ELSE UNCHANGED <<ExecSessions, died>>
    /\ exitCmd' = [exitCmd EXCEPT ![s] =
          IF ExecSessions[s] = Nil \/ (IsRunning(s) /\ ~exitFile[s]) THEN "done" ELSE "bundle"]
    /\ UNCHANGED <<sys, ctrState, registry, files, client, exitCode, result, mgr>>

ExitCommandCleansBundle(s) ==
    /\ exitCmd[s] = "bundle"
    /\ cleanupExecBundle(s)
    /\ exitCmd' = [exitCmd EXCEPT ![s] = "done"]
    /\ UNCHANGED <<sys, ctrState, db, process, client, exitCode, result, mgr>>

\* With --rm, for the sessions of the API, five minutes later.
ExitCommandRemoves(s) ==
    /\ ConmonEnds(s) /\ Kind(s) \in {"http", "http detached"}
    /\ \E err \in BOOLEAN : ExecRemove(s, err)
    /\ exitCmd' = [exitCmd EXCEPT ![s] = "done"]
    /\ UNCHANGED <<sys, ctrState, files, client, exitCode, result, mgr>>

---------------------------------------------------------------------------
\* The terminal is resized: a session found to have ended is recorded as stopped,
\* without its code.
ExecResize(s) ==
    /\ Has("resize") /\ mgr = NoCmd
    /\ IsRunning(s) /\ process[s] = "dead"
    /\ ExecSessions' = [ExecSessions EXCEPT ![s].State = "stopped"]
    /\ UNCHANGED <<sys, ctrState, registry, died, files, client, exitCode, result, exitCmd, mgr>>

\* ExecStop, and ExecRemove with force of a session that runs: the process is
\* killed and its code waited for.
StopSession(s, pc) ==
    /\ process' = [process EXCEPT ![s] = "dead"]
    /\ exitFile' = [exitFile EXCEPT ![s] = bundle[s]]
    /\ IF bundle[s]
       THEN /\ justWriteExecExitCode(s, "real", TRUE)
            /\ mgr' = [pc |-> pc, todo |-> {}, cur |-> s]
       ELSE UNCHANGED <<ExecSessions, died, mgr>>
    /\ UNCHANGED <<sys, ctrState, registry, bundle, client, exitCode, result, exitCmd>>

ExecStop(s) ==
    /\ Has("stopexec") /\ mgr = NoCmd
    /\ IsRunning(s)
    /\ StopSession(s, "stop bundle")

ExecRemoveHandler(s) ==
    /\ Has("rmexec") /\ mgr = NoCmd
    /\ \/ IsRunning(s) /\ process[s] = "alive" /\ StopSession(s, "remove bundle")
       \/ /\ \E err \in BOOLEAN : ExecRemove(s, err)
          /\ UNCHANGED <<sys, ctrState, files, client, exitCode, result, exitCmd, mgr>>

\* The rest of these calls, when the bundle is gone.
SessionStopped ==
    /\ mgr.pc \in {"stop bundle", "remove bundle"}
    /\ cleanupExecBundle(mgr.cur)
    /\ IF mgr.pc = "remove bundle" /\ mgr.cur \in registry
       THEN /\ ExecSessions' = [ExecSessions EXCEPT ![mgr.cur] = Nil]
            /\ registry' = registry \ {mgr.cur}
       ELSE UNCHANGED <<ExecSessions, registry>>
    /\ mgr' = NoCmd
    /\ UNCHANGED <<sys, ctrState, died, process, client, exitCode, result, exitCmd>>

\* getActiveExecSessions, for cleanup, unmount and rm: of the sessions it believes
\* to run, those it finds ended are recorded one by one, and their bundles removed.
\* One that ends while it waits for a bundle may have been looked at before.
getActiveExecSessions ==
    /\ Has("reap") /\ mgr = NoCmd
    /\ \E todo \in SUBSET {s \in Sessions : IsRunning(s)} :
          /\ \E s \in todo : process[s] = "dead"
          /\ \A s \in Sessions : IsRunning(s) /\ process[s] = "dead" => s \in todo
          /\ mgr' = [NoCmd EXCEPT !.pc = "reap", !.todo = todo]
    /\ UNCHANGED <<sys, ctrState, db, files, client, exitCode, result, exitCmd>>

ReapNext ==
    /\ mgr.pc = "reap"
    /\ IF mgr.cur = Nil THEN UNCHANGED <<bundle, exitFile>> ELSE cleanupExecBundle(mgr.cur)
    /\ LET ended == {s \in mgr.todo : IsRunning(s) /\ process[s] = "dead"} IN
       \/ /\ ended = {}
          /\ mgr' = NoCmd
          /\ UNCHANGED <<ExecSessions, died>>
       \/ \E s \in ended :
             /\ ReadReturns(s)
             /\ justWriteExecExitCode(s, IF exitFile[s] THEN "real" ELSE "minus one", TRUE)
             /\ mgr' = [mgr EXCEPT !.todo = @ \ {s}, !.cur = s]
    /\ UNCHANGED <<sys, ctrState, registry, process, client, exitCode, result, exitCmd>>

\* The container stops, and with it the processes in its PID namespace.
ContainerStops ==
    /\ Has("stop") /\ ctrState = "running"
    /\ ctrState' = "stopped"
    /\ process' = [s \in Sessions |-> IF process[s] = "alive" THEN "dead" ELSE process[s]]
    /\ UNCHANGED <<sys, db, bundle, exitFile, client, exitCode, result, exitCmd, mgr>>

\* A plausible bug: the registry keeps the sessions of the last run.
InitKeepsRegistry ==
    /\ Has("restart") /\ ctrState = "stopped"
    /\ ctrState' = "running"
    /\ ExecSessions' = [s \in Sessions |-> Nil]
    /\ UNCHANGED <<sys, registry, died, files, client, exitCode, result, exitCmd, mgr>>

\* init() forgets the sessions of the last run.
ContainerInit ==
    /\ Has("restart") /\ ctrState = "stopped"
    /\ ctrState' = "running"
    /\ ExecSessions' = [s \in Sessions |-> Nil]
    /\ registry' = {}
    /\ UNCHANGED <<sys, died, files, client, exitCode, result, exitCmd, mgr>>

\* removeAllExecSessions of a stopped container: the bundles of the sessions it
\* believes to run, then all records, and the rest of the container's removal.
removeAllExecSessions ==
    /\ Has("rm") /\ mgr = NoCmd /\ ctrState = "stopped"
    /\ mgr' = [NoCmd EXCEPT !.pc = "rm", !.todo = {s \in Sessions : IsRunning(s)}]
    /\ UNCHANGED <<sys, ctrState, db, files, client, exitCode, result, exitCmd>>

RemoveNext ==
    /\ mgr.pc = "rm"
    /\ \/ \E s \in mgr.todo :
             /\ mgr.todo # {s}
             /\ cleanupExecBundle(s)
             /\ mgr' = [mgr EXCEPT !.todo = @ \ {s}]
             /\ UNCHANGED <<ctrState, ExecSessions, registry>>
       \/ /\ \A s, t \in mgr.todo : s = t
          /\ ctrState' = "gone"
          /\ ExecSessions' = [s \in Sessions |-> Nil]
          /\ registry' = {}
          /\ bundle' = [s \in Sessions |-> FALSE]
          /\ exitFile' = [s \in Sessions |-> FALSE]
          /\ mgr' = NoCmd
    /\ UNCHANGED <<sys, died, process, client, exitCode, result, exitCmd>>

---------------------------------------------------------------------------
Client(s) ==
    \/ ExecCreate(s) \/ StartSession(s) \/ AttachEnds(s) \/ readExecExitCode(s)
    \/ WriteExitCode(s) \/ ClientCleansBundle(s) \/ ReportExitCode(s) \/ ClientRemoves(s)

Command == SessionStopped \/ ReapNext \/ RemoveNext

ExitCommand(s) == ExecCleanup(s) \/ ExitCommandCleansBundle(s) \/ ExitCommandRemoves(s)

ExecNext ==
    \/ \E s \in Sessions :
          \/ Client(s) \/ ClientDies(s) \/ ProcessExits(s) \/ ConmonWrites(s) \/ ExitCommand(s)
          \/ ExecResize(s) \/ ExecStop(s) \/ ExecRemoveHandler(s)
    \/ getActiveExecSessions \/ ContainerStops \/ ContainerInit \/ removeAllExecSessions
    \/ Command

\* conmon and the commands that were started go on; a process need not end.
ExecFairness ==
    /\ \A s \in Sessions : /\ WF_execVars(Client(s)) /\ WF_execVars(ConmonWrites(s))
                           /\ WF_execVars(ExitCommand(s))
    /\ WF_execVars(Command)

ExecSpec == ExecInit /\ [][ExecNext]_execVars /\ ExecFairness

---------------------------------------------------------------------------
\* What is assumed of the constants.
Session == [State : {"created", "running", "stopped"}, ExitCode : Codes]

ExecConfigured ==
    /\ Systems \subseteq [kind : [Sessions -> Kinds], faults : SUBSET Faults]
    /\ Nil \notin Session /\ Nil \notin Sessions

ASSUME ExecAssumption == ExecConfigured

Steps == {"create", "start", "attached", "read", "write", "bundle", "report", "remove",
          "force remove", "done"}
Commands == [pc : {"idle", "stop bundle", "remove bundle", "reap", "rm"},
             todo : SUBSET Sessions, cur : Sessions \cup {Nil}]

ExecTypeOK ==
    /\ sys \in Systems
    /\ ctrState \in {"running", "stopped", "gone"}
    /\ ExecSessions \in [Sessions -> Session \cup {Nil}]
    /\ registry \subseteq Sessions
    /\ process \in [Sessions -> {"none", "alive", "dead"}]
    /\ bundle \in [Sessions -> BOOLEAN] /\ exitFile \in [Sessions -> BOOLEAN]
    /\ died \in [Sessions -> Seq(Codes)]
    /\ client \in [Sessions -> Steps]
    /\ exitCode \in [Sessions -> Codes \cup {Nil}]
    /\ result \in [Sessions -> Codes \cup {Nil, "error"}]
    /\ exitCmd \in [Sessions -> {"none", "wait", "bundle", "done"}]
    /\ mgr \in Commands

\* The container stopped, or a health check, which writes no event, had its session
\* removed by somebody else.
MayError(s) == Has("stop") \/ (Kind(s) = "health" /\ Has("rmexec"))

\* Without a slow disk, a detach, a start that fails, a resize or another command
\* that overtakes an attached API client, the parties that race for the exit code
\* all end up with the real one, in whatever order they come: as what podman exec
\* returns, with an error for a process that ran only where MayError says so; and
\* unless the container is being removed also in the session and its events.
ExecCode ==
    sys.faults \cap {"slow", "detach", "startfail", "resize"} = {} =>
        \A s \in Sessions :
            (Kind(s) = "http" => sys.faults \cap {"reap", "rmexec", "stopexec"} = {}) =>
            /\ client[s] = "done" /\ process[s] # "none" =>
                  result[s] \in {Nil, "real"} \cup (IF MayError(s) THEN {"error"} ELSE {})
            /\ ~Has("rm") =>
                  /\ ExecSessions[s] # Nil /\ ExecSessions[s].State = "stopped" =>
                        ExecSessions[s].ExitCode = "real"
                  /\ \A i \in 1..Len(died[s]) : died[s][i] = "real"

\* What podman exec returns without an error is what the process exited with.
PodmanExecReturnsCode ==
    \A s \in Sessions : client[s] = "done" => result[s] \in {Nil, "error", "real"}

\* The two places that list the sessions agree, unless a client was killed
\* between writing the one and the other.
RegistryAgrees ==
    ~Has("die") => registry = {s \in Sessions : ExecSessions[s] # Nil}

\* A process that runs is a session recorded as running: rm, cleanup and unmount
\* see it.  (Not after a detach, which forgets the session, nor if the container is
\* started again while a forced rm waits for a bundle without the lock.)
ProcessIsRecorded ==
    sys.faults \cap {"die", "detach"} = {} /\ ~(Has("rm") /\ Has("restart")) =>
        \A s \in Sessions : process[s] = "alive" => IsRunning(s)

\* A session whose process has ended does not stay recorded as running, even if
\* its client is killed: somebody notices.  (Nobody does for a health check that
\* is killed, which has no exit command.)
DeadIsNoticed ==
    \A s \in Sessions :
        (process[s] = "dead" /\ ~(Has("die") /\ Kind(s) = "health")) ~> ~IsRunning(s)
=============================================================================
