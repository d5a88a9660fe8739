----------------------------- MODULE Healthcheck -----------------------------
(***************************************************************************)
(* The health checks of one container (healthcheck.go).  A systemd timer   *)
(* runs "podman healthcheck run", which execs the command without the      *)
(* container's lock, counts a startup check, logs the result and acts on   *)
(* an unhealthy container: three critical sections, between which the      *)
(* container may stop and run again.  Stopping the unit a check runs in    *)
(* kills the check, also when it is the check that stops it.               *)
(***************************************************************************)
EXTENDS Naturals

CONSTANTS Checks,     \* processes of "podman healthcheck run"
          NoUnit,
          MaxRuns,    \* bound: how often the container is started
          MaxDeaths,  \* bound: how many checks are killed from outside
          Configs     \* configurations and what users do, see MCHealthcheck

VARIABLES cfg,      \* the system chosen
          st,       \* "running", "dead" (not cleaned up yet), "exited"
          byUser,   \* StoppedByUser
          run,      \* how often the container was started
          young,    \* the start period is not over
          startup,  \* [Passed, Successes, Failures]: the StartupHC fields of the state
          unit,     \* HCUnitName: [run, startup]
          units,    \* the units systemd has
          log,      \* [Status, FailingStreak] of the health check log
          check,    \* check -> [pc, unit, startup, run, young, ok]
          waiter,   \* waitForHealthy of the last start: [pc, stopped]
          deaths,
          seen      \* history: what the checks of this run found

ctrVars == <<st, byUser, run, young>>
healthVars == <<cfg, ctrVars, startup, unit, units, log, check, waiter, deaths, seen>>

May(f) == f \in cfg.faults

NoCheck == [pc |-> "idle", unit |-> NoUnit, startup |-> FALSE, run |-> 0, young |-> FALSE,
         ok |-> FALSE]
NoWaiter == [pc |-> "none", stopped |-> 0]
NothingSeen == [bad |-> 0, good |-> FALSE, passes |-> 0, restart |-> FALSE]

\* A counter of which only >= n is asked need not exceed it.
Saturate(k, n) == IF k > n THEN n ELSE k

HealthInit ==
    /\ cfg \in Configs
    /\ st = "exited" /\ byUser = FALSE /\ run = 0 /\ young = FALSE
    /\ startup = [Passed |-> FALSE, Successes |-> 0, Failures |-> 0]
    /\ unit = NoUnit /\ units = {}
    /\ log = [Status |-> "none", FailingStreak |-> 0]
    /\ check = [c \in Checks |-> NoCheck]
    /\ waiter = NoWaiter
    /\ deaths = 0
    /\ seen = NothingSeen

\* Nobody holds the container's lock: of what happens under it only the change
\* of timers takes several steps.
Unlocked == \A c \in Checks : check[c].pc \notin {"timer", "remove"}

Goto(c, pc) == check' = [check EXCEPT ![c].pc = pc]

---------------------------------------------------------------------------
\* A plausible bug: the log of the last run is kept.
StartRunKeepsLog(left) ==
    /\ run < MaxRuns
    /\ run' = run + 1
    /\ st' = "running" /\ byUser' = FALSE /\ young' = cfg.period
    /\ startup' = [Passed |-> FALSE, Successes |-> 0, Failures |-> 0]
    /\ log' = [log EXCEPT !.Status = "starting"]
    /\ unit' = [run |-> run + 1, startup |-> cfg.startup]
    /\ units' = left \cup {unit'}
    /\ seen' = NothingSeen

\* init and start: counters and log are reset, a timer is created and started.
\* left: the units there are when it begins.
StartRun(left) ==
    /\ run < MaxRuns
    /\ run' = run + 1
    /\ st' = "running" /\ byUser' = FALSE /\ young' = cfg.period
    /\ startup' = [Passed |-> FALSE, Successes |-> 0, Failures |-> 0]
    /\ log' = [Status |-> "starting", FailingStreak |-> 0]
    /\ unit' = [run |-> run + 1, startup |-> cfg.startup]
    /\ units' = left \cup {unit'}
    /\ seen' = NothingSeen

\* A container that is not cleaned up yet may be started: its unit stays.
Start ==
    /\ Unlocked
    /\ st = "exited" \/ (st = "dead" /\ May("overtake"))
    /\ StartRun(units)
    /\ waiter' = IF cfg.notify THEN [pc |-> "state", stopped |-> 0] ELSE waiter
    /\ UNCHANGED <<cfg, check, deaths>>

\* A plausible bug: a check that has logged its result is left to finish.
StopUnlessLogged(u) ==
    [c \in Checks |-> IF check[c].unit = u /\ u # NoUnit /\ check[c].pc # "act"
                      THEN NoCheck ELSE check[c]]

\* Stops the timer and the service of a unit, and with it the check that runs in
\* it: the checks that are left.
removeTransientFiles(u) ==
    [c \in Checks |-> IF check[c].unit = u /\ u # NoUnit THEN NoCheck ELSE check[c]]

\* The container's process ends, by itself or because of a user.
ContainerExits ==
    /\ Unlocked /\ st = "running"
    /\ \E u \in BOOLEAN : May(IF u THEN "stop" ELSE "exit") /\ byUser' = u
    /\ st' = "dead"
    /\ UNCHANGED <<cfg, run, young, startup, unit, units, log, check, waiter, deaths, seen>>

shouldRestart ==
    \/ cfg.action = "restart" /\ log.Status = "unhealthy"
    \/ ~byUser /\ cfg.policy

\* podman container cleanup: the restart policy, or cleanup.
ContainerCleanup ==
    /\ Unlocked /\ st = "dead"
    /\ check' = removeTransientFiles(unit)
    /\ IF shouldRestart /\ run < MaxRuns
       THEN StartRun(units \ {unit})
       ELSE /\ st' = "exited" /\ units' = units \ {unit}
            /\ UNCHANGED <<byUser, run, young, startup, unit, log, seen>>
    /\ UNCHANGED <<cfg, waiter, deaths>>

StartPeriodEnds ==
    /\ young /\ young' = FALSE
    /\ UNCHANGED <<cfg, st, byUser, run, startup, unit, units, log, check, waiter, deaths, seen>>

---------------------------------------------------------------------------
\* A timer starts its service, of which there is one; or a user runs a check.
Fire(c) ==
    /\ check[c].pc = "idle"
    /\ \E u \in units \cup (IF May("user") THEN {NoUnit} ELSE {}) :
          /\ u # NoUnit => \A d \in Checks : check[d].unit # u
          /\ check' = [check EXCEPT ![c] = [NoCheck EXCEPT !.pc = "begin", !.unit = u]]
    /\ UNCHANGED <<cfg, ctrVars, startup, unit, units, log, waiter, deaths, seen>>

checkHealthCheckCanBeRun(c) ==
    /\ check[c].pc = "begin" /\ Unlocked
    /\ check' = [check EXCEPT ![c] = IF st = "running" THEN [@ EXCEPT !.pc = "which"] ELSE NoCheck]
    /\ UNCHANGED <<cfg, ctrVars, startup, unit, units, log, waiter, deaths, seen>>

\* StartupHCPassed, and what follows without the lock up to the exec.
HealthCheck(c) ==
    /\ check[c].pc = "which" /\ Unlocked
    /\ check' = [check EXCEPT ![c].pc = "exec",
                              ![c].startup = cfg.startup /\ ~startup.Passed,
                              ![c].run = run, ![c].young = young]
    /\ UNCHANGED <<cfg, ctrVars, startup, unit, units, log, waiter, deaths, seen>>

\* The command ends; it cannot succeed if the container it ran in is gone.
ExecEnds(c) ==
    /\ check[c].pc = "exec"
    /\ \E ok \in BOOLEAN :
          /\ ok => run = check[c].run /\ st = "running"
          /\ check' = [check EXCEPT ![c].ok = ok,
                                    ![c].pc = IF check[c].startup THEN "count" ELSE "log"]
    /\ UNCHANGED <<cfg, ctrVars, startup, unit, units, log, waiter, deaths, seen>>

\* incrementStartupHCSuccessCounter up to the save.
incrementStartupHCSuccessCounter(c) ==
    /\ check[c].pc = "count" /\ check[c].ok /\ Unlocked
    /\ LET n == startup.Successes + 1
           passes == ~startup.Passed /\ n >= cfg.Successes
       IN  /\ startup' = IF startup.Passed THEN startup
                         ELSE IF passes THEN [Passed |-> TRUE, Successes |-> 0, Failures |-> 0]
                         ELSE [startup EXCEPT !.Successes = n]
           /\ Goto(c, IF passes THEN "timer" ELSE "log")
    /\ seen' = IF check[c].run = run
               THEN [seen EXCEPT !.passes = Saturate(@ + 1, cfg.Successes)] ELSE seen
    /\ UNCHANGED <<cfg, ctrVars, unit, units, log, waiter, deaths>>

\* The regular timer is created and started, the name of the old one kept.
createTimer(c) ==
    /\ check[c].pc = "timer"
    /\ unit' = [run |-> run, startup |-> FALSE]
    /\ units' = units \cup {unit'}
    /\ Goto(c, "remove")
    /\ UNCHANGED <<cfg, ctrVars, startup, log, waiter, deaths, seen>>

\* A plausible bug: HCUnitName is removed, by now the new unit.
RemoveCurrentUnit(c) ==
    /\ check[c].pc = "remove"
    /\ units' = units \ {unit}
    /\ check' = [removeTransientFiles(unit) EXCEPT ![c].pc = "log"]
    /\ UNCHANGED <<cfg, ctrVars, startup, unit, log, waiter, deaths, seen>>

\* The unit of the startup check is removed: a check it started ends here.
RemoveOldUnit(c) ==
    /\ check[c].pc = "remove"
    /\ LET old == [run |-> run, startup |-> TRUE]
           left == removeTransientFiles(old)
       IN  /\ units' = units \ {old}
           /\ check' = IF left[c] = NoCheck THEN left ELSE [left EXCEPT ![c].pc = "log"]
    /\ UNCHANGED <<cfg, ctrVars, startup, unit, log, waiter, deaths, seen>>

\* With enough failures the container is restarted: stop, which gives up the lock,
\* or at once if it does not run any more, and then nobody removes the unit.
incrementStartupHCFailureCounter(c) ==
    /\ check[c].pc = "count" /\ ~check[c].ok /\ Unlocked
    /\ LET n == Saturate(startup.Failures + 1, cfg.StartupRetries)
           restart == ~startup.Passed /\ cfg.StartupRetries # 0 /\ n >= cfg.StartupRetries
       IN \/ /\ ~restart
             /\ startup' = IF startup.Passed THEN startup ELSE [startup EXCEPT !.Failures = n]
             /\ Goto(c, "log")
             /\ UNCHANGED <<st, run, young, byUser, unit, units, log, seen>>
          \/ /\ restart /\ st = "running"
             /\ startup' = [startup EXCEPT !.Failures = n]
             /\ st' = "dead" /\ byUser' = TRUE
             /\ seen' = [seen EXCEPT !.restart = TRUE]
             /\ Goto(c, "restart")
             /\ UNCHANGED <<run, young, unit, units, log>>
          \/ /\ restart /\ st # "running"
             /\ StartRun(units)
             /\ Goto(c, "log")
    /\ UNCHANGED <<cfg, waiter, deaths>>

\* The rest of restartWithTimeout: the unit is removed, and with it a check that it
\* started.  A container that another process has started meanwhile is not started
\* again, but has lost its timer.
restartWithTimeout(c) ==
    /\ check[c].pc = "restart" /\ Unlocked
    /\ LET left == removeTransientFiles(unit) IN
       /\ check' = IF left[c] = NoCheck THEN left ELSE [left EXCEPT ![c].pc = "log"]
       /\ IF left[c] # NoCheck /\ st # "running" /\ run < MaxRuns
          THEN StartRun(units \ {unit})
          ELSE /\ units' = units \ {unit}
               /\ UNCHANGED <<ctrVars, startup, unit, log, seen>>
    /\ UNCHANGED <<cfg, waiter, deaths>>

\* What is logged of a check that failed, and whether it was in a start period.
Failed(inStartPeriod) ==
    LET n == Saturate(log.FailingStreak + 1, cfg.Retries)
    IN  IF inStartPeriod THEN log
        ELSE [Status |-> IF n >= cfg.Retries THEN "unhealthy" ELSE log.Status,
              FailingStreak |-> n]

\* Nothing is logged in the start period of a container of kube play.
updateHealthCheckLog(c) ==
    /\ check[c].pc = "log" /\ Unlocked
    /\ LET k == check[c]
           silent == cfg.kube /\ k.young /\ ~k.startup
           mine == k.run = run
       IN  /\ log' = IF silent THEN log
                     ELSE IF k.ok THEN [Status |-> "healthy", FailingStreak |-> 0]
                     ELSE Failed(k.startup \/ k.young)
           /\ seen' = IF silent \/ ~mine THEN seen
                      ELSE IF k.ok THEN [seen EXCEPT !.bad = 0, !.good = TRUE]
                      ELSE IF k.startup \/ k.young THEN seen
                      ELSE [seen EXCEPT !.bad = Saturate(@ + 1, cfg.Retries)]
           /\ check' = [check EXCEPT ![c] =
                 IF k.startup \/ silent \/ log'.Status # "unhealthy" \/ cfg.action = "none"
                 THEN NoCheck ELSE [@ EXCEPT !.pc = "act"]]
    /\ UNCHANGED <<cfg, ctrVars, startup, unit, units, waiter, deaths>>

\* A plausible bug: only the check that turns the container unhealthy acts on it.
ActOnce(c) ==
    /\ check[c].pc = "act" /\ Unlocked
    /\ check' = [check EXCEPT ![c] = NoCheck]
    /\ IF st = "running" /\ deaths = 0
       THEN st' = "dead" /\ byUser' = TRUE ELSE UNCHANGED <<st, byUser>>
    /\ UNCHANGED <<cfg, run, young, startup, unit, units, log, waiter, deaths, seen>>

\* The container is stopped or killed, whatever its health is by now; restarting
\* is left to the cleanup.
processHealthCheckStatus(c) ==
    /\ check[c].pc = "act" /\ Unlocked
    /\ check' = [check EXCEPT ![c] = NoCheck]
    /\ IF st = "running" THEN st' = "dead" /\ byUser' = TRUE ELSE UNCHANGED <<st, byUser>>
    /\ UNCHANGED <<cfg, run, young, startup, unit, units, log, waiter, deaths, seen>>

\* A check is killed.
CheckDies(c) ==
    /\ May("die") /\ deaths < MaxDeaths /\ check[c].pc # "idle"
    /\ deaths' = deaths + 1
    /\ check' = [check EXCEPT ![c] = NoCheck]
    /\ UNCHANGED <<cfg, ctrVars, startup, unit, units, log, waiter, seen>>

---------------------------------------------------------------------------
\* A plausible bug: only the health is looked at.
PollKeepsWaiting ==
    /\ waiter.pc = "state" /\ Unlocked
    /\ waiter' = [waiter EXCEPT !.pc = "status"]
    /\ UNCHANGED <<cfg, ctrVars, startup, unit, units, log, check, deaths, seen>>

\* waitForHealthy: is the container still there, twice, and what is its health.
PollState ==
    /\ waiter.pc = "state" /\ Unlocked
    /\ waiter' = [pc |-> "status", stopped |-> IF waiter.stopped > 0 \/ st # "running"
                                               THEN waiter.stopped + 1 ELSE 0]
    /\ UNCHANGED <<cfg, ctrVars, startup, unit, units, log, check, deaths, seen>>

PollStatus ==
    /\ waiter.pc = "status" /\ Unlocked
    /\ waiter' = [waiter EXCEPT !.pc = IF log.Status = "healthy" THEN "ready"
                                      ELSE IF waiter.stopped > 1 THEN "error" ELSE "state"]
    /\ UNCHANGED <<cfg, ctrVars, startup, unit, units, log, check, deaths, seen>>

---------------------------------------------------------------------------
Counting(c) == \/ incrementStartupHCSuccessCounter(c) \/ incrementStartupHCFailureCounter(c)
               \/ createTimer(c) \/ RemoveOldUnit(c) \/ restartWithTimeout(c)

Check(c) == \/ checkHealthCheckCanBeRun(c) \/ HealthCheck(c) \/ ExecEnds(c) \/ Counting(c)
            \/ updateHealthCheckLog(c) \/ processHealthCheckStatus(c)

waitForHealthy == PollState \/ PollStatus

HealthNext ==
    \/ Start \/ ContainerExits \/ ContainerCleanup \/ StartPeriodEnds \/ waitForHealthy
    \/ \E c \in Checks : Fire(c) \/ Check(c) \/ CheckDies(c)

\* systemd fires the timers, a check that was started goes on and its command ends,
\* conmon's cleanup runs, the waiter polls, and time passes.
HealthFairness ==
    /\ WF_healthVars(\E c \in Checks : Fire(c))
    /\ \A c \in Checks : WF_healthVars(Check(c))
    /\ WF_healthVars(ContainerCleanup) /\ WF_healthVars(waitForHealthy)
    /\ WF_healthVars(StartPeriodEnds)

HealthSpec == HealthInit /\ [][HealthNext]_healthVars /\ HealthFairness

---------------------------------------------------------------------------
Units == [run : Nat, startup : BOOLEAN]

\* What is assumed of the constants.
HealthConfigured ==
    /\ Configs \subseteq [startup : BOOLEAN, Successes : Nat, StartupRetries : Nat, Retries : Nat,
                          period : BOOLEAN, kube : BOOLEAN, notify : BOOLEAN, policy : BOOLEAN,
                          action : {"none", "kill", "restart", "stop"},
                          faults : SUBSET {"exit", "stop", "die", "overtake", "user"}]
    /\ MaxRuns \in Nat /\ MaxDeaths \in Nat /\ NoUnit \notin Units

ASSUME HealthAssumption == HealthConfigured

Counters == [Passed : BOOLEAN, Successes : Nat, Failures : Nat]
Logs == [Status : {"none", "starting", "healthy", "unhealthy"}, FailingStreak : Nat]
Runners == [pc : {"idle", "begin", "which", "exec", "count", "timer", "remove", "restart", "log",
                  "act"},
            unit : Units \cup {NoUnit}, startup : BOOLEAN, run : Nat, young : BOOLEAN, ok : BOOLEAN]
Histories == [bad : Nat, good : BOOLEAN, passes : Nat, restart : BOOLEAN]

HealthTypeOK ==
    /\ cfg \in Configs
    /\ st \in {"running", "dead", "exited"} /\ byUser \in BOOLEAN /\ young \in BOOLEAN
    /\ run \in Nat /\ unit \in Units \cup {NoUnit} /\ units \subseteq Units
    /\ startup \in Counters /\ log \in Logs /\ seen \in Histories
    /\ check \in [Checks -> Runners]
    /\ waiter \in [pc : {"none", "state", "status", "ready", "error"}, stopped : Nat]
    /\ deaths \in Nat

\* Every check is started by a timer and dies with its unit: no user runs one, none
\* is killed half way, and no start or restart overtakes the cleanup of the last
\* run.
Tame ==
    /\ cfg.faults \cap {"user", "die", "overtake"} = {}
    /\ cfg.startup /\ cfg.StartupRetries # 0 => cfg.faults \cap {"exit", "stop"} = {}

\* The health of a container is that of this run: it is unhealthy after as many
\* failures in a row, not counting the start period and the startup check, as
\* --health-retries says; healthy after a success; past its startup check after
\* enough successes of that.  Nothing found in an earlier run counts.
Earned ==
    Tame =>
        /\ log.Status = "unhealthy" => seen.bad >= cfg.Retries
        /\ log.Status = "healthy" => seen.good
        /\ startup.Passed => seen.passes >= cfg.Successes

\* A running container has one timer, the one its state names, of the kind it is
\* due; a container that was cleaned up has none.
TimersMatch ==
    Tame /\ Unlocked =>
        /\ st = "running" =>
              units = {unit} /\ unit.startup = (cfg.startup /\ ~startup.Passed)
        /\ st = "exited" => units = {}

\* The on-failure action of a health check hits the run it has checked, and finds
\* it unhealthy still.
OnlyUnhealthyIsStopped ==
    [][\A c \in Checks :
          Tame /\ check[c].pc = "act" /\ check'[c].pc = "idle" /\ st = "running" /\ st' = "dead"
          => log.Status = "unhealthy" /\ check[c].run = run]_healthVars

\* An unhealthy container with an on-failure action is stopped, unless it recovers,
\* also if the check that found out is killed before it acts.
UnhealthyIsActedOn ==
    (cfg.action # "none" /\ st = "running" /\ log.Status = "unhealthy")
        ~> (st # "running" \/ log.Status # "unhealthy")

\* podman start with --sdnotify=healthy does not wait for ever for the health of a
\* container that has stopped.
WaiterReturns == <>[](st # "running") => <>[](waiter.pc \notin {"state", "status"})

\* A container whose startup check has failed as often as --health-startup-retries
\* says is restarted.
StartupRestarts == (seen.restart /\ run < MaxRuns) ~> ~seen.restart
=============================================================================
